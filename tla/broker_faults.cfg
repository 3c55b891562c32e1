\* Two sessions and everything that may go wrong around the broker.
CONSTANTS
    Session = {s1, s2}
    Value = {v1, v2}
    Clean = Clean
    NoSession = NoSession
    Faults = {"client_dies", "write_fails", "open_fails", "broker_stops",
              "exclusive_mode", "outside_reader"}
    Requests = {"exec", "prepare", "torn", "close", "bad"}
SPECIFICATION Spec
SYMMETRY Symmetry
PROPERTY SerialService
