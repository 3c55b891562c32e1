\* Two sessions that die, send bad frames, and lose replies.
CONSTANTS
    Session = {s1, s2}
    Value = {v1}
    Clean = Clean
    NoSession = NoSession
    Faults = {"client_dies", "write_fails", "open_fails"}
    Requests = {"exec", "close", "bad"}
SPECIFICATION FairSpec
PROPERTIES
    CallersAnswered
    DeadHolderReleased
