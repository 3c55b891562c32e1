CONSTANTS
    Session = {s1, s2}
    Value = {v1}
    Clean = Clean
    NoSession = NoSession
    Faults = {}
    Requests = {"exec", "torn"}
SPECIFICATION Spec
PROPERTY CallersGetTheirResult
