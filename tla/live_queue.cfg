\* Three sessions, so that a waiting one can be overtaken again and again.
CONSTANTS
    Session = {s1, s2, s3}
    Value = {v1}
    Clean = Clean
    NoSession = NoSession
    Faults = {}
    Requests = {"exec"}
SPECIFICATION FairSpec
PROPERTY CallersAnswered
