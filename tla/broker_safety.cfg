\* Three sessions, so that two can wait behind a third; clients die, send
\* frames that do not decode, and replies fail to be written at any moment.
CONSTANTS
    Session = {s1, s2, s3}
    Value = {v1}
    Clean = Clean
    NoSession = NoSession
    Faults = {"client_dies", "write_fails"}
    Requests = {"exec", "close", "bad"}
SPECIFICATION Spec
SYMMETRY Symmetry
INVARIANTS
    IInv
    HolderTracksTransaction
    QueueOnlyBehindHolder
    OneJobPerCall
    NoResidue
    NoBusy
PROPERTY ArrivalOrder
