\* Two threads share the handle, each exchange may fail or bring back what
\* does not decode.
CONSTANTS
    Thread = {t1, t2}
    Stmt = {q1, q2}
    NoThread = NoThread
    NoStmt = NoStmt
    MaxRows = 1
    Calls = {"exec", "prepare", "step", "reset", "finalize", "close"}
    Faults = {"broker_dies", "write_fails", "undecodable"}
SPECIFICATION Spec
SYMMETRY Symmetry
INVARIANTS
    AnswersReachTheirCallers
    ShimIInv
PROPERTIES
    ExecAndStepReportErrors
    OneCallAtATime
