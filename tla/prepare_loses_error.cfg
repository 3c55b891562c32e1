\* Two threads share the handle: one fails to prepare while the other's exec
\* succeeds.
CONSTANTS
    Thread = {t1, t2}
    Stmt = {q1}
    NoThread = NoThread
    NoStmt = NoStmt
    MaxRows = 0
    Calls = {"exec", "prepare"}
    Faults = {}
SPECIFICATION Spec
PROPERTY PrepareReportsErrors
