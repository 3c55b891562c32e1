\* One thread, two statements, every operation and a broker that may die: the
\* life of statements and handle.
CONSTANTS
    Thread = {t1}
    Stmt = {q1, q2}
    NoThread = NoThread
    NoStmt = NoStmt
    MaxRows = 2
    Calls = {"exec", "prepare", "step", "bind", "reset", "finalize", "close"}
    Faults = {"broker_dies", "write_fails"}
SPECIFICATION Spec
SYMMETRY Symmetry
INVARIANTS
    RunsOncePerReset
    RowsBelongToBindings
    HandleOutlivesItsStatements
    MirrorTracksTransaction
