SPECIFICATION Spec
CONSTANTS
    Thread = {t1, t2, t3}
    Addr = {a1, a2, a3, a4, a5}
    NoAddr = NoAddr
    Exported = {"sqlite3_changes", "sqlite3_prepare_v3"}
    Implemented = {"sqlite3_changes"}
SYMMETRY Symmetry
INVARIANTS
    HandlesIInv
    RegistriesExact
    HandlesOutliveTheirUsers
    NothingLeaks
    EveryPointerGoesHome
