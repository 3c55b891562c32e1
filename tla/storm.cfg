\* Two processes, each with an insert, a change or a delete, on a new handle.
SPECIFICATION FairSpec
CONSTANTS
    Apps = 2
    Ops = 2
    Every = 1
    Faults <- MCFaults
INVARIANTS
    ReportIInv
    MigratedOnce
    SchemaMatchesVersions
    ReportedWritesAreInTheFile
    AuditAccepts
    OnlyTheKilledFail
PROPERTY StormEnds
