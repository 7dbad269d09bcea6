CONSTANTS
    Entries = {e1, e2}
    Statuses = {completed, failed}
    MaxSeq = 2
    MaxRecords = 2
    SyncMayFail = TRUE
    RemoveMayFail = TRUE
    None = None
SPECIFICATION Spec
SYMMETRY Symmetry
INVARIANTS
    TypeOK
    PromiseKept
    TerminalStays
    BookkeepingExact
PROPERTY ImplementsBacklog
