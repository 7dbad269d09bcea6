CONSTANTS
    Entries = {e1, e2, e3}
    Statuses = {completed}
    MaxSeq = 3
    MaxRecords = 2
    SyncMayFail = FALSE
    RemoveMayFail = FALSE
    None = None
SPECIFICATION Spec
SYMMETRY Symmetry
INVARIANT AdmissionOrder
