CONSTANTS
    Entries = {e1}
    Statuses = {"completed", "failed"}
    MaxSeq = 2
    MaxRecords = 2
    SyncMayFail = TRUE
    RemoveMayFail = TRUE
    None = None
SPECIFICATION FairSpec
PROPERTY RetriesConverge
