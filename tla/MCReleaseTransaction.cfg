CONSTANTS
    Root = root
    Elsewhere = elsewhere
    Releases = {r1, r2}
    Changes = {c1}
    Tags = {a, b}
    Modes <- AllModes
    Others = {"hook file", "hook commit", "commit", "reset", "tag", "push", "remote tag", "merge", "pull", "clone"}
    MaxFaults = 2
    MaxOthers = 2
    None = None
SPECIFICATION Spec
SYMMETRY Symmetry
INVARIANTS
    TypeOK
    RollbackSpares
    RestoredOrJournaled
    OneWholeRelease
    FinishedIsComplete
