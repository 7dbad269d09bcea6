CONSTANTS
    Root = root
    Elsewhere = elsewhere
    Releases = {r1, r2, r3}
    Changes = {c1}
    Tags = {a, b}
    Modes <- FullModes
    Others = {}
    MaxFaults = 2
    MaxOthers = 0
    None = None
SPECIFICATION FairSpec
PROPERTY ReleaseCompletes
