CONSTANTS
  Planners = {w1, w2}
  w1 = w1
  w2 = w2
  None = None
  NoName = ""
  NoRoot = "none"
  Dot = "."
  Key <- MCKey
  Reserved = {"out"}
  Unconfigured = {}
  RawConfigs <- MCRawConfigs
  Sections <- MCSections
  Changes <- MCChanges
  ReleaseRules <- MCReleaseRules
  InitVersion <- MCInitVersion
  MaxComponent = 2
  MaxChanges = 2
SPECIFICATION Spec
INVARIANTS TypeOK LeastClosure ExactlyOnce VersionsGrow ManifestsAgree
PROPERTIES WritesManaged
SYMMETRY Symmetric
