SPECIFICATION Spec
CONSTANTS
  Publishers = {"app", "operator"}
  App = "app"
  Operator = "operator"
  Builds = {"b1", "b2"}
  Checkout = "b1"
  Bundles <- MCBundles
  SBOMs = {"app.cdx.json"}
  Archives = {"app.tgz"}
  Defective <- MCDefective
  Attested = {"b1", "b2"}
  Policies <- MCPolicies
  Plan <- MCPlan
  AssetsOf <- MCAssetsOf
  Sums = "SHA256SUMS"
  Foreign = "notes.txt"
  PageSize = 2
  Sources <- MCSources
  Payload <- MCPayload
  Configured = {"ci", "main", "repo"}
  MaxFaults = 1
  MaxEdits = 1
  MaxAttempts = 2
  MaxResumes = 1
INVARIANTS
  DoneIsWhole
  PassedIsWhole
  OnlyTestedReleased
  ReleasesHaveTags
  SuccessIsPublished
CHECK_DEADLOCK FALSE
