\* Analysts list, measure and compare events while others arrive and go
CONSTANTS
  a1 = a1
  a2 = a2
  Analysts = {a1, a2}
  Absent = Absent
  NoContext = NoContext
  Workloads <- MCWorkloads
  Ids = {1, 2, 3, 4, 5}
  PageLimit = 2
  Caps = {1, 3, 5}
  Hours = 1
  Skew = 1
  AnalysisLimit = 3
  Policy <- MCPolicy
  Weight <- MCWeight
  LinkWindow = 2
  LinkEvents = 2
  LinkChoices <- MCLinkChoices
  StaleAfter = 1
  AgedAfter = 3
  MaxMatches = 3
  BucketSize = 2
  MaxString = 2
  MaxItems = 2
  MaxDepth = 2
  MaxArtifacts = 1
  MaxNow = 3
  MaxAnalyses = 2
  MaxLinkings = 2
SYMMETRY Symmetric
SPECIFICATION Spec
INVARIANTS PagesExact LossDisclosed FindingsGrounded AnalysisRepeatable LinksOfOneAnalysis ContextAges
CHECK_DEADLOCK FALSE
