\* Two requests evaluate events of four workloads while operators triage and suppress.
CONSTANTS
  t1 = t1
  t2 = t2
  o1 = o1
  o2 = o2
  A = A
  B = B
  None = None
  Threads = {t1, t2}
  Operators = {o1, o2}
  Enabled <- Rules
  Threshold <- LowThreshold
  Window <- ShortWindow
  Lookback = 2
  SourceLimit = 3
  CredentialLimit = 2
  EvidenceLimit = 2
  Workloads <- AllWorkloads
  MaxTerm = 1
SYMMETRY Symmetry
SPECIFICATION Spec
INVARIANTS BurstsAreAlerts CountsAddUp OneOpenAlert WithheldAsTold
CHECK_DEADLOCK FALSE
