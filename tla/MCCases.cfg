\* Two threads on two cases: every pair of requests interleaved, with retention and audit pruning.
CONSTANTS
  t1 = t1
  t2 = t2
  c1 = c1
  c2 = c2
  i1 = i1
  i2 = i2
  Threads = {t1, t2}
  CaseIds = {c1, c2}
  Items = {i1, i2}
  MaxCases = 1
  MaxEvidence = 1
  MaxNotes = 1
  CaseRetention = 1
  AuditRetention = 1
  AuditRows = 2
  MaxRequests = 4
  MaxClock = 3
  MaxCrashes = 1
SYMMETRY Symmetry
SPECIFICATION Spec
INVARIANTS TypeOK LimitsHeld HistoryTold AuditTold
CHECK_DEADLOCK FALSE
