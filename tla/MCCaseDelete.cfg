\* A case is reopened between the check of its status and its deletion.
CONSTANTS
  t1 = t1
  t2 = t2
  c1 = c1
  c2 = c2
  i1 = i1
  i2 = i2
  Threads = {t1, t2}
  CaseIds = {c1, c2}
  Items = {i1, i2}
  MaxCases = 1
  MaxEvidence = 1
  MaxNotes = 1
  CaseRetention = 1
  AuditRetention = 1
  AuditRows = 2
  MaxRequests = 4
  MaxClock = 1
  MaxCrashes = 0
SPECIFICATION Spec
PROPERTIES DeletedWasClosed
CHECK_DEADLOCK FALSE
