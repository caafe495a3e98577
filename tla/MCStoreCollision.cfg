\* A late event starts a session at the second an older one started.
CONSTANTS
  t1 = t1
  t2 = t2
  t3 = t3
  p1 = p1
  p2 = p2
  NoToken = NoToken
  Threads = {t1}
  Processes = {p1}
  ProcessOf <- OneProcess
  Offered <- Scattered
  SessionGap = 1
  RetentionDays = 0
  MaxEvents = 9
  MaintainEvery = 9
  MaxSkew = 9
  MaxClock = 4
  MaxRestarts = 0
  MaxFaults = 0
  MaxEdits = 0
  MaxVerify = 0
  MaxStreams = 2
  MaxRanges = 2
  MaxGaps = 2
SPECIFICATION Spec
INVARIANTS DuplicateMeansStored
CHECK_DEADLOCK FALSE
