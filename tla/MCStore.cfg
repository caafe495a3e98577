\* Two workers share the tables, two threads a counter; one worker under out-of-band edits; sessions in any order of events.
CONSTANTS
  t1 = t1
  t2 = t2
  t3 = t3
  p1 = p1
  p2 = p2
  NoToken = NoToken
  Threads = {t1, t2, t3}
  Processes = {p1, p2}
  ProcessOf <- TwoProcesses
  Offered <- SixEvents
  SessionGap = 1
  RetentionDays = 2
  MaxEvents = 1
  MaintainEvery = 2
  MaxSkew = 1
  MaxClock = 4
  MaxRestarts = 1
  MaxFaults = 1
  MaxEdits = 1
  MaxVerify = 1
  MaxStreams = 2
  MaxRanges = 2
  MaxGaps = 2
SPECIFICATION Spec
CONSTRAINT Scenarios
SYMMETRY Symmetric
INVARIANTS TypeOK LinearChain VerifiedMeansIntact IntactVerdict OrderedPrunesKeepChain SessionsConsistent CapacityBounded NumbersCounted
CHECK_DEADLOCK FALSE
