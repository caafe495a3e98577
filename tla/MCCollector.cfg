\* Sensors that repeat requests, operators that upload evidence, and sessions
\* pushed out by events, on two threads that may restart
CONSTANTS
  w1 = w1
  w2 = w2
  p1 = p1
  Workers = {w1, w2}
  Home <- MCHome
  Nobody = Nobody
  None = None
  Requests <- MCRequests
  Workloads <- MCWorkloads
  SensorSecrets <- MCSensorSecrets
  SensorSources <- MCSensorSources
  OperatorNames <- MCOperatorNames
  Skew = 2
  NonceCapacity = 1
  RateLimit = 1
  RateWindow = 2
  MaxKeys = 1
  MaxArtifacts = 1
  MaxArrivals = 3
  MaxClock = 3
  MaxStops = 1
  Sessions = {1}
  MaxFiles = 1
  Retention = 0
  MaxSaves = 2
  MaxCrashes = 1
  MaxDays = 1
SYMMETRY Symmetric
SPECIFICATION Spec
INVARIANTS ReplaysApart RateHeld QuarantineHeld FilesMatchRows CapacityRestored
CHECK_DEADLOCK FALSE
