\* Peers of every protocol: alone, in pairs, contending for slots, uploading.
CONSTANTS
  None = None
  MaxCommand = 1
  Peers = 4
  Workloads <- AllWorkloads
  MaxConnections = 2
  MaxTurns <- Turnaround
  BrokerDepth = 1
  UploadMax = 1
SPECIFICATION Spec
INVARIANTS SlotsHeld Bookended ReadingsTold UploadsTold
PROPERTIES EveryConnectionEnds
CHECK_DEADLOCK FALSE
