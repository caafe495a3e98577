\* Two command lines that arrive in one chunk of the SSH channel.
CONSTANTS
  None = None
  MaxCommand = 1
  Peers = 4
  Workloads <- Pipelined
  MaxConnections = 2
  MaxTurns <- Turnaround
  BrokerDepth = 1
  UploadMax = 1
SPECIFICATION Spec
INVARIANTS CommandsTold
CHECK_DEADLOCK FALSE
