\* Two sensor starts where one stream is kept, two ranges kept of three, losses, a heartbeat, a number used twice.
CONSTANTS
  MaxStreams = 1
  MaxRanges = 2
  MaxGaps = 2
  MaxStream = 2
  MaxSent = 5
  MaxBeats = 1
  MaxReuse = 1
  MaxInFlight = 2
SPECIFICATION Spec
INVARIANTS TypeOK RangesKept LossTold
PROPERTIES ImplementsAccount
CHECK_DEADLOCK FALSE
