\* Two workers of one release and one of an older one start together, die and start again.
CONSTANTS
  w1 = w1
  w2 = w2
  old = old
  Workers = {w1, w2, old}
  LatestOf <- Releases
  Versions <- FirstVersions
  Keep = 2
  MaxDeaths = 2
  MaxScheduled = 1
SPECIFICATION Spec
INVARIANTS AppliedInOrder DoneIsCurrent FilesAreWhatTheySay
PROPERTIES EveryWorkerStarts
CHECK_DEADLOCK FALSE
