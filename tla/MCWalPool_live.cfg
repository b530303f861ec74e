\* Liveness of the pool.
SPECIFICATION FairSpec
CONSTANTS
  p1 = p1  p2 = p2  a = a  b = b  x = x  y = y
  NoFile = NoFile
  Project <- MCProject
  Path = {a}
  Content = {x, y}
  Request <- LiveRequest
  Worker = {w1, w2}
  MinWorkers = 1
  MaxCommitAttempts = 2
  QuarantineMayFail = FALSE
  HeadMayBeUnreadable = TRUE
  MaxEntries = 2
  MaxFaults = 1
  MaxBadReads = 0
  MaxCrashes = 0
CHECK_DEADLOCK FALSE
PROPERTIES Drains ShutdownCompletes
