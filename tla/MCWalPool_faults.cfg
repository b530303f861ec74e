\* Every kind of failure: two faults, an unreadable file and a restart.
SPECIFICATION Spec
CONSTANTS
  p1 = p1  p2 = p2  a = a  b = b  x = x  y = y
  NoFile = NoFile
  Project <- MCProject
  Path = {a, b}
  Content = {x, y}
  Request <- FaultRequest
  Worker = {w1, w2}
  MinWorkers = 1
  MaxCommitAttempts = 2
  QuarantineMayFail = FALSE
  HeadMayBeUnreadable = FALSE
  MaxEntries = 2
  MaxFaults = 2
  MaxBadReads = 1
  MaxCrashes = 1
SYMMETRY WorkerSymmetry
CHECK_DEADLOCK FALSE
INVARIANTS TypeOK OneWorkerPerProject NoEntryLost CommitOrder HeadIsReplay
PROPERTY ImplementsCommitLog
