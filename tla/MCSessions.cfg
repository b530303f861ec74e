\* Both kinds of clients, a failing step or a crash.
SPECIFICATION SessionsSpec
CONSTANTS
  p = p  q = q  t1 = t1  t2 = t2  x = x  y = y  bg = bg  m = m  w = w
  Task = {t1, t2}
  Scanner = bg
  Path = {p, q}
  Fragment = {x, y}
  NoFile = NoFile
  None = None
  Call <- MCCall
  Scans = {}
  Outside = {}
  Disposable = {}
  MaxWALEntries = 1
  Failing = {"remove", "log"}
  MaxCalls = 3
  MaxFaults = 1
  MaxCrashes = 1
  Session = {m, w}
  Web = {w}
  Request <- MCRequest
  Slot = {1, 2}
  Buffer = 1
SYMMETRY TaskSymmetry
CHECK_DEADLOCK FALSE
INVARIANTS ClientsTypeOK TreeAgrees AckedRecoverable NothingMissed SubscriptionsHold
PROPERTIES NoLostUpdate CopyReplacesNothing
