\* Background passes and recovery racing writers, with a crash.
SPECIFICATION Spec
CONSTANTS
  p = p  q = q  t1 = t1  t2 = t2  x = x  y = y  bg = bg
  Task = {t1, t2}
  Scanner = bg
  Path = {p, q}
  Fragment = {x}
  NoFile = NoFile
  None = None
  Call <- WriteEach
  Scans = {"sweep", "resync", "repair", "restore"}
  Outside = {"edit"}
  Disposable = {}
  MaxWALEntries = 2
  Failing = {"own", "log", "drain"}
  MaxCalls = 2
  MaxFaults = 1
  MaxCrashes = 1
SYMMETRY TaskSymmetry
CHECK_DEADLOCK FALSE
INVARIANT NothingVanishes
