SPECIFICATION FairSpec
CONSTANTS
  p = p  q = q  t1 = t1  t2 = t2  x = x  y = y  bg = bg
  Task = {t1, t2}
  Scanner = bg
  Path = {p, q}
  Fragment = {x, y}
  NoFile = NoFile
  None = None
  Call <- WriteOne
  Scans = {"drift"}
  Outside = {"commit"}
  Disposable = {}
  MaxWALEntries = 2
  Failing = {}
  MaxCalls = 3
  MaxFaults = 1
  MaxCrashes = 0
PROPERTY SelfHeals
