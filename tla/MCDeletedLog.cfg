SPECIFICATION Spec
CONSTANTS
  a = a  b = b  x = x  y = y  c1 = c1  c2 = c2
  Path = {a, b}
  Content = {x, y}
  Caller = {c1, c2}
  MaxEntries = 1
  RepairDepth = 3
  MaxCommits = 5
  MaxFiles = 2
  MaxQueue = 1
  MaxFaults = 1
SYMMETRY Symmetry
CHECK_DEADLOCK FALSE
INVARIANTS LogSound LogAgreesWithWalk
