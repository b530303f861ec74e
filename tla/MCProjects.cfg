SPECIFICATION Spec
CONSTANTS
  dflt = dflt  na = na  nb = nb  pa = pa  pb = pb  r1 = r1  r2 = r2  w1 = w1
  NoName = NoName
  Ns = {dflt, na, nb}
  Proj = {pa, pb}
  Default = dflt
  Req = {r1, r2}
  Writer = {w1}
  FirstNs = na
  FirstProj = pa
  UserScope <- MCUserScope
  TokenScope <- MCTokenScope
  MaxOps = 2
  MaxFaults = 2
SYMMETRY Symmetry
CHECK_DEADLOCK FALSE
INVARIANTS ProjectsSound AccessFollowsProject AckedInProject
