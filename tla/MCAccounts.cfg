SPECIFICATION Spec
CONSTANTS
  u1 = u1  u2 = u2  pw1 = pw1  pw2 = pw2  adm = adm  one = one  none = none
  r1 = r1  r2 = r2  c1 = c1  c2 = c2
  User = {u1, u2}
  Password = {pw1, pw2}
  Scope = {adm, one, none}
  AdminScope = adm
  NoScope = none
  Pruned <- MCPruned
  Req = {r1, r2}
  Conn = {c1, c2}
  AllowFirstRun = TRUE
  SessionTTL = 1
  InviteTTL = 1
  CeremonyTTL = 1
  MaxId = 6
  MaxNow = 2
  MaxEvents = 4
SYMMETRY Symmetry
CHECK_DEADLOCK FALSE
INVARIANTS TypeOK AdmitOnce CutsAreFinal
