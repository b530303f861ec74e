SPECIFICATION Spec
CONSTANTS
  r1 = r1  r2 = r2  a1 = a1  a2 = a2
  corp = corp  sub = sub  url = url  dcr = dcr  conf = conf  cli = cli
  all = all  one = one  none = none  op = op
  Domain = {corp, sub}
  Under <- MCUnder
  Cimd = {url}
  Dcr = {dcr}
  Conf = {conf}
  Self = cli
  HostOf <- MCHostOf
  Scope = {all, one, none}
  Star = all
  Pruned <- MCPruned
  Principal = {op}
  Bound = op
  Ttl <- MCTtl
  Seeds = {corp}
  AccessTTL = 1
  RefreshTTL = 2
  CodeTTL = 1
  Legacy = TRUE
  Req = {r1, r2}
  Admin = {a1, a2}
  MaxEntries = 2
  MaxHandles = 6
  MaxNow = 3
  MaxEvents = 4
SYMMETRY Symmetry
CHECK_DEADLOCK FALSE
INVARIANTS TypeOK TokensResolve CodeOnce
PROPERTIES NoResurrection DeletedStaysDeleted
