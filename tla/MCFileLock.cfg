\* Two sessions, cancelled at any point, with the reaper, session ends and the sweep.
SPECIFICATION FairSpec
CONSTANTS
  a = a  b = b  d1 = d1  t1 = t1  t2 = t2  s1 = s1  s2 = s2
  Task = {t1, t2}
  Session = {s1, s2}
  SessionOf <- TwoSessions
  Path = {a, b}
  Dir = {d1}
  NumStripes = 2
  StripeOf <- MCStripeOf
  DirStripeOf <- MCDirStripeOf
  Call <- MCCall
  Free = Free
  Orphan = Orphan
  MaxOrphans = 1
INVARIANTS Exclusion WaitsUpward LeasesHeld
PROPERTY CallsReturn
