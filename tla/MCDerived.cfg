SPECIFICATION FairSpec
CONSTANTS
  a = a  b = b  r = r  x = x  y = y  m1 = m1  m2 = m2  t1 = t1
  NoPath = NoPath  NoDoc = NoDoc  NoModel = NoModel  Sweeper = Sweeper
  Path = {a, b, r}
  Body = {x, y}
  Markdown = {a, b, r}
  Model = {m1, m2}
  DimsOf <- MCDims
  Task = {t1}
  Call <- MCCall
  Start <- MCStart
  Deployments <- Deployed
  KickBuffer = 1
  QueueSize = 1
  FailLimit = 2
  MaxCalls = 2
  MaxFaults = 1
CHECK_DEADLOCK FALSE
INVARIANTS DerivedTypeOK AnswersCurrent LinksFollow
PROPERTIES NeverClobbers IndexHeals VectorsSettle
