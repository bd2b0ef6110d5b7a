SPECIFICATION MCSpec
CONSTANTS
  s1 = s1  s2 = s2  s3 = s3
  h1 = h1  h2 = h2
  k1 = k1  k2 = k2
  r1 = r1  r2 = r2
  p1 = p1  p2 = p2  p3 = p3
  i1 = i1  i2 = i2
  f1 = f1  f2 = f2  b1 = b1
  Absent = Absent
  Searches <- ThreeSearches  Target <- Targets  Style <- Styles
  MaxConcurrent = 2  Buffer = 1  Hashes = {h1, h2}  ResultCap = 1  MaxObservations = 2
  Requests = {r1, r2}  Peer <- OneAddress  Op <- BothPublish
  ReplyPorts = {1, 2}  MaxDatagrams = 3  MaxStops = 0
  Addresses = {1}  Families = {"callback", "ping"}  MaxPackets <- PacketLimits
  Window = 2  FloodBan = 3  MaxTime = 6  MaxArrivals = 6
CHECK_DEADLOCK FALSE
INVARIANTS FrontierSettled FanoutWalked PermitsAccounted StreamWithinCap EachAnswerOnce PendingExact BudgetHolds  PublishingPaced
PROPERTIES UsesUpEffort PermitsFromPool
