SPECIFICATION FairSpec
CONSTANTS
  s1 = s1
  s2 = s2
  alice = alice
  bob = bob
  r1 = r1
  m1 = m1
  m2 = m2
  Servers = {s1, s2}
  Clients = {alice, bob}
  RoomIDs = {r1}
  IDs = {m1}
  NoID = NoID
  SentStatuses = {0}
  HomeOf <- HomeFn
  RoomIDOf <- RoomFn
  KindOf <- KindFn
  SenderOf <- SenderFn
  TargetOf <- TargetFn
  BroadcastCap = 1
  QueueCap = 1
  MaxHistory = 2
  Leavers = {bob}
  Plans <- Once
  Statuses = {}
  RedisMayFail = FALSE
  DBMayFail = FALSE
  StopSignal = TRUE
PROPERTY EventuallySaved
PROPERTY EventuallyReceived
CHECK_DEADLOCK FALSE
