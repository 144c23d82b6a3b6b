SPECIFICATION Spec
CONSTANTS
  s1 = s1
  s2 = s2
  alice = alice
  bob = bob
  r1 = r1
  m1 = m1
  m2 = m2
  Servers = {s1, s2}
  Clients = {alice, bob}
  RoomIDs = {r1}
  IDs = {m1, m2}
  NoID = NoID
  SentStatuses = {2}
  HomeOf <- HomeFn
  RoomIDOf <- RoomFn
  KindOf <- KindFn
  SenderOf <- SenderFn
  TargetOf <- TargetFn
  BroadcastCap = 1
  QueueCap = 1
  MaxHistory = 1
  Leavers = {}
  Plans <- Two
  Statuses = {1}
  RedisMayFail = TRUE
  DBMayFail = TRUE
  StopSignal = FALSE
INVARIANT TypeOK
INVARIANT DeliveredInOrder
INVARIANT OnlyAddressees
INVARIANT StoredWasPublished
PROPERTY RowsOnlyAdvance
CHECK_DEADLOCK FALSE
