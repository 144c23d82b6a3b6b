SPECIFICATION Spec
CONSTANTS
  c1 = c1
  c2 = c2
  u1 = u1
  u2 = u2
  r1 = r1
  NoClient = NoClient
  Clients = {c1, c2}
  Users = {u1}
  RoomIDs = {r1}
  NameOf <- SameUser
  RoomIDOf <- SameRoom
  SendCap = 1
  RegisterCap = 1
  UnregisterCap = 1
  BroadcastCap = 2
  QueueCap = 1
  MaxHistory = 0
  Inputs = {}
  Remote <- RoomOnly
  Acks = {}
  RedisMayFail = FALSE
  StopSignal = FALSE
INVARIANT NoSendOnClosed
CHECK_DEADLOCK FALSE
