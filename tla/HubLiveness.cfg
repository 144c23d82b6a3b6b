SPECIFICATION FairSpec
CONSTANTS
  c1 = c1
  c2 = c2
  u1 = u1
  u2 = u2
  r1 = r1
  NoClient = NoClient
  Clients = {c1}
  Users = {u1, u2}
  RoomIDs = {r1}
  NameOf <- SameUser
  RoomIDOf <- SameRoom
  SendCap = 1
  RegisterCap = 1
  UnregisterCap = 1
  BroadcastCap = 1
  QueueCap = 1
  MaxHistory = 1
  Inputs = {"durable", "command", "flood"}
  Remote <- Anything
  Acks = {}
  RedisMayFail = TRUE
  StopSignal = FALSE
PROPERTY GoneIsCleaned
PROPERTY SlowConsumerDropped
CHECK_DEADLOCK FALSE
