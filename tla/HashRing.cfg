SPECIFICATION Spec
CONSTANTS
  s1 = s1
  s2 = s2
  s3 = s3
  NoServer = NoServer
  Servers = {s1, s2, s3}
  Replicas = 2
  Space = 6
  MaxCopies = 2
  Hashings <- AllHashings
INVARIANT TypeOK
INVARIANT RoutesToOwner
INVARIANT BystandersSafe
PROPERTY LittleMoves
