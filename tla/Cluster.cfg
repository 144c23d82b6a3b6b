SPECIFICATION FairSpec
CONSTANTS
  s1 = s1
  s2 = s2
  s3 = s3
  u1 = u1
  Servers = {s1, s2}
  Users = {u1}
  Circle <- TwoOnCircle
  Silence = 1
  MaxStarts = 2
  RedisMayFail = TRUE
  MayLeave = {s1}
  MayCrash = {s2}
INVARIANT TypeOK
INVARIANT PeersWatched
INVARIANT NoRedirectLoop
PROPERTY GhostsPruned
PROPERTY PeersMeet
