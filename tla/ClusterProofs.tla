--------------------------- MODULE ClusterProofs ---------------------------
(***************************************************************************)
(* What holds of membership and routing for every number of servers and    *)
(* users, every placement on the circle and every time limit.              *)
(***************************************************************************)
EXTENDS Cluster, FiniteSetTheorems, TLAPS

\* A server keeps its own place in its ring and is not about to watch itself.
OwnPlace ==
  \A s \in Servers :
    /\ Serving(s) => s \in Ring[s]
    /\ joining[s] # s

StateInv == TypeOK /\ OwnPlace

\* The position of a server is the place where a user's circle has it.
LEMMA PositionType ==
  ASSUME NEW u \in Users, NEW s \in Servers
  PROVE  Position(u, s) \in 1..Len(Circle[u]) /\ Circle[u][Position(u, s)] = s
BY ClusterAssumption DEF ClusterAssumption, Position

\* It is a number.
LEMMA PositionNat ==
  ASSUME NEW u \in Users, NEW s \in Servers
  PROVE  Position(u, s) \in Nat
<1>1. Len(Circle[u]) \in Nat
  BY ClusterAssumption DEF ClusterAssumption
<1> QED BY <1>1, PositionType

\* No two servers have the same position.
LEMMA PositionUnique ==
  ASSUME NEW u \in Users, NEW s \in Servers, NEW t \in Servers,
         Position(u, s) = Position(u, t)
  PROVE  s = t
BY PositionType

\* Every set of servers has a first one on the circle: the intervals up to
\* their positions are finite sets, among which one contains no other.
LEMMA FirstExists ==
  ASSUME NEW u \in Users, NEW R \in SUBSET Servers, R # {}
  PROVE  \E s \in R : \A t \in R : Position(u, s) <= Position(u, t)
<1> DEFINE Upto(t) == 1..Position(u, t)
           T == {Upto(t) : t \in R}
<1>1. \A t \in R : Upto(t) \in FiniteSubsetsOf(Nat)
  <2> TAKE t \in R
  <2>1. Position(u, t) \in Int /\ 1 \in Int /\ Upto(t) \in SUBSET Nat
    BY PositionNat
  <2>2. IsFiniteSet(Upto(t))
    BY <2>1, FS_Interval
  <2> QED BY <2>1, <2>2 DEF FiniteSubsetsOf
<1>2. T \subseteq FiniteSubsetsOf(Nat) /\ T # {}
  BY <1>1
<1>3. PICK x \in T : \A y \in T : ~(<<y, x>> \in StrictSubsetOrdering(Nat))
  <2> HIDE DEF T
  <2>1. IsWellFoundedOn(StrictSubsetOrdering(Nat), FiniteSubsetsOf(Nat))
    BY FS_StrictSubsetOrderingWellFounded
  <2> QED BY <1>2, <2>1, WFMin
<1>4. PICK s \in R : x = Upto(s)
  OBVIOUS
<1>5. ASSUME NEW t \in R PROVE Position(u, s) <= Position(u, t)
  <2>1. Position(u, s) \in Nat /\ Position(u, t) \in Nat
    BY PositionNat
  <2>2. SUFFICES ASSUME Position(u, t) < Position(u, s) PROVE FALSE
    BY <2>1
  <2>3. Upto(t) \subseteq Upto(s) /\ Position(u, s) \in Upto(s) \ Upto(t)
    BY <2>1, <2>2
  <2>4. <<Upto(t), Upto(s)>> \in StrictSubsetOrdering(Nat)
    BY <2>1, <2>3 DEF StrictSubsetOrdering
  <2> QED BY <1>3, <1>4, <2>4
<1> QED BY <1>5

\* Get returns a member of the ring, and no member comes before it.
LEMMA GetFirst ==
  ASSUME NEW u \in Users, NEW R \in SUBSET Servers, R # {}
  PROVE  /\ Get(R, u) \in R
         /\ \A t \in R : Position(u, Get(R, u)) <= Position(u, t)
BY FirstExists DEF Get

\* Signals that are published keep the channels well typed.
LEMMA PublishType ==
  ASSUME TypeOK, NEW type \in {"JOIN", "LEAVE"}, NEW s \in Servers
  PROVE  Publish(inbox, type, s) \in [Servers -> Seq(Signal)]
<1>1. [type |-> type, server |-> s] \in Signal
  BY DEF Signal
<1> QED BY <1>1 DEF TypeOK, Publish

\* A period makes an entry of LastSeen older, and neither adds nor deletes one.
LEMMA AgeType ==
  ASSUME NEW a \in Ages
  PROVE  Older(a) \in Ages /\ (Older(a) = Unseen <=> a = Unseen)
BY ClusterAssumption DEF ClusterAssumption, Ages, Older, Unseen

\* A freshly booted cluster is well typed.
LEMMA StateInit == Init => StateInv
<1> SUFFICES ASSUME Init PROVE StateInv
  OBVIOUS
<1>1. Unseen \in Ages /\ 0 \in 0..MaxStarts
  BY ClusterAssumption DEF ClusterAssumption, Ages
<1>2. TypeOK
  BY <1>1 DEF Init, TypeOK, Maybe, NoRequest
<1>3. OwnPlace
  BY ClusterAssumption DEF ClusterAssumption, Init, OwnPlace, Serving
<1> QED BY <1>2, <1>3 DEF StateInv

\* What ends a process leaves its state well typed.
LEMMA ForgetType ==
  ASSUME StateInv, NEW s \in Servers, Forget(s)
  PROVE  /\ LastSeen' \in [Servers -> [Servers -> Ages]]
         /\ RedisOnline' \in [Servers -> BOOLEAN]
         /\ inbox' \in [Servers -> Seq(Signal)]
         /\ joining' \in [Servers -> Maybe(Servers)]
         /\ watcher' \in [Servers -> {"due", "prune", "done"}]
         /\ pruning' \in [Servers -> Maybe(Servers)]
         /\ \A t \in Servers : LastSeen'[t][t] = Unseen /\ joining'[t] # t
<1>1. Unseen \in Ages
  BY DEF Ages
<1> QED BY <1>1, ClusterAssumption
        DEF ClusterAssumption, StateInv, TypeOK, OwnPlace, Forget, Maybe

\* Every operation keeps the state well typed and a server in its own ring.
LEMMA StateNext == StateInv /\ [Next]_vars => StateInv'
<1> SUFFICES ASSUME StateInv, [Next]_vars PROVE StateInv'
  OBVIOUS
<1> USE DEF StateInv, membership
<1>u. Unseen \in Ages /\ 0 \in Ages /\ NoServer \notin Servers
  BY ClusterAssumption DEF ClusterAssumption, Ages
<1>1. ASSUME NEW s \in Servers, Start(s) PROVE StateInv'
  <2>1. starts[s] + 1 \in 0..MaxStarts
    BY <1>1, ClusterAssumption DEF ClusterAssumption, Start, TypeOK
  <2>2. inbox' \in [Servers -> Seq(Signal)]
    BY <1>1, PublishType DEF Start
  <2>3. TypeOK'
    BY <1>1, <2>1, <2>2 DEF Start, TypeOK
  <2>4. OwnPlace'
    BY <1>1 DEF Start, TypeOK, OwnPlace, Serving
  <2> QED BY <2>3, <2>4
<1>2. ASSUME NEW s \in Servers, Subscribe(s) PROVE StateInv'
  BY <1>2 DEF Subscribe, TypeOK, OwnPlace, Serving
<1>3. ASSUME NEW s \in Servers, Crash(s) PROVE StateInv'
  <2>1. TypeOK'
    BY <1>3, ForgetType DEF Crash, TypeOK, Forget
  <2>2. OwnPlace'
    BY <1>3, ForgetType DEF Crash, TypeOK, OwnPlace, Serving
  <2> QED BY <2>1, <2>2
<1>4. ASSUME NEW s \in Servers, AnnounceServerLeave(s) PROVE StateInv'
  <2>1. inbox' \in [Servers -> Seq(Signal)]
    BY <1>4, PublishType DEF AnnounceServerLeave
  <2> QED BY <1>4, <2>1 DEF AnnounceServerLeave, TypeOK, OwnPlace, Serving
<1>5. ASSUME NEW s \in Servers, Quit(s) PROVE StateInv'
  <2>1. TypeOK'
    BY <1>5, ForgetType DEF Quit, TypeOK, Forget
  <2>2. OwnPlace'
    BY <1>5, ForgetType DEF Quit, TypeOK, OwnPlace, Serving
  <2> QED BY <2>1, <2>2
<1>6. ASSUME NEW s \in Servers, Watch(s) PROVE StateInv'
  <2>1. inbox' \in [Servers -> Seq(Signal)]
    BY <1>6, PublishType DEF Watch
  <2>2. TypeOK'
    BY <1>6, <2>1 DEF Watch, TypeOK
  <2> QED BY <1>6, <2>2 DEF Watch, OwnPlace, Serving
<1>7. ASSUME NEW s \in Servers, WatchRemove(s) PROVE StateInv'
  <2>1. s \notin Expired(s)
    BY ClusterAssumption DEF ClusterAssumption, Expired, TypeOK, Unseen
  <2>2. PICK t \in Expired(s) : Ring' = [Ring EXCEPT ![s] = @ \ {t}]
                                /\ pruning' = [pruning EXCEPT ![s] = t]
    BY <1>7 DEF WatchRemove
  <2>3. t \in Servers /\ t # s
    BY <2>1, <2>2 DEF Expired
  <2> QED BY <1>7, <2>2, <2>3 DEF WatchRemove, TypeOK, OwnPlace, Serving, Maybe
<1>8. ASSUME NEW s \in Servers, WatchDelete(s) PROVE StateInv'
  <2>1. pruning[s] \in Servers
    BY <1>8 DEF WatchDelete, TypeOK, Maybe
  <2>2. TypeOK'
    BY <1>8, <1>u, <2>1 DEF WatchDelete, TypeOK, Maybe
  <2> QED BY <1>8, <2>1, <2>2 DEF WatchDelete, TypeOK, OwnPlace, Serving
<1>9. ASSUME NEW s \in Servers, WatchDone(s) PROVE StateInv'
  BY <1>9 DEF WatchDone, TypeOK, OwnPlace, Serving
<1>10. ASSUME NEW s \in Servers, ListenJoin(s) PROVE StateInv'
  <2>1. Head(inbox[s]) \in Signal /\ inbox' \in [Servers -> Seq(Signal)]
    BY <1>10 DEF ListenJoin, Receives, TypeOK
  <2>2. Head(inbox[s]).server \in Servers
    BY <2>1 DEF Signal
  <2>3. TypeOK'
    BY <1>10, <2>1, <2>2 DEF ListenJoin, Receives, TypeOK, Maybe
  <2>4. OwnPlace'
    BY <1>10, <1>u, <2>2 DEF ListenJoin, Receives, TypeOK, OwnPlace, Serving
  <2> QED BY <2>3, <2>4
<1>11. ASSUME NEW s \in Servers, JoinSeen(s) PROVE StateInv'
  <2>1. joining[s] \in Servers /\ joining[s] # s
    BY <1>11 DEF JoinSeen, TypeOK, OwnPlace, Maybe
  <2>2. inbox' \in [Servers -> Seq(Signal)]
    BY <1>11, PublishType DEF JoinSeen
  <2>3. TypeOK'
    BY <1>11, <1>u, <2>1, <2>2 DEF JoinSeen, TypeOK, Maybe
  <2>4. OwnPlace'
    BY <1>11, <1>u, <2>1 DEF JoinSeen, TypeOK, OwnPlace, Serving
  <2> QED BY <2>3, <2>4
<1>12. ASSUME NEW s \in Servers, ListenLeave(s) PROVE StateInv'
  <2>1. inbox' \in [Servers -> Seq(Signal)]
    BY <1>12 DEF ListenLeave, Receives, TypeOK
  <2> QED BY <1>12, <2>1 DEF ListenLeave, Receives, TypeOK, OwnPlace, Serving
<1>13. ASSUME NEW u \in Users, Arrive(u) PROVE StateInv'
  <2>1. NoRequest \in [at : Maybe(Servers), from : Maybe(Servers), visited : SUBSET Servers]
    BY DEF NoRequest, Maybe
  <2> QED BY <1>13, <2>1 DEF Arrive, TypeOK, OwnPlace, Serving
<1>14. ASSUME NEW u \in Users, Redirect(u) PROVE StateInv'
  <2>1. request[u].at \in Servers /\ Serving(request[u].at) /\ request[u].visited \subseteq Servers
    BY <1>14 DEF Redirect, TypeOK, Maybe
  <2>2. request[u].at \in Ring[request[u].at] /\ Ring[request[u].at] \in SUBSET Servers
    BY <2>1 DEF TypeOK, OwnPlace
  <2>3. Get(Ring[request[u].at], u) \in Servers
    BY <2>2, GetFirst
  <2>4. [at |-> Get(Ring[request[u].at], u), from |-> request[u].at,
         visited |-> request[u].visited \cup {request[u].at}]
          \in [at : Maybe(Servers), from : Maybe(Servers), visited : SUBSET Servers]
    BY <2>1, <2>3 DEF Maybe
  <2>5. request' \in [Users -> [at : Maybe(Servers), from : Maybe(Servers),
                                visited : SUBSET Servers]]
    BY <1>14, <2>4 DEF Redirect, TypeOK
  <2> QED BY <1>14, <2>5 DEF Redirect, TypeOK, OwnPlace, Serving
<1>15. ASSUME NEW u \in Users, NEW s \in Servers, Dial(u, s) PROVE StateInv'
  <2>1. [request[u] EXCEPT !.at = s] \in [at : Maybe(Servers), from : Maybe(Servers),
                                          visited : SUBSET Servers]
    BY DEF TypeOK, Maybe
  <2>2. request' \in [Users -> [at : Maybe(Servers), from : Maybe(Servers),
                                visited : SUBSET Servers]]
    BY <1>15, <2>1 DEF Dial, TypeOK
  <2> QED BY <1>15, <2>2 DEF Dial, TypeOK, OwnPlace, Serving
<1>16. ASSUME RedisFails \/ RedisReturns PROVE StateInv'
  BY <1>16 DEF RedisFails, RedisReturns, TypeOK, OwnPlace, Serving
<1>17. ASSUME Tick PROVE StateInv'
  <2>1. LastSeen' \in [Servers -> [Servers -> Ages]]
    BY <1>17, AgeType DEF Tick, TypeOK
  <2>2. \A s \in Servers : LastSeen'[s][s] = Unseen
    BY <1>17, AgeType DEF Tick, TypeOK, OwnPlace
  <2> QED BY <1>17, <2>1, <2>2 DEF Tick, TypeOK, OwnPlace, Serving
<1>18. CASE UNCHANGED vars
  BY <1>18 DEF vars, TypeOK, OwnPlace, Serving
<1> QED
  BY <1>1, <1>2, <1>3, <1>4, <1>5, <1>6, <1>7, <1>8, <1>9, <1>10, <1>11, <1>12, <1>13,
     <1>14, <1>15, <1>16, <1>17, <1>18 DEF Next, WatcherStep, ListenerStep

\* Type correctness: rings and ledgers hold servers, no server watches itself,
\* which would prune it from its own ring, and a redirect always names a server,
\* for the ring is never empty.
THEOREM TypeCorrect == Spec => []TypeOK
<1>1. StateInv => TypeOK
  BY DEF StateInv
<1> QED BY <1>1, StateInit, StateNext, PTL DEF Spec

-----------------------------------------------------------------------------
(***************************************************************************)
(* Routing                                                                 *)
(***************************************************************************)

\* Every redirect brings the user to an earlier place on its circle, whatever
\* the rings of the servers are when they decide.
Climbing ==
  \A u \in Users : request[u].at # NoServer =>
    \A v \in request[u].visited : Position(u, request[u].at) < Position(u, v)

RouteInv == StateInv /\ Climbing

\* A redirect goes to the first member of a ring that contains the server itself,
\* hence strictly up; nothing else moves a user that is on its way.
LEMMA RouteNext == RouteInv /\ [Next]_vars => RouteInv'
<1> SUFFICES ASSUME RouteInv, [Next]_vars PROVE Climbing'
  BY StateNext DEF RouteInv
<1> USE DEF RouteInv, StateInv
<1>1. ASSUME NEW u \in Users, Arrive(u) PROVE Climbing'
  <2>1. request' = [request EXCEPT ![u] = NoRequest]
    BY <1>1 DEF Arrive
  <2> QED BY <2>1 DEF Climbing, NoRequest, TypeOK
<1>2. ASSUME NEW u \in Users, NEW s \in Servers, Dial(u, s) PROVE Climbing'
  <2>1. request[u].visited = {} /\ request' = [request EXCEPT ![u].at = s]
    BY <1>2 DEF Dial, NoRequest
  <2>2. request'[u].visited = {}
    BY <2>1 DEF TypeOK
  <2>3. \A w \in Users : w # u => request'[w] = request[w]
    BY <2>1 DEF TypeOK
  <2> QED BY <2>2, <2>3 DEF Climbing
<1>3. ASSUME NEW u \in Users, Redirect(u) PROVE Climbing'
  <2> DEFINE s == request[u].at
             t == Get(Ring[s], u)
  <2>1. /\ s \in Servers /\ s # NoServer /\ Serving(s) /\ t # s
        /\ request' = [request EXCEPT ![u] =
             [at |-> t, from |-> s, visited |-> @.visited \cup {s}]]
        /\ request[u].visited \subseteq Servers
    BY <1>3 DEF Redirect, Redirects, TypeOK, Maybe
  <2>2. s \in Ring[s] /\ Ring[s] \in SUBSET Servers
    BY <2>1 DEF TypeOK, OwnPlace
  <2>3. t \in Servers /\ Position(u, t) <= Position(u, s)
    BY <2>2, GetFirst
  <2>4. Position(u, t) < Position(u, s)
    BY <2>1, <2>3, PositionNat, PositionUnique
  <2>5. ASSUME NEW v \in request[u].visited \cup {s} PROVE Position(u, t) < Position(u, v)
    <3>1. CASE v = s
      BY <2>4, <3>1
    <3>2. CASE v # s
      <4>1. v \in Servers /\ Position(u, s) < Position(u, v)
        BY <2>1, <3>2 DEF Climbing
      <4> QED BY <2>1, <2>3, <2>4, <4>1, PositionNat
    <3> QED BY <3>1, <3>2
  <2>6. /\ request'[u].at = t /\ request'[u].visited = request[u].visited \cup {s}
        /\ \A w \in Users : w # u => request'[w] = request[w]
    BY <2>1 DEF TypeOK
  <2> HIDE DEF t
  <2> QED BY <2>5, <2>6 DEF Climbing
<1>4. CASE UNCHANGED request
  BY <1>4 DEF Climbing
<1> QED
  BY <1>1, <1>2, <1>3, <1>4
     DEF Next, WatcherStep, ListenerStep, vars, Start, Subscribe, Crash, Forget, Quit,
         AnnounceServerLeave, Watch, WatchRemove, WatchDelete, WatchDone, ListenJoin, JoinSeen,
         ListenLeave, Receives, RedisFails, RedisReturns, Tick

\* Who only climbs never comes back.
LEMMA ClimbingEnds == RouteInv => NoRedirectLoop
<1> SUFFICES ASSUME RouteInv, NEW u \in Users, request[u].at # NoServer
             PROVE  /\ request[u].at \notin request[u].visited
                    /\ Serving(request[u].at) =>
                         Get(Ring[request[u].at], u) \notin request[u].visited
  BY DEF NoRedirectLoop
<1> USE DEF RouteInv, StateInv
<1> DEFINE s == request[u].at
<1>1. s \in Servers /\ request[u].visited \subseteq Servers
  BY DEF TypeOK, Maybe
<1>2. \A v \in request[u].visited : Position(u, s) < Position(u, v) /\ Position(u, v) \in Nat
  BY <1>1, PositionNat DEF Climbing
<1>3. s \notin request[u].visited
  BY <1>1, <1>2, PositionNat
<1>4. ASSUME Serving(s) PROVE Get(Ring[s], u) \notin request[u].visited
  <2>1. s \in Ring[s] /\ Ring[s] \in SUBSET Servers
    BY <1>1, <1>4 DEF TypeOK, OwnPlace
  <2>2. Get(Ring[s], u) \in Servers /\ Position(u, Get(Ring[s], u)) <= Position(u, s)
    BY <2>1, GetFirst
  <2> QED BY <1>1, <1>2, <2>2, PositionNat
<1> QED BY <1>3, <1>4

\* However many servers there are, and however their rings differ and change
\* between the hops, serveWS sends no user back to a server that has already
\* redirected it.
THEOREM NoRedirectLoopHolds == Spec => []NoRedirectLoop
<1>1. Init => RouteInv
  BY StateInit DEF RouteInv, Init, Climbing, NoRequest
<1> QED BY <1>1, RouteNext, ClimbingEnds, PTL DEF Spec

-----------------------------------------------------------------------------
(***************************************************************************)
(* The watcher and the listener                                            *)
(***************************************************************************)

\* A server whose goroutines do not run is in the middle of nothing, and a
\* ring starts with its owner.
Outside ==
  \A s \in Servers : ~Active(s) =>
    /\ joining[s] = NoServer /\ pruning[s] = NoServer
    /\ status[s] = "starting" => Ring[s] = {s}

\* The watcher deletes a peer from LastSeen under h.mu; if the listener has put
\* the peer back into the ring meanwhile, it waits for h.mu to note it again.
PruneUnderLock ==
  \A s \in Servers : pruning[s] # NoServer =>
    /\ watcher[s] = "prune"
    /\ pruning[s] \in Ring[s] => joining[s] = pruning[s]

WatchInv == StateInv /\ Outside /\ PruneUnderLock /\ PeersWatched

\* One step of any goroutine of any server leaves no peer unwatched.
LEMMA WatchNext == WatchInv /\ [Next]_vars => WatchInv'
<1> SUFFICES ASSUME WatchInv, [Next]_vars
             PROVE  Outside' /\ PruneUnderLock' /\ PeersWatched'
  BY StateNext DEF WatchInv
<1> USE DEF WatchInv, StateInv, membership
<1>u. NoServer \notin Servers /\ 0 # Unseen
  BY ClusterAssumption DEF ClusterAssumption, Unseen
<1>1. ASSUME NEW s \in Servers, Start(s) PROVE Outside' /\ PruneUnderLock' /\ PeersWatched'
  BY <1>1 DEF Start, TypeOK, Outside, PruneUnderLock, PeersWatched, Active
<1>2. ASSUME NEW s \in Servers, Subscribe(s) PROVE Outside' /\ PruneUnderLock' /\ PeersWatched'
  BY <1>2 DEF Subscribe, TypeOK, Outside, PruneUnderLock, PeersWatched, Active
<1>3. ASSUME NEW s \in Servers, Crash(s) PROVE Outside' /\ PruneUnderLock' /\ PeersWatched'
  BY <1>3 DEF Crash, Forget, TypeOK, Outside, PruneUnderLock, PeersWatched, Active
<1>4. ASSUME NEW s \in Servers, AnnounceServerLeave(s)
      PROVE  Outside' /\ PruneUnderLock' /\ PeersWatched'
  BY <1>4 DEF AnnounceServerLeave, TypeOK, Outside, PruneUnderLock, PeersWatched, Active
<1>5. ASSUME NEW s \in Servers, Quit(s) PROVE Outside' /\ PruneUnderLock' /\ PeersWatched'
  BY <1>5 DEF Quit, Forget, TypeOK, Outside, PruneUnderLock, PeersWatched, Active
<1>6. ASSUME NEW s \in Servers, Watch(s) PROVE Outside' /\ PruneUnderLock' /\ PeersWatched'
  BY <1>6 DEF Watch, TypeOK, Outside, PruneUnderLock, PeersWatched, Active
<1>7. ASSUME NEW s \in Servers, WatchRemove(s)
      PROVE  Outside' /\ PruneUnderLock' /\ PeersWatched'
  <2>1. PICK t \in Expired(s) : Ring' = [Ring EXCEPT ![s] = @ \ {t}]
                                /\ pruning' = [pruning EXCEPT ![s] = t]
    BY <1>7 DEF WatchRemove
  <2>2. Outside'
    BY <1>7, <2>1 DEF WatchRemove, TypeOK, Outside, Active
  <2>3. PruneUnderLock'
    BY <1>7, <2>1 DEF WatchRemove, TypeOK, PruneUnderLock
  <2>4. PeersWatched'
    BY <1>7, <2>1 DEF WatchRemove, TypeOK, PeersWatched, Active
  <2> QED BY <2>2, <2>3, <2>4
<1>8. ASSUME NEW s \in Servers, WatchDelete(s)
      PROVE  Outside' /\ PruneUnderLock' /\ PeersWatched'
  <2>1. pruning[s] \in Servers
    BY <1>8 DEF WatchDelete, TypeOK, Maybe
  <2>2. Outside' /\ PruneUnderLock'
    BY <1>8 DEF WatchDelete, TypeOK, Outside, PruneUnderLock, Active
  <2>3. PeersWatched'
    BY <1>8, <2>1 DEF WatchDelete, TypeOK, PruneUnderLock, PeersWatched, Active
  <2> QED BY <2>2, <2>3
<1>9. ASSUME NEW s \in Servers, WatchDone(s) PROVE Outside' /\ PruneUnderLock' /\ PeersWatched'
  BY <1>9 DEF WatchDone, TypeOK, Outside, PruneUnderLock, PeersWatched, Active
<1>10. ASSUME NEW s \in Servers, ListenJoin(s)
       PROVE  Outside' /\ PruneUnderLock' /\ PeersWatched'
  <2>1. Outside'
    BY <1>10 DEF ListenJoin, Receives, TypeOK, Outside, Active
  <2>2. PruneUnderLock'
    BY <1>10 DEF ListenJoin, Receives, TypeOK, PruneUnderLock
  <2>3. PeersWatched'
    BY <1>10, <1>u DEF ListenJoin, Receives, TypeOK, PeersWatched, Active
  <2> QED BY <2>1, <2>2, <2>3
<1>11. ASSUME NEW s \in Servers, JoinSeen(s) PROVE Outside' /\ PruneUnderLock' /\ PeersWatched'
  <2>1. joining[s] \in Servers /\ pruning[s] = NoServer
    BY <1>11 DEF JoinSeen, TypeOK, Maybe, PruneUnderLock
  <2>2. Outside' /\ PruneUnderLock'
    BY <1>11, <2>1 DEF JoinSeen, TypeOK, Outside, PruneUnderLock, Active
  <2>3. PeersWatched'
    BY <1>11, <1>u, <2>1 DEF JoinSeen, TypeOK, PeersWatched, Active
  <2> QED BY <2>2, <2>3
<1>12. ASSUME NEW s \in Servers, ListenLeave(s)
       PROVE  Outside' /\ PruneUnderLock' /\ PeersWatched'
  BY <1>12 DEF ListenLeave, Receives, TypeOK, Outside, PruneUnderLock, PeersWatched, Active
<1>13. CASE \E u \in Users : Arrive(u) \/ Redirect(u) \/ \E s \in Servers : Dial(u, s)
  BY <1>13 DEF Arrive, Redirect, Dial, Outside, PruneUnderLock, PeersWatched, Active
<1>14. CASE RedisFails \/ RedisReturns
  BY <1>14 DEF RedisFails, RedisReturns, Outside, PruneUnderLock, PeersWatched, Active
<1>15. CASE Tick
  <2>1. \A s \in Servers : pruning[s] = NoServer
    BY <1>15 DEF Tick, Quiet, Outside, PruneUnderLock, TypeOK
  <2>2. \A s, t \in Servers : LastSeen[s][t] # Unseen => LastSeen'[s][t] # Unseen
    BY <1>15, AgeType DEF Tick, TypeOK
  <2>3. Outside' /\ PruneUnderLock'
    BY <1>15, <2>1 DEF Tick, Outside, PruneUnderLock, Active
  <2>4. PeersWatched'
    BY <1>15, <2>2 DEF Tick, TypeOK, PeersWatched, Active
  <2> QED BY <2>3, <2>4
<1>16. CASE UNCHANGED vars
  BY <1>16 DEF vars, Outside, PruneUnderLock, PeersWatched, Active
<1> QED
  BY <1>1, <1>2, <1>3, <1>4, <1>5, <1>6, <1>7, <1>8, <1>9, <1>10, <1>11, <1>12, <1>13,
     <1>14, <1>15, <1>16 DEF Next, WatcherStep, ListenerStep

\* No interleaving of the listener, which adds to the ring outside h.mu, with
\* the watcher leaves a peer in the ring that nobody would ever prune.
THEOREM PeersWatchedHolds == Spec => []PeersWatched
<1>1. Init => WatchInv
  BY StateInit DEF WatchInv, Init, Outside, PruneUnderLock, PeersWatched, Active
<1>2. WatchInv => PeersWatched
  BY DEF WatchInv
<1> QED BY <1>1, <1>2, WatchNext, PTL DEF Spec
=============================================================================
