------------------------------ MODULE Cluster ------------------------------
(***************************************************************************)
(* Membership and routing of the cluster: NewHub, IsOnline,                *)
(* announceServerAdd, AnnounceServerLeave and the JOIN and LEAVE branches  *)
(* of ListenToRedis (internal/chat/hub.go), the ring they maintain         *)
(* (internal/hashing/consistent.go) and the redirect of serveWS            *)
(* (cmd/server/main.go).                                                   *)
(*                                                                         *)
(* A ring is the set of its members.  Walking the circle clockwise from    *)
(* the hash of a user meets the servers in an order that does not depend   *)
(* on who is a member; Get returns the first member in that order.  Two    *)
(* virtual nodes with the same hash are left out.                          *)
(*                                                                         *)
(* Time advances in periods of the watcher's ticker, five seconds; every   *)
(* running server's watcher fires once in a period and signals arrive in   *)
(* the period they are sent in.                                            *)
(***************************************************************************)
EXTENDS Integers, Sequences

CONSTANTS
  Servers,
  Users,
  Circle,        \* user -> the servers, in the order met from the user's hash
  Silence,       \* periods after which a peer is pruned     (4 in the code)
  MaxStarts,     \* bound: how often a server is started
  RedisMayFail,  \* may Redis be unreachable for a while?
  MayLeave,      \* servers that may receive SIGTERM
  MayCrash       \* servers that may crash

NoServer == "none"
Maybe(S) == S \cup {NoServer}

ASSUME ClusterAssumption ==
  /\ NoServer \notin Servers
  /\ Circle \in [Users -> Seq(Servers)]
  /\ \A u \in Users, s \in Servers : \E i \in 1..Len(Circle[u]) : Circle[u][i] = s
  /\ \A u \in Users : \A i, j \in 1..Len(Circle[u]) : Circle[u][i] = Circle[u][j] => i = j
  /\ Silence \in Nat /\ MaxStarts \in Nat
  /\ RedisMayFail \in BOOLEAN
  /\ MayLeave \subseteq Servers /\ MayCrash \subseteq Servers

Signal == [type : {"JOIN", "LEAVE"}, server : Servers]

\* LastSeen[t], as its age in periods; ages past Silence + 1 are not told apart.
Unseen == -1
Ages   == {Unseen} \cup 0..(Silence + 1)

VARIABLES
  status,      \* server -> "down", "starting" (not subscribed yet), "up",
               \* "leaving" (LEAVE sent) or "quit"
  starts,      \* server -> how often it was started
  Ring,        \* server -> members of its ring
  LastSeen,    \* server -> server -> age
  RedisOnline, \* server -> its atomic.Bool
  inbox,       \* server -> signals that ListenToRedis has not read
  joining,     \* server -> the peer it has added and not yet noted in LastSeen
  watcher,     \* server -> "due", "prune" (holding h.mu) or "done" in this period
  pruning,     \* server -> the peer it has removed and not yet deleted from LastSeen
  redisUp,     \* is Redis reachable?
  request      \* user -> where its connection attempt is, and where it has been

membership == <<Ring, LastSeen, joining, pruning>>
vars == <<status, starts, RedisOnline, membership, inbox, watcher, redisUp, request>>

TypeOK ==
  /\ status \in [Servers -> {"down", "starting", "up", "leaving", "quit"}]
  /\ starts \in [Servers -> 0..MaxStarts]
  /\ Ring \in [Servers -> SUBSET Servers]
  /\ LastSeen \in [Servers -> [Servers -> Ages]]
  /\ \A s \in Servers : LastSeen[s][s] = Unseen   \* no server watches itself
  /\ RedisOnline \in [Servers -> BOOLEAN]
  /\ inbox \in [Servers -> Seq(Signal)]
  /\ joining \in [Servers -> Maybe(Servers)]
  /\ watcher \in [Servers -> {"due", "prune", "done"}]
  /\ pruning \in [Servers -> Maybe(Servers)]
  /\ redisUp \in BOOLEAN
  /\ request \in [Users -> [at : Maybe(Servers), from : Maybe(Servers),
                            visited : SUBSET Servers]]

NoRequest == [at |-> NoServer, from |-> NoServer, visited |-> {}]

Init ==
  /\ status = [s \in Servers |-> "down"]
  /\ starts = [s \in Servers |-> 0]
  /\ Ring = [s \in Servers |-> {}]
  /\ LastSeen = [s \in Servers |-> [t \in Servers |-> Unseen]]
  /\ RedisOnline = [s \in Servers |-> FALSE]
  /\ inbox = [s \in Servers |-> <<>>]
  /\ joining = [s \in Servers |-> NoServer]
  /\ watcher = [s \in Servers |-> "done"]
  /\ pruning = [s \in Servers |-> NoServer]
  /\ redisUp = TRUE
  /\ request = [u \in Users |-> NoRequest]

\* The watcher and the listener of s, or at least its HTTP server, are running.
Active(s)  == status[s] \in {"up", "leaving"}
Serving(s) == status[s] # "down"

\* Publish on global_signals reaches every subscribed server, the sender too.
\* Its error is ignored: the signal is lost when Redis is unreachable.
Publish(box, type, s) ==
  [t \in Servers |-> IF redisUp /\ Active(t)
                     THEN Append(box[t], [type |-> type, server |-> s]) ELSE box[t]]

-----------------------------------------------------------------------------
(***************************************************************************)
(* The life of a server                                                    *)
(***************************************************************************)

\* main (which ends when Redis does not answer) and NewHub.  The JOIN goes out
\* while the listener it has just started may not have subscribed yet.
Start(s) ==
  /\ status[s] = "down" /\ starts[s] < MaxStarts /\ redisUp
  /\ status' = [status EXCEPT ![s] = "starting"]
  /\ starts' = [starts EXCEPT ![s] = @ + 1]
  /\ Ring' = [Ring EXCEPT ![s] = {s}]
  /\ RedisOnline' = [RedisOnline EXCEPT ![s] = TRUE]
  /\ inbox' = Publish(inbox, "JOIN", s)
  /\ UNCHANGED <<LastSeen, joining, pruning, watcher, redisUp, request>>

\* ListenToRedis subscribes to global_signals; go-redis keeps the subscription.
Subscribe(s) ==
  /\ status[s] = "starting"
  /\ status' = [status EXCEPT ![s] = "up"]
  /\ UNCHANGED <<starts, RedisOnline, membership, inbox, watcher, redisUp, request>>

\* What a process loses when it ends.
Forget(s) ==
  /\ LastSeen' = [LastSeen EXCEPT ![s] = [t \in Servers |-> Unseen]]
  /\ RedisOnline' = [RedisOnline EXCEPT ![s] = FALSE]
  /\ inbox' = [inbox EXCEPT ![s] = <<>>]
  /\ joining' = [joining EXCEPT ![s] = NoServer]
  /\ watcher' = [watcher EXCEPT ![s] = "done"]
  /\ pruning' = [pruning EXCEPT ![s] = NoServer]
  /\ UNCHANGED <<starts, redisUp, request>>

\* A crash, or the end of a process that has quit.
Crash(s) ==
  /\ status[s] = "quit" \/ (Serving(s) /\ s \in MayCrash)
  /\ status' = [status EXCEPT ![s] = "down"]
  /\ Ring' = [Ring EXCEPT ![s] = {}]
  /\ Forget(s)

\* SIGTERM: AnnounceServerLeave, and only then close(h.Quit).
AnnounceServerLeave(s) ==
  /\ status[s] = "up" /\ s \in MayLeave
  /\ status' = [status EXCEPT ![s] = "leaving"]
  /\ inbox' = Publish(inbox, "LEAVE", s)
  /\ UNCHANGED <<starts, RedisOnline, membership, watcher, redisUp, request>>

\* The watcher and the listener end.  wg.Wait does not return and the HTTP
\* server is not shut down: the process goes on routing by the ring it has.
Quit(s) ==
  /\ status[s] = "leaving" /\ watcher[s] # "prune"
  /\ status' = [status EXCEPT ![s] = "quit"]
  /\ UNCHANGED Ring
  /\ Forget(s)

-----------------------------------------------------------------------------
(***************************************************************************)
(* IsOnline                                                                *)
(***************************************************************************)

\* Mutant: the two branches for a reachable Redis are swapped.
WatchSwapped(s) ==
  /\ Active(s) /\ watcher[s] = "due"
  /\ RedisOnline' = [RedisOnline EXCEPT ![s] = redisUp]
  /\ inbox' = Publish(inbox, "JOIN", s)
  /\ watcher' = [watcher EXCEPT ![s] = IF redisUp /\ ~RedisOnline[s] THEN "prune" ELSE "done"]
  /\ UNCHANGED <<status, starts, membership, redisUp, request>>

\* Mutant: the heartbeat is sent only when Redis comes back.
WatchSilent(s) ==
  /\ Active(s) /\ watcher[s] = "due"
  /\ RedisOnline' = [RedisOnline EXCEPT ![s] = redisUp]
  /\ inbox' = IF RedisOnline[s] THEN inbox ELSE Publish(inbox, "JOIN", s)
  /\ watcher' = [watcher EXCEPT ![s] = IF redisUp /\ RedisOnline[s] THEN "prune" ELSE "done"]
  /\ UNCHANGED <<status, starts, membership, redisUp, request>>

\* The ticker fires: Ping, and the heartbeat.
Watch(s) ==
  /\ Active(s) /\ watcher[s] = "due"
  /\ RedisOnline' = [RedisOnline EXCEPT ![s] = redisUp]
  /\ inbox' = Publish(inbox, "JOIN", s)
  /\ watcher' = [watcher EXCEPT ![s] = IF redisUp /\ RedisOnline[s] THEN "prune" ELSE "done"]
  /\ UNCHANGED <<status, starts, membership, redisUp, request>>

Expired(s) == {t \in Servers : LastSeen[s][t] > Silence}

\* Under h.mu: Ring.Remove(t), which has a lock of its own, then delete.
WatchRemove(s) ==
  /\ Active(s) /\ watcher[s] = "prune" /\ pruning[s] = NoServer
  /\ \E t \in Expired(s) :
       /\ Ring' = [Ring EXCEPT ![s] = @ \ {t}]
       /\ pruning' = [pruning EXCEPT ![s] = t]
  /\ UNCHANGED <<status, starts, RedisOnline, LastSeen, joining, inbox, watcher, redisUp, request>>

WatchDelete(s) ==
  /\ Active(s) /\ pruning[s] # NoServer
  /\ LastSeen' = [LastSeen EXCEPT ![s][pruning[s]] = Unseen]
  /\ pruning' = [pruning EXCEPT ![s] = NoServer]
  /\ UNCHANGED <<status, starts, RedisOnline, Ring, joining, inbox, watcher, redisUp, request>>

WatchDone(s) ==
  /\ Active(s) /\ watcher[s] = "prune" /\ pruning[s] = NoServer /\ Expired(s) = {}
  /\ watcher' = [watcher EXCEPT ![s] = "done"]
  /\ UNCHANGED <<status, starts, RedisOnline, membership, inbox, redisUp, request>>

-----------------------------------------------------------------------------
(***************************************************************************)
(* ListenToRedis                                                           *)
(***************************************************************************)
Receives(s, type) ==
  /\ Active(s) /\ joining[s] = NoServer
  /\ inbox[s] # <<>> /\ Head(inbox[s]).type = type
  /\ inbox' = [inbox EXCEPT ![s] = Tail(@)]
  /\ UNCHANGED <<status, starts, RedisOnline, LastSeen, pruning, watcher, redisUp, request>>

\* Mutant: every JOIN is noted in LastSeen, the server's own too.
ListenJoinMutant(s) ==
  /\ Receives(s, "JOIN")
  /\ LET t == Head(inbox[s]).server
     IN  /\ Ring' = [Ring EXCEPT ![s] = @ \cup {t}]
         /\ joining' = [joining EXCEPT ![s] = t]

\* Ring.Add: false for a server that is in the ring.
ListenJoin(s) ==
  /\ Receives(s, "JOIN")
  /\ LET t == Head(inbox[s]).server
         added == t # s /\ t \notin Ring[s]
     IN  /\ Ring' = [Ring EXCEPT ![s] = IF added THEN @ \cup {t} ELSE @]
         /\ joining' = [joining EXCEPT ![s] = IF added THEN t ELSE NoServer]

\* Mutant: LastSeen is written without h.mu.
JoinSeenMutant(s) ==
  /\ Active(s) /\ joining[s] # NoServer
  /\ LastSeen' = [LastSeen EXCEPT ![s][joining[s]] = 0]
  /\ joining' = [joining EXCEPT ![s] = NoServer]
  /\ inbox' = Publish(inbox, "JOIN", s)
  /\ UNCHANGED <<status, starts, RedisOnline, Ring, pruning, watcher, redisUp, request>>

\* After an addition: LastSeen under h.mu, then the answer.
JoinSeen(s) ==
  /\ Active(s) /\ joining[s] # NoServer /\ watcher[s] # "prune"
  /\ LastSeen' = [LastSeen EXCEPT ![s][joining[s]] = 0]
  /\ joining' = [joining EXCEPT ![s] = NoServer]
  /\ inbox' = Publish(inbox, "JOIN", s)
  /\ UNCHANGED <<status, starts, RedisOnline, Ring, pruning, watcher, redisUp, request>>

\* Mutant: a server obeys its own LEAVE.
ListenLeaveMutant(s) ==
  /\ Receives(s, "LEAVE")
  /\ LET t == Head(inbox[s]).server
     IN  Ring' = [Ring EXCEPT ![s] = IF @ = {s} THEN @ ELSE @ \ {t}]
  /\ UNCHANGED joining

\* Ring.Remove; LastSeen keeps its entry.
ListenLeave(s) ==
  /\ Receives(s, "LEAVE")
  /\ LET t == Head(inbox[s]).server
     IN  Ring' = [Ring EXCEPT ![s] = IF t = s THEN @ ELSE @ \ {t}]
  /\ UNCHANGED joining

-----------------------------------------------------------------------------
(***************************************************************************)
(* serveWS                                                                 *)
(***************************************************************************)

Position(u, s) == CHOOSE i \in 1..Len(Circle[u]) : Circle[u][i] = s

\* Ring.Get: the first member on the circle after the hash of the user.
Get(R, u) == CHOOSE s \in R : \A t \in R : Position(u, s) <= Position(u, t)

\* A load balancer sends the user to any server that answers.
Dial(u, s) ==
  /\ request[u] = NoRequest /\ Serving(s)
  /\ request' = [request EXCEPT ![u].at = s]
  /\ UNCHANGED <<status, starts, RedisOnline, membership, inbox, watcher, redisUp>>

\* Where serveWS sends the user: away from s unless the user belongs there, or
\* came from the server it belongs to.
Redirects(u, s) == Get(Ring[s], u) \notin {s, request[u].from}

\* The connection is accepted, which is Hub's part, or refused by a dead server.
Arrive(u) ==
  /\ request[u].at # NoServer
  /\ Serving(request[u].at) => ~Redirects(u, request[u].at)
  /\ request' = [request EXCEPT ![u] = NoRequest]
  /\ UNCHANGED <<status, starts, RedisOnline, membership, inbox, watcher, redisUp>>

\* 307 Temporary Redirect with from = s.
Redirect(u) ==
  LET s == request[u].at IN
    /\ s # NoServer /\ Serving(s) /\ Redirects(u, s)
    /\ request' = [request EXCEPT ![u] =
         [at |-> Get(Ring[s], u), from |-> s, visited |-> @.visited \cup {s}]]
    /\ UNCHANGED <<status, starts, RedisOnline, membership, inbox, watcher, redisUp>>

-----------------------------------------------------------------------------
(***************************************************************************)
(* Redis and time                                                          *)
(***************************************************************************)
RedisFails ==
  /\ RedisMayFail /\ redisUp /\ redisUp' = FALSE
  /\ UNCHANGED <<status, starts, RedisOnline, membership, inbox, watcher, request>>

RedisReturns ==
  /\ ~redisUp /\ redisUp' = TRUE
  /\ UNCHANGED <<status, starts, RedisOnline, membership, inbox, watcher, request>>

Quiet(s) == watcher[s] = "done" /\ inbox[s] = <<>> /\ joining[s] = NoServer

Older(age) == IF age \in {Unseen, Silence + 1} THEN age ELSE age + 1

Tick ==
  /\ \A s \in Servers : status[s] # "starting" /\ (Active(s) => Quiet(s))
  /\ \E s \in Servers : Active(s)
  /\ watcher' = [s \in Servers |-> IF Active(s) THEN "due" ELSE "done"]
  /\ LastSeen' = [s \in Servers |-> [t \in Servers |-> Older(LastSeen[s][t])]]
  /\ UNCHANGED <<status, starts, RedisOnline, Ring, joining, pruning, inbox, redisUp, request>>

-----------------------------------------------------------------------------
WatcherStep(s)  == Watch(s) \/ WatchRemove(s) \/ WatchDelete(s) \/ WatchDone(s)
ListenerStep(s) == Subscribe(s) \/ ListenJoin(s) \/ JoinSeen(s) \/ ListenLeave(s)

Next ==
  \/ \E s \in Servers :
       \/ Start(s) \/ Crash(s) \/ AnnounceServerLeave(s) \/ Quit(s)
       \/ WatcherStep(s) \/ ListenerStep(s)
  \/ \E u \in Users : Arrive(u) \/ Redirect(u) \/ \E s \in Servers : Dial(u, s)
  \/ RedisFails \/ RedisReturns \/ Tick

Spec == Init /\ [][Next]_vars

(***************************************************************************)
(* Goroutines are scheduled and time passes.  Nothing makes a server start *)
(* or end, a user connect, or Redis fail or come back.                     *)
(***************************************************************************)
Fairness ==
  /\ \A s \in Servers : WF_vars(WatcherStep(s)) /\ WF_vars(ListenerStep(s))
  /\ WF_vars(Tick)

FairSpec == Spec /\ Fairness

-----------------------------------------------------------------------------
(***************************************************************************)
(* Safety                                                                  *)
(***************************************************************************)

\* Every peer in a server's ring is one that the watcher will notice when it
\* falls silent: it is in LastSeen, or the listener is about to note it,
\* although the listener adds to the ring outside h.mu while the watcher prunes.
PeersWatched ==
  \A s \in Servers : Active(s) =>
    \A t \in Ring[s] \ {s} : LastSeen[s][t] # Unseen \/ joining[s] = t

\* A redirected user is never sent back to a server that has redirected it,
\* although every server decides by its own ring and the rings change between
\* the hops: serveWS does not even need its "from" parameter for that.
NoRedirectLoop ==
  \A u \in Users : LET q == request[u] IN
    q.at # NoServer =>
      /\ q.at \notin q.visited
      /\ Serving(q.at) => Get(Ring[q.at], u) \notin q.visited

(***************************************************************************)
(* Liveness                                                                *)
(***************************************************************************)

\* A server that is gone for good, with or without a LEAVE, even when a JOIN of
\* its own came after it, disappears from every ring that is maintained, once
\* Redis is back for good.
GhostsPruned ==
  \A s, t \in Servers :
    <>[](redisUp /\ status[s] = "up" /\ status[t] \in {"down", "quit"})
      => <>[](t \notin Ring[s])

\* Two servers that stay up know each other again and again, whatever was lost,
\* pruned or announced too late before, once Redis is back for good.
PeersMeet ==
  \A s, t \in Servers :
    <>[](redisUp /\ status[s] = "up" /\ status[t] = "up") => []<>(t \in Ring[s])

=============================================================================
