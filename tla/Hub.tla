-------------------------------- MODULE Hub --------------------------------
(***************************************************************************)
(* The session registry of one chat server: internal/chat/hub.go (Run,     *)
(* cleanupClient, manageSubscription, broadcastUserList, replayHistory,    *)
(* ListenToRedis), the two pumps of internal/chat/client.go and the        *)
(* connection set-up of serveWS in cmd/server/main.go.                     *)
(*                                                                         *)
(* Every goroutine takes its own steps.  A section the code runs under     *)
(* h.mu is one atomic step; everything between two such sections, two      *)
(* channel operations or two Redis calls may interleave with the others.   *)
(* What a message says is left out: a message is what decides who is sent  *)
(* it.  Redis and the peers are the environment: any message of Remote may *)
(* arrive on a subscribed channel, whichever server published it.          *)
(***************************************************************************)
EXTENDS Integers, Sequences

CONSTANTS
  Clients,        \* the Client objects serveWS creates, one per connection
  NoClient,       \* a nil *Client
  Users,          \* user names
  RoomIDs,        \* room identifiers
  NameOf,         \* Client.Name
  RoomIDOf,       \* Client.RoomID
  SendCap,        \* capacity of Client.Send       (256 in the code)
  RegisterCap,    \* capacity of Hub.Register      (64)
  UnregisterCap,  \* capacity of Hub.Unregister    (64)
  BroadcastCap,   \* capacity of Hub.Broadcast     (2048)
  QueueCap,       \* capacity of PersistenceQueue  (1024)
  MaxHistory,     \* most rows a history replay sends (50)
  Inputs,         \* what a peer may send to its ReadPump
  Remote,         \* messages that may arrive from Redis for the Broadcast channel
  Acks,           \* users whose acknowledgements may arrive from Redis
  RedisMayFail,   \* may a Redis command return an error?
  StopSignal      \* may the process receive SIGTERM?

\* A message in the Broadcast channel.  "local": FromRedis is false, durable
\* when its type is chat, private or ack.  The others come from Redis:
\* "room" is chat, user_list, system or typing; "kick" is user_kick.
Message ==
  [kind : {"local"}, durable : BOOLEAN]
    \cup [kind : {"room"}, room : RoomIDs]
    \cup [kind : {"private"}, room : RoomIDs, target : Users, sender : Users]
    \cup [kind : {"kick"}, user : Users]

InputKinds == {"flood", "command", "durable", "volatile"}

ASSUME ConstantsAssumption ==
  /\ NoClient \notin Clients
  /\ NameOf \in [Clients -> Users]
  /\ RoomIDOf \in [Clients -> RoomIDs]
  /\ {SendCap, RegisterCap, UnregisterCap, BroadcastCap, QueueCap} \subseteq Nat \ {0}
  /\ MaxHistory \in Nat
  /\ Inputs \subseteq InputKinds
  /\ Remote \subseteq {m \in Message : m.kind # "local"}
  /\ Acks \subseteq Users
  /\ RedisMayFail \in BOOLEAN
  /\ StopSignal \in BOOLEAN

VARIABLES
  (* the Hub struct, what h.mu protects *)
  AllClients,        \* user -> its Client, or NoClient
  Rooms,             \* room -> its Clients; a room without a key is empty
  ActiveSubs,        \* rooms the hub believes it is subscribed to
  (* the Hub's channels *)
  Register, Unregister, Broadcast,
  PersistenceQueue,  \* number of models waiting for the worker
  Quit,              \* is h.Quit closed?
  (* Redis *)
  subs,              \* rooms RedisPubSub is subscribed to
  presence,          \* the sets room:<id>:users
  (* the goroutine in Run *)
  hubAt, hubClient, hubOld, hubSends, hubTodo,
  (* the goroutines of a client *)
  served,            \* serveWS: "no", "upgraded", "queued" (Register sent)
  connOpen,          \* is the WebSocket usable?
  readPump, writePump,
  Send,              \* number of payloads buffered in c.Send
  replay,            \* rows replayHistory still has to send
  cleanup,           \* progress of cleanupClient's once.Do body
  (* goroutines started with go, each one waiting for its first step *)
  kickers,           \* ListenToRedis: h.cleanupClient(c)
  evictors,          \* delivery to a full buffer: h.Unregister <- c
  listers,           \* cleanupClient: h.broadcastUserList(c.RoomID)
  crashed            \* "no", or the run-time error that ended the process

hubState == <<AllClients, Rooms, ActiveSubs>>
chans    == <<Register, Unregister, Broadcast, PersistenceQueue, Quit>>
redis    == <<subs, presence>>
locals   == <<hubClient, hubOld, hubSends, hubTodo>>
pumps    == <<served, connOpen, readPump, writePump>>
spawned  == <<kickers, evictors, listers>>
vars     == <<hubState, chans, redis, hubAt, locals, pumps, Send, replay, cleanup,
              spawned, crashed>>

HubPlaces == {"select", "cleanOld", "announce", "insert", "list", "push",
              "cleanGone", "manage", "persist", "private", "quitting", "quitClean", "stopped"}

TypeOK ==
  /\ AllClients \in [Users -> Clients \cup {NoClient}]
  /\ Rooms \in [RoomIDs -> SUBSET Clients]
  /\ ActiveSubs \in SUBSET RoomIDs
  /\ Register \in Seq(Clients) /\ Len(Register) <= RegisterCap
  /\ Unregister \in Seq(Clients) /\ Len(Unregister) <= UnregisterCap
  /\ Broadcast \in Seq(Message) /\ Len(Broadcast) <= BroadcastCap
  /\ PersistenceQueue \in 0..QueueCap
  /\ Quit \in BOOLEAN
  /\ subs \in SUBSET RoomIDs
  /\ presence \in [RoomIDs -> SUBSET Users]
  /\ hubAt \in HubPlaces
  /\ hubClient \in Clients \cup {NoClient}
  /\ hubOld \in Clients \cup {NoClient}
  /\ hubSends \in Seq(Clients)
  /\ hubTodo \in SUBSET Clients
  /\ served \in [Clients -> {"no", "upgraded", "queued"}]
  /\ connOpen \in [Clients -> BOOLEAN]
  /\ readPump \in [Clients -> {"off", "run", "warn", "reply", "durable",
                               "volatile", "exit", "done"}]
  /\ writePump \in [Clients -> {"off", "run", "exit", "done"}]
  /\ Send \in [Clients -> 0..SendCap]
  /\ replay \in [Clients -> 0..MaxHistory]
  /\ cleanup \in [Clients -> {"idle", "removing", "unsub", "closing", "done"}]
  /\ kickers \in SUBSET Clients
  /\ evictors \in SUBSET Clients
  /\ listers \in SUBSET Clients
  /\ crashed \in {"no", "sendOnClosed", "mapRace"}

\* NewHub: empty maps and channels; serveWS has created no client yet.
Init ==
  /\ AllClients = [u \in Users |-> NoClient]
  /\ Rooms = [r \in RoomIDs |-> {}]
  /\ ActiveSubs = {}
  /\ Register = <<>> /\ Unregister = <<>> /\ Broadcast = <<>>
  /\ PersistenceQueue = 0
  /\ Quit = FALSE
  /\ subs = {} /\ presence = [r \in RoomIDs |-> {}]
  /\ hubAt = "select" /\ hubClient = NoClient /\ hubOld = NoClient
  /\ hubSends = <<>> /\ hubTodo = {}
  /\ served = [c \in Clients |-> "no"]
  /\ connOpen = [c \in Clients |-> FALSE]
  /\ readPump = [c \in Clients |-> "off"]
  /\ writePump = [c \in Clients |-> "off"]
  /\ Send = [c \in Clients |-> 0]
  /\ replay = [c \in Clients |-> 0]
  /\ cleanup = [c \in Clients |-> "idle"]
  /\ kickers = {} /\ evictors = {} /\ listers = {}
  /\ crashed = "no"

Running == crashed = "no"

\* A goroutine panics, or the runtime detects a racy map access: the whole
\* process ends, nothing else changes.
Crash(why) ==
  /\ crashed' = why
  /\ UNCHANGED <<hubState, chans, redis, hubAt, locals, pumps, Send, replay, cleanup,
                 spawned>>

\* c.Send is closed by the last step of cleanupClient.
SendClosed(c) == cleanup[c] = "done"

\* Mutant: one element too many.
HasRoomMutant(chan, cap) == Len(chan) <= cap

\* The guard of a blocking send to a channel.
HasRoom(chan, cap) == Len(chan) < cap

-----------------------------------------------------------------------------
(***************************************************************************)
(* serveWS: upgrade, start both pumps, then queue the registration.        *)
(***************************************************************************)
ClientFrame ==
  UNCHANGED <<hubState, PersistenceQueue, Quit, redis, hubAt, locals, replay, cleanup,
              spawned>>

Connect(c) ==
  /\ Running /\ served[c] = "no"
  /\ served' = [served EXCEPT ![c] = "upgraded"]
  /\ connOpen' = [connOpen EXCEPT ![c] = TRUE]
  /\ readPump' = [readPump EXCEPT ![c] = "run"]
  /\ writePump' = [writePump EXCEPT ![c] = "run"]
  /\ ClientFrame /\ UNCHANGED <<Register, Unregister, Broadcast, Send, crashed>>

QueueRegister(c) ==
  /\ Running /\ served[c] = "upgraded" /\ HasRoom(Register, RegisterCap)
  /\ Register' = Append(Register, c)
  /\ served' = [served EXCEPT ![c] = "queued"]
  /\ ClientFrame
  /\ UNCHANGED <<Unregister, Broadcast, connOpen, readPump, writePump, Send, crashed>>

\* The peer closes, disappears (read or write deadline) or is reset.
PeerGone(c) ==
  /\ Running /\ connOpen[c]
  /\ connOpen' = [connOpen EXCEPT ![c] = FALSE]
  /\ ClientFrame
  /\ UNCHANGED <<Register, Unregister, Broadcast, served, readPump, writePump, Send, crashed>>

(***************************************************************************)
(* ReadPump                                                                *)
(***************************************************************************)
ReadTo(c, place) ==
  /\ readPump' = [readPump EXCEPT ![c] = place]
  /\ ClientFrame /\ UNCHANGED <<Register, served, writePump>>

\* ReadMessage returns a message.  A rejected one ("flood") is answered with a
\* warning when the last one is three seconds old; /help and /ping ("command")
\* are answered to the client itself; the others go to the Broadcast channel.
ReadMessage(c) ==
  /\ Running /\ readPump[c] = "run" /\ connOpen[c]
  /\ \E i \in Inputs :
       ReadTo(c, CASE i = "flood" -> "warn" [] i = "command" -> "reply" [] OTHER -> i)
  /\ UNCHANGED <<Unregister, Broadcast, connOpen, Send, crashed>>

\* The warning is dropped when the buffer is full; the reply waits for space.
ReadAnswer(c) ==
  /\ Running /\ readPump[c] \in {"warn", "reply"}
  /\ \/ /\ SendClosed(c)
        /\ Crash("sendOnClosed")
     \/ /\ ~SendClosed(c)
        /\ readPump[c] = "reply" => Send[c] < SendCap
        /\ Send' = [Send EXCEPT ![c] = IF @ < SendCap THEN @ + 1 ELSE @]
        /\ ReadTo(c, "run")
        /\ UNCHANGED <<Unregister, Broadcast, connOpen, crashed>>

\* c.Hub.Broadcast <- payload blocks while the channel is full.
ReadPush(c) ==
  /\ Running /\ readPump[c] \in {"durable", "volatile"}
  /\ HasRoom(Broadcast, BroadcastCap)
  /\ Broadcast' = Append(Broadcast, [kind |-> "local", durable |-> readPump[c] = "durable"])
  /\ ReadTo(c, "run")
  /\ UNCHANGED <<Unregister, connOpen, Send, crashed>>

ReadFail(c) ==
  /\ Running /\ readPump[c] = "run" /\ ~connOpen[c]
  /\ ReadTo(c, "exit")
  /\ UNCHANGED <<Unregister, Broadcast, connOpen, Send, crashed>>

\* Mutant: the request is lost.
PushUnregisterMutant(c) == UNCHANGED Unregister

\* h.Unregister <- c, in a deferred function or in an evicting goroutine.
PushUnregister(c) ==
  /\ HasRoom(Unregister, UnregisterCap)
  /\ Unregister' = Append(Unregister, c)

\* The deferred function: Unregister <- c, then Conn.Close().
ReadExit(c) ==
  /\ Running /\ readPump[c] = "exit" /\ PushUnregister(c)
  /\ connOpen' = [connOpen EXCEPT ![c] = FALSE]
  /\ ReadTo(c, "done")
  /\ UNCHANGED <<Broadcast, Send, crashed>>

(***************************************************************************)
(* WritePump                                                               *)
(***************************************************************************)
WriteTo(c, place) ==
  /\ writePump' = [writePump EXCEPT ![c] = place]
  /\ ClientFrame /\ UNCHANGED <<Register, Broadcast, served, readPump, crashed>>

\* One frame carries everything that is buffered.  A write to a dead peer
\* fails at NextWriter, with one payload taken, or when the frame is flushed.
WriteFrame(c) ==
  /\ Running /\ writePump[c] = "run" /\ Send[c] > 0
  /\ \/ /\ connOpen[c]
        /\ Send' = [Send EXCEPT ![c] = 0]
        /\ WriteTo(c, "run")
     \/ /\ ~connOpen[c]
        /\ \E left \in {0, Send[c] - 1} : Send' = [Send EXCEPT ![c] = left]
        /\ WriteTo(c, "exit")
  /\ UNCHANGED <<Unregister, connOpen>>

WriteClosed(c) ==
  /\ Running /\ writePump[c] = "run" /\ Send[c] = 0 /\ SendClosed(c)
  /\ WriteTo(c, "exit")
  /\ UNCHANGED <<Unregister, connOpen, Send>>

WriteExit(c) ==
  /\ Running /\ writePump[c] = "exit" /\ PushUnregister(c)
  /\ connOpen' = [connOpen EXCEPT ![c] = FALSE]
  /\ WriteTo(c, "done")
  /\ UNCHANGED Send

-----------------------------------------------------------------------------
(***************************************************************************)
(* cleanupClient(c): the body of c.once.Do runs once, in the goroutine     *)
(* that called first; a second caller waits until it is "done".            *)
(***************************************************************************)

\* Mutant: SRem is forgotten.
CleanBeginMutant(c) ==
  /\ cleanup[c] = "idle"
  /\ cleanup' = [cleanup EXCEPT ![c] = "removing"]
  /\ UNCHANGED presence

\* SRem room:<id>:users; its error is ignored.
CleanBegin(c) ==
  /\ cleanup[c] = "idle"
  /\ cleanup' = [cleanup EXCEPT ![c] = "removing"]
  /\ \/ presence' = [presence EXCEPT ![RoomIDOf[c]] = @ \ {NameOf[c]}]
     \/ RedisMayFail /\ UNCHANGED presence

CleanTo(c, place) ==
  /\ cleanup' = [cleanup EXCEPT ![c] = place]
  /\ UNCHANGED <<chans, presence, hubAt, locals, served, readPump, writePump, Send, replay,
                 kickers, evictors, crashed>>

\* Mutant: the room is tested before c is deleted.
LastInRoomEarly(c) == Rooms[RoomIDOf[c]] = {}

\* Does removing c leave a room that has a key in Rooms empty?
LastInRoom(c) == Rooms[RoomIDOf[c]] # {} /\ Rooms[RoomIDOf[c]] \subseteq {c}

\* The section under h.mu.  It writes AllClients, which the Quit case of Run
\* iterates without the lock: the runtime may detect that and end the process.
CleanRemove(c) ==
  /\ Running /\ cleanup[c] = "removing"
  /\ \/ /\ Rooms' = [Rooms EXCEPT ![RoomIDOf[c]] = @ \ {c}]
        /\ ActiveSubs' = IF LastInRoom(c) THEN ActiveSubs \ {RoomIDOf[c]} ELSE ActiveSubs
        /\ AllClients' = [AllClients EXCEPT ![NameOf[c]] = IF @ = c THEN NoClient ELSE @]
        /\ CleanTo(c, IF LastInRoom(c) THEN "unsub" ELSE "closing")
        /\ UNCHANGED <<subs, connOpen, listers>>
     \/ /\ hubAt = "quitting" /\ AllClients[NameOf[c]] = c
        /\ Crash("mapRace")

\* Unsubscribe runs after h.mu is released.
CleanUnsubscribe(c) ==
  /\ Running /\ cleanup[c] = "unsub"
  /\ subs' = subs \ {RoomIDOf[c]}
  /\ CleanTo(c, "closing")
  /\ UNCHANGED <<hubState, connOpen, listers>>

\* Mutant: SRem comes last.
CleanCloseMutant(c) ==
  /\ Running /\ cleanup[c] = "closing"
  /\ presence' = [presence EXCEPT ![RoomIDOf[c]] = @ \ {NameOf[c]}]
  /\ listers' = listers \cup {c}
  /\ connOpen' = [connOpen EXCEPT ![c] = FALSE]
  /\ cleanup' = [cleanup EXCEPT ![c] = "done"]
  /\ UNCHANGED <<hubState, chans, subs, hubAt, locals, served, readPump, writePump, Send,
                 replay, kickers, evictors, crashed>>

\* go broadcastUserList, Conn.Close, close(c.Send).
CleanClose(c) ==
  /\ Running /\ cleanup[c] = "closing"
  /\ listers' = listers \cup {c}
  /\ connOpen' = [connOpen EXCEPT ![c] = FALSE]
  /\ CleanTo(c, "done")
  /\ UNCHANGED <<hubState, subs>>

-----------------------------------------------------------------------------
(***************************************************************************)
(* The goroutine in Run.  hubAt is the call it is about to make; at        *)
(* "select" any ready case may be taken.                                   *)
(***************************************************************************)
HubFrame == UNCHANGED <<Quit, pumps, kickers, listers>>

\* A step of the Register or the Unregister case delivers nothing.
HubTo(place) ==
  /\ hubAt' = place
  /\ HubFrame /\ UNCHANGED <<PersistenceQueue, hubSends, hubTodo, Send, evictors, crashed>>

\* Mutant: the old session is not looked for.
HasSessionMutant(u) == FALSE

\* oldClient, exists := h.AllClients[client.Name]
HasSession(u) == AllClients[u] # NoClient

HubRegister ==
  /\ Running /\ hubAt = "select" /\ Register # <<>>
  /\ LET c == Head(Register) IN
       /\ hubClient' = c
       /\ \/ /\ HasSession(NameOf[c])
             /\ hubOld' = AllClients[NameOf[c]]
             /\ HubTo("cleanOld")
          \/ /\ ~HasSession(NameOf[c])
             /\ hubOld' = NoClient
             /\ HubTo("announce")
  /\ Register' = Tail(Register)
  /\ UNCHANGED <<hubState, Unregister, Broadcast, redis, replay, cleanup>>

HubUnregister ==
  /\ Running /\ hubAt = "select" /\ Unregister # <<>>
  /\ hubClient' = Head(Unregister)
  /\ hubOld' = Head(Unregister)
  /\ HubTo("cleanGone")
  /\ Unregister' = Tail(Unregister)
  /\ UNCHANGED <<hubState, Register, Broadcast, redis, replay, cleanup>>

Cleaning == {"cleanOld", "cleanGone", "quitClean"}

HubCallsCleanup ==
  /\ Running /\ hubAt \in Cleaning /\ CleanBegin(hubOld)
  /\ HubTo(hubAt)
  /\ UNCHANGED <<hubState, Register, Unregister, Broadcast, subs, hubClient, hubOld, replay>>

\* Mutant: a flag instead of sync.Once, so that a second caller does not wait.
OnceReturnsMutant(c) == cleanup[c] # "idle"

\* c.once.Do returns to a caller only when the body has ended.
OnceReturns(c) == cleanup[c] = "done"

HubCleanupReturns ==
  /\ Running /\ hubAt \in Cleaning /\ OnceReturns(hubOld)
  /\ \/ hubAt = "cleanOld" /\ HubTo("announce")
     \/ hubAt = "cleanGone" /\ HubTo("manage")
     \/ hubAt = "quitClean" /\ HubTo("quitting")
  /\ UNCHANGED <<hubState, Register, Unregister, Broadcast, redis, hubClient, hubOld,
                 replay, cleanup>>

\* Publish the kick signal (for the other servers), SAdd room:<id>:users.
HubAnnounce ==
  /\ Running /\ hubAt = "announce"
  /\ \/ presence' = [presence EXCEPT ![RoomIDOf[hubClient]] = @ \cup {NameOf[hubClient]}]
     \/ RedisMayFail /\ UNCHANGED presence
  /\ HubTo("insert")
  /\ UNCHANGED <<hubState, Register, Unregister, Broadcast, subs, hubClient, hubOld,
                 replay, cleanup>>

\* The section under h.mu, which includes Subscribe, then go replayHistory:
\* the fetch finds up to MaxHistory rows, or fails and replays none.
HubInsert ==
  /\ Running /\ hubAt = "insert"
  /\ LET c == hubClient
         r == RoomIDOf[c]
     IN  /\ subs' = IF r \in ActiveSubs THEN subs ELSE subs \cup {r}
         /\ ActiveSubs' = ActiveSubs \cup {r}
         /\ AllClients' = [AllClients EXCEPT ![NameOf[c]] = c]
         /\ Rooms' = [Rooms EXCEPT ![r] = @ \cup {c}]
         /\ \E rows \in 0..MaxHistory : replay' = [replay EXCEPT ![c] = rows]
  /\ HubTo("list")
  /\ UNCHANGED <<Register, Unregister, Broadcast, presence, hubClient, hubOld, cleanup>>

\* The end of both cases is broadcastUserList: SMembers, which may fail.
HubList ==
  /\ Running /\ hubAt = "list"
  /\ HubTo("push") \/ (RedisMayFail /\ HubTo("select"))
  /\ hubClient' = NoClient /\ hubOld' = NoClient
  /\ UNCHANGED <<hubState, Register, Unregister, Broadcast, redis, replay, cleanup>>

\* h.Broadcast <- message
PushUserList ==
  /\ HasRoom(Broadcast, BroadcastCap)
  /\ Broadcast' = Append(Broadcast, [kind |-> "local", durable |-> FALSE])

\* Run itself is the only reader of h.Broadcast.
HubPush ==
  /\ Running /\ hubAt = "push" /\ PushUserList
  /\ HubTo("select")
  /\ UNCHANGED <<hubState, Register, Unregister, redis, hubClient, hubOld, replay, cleanup>>

\* manageSubscription, all of it under h.mu.
HubManage ==
  /\ Running /\ hubAt = "manage"
  /\ LET r == RoomIDOf[hubClient]
         unused == Rooms[r] = {} /\ r \in ActiveSubs
     IN  /\ subs' = IF unused THEN subs \ {r} ELSE subs
         /\ ActiveSubs' = IF unused THEN ActiveSubs \ {r} ELSE ActiveSubs
  /\ HubTo("list")
  /\ UNCHANGED <<AllClients, Rooms, Register, Unregister, Broadcast, presence, hubClient,
                 hubOld, replay, cleanup>>

(***************************************************************************)
(* case message := <-h.Broadcast                                           *)
(***************************************************************************)
BroadcastFrame ==
  /\ HubFrame
  /\ UNCHANGED <<hubState, Register, Unregister, redis, hubClient, hubOld, hubTodo, replay,
                 cleanup>>

HubReceives(kind) ==
  /\ Running /\ hubAt = "select"
  /\ Broadcast # <<>> /\ Head(Broadcast).kind = kind
  /\ Broadcast' = Tail(Broadcast)
  /\ BroadcastFrame /\ UNCHANGED PersistenceQueue

\* A local message is published; chat, private and ack are then queued for the
\* database.  When Publish fails the message is dropped.
HubPublish ==
  /\ HubReceives("local")
  /\ \/ hubAt' = IF Head(Broadcast).durable THEN "persist" ELSE "select"
     \/ RedisMayFail /\ hubAt' = "select"
  /\ UNCHANGED <<hubSends, Send, evictors, crashed>>

\* h.PersistenceQueue <- blocks the hub while the queue is full.
HubPersist ==
  /\ Running /\ hubAt = "persist" /\ PersistenceQueue < QueueCap
  /\ PersistenceQueue' = PersistenceQueue + 1
  /\ hubAt' = "select"
  /\ BroadcastFrame /\ UNCHANGED <<Broadcast, hubSends, Send, evictors, crashed>>

\* select { case c.Send <- payload: default: go func() { h.Unregister <- c }() }
\* for every c of S.  Sending to a closed channel panics, default or not.
Deliver(S) ==
  \/ /\ \A c \in S : ~SendClosed(c)
     /\ Send' = [c \in Clients |-> IF c \in S /\ Send[c] < SendCap THEN Send[c] + 1 ELSE Send[c]]
     /\ evictors' = evictors \cup {c \in S : Send[c] = SendCap}
     /\ UNCHANGED crashed
  \/ /\ \E c \in S : SendClosed(c)
     /\ crashed' = "sendOnClosed"
     /\ UNCHANGED <<Send, evictors>>

\* chat, user_list, system, typing: every client of the room, under h.mu.
HubDeliverRoom ==
  /\ HubReceives("room")
  /\ Deliver(Rooms[Head(Broadcast).room])
  /\ UNCHANGED <<hubAt, hubSends>>

\* private: target and sender are looked up under h.mu and used after it.
HubLookUpPrivate ==
  /\ HubReceives("private")
  /\ LET m == Head(Broadcast)
         InRoom(u) == HasSession(u) /\ RoomIDOf[AllClients[u]] = m.room
         To(u) == IF InRoom(u) THEN <<AllClients[u]>> ELSE <<>>
     IN  /\ hubSends' = To(m.target) \o To(m.sender)
         /\ hubAt' = IF InRoom(m.target) \/ InRoom(m.sender) THEN "private" ELSE "select"
  /\ UNCHANGED <<Send, evictors, crashed>>

HubDeliverPrivate ==
  /\ Running /\ hubAt = "private"
  /\ Deliver({Head(hubSends)})
  /\ hubSends' = Tail(hubSends)
  /\ hubAt' = IF Len(hubSends) = 1 THEN "select" ELSE "private"
  /\ BroadcastFrame /\ UNCHANGED <<Broadcast, PersistenceQueue>>

\* user_kick matches no case of the switch.
HubDropKick ==
  /\ HubReceives("kick")
  /\ UNCHANGED <<hubAt, hubSends, Send, evictors, crashed>>

(***************************************************************************)
(* case <-h.Quit                                                           *)
(***************************************************************************)
QuitTo(place) ==
  /\ hubAt' = place
  /\ HubFrame
  /\ UNCHANGED <<hubState, Register, Unregister, Broadcast, PersistenceQueue, presence,
                 hubClient, hubSends, Send, replay, cleanup, evictors, crashed>>

HubQuit ==
  /\ Running /\ hubAt = "select" /\ Quit
  /\ hubTodo' = {c \in Clients : AllClients[NameOf[c]] = c}
  /\ QuitTo("quitting")
  /\ UNCHANGED <<subs, hubOld>>

\* Mutant: Run returns at once.
UnvisitedMutant == {}

\* range skips an entry that is deleted before it is reached.
Unvisited == {c \in hubTodo : AllClients[NameOf[c]] = c}

HubQuitNext ==
  /\ Running /\ hubAt = "quitting"
  /\ \E c \in Unvisited : hubOld' = c /\ hubTodo' = hubTodo \ {c}
  /\ QuitTo("quitClean")
  /\ UNCHANGED subs

\* RedisPubSub.Close() and return.
HubStop ==
  /\ Running /\ hubAt = "quitting" /\ Unvisited = {}
  /\ subs' = {}
  /\ QuitTo("stopped")
  /\ UNCHANGED <<hubOld, hubTodo>>

-----------------------------------------------------------------------------
(***************************************************************************)
(* The goroutines the others start, the worker, and the process            *)
(***************************************************************************)
SpawnedFrame ==
  UNCHANGED <<hubState, Register, subs, hubAt, locals, pumps>>

\* go h.cleanupClient(c) reaches once.Do.
KickerRuns(c) ==
  /\ Running /\ c \in kickers
  /\ kickers' = kickers \ {c}
  /\ CleanBegin(c) \/ (cleanup[c] # "idle" /\ UNCHANGED <<cleanup, presence>>)
  /\ SpawnedFrame
  /\ UNCHANGED <<Unregister, Broadcast, PersistenceQueue, Quit, Send, replay, evictors,
                 listers, crashed>>

ListerRuns(c) ==
  /\ Running /\ c \in listers
  /\ PushUserList \/ (RedisMayFail /\ UNCHANGED Broadcast)
  /\ listers' = listers \ {c}
  /\ SpawnedFrame
  /\ UNCHANGED <<Unregister, PersistenceQueue, Quit, presence, Send, replay, cleanup,
                 kickers, evictors, crashed>>

\* Mutant: the evicted client is not unregistered.
EvictorRunsMutant(c) ==
  /\ Running /\ c \in evictors
  /\ evictors' = evictors \ {c}
  /\ SpawnedFrame
  /\ UNCHANGED <<Unregister, Broadcast, PersistenceQueue, Quit, presence, Send, replay,
                 cleanup, kickers, listers, crashed>>

EvictorRuns(c) ==
  /\ Running /\ c \in evictors /\ PushUnregister(c)
  /\ evictors' = evictors \ {c}
  /\ SpawnedFrame
  /\ UNCHANGED <<Broadcast, PersistenceQueue, Quit, presence, Send, replay, cleanup,
                 kickers, listers, crashed>>

\* replayHistory: c.Send <- data blocks while the buffer is full.
ReplaySend(c) ==
  /\ Running /\ replay[c] > 0
  /\ \/ /\ SendClosed(c)
        /\ Crash("sendOnClosed")
     \/ /\ ~SendClosed(c) /\ Send[c] < SendCap
        /\ Send' = [Send EXCEPT ![c] = @ + 1]
        /\ replay' = [replay EXCEPT ![c] = @ - 1]
        /\ SpawnedFrame
        /\ UNCHANGED <<Unregister, Broadcast, PersistenceQueue, Quit, presence, cleanup,
                       spawned, crashed>>

OtherFrame ==
  SpawnedFrame /\ UNCHANGED <<Unregister, presence, Send, replay, cleanup, evictors,
                              listers, crashed>>

\* PersistMessageWorker takes a model; Save and UpdateStatus end within 5 s.
PersistWorker ==
  /\ Running /\ PersistenceQueue > 0
  /\ PersistenceQueue' = PersistenceQueue - 1
  /\ OtherFrame /\ UNCHANGED <<Broadcast, Quit, kickers>>

\* ListenToRedis: an ack starts the cleanup of its sender's session.
ListenAck(u) ==
  /\ Running /\ hubAt # "stopped" /\ HasSession(u)
  /\ kickers' = kickers \cup {AllClients[u]}
  /\ OtherFrame /\ UNCHANGED <<Broadcast, PersistenceQueue, Quit>>

\* ListenToRedis: everything else is handed to the hub.  subs is no guard:
\* go-redis buffers what arrived, so it may be read after an Unsubscribe.
ListenForward(m) ==
  /\ Running /\ hubAt # "stopped" /\ HasRoom(Broadcast, BroadcastCap)
  /\ Broadcast' = Append(Broadcast, m)
  /\ OtherFrame /\ UNCHANGED <<PersistenceQueue, Quit, kickers>>

\* main receives the signal and closes h.Quit.
Stop ==
  /\ Running /\ StopSignal /\ ~Quit
  /\ Quit' = TRUE
  /\ OtherFrame /\ UNCHANGED <<Broadcast, PersistenceQueue, kickers>>

-----------------------------------------------------------------------------
HubBroadcast == HubPublish \/ HubDeliverRoom \/ HubLookUpPrivate \/ HubDropKick

\* Steps of Run that follow a receive.
HubContinues ==
  \/ HubCallsCleanup \/ HubCleanupReturns \/ HubAnnounce \/ HubInsert \/ HubList
  \/ HubPush \/ HubManage \/ HubPersist \/ HubDeliverPrivate \/ HubQuitNext \/ HubStop

HubStep == HubRegister \/ HubUnregister \/ HubBroadcast \/ HubQuit \/ HubContinues

CleanupStep(c) == CleanRemove(c) \/ CleanUnsubscribe(c) \/ CleanClose(c)

ReadStep(c) ==
  ReadAnswer(c) \/ ReadPush(c) \/ ReadFail(c) \/ ReadExit(c)

WriteStep(c) == WriteFrame(c) \/ WriteClosed(c) \/ WriteExit(c)

SpawnedStep(c) == KickerRuns(c) \/ ListerRuns(c) \/ EvictorRuns(c) \/ ReplaySend(c)

ClientStep(c) ==
  \/ Connect(c) \/ QueueRegister(c) \/ PeerGone(c) \/ ReadMessage(c)
  \/ ReadStep(c) \/ WriteStep(c) \/ CleanupStep(c) \/ SpawnedStep(c)

RedisStep == (\E u \in Acks : ListenAck(u)) \/ (\E m \in Remote : ListenForward(m))

Next == HubStep \/ PersistWorker \/ RedisStep \/ Stop \/ \E c \in Clients : ClientStep(c)

(***************************************************************************)
(* Every goroutine is scheduled.  Run's select picks among its ready cases *)
(* at random, hence strong fairness for Register and Unregister, which a   *)
(* stream of broadcasts could starve otherwise.  Senders that wait for a   *)
(* full channel are served first come, first served, hence strong fairness *)
(* for ReadPush.  No connection need be made, used or lost, no signal or   *)
(* message need arrive.                                                    *)
(***************************************************************************)
Fairness ==
  /\ WF_vars(HubStep) /\ SF_vars(HubRegister) /\ SF_vars(HubUnregister)
  /\ WF_vars(PersistWorker)
  /\ \A c \in Clients :
       /\ WF_vars(QueueRegister(c)) /\ WF_vars(ReadStep(c)) /\ SF_vars(ReadPush(c))
       /\ WF_vars(WriteStep(c)) /\ WF_vars(CleanupStep(c)) /\ WF_vars(SpawnedStep(c))

Spec == Init /\ [][Next]_vars
FairSpec == Spec /\ Fairness

-----------------------------------------------------------------------------
(***************************************************************************)
(* Safety                                                                  *)
(***************************************************************************)

Live(c) == c \in Rooms[RoomIDOf[c]] /\ cleanup[c] = "idle"

\* A user has at most one session that is registered and not being torn down,
\* although registrations, kicks and disconnections interleave: the purpose of
\* "Overwriting existing session" in Run's Register case.
OneLiveSession ==
  \A c, d \in Clients : Live(c) /\ Live(d) /\ NameOf[c] = NameOf[d] => c = d

\* A session replaces another one under the same name only when the cleanup of
\* the old one has ended, whichever goroutine runs it: Register waits in
\* cleanupClient(oldClient) until once.Do returns.
HandoverAfterCleanup ==
  [][\A u \in Users :
       AllClients[u] # NoClient /\ AllClients'[u] \notin {NoClient, AllClients[u]}
         => SendClosed(AllClients[u])]_vars

\* ActiveSubs is exactly the set of rooms that have a client, so neither a
\* registration skips Subscribe for a room that lost its last client, nor has
\* manageSubscription anything left to do after cleanupClient.
SubsIndex == ActiveSubs = {r \in RoomIDs : Rooms[r] # {}}

\* A room with clients is subscribed in Redis, so that its messages arrive.
\* Subscribe runs under h.mu, Unsubscribe in cleanupClient does not.
OccupiedRoomSubscribed ==
  hubAt # "stopped" => \A r \in RoomIDs : Rooms[r] # {} => r \in subs

\* A subscription whose room has lost its last client is being ended by the
\* cleanup of that client: none is forgotten, although Unsubscribe runs outside
\* h.mu, cleanups overlap and manageSubscription finds nothing to do.
EmptyRoomUnsubscribed ==
  \A r \in subs : Rooms[r] = {} =>
    \E c \in Clients : RoomIDOf[c] = r /\ cleanup[c] = "unsub"

\* Run is about to insert c, whose user is listed already.
Entering(c) == hubAt = "insert" /\ hubClient = c

\* c was cleaned up before Run inserted it, for good.
EarlyGone(c) == c \in Rooms[RoomIDOf[c]] /\ SendClosed(c)

\* The clients a listing of u in room r may stand for.
ClientsOf(u, r) == {c \in Clients : NameOf[c] = u /\ RoomIDOf[c] = r}

\* With Redis reachable, only a registration handled after the connection's own
\* cleanup leaves a name listed without a session: no cleanup by Run, by a kick
\* or at shutdown does, since SRem comes first in cleanupClient and SAdd just
\* before the insertion.
PresenceBacked ==
  \A r \in RoomIDs : \A u \in presence[r] :
    \E c \in ClientsOf(u, r) : Live(c) \/ Entering(c) \/ EarlyGone(c)

Has(q, x) == \E i \in 1..Len(q) : q[i] = x

Registering == hubAt \in {"cleanOld", "announce", "insert"}

\* Run has not put c into its maps yet.
Newcomer(c) == served[c] # "queued" \/ Has(Register, c) \/ (Registering /\ hubClient = c)

\* With Redis reachable, an open session is listed in its room, although SRem
\* for the session before it, in whichever goroutine, and SAdd for this one are
\* not ordered by a lock.  The exception: another connection of the user to that
\* room broke before it was registered, and its cleanup has unlisted the name.
OnlineListed ==
  \A c \in Clients : Live(c) =>
    \/ NameOf[c] \in presence[RoomIDOf[c]]
    \/ \E d \in ClientsOf(NameOf[c], RoomIDOf[c]) : Newcomer(d) /\ cleanup[d] # "idle"

\* When Run has returned, no session it knew is left open: the Quit case calls
\* cleanupClient for each of them while kicks remove others concurrently.
StopClosesSessions ==
  hubAt = "stopped" => \A u \in Users : AllClients[u] # NoClient => SendClosed(AllClients[u])

\* No goroutine sends to a channel that cleanupClient has closed; in particular
\* Run, which delivers to the members of a room, finds no dead session there
\* (README, "Anti-Zombie Registration").
NoSendOnClosed == crashed # "sendOnClosed"

\* Run waits, for ever, for space in the channel that only Run itself empties.
HubStuck == hubAt = "push" /\ ~HasRoom(Broadcast, BroadcastCap)

(***************************************************************************)
(* Liveness                                                                *)
(***************************************************************************)

\* When the connection of a client is gone, cleanupClient has run for it and
\* both of its pumps have returned, sooner or later, unless Run is stuck.
GoneIsCleaned ==
  \A c \in Clients :
    (served[c] # "no" /\ ~connOpen[c])
      ~> \/ SendClosed(c) /\ readPump[c] = "done" /\ writePump[c] = "done"
         \/ Quit \/ HubStuck \/ ~Running

\* A client evicted because its buffer was full is cleaned up, although Run may
\* keep receiving broadcasts, unless Run is stuck.
SlowConsumerDropped ==
  \A c \in Clients :
    (c \in evictors)
      ~> (SendClosed(c) \/ Quit \/ HubStuck \/ ~Running)

=============================================================================
