------------------------------ MODULE Pipeline ------------------------------
(***************************************************************************)
(* The path of a message through the cluster: ReadPump, Run's Broadcast    *)
(* case, Redis, ListenToRedis, delivery, and on the other side             *)
(* PersistenceQueue, PersistMessageWorker and the table messages           *)
(* (internal/repository/message_repository.go), from which replayHistory   *)
(* serves the clients that join.                                           *)
(*                                                                         *)
(* Module Hub has the steps of a registration and of a cleanup, and the    *)
(* send buffers; here each of them is one step and a client reads all it   *)
(* is sent.  A client stands for the one session of its user.  Join        *)
(* notices are left out.                                                   *)
(***************************************************************************)
EXTENDS Integers, Sequences, FiniteSets

CONSTANTS
  Servers, Clients,
  HomeOf,         \* the server a client is connected to
  RoomIDs, RoomIDOf,
  IDs, NoID,      \* message ids, chosen by the sender's frontend; none: uuid.Nil
  KindOf,         \* types.Message.Type of a message
  SenderOf, TargetOf,
  BroadcastCap,   \* capacity of Hub.Broadcast     (2048 in the code)
  QueueCap,       \* capacity of PersistenceQueue  (1024)
  MaxHistory,     \* limit of Fetch                (50)
  Plans,          \* how often frontends send each message, retries included:
                  \* bounds, of which one is kept
  Leavers,        \* clients whose connection may end
  SentStatuses,   \* statuses frontends put into the messages they send
  Statuses,       \* statuses that are acknowledged (1 delivered, 2 seen)
  RedisMayFail,   \* may Publish and SMembers return an error?
  DBMayFail,      \* may a statement fail or time out?
  StopSignal      \* may a server receive SIGTERM?

Kinds == {"chat", "private", "typing"}

\* types.Message as it travels: ts is the Timestamp that ReadPump gives it, n
\* its place in the order of publication, 0 for a message that is not FromRedis.
\* What clients send, and user lists, which the hubs send.
UserMessage ==
  [id : IDs, kind : Kinds \cup {"ack"}, from : Clients, status : Nat, ts : Nat, n : Nat]

Message ==
  UserMessage \cup [id : {NoID}, kind : {"user_list"}, from : Clients,
                   status : {0}, ts : {0}, n : Nat]

\* The list of the users of c's room.  It is read and not kept.
UserList(c) ==
  [id |-> NoID, kind |-> "user_list", from |-> c, status |-> 0, ts |-> 0, n |-> 0]

ASSUME PipelineAssumption ==
  /\ HomeOf \in [Clients -> Servers]
  /\ RoomIDOf \in [Clients -> RoomIDs]
  /\ NoID \notin IDs
  /\ KindOf \in [IDs -> Kinds]
  /\ SenderOf \in [IDs -> Clients]
  /\ TargetOf \in [IDs -> Clients]
  /\ {BroadcastCap, QueueCap} \subseteq Nat \ {0}
  /\ MaxHistory \in Nat
  /\ Plans \subseteq [IDs -> Nat]
  /\ Leavers \subseteq Clients
  /\ SentStatuses \subseteq Nat /\ Statuses \subseteq Nat \ {0}
  /\ {RedisMayFail, DBMayFail, StopSignal} \subseteq BOOLEAN

VARIABLES
  Broadcast,         \* server -> its Broadcast channel
  pending,           \* server -> the message Run is about to queue, if any
  listing,           \* server -> the client for whose room Run is about to send a
                     \* user list into its own Broadcast, if any
  listers,           \* clients whose cleanup started a goroutine that does so
  PersistenceQueue,  \* server -> its queue; the worker holds the head
  inbox,             \* server -> what Redis sent and ListenToRedis has not read
  subs,              \* server -> rooms it is subscribed to
  stopped,           \* has Run of a server returned?
  session,           \* client -> "queued", "joined", "replayed" or "left"
  live, past,        \* client -> messages delivered; ids replayed to it
  db,                \* the table messages: id -> [ts, status]
  clock, published,  \* messages ingested and messages published so far
  announced,         \* history: id and Timestamp of the messages published
  sends, acks        \* what the frontends have sent

chans    == <<Broadcast, pending, PersistenceQueue, inbox>>
lists    == <<listing, listers>>
sessions == <<subs, session, stopped>>
logs     == <<live, past>>
redis    == <<published, announced>>
inputs   == <<sends, acks>>
vars     == <<chans, lists, sessions, logs, db, clock, redis, inputs>>

Row == [ts : Nat, status : Nat]

TypeOK ==
  /\ Broadcast \in [Servers -> Seq(Message)]
  /\ \A s \in Servers : Len(Broadcast[s]) <= BroadcastCap
  /\ pending \in [Servers -> Seq(UserMessage)]
  /\ listing \in [Servers -> Seq(Clients)] /\ listers \subseteq Clients
  /\ PersistenceQueue \in [Servers -> Seq(UserMessage)]
  /\ \A s \in Servers : Len(PersistenceQueue[s]) <= QueueCap
  /\ inbox \in [Servers -> Seq(Message)]
  /\ subs \in [Servers -> SUBSET RoomIDs]
  /\ stopped \in [Servers -> BOOLEAN]
  /\ session \in [Clients -> {"queued", "joined", "replayed", "left"}]
  /\ live \in [Clients -> Seq(Message)]
  /\ past \in [Clients -> SUBSET IDs]
  /\ DOMAIN db \subseteq IDs /\ db \in [DOMAIN db -> Row]
  /\ clock \in Nat /\ published \in Nat /\ announced \subseteq IDs \X Nat
  /\ sends \in [IDs -> Nat]
  /\ acks \in SUBSET (Clients \X IDs \X Statuses)

\* Every client is connected, its registration queued; the table is empty.
Init ==
  /\ Broadcast = [s \in Servers |-> <<>>]
  /\ pending = [s \in Servers |-> <<>>]
  /\ listing = [s \in Servers |-> <<>>] /\ listers = {}
  /\ PersistenceQueue = [s \in Servers |-> <<>>]
  /\ inbox = [s \in Servers |-> <<>>]
  /\ subs = [s \in Servers |-> {}]
  /\ stopped = [s \in Servers |-> FALSE]
  /\ session = [c \in Clients |-> "queued"]
  /\ live = [c \in Clients |-> <<>>] /\ past = [c \in Clients |-> {}]
  /\ db = [i \in {} |-> [ts |-> 0, status |-> 0]]
  /\ clock = 0 /\ published = 0 /\ announced = {}
  /\ sends = [i \in IDs |-> 0] /\ acks = {}

\* AllClients and Rooms of a server.
Registered(c) == session[c] \in {"joined", "replayed"}
Members(s, r) == {c \in Clients : HomeOf[c] = s /\ RoomIDOf[c] = r /\ Registered(c)}
RoomOf(m)     == RoomIDOf[m.from]

AtSelect(s) == ~stopped[s] /\ pending[s] = <<>> /\ listing[s] = <<>>
HasRoom(s)  == Len(Broadcast[s]) < BroadcastCap

-----------------------------------------------------------------------------
(***************************************************************************)
(* ReadPump: sender, room and time are the server's, the status is the     *)
(* frontend's; then a blocking send.                                       *)
(***************************************************************************)
\* Mutant: the check for space is off by one.
IngestMutant(c, id, kind, status) ==
  LET s == HomeOf[c] IN
    /\ session[c] # "left" /\ Len(Broadcast[s]) <= BroadcastCap
    /\ clock' = clock + 1
    /\ Broadcast' = [Broadcast EXCEPT ![s] = Append(@,
         [id |-> id, kind |-> kind, from |-> c, status |-> status, ts |-> clock + 1, n |-> 0])]
    /\ UNCHANGED <<pending, PersistenceQueue, inbox, lists, sessions, logs, db, redis>>

Ingest(c, id, kind, status) ==
  LET s == HomeOf[c] IN
    /\ session[c] # "left" /\ HasRoom(s)
    /\ clock' = clock + 1
    /\ Broadcast' = [Broadcast EXCEPT ![s] = Append(@,
         [id |-> id, kind |-> kind, from |-> c, status |-> status, ts |-> clock + 1, n |-> 0])]
    /\ UNCHANGED <<pending, PersistenceQueue, inbox, lists, sessions, logs, db, redis>>

SendMessage(id) ==
  /\ sends' = [sends EXCEPT ![id] = @ + 1]
  /\ \E plan \in Plans : \A i \in IDs : sends'[i] <= plan[i]
  /\ \E status \in SentStatuses : Ingest(SenderOf[id], id, KindOf[id], status)
  /\ UNCHANGED acks

\* A frontend acknowledges what it has received from others, each status once.
SendAck(c, id, status) ==
  /\ id \in past[c] \/ \E i \in 1..Len(live[c]) : live[c][i].id = id
  /\ SenderOf[id] # c /\ KindOf[id] # "typing" /\ <<c, id, status>> \notin acks
  /\ acks' = acks \cup {<<c, id, status>>}
  /\ Ingest(c, id, "ack", status)
  /\ UNCHANGED sends

-----------------------------------------------------------------------------
(***************************************************************************)
(* Run                                                                     *)
(***************************************************************************)

\* broadcastUserList by Run, as far as SMembers, which may fail; the send follows
\* in PushList.
BroadcastUserList(s, c) ==
  \/ listing' = [listing EXCEPT ![s] = <<c>>]
  \/ RedisMayFail /\ UNCHANGED listing

\* Run, the only receiver of Broadcast, blocks for good when Broadcast is full.
PushList(s) ==
  /\ listing[s] # <<>> /\ HasRoom(s)
  /\ Broadcast' = [Broadcast EXCEPT ![s] = Append(@, UserList(Head(listing[s])))]
  /\ listing' = [listing EXCEPT ![s] = <<>>]
  /\ UNCHANGED <<pending, PersistenceQueue, inbox, listers, sessions, logs, db, clock, redis,
                 inputs>>

\* Register: the client is inserted and its room subscribed.
HubRegister(c) ==
  LET s == HomeOf[c] IN
    /\ AtSelect(s) /\ session[c] = "queued"
    /\ session' = [session EXCEPT ![c] = "joined"]
    /\ subs' = [subs EXCEPT ![s] = @ \cup {RoomIDOf[c]}]
    /\ BroadcastUserList(s, c)
    /\ UNCHANGED <<chans, listers, stopped, logs, db, clock, redis, inputs>>

HubReceives(s) ==
  /\ AtSelect(s) /\ Broadcast[s] # <<>>
  /\ Broadcast' = [Broadcast EXCEPT ![s] = Tail(@)]
  /\ UNCHANGED <<PersistenceQueue, lists, sessions, past, db, clock, inputs>>

\* Mutant: a server ignores its own messages when they come back.
FannedMutant(m) ==
  [t \in Servers |-> IF RoomOf(m) \in subs[t] /\ t # HomeOf[m.from]
                     THEN Append(inbox[t], [m EXCEPT !.n = published + 1]) ELSE inbox[t]]

\* Redis hands a published message to the servers subscribed at that moment.
Fanned(m) ==
  [t \in Servers |-> IF RoomOf(m) \in subs[t]
                     THEN Append(inbox[t], [m EXCEPT !.n = published + 1]) ELSE inbox[t]]

\* Mutant: the test names one kind less.
DurableMutant(m) == m.kind \in {"private", "ack"}

Durable(m) == m.kind \in {"chat", "private", "ack"}

\* History: a message is identified by its id and the time it was sent.
Announce(m) ==
  announced' = IF m.kind \in Kinds THEN announced \cup {<<m.id, m.ts>>} ELSE announced

\* Mutant: the error of Publish is logged and the message is queued all the same.
HubPublishMutant(s) ==
  /\ HubReceives(s)
  /\ LET m == Head(Broadcast[s]) IN
       /\ m.n = 0
       /\ pending' = [pending EXCEPT ![s] = IF Durable(m) THEN <<m>> ELSE <<>>]
       /\ \/ inbox' = Fanned(m) /\ published' = published + 1 /\ Announce(m)
          \/ RedisMayFail /\ UNCHANGED <<inbox, redis>>
  /\ UNCHANGED live

\* A message of this server is published, and queued when it is durable.  When
\* Publish fails it is dropped.
HubPublish(s) ==
  /\ HubReceives(s)
  /\ LET m == Head(Broadcast[s]) IN
       /\ m.n = 0
       /\ \/ /\ inbox' = Fanned(m)
             /\ published' = published + 1 /\ Announce(m)
             /\ pending' = [pending EXCEPT ![s] = IF Durable(m) THEN <<m>> ELSE <<>>]
          \/ RedisMayFail /\ UNCHANGED <<inbox, redis, pending>>
  /\ UNCHANGED live

HubPersist(s) ==
  /\ ~stopped[s] /\ pending[s] # <<>> /\ Len(PersistenceQueue[s]) < QueueCap
  /\ PersistenceQueue' = [PersistenceQueue EXCEPT ![s] = Append(@, Head(pending[s]))]
  /\ pending' = [pending EXCEPT ![s] = <<>>]
  /\ UNCHANGED <<Broadcast, inbox, lists, sessions, logs, db, clock, redis, inputs>>

\* Who is sent a message on a server, and how often: a private message goes to
\* the target and back to the sender.
Copies(s, m, c) ==
  IF c \notin Members(s, RoomOf(m)) \/ m.kind = "user_list" THEN 0
  ELSE IF m.kind = "private"
       THEN (IF c = TargetOf[m.id] THEN 1 ELSE 0) + (IF c = m.from THEN 1 ELSE 0)
       ELSE 1

HubDeliver(s) ==
  /\ HubReceives(s)
  /\ LET m == Head(Broadcast[s]) IN
       /\ m.n > 0
       /\ live' = [c \in Clients |-> live[c] \o [i \in 1..Copies(s, m, c) |-> m]]
  /\ UNCHANGED <<pending, inbox, redis>>

\* cleanupClient ends with a goroutine that sends the user list.
StartListers(C) ==
  \E L \in SUBSET C : (RedisMayFail \/ L = C) /\ listers' = listers \cup L

\* Quit: the sessions are cleaned up, RedisPubSub is closed and Run returns;
\* what Broadcast holds stays there.
HubStop(s) ==
  /\ StopSignal /\ AtSelect(s)
  /\ stopped' = [stopped EXCEPT ![s] = TRUE]
  /\ LET C == {c \in Clients : HomeOf[c] = s /\ Registered(c)} IN
       /\ session' = [c \in Clients |-> IF c \in C THEN "left" ELSE session[c]]
       /\ StartListers(C)
  /\ subs' = [subs EXCEPT ![s] = {}]
  /\ inbox' = [inbox EXCEPT ![s] = <<>>]
  /\ UNCHANGED <<Broadcast, pending, PersistenceQueue, listing, logs, db, clock, redis, inputs>>

-----------------------------------------------------------------------------
(***************************************************************************)
(* ListenToRedis, replayHistory, cleanupClient                             *)
(***************************************************************************)

\* cleanupClient(c): the room is unsubscribed with its last client.
Cleanup(c) ==
  LET s == HomeOf[c] IN
    /\ session' = [session EXCEPT ![c] = "left"]
    /\ subs' = [subs EXCEPT ![s] = IF Members(s, RoomIDOf[c]) \subseteq {c}
                                   THEN @ \ {RoomIDOf[c]} ELSE @]
    /\ StartListers({c})

\* Unregister, from a reader that ended or for a slow consumer: Run sends a user
\* list too.
Leave(c) ==
  /\ c \in Leavers /\ AtSelect(HomeOf[c]) /\ Registered(c)
  /\ Cleanup(c) /\ BroadcastUserList(HomeOf[c], c)
  /\ UNCHANGED <<chans, stopped, logs, db, clock, redis, inputs>>

ListerRuns(c) ==
  LET s == HomeOf[c] IN
    /\ c \in listers /\ HasRoom(s)
    /\ Broadcast' = [Broadcast EXCEPT ![s] = Append(@, UserList(c))]
    /\ listers' = listers \ {c}
    /\ UNCHANGED <<pending, PersistenceQueue, inbox, listing, sessions, logs, db, clock, redis,
                   inputs>>

\* Mutant: each message is forwarded by a goroutine of its own.
ListenForwardMutant(s) ==
  /\ ~stopped[s] /\ HasRoom(s)
  /\ \E i \in 1..Len(inbox[s]) :
       /\ inbox[s][i].kind # "ack"
       /\ Broadcast' = [Broadcast EXCEPT ![s] = Append(@, inbox[s][i])]
       /\ inbox' = [inbox EXCEPT ![s] = SubSeq(@, 1, i - 1) \o SubSeq(@, i + 1, Len(@))]
  /\ UNCHANGED <<pending, PersistenceQueue, lists, sessions, logs, db, clock, redis, inputs>>

ListenForward(s) ==
  /\ ~stopped[s] /\ inbox[s] # <<>> /\ Head(inbox[s]).kind # "ack"
  /\ HasRoom(s)
  /\ Broadcast' = [Broadcast EXCEPT ![s] = Append(@, Head(inbox[s]))]
  /\ inbox' = [inbox EXCEPT ![s] = Tail(@)]
  /\ UNCHANGED <<pending, PersistenceQueue, lists, sessions, logs, db, clock, redis, inputs>>

\* An ack ends the session of its sender and is not forwarded.
ListenAck(s) ==
  /\ ~stopped[s] /\ inbox[s] # <<>> /\ Head(inbox[s]).kind = "ack"
  /\ LET c == Head(inbox[s]).from IN
       \/ HomeOf[c] = s /\ Registered(c) /\ Cleanup(c)
       \/ ~(HomeOf[c] = s /\ Registered(c)) /\ UNCHANGED <<session, subs, listers>>
  /\ inbox' = [inbox EXCEPT ![s] = Tail(@)]
  /\ UNCHANGED <<Broadcast, pending, PersistenceQueue, listing, stopped, logs, db, clock, redis,
                 inputs>>

\* Mutant: private messages are not filtered.
VisibleMutant(c) ==
  {i \in DOMAIN db : RoomIDOf[SenderOf[i]] = RoomIDOf[c]}

\* The WHERE clause of Fetch: private messages only for sender and target.
Visible(c) ==
  {i \in DOMAIN db : /\ RoomIDOf[SenderOf[i]] = RoomIDOf[c]
                     /\ KindOf[i] = "private" => c \in {SenderOf[i], TargetOf[i]}}

\* ORDER BY created_at DESC LIMIT MaxHistory.
History(c) ==
  {i \in Visible(c) : Cardinality({j \in Visible(c) : db[j].ts > db[i].ts}) < MaxHistory}

Replay(c) ==
  /\ session[c] = "joined"
  /\ session' = [session EXCEPT ![c] = "replayed"]
  /\ \/ past' = [past EXCEPT ![c] = History(c)]
     \/ DBMayFail /\ UNCHANGED past
  /\ UNCHANGED <<chans, lists, subs, stopped, live, db, clock, redis, inputs>>

-----------------------------------------------------------------------------
(***************************************************************************)
(* PersistMessageWorker and the repository                                 *)
(***************************************************************************)

\* INSERT ... ON CONFLICT (id) DO NOTHING
Save(m) ==
  db' = [i \in DOMAIN db \cup {m.id} |->
           IF i \in DOMAIN db THEN db[i] ELSE [ts |-> m.ts, status |-> m.status]]

\* Mutant: UPDATE ... WHERE id = $1
UpdateStatusMutant(m) ==
  db' = [i \in DOMAIN db |->
           IF i = m.id THEN [db[i] EXCEPT !.status = m.status] ELSE db[i]]

\* UPDATE ... WHERE id = $1 and status < $2
UpdateStatus(m) ==
  db' = [i \in DOMAIN db |->
           IF i = m.id /\ db[i].status < m.status THEN [db[i] EXCEPT !.status = m.status]
           ELSE db[i]]

\* The worker goes on when a server stops: nobody closes the queue.
PersistWorker(s) ==
  /\ PersistenceQueue[s] # <<>>
  /\ LET m == Head(PersistenceQueue[s]) IN
       \/ m.kind # "ack" /\ Save(m)
       \/ m.kind = "ack" /\ UpdateStatus(m)
       \/ DBMayFail /\ UNCHANGED db
  /\ PersistenceQueue' = [PersistenceQueue EXCEPT ![s] = Tail(@)]
  /\ UNCHANGED <<Broadcast, pending, inbox, lists, sessions, logs, clock, redis, inputs>>

-----------------------------------------------------------------------------
ServerStep(s) ==
  \/ HubPublish(s) \/ HubPersist(s) \/ HubDeliver(s) \/ PushList(s)
  \/ ListenForward(s) \/ ListenAck(s)

Next ==
  \/ \E id \in IDs : SendMessage(id)
  \/ \E c \in Clients, id \in IDs, status \in Statuses : SendAck(c, id, status)
  \/ \E c \in Clients : HubRegister(c) \/ Replay(c) \/ Leave(c) \/ ListerRuns(c)
  \/ \E s \in Servers : ServerStep(s) \/ PersistWorker(s) \/ HubStop(s)

Spec == Init /\ [][Next]_vars

(***************************************************************************)
(* Run, ListenToRedis, the worker and a started replay are goroutines that *)
(* are scheduled. A message that waits in Broadcast is reached although    *)
(* other cases of Run's select are ready too: the select picks at random,  *)
(* hence strong fairness for Run. A goroutine that waits to send is served *)
(* before those that come later, hence strong fairness for it too.         *)
(* Frontends need not send or acknowledge anything, no client need leave,  *)
(* no signal need come.                                                    *)
(***************************************************************************)
Fairness ==
  /\ \A s \in Servers :
       /\ SF_vars(HubPublish(s) \/ HubDeliver(s)) /\ WF_vars(HubPersist(s) \/ PushList(s))
       /\ SF_vars(ListenForward(s) \/ ListenAck(s)) /\ WF_vars(PersistWorker(s))
  /\ \A c \in Clients : WF_vars(Replay(c)) /\ SF_vars(ListerRuns(c))

FairSpec == Spec /\ Fairness

-----------------------------------------------------------------------------
(***************************************************************************)
(* Safety                                                                  *)
(***************************************************************************)

\* Every client sees the messages of its room in the order in which they were
\* published, whichever servers they came from and passed through, so two
\* clients never see two messages in different orders: Redis-first delivery.
DeliveredInOrder ==
  \A c \in Clients : \A i, j \in 1..Len(live[c]) : i < j => live[c][i].n <= live[c][j].n

\* A row is never lost or replaced and its status never goes back, although
\* retries, late acknowledgements and two workers write the table: ON CONFLICT
\* DO NOTHING in Save, status < $2 in UpdateStatus.
RowsOnlyAdvance ==
  [][\A i \in DOMAIN db :
       /\ i \in DOMAIN db'
       /\ db'[i].ts = db[i].ts
       /\ db'[i].status >= db[i].status]_vars

\* A private message is seen by its sender and its target only, live or from
\* the history, and nobody sees a message of another room.
OnlyAddressees ==
  \A c \in Clients : \A i \in IDs :
    (i \in past[c] \/ \E k \in 1..Len(live[c]) : live[c][k].id = i)
      => /\ RoomIDOf[SenderOf[i]] = RoomIDOf[c]
         /\ KindOf[i] = "private" => c \in {SenderOf[i], TargetOf[i]}

\* A message that could not be published is not stored either: whatever is in the
\* history was announced to the room, and it is the sending that was announced
\* and not an earlier one of the same id whose Publish failed, however often the
\* frontend sends it again and whichever worker is late.
StoredWasPublished == \A i \in DOMAIN db : <<i, db[i].ts>> \in announced

\* On its way to client c.
Underway(i, c) ==
  LET s == HomeOf[c] IN
    \/ \E k \in 1..Len(inbox[s]) : inbox[s][k].id = i
    \/ \E k \in 1..Len(Broadcast[s]) : Broadcast[s][k].id = i

\* A client that has its history and stays misses no message of its room: it is
\* in the history, or was or will be delivered live.
NoGap ==
  \A c \in Clients, i \in DOMAIN db :
    (session[c] = "replayed" /\ RoomIDOf[SenderOf[i]] = RoomIDOf[c] /\ KindOf[i] = "chat")
      => \/ i \in past[c] \/ Underway(i, c)
         \/ \E k \in 1..Len(live[c]) : live[c][k].id = i

(***************************************************************************)
(* Liveness                                                                *)
(***************************************************************************)

\* The server of a message's sender; message i has been handed over to it.
ServerOf(i) == HomeOf[SenderOf[i]]

Waiting(i) ==
  \E k \in 1..Len(Broadcast[ServerOf(i)]) :
    Broadcast[ServerOf(i)][k].id = i /\ Broadcast[ServerOf(i)][k].n = 0

\* Run is blocked for good in the send of its own user list.
Stuck(s) == listing[s] # <<>> /\ ~HasRoom(s)

\* With Redis and the database up, a chat or private message that ReadPump has
\* handed over is stored, unless its server is stuck or stops before Run has taken
\* the message: what Run has taken is stored although Run returns.
EventuallySaved ==
  \A i \in IDs :
    (KindOf[i] # "typing" /\ Waiting(i))
      ~> (i \in DOMAIN db \/ (stopped[ServerOf(i)] /\ Waiting(i)) \/ Stuck(ServerOf(i)))

\* A chat message that is handed over when a client is in the room reaches it,
\* on whichever server it is, or the client leaves, or one of the two servers is
\* stopped or stuck.
EventuallyReceived ==
  \A i \in IDs, c \in Clients :
    (KindOf[i] = "chat" /\ Waiting(i) /\ c \in Members(HomeOf[c], RoomIDOf[SenderOf[i]]))
      ~> \/ \E k \in 1..Len(live[c]) : live[c][k].id = i
         \/ ~Registered(c) \/ stopped[ServerOf(i)]
         \/ Stuck(ServerOf(i)) \/ Stuck(HomeOf[c])

=============================================================================
