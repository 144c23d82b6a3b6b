--------------------------- MODULE PipelineProofs ---------------------------
(***************************************************************************)
(* What holds of a message's way for every number of servers, clients,     *)
(* rooms and messages and every channel capacity.                          *)
(***************************************************************************)
EXTENDS Pipeline, SequenceTheorems, TLAPS

\* The constants, each by itself.
LEMMA Constants ==
  /\ BroadcastCap \in Nat /\ QueueCap \in Nat
  /\ Statuses \subseteq Nat /\ SentStatuses \subseteq Nat
  /\ HomeOf \in [Clients -> Servers] /\ RoomIDOf \in [Clients -> RoomIDs]
  /\ KindOf \in [IDs -> Kinds] /\ SenderOf \in [IDs -> Clients] /\ TargetOf \in [IDs -> Clients]
BY PipelineAssumption DEF PipelineAssumption

\* A send to a channel with space keeps a server's channels well typed and
\* within their capacity.
LEMMA PushType ==
  ASSUME NEW S, NEW f \in [Servers -> Seq(S)], NEW s \in Servers, NEW x \in S
  PROVE  /\ [f EXCEPT ![s] = Append(@, x)] \in [Servers -> Seq(S)]
         /\ \A cap \in Nat : (\A t \in Servers : Len(f[t]) <= cap) /\ Len(f[s]) < cap
              => \A t \in Servers : Len([f EXCEPT ![s] = Append(@, x)][t]) <= cap
<1>1. \A t \in Servers : f[t] \in Seq(S) /\ Len(f[t]) \in Nat
  OBVIOUS
<1>2. Append(f[s], x) \in Seq(S) /\ Len(Append(f[s], x)) = Len(f[s]) + 1
  BY <1>1
<1>3. \A t \in Servers : [f EXCEPT ![s] = Append(@, x)][t] = IF t = s THEN Append(f[s], x) ELSE f[t]
  OBVIOUS
<1> QED BY <1>1, <1>2, <1>3

\* A receive from a channel that is not empty does too.
LEMMA PopType ==
  ASSUME NEW S, NEW f \in [Servers -> Seq(S)], NEW s \in Servers, f[s] # <<>>
  PROVE  /\ Head(f[s]) \in S
         /\ [f EXCEPT ![s] = Tail(@)] \in [Servers -> Seq(S)]
         /\ \A cap \in Nat : (\A t \in Servers : Len(f[t]) <= cap)
              => \A t \in Servers : Len([f EXCEPT ![s] = Tail(@)][t]) <= cap
<1>1. \A t \in Servers : f[t] \in Seq(S) /\ Len(f[t]) \in Nat
  OBVIOUS
<1>2. Head(f[s]) \in S /\ Tail(f[s]) \in Seq(S) /\ Len(Tail(f[s])) = Len(f[s]) - 1
  BY <1>1
<1>3. \A t \in Servers : [f EXCEPT ![s] = Tail(@)][t] = IF t = s THEN Tail(f[s]) ELSE f[t]
  OBVIOUS
<1> QED BY <1>1, <1>2, <1>3

\* What ReadPump sends to Broadcast.
LEMMA IngestedType ==
  ASSUME NEW c \in Clients, NEW id \in IDs, NEW kind \in Kinds \cup {"ack"}, NEW status \in Nat,
         NEW ts \in Nat
  PROVE  [id |-> id, kind |-> kind, from |-> c, status |-> status, ts |-> ts, n |-> 0] \in Message
BY DEF Message, UserMessage

\* What broadcastUserList sends.
LEMMA ListType ==
  ASSUME NEW c \in Clients
  PROVE  UserList(c) \in Message /\ UserList(c).n = 0 /\ UserList(c).kind = "user_list"
BY DEF Message, UserList

\* The parts of a message.
LEMMA MessageType ==
  ASSUME NEW m \in Message
  PROVE  /\ m.from \in Clients /\ m.n \in Nat /\ m.ts \in Nat /\ m.status \in Nat
         /\ m.kind \in Kinds \cup {"ack", "user_list"}
         /\ m.kind # "user_list" => m \in UserMessage /\ m.id \in IDs
BY DEF Message, UserMessage

\* Publication changes nothing of a message but its stamp.
LEMMA StampType ==
  ASSUME NEW m \in Message, NEW k \in Nat
  PROVE  LET q == [m EXCEPT !.n = k]
         IN  q \in Message /\ q.n = k /\ q.id = m.id /\ q.kind = m.kind /\ q.from = m.from
BY DEF Message, UserMessage

\* The copies of a message, none to two, extend what a client has received.
LEMMA CopiesType ==
  ASSUME NEW q \in Seq(Message), NEW m \in Message, NEW k \in Nat
  PROVE  LET p == q \o [i \in 1..k |-> m]
         IN  /\ p \in Seq(Message) /\ Len(p) = Len(q) + k
             /\ \A i \in 1..Len(p) : p[i] = IF i <= Len(q) THEN q[i] ELSE m
<1> DEFINE r == [i \in 1..k |-> m]
<1>1. r \in Seq(Message) /\ Len(r) = k /\ \A i \in 1..k : r[i] = m
  OBVIOUS
<1> HIDE DEF r
<1>2. q \o r \in Seq(Message) /\ Len(q \o r) = Len(q) + k
  BY <1>1
<1>3. \A i \in 1..Len(q \o r) : (q \o r)[i] = IF i <= Len(q) THEN q[i] ELSE m
  BY <1>1, <1>2
<1> QED BY <1>2, <1>3 DEF r

\* A client gets at most two copies, and one only in the room of the message.
LEMMA CopiesBound ==
  ASSUME NEW s, NEW m, NEW c
  PROVE  /\ Copies(s, m, c) \in 0..2
         /\ Copies(s, m, c) > 0 => c \in Members(s, RoomOf(m)) /\ m.kind # "user_list"
BY DEF Copies

\* A row's status can be raised.
LEMMA RowType ==
  ASSUME NEW r \in Row, NEW k \in Nat
  PROVE  LET q == [r EXCEPT !.status = k] IN q \in Row /\ q.ts = r.ts /\ q.status = k
BY DEF Row

\* Run keeps at most one client in mind to send a list for.
LEMMA ListingType ==
  ASSUME TypeOK, NEW s \in Servers, NEW c \in Clients, BroadcastUserList(s, c)
  PROVE  listing' \in [Servers -> Seq(Clients)]
<1>1. <<c>> \in Seq(Clients) /\ listing \in [Servers -> Seq(Clients)]
  BY DEF TypeOK
<1>2. listing' = [listing EXCEPT ![s] = <<c>>] \/ listing' = listing
  BY DEF BroadcastUserList
<1> DEFINE x == <<c>>
<1> HIDE DEF x
<1>3. listing' = [listing EXCEPT ![s] = x] \/ listing' = listing
  BY <1>2 DEF x
<1>4. x \in Seq(Clients)
  BY <1>1 DEF x
<1> QED BY <1>1, <1>3, <1>4

\* NewHub's state is well typed.
LEMMA TypeInit == Init => TypeOK
<1> SUFFICES ASSUME Init PROVE TypeOK
  OBVIOUS
<1>1. DOMAIN db = {} /\ db \in [DOMAIN db -> Row]
  BY DEF Init
<1> QED BY <1>1, Constants DEF Init, TypeOK

\* ReadPump keeps the channel well typed.
LEMMA IngestKeepsType ==
  ASSUME TypeOK, NEW c \in Clients, NEW id \in IDs, NEW kind \in Kinds \cup {"ack"},
         NEW status \in Nat, Ingest(c, id, kind, status)
  PROVE  /\ Broadcast' \in [Servers -> Seq(Message)]
         /\ \A s \in Servers : Len(Broadcast'[s]) <= BroadcastCap
         /\ clock' \in Nat
<1> DEFINE m == [id |-> id, kind |-> kind, from |-> c, status |-> status,
                 ts |-> clock + 1, n |-> 0]
<1>1. m \in Message /\ clock + 1 \in Nat
  BY IngestedType DEF TypeOK
<1> HIDE DEF m
<1>2. HomeOf[c] \in Servers
  BY Constants
<1>3. Broadcast' = [Broadcast EXCEPT ![HomeOf[c]] = Append(@, m)]
      /\ Len(Broadcast[HomeOf[c]]) < BroadcastCap /\ clock' = clock + 1
  BY DEF Ingest, HasRoom, m
<1>4. Broadcast \in [Servers -> Seq(Message)] /\ BroadcastCap \in Nat
      /\ \A s \in Servers : Len(Broadcast[s]) <= BroadcastCap
  BY Constants DEF TypeOK
<1> QED BY <1>1, <1>2, <1>3, <1>4, PushType

\* INSERT adds at most one row and touches no other.
LEMMA SaveType ==
  ASSUME TypeOK, NEW m \in UserMessage, Save(m)
  PROVE  /\ DOMAIN db' \subseteq IDs /\ db' \in [DOMAIN db' -> Row]
         /\ \A i \in DOMAIN db : i \in DOMAIN db' /\ db'[i] = db[i]
<1>1. m.id \in IDs /\ [ts |-> m.ts, status |-> m.status] \in Row
  BY DEF UserMessage, Row
<1> QED BY <1>1 DEF TypeOK, Save

\* UPDATE touches one row, and only to raise its status.
LEMMA UpdateType ==
  ASSUME TypeOK, NEW m \in UserMessage, UpdateStatus(m)
  PROVE  /\ DOMAIN db' \subseteq IDs /\ db' \in [DOMAIN db' -> Row]
         /\ \A i \in DOMAIN db :
              i \in DOMAIN db' /\ db'[i].ts = db[i].ts /\ db'[i].status >= db[i].status
<1>1. m.status \in Nat
  BY DEF UserMessage
<1>2. DOMAIN db' = DOMAIN db
  BY DEF UpdateStatus
<1>3. ASSUME NEW i \in DOMAIN db
      PROVE  db'[i] \in Row /\ db'[i].ts = db[i].ts /\ db'[i].status >= db[i].status
  <2>1. db[i] \in Row /\ db[i].status \in Nat
    BY DEF TypeOK, Row
  <2>2. CASE i = m.id /\ db[i].status < m.status
    <3>1. db'[i] = [db[i] EXCEPT !.status = m.status]
      BY <2>2 DEF UpdateStatus
    <3> QED BY <1>1, <2>1, <2>2, <3>1, RowType
  <2>3. CASE ~(i = m.id /\ db[i].status < m.status)
    <3>1. db'[i] = db[i]
      BY <2>3 DEF UpdateStatus
    <3> QED BY <2>1, <3>1
  <2> QED BY <2>2, <2>3
<1>4. db' \in [DOMAIN db' -> Row]
  BY <1>2, <1>3 DEF UpdateStatus
<1> QED BY <1>2, <1>3, <1>4 DEF TypeOK

\* Every step keeps the state well typed and the channels within their capacity.
LEMMA TypeNext == TypeOK /\ [Next]_vars => TypeOK'
<1> SUFFICES ASSUME TypeOK, [Next]_vars PROVE TypeOK'
  OBVIOUS
<1> USE DEF chans, lists, sessions, logs, redis, inputs
<1>c. \A c \in Clients : HomeOf[c] \in Servers /\ RoomIDOf[c] \in RoomIDs
  BY Constants
<1>k. BroadcastCap \in Nat /\ QueueCap \in Nat
  BY Constants
<1>1. ASSUME NEW id \in IDs, SendMessage(id) PROVE TypeOK'
  <2>1. PICK status \in SentStatuses : Ingest(SenderOf[id], id, KindOf[id], status)
    BY <1>1 DEF SendMessage
  <2>2. /\ Broadcast' \in [Servers -> Seq(Message)]
        /\ \A s \in Servers : Len(Broadcast'[s]) <= BroadcastCap
        /\ clock' \in Nat
    BY <2>1, IngestKeepsType, Constants
  <2>3. sends' \in [IDs -> Nat]
    <3>1. sends' = [sends EXCEPT ![id] = sends[id] + 1] /\ sends \in [IDs -> Nat]
      BY <1>1 DEF SendMessage, TypeOK
    <3> QED BY <3>1
  <2> QED BY <1>1, <2>1, <2>2, <2>3 DEF SendMessage, Ingest, TypeOK
<1>2. ASSUME NEW c \in Clients, NEW id \in IDs, NEW status \in Statuses, SendAck(c, id, status)
      PROVE  TypeOK'
  <2>1. Ingest(c, id, "ack", status)
    BY <1>2 DEF SendAck
  <2>2. /\ Broadcast' \in [Servers -> Seq(Message)]
        /\ \A s \in Servers : Len(Broadcast'[s]) <= BroadcastCap
        /\ clock' \in Nat
    BY <2>1, IngestKeepsType, Constants
  <2>3. acks' \in SUBSET (Clients \X IDs \X Statuses)
    BY <1>2 DEF SendAck, TypeOK
  <2> QED BY <1>2, <2>1, <2>2, <2>3 DEF SendAck, Ingest, TypeOK
<1>3. ASSUME NEW c \in Clients, HubRegister(c) PROVE TypeOK'
  <2>1. listing' \in [Servers -> Seq(Clients)]
    BY <1>3, <1>c, ListingType DEF HubRegister
  <2> QED BY <1>3, <1>c, <2>1 DEF HubRegister, TypeOK
<1>4. ASSUME NEW c \in Clients, Replay(c) PROVE TypeOK'
  <2>1. History(c) \subseteq IDs
    BY DEF History, Visible, TypeOK
  <2>2. past' \in [Clients -> SUBSET IDs]
    BY <1>4, <2>1 DEF Replay, TypeOK
  <2> QED BY <1>4, <2>2 DEF Replay, TypeOK
<1>5. ASSUME NEW c \in Clients, Leave(c) PROVE TypeOK'
  <2>1. listing' \in [Servers -> Seq(Clients)]
    BY <1>5, <1>c, ListingType DEF Leave
  <2>2. listers' \subseteq Clients
    BY <1>5 DEF Leave, Cleanup, StartListers, TypeOK
  <2> QED BY <1>5, <1>c, <2>1, <2>2 DEF Leave, Cleanup, TypeOK
<1>14. ASSUME NEW c \in Clients, ListerRuns(c) PROVE TypeOK'
  <2>1. Broadcast' \in [Servers -> Seq(Message)]
        /\ \A t \in Servers : Len(Broadcast'[t]) <= BroadcastCap
    BY <1>14, <1>c, <1>k, ListType, PushType DEF ListerRuns, HasRoom, TypeOK
  <2> QED BY <1>14, <2>1 DEF ListerRuns, TypeOK
<1>15. ASSUME NEW s \in Servers, PushList(s) PROVE TypeOK'
  <2>1. Head(listing[s]) \in Clients
    BY <1>15 DEF PushList, TypeOK
  <2>2. Broadcast' \in [Servers -> Seq(Message)]
        /\ \A t \in Servers : Len(Broadcast'[t]) <= BroadcastCap
    BY <1>15, <1>k, <2>1, ListType, PushType DEF PushList, HasRoom, TypeOK
  <2>3. listing' \in [Servers -> Seq(Clients)]
    BY <1>15 DEF PushList, TypeOK
  <2> QED BY <1>15, <2>2, <2>3 DEF PushList, TypeOK
<1>6. ASSUME NEW s \in Servers, HubPublish(s) PROVE TypeOK'
  <2>1. Head(Broadcast[s]) \in Message /\ Broadcast' \in [Servers -> Seq(Message)]
        /\ \A t \in Servers : Len(Broadcast'[t]) <= BroadcastCap
    BY <1>6, <1>k, PopType DEF HubPublish, HubReceives, TypeOK
  <2>2. Fanned(Head(Broadcast[s])) \in [Servers -> Seq(Message)]
    <3>1. published + 1 \in Nat
      BY DEF TypeOK
    <3>2. [Head(Broadcast[s]) EXCEPT !.n = published + 1] \in Message
      BY <2>1, <3>1, StampType
    <3> QED BY <3>2 DEF Fanned, TypeOK
  <2>3. /\ pending' \in [Servers -> Seq(UserMessage)] /\ published' \in Nat
        /\ inbox' \in [Servers -> Seq(Message)] /\ announced' \subseteq IDs \X Nat
    <3> DEFINE m == Head(Broadcast[s])
    <3>1. CASE /\ inbox' = Fanned(m) /\ published' = published + 1 /\ Announce(m)
               /\ pending' = [pending EXCEPT ![s] = IF Durable(m) THEN <<m>> ELSE <<>>]
      <4>1. Durable(m) \/ m.kind \in Kinds => m \in UserMessage
        BY <2>1, MessageType DEF Durable, Kinds
      <4>2. (IF Durable(m) THEN <<m>> ELSE <<>>) \in Seq(UserMessage)
        BY <4>1
      <4>3. m.kind \in Kinds => m.id \in IDs /\ m.ts \in Nat
        BY <4>1 DEF UserMessage
      <4> HIDE DEF m
      <4>4. announced' \subseteq IDs \X Nat
        BY <3>1, <4>3 DEF Announce, TypeOK
      <4> QED BY <2>2, <3>1, <4>2, <4>4 DEF TypeOK, m
    <3>2. CASE UNCHANGED <<inbox, redis, pending>>
      BY <3>2 DEF TypeOK
    <3> QED BY <1>6, <3>1, <3>2 DEF HubPublish
  <2> QED BY <1>6, <2>1, <2>3 DEF HubPublish, HubReceives, TypeOK
<1>7. ASSUME NEW s \in Servers, HubPersist(s) PROVE TypeOK'
  <2>1. Head(pending[s]) \in UserMessage
    BY <1>7 DEF HubPersist, TypeOK
  <2>2. PersistenceQueue' \in [Servers -> Seq(UserMessage)]
        /\ \A t \in Servers : Len(PersistenceQueue'[t]) <= QueueCap
    BY <1>7, <1>k, <2>1, PushType DEF HubPersist, TypeOK
  <2>3. pending' \in [Servers -> Seq(UserMessage)]
    BY <1>7 DEF HubPersist, TypeOK
  <2> QED BY <1>7, <2>2, <2>3 DEF HubPersist, TypeOK
<1>8. ASSUME NEW s \in Servers, HubDeliver(s) PROVE TypeOK'
  <2> DEFINE m == Head(Broadcast[s])
  <2>1. m \in Message /\ Broadcast' \in [Servers -> Seq(Message)]
        /\ \A t \in Servers : Len(Broadcast'[t]) <= BroadcastCap
    BY <1>8, <1>k, PopType DEF HubDeliver, HubReceives, TypeOK
  <2>2. live' = [c \in Clients |-> live[c] \o [i \in 1..Copies(s, m, c) |-> m]]
    BY <1>8 DEF HubDeliver
  <2> HIDE DEF m
  <2>3. live' \in [Clients -> Seq(Message)]
    <3>1. ASSUME NEW c \in Clients
          PROVE  live[c] \o [i \in 1..Copies(s, m, c) |-> m] \in Seq(Message)
      <4>1. Copies(s, m, c) \in 0..2
        BY CopiesBound, Zenon
      <4>2. live[c] \in Seq(Message) /\ Copies(s, m, c) \in Nat
        BY <4>1 DEF TypeOK
      <4> QED BY <2>1, <4>2, CopiesType
    <3> QED BY <2>2, <3>1
  <2> QED BY <1>8, <2>1, <2>3 DEF HubDeliver, HubReceives, TypeOK
<1>9. ASSUME NEW s \in Servers, ListenForward(s) PROVE TypeOK'
  <2>1. Head(inbox[s]) \in Message /\ inbox' \in [Servers -> Seq(Message)]
    BY <1>9, PopType DEF ListenForward, TypeOK
  <2>2. Broadcast' \in [Servers -> Seq(Message)]
        /\ \A t \in Servers : Len(Broadcast'[t]) <= BroadcastCap
    BY <1>9, <1>k, <2>1, PushType DEF ListenForward, HasRoom, TypeOK
  <2> QED BY <1>9, <2>1, <2>2 DEF ListenForward, TypeOK
<1>10. ASSUME NEW s \in Servers, ListenAck(s) PROVE TypeOK'
  <2>0. Head(inbox[s]) \in Message /\ inbox' \in [Servers -> Seq(Message)]
    BY <1>10, PopType DEF ListenAck, TypeOK
  <2>1. Head(inbox[s]).from \in Clients
    BY <2>0, MessageType
  <2>2. session' \in [Clients -> {"queued", "joined", "replayed", "left"}]
        /\ subs' \in [Servers -> SUBSET RoomIDs] /\ listers' \subseteq Clients
    <3> DEFINE c == Head(inbox[s]).from
    <3>1. CASE Cleanup(c)
      <4>1. c \in Clients /\ HomeOf[c] \in Servers
        BY <1>c, <2>1
      <4> HIDE DEF c
      <4> QED BY <3>1, <4>1 DEF Cleanup, StartListers, TypeOK
    <3>2. CASE UNCHANGED <<session, subs, listers>>
      BY <3>2 DEF TypeOK
    <3> QED BY <1>10, <3>1, <3>2 DEF ListenAck
  <2> QED BY <1>10, <2>0, <2>2 DEF ListenAck, TypeOK
<1>11. ASSUME NEW s \in Servers, PersistWorker(s) PROVE TypeOK'
  <2>1. Head(PersistenceQueue[s]) \in UserMessage
    BY <1>11 DEF PersistWorker, TypeOK
  <2>2. DOMAIN db' \subseteq IDs /\ db' \in [DOMAIN db' -> Row]
    BY <1>11, <2>1, SaveType, UpdateType DEF PersistWorker, TypeOK
  <2>3. PersistenceQueue' \in [Servers -> Seq(UserMessage)]
        /\ \A t \in Servers : Len(PersistenceQueue'[t]) <= QueueCap
    BY <1>11, <1>k, PopType DEF PersistWorker, TypeOK
  <2> QED BY <1>11, <2>2, <2>3 DEF PersistWorker, TypeOK
<1>12. ASSUME NEW s \in Servers, HubStop(s) PROVE TypeOK'
  <2>1. listers' \subseteq Clients
    BY <1>12 DEF HubStop, StartListers, TypeOK
  <2>2. session' \in [Clients -> {"queued", "joined", "replayed", "left"}]
    BY <1>12 DEF HubStop, TypeOK
  <2>3. inbox' \in [Servers -> Seq(Message)] /\ subs' \in [Servers -> SUBSET RoomIDs]
        /\ stopped' \in [Servers -> BOOLEAN]
    BY <1>12 DEF HubStop, TypeOK
  <2> QED BY <1>12, <2>1, <2>2, <2>3 DEF HubStop, TypeOK
<1>13. CASE UNCHANGED vars
  BY <1>13 DEF vars, TypeOK
<1> QED
  BY <1>1, <1>2, <1>3, <1>4, <1>5, <1>6, <1>7, <1>8, <1>9, <1>10, <1>11, <1>12, <1>13,
     <1>14, <1>15
     DEF Next, ServerStep

\* Type correctness: no channel ever holds more than its capacity, whichever
\* goroutines send to it, and the table holds rows of sent messages only.
THEOREM TypeCorrect == Spec => []TypeOK
BY TypeInit, TypeNext, PTL DEF Spec

\* Every write of any worker leaves the rows there are in place and their
\* status where it is or further: ON CONFLICT DO NOTHING and status < $2.
THEOREM RowsOnlyAdvanceHolds == Spec => RowsOnlyAdvance
<1> DEFINE Advance == \A i \in DOMAIN db : /\ i \in DOMAIN db'
                                           /\ db'[i].ts = db[i].ts
                                           /\ db'[i].status >= db[i].status
<1>1. TypeOK /\ [Next]_vars => [Advance]_vars
  <2> SUFFICES ASSUME TypeOK, Next PROVE Advance
    OBVIOUS
  <2>1. \A i \in DOMAIN db : db[i].status \in Nat
    BY DEF TypeOK, Row
  <2>2. ASSUME NEW s \in Servers, PersistWorker(s) PROVE Advance
    <3>1. Head(PersistenceQueue[s]) \in UserMessage
      BY <2>2 DEF PersistWorker, TypeOK
    <3>2. CASE Save(Head(PersistenceQueue[s]))
      BY <2>1, <3>1, <3>2, SaveType
    <3>3. CASE UpdateStatus(Head(PersistenceQueue[s]))
      BY <3>1, <3>3, UpdateType
    <3>4. CASE UNCHANGED db
      BY <2>1, <3>4
    <3> QED BY <2>2, <3>2, <3>3, <3>4 DEF PersistWorker
  <2>3. CASE UNCHANGED db
    BY <2>1, <2>3
  <2> QED
    BY <2>2, <2>3 DEF Next, ServerStep, SendMessage, SendAck, Ingest, HubRegister, Replay,
       Leave, ListerRuns, PushList, HubPublish, HubReceives, HubPersist, HubDeliver,
       ListenForward, ListenAck, HubStop
<1>2. Spec => [][Advance]_vars
  BY <1>1, TypeInit, TypeNext, PTL DEF Spec
<1> QED BY <1>2 DEF RowsOnlyAdvance

-----------------------------------------------------------------------------
(***************************************************************************)
(* Who sees a message                                                      *)
(***************************************************************************)

\* A message that is neither an ack nor a user list says what its sender sent:
\* ReadPump overwrites the sender and the room with the connection's own.
Genuine ==
  {m \in Message : m.kind \in Kinds => m.from = SenderOf[m.id] /\ m.kind = KindOf[m.id]}

\* Acks that come from Redis are not forwarded.
Forwarded == {m \in Genuine : m.n > 0 => m.kind # "ack"}

AddressInv ==
  /\ TypeOK
  /\ inbox \in [Servers -> Seq(Genuine)]
  /\ Broadcast \in [Servers -> Seq(Forwarded)]
  /\ OnlyAddressees

\* May a client see a message?
Addressee(c, i) ==
  /\ RoomIDOf[SenderOf[i]] = RoomIDOf[c]
  /\ KindOf[i] = "private" => c \in {SenderOf[i], TargetOf[i]}

\* A client that is sent a copy is an addressee.
LEMMA CopiesAddressed ==
  ASSUME NEW s \in Servers, NEW m \in Forwarded, m.n > 0, NEW c \in Clients,
         Copies(s, m, c) > 0
  PROVE  Addressee(c, m.id)
<1>0. m.kind \in Kinds
  <2>1. m \in Message /\ m.kind # "ack" /\ m.kind # "user_list"
    BY CopiesBound DEF Forwarded, Genuine
  <2> QED BY <2>1, MessageType
<1>1. m.from = SenderOf[m.id] /\ m.kind = KindOf[m.id]
  BY <1>0 DEF Forwarded, Genuine
<1>2. RoomIDOf[c] = RoomIDOf[m.from]
  BY CopiesBound DEF Members, RoomOf
<1>3. m.kind = "private" => c = TargetOf[m.id] \/ c = m.from
  BY DEF Copies
<1> QED BY <1>1, <1>2, <1>3 DEF Addressee

\* Every step keeps messages genuine and shows them to addressees only.
LEMMA AddressNext == AddressInv /\ [Next]_vars => AddressInv'
<1> SUFFICES ASSUME AddressInv, [Next]_vars
             PROVE  /\ inbox' \in [Servers -> Seq(Genuine)]
                    /\ Broadcast' \in [Servers -> Seq(Forwarded)]
                    /\ OnlyAddressees'
  BY TypeNext DEF AddressInv
<1> USE DEF AddressInv, chans, lists, sessions, logs, redis, inputs
<1>s. ASSUME UNCHANGED logs PROVE OnlyAddressees'
  BY <1>s DEF OnlyAddressees
<1>1. ASSUME NEW c \in Clients, NEW id \in IDs, NEW kind \in Kinds \cup {"ack"}, NEW status \in Nat,
             Ingest(c, id, kind, status), kind # "ack" => c = SenderOf[id] /\ kind = KindOf[id]
      PROVE  /\ inbox' \in [Servers -> Seq(Genuine)]
             /\ Broadcast' \in [Servers -> Seq(Forwarded)]
             /\ OnlyAddressees'
  <2> DEFINE m == [id |-> id, kind |-> kind, from |-> c, status |-> status,
                   ts |-> clock + 1, n |-> 0]
  <2>0. clock + 1 \in Nat
    BY DEF TypeOK
  <2>1. m \in Message /\ m.n = 0 /\ m.kind = kind /\ m.from = c /\ m.id = id
    BY <2>0, IngestedType
  <2>2. Broadcast' = [Broadcast EXCEPT ![HomeOf[c]] = Append(@, m)]
        /\ UNCHANGED <<inbox, live, past>>
    BY <1>1 DEF Ingest
  <2> HIDE DEF m
  <2>3. m \in Forwarded
    BY <1>1, <2>1 DEF Forwarded, Genuine, Kinds
  <2>4. HomeOf[c] \in Servers
    BY Constants
  <2>5. Broadcast' \in [Servers -> Seq(Forwarded)]
    BY <2>2, <2>3, <2>4, PushType
  <2> QED BY <1>s, <2>2, <2>5
<1>2. ASSUME NEW id \in IDs, SendMessage(id)
      PROVE  /\ inbox' \in [Servers -> Seq(Genuine)]
             /\ Broadcast' \in [Servers -> Seq(Forwarded)]
             /\ OnlyAddressees'
  <2>1. PICK status \in SentStatuses : Ingest(SenderOf[id], id, KindOf[id], status)
    BY <1>2 DEF SendMessage
  <2> QED BY <1>1, <2>1, Constants
<1>11. ASSUME NEW c \in Clients, NEW s \in Servers,
              Broadcast' = [Broadcast EXCEPT ![s] = Append(@, UserList(c))]
       PROVE  Broadcast' \in [Servers -> Seq(Forwarded)]
  <2>1. UserList(c) \in Forwarded
    BY ListType DEF Forwarded, Genuine, Kinds
  <2> QED BY <1>11, <2>1, PushType
<1>12. ASSUME NEW c \in Clients, ListerRuns(c)
       PROVE  Broadcast' \in [Servers -> Seq(Forwarded)]
  BY <1>11, <1>12, Constants DEF ListerRuns
<1>13. ASSUME NEW s \in Servers, PushList(s)
       PROVE  Broadcast' \in [Servers -> Seq(Forwarded)]
  <2>1. Head(listing[s]) \in Clients
    BY <1>13 DEF PushList, TypeOK
  <2> QED BY <1>11, <1>13, <2>1 DEF PushList
<1>3. ASSUME NEW c \in Clients, NEW id \in IDs, NEW status \in Statuses, SendAck(c, id, status)
      PROVE  /\ inbox' \in [Servers -> Seq(Genuine)]
             /\ Broadcast' \in [Servers -> Seq(Forwarded)]
             /\ OnlyAddressees'
  BY <1>1, <1>3, Constants DEF SendAck
<1>4. ASSUME NEW c \in Clients, Replay(c) PROVE OnlyAddressees'
  <2>1. CASE past' = [past EXCEPT ![c] = History(c)]
    <3>1. \A i \in History(c) : Addressee(c, i)
      BY DEF History, Visible, Addressee
    <3>2. \A d \in Clients : past'[d] = IF d = c THEN History(c) ELSE past[d]
      BY <2>1 DEF TypeOK
    <3>3. live' = live
      BY <1>4 DEF Replay
    <3> QED BY <3>1, <3>2, <3>3 DEF OnlyAddressees, Addressee
  <2>2. CASE UNCHANGED past
    BY <1>4, <1>s, <2>2 DEF Replay
  <2> QED BY <1>4, <2>1, <2>2 DEF Replay
<1>5. ASSUME NEW s \in Servers, HubPublish(s)
      PROVE  /\ inbox' \in [Servers -> Seq(Genuine)]
             /\ Broadcast' \in [Servers -> Seq(Forwarded)]
             /\ OnlyAddressees'
  <2> DEFINE m == Head(Broadcast[s])
             q == [m EXCEPT !.n = published + 1]
  <2>1. m \in Forwarded /\ Broadcast' \in [Servers -> Seq(Forwarded)]
    BY <1>5, PopType DEF HubPublish, HubReceives
  <2>2. inbox' = Fanned(m) \/ UNCHANGED inbox
    BY <1>5 DEF HubPublish
  <2> HIDE DEF m
  <2>3. m \in Message /\ published + 1 \in Nat
    BY <2>1 DEF Forwarded, Genuine, TypeOK
  <2>4. q \in Message /\ q.id = m.id /\ q.kind = m.kind /\ q.from = m.from
    BY <2>3, StampType
  <2>5. Fanned(m) = [t \in Servers |-> IF RoomOf(m) \in subs[t] THEN Append(inbox[t], q)
                                       ELSE inbox[t]]
    BY DEF Fanned
  <2> HIDE DEF q
  <2>6. q \in Genuine
    BY <2>1, <2>4 DEF Forwarded, Genuine
  <2>7. inbox' \in [Servers -> Seq(Genuine)]
    <3>1. \A t \in Servers : inbox[t] \in Seq(Genuine) /\ Append(inbox[t], q) \in Seq(Genuine)
      BY <2>6
    <3> QED BY <2>2, <2>5, <3>1
  <2> QED BY <1>5, <1>s, <2>1, <2>7 DEF HubPublish, HubReceives
<1>6. ASSUME NEW s \in Servers, HubDeliver(s)
      PROVE  /\ Broadcast' \in [Servers -> Seq(Forwarded)]
             /\ OnlyAddressees'
  <2> DEFINE m == Head(Broadcast[s])
  <2>1. m \in Forwarded /\ Broadcast' \in [Servers -> Seq(Forwarded)]
    BY <1>6, PopType DEF HubDeliver, HubReceives
  <2>2. /\ m.n > 0 /\ past' = past
        /\ live' = [c \in Clients |-> live[c] \o [i \in 1..Copies(s, m, c) |-> m]]
    BY <1>6 DEF HubDeliver, HubReceives
  <2> HIDE DEF m
  <2>3. ASSUME NEW c \in Clients, NEW k \in 1..Len(live'[c]), live'[c][k].id \in IDs
        PROVE  Addressee(c, live'[c][k].id)
    <3>1. Copies(s, m, c) \in 0..2
      BY CopiesBound, Zenon
    <3>2. live[c] \in Seq(Message) /\ m \in Message /\ Copies(s, m, c) \in Nat
      BY <2>1, <3>1 DEF TypeOK, Forwarded, Genuine
    <3>3. /\ live'[c] = live[c] \o [i \in 1..Copies(s, m, c) |-> m]
          /\ Len(live'[c]) = Len(live[c]) + Copies(s, m, c)
          /\ live'[c][k] = IF k <= Len(live[c]) THEN live[c][k] ELSE m
      BY <2>2, <3>2, CopiesType
    <3>4. CASE k <= Len(live[c])
      <4>1. k \in 1..Len(live[c]) /\ live'[c][k] = live[c][k]
        BY <3>2, <3>3, <3>4
      <4> QED BY <2>3, <4>1 DEF OnlyAddressees, Addressee
    <3>5. CASE ~(k <= Len(live[c]))
      <4>1. Copies(s, m, c) > 0 /\ live'[c][k] = m
        BY <3>2, <3>3, <3>5
      <4> QED BY <2>1, <2>2, <4>1, CopiesAddressed
    <3> QED BY <3>4, <3>5
  <2>4. ASSUME NEW c \in Clients, NEW i \in past'[c], i \in IDs PROVE Addressee(c, i)
    BY <2>2, <2>4 DEF OnlyAddressees, Addressee
  <2>5. OnlyAddressees'
    <3> SUFFICES ASSUME NEW c \in Clients, NEW i \in IDs,
                        i \in past'[c] \/ \E k \in 1..Len(live'[c]) : live'[c][k].id = i
                 PROVE  Addressee(c, i)
      BY DEF OnlyAddressees, Addressee
    <3>1. CASE i \in past'[c]
      BY <2>4, <3>1
    <3>2. CASE \E k \in 1..Len(live'[c]) : live'[c][k].id = i
      <4>1. PICK k \in 1..Len(live'[c]) : live'[c][k].id = i
        BY <3>2
      <4>2. Addressee(c, live'[c][k].id)
        BY <2>3, <4>1
      <4> QED BY <4>1, <4>2
    <3> QED BY <3>1, <3>2
  <2> QED BY <2>1, <2>5
<1>7. ASSUME NEW s \in Servers, ListenForward(s)
      PROVE  /\ inbox' \in [Servers -> Seq(Genuine)]
             /\ Broadcast' \in [Servers -> Seq(Forwarded)]
  <2>1. Head(inbox[s]) \in Genuine /\ inbox' \in [Servers -> Seq(Genuine)]
    BY <1>7, PopType DEF ListenForward
  <2>2. Head(inbox[s]) \in Forwarded
    BY <1>7, <2>1 DEF ListenForward, Forwarded
  <2> QED BY <1>7, <2>1, <2>2, PushType DEF ListenForward
<1>8. ASSUME NEW s \in Servers, ListenAck(s) PROVE inbox' \in [Servers -> Seq(Genuine)]
  BY <1>8, PopType DEF ListenAck
<1>9. ASSUME NEW s \in Servers, HubStop(s) PROVE inbox' \in [Servers -> Seq(Genuine)]
  BY <1>9 DEF HubStop
<1>10. CASE UNCHANGED vars
  BY <1>10, <1>s DEF vars
<1> QED
  BY <1>s, <1>2, <1>3, <1>4, <1>5, <1>6, <1>7, <1>8, <1>9, <1>10, <1>12, <1>13
     DEF Next, ServerStep, HubRegister, Leave, Replay, ListerRuns, PushList, HubPersist,
         HubDeliver, HubReceives, ListenForward, ListenAck, PersistWorker, HubStop

\* A private message never reaches a third client, live or from the history,
\* and no message leaves its room, on however many servers.
THEOREM OnlyAddresseesHolds == Spec => []OnlyAddressees
<1>1. Init => AddressInv
  <2> SUFFICES ASSUME Init PROVE AddressInv
    OBVIOUS
  <2>1. TypeOK
    BY TypeInit
  <2>2. OnlyAddressees
    BY DEF Init, OnlyAddressees
  <2> QED BY <2>1, <2>2 DEF Init, AddressInv
<1>2. AddressInv => OnlyAddressees
  BY DEF AddressInv
<1> QED BY <1>1, <1>2, AddressNext, PTL DEF Spec

-----------------------------------------------------------------------------
(***************************************************************************)
(* The order of delivery                                                   *)
(***************************************************************************)

\* A message that is not FromRedis has no place in the order yet: its n is 0.
Stamped(q)     == \A i \in 1..Len(q) : q[i].n > 0
Upto(q, k)     == \A i \in 1..Len(q) : q[i].n <= k
Ordered(q)     == \A i, j \in 1..Len(q) : i < j /\ q[j].n > 0 => q[i].n <= q[j].n
Precedes(p, q) == \A i \in 1..Len(p), j \in 1..Len(q) : q[j].n > 0 => p[i].n <= q[j].n

\* On every server what was delivered comes before what Run will receive, that
\* before what ListenToRedis will receive, and that before what Redis will send.
InboxOrder == \A s \in Servers :
  Stamped(inbox[s]) /\ Ordered(inbox[s]) /\ Upto(inbox[s], published)

BroadcastOrder == \A s \in Servers :
  Ordered(Broadcast[s]) /\ Upto(Broadcast[s], published) /\ Precedes(Broadcast[s], inbox[s])

LiveOrder == \A c \in Clients :
  /\ Stamped(live[c]) /\ Ordered(live[c]) /\ Upto(live[c], published)
  /\ Precedes(live[c], Broadcast[HomeOf[c]]) /\ Precedes(live[c], inbox[HomeOf[c]])

OrderInv == TypeOK /\ InboxOrder /\ BroadcastOrder /\ LiveOrder

\* The stamps in a channel are numbers.
LEMMA StampNat ==
  ASSUME NEW q \in Seq(Message), NEW i \in 1..Len(q)
  PROVE  q[i].n \in Nat
<1>1. q[i] \in Message
  OBVIOUS
<1> QED BY <1>1, MessageType

\* A message at the end of a channel: it comes last in the order, or has no
\* place in it.
LEMMA AppendOrder ==
  ASSUME NEW q \in Seq(Message), NEW m \in Message
  PROVE  /\ Ordered(q) /\ (m.n = 0 \/ Upto(q, m.n)) => Ordered(Append(q, m))
         /\ Stamped(q) /\ m.n > 0 => Stamped(Append(q, m))
         /\ \A k : Upto(q, k) /\ m.n <= k => Upto(Append(q, m), k)
         /\ \A p \in Seq(Message) :
              /\ Precedes(p, q) /\ (m.n = 0 \/ Upto(p, m.n)) => Precedes(p, Append(q, m))
              /\ Precedes(q, p) /\ Precedes(<<m>>, p) => Precedes(Append(q, m), p)
<1> DEFINE a == Append(q, m)
<1>1. /\ Len(a) = Len(q) + 1 /\ Len(q) \in Nat
      /\ \A i \in 1..Len(a) : (i \in 1..Len(q) /\ a[i] = q[i]) \/ (i = Len(q) + 1 /\ a[i] = m)
  OBVIOUS
<1>2. m.n \in Nat /\ \A i \in 1..Len(q) : q[i].n \in Nat
  BY StampNat, MessageType
<1>3. Len(<<m>>) = 1 /\ <<m>>[1] = m
  OBVIOUS
<1> HIDE DEF a
<1>4. Ordered(q) /\ (m.n = 0 \/ Upto(q, m.n)) => Ordered(a)
  BY <1>1, <1>2 DEF Ordered, Upto
<1>5. Stamped(q) /\ m.n > 0 => Stamped(a)
  BY <1>1 DEF Stamped
<1>6. \A k : Upto(q, k) /\ m.n <= k => Upto(a, k)
  BY <1>1 DEF Upto
<1>7. ASSUME NEW p \in Seq(Message), Precedes(p, q), m.n = 0 \/ Upto(p, m.n)
      PROVE  Precedes(p, a)
  BY <1>1, <1>2, <1>7 DEF Precedes, Upto
<1>8. ASSUME NEW p \in Seq(Message), Precedes(q, p), Precedes(<<m>>, p)
      PROVE  Precedes(a, p)
  <2>1. \A j \in 1..Len(p) : p[j].n > 0 => m.n <= p[j].n
    BY <1>3, <1>8 DEF Precedes
  <2> QED BY <1>1, <1>8, <2>1 DEF Precedes
<1> QED BY <1>4, <1>5, <1>6, <1>7, <1>8 DEF a

\* A message taken from a channel: it comes before the rest.
LEMMA TailOrder ==
  ASSUME NEW q \in Seq(Message), q # <<>>
  PROVE  /\ Ordered(q) => Ordered(Tail(q)) /\ Precedes(<<Head(q)>>, Tail(q))
         /\ Stamped(q) => Stamped(Tail(q)) /\ Head(q).n > 0
         /\ \A k : Upto(q, k) => Upto(Tail(q), k) /\ Head(q).n <= k
         /\ \A p \in Seq(Message) :
              /\ Precedes(p, q) => Precedes(p, Tail(q)) /\ (Head(q).n > 0 => Upto(p, Head(q).n))
              /\ Precedes(q, p) => Precedes(Tail(q), p) /\ Precedes(<<Head(q)>>, p)
<1> DEFINE t == Tail(q)
           h == Head(q)
<1>1. /\ Len(q) \in Nat /\ Len(q) > 0 /\ Len(t) = Len(q) - 1 /\ h = q[1]
      /\ \A i \in 1..Len(t) : i + 1 \in 1..Len(q) /\ t[i] = q[i + 1]
  OBVIOUS
<1>2. Len(<<h>>) = 1 /\ <<h>>[1] = h
  OBVIOUS
<1>3. 1 \in 1..Len(q)
  BY <1>1
<1> HIDE DEF t, h
<1>4. Ordered(q) => Ordered(t)
  BY <1>1 DEF Ordered
<1>5. Ordered(q) => Precedes(<<h>>, t)
  <2> SUFFICES ASSUME Ordered(q), NEW i \in 1..Len(<<h>>), NEW j \in 1..Len(t), t[j].n > 0
               PROVE  <<h>>[i].n <= t[j].n
    BY DEF Precedes
  <2>1. i = 1 /\ 1 < j + 1 /\ j + 1 \in 1..Len(q) /\ t[j] = q[j + 1]
    BY <1>1, <1>2
  <2>2. q[1].n <= q[j + 1].n
    BY <1>3, <2>1 DEF Ordered
  <2> QED BY <1>1, <1>2, <2>1, <2>2
<1>6. Stamped(q) => Stamped(t) /\ h.n > 0
  BY <1>1, <1>3 DEF Stamped
<1>7. \A k : Upto(q, k) => Upto(t, k) /\ h.n <= k
  BY <1>1, <1>3 DEF Upto
<1>8. ASSUME NEW p \in Seq(Message), Precedes(p, q)
      PROVE  Precedes(p, t) /\ (h.n > 0 => Upto(p, h.n))
  BY <1>1, <1>3, <1>8 DEF Precedes, Upto
<1>9. ASSUME NEW p \in Seq(Message), Precedes(q, p)
      PROVE  Precedes(t, p) /\ Precedes(<<h>>, p)
  <2>1. Precedes(t, p)
    BY <1>1, <1>9 DEF Precedes
  <2>2. Precedes(<<h>>, p)
    BY <1>1, <1>2, <1>3, <1>9 DEF Precedes
  <2> QED BY <2>1, <2>2
<1> QED BY <1>4, <1>5, <1>6, <1>7, <1>8, <1>9 DEF t, h

\* Redis hands out one more number: everything so far is below it.
LEMMA UptoNext ==
  ASSUME NEW q \in Seq(Message), NEW k \in Nat, Upto(q, k)
  PROVE  Upto(q, k + 1)
<1>1. \A i \in 1..Len(q) : q[i].n \in Nat
  BY StampNat
<1> QED BY <1>1 DEF Upto

\* A message that does not come from Redis has no stamp and disturbs no order.
LEMMA UnstampedOrder ==
  ASSUME OrderInv, NEW s \in Servers, NEW m \in Message, m.n = 0,
         Broadcast' = [Broadcast EXCEPT ![s] = Append(@, m)], UNCHANGED <<inbox, published, live>>
  PROVE  InboxOrder' /\ BroadcastOrder' /\ LiveOrder'
<1> USE DEF OrderInv
<1>1. published \in Nat /\ s \in Servers
  BY DEF TypeOK
<1>2. m \in Message /\ m.n = 0
  OBVIOUS
<1>3. Broadcast' = [Broadcast EXCEPT ![s] = Append(@, m)] /\ UNCHANGED <<inbox, published, live>>
  OBVIOUS
<1>4. \A t \in Servers : Broadcast'[t] = IF t = s THEN Append(Broadcast[s], m) ELSE Broadcast[t]
  BY <1>3 DEF TypeOK
<1>5. /\ Broadcast[s] \in Seq(Message) /\ inbox[s] \in Seq(Message)
      /\ \A d \in Clients : live[d] \in Seq(Message) /\ HomeOf[d] \in Servers
  BY <1>1, Constants DEF TypeOK
<1>6. Precedes(<<m>>, inbox[s])
  <2>1. Len(<<m>>) = 1 /\ <<m>>[1] = m
    OBVIOUS
  <2> QED BY <1>2, <1>5, <2>1, StampNat DEF Precedes
<1>7. BroadcastOrder'
  BY <1>1, <1>2, <1>3, <1>4, <1>5, <1>6, AppendOrder DEF BroadcastOrder
<1>8. LiveOrder'
  <2>1. ASSUME NEW d \in Clients PROVE Precedes(live[d], Broadcast'[HomeOf[d]])
    <3>1. CASE HomeOf[d] = s
      <4>1. Precedes(live[d], Broadcast[s]) /\ live[d] \in Seq(Message)
        BY <1>5, <3>1 DEF LiveOrder
      <4>2. Precedes(live[d], Append(Broadcast[s], m))
        BY <1>2, <1>5, <4>1, AppendOrder
      <4> QED BY <1>1, <1>4, <3>1, <4>2
    <3>2. CASE HomeOf[d] # s
      BY <1>4, <1>5, <3>2 DEF LiveOrder
    <3> QED BY <3>1, <3>2
  <2> QED BY <1>3, <2>1 DEF LiveOrder
<1> QED BY <1>3, <1>7, <1>8 DEF InboxOrder

\* ReadPump's messages are such.
LEMMA IngestOrder ==
  ASSUME OrderInv, NEW c \in Clients, NEW id \in IDs, NEW kind \in Kinds \cup {"ack"},
         NEW status \in Nat, Ingest(c, id, kind, status)
  PROVE  InboxOrder' /\ BroadcastOrder' /\ LiveOrder'
<1> DEFINE m == [id |-> id, kind |-> kind, from |-> c, status |-> status,
                 ts |-> clock + 1, n |-> 0]
<1>0. HomeOf[c] \in Servers
  BY Constants
<1>1. clock + 1 \in Nat /\ HomeOf[c] \in Servers
  BY <1>0 DEF OrderInv, TypeOK
<1>2. m \in Message /\ m.n = 0
  BY <1>1, IngestedType
<1>3. /\ Broadcast' = [Broadcast EXCEPT ![HomeOf[c]] = Append(@, m)]
      /\ UNCHANGED <<inbox, published, live>>
  BY DEF Ingest, logs, redis
<1> HIDE DEF m
<1> QED BY <1>1, <1>2, <1>3, UnstampedOrder

\* And so are the user lists.
LEMMA ListOrder ==
  ASSUME OrderInv, \/ \E c \in Clients : ListerRuns(c)
                   \/ \E s \in Servers : PushList(s)
  PROVE  InboxOrder' /\ BroadcastOrder' /\ LiveOrder'
<1>1. ASSUME NEW c \in Clients, ListerRuns(c)
      PROVE  InboxOrder' /\ BroadcastOrder' /\ LiveOrder'
  <2>1. /\ Broadcast' = [Broadcast EXCEPT ![HomeOf[c]] = Append(@, UserList(c))]
        /\ UNCHANGED <<inbox, published, live>>
    BY <1>1 DEF ListerRuns, logs, redis
  <2> QED BY <2>1, Constants, ListType, UnstampedOrder
<1>2. ASSUME NEW s \in Servers, PushList(s)
      PROVE  InboxOrder' /\ BroadcastOrder' /\ LiveOrder'
  <2>1. /\ Broadcast' = [Broadcast EXCEPT ![s] = Append(@, UserList(Head(listing[s])))]
        /\ UNCHANGED <<inbox, published, live>>
    BY <1>2 DEF PushList, logs, redis
  <2>2. Head(listing[s]) \in Clients
    BY <1>2 DEF PushList, OrderInv, TypeOK
  <2> QED BY <2>1, <2>2, ListType, UnstampedOrder
<1> QED BY <1>1, <1>2

\* Publication gives the message the next stamp.
LEMMA PublishOrder ==
  ASSUME OrderInv, NEW s \in Servers, HubPublish(s)
  PROVE  InboxOrder' /\ BroadcastOrder' /\ LiveOrder'
<1> USE DEF OrderInv, sessions, redis
<1> DEFINE m == Head(Broadcast[s])
           q == [m EXCEPT !.n = published + 1]
<1>1. /\ Broadcast[s] # <<>> /\ Broadcast' = [Broadcast EXCEPT ![s] = Tail(@)] /\ live' = live
      /\ \/ inbox' = Fanned(m) /\ published' = published + 1
         \/ inbox' = inbox /\ published' = published
  BY DEF HubPublish, HubReceives, redis
<1>2. m \in Message /\ published \in Nat
  BY <1>1, PopType DEF TypeOK
<1>3. q \in Message /\ q.n = published + 1
  <2>1. published + 1 \in Nat
    BY <1>2
  <2> QED BY <1>2, <2>1, StampType
<1>4. \A t \in Servers : Fanned(m)[t] \in {inbox[t], Append(inbox[t], q)}
  BY DEF Fanned
<1> HIDE DEF m, q
<1>5. \A t \in Servers : Broadcast'[t] \in {Broadcast[t], Tail(Broadcast[t])}
                         /\ (Broadcast'[t] # Broadcast[t] => Broadcast[t] # <<>>)
  BY <1>1 DEF TypeOK
<1>6. /\ \A t \in Servers : /\ Broadcast[t] \in Seq(Message) /\ Broadcast'[t] \in Seq(Message)
                             /\ inbox[t] \in Seq(Message)
      /\ \A c \in Clients : live[c] \in Seq(Message) /\ HomeOf[c] \in Servers
  <2>1. Broadcast' \in [Servers -> Seq(Message)]
    BY <1>1, PopType DEF TypeOK
  <2> QED BY <2>1, Constants DEF TypeOK
<1>7. /\ \A t \in Servers : /\ Ordered(Broadcast'[t]) /\ Upto(Broadcast'[t], published)
                             /\ Precedes(Broadcast'[t], inbox[t])
      /\ \A c \in Clients : Precedes(live[c], Broadcast'[HomeOf[c]])
  <2>1. ASSUME NEW t \in Servers, Broadcast[t] # <<>>
        PROVE  /\ Ordered(Tail(Broadcast[t])) /\ Upto(Tail(Broadcast[t]), published)
               /\ Precedes(Tail(Broadcast[t]), inbox[t])
               /\ \A c \in Clients : HomeOf[c] = t => Precedes(live[c], Tail(Broadcast[t]))
    BY <1>6, <2>1, TailOrder DEF BroadcastOrder, LiveOrder
  <2>2. \A t \in Servers : /\ Ordered(Broadcast'[t]) /\ Upto(Broadcast'[t], published)
                           /\ Precedes(Broadcast'[t], inbox[t])
    BY <1>5, <2>1 DEF BroadcastOrder
  <2>3. \A c \in Clients : Precedes(live[c], Broadcast'[HomeOf[c]])
    BY <1>5, <1>6, <2>1 DEF LiveOrder
  <2> QED BY <2>2, <2>3
<1>8. CASE inbox' = inbox /\ published' = published
  BY <1>1, <1>7, <1>8 DEF InboxOrder, BroadcastOrder, LiveOrder
<1>9. CASE inbox' = Fanned(m) /\ published' = published + 1
  <2>1. published + 1 > 0 /\ published + 1 <= published + 1
    BY <1>2
  <2>2. \A t \in Servers : /\ Upto(inbox[t], published + 1) /\ Upto(Broadcast'[t], published + 1)
    BY <1>2, <1>6, <1>7, UptoNext DEF InboxOrder
  <2>3. \A c \in Clients : Upto(live[c], published + 1)
    BY <1>2, <1>6, UptoNext DEF LiveOrder
  <2>4. InboxOrder'
    <3>1. ASSUME NEW t \in Servers
          PROVE  Stamped(inbox'[t]) /\ Ordered(inbox'[t]) /\ Upto(inbox'[t], published')
      <4>1. inbox'[t] \in {inbox[t], Append(inbox[t], q)}
        BY <1>4, <1>9
      <4> QED BY <1>3, <1>6, <1>9, <2>1, <2>2, <4>1, AppendOrder DEF InboxOrder
    <3> QED BY <3>1 DEF InboxOrder
  <2>5. BroadcastOrder'
    <3>1. ASSUME NEW t \in Servers PROVE Precedes(Broadcast'[t], inbox'[t])
      <4>1. inbox'[t] \in {inbox[t], Append(inbox[t], q)}
        BY <1>4, <1>9
      <4> QED BY <1>3, <1>6, <1>7, <2>2, <4>1, AppendOrder
    <3> QED BY <1>7, <1>9, <2>2, <3>1 DEF BroadcastOrder
  <2>6. LiveOrder'
    <3>1. ASSUME NEW c \in Clients PROVE Precedes(live[c], inbox'[HomeOf[c]])
      <4>1. inbox'[HomeOf[c]] \in {inbox[HomeOf[c]], Append(inbox[HomeOf[c]], q)}
        BY <1>4, <1>6, <1>9
      <4> QED BY <1>3, <1>6, <2>3, <4>1, AppendOrder DEF LiveOrder
    <3> QED BY <1>1, <1>7, <1>9, <2>3, <3>1 DEF LiveOrder
  <2> QED BY <2>4, <2>5, <2>6
<1> QED BY <1>1, <1>8, <1>9

\* A message from Redis goes from the inbox to the end of Broadcast.
LEMMA ForwardOrder ==
  ASSUME OrderInv, NEW s \in Servers, ListenForward(s)
  PROVE  InboxOrder' /\ BroadcastOrder' /\ LiveOrder'
<1> USE DEF OrderInv, logs, redis
<1> DEFINE h == Head(inbox[s])
<1>1. /\ inbox[s] # <<>> /\ inbox' = [inbox EXCEPT ![s] = Tail(@)]
      /\ Broadcast' = [Broadcast EXCEPT ![s] = Append(@, h)] /\ UNCHANGED <<live, published>>
  BY DEF ListenForward
<1>2. h \in Message
  BY <1>1, PopType DEF TypeOK
<1>3. /\ \A t \in Servers : inbox'[t] = IF t = s THEN Tail(inbox[s]) ELSE inbox[t]
      /\ \A t \in Servers : Broadcast'[t] = IF t = s THEN Append(Broadcast[s], h) ELSE Broadcast[t]
  BY <1>1 DEF TypeOK
<1>4. /\ Broadcast[s] \in Seq(Message) /\ inbox[s] \in Seq(Message) /\ Tail(inbox[s]) \in Seq(Message)
      /\ \A c \in Clients : live[c] \in Seq(Message) /\ HomeOf[c] \in Servers
  BY <1>1, Constants DEF TypeOK
<1>5. /\ h.n > 0 /\ h.n <= published /\ Precedes(<<h>>, Tail(inbox[s]))
      /\ Stamped(Tail(inbox[s])) /\ Ordered(Tail(inbox[s])) /\ Upto(Tail(inbox[s]), published)
  BY <1>1, <1>4, TailOrder DEF InboxOrder
<1>6. Upto(Broadcast[s], h.n) /\ Precedes(Broadcast[s], Tail(inbox[s]))
  BY <1>1, <1>4, <1>5, TailOrder DEF BroadcastOrder
<1>7. \A c \in Clients : HomeOf[c] = s => Upto(live[c], h.n) /\ Precedes(live[c], Tail(inbox[s]))
  BY <1>1, <1>4, <1>5, TailOrder DEF LiveOrder
<1> HIDE DEF h
<1>8. InboxOrder'
  BY <1>1, <1>3, <1>5 DEF InboxOrder
<1>9. /\ Ordered(Append(Broadcast[s], h)) /\ Upto(Append(Broadcast[s], h), published)
      /\ Precedes(Append(Broadcast[s], h), Tail(inbox[s]))
  BY <1>2, <1>4, <1>5, <1>6, AppendOrder DEF BroadcastOrder
<1>10. BroadcastOrder'
  BY <1>1, <1>3, <1>9 DEF BroadcastOrder
<1>11. \A c \in Clients : HomeOf[c] = s => Precedes(live[c], Append(Broadcast[s], h))
  BY <1>2, <1>4, <1>7, AppendOrder DEF LiveOrder
<1>12. LiveOrder'
  BY <1>1, <1>3, <1>4, <1>7, <1>11 DEF LiveOrder
<1> QED BY <1>8, <1>10, <1>12

\* The first message from Redis in Broadcast is delivered after all that were.
LEMMA DeliverOrder ==
  ASSUME OrderInv, NEW s \in Servers, HubDeliver(s)
  PROVE  InboxOrder' /\ BroadcastOrder' /\ LiveOrder'
<1> USE DEF OrderInv, sessions, redis
<1> DEFINE m == Head(Broadcast[s])
<1>1. /\ Broadcast[s] # <<>> /\ Broadcast' = [Broadcast EXCEPT ![s] = Tail(@)]
      /\ UNCHANGED <<inbox, published>> /\ m.n > 0
      /\ live' = [c \in Clients |-> live[c] \o [i \in 1..Copies(s, m, c) |-> m]]
  BY DEF HubDeliver, HubReceives
<1>2. m \in Message
  BY <1>1, PopType DEF TypeOK
<1>3. \A t \in Servers : Broadcast'[t] = IF t = s THEN Tail(Broadcast[s]) ELSE Broadcast[t]
  BY <1>1 DEF TypeOK
<1>4. /\ Broadcast[s] \in Seq(Message) /\ inbox[s] \in Seq(Message) /\ Tail(Broadcast[s]) \in Seq(Message)
      /\ \A c \in Clients : live[c] \in Seq(Message) /\ HomeOf[c] \in Servers
  BY <1>1, Constants DEF TypeOK
<1>5. /\ Ordered(Tail(Broadcast[s])) /\ Upto(Tail(Broadcast[s]), published) /\ m.n <= published
      /\ Precedes(Tail(Broadcast[s]), inbox[s])
      /\ Precedes(<<m>>, Tail(Broadcast[s])) /\ Precedes(<<m>>, inbox[s])
  BY <1>1, <1>4, TailOrder DEF BroadcastOrder
<1>6. \A c \in Clients : HomeOf[c] = s =>
        Upto(live[c], m.n) /\ Precedes(live[c], Tail(Broadcast[s]))
  BY <1>1, <1>4, TailOrder DEF LiveOrder
<1> HIDE DEF m
<1>7. /\ \A j \in 1..Len(Tail(Broadcast[s])) : Tail(Broadcast[s])[j].n > 0 => m.n <= Tail(Broadcast[s])[j].n
      /\ \A j \in 1..Len(inbox[s]) : inbox[s][j].n > 0 => m.n <= inbox[s][j].n
  <2>1. Len(<<m>>) = 1 /\ <<m>>[1] = m
    OBVIOUS
  <2> QED BY <1>5, <2>1 DEF Precedes
<1>8. ASSUME NEW c \in Clients
      PROVE  /\ Stamped(live'[c]) /\ Ordered(live'[c]) /\ Upto(live'[c], published)
             /\ Precedes(live'[c], Broadcast'[HomeOf[c]]) /\ Precedes(live'[c], inbox[HomeOf[c]])
  <2> DEFINE k == Copies(s, m, c)
             p == live'[c]
  <2>1. k \in 0..2 /\ (k > 0 => HomeOf[c] = s)
    BY CopiesBound DEF Members
  <2>2. p = live[c] \o [i \in 1..k |-> m]
    BY <1>1
  <2> HIDE DEF k
  <2>3. k \in Nat
    BY <2>1
  <2>4. /\ Len(live[c]) \in Nat /\ Len(p) = Len(live[c]) + k
        /\ \A i \in 1..Len(p) : p[i] = IF i <= Len(live[c]) THEN live[c][i] ELSE m
    BY <1>2, <1>4, <2>2, <2>3, CopiesType
  <2> HIDE DEF p
  <2>5. CASE k = 0
    <3>1. /\ Len(p) = Len(live[c])
          /\ \A i \in 1..Len(p) : p[i] = live[c][i]
      BY <2>4, <2>5
    <3>2. Stamped(p) /\ Ordered(p) /\ Upto(p, published) /\ Precedes(p, inbox[HomeOf[c]])
      BY <3>1 DEF LiveOrder, Stamped, Ordered, Upto, Precedes
    <3>3. Precedes(live[c], Broadcast'[HomeOf[c]])
      BY <1>3, <1>4, <1>6 DEF LiveOrder
    <3>4. Precedes(p, Broadcast'[HomeOf[c]])
      BY <3>1, <3>3 DEF Precedes
    <3> QED BY <3>2, <3>4 DEF p
  <2>6. CASE k > 0
    <3>1. HomeOf[c] = s /\ Broadcast'[HomeOf[c]] = Tail(Broadcast[s])
      BY <1>3, <2>1, <2>6
    <3>2. \A i \in 1..Len(p) : (i \in 1..Len(live[c]) /\ p[i] = live[c][i])
                             \/ (i > Len(live[c]) /\ p[i] = m)
      BY <2>4
    <3>3. m.n \in Nat /\ \A i \in 1..Len(live[c]) : live[c][i].n \in Nat /\ live[c][i].n <= m.n
      BY <1>2, <1>4, <1>6, <3>1, StampNat, MessageType DEF Upto
    <3>4. Stamped(p)
      BY <1>1, <3>2 DEF LiveOrder, Stamped
    <3>5. Ordered(p)
      BY <2>4, <3>2, <3>3 DEF LiveOrder, Ordered
    <3>6. Upto(p, published)
      BY <1>5, <3>2 DEF LiveOrder, Upto
    <3>7. Precedes(p, Tail(Broadcast[s]))
      BY <1>6, <1>7, <3>1, <3>2 DEF Precedes
    <3>8. Precedes(p, inbox[s])
      BY <1>7, <3>1, <3>2 DEF LiveOrder, Precedes
    <3> QED BY <3>1, <3>4, <3>5, <3>6, <3>7, <3>8 DEF p
  <2> QED BY <2>1, <2>5, <2>6
<1>9. BroadcastOrder'
  BY <1>1, <1>3, <1>5 DEF BroadcastOrder
<1>10. LiveOrder'
  BY <1>1, <1>8 DEF LiveOrder
<1> QED BY <1>1, <1>9, <1>10 DEF InboxOrder

\* Every step of every server keeps the three orders.
LEMMA OrderNext == OrderInv /\ [Next]_vars => OrderInv'
<1> SUFFICES ASSUME OrderInv, [Next]_vars PROVE InboxOrder' /\ BroadcastOrder' /\ LiveOrder'
  BY TypeNext DEF OrderInv
<1> USE DEF chans, lists, sessions, logs, redis, inputs
<1>1. ASSUME NEW id \in IDs, SendMessage(id) PROVE InboxOrder' /\ BroadcastOrder' /\ LiveOrder'
  <2>1. PICK status \in SentStatuses : Ingest(SenderOf[id], id, KindOf[id], status)
    BY <1>1 DEF SendMessage
  <2> QED BY <2>1, IngestOrder, Constants
<1>2. ASSUME NEW c \in Clients, NEW id \in IDs, NEW status \in Statuses, SendAck(c, id, status)
      PROVE  InboxOrder' /\ BroadcastOrder' /\ LiveOrder'
  BY <1>2, IngestOrder, Constants DEF SendAck
<1>3. ASSUME NEW s \in Servers, ListenAck(s) \/ HubStop(s)
      PROVE  InboxOrder' /\ BroadcastOrder' /\ LiveOrder'
  <2>i. inbox \in [Servers -> Seq(Message)]
    BY DEF OrderInv, TypeOK
  <2>u. UNCHANGED <<Broadcast, live, published>>
    BY <1>3 DEF ListenAck, HubStop
  <2>1. ASSUME NEW t \in Servers
        PROVE  \/ inbox'[t] = inbox[t] \/ inbox'[t] = <<>>
               \/ inbox[t] # <<>> /\ inbox'[t] = Tail(inbox[t])
    <3>1. CASE ListenAck(s)
      <4>1. inbox[s] # <<>> /\ inbox' = [inbox EXCEPT ![s] = Tail(inbox[s])]
        BY <3>1 DEF ListenAck
      <4>2. CASE t = s
        BY <2>i, <4>1, <4>2
      <4>3. CASE t # s
        BY <2>i, <4>1, <4>3
      <4> QED BY <4>2, <4>3
    <3>2. CASE HubStop(s)
      <4>1. inbox' = [inbox EXCEPT ![s] = <<>>]
        BY <3>2 DEF HubStop
      <4>2. CASE t = s
        BY <2>i, <4>1, <4>2
      <4>3. CASE t # s
        BY <2>i, <4>1, <4>3
      <4> QED BY <4>2, <4>3
    <3> QED BY <1>3, <3>1, <3>2
  <2>2. /\ \A t \in Servers : Broadcast[t] \in Seq(Message) /\ inbox[t] \in Seq(Message)
        /\ \A c \in Clients : live[c] \in Seq(Message) /\ HomeOf[c] \in Servers
    BY Constants DEF OrderInv, TypeOK
  <2>3. \A q, k : Stamped(<<>>) /\ Ordered(<<>>) /\ Upto(<<>>, k) /\ Precedes(q, <<>>)
    BY DEF Stamped, Ordered, Upto, Precedes
  <2>4. ASSUME NEW t \in Servers
        PROVE  /\ Stamped(inbox'[t]) /\ Ordered(inbox'[t]) /\ Upto(inbox'[t], published)
               /\ Precedes(Broadcast[t], inbox'[t])
               /\ \A c \in Clients : HomeOf[c] = t => Precedes(live[c], inbox'[t])
    <3>1. CASE inbox'[t] = inbox[t]
      BY <3>1 DEF OrderInv, InboxOrder, BroadcastOrder, LiveOrder
    <3>2. CASE inbox'[t] = <<>>
      BY <2>3, <3>2
    <3>3. CASE inbox[t] # <<>> /\ inbox'[t] = Tail(inbox[t])
      BY <2>2, <3>3, TailOrder DEF OrderInv, InboxOrder, BroadcastOrder, LiveOrder
    <3> QED BY <2>1, <3>1, <3>2, <3>3
  <2> QED BY <2>u, <2>2, <2>4 DEF OrderInv, InboxOrder, BroadcastOrder, LiveOrder
<1>4. CASE UNCHANGED <<inbox, Broadcast, live, published>>
  BY <1>4 DEF OrderInv, InboxOrder, BroadcastOrder, LiveOrder
<1>5. ASSUME NEW s \in Servers, HubPublish(s) \/ HubDeliver(s) \/ ListenForward(s)
      PROVE  InboxOrder' /\ BroadcastOrder' /\ LiveOrder'
  BY <1>5, PublishOrder, DeliverOrder, ForwardOrder
<1> QED
  BY <1>1, <1>2, <1>3, <1>4, <1>5, ListOrder
     DEF Next, ServerStep, vars, HubRegister, Leave, Replay, HubPersist, PersistWorker

\* Every client of every server sees what it is sent in the order in which
\* Redis published it, so all clients agree on the order of any two messages.
THEOREM DeliveredInOrderHolds == Spec => []DeliveredInOrder
<1>1. Init => OrderInv
  <2> SUFFICES ASSUME Init PROVE OrderInv
    OBVIOUS
  <2>1. TypeOK
    BY TypeInit
  <2>2. \A q, k : /\ Stamped(<<>>) /\ Ordered(<<>>) /\ Upto(<<>>, k)
                  /\ Precedes(q, <<>>) /\ Precedes(<<>>, q)
    BY DEF Stamped, Ordered, Upto, Precedes
  <2>3. /\ \A s \in Servers : inbox[s] = <<>> /\ Broadcast[s] = <<>>
        /\ \A c \in Clients : live[c] = <<>> /\ HomeOf[c] \in Servers
    BY Constants DEF Init
  <2> QED BY <2>1, <2>2, <2>3 DEF OrderInv, InboxOrder, BroadcastOrder, LiveOrder
<1>2. OrderInv => DeliveredInOrder
  <2> SUFFICES ASSUME OrderInv, NEW c \in Clients, NEW i \in 1..Len(live[c]),
                      NEW j \in 1..Len(live[c]), i < j
               PROVE  live[c][i].n <= live[c][j].n
    BY DEF DeliveredInOrder
  <2> QED BY DEF OrderInv, LiveOrder, Stamped, Ordered
<1> QED BY <1>1, <1>2, OrderNext, PTL DEF Spec
-----------------------------------------------------------------------------
(***************************************************************************)
(* The table holds what was announced                                      *)
(***************************************************************************)

\* What Run may queue and the worker may write: acks, and messages whose very
\* sending was published.
Printed ==
  {m \in UserMessage : m.kind # "ack" => <<m.id, m.ts>> \in announced}

StoredInv ==
  /\ TypeOK /\ StoredWasPublished
  /\ pending \in [Servers -> Seq(Printed)]
  /\ PersistenceQueue \in [Servers -> Seq(Printed)]

\* Nothing that was published is forgotten.
LEMMA PrintedGrows ==
  ASSUME NEW f \in [Servers -> Seq(Printed)], announced \subseteq announced'
  PROVE  Printed \subseteq Printed' /\ f \in [Servers -> Seq(Printed')]
<1>1. Printed \subseteq Printed'
  BY DEF Printed
<1>2. \A s \in Servers : f[s] \in Seq(Printed')
  BY <1>1
<1> QED BY <1>1, <1>2

\* HubPublish queues what it has published.
LEMMA PublishPrints ==
  ASSUME StoredInv, NEW s \in Servers, HubPublish(s)
  PROVE  StoredInv'
<1> USE DEF StoredInv
<1> DEFINE m == Head(Broadcast[s])
<1>1. TypeOK'
  BY TypeNext DEF Next, ServerStep
<1>2. UNCHANGED <<db, PersistenceQueue>> /\ m \in Message
  BY PopType DEF HubPublish, HubReceives, TypeOK
<1>3. CASE Announce(m) /\ pending' = [pending EXCEPT ![s] = IF Durable(m) THEN <<m>> ELSE <<>>]
  <2>1. announced \subseteq announced' /\ (m.kind \in Kinds => <<m.id, m.ts>> \in announced')
    BY <1>3 DEF Announce
  <2>2. Durable(m) => m \in UserMessage /\ (m.kind # "ack" => m.kind \in Kinds)
    BY <1>2, MessageType DEF Durable, Kinds
  <2>3. Durable(m) => m \in Printed'
    BY <2>1, <2>2 DEF Printed
  <2>4. (IF Durable(m) THEN <<m>> ELSE <<>>) \in Seq(Printed')
    BY <2>3
  <2> HIDE DEF m
  <2>5. /\ pending \in [Servers -> Seq(Printed')]
        /\ PersistenceQueue \in [Servers -> Seq(Printed')]
    BY <2>1, PrintedGrows
  <2>6. pending' \in [Servers -> Seq(Printed')]
    BY <1>3, <2>4, <2>5
  <2>7. StoredWasPublished'
    BY <1>2, <2>1 DEF StoredWasPublished
  <2> QED BY <1>1, <1>2, <2>5, <2>6, <2>7
<1>4. CASE UNCHANGED <<redis, pending>>
  <2>1. Printed' = Printed
    BY <1>4 DEF Printed, redis
  <2> QED BY <1>1, <1>2, <1>4, <2>1 DEF StoredWasPublished, redis
<1> QED BY <1>3, <1>4 DEF HubPublish

\* HubPersist passes it on, and the worker stores it or forgets it.
LEMMA PersistPrints ==
  ASSUME StoredInv, NEW s \in Servers, HubPersist(s) \/ PersistWorker(s)
  PROVE  StoredInv'
<1> USE DEF StoredInv
<1>1. TypeOK'
  BY TypeNext DEF Next, ServerStep
<1>2. UNCHANGED announced
  BY DEF HubPersist, PersistWorker, redis
<1>3. Printed' = Printed
  BY <1>2 DEF Printed
<1>4. CASE HubPersist(s)
  <2>1. Head(pending[s]) \in Printed
    BY <1>4 DEF HubPersist
  <2>2. PersistenceQueue' \in [Servers -> Seq(Printed)]
    BY <1>4, <2>1, PushType DEF HubPersist
  <2>3. pending' \in [Servers -> Seq(Printed)] /\ UNCHANGED db
    BY <1>4 DEF HubPersist
  <2> QED BY <1>1, <1>2, <1>3, <2>2, <2>3 DEF StoredWasPublished
<1>5. CASE PersistWorker(s)
  <2> DEFINE m == Head(PersistenceQueue[s])
  <2>1. m \in Printed /\ PersistenceQueue' \in [Servers -> Seq(Printed)]
    BY <1>5, PopType DEF PersistWorker
  <2>2. /\ UNCHANGED pending
        /\ (m.kind # "ack" /\ Save(m)) \/ UpdateStatus(m) \/ UNCHANGED db
    BY <1>5 DEF PersistWorker
  <2> HIDE DEF m
  <2>3. CASE m.kind # "ack" /\ Save(m)
    <3>1. <<m.id, m.ts>> \in announced
      BY <2>1, <2>3 DEF Printed
    <3>2. \A i \in DOMAIN db' : (i \in DOMAIN db /\ db'[i] = db[i])
                             \/ (i = m.id /\ db'[i].ts = m.ts)
      BY <2>3 DEF Save
    <3>3. StoredWasPublished'
      BY <1>2, <3>1, <3>2 DEF StoredWasPublished
    <3> QED BY <1>1, <1>3, <2>1, <2>2, <3>3
  <2>4. CASE UpdateStatus(m)
    <3>1. m \in UserMessage
      BY <2>1 DEF Printed
    <3>2. DOMAIN db' = DOMAIN db /\ \A i \in DOMAIN db : db'[i].ts = db[i].ts
      BY <2>4, <3>1, UpdateType DEF UpdateStatus
    <3>3. StoredWasPublished'
      BY <1>2, <3>2 DEF StoredWasPublished
    <3> QED BY <1>1, <1>3, <2>1, <2>2, <3>3
  <2>5. CASE UNCHANGED db
    BY <1>1, <1>2, <1>3, <2>1, <2>2, <2>5 DEF StoredWasPublished
  <2> QED BY <2>2, <2>3, <2>4, <2>5
<1> QED BY <1>4, <1>5

\* However often messages are sent again, whichever Publish or INSERT fails and
\* whatever the workers of stopped servers still do, every row is of a sending
\* that was published.
THEOREM StoredWasPublishedHolds == Spec => []StoredWasPublished
<1>1. Init => StoredInv
  BY TypeInit DEF Init, StoredInv, StoredWasPublished
<1>2. StoredInv /\ [Next]_vars => StoredInv'
  <2> SUFFICES ASSUME StoredInv, [Next]_vars PROVE StoredInv'
    OBVIOUS
  <2> USE DEF chans, lists, redis
  <2>1. TypeOK'
    BY TypeNext DEF StoredInv
  <2>2. CASE UNCHANGED <<db, pending, PersistenceQueue, announced>>
    <3>1. Printed' = Printed
      BY <2>2 DEF Printed
    <3> QED BY <2>1, <2>2, <3>1 DEF StoredInv, StoredWasPublished
  <2>3. ASSUME \/ \E id \in IDs : SendMessage(id)
               \/ \E c \in Clients, id \in IDs, status \in Statuses : SendAck(c, id, status)
        PROVE  UNCHANGED <<db, pending, PersistenceQueue, announced>>
    BY <2>3 DEF SendMessage, SendAck, Ingest
  <2>4. ASSUME NEW c \in Clients, HubRegister(c) \/ Replay(c) \/ Leave(c) \/ ListerRuns(c)
        PROVE  UNCHANGED <<db, pending, PersistenceQueue, announced>>
    BY <2>4 DEF HubRegister, Replay, Leave, ListerRuns
  <2>5. ASSUME NEW s \in Servers,
               \/ HubDeliver(s) \/ PushList(s) \/ ListenForward(s) \/ ListenAck(s)
               \/ HubStop(s)
        PROVE  UNCHANGED <<db, pending, PersistenceQueue, announced>>
    BY <2>5 DEF HubDeliver, HubReceives, PushList, ListenForward, ListenAck, HubStop
  <2>6. CASE UNCHANGED vars
    BY <2>2, <2>6 DEF vars
  <2> QED
    BY <2>2, <2>3, <2>4, <2>5, <2>6, PublishPrints, PersistPrints DEF Next, ServerStep
<1>3. StoredInv => StoredWasPublished
  BY DEF StoredInv
<1> QED BY <1>1, <1>2, <1>3, PTL DEF Spec
=============================================================================
