----------------------------- MODULE HubProofs -----------------------------
(***************************************************************************)
(* What holds of the session registry for every number of clients, users   *)
(* and rooms and every channel capacity.                                   *)
(***************************************************************************)
EXTENDS Hub, SequenceTheorems, TLAPS

\* The locals of Run are set wherever its code uses them.
HubLocals ==
  /\ hubAt \in {"cleanOld", "announce", "insert", "cleanGone", "manage"} => hubClient \in Clients
  /\ hubAt \in Cleaning => hubOld \in Clients
  /\ hubAt = "private" => hubSends # <<>>

TypeInv == TypeOK /\ HubLocals

\* The capacities are positive numbers.
LEMMA Capacities ==
  /\ SendCap \in Nat /\ SendCap > 0
  /\ RegisterCap \in Nat /\ RegisterCap > 0
  /\ UnregisterCap \in Nat /\ UnregisterCap > 0
  /\ BroadcastCap \in Nat /\ BroadcastCap > 0
  /\ QueueCap \in Nat /\ QueueCap > 0
BY ConstantsAssumption DEF ConstantsAssumption

\* A send to a channel with space keeps its type and its capacity.
LEMMA PushType ==
  ASSUME NEW S, NEW q \in Seq(S), NEW x \in S, NEW cap \in Nat, HasRoom(q, cap)
  PROVE  Append(q, x) \in Seq(S) /\ Len(Append(q, x)) <= cap
BY DEF HasRoom

\* So does a receive from a channel that is not empty.
LEMMA PopType ==
  ASSUME NEW S, NEW q \in Seq(S), NEW cap \in Nat, Len(q) <= cap, q # <<>>
  PROVE  Head(q) \in S /\ Tail(q) \in Seq(S) /\ Len(Tail(q)) <= cap
OBVIOUS

\* A buffer with space takes one more payload; a counter that is not zero can
\* be decreased; a frame leaves fewer payloads than there were.
LEMMA CounterType ==
  ASSUME NEW n \in Nat, NEW f \in [Clients -> 0..n], NEW c \in Clients
  PROVE  /\ f[c] < n => [f EXCEPT ![c] = @ + 1] \in [Clients -> 0..n]
         /\ f[c] > 0 => [f EXCEPT ![c] = @ - 1] \in [Clients -> 0..n]
         /\ \A left \in {0, f[c] - 1} :
              f[c] > 0 => [f EXCEPT ![c] = left] \in [Clients -> 0..n]
         /\ [f EXCEPT ![c] = IF @ < n THEN @ + 1 ELSE @] \in [Clients -> 0..n]
OBVIOUS

\* The sets of online users keep their type under SAdd and SRem.
LEMMA PresenceType ==
  ASSUME presence \in [RoomIDs -> SUBSET Users], NEW c \in Clients,
         \/ presence' = [presence EXCEPT ![RoomIDOf[c]] = @ \cup {NameOf[c]}]
         \/ presence' = [presence EXCEPT ![RoomIDOf[c]] = @ \ {NameOf[c]}]
         \/ presence' = presence
  PROVE  presence' \in [RoomIDs -> SUBSET Users]
<1>1. RoomIDOf[c] \in RoomIDs /\ NameOf[c] \in Users
  BY ConstantsAssumption DEF ConstantsAssumption
<1> QED BY <1>1

\* NewHub's state is well typed.
LEMMA TypeInit == Init => TypeInv
<1> SUFFICES ASSUME Init PROVE TypeInv
  OBVIOUS
<1> USE DEF Init
<1>1. Register \in Seq(Clients) /\ Unregister \in Seq(Clients) /\ Broadcast \in Seq(Message)
      /\ hubSends \in Seq(Clients)
  OBVIOUS
<1>2. Len(Register) <= RegisterCap /\ Len(Unregister) <= UnregisterCap
      /\ Len(Broadcast) <= BroadcastCap /\ PersistenceQueue \in 0..QueueCap
  BY Capacities
<1>3. Send \in [Clients -> 0..SendCap] /\ replay \in [Clients -> 0..MaxHistory]
  BY Capacities, ConstantsAssumption DEF ConstantsAssumption
<1> QED BY <1>1, <1>2, <1>3 DEF TypeInv, TypeOK, HubLocals, HubPlaces, Cleaning

\* A local message has the type of a Broadcast entry.
LEMMA LocalMessage == \A d \in BOOLEAN : [kind |-> "local", durable |-> d] \in Message
BY DEF Message

\* broadcastUserList keeps the type of the Broadcast channel.
LEMMA PushUserListType ==
  ASSUME TypeOK, PushUserList
  PROVE  Broadcast' \in Seq(Message) /\ Len(Broadcast') <= BroadcastCap
BY PushType, LocalMessage, Capacities DEF TypeOK, PushUserList

\* So does a request to unregister for the Unregister channel.
LEMMA PushUnregisterType ==
  ASSUME TypeOK, NEW c \in Clients, PushUnregister(c)
  PROVE  Unregister' \in Seq(Clients) /\ Len(Unregister') <= UnregisterCap
BY PushType, Capacities DEF TypeOK, PushUnregister

\* The end of the process changes nothing else.
LEMMA TypeCrash ==
  ASSUME TypeInv, Crash("sendOnClosed") \/ Crash("mapRace")
  PROVE  TypeInv'
BY DEF Crash, TypeInv, TypeOK, HubLocals, hubState, chans, redis, locals, pumps, spawned

\* The steps of a client's pumps and of serveWS keep the types.
LEMMA TypePumps ==
  ASSUME TypeInv, NEW c \in Clients,
         Connect(c) \/ QueueRegister(c) \/ PeerGone(c) \/ ReadMessage(c) \/ ReadStep(c)
           \/ WriteStep(c)
  PROVE  TypeInv'
<1> USE DEF TypeInv, TypeOK, HubLocals, ClientFrame, hubState, redis, locals, spawned
<1>1. CASE Connect(c)
  BY <1>1 DEF Connect
<1>2. CASE QueueRegister(c)
  <2>1. Register' \in Seq(Clients) /\ Len(Register') <= RegisterCap
    BY <1>2, PushType, Capacities DEF QueueRegister
  <2> QED BY <1>2, <2>1 DEF QueueRegister
<1>3. CASE PeerGone(c)
  BY <1>3 DEF PeerGone
<1>4. CASE ReadMessage(c)
  <2>1. PICK i \in Inputs :
          ReadTo(c, CASE i = "flood" -> "warn" [] i = "command" -> "reply" [] OTHER -> i)
    BY <1>4 DEF ReadMessage
  <2>2. i \in InputKinds
    BY ConstantsAssumption DEF ConstantsAssumption
  <2> QED BY <1>4, <2>1, <2>2 DEF ReadMessage, ReadTo, InputKinds
<1>5. CASE ReadAnswer(c)
  <2>1. CASE SendClosed(c)
    BY <1>5, <2>1, TypeCrash DEF ReadAnswer
  <2>2. CASE ~SendClosed(c)
    <3>1. Send' = [Send EXCEPT ![c] = IF @ < SendCap THEN @ + 1 ELSE @] /\ ReadTo(c, "run")
          /\ UNCHANGED <<Unregister, Broadcast, connOpen, crashed>>
      BY <1>5, <2>2 DEF ReadAnswer
    <3>2. Send' \in [Clients -> 0..SendCap]
      BY <3>1, CounterType, Capacities
    <3> QED BY <3>1, <3>2 DEF ReadTo
  <2> QED BY <2>1, <2>2
<1>6. CASE ReadPush(c)
  <2>1. Broadcast' \in Seq(Message) /\ Len(Broadcast') <= BroadcastCap
    <3>1. [kind |-> "local", durable |-> readPump[c] = "durable"] \in Message
      BY LocalMessage
    <3> QED BY <1>6, <3>1, PushType, Capacities DEF ReadPush
  <2> QED BY <1>6, <2>1 DEF ReadPush, ReadTo
<1>7. CASE ReadFail(c)
  BY <1>7 DEF ReadFail, ReadTo
<1>8. CASE ReadExit(c)
  <2>1. Unregister' \in Seq(Clients) /\ Len(Unregister') <= UnregisterCap
    BY <1>8, PushUnregisterType DEF ReadExit
  <2> QED BY <1>8, <2>1 DEF ReadExit, ReadTo
<1>9. CASE WriteFrame(c)
  <2>1. Send[c] > 0 /\ \E left \in {0, Send[c] - 1} : Send' = [Send EXCEPT ![c] = left]
    BY <1>9 DEF WriteFrame
  <2>2. Send' \in [Clients -> 0..SendCap]
    BY <2>1, CounterType, Capacities
  <2>3. CASE WriteTo(c, "run")
    BY <1>9, <2>2, <2>3 DEF WriteFrame, WriteTo
  <2>4. CASE WriteTo(c, "exit")
    BY <1>9, <2>2, <2>4 DEF WriteFrame, WriteTo
  <2> QED BY <1>9, <2>3, <2>4 DEF WriteFrame
<1>10. CASE WriteClosed(c)
  BY <1>10 DEF WriteClosed, WriteTo
<1>11. CASE WriteExit(c)
  <2>1. Unregister' \in Seq(Clients) /\ Len(Unregister') <= UnregisterCap
    BY <1>11, PushUnregisterType DEF WriteExit
  <2> QED BY <1>11, <2>1 DEF WriteExit, WriteTo
<1> QED
  BY <1>1, <1>2, <1>3, <1>4, <1>5, <1>6, <1>7, <1>8, <1>9, <1>10, <1>11 DEF ReadStep, WriteStep

\* The steps of cleanupClient and of the goroutines started with go.
LEMMA TypeSpawned ==
  ASSUME TypeInv, NEW c \in Clients, CleanupStep(c) \/ SpawnedStep(c)
  PROVE  TypeInv'
<1> USE DEF TypeInv, TypeOK, HubLocals, SpawnedFrame, hubState, chans, locals, pumps, spawned
<1>1. RoomIDOf[c] \in RoomIDs /\ NameOf[c] \in Users
  BY ConstantsAssumption DEF ConstantsAssumption
<1>2. CASE CleanRemove(c)
  <2>1. CASE Crash("mapRace")
    BY <2>1, TypeCrash
  <2>2. CASE /\ Rooms' = [Rooms EXCEPT ![RoomIDOf[c]] = @ \ {c}]
             /\ ActiveSubs' = IF LastInRoom(c) THEN ActiveSubs \ {RoomIDOf[c]} ELSE ActiveSubs
             /\ AllClients' = [AllClients EXCEPT ![NameOf[c]] = IF @ = c THEN NoClient ELSE @]
             /\ CleanTo(c, IF LastInRoom(c) THEN "unsub" ELSE "closing")
             /\ UNCHANGED <<subs, connOpen, listers>>
    <3>1. Rooms' \in [RoomIDs -> SUBSET Clients] /\ ActiveSubs' \in SUBSET RoomIDs
      BY <1>1, <2>2
    <3>2. AllClients' \in [Users -> Clients \cup {NoClient}]
      BY <1>1, <2>2
    <3>3. cleanup' \in [Clients -> {"idle", "removing", "unsub", "closing", "done"}]
      BY <2>2 DEF CleanTo
    <3> QED BY <2>2, <3>1, <3>2, <3>3 DEF CleanTo
  <2> QED BY <1>2, <2>1, <2>2 DEF CleanRemove
<1>3. CASE CleanUnsubscribe(c)
  BY <1>1, <1>3 DEF CleanUnsubscribe, CleanTo
<1>4. CASE CleanClose(c)
  BY <1>1, <1>4 DEF CleanClose, CleanTo
<1>5. CASE KickerRuns(c)
  <2>1. presence' \in [RoomIDs -> SUBSET Users]
    <3>1. \/ presence' = [presence EXCEPT ![RoomIDOf[c]] = @ \ {NameOf[c]}]
          \/ presence' = presence
      BY <1>5 DEF KickerRuns, CleanBegin
    <3> QED BY <3>1, PresenceType
  <2>2. cleanup' \in [Clients -> {"idle", "removing", "unsub", "closing", "done"}]
    BY <1>5 DEF KickerRuns, CleanBegin
  <2> QED BY <1>5, <2>1, <2>2 DEF KickerRuns
<1>6. CASE ListerRuns(c)
  <2>1. Broadcast' \in Seq(Message) /\ Len(Broadcast') <= BroadcastCap
    BY <1>6, PushUserListType DEF ListerRuns, TypeOK
  <2> QED BY <1>6, <2>1 DEF ListerRuns
<1>7. CASE EvictorRuns(c)
  <2>1. Unregister' \in Seq(Clients) /\ Len(Unregister') <= UnregisterCap
    BY <1>7, PushUnregisterType DEF EvictorRuns
  <2> QED BY <1>7, <2>1 DEF EvictorRuns
<1>8. CASE ReplaySend(c)
  <2>1. CASE SendClosed(c)
    BY <1>8, <2>1, TypeCrash DEF ReplaySend
  <2>2. CASE ~SendClosed(c)
    <3>1. Send[c] < SendCap /\ Send' = [Send EXCEPT ![c] = @ + 1]
      BY <1>8, <2>2 DEF ReplaySend
    <3>2. Send' \in [Clients -> 0..SendCap]
      BY <3>1, CounterType, Capacities
    <3>3. replay[c] > 0 /\ replay' = [replay EXCEPT ![c] = @ - 1]
      BY <1>8, <2>2 DEF ReplaySend
    <3>4. replay' \in [Clients -> 0..MaxHistory]
      BY <3>3, CounterType, ConstantsAssumption DEF ConstantsAssumption
    <3> QED BY <1>8, <2>2, <3>2, <3>4 DEF ReplaySend
  <2> QED BY <2>1, <2>2
<1> QED
  BY <1>2, <1>3, <1>4, <1>5, <1>6, <1>7, <1>8 DEF CleanupStep, SpawnedStep

\* Facts about short sequences.
LEMMA OneElement == \A c \in Clients : <<c>> \in Seq(Clients) /\ <<c>> # <<>>
OBVIOUS

LEMMA JoinSends ==
  ASSUME NEW p \in Seq(Clients), NEW q \in Seq(Clients)
  PROVE  p \o q \in Seq(Clients) /\ (p # <<>> \/ q # <<>> => p \o q # <<>>)
BY ConcatEqualIffEmpty, ConcatProperties

LEMMA LongTail ==
  ASSUME NEW q \in Seq(Clients), q # <<>>, Len(q) # 1
  PROVE  Tail(q) # <<>>
<1>1. Len(q) \in Nat /\ Len(q) # 0
  BY EmptySeq
<1>2. Len(Tail(q)) = Len(q) - 1
  BY HeadTailProperties
<1>3. Len(Tail(q)) # 0
  BY <1>1, <1>2
<1> QED BY <1>3, EmptySeq

\* What a message from Redis carries.
LEMMA MessageFields ==
  ASSUME NEW m \in Message
  PROVE  /\ m.kind = "room" => m.room \in RoomIDs
         /\ m.kind = "private" => m.target \in Users /\ m.sender \in Users
BY DEF Message

\* A delivery keeps the buffers within their capacity.
LEMMA DeliverType ==
  ASSUME TypeOK, NEW S \in SUBSET Clients, Deliver(S)
  PROVE  /\ Send' \in [Clients -> 0..SendCap]
         /\ evictors' \in SUBSET Clients
         /\ crashed' \in {"no", "sendOnClosed", "mapRace"}
<1>1. Send \in [Clients -> 0..SendCap] /\ evictors \in SUBSET Clients
      /\ crashed \in {"no", "sendOnClosed", "mapRace"}
  BY DEF TypeOK
<1> QED BY <1>1, Capacities DEF Deliver

\* The Register and Unregister cases of Run.
LEMMA TypeHubSession ==
  ASSUME TypeInv,
         HubRegister \/ HubUnregister \/ HubCallsCleanup \/ HubCleanupReturns \/ HubAnnounce
           \/ HubInsert \/ HubList \/ HubPush \/ HubManage
  PROVE  TypeInv'
<1> USE DEF TypeInv, TypeOK, HubLocals, HubPlaces, Cleaning, HubTo, HubFrame, hubState, redis,
            pumps
<1>0. \A c \in Clients : RoomIDOf[c] \in RoomIDs /\ NameOf[c] \in Users
  BY ConstantsAssumption DEF ConstantsAssumption
<1>1. CASE HubRegister
  <2>1. Head(Register) \in Clients /\ Tail(Register) \in Seq(Clients)
        /\ Len(Tail(Register)) <= RegisterCap
    BY <1>1, PopType, Capacities DEF HubRegister
  <2>2. AllClients[NameOf[Head(Register)]] \in Clients \cup {NoClient}
    BY <1>0, <2>1
  <2>3. CASE HasSession(NameOf[Head(Register)])
    BY <1>1, <2>1, <2>2, <2>3 DEF HubRegister, HasSession
  <2>4. CASE ~HasSession(NameOf[Head(Register)])
    BY <1>1, <2>1, <2>2, <2>4 DEF HubRegister
  <2> QED BY <2>3, <2>4
<1>2. CASE HubUnregister
  <2>1. Head(Unregister) \in Clients /\ Tail(Unregister) \in Seq(Clients)
        /\ Len(Tail(Unregister)) <= UnregisterCap
    BY <1>2, PopType, Capacities DEF HubUnregister
  <2> QED BY <1>2, <2>1 DEF HubUnregister
<1>3. CASE HubCallsCleanup
  <2>1. hubOld \in Clients /\ CleanBegin(hubOld)
    BY <1>3 DEF HubCallsCleanup
  <2>2. presence' \in [RoomIDs -> SUBSET Users]
    <3>1. \/ presence' = [presence EXCEPT ![RoomIDOf[hubOld]] = @ \ {NameOf[hubOld]}]
          \/ presence' = presence
      BY <2>1 DEF CleanBegin
    <3> QED BY <2>1, <3>1, PresenceType
  <2>3. cleanup' \in [Clients -> {"idle", "removing", "unsub", "closing", "done"}]
    BY <2>1 DEF CleanBegin
  <2> QED BY <1>3, <2>2, <2>3 DEF HubCallsCleanup
<1>4. CASE HubCleanupReturns
  BY <1>4 DEF HubCleanupReturns
<1>5. CASE HubAnnounce
  <2>1. presence' \in [RoomIDs -> SUBSET Users]
    <3>1. hubClient \in Clients
      BY <1>5 DEF HubAnnounce
    <3>2. \/ presence' = [presence EXCEPT ![RoomIDOf[hubClient]] = @ \cup {NameOf[hubClient]}]
          \/ presence' = presence
      BY <1>5 DEF HubAnnounce
    <3> QED BY <3>1, <3>2, PresenceType
  <2> QED BY <1>5, <2>1 DEF HubAnnounce
<1>6. CASE HubInsert
  <2>1. hubClient \in Clients /\ RoomIDOf[hubClient] \in RoomIDs /\ NameOf[hubClient] \in Users
    BY <1>0, <1>6 DEF HubInsert
  <2>2. subs' \in SUBSET RoomIDs /\ ActiveSubs' \in SUBSET RoomIDs
    BY <1>6, <2>1 DEF HubInsert
  <2>3. AllClients' \in [Users -> Clients \cup {NoClient}]
    BY <1>6, <2>1 DEF HubInsert
  <2>4. Rooms' \in [RoomIDs -> SUBSET Clients]
    BY <1>6, <2>1 DEF HubInsert
  <2>5. replay' \in [Clients -> 0..MaxHistory]
    BY <1>6, <2>1 DEF HubInsert
  <2> QED BY <1>6, <2>2, <2>3, <2>4, <2>5 DEF HubInsert
<1>7. CASE HubPush
  <2>1. Broadcast' \in Seq(Message) /\ Len(Broadcast') <= BroadcastCap
    BY <1>7, PushUserListType DEF HubPush
  <2> QED BY <1>7, <2>1 DEF HubPush
<1>8. CASE HubManage
  <2>1. hubClient \in Clients
    BY <1>8 DEF HubManage
  <2>2. subs' \in SUBSET RoomIDs /\ ActiveSubs' \in SUBSET RoomIDs
    BY <1>8 DEF HubManage
  <2> QED BY <1>8, <2>1, <2>2 DEF HubManage
<1>9. CASE HubList
  BY <1>9 DEF HubList
<1> QED
  BY <1>1, <1>2, <1>3, <1>4, <1>5, <1>6, <1>7, <1>8, <1>9

\* The Broadcast case of Run.
LEMMA TypeHubBroadcast ==
  ASSUME TypeInv, HubBroadcast \/ HubPersist \/ HubDeliverPrivate
  PROVE  TypeInv'
<1> USE DEF TypeInv, TypeOK, HubLocals, HubPlaces, Cleaning, BroadcastFrame, HubFrame, hubState,
            redis, pumps
<1>1. ASSUME NEW k, HubReceives(k)
      PROVE  /\ Head(Broadcast) \in Message /\ Head(Broadcast).kind = k
             /\ Broadcast' \in Seq(Message) /\ Len(Broadcast') <= BroadcastCap
  BY <1>1, PopType, Capacities DEF HubReceives
<1>2. CASE HubPublish
  BY <1>1, <1>2 DEF HubPublish, HubReceives
<1>3. CASE HubPersist
  <2>1. PersistenceQueue' \in 0..QueueCap
    <3>1. PersistenceQueue \in 0..QueueCap
      OBVIOUS
    <3>2. PersistenceQueue < QueueCap /\ PersistenceQueue' = PersistenceQueue + 1
      BY <1>3 DEF HubPersist
    <3> HIDE DEF TypeInv
    <3> QED BY <3>1, <3>2, Capacities
  <2> QED BY <1>3, <2>1 DEF HubPersist
<1>4. CASE HubDeliverRoom
  <2>1. Rooms[Head(Broadcast).room] \in SUBSET Clients
    <3>1. HubReceives("room")
      BY <1>4 DEF HubDeliverRoom
    <3>2. Head(Broadcast).room \in RoomIDs
      BY <1>1, <3>1, MessageFields
    <3> QED BY <3>2
  <2>2. /\ Send' \in [Clients -> 0..SendCap]
        /\ evictors' \in SUBSET Clients
        /\ crashed' \in {"no", "sendOnClosed", "mapRace"}
    BY <1>4, <2>1, DeliverType DEF HubDeliverRoom
  <2> QED BY <1>1, <1>4, <2>2 DEF HubDeliverRoom, HubReceives
<1>5. CASE HubLookUpPrivate
  <2> DEFINE m == Head(Broadcast)
             InRoom(u) == HasSession(u) /\ RoomIDOf[AllClients[u]] = m.room
             To(u) == IF InRoom(u) THEN <<AllClients[u]>> ELSE <<>>
  <2>1. m.target \in Users /\ m.sender \in Users
    <3>1. HubReceives("private")
      BY <1>5 DEF HubLookUpPrivate
    <3> QED BY <1>1, <3>1, MessageFields
  <2>2. \A u \in Users : To(u) \in Seq(Clients) /\ (InRoom(u) => To(u) # <<>>)
    <3>1. \A u \in Users : HasSession(u) => AllClients[u] \in Clients
      BY DEF HasSession
    <3> QED BY <3>1, OneElement
  <2>3. hubSends' = To(m.target) \o To(m.sender)
        /\ hubAt' = IF InRoom(m.target) \/ InRoom(m.sender) THEN "private" ELSE "select"
    BY <1>5 DEF HubLookUpPrivate
  <2> HIDE DEF To, InRoom, m
  <2>4. hubSends' \in Seq(Clients) /\ (hubAt' = "private" => hubSends' # <<>>)
    <3>1. To(m.target) \in Seq(Clients) /\ To(m.sender) \in Seq(Clients)
      BY <2>1, <2>2
    <3>2. hubSends' \in Seq(Clients)
      BY <2>3, <3>1, JoinSends
    <3>3. ASSUME hubAt' = "private"
          PROVE  hubSends' # <<>>
      <4>1. To(m.target) # <<>> \/ To(m.sender) # <<>>
        BY <2>1, <2>2, <2>3, <3>3
      <4> QED BY <2>3, <3>1, <4>1, JoinSends
    <3> QED BY <3>2, <3>3
  <2>5. hubAt' \in {"private", "select"}
    BY <2>3
  <2> QED BY <1>1, <1>5, <2>4, <2>5 DEF HubLookUpPrivate, HubReceives
<1>6. CASE HubDeliverPrivate
  <2>1. hubSends # <<>> /\ Head(hubSends) \in Clients /\ Tail(hubSends) \in Seq(Clients)
    BY <1>6 DEF HubDeliverPrivate
  <2>2. hubSends' \in Seq(Clients) /\ (hubAt' = "private" => hubSends' # <<>>)
    <3>1. hubAt' = "private" => Len(hubSends) # 1
      BY <1>6 DEF HubDeliverPrivate
    <3>2. hubSends' = Tail(hubSends)
      BY <1>6 DEF HubDeliverPrivate
    <3> QED BY <2>1, <3>1, <3>2, LongTail
  <2>3. /\ Send' \in [Clients -> 0..SendCap]
        /\ evictors' \in SUBSET Clients
        /\ crashed' \in {"no", "sendOnClosed", "mapRace"}
    BY <1>6, <2>1, DeliverType DEF HubDeliverPrivate
  <2> QED BY <1>6, <2>2, <2>3 DEF HubDeliverPrivate
<1>7. CASE HubDropKick
  BY <1>1, <1>7 DEF HubDropKick, HubReceives
<1> QED
  BY <1>2, <1>3, <1>4, <1>5, <1>6, <1>7 DEF HubBroadcast

\* What the worker, the listener and the signal may change.
LEMMA TypeOtherFrame ==
  ASSUME TypeInv, OtherFrame,
         Broadcast' \in Seq(Message), Len(Broadcast') <= BroadcastCap,
         PersistenceQueue' \in 0..QueueCap, Quit' \in BOOLEAN, kickers' \in SUBSET Clients
  PROVE  TypeInv'
BY DEF TypeInv, TypeOK, HubLocals, HubPlaces, Cleaning, OtherFrame, SpawnedFrame, hubState,
       locals, pumps

\* The Quit case of Run, the worker, the listener and the signal.
LEMMA TypeOthers ==
  ASSUME TypeInv,
         HubQuit \/ HubQuitNext \/ HubStop \/ PersistWorker \/ RedisStep \/ Stop
  PROVE  TypeInv'
<1> USE DEF TypeInv, TypeOK, HubLocals, HubPlaces, Cleaning, QuitTo, HubFrame, OtherFrame,
            SpawnedFrame, hubState, redis, pumps, locals
<1>1. CASE HubQuit
  BY <1>1 DEF HubQuit
<1>2. CASE HubQuitNext
  <2>1. PICK c \in Unvisited : hubOld' = c /\ hubTodo' = hubTodo \ {c}
    BY <1>2 DEF HubQuitNext
  <2>2. c \in Clients
    BY DEF Unvisited
  <2> QED BY <1>2, <2>1, <2>2 DEF HubQuitNext
<1>3. CASE HubStop
  BY <1>3 DEF HubStop
<1>4. CASE PersistWorker
  <2>1. PersistenceQueue' \in 0..QueueCap
    <3>1. PersistenceQueue \in 0..QueueCap /\ PersistenceQueue > 0
          /\ PersistenceQueue' = PersistenceQueue - 1
      BY <1>4 DEF PersistWorker
    <3> HIDE DEF TypeInv
    <3> QED BY <3>1, Capacities
  <2>2. UNCHANGED <<Broadcast, Quit, kickers>> /\ OtherFrame
    BY <1>4 DEF PersistWorker
  <2> HIDE DEF OtherFrame
  <2> QED BY <2>1, <2>2, TypeOtherFrame
<1>5. ASSUME NEW u \in Acks, ListenAck(u) PROVE TypeInv'
  <2>1. u \in Users
    BY ConstantsAssumption DEF ConstantsAssumption
  <2>2. UNCHANGED <<Broadcast, PersistenceQueue, Quit>> /\ OtherFrame
    BY <1>5 DEF ListenAck
  <2>3. kickers' \in SUBSET Clients
    BY <1>5, <2>1 DEF ListenAck, HasSession
  <2> HIDE DEF OtherFrame
  <2> QED BY <2>2, <2>3, TypeOtherFrame
<1>6. ASSUME NEW m \in Remote, ListenForward(m) PROVE TypeInv'
  <2>1. m \in Message
    BY ConstantsAssumption DEF ConstantsAssumption
  <2>2. Broadcast' \in Seq(Message) /\ Len(Broadcast') <= BroadcastCap
    BY <1>6, <2>1, PushType, Capacities DEF ListenForward
  <2>3. UNCHANGED <<PersistenceQueue, Quit, kickers>> /\ OtherFrame
    BY <1>6 DEF ListenForward
  <2> HIDE DEF OtherFrame
  <2> QED BY <2>2, <2>3, TypeOtherFrame
<1>7. CASE Stop
  <2>1. UNCHANGED <<Broadcast, PersistenceQueue, kickers>> /\ Quit' = TRUE /\ OtherFrame
    BY <1>7 DEF Stop
  <2> HIDE DEF OtherFrame
  <2> QED BY <2>1, TypeOtherFrame
<1> QED
  BY <1>1, <1>2, <1>3, <1>4, <1>5, <1>6, <1>7 DEF RedisStep

\* Every step keeps the types.
LEMMA TypeNext == TypeInv /\ [Next]_vars => TypeInv'
<1> SUFFICES ASSUME TypeInv, [Next]_vars PROVE TypeInv'
  OBVIOUS
<1>1. CASE UNCHANGED vars
  BY <1>1 DEF vars, TypeInv, TypeOK, HubLocals, hubState, chans, redis, locals, pumps, spawned
<1>2. CASE HubStep \/ PersistWorker \/ RedisStep \/ Stop
  BY <1>2, TypeHubSession, TypeHubBroadcast, TypeOthers DEF HubStep, HubContinues
<1>3. ASSUME NEW c \in Clients, ClientStep(c) PROVE TypeInv'
  BY <1>3, TypePumps, TypeSpawned DEF ClientStep
<1> QED BY <1>1, <1>2, <1>3 DEF Next

\* Every variable keeps its type, no channel exceeds its capacity, and Run uses
\* its locals only where they are set.
THEOREM TypeCorrect == Spec => [](TypeOK /\ HubLocals)
<1>1. Spec => []TypeInv
  BY TypeInit, TypeNext, PTL DEF Spec
<1> QED BY <1>1, PTL DEF TypeInv

-----------------------------------------------------------------------------
(***************************************************************************)
(* Sessions                                                                *)
(***************************************************************************)

\* The sessions' invariant.  A client that is in its room and not yet removed
\* owns its name; while Run registers a client, the name is free or belongs to
\* a client whose cleanup has ended or that Run is about to clean up; while Run
\* quits, each session is still to be visited, being visited or cleaned up.
OwnsName == \A u \in Users : AllClients[u] # NoClient => NameOf[AllClients[u]] = u

MemberOwnsName ==
  \A c \in Clients : c \in Rooms[RoomIDOf[c]] /\ cleanup[c] \in {"idle", "removing"}
    => AllClients[NameOf[c]] = c

NameIsFree ==
  /\ hubAt = "cleanOld" => AllClients[NameOf[hubClient]] \in {NoClient, hubOld}
  /\ hubAt \in {"announce", "insert"} =>
       LET old == AllClients[NameOf[hubClient]] IN old # NoClient => cleanup[old] = "done"

QuitVisitsAll ==
  hubAt \in {"quitting", "quitClean", "stopped"} =>
    \A u \in Users :
      \/ AllClients[u] = NoClient
      \/ cleanup[AllClients[u]] = "done"
      \/ hubAt \in {"quitting", "quitClean"} /\ AllClients[u] \in hubTodo
      \/ hubAt = "quitClean" /\ AllClients[u] = hubOld

SessionInv == OwnsName /\ MemberOwnsName /\ NameIsFree /\ QuitVisitsAll /\ SubsIndex

\* What SessionInv is about.
sessionVars == <<AllClients, Rooms, ActiveSubs, cleanup, hubAt, hubClient, hubOld, hubTodo>>

\* The pumps, the listener, the worker and the process leave it alone.
LEMMA QuietSteps ==
  ASSUME NEW c \in Clients,
         \/ Connect(c) \/ QueueRegister(c) \/ PeerGone(c) \/ ReadMessage(c) \/ ReadStep(c)
         \/ WriteStep(c) \/ ListerRuns(c) \/ EvictorRuns(c) \/ ReplaySend(c)
  PROVE  UNCHANGED <<sessionVars, subs>>
<1> USE DEF sessionVars, ClientFrame, SpawnedFrame, hubState, redis, locals, spawned, Crash
<1>1. CASE Connect(c) \/ QueueRegister(c) \/ PeerGone(c) \/ ReadMessage(c)
  BY <1>1 DEF Connect, QueueRegister, PeerGone, ReadMessage, ReadTo
<1>2. CASE ReadStep(c)
  BY <1>2 DEF ReadStep, ReadAnswer, ReadPush, ReadFail, ReadExit, ReadTo
<1>3. CASE WriteStep(c)
  BY <1>3 DEF WriteStep, WriteFrame, WriteClosed, WriteExit, WriteTo
<1>4. CASE ListerRuns(c) \/ EvictorRuns(c) \/ ReplaySend(c)
  BY <1>4 DEF ListerRuns, EvictorRuns, ReplaySend
<1> QED BY <1>1, <1>2, <1>3, <1>4

LEMMA QuietOthers ==
  ASSUME PersistWorker \/ RedisStep \/ Stop
  PROVE  UNCHANGED <<sessionVars, subs>>
BY DEF PersistWorker, RedisStep, ListenAck, ListenForward, Stop, OtherFrame, SpawnedFrame,
       sessionVars, hubState, locals

\* Starting a cleanup keeps the sessions' invariant.
LEMMA SessionBegin ==
  ASSUME TypeInv, SessionInv, NEW c \in Clients, CleanBegin(c),
         UNCHANGED <<hubState, hubAt, hubClient, hubOld, hubTodo>>
  PROVE  SessionInv'
<1>1. cleanup \in [Clients -> {"idle", "removing", "unsub", "closing", "done"}]
      /\ AllClients \in [Users -> Clients \cup {NoClient}]
  BY DEF TypeInv, TypeOK
<1>2. cleanup[c] = "idle" /\ cleanup' = [cleanup EXCEPT ![c] = "removing"]
  BY DEF CleanBegin
<1>3. \A d \in Clients : (cleanup'[d] \in {"idle", "removing"} => cleanup[d] \in {"idle", "removing"})
                         /\ (cleanup[d] = "done" => cleanup'[d] = "done")
  BY <1>1, <1>2
<1>4. NoClient \notin Clients /\ NameOf \in [Clients -> Users]
  BY ConstantsAssumption DEF ConstantsAssumption
<1>5. OwnsName' /\ MemberOwnsName' /\ SubsIndex'
  BY <1>3 DEF SessionInv, OwnsName, MemberOwnsName, SubsIndex, hubState
<1>6. NameIsFree'
  <2>1. hubAt \in {"announce", "insert"} => AllClients[NameOf[hubClient]] \in Clients \cup {NoClient}
    BY <1>1, <1>4 DEF TypeInv, HubLocals
  <2> QED BY <1>3, <2>1 DEF SessionInv, NameIsFree, hubState
<1>7. QuitVisitsAll'
  BY <1>1, <1>3 DEF SessionInv, QuitVisitsAll, hubState
<1> QED BY <1>5, <1>6, <1>7 DEF SessionInv

\* Every step of cleanupClient keeps it.
LEMMA SessionCleanup ==
  ASSUME TypeInv, SessionInv, NEW c \in Clients, CleanupStep(c)
  PROVE  SessionInv'
<1>1. /\ cleanup \in [Clients -> {"idle", "removing", "unsub", "closing", "done"}]
      /\ AllClients \in [Users -> Clients \cup {NoClient}]
      /\ Rooms \in [RoomIDs -> SUBSET Clients]
      /\ ActiveSubs \in SUBSET RoomIDs
  BY DEF TypeInv, TypeOK
<1>2. NoClient \notin Clients /\ NameOf \in [Clients -> Users] /\ RoomIDOf \in [Clients -> RoomIDs]
  BY ConstantsAssumption DEF ConstantsAssumption
<1>3. hubAt \in {"cleanOld", "announce", "insert"} => hubClient \in Clients
  BY DEF TypeInv, HubLocals
<1>4. CASE Crash("mapRace")
  BY <1>4 DEF Crash, SessionInv, OwnsName, MemberOwnsName, NameIsFree, QuitVisitsAll, SubsIndex,
              hubState, locals
<1>5. CASE CleanRemove(c) /\ ~Crash("mapRace")
  <2>1. /\ cleanup[c] = "removing"
        /\ Rooms' = [Rooms EXCEPT ![RoomIDOf[c]] = @ \ {c}]
        /\ ActiveSubs' = IF LastInRoom(c) THEN ActiveSubs \ {RoomIDOf[c]} ELSE ActiveSubs
        /\ AllClients' = [AllClients EXCEPT ![NameOf[c]] = IF @ = c THEN NoClient ELSE @]
        /\ CleanTo(c, IF LastInRoom(c) THEN "unsub" ELSE "closing")
    BY <1>5 DEF CleanRemove
  <2>2. cleanup' = [cleanup EXCEPT ![c] = IF LastInRoom(c) THEN "unsub" ELSE "closing"]
        /\ UNCHANGED <<hubAt, hubClient, hubOld, hubTodo>>
    BY <2>1 DEF CleanTo, locals
  <2>3. \A u \in Users : AllClients'[u] = AllClients[u] \/ AllClients'[u] = NoClient
    BY <1>1, <1>2, <2>1
  <2>4. \A d \in Clients : d # c => cleanup'[d] = cleanup[d]
    BY <1>1, <2>2
  <2>5. cleanup'[c] \notin {"idle", "removing"}
    BY <1>1, <2>2
  <2>6. OwnsName'
    BY <2>3 DEF SessionInv, OwnsName
  <2>7. MemberOwnsName'
    BY <1>1, <1>2, <2>1, <2>4, <2>5 DEF SessionInv, MemberOwnsName
  <2>8. NameIsFree'
    BY <1>1, <1>2, <1>3, <2>1, <2>2, <2>3, <2>4 DEF SessionInv, NameIsFree
  <2>9. QuitVisitsAll'
    BY <1>1, <2>1, <2>2, <2>3, <2>4 DEF SessionInv, QuitVisitsAll
  <2>10. SubsIndex'
    BY <1>1, <1>2, <2>1 DEF SessionInv, SubsIndex, LastInRoom
  <2> QED BY <2>6, <2>7, <2>8, <2>9, <2>10 DEF SessionInv
<1>6. CASE CleanUnsubscribe(c) \/ CleanClose(c)
  <2>1. cleanup' \in {[cleanup EXCEPT ![c] = "closing"], [cleanup EXCEPT ![c] = "done"]}
        /\ cleanup[c] \in {"unsub", "closing"}
        /\ UNCHANGED <<hubState, hubAt, hubClient, hubOld, hubTodo>>
    BY <1>6 DEF CleanUnsubscribe, CleanClose, CleanTo, locals
  <2>2. \A d \in Clients :
          (cleanup'[d] \in {"idle", "removing"} => cleanup[d] \in {"idle", "removing"})
          /\ (cleanup[d] = "done" => cleanup'[d] = "done")
    BY <1>1, <2>1
  <2>3. OwnsName' /\ MemberOwnsName' /\ SubsIndex'
    BY <2>1, <2>2 DEF SessionInv, OwnsName, MemberOwnsName, SubsIndex, hubState
  <2>4. NameIsFree'
    BY <1>1, <1>2, <1>3, <2>1, <2>2 DEF SessionInv, NameIsFree, hubState
  <2>5. QuitVisitsAll'
    BY <1>1, <2>1, <2>2 DEF SessionInv, QuitVisitsAll, hubState
  <2> QED BY <2>3, <2>4, <2>5 DEF SessionInv
<1> QED BY <1>4, <1>5, <1>6 DEF CleanupStep

\* So does every step of Run.
LEMMA SessionHub ==
  ASSUME TypeInv, SessionInv, HubStep
  PROVE  SessionInv'
<1>1. /\ cleanup \in [Clients -> {"idle", "removing", "unsub", "closing", "done"}]
      /\ AllClients \in [Users -> Clients \cup {NoClient}]
      /\ Rooms \in [RoomIDs -> SUBSET Clients]
      /\ ActiveSubs \in SUBSET RoomIDs
  BY DEF TypeInv, TypeOK
<1>2. NoClient \notin Clients /\ NameOf \in [Clients -> Users] /\ RoomIDOf \in [Clients -> RoomIDs]
  BY ConstantsAssumption DEF ConstantsAssumption
<1>3. /\ hubAt \in {"cleanOld", "announce", "insert"} => hubClient \in Clients
      /\ hubAt \in Cleaning => hubOld \in Clients
  BY DEF TypeInv, HubLocals
<1> USE DEF SessionInv, OwnsName, MemberOwnsName, NameIsFree, QuitVisitsAll, SubsIndex
<1>4. CASE HubRegister
  BY <1>4 DEF HubRegister, HubTo, HasSession, hubState
<1>5. CASE HubUnregister
  BY <1>5 DEF HubUnregister, HubTo, hubState
<1>6. CASE HubCallsCleanup
  <2>1. hubOld \in Clients /\ CleanBegin(hubOld)
        /\ UNCHANGED <<hubState, hubAt, hubClient, hubOld, hubTodo>>
    BY <1>3, <1>6 DEF HubCallsCleanup, HubTo
  <2> QED BY <2>1, SessionBegin
<1>7. CASE HubCleanupReturns
  BY <1>1, <1>2, <1>3, <1>7 DEF HubCleanupReturns, OnceReturns, HubTo, hubState, Cleaning
<1>8. CASE HubAnnounce
  BY <1>8 DEF HubAnnounce, HubTo, hubState
<1>9. CASE HubInsert
  <2> DEFINE c == hubClient
             r == RoomIDOf[c]
  <2>1. /\ c \in Clients /\ r \in RoomIDs /\ NameOf[c] \in Users
        /\ ActiveSubs' = ActiveSubs \cup {r}
        /\ AllClients' = [AllClients EXCEPT ![NameOf[c]] = c]
        /\ Rooms' = [Rooms EXCEPT ![r] = @ \cup {c}]
        /\ cleanup' = cleanup /\ hubAt' = "list"
    BY <1>2, <1>3, <1>9 DEF HubInsert, HubTo
  <2>2. AllClients[NameOf[c]] # NoClient => cleanup[AllClients[NameOf[c]]] = "done"
    BY <1>9 DEF HubInsert
  <2> HIDE DEF c, r
  <2>3. OwnsName'
    BY <1>1, <2>1
  <2>4. MemberOwnsName'
    <3> SUFFICES ASSUME NEW d \in Clients, d \in Rooms'[RoomIDOf[d]],
                        cleanup[d] \in {"idle", "removing"}
                 PROVE  AllClients'[NameOf[d]] = d
      BY <2>1
    <3>1. CASE d = c
      BY <1>1, <2>1, <3>1
    <3>2. CASE d # c
      <4>1. d \in Rooms[RoomIDOf[d]]
        BY <1>1, <1>2, <2>1, <3>2
      <4>2. AllClients[NameOf[d]] = d
        BY <4>1
      <4>3. NameOf[d] # NameOf[c]
        BY <1>2, <2>2, <4>2
      <4> QED BY <1>1, <2>1, <4>2, <4>3
    <3> QED BY <3>1, <3>2
  <2>5. SubsIndex'
    BY <1>1, <2>1 DEF r
  <2> QED BY <2>1, <2>3, <2>4, <2>5
<1>10. CASE HubList \/ HubPush
  BY <1>10 DEF HubList, HubPush, HubTo, hubState
<1>11. CASE HubManage
  BY <1>1, <1>11 DEF HubManage, HubTo
<1>12. CASE HubBroadcast \/ HubPersist \/ HubDeliverPrivate
  <2>1. UNCHANGED <<hubState, cleanup, hubClient, hubOld, hubTodo>>
        /\ hubAt' \in {"select", "persist", "private"}
    BY <1>12 DEF HubBroadcast, HubPublish, HubDeliverRoom, HubLookUpPrivate, HubDropKick,
                 HubReceives, HubPersist, HubDeliverPrivate, BroadcastFrame
  <2> QED BY <2>1 DEF hubState
<1>13. CASE HubQuit
  BY <1>1, <1>2, <1>13 DEF HubQuit, QuitTo, hubState
<1>14. CASE HubQuitNext
  <2>1. PICK c \in Unvisited : hubOld' = c /\ hubTodo' = hubTodo \ {c}
    BY <1>14 DEF HubQuitNext
  <2>2. hubAt = "quitting" /\ hubAt' = "quitClean" /\ UNCHANGED <<hubState, cleanup>>
    BY <1>14 DEF HubQuitNext, QuitTo
  <2> QED BY <2>1, <2>2 DEF hubState
<1>15. CASE HubStop
  <2>1. hubAt = "quitting" /\ hubAt' = "stopped" /\ UNCHANGED <<hubState, cleanup>>
        /\ \A c \in hubTodo : AllClients[NameOf[c]] # c
    BY <1>15 DEF HubStop, QuitTo, Unvisited
  <2>2. \A u \in Users : AllClients[u] = NoClient \/ cleanup[AllClients[u]] = "done"
    BY <2>1
  <2> QED BY <2>1, <2>2 DEF hubState
<1> QED
  BY <1>4, <1>5, <1>6, <1>7, <1>8, <1>9, <1>10, <1>11, <1>12, <1>13, <1>14, <1>15
     DEF HubStep, HubContinues

\* The sessions' invariant holds initially and is kept by every step.
LEMMA SessionInit == Init => SessionInv
BY ConstantsAssumption
   DEF ConstantsAssumption, Init, SessionInv, OwnsName, MemberOwnsName, NameIsFree,
       QuitVisitsAll, SubsIndex

LEMMA SessionStutter ==
  ASSUME SessionInv, UNCHANGED sessionVars
  PROVE  SessionInv'
BY DEF sessionVars, SessionInv, OwnsName, MemberOwnsName, NameIsFree, QuitVisitsAll, SubsIndex

LEMMA SessionNext == TypeInv /\ SessionInv /\ [Next]_vars => SessionInv'
<1> SUFFICES ASSUME TypeInv, SessionInv, [Next]_vars PROVE SessionInv'
  OBVIOUS
<1>1. CASE UNCHANGED vars
  BY <1>1, SessionStutter DEF vars, sessionVars, hubState, locals
<1>2. CASE HubStep
  BY <1>2, SessionHub
<1>3. CASE PersistWorker \/ RedisStep \/ Stop
  BY <1>3, QuietOthers, SessionStutter
<1>4. ASSUME NEW c \in Clients, ClientStep(c) PROVE SessionInv'
  <2>1. CASE KickerRuns(c)
    <3>1. CASE CleanBegin(c)
      BY <2>1, <3>1, SessionBegin DEF KickerRuns, SpawnedFrame, locals
    <3>2. CASE UNCHANGED <<cleanup, presence>>
      BY <2>1, <3>2, SessionStutter DEF KickerRuns, SpawnedFrame, sessionVars, hubState, locals
    <3> QED BY <2>1, <3>1, <3>2 DEF KickerRuns
  <2>2. CASE CleanupStep(c)
    BY <2>2, SessionCleanup
  <2> QED BY <1>4, <2>1, <2>2, QuietSteps, SessionStutter DEF ClientStep, SpawnedStep
<1> QED BY <1>1, <1>2, <1>3, <1>4 DEF Next

LEMMA SessionInvariant == Spec => [](TypeInv /\ SessionInv)
<1>1. Init => TypeInv /\ SessionInv
  BY TypeInit, SessionInit
<1>2. TypeInv /\ SessionInv /\ [Next]_vars => (TypeInv /\ SessionInv)'
  BY TypeNext, SessionNext
<1> QED BY <1>1, <1>2, PTL DEF Spec

\* Two registered sessions of one user that are not being torn down are the
\* same, for any number of connections: what the Register case of Run promises.
THEOREM OneLiveSessionHolds == Spec => []OneLiveSession
<1>1. TypeInv /\ SessionInv => OneLiveSession
  BY DEF SessionInv, MemberOwnsName, OneLiveSession, Live
<1> QED BY <1>1, SessionInvariant, PTL

\* ActiveSubs and Rooms agree in every reachable state, so the body of
\* manageSubscription is never executed.
THEOREM SubsIndexHolds == Spec => []SubsIndex
<1>1. TypeInv /\ SessionInv => SubsIndex
  BY DEF SessionInv
<1> QED BY <1>1, SessionInvariant, PTL

\* After the Quit case of Run every session it knew is closed.
THEOREM StopClosesSessionsHolds == Spec => []StopClosesSessions
<1>1. TypeInv /\ SessionInv => StopClosesSessions
  BY DEF SessionInv, QuitVisitsAll, StopClosesSessions, SendClosed
<1> QED BY <1>1, SessionInvariant, PTL

\* A name passes from one session to another only when the cleanup of the first
\* one has ended, whichever goroutine runs it.
THEOREM HandoverAfterCleanupHolds == Spec => HandoverAfterCleanup
<1> DEFINE Handover ==
      \A u \in Users :
        AllClients[u] # NoClient /\ AllClients'[u] \notin {NoClient, AllClients[u]}
          => SendClosed(AllClients[u])
<1>1. ASSUME TypeInv, SessionInv, [Next]_vars PROVE [Handover]_vars
  <2>1. CASE HubInsert
    <3>1. AllClients' = [AllClients EXCEPT ![NameOf[hubClient]] = hubClient]
          /\ (LET old == AllClients[NameOf[hubClient]]
              IN  old # NoClient => cleanup[old] = "done")
      BY <1>1, <2>1 DEF HubInsert, SessionInv, NameIsFree
    <3>2. AllClients \in [Users -> Clients \cup {NoClient}]
      BY <1>1 DEF TypeInv, TypeOK
    <3> QED BY <3>1, <3>2 DEF SendClosed
  <2>2. CASE HubStep /\ ~HubInsert
    <3>1. AllClients' = AllClients
      BY <2>2 DEF HubStep, HubContinues, HubRegister, HubUnregister, HubCallsCleanup,
                  HubCleanupReturns, HubAnnounce, HubList, HubPush, HubManage, HubBroadcast, HubPublish,
                  HubDeliverRoom, HubLookUpPrivate, HubDropKick, HubReceives, HubPersist,
                  HubDeliverPrivate, BroadcastFrame, HubQuit, HubQuitNext, HubStop, QuitTo,
                  hubState
    <3> QED BY <3>1
  <2>3. ASSUME NEW c \in Clients, CleanupStep(c) PROVE Handover
    <3>1. AllClients' = AllClients
          \/ AllClients' = [AllClients EXCEPT ![NameOf[c]] = IF @ = c THEN NoClient ELSE @]
      BY <2>3 DEF CleanupStep, CleanRemove, CleanUnsubscribe, CleanClose, Crash, hubState
    <3>2. AllClients \in [Users -> Clients \cup {NoClient}]
      BY <1>1 DEF TypeInv, TypeOK
    <3> QED BY <3>1, <3>2
  <2>4. ASSUME NEW c \in Clients, ClientStep(c), ~CleanupStep(c) PROVE Handover
    <3>1. AllClients' = AllClients
      BY <2>4, QuietSteps DEF ClientStep, SpawnedStep, sessionVars, KickerRuns, SpawnedFrame,
                              hubState
    <3> QED BY <3>1
  <2>5. CASE PersistWorker \/ RedisStep \/ Stop
    BY <2>5, QuietOthers DEF sessionVars
  <2> QED BY <1>1, <2>1, <2>2, <2>3, <2>4, <2>5 DEF Next
<1> QED BY <1>1, SessionInvariant, PTL DEF Spec, HandoverAfterCleanup

-----------------------------------------------------------------------------
(***************************************************************************)
(* Subscriptions                                                           *)
(***************************************************************************)

\* Nothing happens to clients, rooms and subscriptions.
LEMMA SubsStutter ==
  ASSUME EmptyRoomUnsubscribed, UNCHANGED <<subs, Rooms, cleanup>>
  PROVE  EmptyRoomUnsubscribed'
BY DEF EmptyRoomUnsubscribed

\* The beginning of a cleanup is not the end of another one.
LEMMA SubsBegin ==
  ASSUME TypeInv, EmptyRoomUnsubscribed, NEW c \in Clients, CleanBegin(c),
         UNCHANGED <<subs, Rooms>>
  PROVE  EmptyRoomUnsubscribed'
<1>1. \A d \in Clients : cleanup[d] = "unsub" => cleanup'[d] = "unsub"
  BY DEF CleanBegin, TypeInv, TypeOK
<1> QED BY <1>1 DEF EmptyRoomUnsubscribed

\* Who empties a room unsubscribes it.
LEMMA SubsCleanup ==
  ASSUME TypeInv, EmptyRoomUnsubscribed, NEW c \in Clients, CleanupStep(c)
  PROVE  EmptyRoomUnsubscribed'
<1>1. /\ cleanup \in [Clients -> {"idle", "removing", "unsub", "closing", "done"}]
      /\ Rooms \in [RoomIDs -> SUBSET Clients] /\ subs \in SUBSET RoomIDs
      /\ RoomIDOf[c] \in RoomIDs
  BY ConstantsAssumption DEF ConstantsAssumption, TypeInv, TypeOK
<1>2. CASE Crash("mapRace")
  BY <1>2, SubsStutter DEF Crash, hubState, redis
<1>3. CASE CleanRemove(c) /\ ~Crash("mapRace")
  <2>1. /\ cleanup[c] = "removing" /\ UNCHANGED subs
        /\ Rooms' = [Rooms EXCEPT ![RoomIDOf[c]] = @ \ {c}]
        /\ cleanup' = [cleanup EXCEPT ![c] = IF LastInRoom(c) THEN "unsub" ELSE "closing"]
    BY <1>3 DEF CleanRemove, CleanTo
  <2> SUFFICES ASSUME NEW r \in subs, Rooms'[r] = {}
               PROVE  \E d \in Clients : RoomIDOf[d] = r /\ cleanup'[d] = "unsub"
    BY <2>1 DEF EmptyRoomUnsubscribed
  <2>2. CASE Rooms[r] = {}
    <3>1. PICK d \in Clients : RoomIDOf[d] = r /\ cleanup[d] = "unsub"
      BY <2>2 DEF EmptyRoomUnsubscribed
    <3> QED BY <1>1, <2>1, <3>1
  <2>3. CASE Rooms[r] # {}
    <3>1. r = RoomIDOf[c] /\ LastInRoom(c)
      BY <1>1, <2>1, <2>3 DEF LastInRoom
    <3> QED BY <1>1, <2>1, <3>1
  <2> QED BY <2>2, <2>3
<1>4. CASE CleanUnsubscribe(c) \/ CleanClose(c)
  <2>1. /\ UNCHANGED Rooms /\ subs' \subseteq subs
        /\ \A d \in Clients : d # c => cleanup'[d] = cleanup[d]
        /\ cleanup[c] = "unsub" => RoomIDOf[c] \notin subs'
    BY <1>1, <1>4 DEF CleanUnsubscribe, CleanClose, CleanTo, hubState
  <2> QED BY <2>1 DEF EmptyRoomUnsubscribed
<1> QED BY <1>2, <1>3, <1>4 DEF CleanupStep

\* Run subscribes only a room that it puts a client into.
LEMMA SubsHub ==
  ASSUME TypeInv, EmptyRoomUnsubscribed, HubStep
  PROVE  EmptyRoomUnsubscribed'
<1>1. CASE HubInsert
  <2>1. /\ hubClient \in Clients /\ RoomIDOf[hubClient] \in RoomIDs
        /\ Rooms \in [RoomIDs -> SUBSET Clients]
        /\ Rooms' = [Rooms EXCEPT ![RoomIDOf[hubClient]] = @ \cup {hubClient}]
        /\ subs' \subseteq subs \cup {RoomIDOf[hubClient]} /\ UNCHANGED cleanup
    BY <1>1, ConstantsAssumption
       DEF HubInsert, ConstantsAssumption, TypeInv, TypeOK, HubLocals
  <2>2. \A r \in RoomIDs : Rooms[r] \subseteq Rooms'[r]
    BY <2>1
  <2>3. Rooms'[RoomIDOf[hubClient]] # {}
    BY <2>1
  <2>4. \A r \in subs' : Rooms'[r] = {} => r \in subs /\ Rooms[r] = {}
    BY <2>1, <2>2, <2>3 DEF TypeInv, TypeOK
  <2> QED BY <2>1, <2>4 DEF EmptyRoomUnsubscribed
<1>2. CASE HubCallsCleanup
  <2>1. hubOld \in Clients /\ CleanBegin(hubOld) /\ UNCHANGED <<subs, Rooms>>
    BY <1>2 DEF HubCallsCleanup, TypeInv, HubLocals, hubState
  <2> QED BY <2>1, SubsBegin
<1>3. CASE HubManage \/ HubStop
  <2>1. subs' \subseteq subs /\ UNCHANGED <<Rooms, cleanup>>
    BY <1>3 DEF HubManage, HubStop, QuitTo, hubState
  <2> QED BY <2>1 DEF EmptyRoomUnsubscribed
<1>4. CASE HubRegister \/ HubUnregister \/ HubCleanupReturns \/ HubAnnounce \/ HubList
           \/ HubPush \/ HubQuit \/ HubQuitNext
  BY <1>4, SubsStutter DEF HubRegister, HubUnregister, HubCleanupReturns, HubAnnounce, HubList,
     HubPush, HubQuit, HubQuitNext, QuitTo, hubState, redis
<1>5. CASE HubBroadcast \/ HubPersist \/ HubDeliverPrivate
  BY <1>5, SubsStutter DEF HubBroadcast, HubPublish, HubDeliverRoom, HubLookUpPrivate,
     HubDropKick, HubReceives, HubPersist, HubDeliverPrivate, BroadcastFrame, hubState, redis
<1> QED BY <1>1, <1>2, <1>3, <1>4, <1>5 DEF HubStep, HubContinues

\* A subscription to a room without clients is always being ended: whatever
\* cleanups overlap, the one that empties the room has not unsubscribed yet.
THEOREM EmptyRoomUnsubscribedHolds == Spec => []EmptyRoomUnsubscribed
<1>1. Init => EmptyRoomUnsubscribed
  BY DEF Init, EmptyRoomUnsubscribed
<1>2. TypeInv /\ EmptyRoomUnsubscribed /\ [Next]_vars => EmptyRoomUnsubscribed'
  <2> SUFFICES ASSUME TypeInv, EmptyRoomUnsubscribed, [Next]_vars
               PROVE  EmptyRoomUnsubscribed'
    OBVIOUS
  <2>1. CASE UNCHANGED vars
    BY <2>1, SubsStutter DEF vars, hubState, redis
  <2>2. CASE PersistWorker \/ RedisStep \/ Stop
    BY <2>2, QuietOthers, SubsStutter DEF sessionVars
  <2>3. ASSUME NEW c \in Clients, ClientStep(c) PROVE EmptyRoomUnsubscribed'
    <3>1. CASE KickerRuns(c)
      <4>1. UNCHANGED <<subs, Rooms>> /\ (CleanBegin(c) \/ UNCHANGED cleanup)
        BY <3>1 DEF KickerRuns, SpawnedFrame, hubState
      <4> QED BY <4>1, SubsBegin, SubsStutter
    <3>2. CASE ~KickerRuns(c) /\ ~CleanupStep(c)
      BY <2>3, <3>2, QuietSteps, SubsStutter DEF ClientStep, SpawnedStep, sessionVars
    <3> QED BY <3>1, <3>2, SubsCleanup
  <2> QED BY <2>1, <2>2, <2>3, SubsHub DEF Next
<1> QED BY <1>1, <1>2, SessionInvariant, PTL DEF Spec

-----------------------------------------------------------------------------
(***************************************************************************)
(* Presence                                                                *)
(***************************************************************************)

Distinct(q) == \A i, j \in 1..Len(q) : q[i] = q[j] => i = j

\* serveWS queues each client once.
QueuedOnce ==
  /\ Distinct(Register)
  /\ \A c \in Clients : Has(Register, c) => served[c] = "queued"
  /\ Registering => served[hubClient] = "queued" /\ ~Has(Register, hubClient)

\* Nobody but Run's Unregister case starts the cleanup of a newcomer, and Run is
\* in one case at a time.
Untouched ==
  \A c \in Clients : Newcomer(c) =>
    /\ c \notin kickers
    /\ \A u \in Users : AllClients[u] # c
    /\ cleanup[c] \in {"idle", "done"} \/ (hubAt = "cleanGone" /\ hubOld = c)
    /\ hubAt \in {"cleanOld", "quitClean"} => hubOld # c

\* Who is listed has a client in the room that no cleanup is about to remove, or
\* one that Run is about to insert.
Backs(c, r, u) ==
  /\ NameOf[c] = u /\ RoomIDOf[c] = r
  /\ \/ c \in Rooms[r] /\ cleanup[c] \in {"idle", "done"}
     \/ hubAt = "insert" /\ hubClient = c

Backed == \A r \in RoomIDs : \A u \in presence[r] : \E c \in Clients : Backs(c, r, u)

PresenceInv == QueuedOnce /\ Untouched /\ Backed

\* What PresenceInv is about.
enrolled     == <<AllClients, Rooms, Register, presence, served, cleanup, kickers>>
presenceVars == <<enrolled, hubAt, hubClient, hubOld>>

LEMMA AppendDistinct ==
  ASSUME NEW q \in Seq(Clients), NEW x \in Clients, Distinct(q), ~Has(q, x)
  PROVE  /\ Distinct(Append(q, x))
         /\ \A y : Has(Append(q, x), y) => Has(q, y) \/ y = x
         /\ Has(Append(q, x), x)
<1> DEFINE p == Append(q, x)
<1>1. Len(p) = Len(q) + 1 /\ Len(q) \in Nat /\ p[Len(q) + 1] = x
      /\ \A i \in 1..Len(q) : p[i] = q[i]
  BY AppendProperties
<1> HIDE DEF p
<1>2. \A i \in 1..Len(p) : i \in 1..Len(q) \/ i = Len(q) + 1
  BY <1>1
<1>3. Distinct(p) /\ (\A y : Has(p, y) => Has(q, y) \/ y = x)
  BY <1>1, <1>2 DEF Distinct, Has
<1>4. Has(p, x)
  BY <1>1 DEF Has
<1> QED BY <1>3, <1>4 DEF p

LEMMA TailDistinct ==
  ASSUME NEW q \in Seq(Clients), q # <<>>, Distinct(q)
  PROVE  /\ Distinct(Tail(q)) /\ ~Has(Tail(q), Head(q)) /\ Has(q, Head(q))
         /\ \A y : Has(Tail(q), y) => Has(q, y)
         /\ \A y : Has(q, y) => Has(Tail(q), y) \/ y = Head(q)
<1>1. /\ Len(q) \in Nat /\ Len(q) > 0 /\ Len(Tail(q)) = Len(q) - 1 /\ Head(q) = q[1]
      /\ \A i \in 1..Len(Tail(q)) : Tail(q)[i] = q[i + 1]
  BY HeadTailProperties, EmptySeq
<1>2. \A i \in 1..Len(Tail(q)) : i + 1 \in 1..Len(q) /\ i + 1 # 1
  BY <1>1
<1>3. 1 \in 1..Len(q)
  BY <1>1
<1>4. Distinct(Tail(q))
  <2> SUFFICES ASSUME NEW i \in 1..Len(Tail(q)), NEW j \in 1..Len(Tail(q)),
                      Tail(q)[i] = Tail(q)[j]
               PROVE  i = j
    BY DEF Distinct
  <2>1. i + 1 = j + 1
    BY <1>1, <1>2 DEF Distinct
  <2> QED BY <2>1
<1>5. ~Has(Tail(q), Head(q)) /\ Has(q, Head(q))
  BY <1>1, <1>2, <1>3 DEF Distinct, Has
<1>6. \A y : Has(Tail(q), y) => Has(q, y)
  BY <1>1, <1>2 DEF Has
<1>7. ASSUME NEW y, Has(q, y) PROVE Has(Tail(q), y) \/ y = Head(q)
  <2>1. PICK i \in 1..Len(q) : q[i] = y
    BY <1>7 DEF Has
  <2>2. CASE i = 1
    BY <1>1, <2>1, <2>2
  <2>3. CASE i # 1
    <3>1. i - 1 \in 1..Len(Tail(q)) /\ (i - 1) + 1 = i
      BY <1>1, <2>3
    <3> QED BY <1>1, <2>1, <3>1 DEF Has
  <2> QED BY <2>2, <2>3
<1> QED BY <1>4, <1>5, <1>6, <1>7

\* serveWS queues a client that nobody knows yet.
LEMMA PresenceServe ==
  ASSUME TypeInv, PresenceInv, NEW c \in Clients, Connect(c) \/ QueueRegister(c)
  PROVE  PresenceInv'
<1> USE DEF PresenceInv
<1>1. UNCHANGED <<AllClients, Rooms, presence, cleanup, kickers, hubAt, hubClient, hubOld>>
  BY DEF Connect, QueueRegister, ClientFrame, hubState, redis, locals, spawned
<1>2. \A d \in Clients : d # c => served'[d] = served[d]
  BY DEF Connect, QueueRegister, TypeInv, TypeOK
<1>3. served[c] # "queued" /\ ~Has(Register, c)
  BY DEF Connect, QueueRegister, QueuedOnce
<1>4. \/ UNCHANGED Register
      \/ /\ Register' = Append(Register, c) /\ served'[c] = "queued"
  BY DEF Connect, QueueRegister, TypeInv, TypeOK
<1>5. /\ Distinct(Register') /\ \A d \in Clients : Has(Register', d) =>
           Has(Register, d) \/ (d = c /\ served'[c] = "queued")
  <2>1. Register \in Seq(Clients) /\ Distinct(Register)
    BY DEF TypeInv, TypeOK, QueuedOnce
  <2>2. CASE UNCHANGED Register
    BY <2>1, <2>2
  <2>3. CASE Register' = Append(Register, c) /\ served'[c] = "queued"
    <3>1. /\ Distinct(Append(Register, c))
          /\ \A d : Has(Append(Register, c), d) => Has(Register, d) \/ d = c
      BY <1>3, <2>1, AppendDistinct
    <3> QED BY <2>3, <3>1
  <2> QED BY <1>4, <2>2, <2>3
<1>6. QueuedOnce'
  BY <1>1, <1>2, <1>3, <1>5 DEF QueuedOnce, Registering, TypeInv, HubLocals
<1>7. \A d \in Clients : Newcomer(d)' => Newcomer(d)
  BY <1>1, <1>2, <1>3, <1>5 DEF Newcomer, Registering
<1>8. Untouched'
  BY <1>1, <1>7 DEF Untouched
<1>9. Backed'
  BY <1>1 DEF Backed, Backs
<1> QED BY <1>6, <1>8, <1>9

\* Steps that leave the enrolment alone.
LEMMA PresenceStutter ==
  ASSUME PresenceInv, UNCHANGED presenceVars
  PROVE  PresenceInv'
BY DEF PresenceInv, QueuedOnce, Untouched, Backed, Backs, Newcomer, Registering, presenceVars,
       enrolled

LEMMA PresenceQuiet ==
  ASSUME NEW c \in Clients,
         \/ PeerGone(c) \/ ReadMessage(c) \/ ReadStep(c)
         \/ WriteStep(c) \/ ListerRuns(c) \/ EvictorRuns(c) \/ ReplaySend(c)
  PROVE  UNCHANGED presenceVars
<1> USE DEF presenceVars, enrolled, ClientFrame, SpawnedFrame, hubState, redis, locals, spawned,
            pumps, chans, Crash
<1>1. CASE PeerGone(c) \/ ReadMessage(c)
  BY <1>1 DEF PeerGone, ReadMessage, ReadTo
<1>2. CASE ReadStep(c)
  BY <1>2 DEF ReadStep, ReadAnswer, ReadPush, ReadFail, ReadExit, ReadTo
<1>3. CASE WriteStep(c)
  BY <1>3 DEF WriteStep, WriteFrame, WriteClosed, WriteExit, WriteTo
<1>4. CASE ListerRuns(c) \/ EvictorRuns(c) \/ ReplaySend(c)
  BY <1>4 DEF ListerRuns, EvictorRuns, ReplaySend
<1> QED BY <1>1, <1>2, <1>3, <1>4

\* Run goes on with something that has nothing to do with newcomers.
LEMMA PresenceElsewhere ==
  ASSUME PresenceInv, UNCHANGED enrolled,
         hubAt \notin {"cleanOld", "announce", "insert", "cleanGone", "quitClean"},
         hubAt' \notin {"cleanOld", "announce", "insert", "quitClean"}
  PROVE  PresenceInv'
<1> USE DEF PresenceInv, enrolled
<1>1. QueuedOnce'
  BY DEF QueuedOnce, Registering
<1>2. \A d \in Clients : Newcomer(d)' => Newcomer(d)
  BY DEF Newcomer, Registering
<1>3. Untouched'
  BY <1>2 DEF Untouched
<1>4. Backed'
  BY DEF Backed, Backs
<1> QED BY <1>1, <1>3, <1>4

\* Run takes a client from the Register channel.
LEMMA PresenceRegister ==
  ASSUME TypeInv, PresenceInv, HubRegister
  PROVE  PresenceInv'
<1> USE DEF PresenceInv
<1> DEFINE c == Head(Register)
<1>1. /\ UNCHANGED <<AllClients, Rooms, presence, served, cleanup, kickers>>
      /\ hubAt = "select" /\ hubAt' \in {"cleanOld", "announce"} /\ hubClient' = c
      /\ Register # <<>> /\ Register' = Tail(Register)
  BY DEF HubRegister, HubTo, HubFrame, hubState, redis, pumps
<1>2. hubAt' = "cleanOld" => hubOld' = AllClients[NameOf[c]]
  BY DEF HubRegister, HubTo
<1>3. /\ Distinct(Register') /\ ~Has(Register', c) /\ Has(Register, c)
      /\ \A d : Has(Register', d) => Has(Register, d)
      /\ c \in Clients
  BY <1>1, TailDistinct, PopType, Capacities DEF QueuedOnce, TypeInv, TypeOK
<1>4. QueuedOnce'
  BY <1>1, <1>3 DEF QueuedOnce
<1>5. \A d \in Clients : Newcomer(d)' => Newcomer(d)
  BY <1>1, <1>3 DEF Newcomer
<1>6. NameOf[c] \in Users
  BY <1>3, ConstantsAssumption DEF ConstantsAssumption
<1>7. Untouched'
  BY <1>1, <1>2, <1>5, <1>6 DEF Untouched
<1>8. Backed'
  BY <1>1 DEF Backed, Backs
<1> QED BY <1>4, <1>7, <1>8

\* A caller starts the cleanup of c, and Redis forgets its user first.
LEMMA PresenceBegin ==
  ASSUME RedisMayFail = FALSE, TypeInv, PresenceInv, NEW c \in Clients, CleanBegin(c),
         UNCHANGED <<AllClients, Rooms, Register, served, hubAt, hubClient, hubOld>>,
         kickers' \subseteq kickers,
         c \in kickers \/ (hubAt \in Cleaning /\ hubOld = c)
  PROVE  PresenceInv'
<1> USE DEF PresenceInv
<1>1. /\ cleanup' = [cleanup EXCEPT ![c] = "removing"]
      /\ presence' = [presence EXCEPT ![RoomIDOf[c]] = @ \ {NameOf[c]}]
  BY DEF CleanBegin
<1>2. QueuedOnce'
  BY DEF QueuedOnce, Registering
<1>3. \A d \in Clients : Newcomer(d)' => Newcomer(d)
  BY DEF Newcomer, Registering
<1>4. \A d \in Clients : d # c => cleanup'[d] = cleanup[d]
  BY <1>1 DEF TypeInv, TypeOK
<1>5. Newcomer(c) => hubAt = "cleanGone" /\ hubOld = c
  BY DEF Untouched, Cleaning
<1>6. Untouched'
  BY <1>3, <1>4, <1>5 DEF Untouched
<1>7. Backed'
  <2> SUFFICES ASSUME NEW r \in RoomIDs, NEW u \in presence'[r]
               PROVE  \E d \in Clients : Backs(d, r, u)'
    BY DEF Backed
  <2>1. u \in presence[r] /\ ~(r = RoomIDOf[c] /\ u = NameOf[c])
    BY <1>1 DEF TypeInv, TypeOK
  <2>2. PICK d \in Clients : Backs(d, r, u)
    BY <2>1 DEF Backed
  <2>3. d # c
    BY <2>1, <2>2 DEF Backs
  <2> QED BY <1>4, <2>2, <2>3 DEF Backs
<1> QED BY <1>2, <1>6, <1>7

\* A cleanup goes on.
LEMMA PresenceCleanup ==
  ASSUME TypeInv, PresenceInv, NEW c \in Clients, CleanupStep(c)
  PROVE  PresenceInv'
<1> USE DEF PresenceInv
<1>1. CASE Crash("mapRace")
  BY <1>1, PresenceStutter DEF Crash, presenceVars, enrolled, hubState, chans, redis, locals,
     pumps, spawned
<1>2. CASE ~Crash("mapRace")
  <2>1. /\ UNCHANGED <<Register, presence, served, kickers, hubAt, hubClient, hubOld>>
        /\ cleanup[c] \in {"removing", "unsub", "closing"}
        /\ \E place \in {"unsub", "closing", "done"} : cleanup' = [cleanup EXCEPT ![c] = place]
    BY <1>2 DEF CleanupStep, CleanRemove, CleanUnsubscribe, CleanClose, CleanTo, chans, locals
  <2>2. \/ UNCHANGED <<AllClients, Rooms>>
        \/ /\ cleanup[c] = "removing"
           /\ Rooms' = [Rooms EXCEPT ![RoomIDOf[c]] = @ \ {c}]
           /\ AllClients' = [AllClients EXCEPT ![NameOf[c]] = IF @ = c THEN NoClient ELSE @]
    BY <1>2 DEF CleanupStep, CleanRemove, CleanUnsubscribe, CleanClose, hubState
  <2>3. \A u \in Users : AllClients'[u] \in {AllClients[u], NoClient}
    BY <2>2 DEF TypeInv, TypeOK
  <2>4. \A d \in Clients : d # c => cleanup'[d] = cleanup[d]
    BY <2>1 DEF TypeInv, TypeOK
  <2>5. \A d \in Clients, r \in RoomIDs :
          d \in Rooms[r] => d \in Rooms'[r] \/ (d = c /\ cleanup[c] = "removing")
    <3>1. Rooms \in [RoomIDs -> SUBSET Clients]
      BY DEF TypeInv, TypeOK
    <3>2. CASE UNCHANGED Rooms
      BY <3>2
    <3>3. CASE cleanup[c] = "removing" /\ Rooms' = [Rooms EXCEPT ![RoomIDOf[c]] = @ \ {c}]
      BY <3>1, <3>3
    <3> QED BY <2>2, <3>2, <3>3
  <2>6. QueuedOnce'
    BY <2>1 DEF QueuedOnce, Registering
  <2>7. \A d \in Clients : Newcomer(d)' => Newcomer(d)
    BY <2>1 DEF Newcomer, Registering
  <2>8. NoClient \notin Clients
    BY ConstantsAssumption DEF ConstantsAssumption
  <2>9. Untouched'
    BY <2>1, <2>3, <2>4, <2>7, <2>8 DEF Untouched
  <2>10. Backed'
    <3> SUFFICES ASSUME NEW r \in RoomIDs, NEW u \in presence'[r]
                 PROVE  \E d \in Clients : Backs(d, r, u)'
      BY DEF Backed
    <3>1. PICK d \in Clients : Backs(d, r, u)
      BY <2>1 DEF Backed
    <3> QED BY <2>1, <2>4, <2>5, <3>1 DEF Backs
  <2> QED BY <2>6, <2>9, <2>10
<1> QED BY <1>1, <1>2

\* Run comes back from cleanupClient, or looks for the next session to end.
LEMMA PresenceReturns ==
  ASSUME TypeInv, PresenceInv, HubCleanupReturns \/ HubQuitNext
  PROVE  PresenceInv'
<1> USE DEF PresenceInv
<1>1. UNCHANGED enrolled /\ UNCHANGED hubClient
  BY DEF HubCleanupReturns, HubQuitNext, HubTo, QuitTo, HubFrame, enrolled, hubState, redis, pumps
<1>2. hubAt # "insert" /\ hubAt' # "insert" /\ (Registering' => Registering)
  BY DEF HubCleanupReturns, HubQuitNext, HubTo, QuitTo, Registering, Cleaning
<1>3. hubAt = "cleanGone" => cleanup[hubOld] = "done"
  BY DEF HubCleanupReturns, HubQuitNext, OnceReturns
<1>4. hubAt' # "cleanOld" /\ (hubAt' = "quitClean" => AllClients[NameOf[hubOld']] = hubOld'
                                                      /\ hubOld' \in Clients)
  BY DEF HubCleanupReturns, HubQuitNext, HubTo, QuitTo, Unvisited, TypeInv, TypeOK
<1>5. QueuedOnce'
  BY <1>1, <1>2 DEF QueuedOnce, enrolled
<1>6. \A d \in Clients : Newcomer(d)' => Newcomer(d)
  BY <1>1, <1>2 DEF Newcomer, enrolled
<1>7. hubAt' = "quitClean" => NameOf[hubOld'] \in Users
  BY <1>4, ConstantsAssumption DEF ConstantsAssumption
<1>8. Untouched'
  BY <1>1, <1>3, <1>4, <1>6, <1>7 DEF Untouched, enrolled
<1>9. Backed'
  BY <1>1, <1>2 DEF Backed, Backs, enrolled
<1> QED BY <1>5, <1>8, <1>9

\* SAdd, and then the insertion.
LEMMA PresenceEnter ==
  ASSUME TypeInv, PresenceInv, HubAnnounce \/ HubInsert
  PROVE  PresenceInv'
<1> USE DEF PresenceInv
<1>0. hubClient \in Clients /\ RoomIDOf[hubClient] \in RoomIDs /\ NameOf[hubClient] \in Users
  BY ConstantsAssumption DEF ConstantsAssumption, HubAnnounce, HubInsert, TypeInv, HubLocals
<1>1. UNCHANGED <<Register, served, kickers, cleanup, hubClient, hubOld>>
  BY DEF HubAnnounce, HubInsert, HubTo, HubFrame, pumps
<1>2. CASE HubAnnounce
  <2>1. /\ hubAt = "announce" /\ hubAt' = "insert" /\ UNCHANGED <<AllClients, Rooms>>
        /\ \/ presence' = [presence EXCEPT ![RoomIDOf[hubClient]] = @ \cup {NameOf[hubClient]}]
           \/ UNCHANGED presence
    BY <1>2 DEF HubAnnounce, HubTo, hubState
  <2>2. QueuedOnce' /\ \A d \in Clients : Newcomer(d)' => Newcomer(d)
    BY <1>1, <2>1 DEF QueuedOnce, Newcomer, Registering
  <2>3. Untouched'
    BY <1>1, <2>1, <2>2 DEF Untouched
  <2>4. Backed'
    <3> SUFFICES ASSUME NEW r \in RoomIDs, NEW u \in presence'[r]
                 PROVE  \E d \in Clients : Backs(d, r, u)'
      BY DEF Backed
    <3>1. CASE r = RoomIDOf[hubClient] /\ u = NameOf[hubClient]
      BY <1>0, <1>1, <2>1, <3>1 DEF Backs
    <3>2. CASE u \in presence[r]
      <4>1. PICK d \in Clients : Backs(d, r, u)
        BY <3>2 DEF Backed
      <4> QED BY <1>1, <2>1, <4>1 DEF Backs
    <3> QED BY <1>0, <2>1, <3>1, <3>2 DEF TypeInv, TypeOK
  <2> QED BY <2>2, <2>3, <2>4
<1>3. CASE HubInsert
  <2>1. /\ hubAt = "insert" /\ hubAt' = "list" /\ UNCHANGED presence
        /\ AllClients' = [AllClients EXCEPT ![NameOf[hubClient]] = hubClient]
        /\ Rooms' = [Rooms EXCEPT ![RoomIDOf[hubClient]] = @ \cup {hubClient}]
    BY <1>3 DEF HubInsert, HubTo
  <2>2. QueuedOnce' /\ \A d \in Clients : Newcomer(d)' => Newcomer(d) /\ d # hubClient
    BY <1>0, <1>1, <2>1 DEF QueuedOnce, Newcomer, Registering
  <2>3. \A u \in Users : AllClients'[u] \in {AllClients[u], hubClient}
    BY <2>1 DEF TypeInv, TypeOK
  <2>4. Untouched'
    BY <1>1, <2>1, <2>2, <2>3 DEF Untouched
  <2>5. cleanup[hubClient] \in {"idle", "done"}
    BY <1>0, <2>1 DEF Untouched, Newcomer, Registering
  <2>6. hubClient \in Rooms'[RoomIDOf[hubClient]] /\ \A r \in RoomIDs : Rooms[r] \subseteq Rooms'[r]
    BY <1>0, <2>1 DEF TypeInv, TypeOK
  <2>7. Backed'
    <3> SUFFICES ASSUME NEW r \in RoomIDs, NEW u \in presence'[r]
                 PROVE  \E d \in Clients : Backs(d, r, u)'
      BY DEF Backed
    <3>1. PICK d \in Clients : Backs(d, r, u)
      BY <2>1 DEF Backed
    <3> QED BY <1>1, <2>5, <2>6, <3>1 DEF Backs
  <2> QED BY <2>2, <2>4, <2>7
<1> QED BY <1>2, <1>3

LEMMA PresenceHub ==
  ASSUME RedisMayFail = FALSE, TypeInv, PresenceInv, HubStep
  PROVE  PresenceInv'
<1>1. CASE HubCallsCleanup
  <2>1. hubOld \in Clients /\ hubAt \in Cleaning /\ CleanBegin(hubOld)
    BY <1>1 DEF HubCallsCleanup, TypeInv, HubLocals
  <2>2. UNCHANGED <<AllClients, Rooms, Register, served, hubAt, hubClient, hubOld, kickers>>
    BY <1>1 DEF HubCallsCleanup, HubTo, HubFrame, hubState, pumps
  <2> QED BY <2>1, <2>2, PresenceBegin
<1>2. CASE HubUnregister \/ HubList \/ HubPush \/ HubManage
  <2>1. /\ UNCHANGED enrolled /\ hubAt \in {"select", "list", "push", "manage"}
        /\ hubAt' \in {"cleanGone", "select", "list", "push"}
    BY <1>2 DEF HubUnregister, HubList, HubPush, HubManage, HubTo, HubFrame, enrolled, hubState, redis,
       pumps
  <2> QED BY <2>1, PresenceElsewhere
<1>3. CASE HubBroadcast
  <2>1. UNCHANGED enrolled /\ hubAt = "select" /\ hubAt' \in {"select", "persist", "private"}
    BY <1>3 DEF HubBroadcast, HubPublish, HubDeliverRoom, HubLookUpPrivate, HubDropKick,
       HubReceives, BroadcastFrame, HubFrame, enrolled, hubState, redis, pumps
  <2> QED BY <2>1, PresenceElsewhere
<1>4. CASE HubPersist \/ HubDeliverPrivate
  <2>1. /\ UNCHANGED enrolled /\ hubAt \in {"persist", "private"}
        /\ hubAt' \in {"select", "private"}
    BY <1>4 DEF HubPersist, HubDeliverPrivate, BroadcastFrame, HubFrame, enrolled, hubState,
       redis, pumps
  <2> QED BY <2>1, PresenceElsewhere
<1>5. CASE HubQuit \/ HubStop
  <2>1. /\ UNCHANGED enrolled /\ hubAt \in {"select", "quitting"}
        /\ hubAt' \in {"quitting", "stopped"}
    BY <1>5 DEF HubQuit, HubStop, QuitTo, HubFrame, enrolled, hubState, pumps
  <2> QED BY <2>1, PresenceElsewhere
<1> QED
  BY <1>1, <1>2, <1>3, <1>4, <1>5, PresenceRegister, PresenceReturns, PresenceEnter
  DEF HubStep, HubContinues

LEMMA PresenceOthers ==
  ASSUME RedisMayFail = FALSE, TypeInv, PresenceInv,
         PersistWorker \/ RedisStep \/ Stop \/ \E c \in Clients : KickerRuns(c)
  PROVE  PresenceInv'
<1>1. CASE PersistWorker \/ Stop \/ \E m \in Remote : ListenForward(m)
  BY <1>1, PresenceStutter DEF PersistWorker, Stop, ListenForward, OtherFrame, SpawnedFrame,
     presenceVars, enrolled, hubState, locals, pumps
<1>2. ASSUME NEW u \in Acks, ListenAck(u) PROVE PresenceInv'
  <2>1. /\ UNCHANGED <<AllClients, Rooms, Register, presence, served, cleanup>>
        /\ UNCHANGED <<hubAt, hubClient, hubOld>>
        /\ kickers' = kickers \cup {AllClients[u]} /\ u \in Users
    BY <1>2, ConstantsAssumption DEF ConstantsAssumption, ListenAck, OtherFrame, SpawnedFrame,
       hubState, locals, pumps
  <2>2. QueuedOnce' /\ Backed' /\ \A d \in Clients : Newcomer(d)' => Newcomer(d)
    BY <2>1 DEF PresenceInv, QueuedOnce, Backed, Backs, Newcomer, Registering
  <2>3. Untouched'
    BY <2>1, <2>2 DEF PresenceInv, Untouched
  <2> QED BY <2>2, <2>3 DEF PresenceInv
<1>3. ASSUME NEW c \in Clients, KickerRuns(c) PROVE PresenceInv'
  <2>1. /\ UNCHANGED <<AllClients, Rooms, Register, served, hubAt, hubClient, hubOld>>
        /\ kickers' \subseteq kickers /\ c \in kickers
        /\ CleanBegin(c) \/ UNCHANGED <<cleanup, presence>>
    BY <1>3 DEF KickerRuns, SpawnedFrame, hubState, locals, pumps
  <2>2. CASE CleanBegin(c)
    BY <2>1, <2>2, PresenceBegin
  <2>3. CASE UNCHANGED <<cleanup, presence>>
    <3>1. QueuedOnce' /\ Backed' /\ \A d \in Clients : Newcomer(d)' => Newcomer(d)
      BY <2>1, <2>3 DEF PresenceInv, QueuedOnce, Backed, Backs, Newcomer, Registering
    <3>2. Untouched'
      BY <2>1, <2>3, <3>1 DEF PresenceInv, Untouched
    <3> QED BY <3>1, <3>2 DEF PresenceInv
  <2> QED BY <2>1, <2>2, <2>3
<1> QED BY <1>1, <1>2, <1>3 DEF RedisStep

LEMMA PresenceInit == Init => PresenceInv
<1> SUFFICES ASSUME Init PROVE QueuedOnce /\ Untouched /\ Backed
  BY DEF PresenceInv
<1>1. NoClient \notin Clients /\ Len(<<>>) = 0
  BY ConstantsAssumption DEF ConstantsAssumption
<1>2. QueuedOnce
  BY <1>1 DEF Init, QueuedOnce, Distinct, Has, Registering
<1> QED BY <1>1, <1>2 DEF Init, Untouched, Backed

LEMMA PresenceNext ==
  ASSUME RedisMayFail = FALSE
  PROVE  TypeInv /\ PresenceInv /\ [Next]_vars => PresenceInv'
<1> SUFFICES ASSUME TypeInv, PresenceInv, [Next]_vars PROVE PresenceInv'
  OBVIOUS
<1>1. CASE UNCHANGED vars
  BY <1>1, PresenceStutter DEF vars, presenceVars, enrolled, hubState, chans, redis, locals,
     pumps, spawned
<1>2. ASSUME NEW c \in Clients, ClientStep(c) PROVE PresenceInv'
  BY <1>2, PresenceServe, PresenceQuiet, PresenceStutter, PresenceCleanup, PresenceOthers
  DEF ClientStep, SpawnedStep
<1> QED BY <1>1, <1>2, PresenceHub, PresenceOthers DEF Next

\* As long as Redis answers, whoever is listed as online in a room has an open
\* session in it, or one that Run is about to insert, or is the user of a client
\* that was inserted after its own cleanup; nothing else leaves a name listed.
THEOREM PresenceBackedHolds ==
  ASSUME RedisMayFail = FALSE
  PROVE  Spec => []PresenceBacked
<1>1. TypeInv /\ PresenceInv /\ [Next]_vars => PresenceInv'
  BY PresenceNext
<1>2. PresenceInv => PresenceBacked
  BY DEF PresenceInv, Backed, Backs, PresenceBacked, ClientsOf, Live, Entering, EarlyGone,
         SendClosed
<1> QED BY <1>1, <1>2, PresenceInit, SessionInvariant, PTL DEF Spec

-----------------------------------------------------------------------------
(***************************************************************************)
(* Who is online is listed                                                 *)
(***************************************************************************)

\* A client that Run has taken in and nobody has begun to clean up is in its
\* room.
Enrolled ==
  \A c \in Clients : ~Newcomer(c) /\ cleanup[c] = "idle" => c \in Rooms[RoomIDOf[c]]

Present(c) == Live(c) \/ Entering(c)

Unlisted(c) ==
  \E d \in ClientsOf(NameOf[c], RoomIDOf[c]) : Newcomer(d) /\ cleanup[d] # "idle"

Listed ==
  \A c \in Clients : Present(c) => NameOf[c] \in presence[RoomIDOf[c]] \/ Unlisted(c)

ListedInv == Enrolled /\ Listed

\* Most steps let nobody in, take nobody off a list and let newcomers wait.
LEMMA ListedKept ==
  ASSUME ListedInv,
         \A c \in Clients :
           /\ Newcomer(c) => Newcomer(c)'
           /\ cleanup'[c] = "idle" => cleanup[c] = "idle"
           /\ c \in Rooms[RoomIDOf[c]] /\ cleanup'[c] = "idle" => c \in Rooms'[RoomIDOf[c]]
           /\ Present(c)' => Present(c)
           /\ NameOf[c] \in presence[RoomIDOf[c]] => NameOf[c] \in presence'[RoomIDOf[c]]
  PROVE  ListedInv'
<1>1. Enrolled'
  BY DEF ListedInv, Enrolled
<1>2. Listed'
  BY DEF ListedInv, Listed, Unlisted, ClientsOf
<1> QED BY <1>1, <1>2 DEF ListedInv

LEMMA ListedStutter ==
  ASSUME ListedInv, UNCHANGED presenceVars
  PROVE  ListedInv'
BY DEF ListedInv, Enrolled, Listed, Unlisted, ClientsOf, Present, Live, Entering, Newcomer,
       Registering, presenceVars, enrolled

\* serveWS makes nobody less of a newcomer.
LEMMA ListedServe ==
  ASSUME TypeInv, PresenceInv, ListedInv, NEW c \in Clients, Connect(c) \/ QueueRegister(c)
  PROVE  ListedInv'
<1>1. /\ UNCHANGED <<Rooms, presence, cleanup, hubAt, hubClient>>
      /\ \A d \in Clients : d # c => served'[d] = served[d]
  BY DEF Connect, QueueRegister, ClientFrame, hubState, redis, locals, TypeInv, TypeOK
<1>2. \A d \in Clients : Newcomer(d) => Newcomer(d)'
  <2>1. CASE Connect(c)
    <3>1. UNCHANGED Register /\ served'[c] = "upgraded"
      BY <2>1 DEF Connect, TypeInv, TypeOK
    <3> QED BY <1>1, <3>1 DEF Newcomer, Registering
  <2>2. CASE QueueRegister(c)
    <3>1. Register' = Append(Register, c) /\ Register \in Seq(Clients)
      BY <2>2 DEF QueueRegister, TypeInv, TypeOK
    <3>2. Distinct(Register) /\ ~Has(Register, c)
      BY <2>2 DEF PresenceInv, QueuedOnce, QueueRegister
    <3>3. Has(Register', c) /\ \A d : Has(Register, d) => Has(Register', d)
      BY <3>1, <3>2, AppendDistinct, AppendProperties DEF Has
    <3> QED BY <1>1, <3>3 DEF Newcomer, Registering
  <2> QED BY <2>1, <2>2
<1>3. \A d \in Clients : Present(d)' => Present(d)
  BY <1>1 DEF Present, Live, Entering
<1> QED BY <1>1, <1>2, <1>3, ListedKept

\* The cleanup of c begins.  An open session of the same user in the same room
\* is c itself, or c is a newcomer.
LEMMA ListedBegin ==
  ASSUME TypeInv, SessionInv, ListedInv, NEW c \in Clients, CleanBegin(c),
         UNCHANGED <<AllClients, Rooms, Register, served, hubAt, hubClient>>
  PROVE  ListedInv'
<1>1. /\ cleanup[c] = "idle" /\ cleanup' = [cleanup EXCEPT ![c] = "removing"]
      /\ \/ presence' = [presence EXCEPT ![RoomIDOf[c]] = @ \ {NameOf[c]}]
         \/ UNCHANGED presence
  BY DEF CleanBegin
<1>2. /\ \A d \in Clients : d # c => cleanup'[d] = cleanup[d]
      /\ cleanup'[c] = "removing"
      /\ \A d \in Clients : Newcomer(d)' = Newcomer(d)
  BY <1>1 DEF TypeInv, TypeOK, Newcomer, Registering
<1>3. Enrolled'
  BY <1>2 DEF ListedInv, Enrolled
<1>4. ASSUME NEW d \in Clients, Present(d)'
      PROVE  NameOf[d] \in presence'[RoomIDOf[d]] \/ Unlisted(d)'
  <2>1. (Live(d) /\ d # c) \/ Entering(d)
    BY <1>2, <1>4 DEF Present, Live, Entering
  <2>2. CASE d \notin ClientsOf(NameOf[c], RoomIDOf[c])
    <3>1. NameOf[d] \in presence[RoomIDOf[d]] => NameOf[d] \in presence'[RoomIDOf[d]]
      <4>1. presence \in [RoomIDs -> SUBSET Users] /\ RoomIDOf[d] \in RoomIDs
        BY ConstantsAssumption DEF ConstantsAssumption, TypeInv, TypeOK
      <4> QED BY <1>1, <2>2, <4>1 DEF ClientsOf
    <3>2. Unlisted(d) => Unlisted(d)'
      BY <1>2 DEF Unlisted, ClientsOf
    <3> QED BY <2>1, <3>1, <3>2 DEF ListedInv, Listed, Present
  <2>3. CASE d \in ClientsOf(NameOf[c], RoomIDOf[c]) /\ Newcomer(c)
    <3>1. c \in ClientsOf(NameOf[d], RoomIDOf[d])
      BY <2>3 DEF ClientsOf
    <3> QED BY <1>2, <2>3, <3>1 DEF Unlisted, ClientsOf
  <2>4. CASE NameOf[d] = NameOf[c] /\ ~Newcomer(c)
    <3>1. AllClients[NameOf[c]] = c
      BY <1>1, <2>4 DEF ListedInv, Enrolled, SessionInv, MemberOwnsName
    <3>2. ~(Live(d) /\ d # c)
      BY <2>4, <3>1 DEF Live, SessionInv, MemberOwnsName
    <3>3. ~Entering(d)
      BY <1>1, <2>4, <3>1, ConstantsAssumption
         DEF Entering, SessionInv, NameIsFree, ConstantsAssumption
    <3> QED BY <2>1, <3>2, <3>3
  <2> QED BY <2>2, <2>3, <2>4 DEF ClientsOf
<1> QED BY <1>3, <1>4 DEF ListedInv, Listed

\* A cleanup goes on: it takes only its own client away.
LEMMA ListedCleanup ==
  ASSUME TypeInv, ListedInv, NEW c \in Clients, CleanupStep(c)
  PROVE  ListedInv'
<1>1. CASE Crash("mapRace")
  BY <1>1, ListedStutter DEF Crash, presenceVars, enrolled, hubState, chans, redis, locals,
     pumps, spawned
<1>2. CASE ~Crash("mapRace")
  <2>1. /\ UNCHANGED <<Register, presence, served, hubAt, hubClient>>
        /\ cleanup[c] # "idle"
        /\ \E place \in {"unsub", "closing", "done"} : cleanup' = [cleanup EXCEPT ![c] = place]
        /\ UNCHANGED Rooms \/ Rooms' = [Rooms EXCEPT ![RoomIDOf[c]] = @ \ {c}]
    BY <1>2 DEF CleanupStep, CleanRemove, CleanUnsubscribe, CleanClose, CleanTo, chans, locals,
       hubState
  <2>2. /\ \A d \in Clients : d # c => cleanup'[d] = cleanup[d]
        /\ cleanup'[c] # "idle"
    BY <2>1 DEF TypeInv, TypeOK
  <2>3. \A d \in Clients : d # c => (d \in Rooms'[RoomIDOf[d]] <=> d \in Rooms[RoomIDOf[d]])
    <3>1. Rooms \in [RoomIDs -> SUBSET Clients] /\ \A d \in Clients : RoomIDOf[d] \in RoomIDs
      BY ConstantsAssumption DEF ConstantsAssumption, TypeInv, TypeOK
    <3> QED BY <2>1, <3>1
  <2>4. \A d \in Clients : (Newcomer(d) => Newcomer(d)') /\ (Present(d)' => Present(d))
    BY <2>1, <2>2, <2>3 DEF Newcomer, Registering, Present, Live, Entering
  <2> QED BY <2>1, <2>2, <2>3, <2>4, ListedKept
<1> QED BY <1>1, <1>2

\* Run takes a client from the Register channel, or goes on with its session.
LEMMA ListedRegister ==
  ASSUME TypeInv, PresenceInv, ListedInv, HubRegister \/ HubCleanupReturns
  PROVE  ListedInv'
<1>1. UNCHANGED <<Rooms, presence, served, cleanup>> /\ hubAt # "insert" /\ hubAt' # "insert"
  BY DEF HubRegister, HubCleanupReturns, HubTo, HubFrame, hubState, redis, pumps, Cleaning
<1>2. \A d \in Clients : Newcomer(d) => Newcomer(d)'
  <2>1. CASE HubRegister
    <3>1. /\ hubAt = "select" /\ hubAt' \in {"cleanOld", "announce"}
          /\ hubClient' = Head(Register) /\ Register # <<>> /\ Register' = Tail(Register)
          /\ Register \in Seq(Clients) /\ Distinct(Register)
      BY <2>1 DEF HubRegister, HubTo, PresenceInv, QueuedOnce, TypeInv, TypeOK
    <3>2. \A d : Has(Register, d) => Has(Register', d) \/ d = hubClient'
      BY <3>1, TailDistinct
    <3> QED BY <1>1, <3>1, <3>2 DEF Newcomer, Registering
  <2>2. CASE HubCleanupReturns
    <3>1. UNCHANGED <<Register, hubClient>> /\ (Registering => Registering')
      BY <2>2 DEF HubCleanupReturns, HubTo, Registering, Cleaning
    <3> QED BY <1>1, <3>1 DEF Newcomer
  <2> QED BY <2>1, <2>2
<1>3. \A d \in Clients : Present(d)' => Present(d)
  BY <1>1 DEF Present, Live, Entering
<1> QED BY <1>1, <1>2, <1>3, ListedKept

\* SAdd lists the client that is about to be inserted.
LEMMA ListedAnnounce ==
  ASSUME RedisMayFail = FALSE, TypeInv, ListedInv, HubAnnounce
  PROVE  ListedInv'
<1>1. /\ UNCHANGED <<Rooms, Register, served, cleanup, hubClient>>
      /\ hubAt = "announce" /\ hubAt' = "insert"
      /\ presence' = [presence EXCEPT ![RoomIDOf[hubClient]] = @ \cup {NameOf[hubClient]}]
      /\ hubClient \in Clients /\ RoomIDOf[hubClient] \in RoomIDs
      /\ presence \in [RoomIDs -> SUBSET Users]
  BY ConstantsAssumption DEF ConstantsAssumption, HubAnnounce, HubTo, HubFrame, hubState, pumps,
     TypeInv, TypeOK, HubLocals
<1>2. \A d \in Clients : Newcomer(d)' = Newcomer(d)
  BY <1>1 DEF Newcomer, Registering
<1>3. \A d \in Clients : Present(d)' => Present(d) \/ d = hubClient
  BY <1>1 DEF Present, Live, Entering
<1>4. NameOf[hubClient] \in presence'[RoomIDOf[hubClient]]
  BY <1>1
<1>5. \A d \in Clients :
        NameOf[d] \in presence[RoomIDOf[d]] => NameOf[d] \in presence'[RoomIDOf[d]]
  BY <1>1, ConstantsAssumption DEF ConstantsAssumption
<1>6. Enrolled'
  BY <1>1, <1>2 DEF ListedInv, Enrolled
<1>7. Listed'
  BY <1>1, <1>2, <1>3, <1>4, <1>5 DEF ListedInv, Listed, Unlisted, ClientsOf
<1> QED BY <1>6, <1>7 DEF ListedInv

\* The client that was listed is inserted; nobody of its name is left.
LEMMA ListedInsert ==
  ASSUME TypeInv, SessionInv, ListedInv, HubInsert
  PROVE  ListedInv'
<1> DEFINE h == hubClient
<1>1. /\ UNCHANGED <<Register, served, presence, cleanup, hubClient>>
      /\ hubAt = "insert" /\ hubAt' = "list" /\ h \in Clients
      /\ Rooms' = [Rooms EXCEPT ![RoomIDOf[h]] = @ \cup {h}]
      /\ Rooms \in [RoomIDs -> SUBSET Clients]
      /\ RoomIDOf \in [Clients -> RoomIDs] /\ NameOf \in [Clients -> Users]
      /\ NoClient \notin Clients
  BY ConstantsAssumption DEF ConstantsAssumption, HubInsert, HubTo, HubFrame, pumps, TypeInv,
     TypeOK, HubLocals
<1>2. h \in Rooms'[RoomIDOf[h]]
      /\ \A d \in Clients : d # h => (d \in Rooms'[RoomIDOf[d]] <=> d \in Rooms[RoomIDOf[d]])
  BY <1>1
<1>3. \A d \in Clients : Newcomer(d) /\ d # h => Newcomer(d)'
  BY <1>1 DEF Newcomer, Registering
<1>4. \A d \in Clients : Live(d) => NameOf[d] # NameOf[h]
  BY <1>1 DEF Live, SessionInv, MemberOwnsName, NameIsFree
<1>5. Enrolled'
  BY <1>1, <1>2, <1>3 DEF ListedInv, Enrolled
<1>6. ASSUME NEW d \in Clients, Present(d)'
      PROVE  NameOf[d] \in presence'[RoomIDOf[d]] \/ Unlisted(d)'
  <2>1. cleanup[d] = "idle" /\ d \in Rooms'[RoomIDOf[d]]
    BY <1>1, <1>6 DEF Present, Live, Entering
  <2>2. Present(d)
    BY <1>1, <1>2, <2>1 DEF Present, Live, Entering
  <2>3. CASE NameOf[d] \in presence[RoomIDOf[d]]
    BY <1>1, <2>3
  <2>4. CASE Unlisted(d)
    <3>1. PICK e \in ClientsOf(NameOf[d], RoomIDOf[d]) : Newcomer(e) /\ cleanup[e] # "idle"
      BY <2>4 DEF Unlisted
    <3>2. e # h
      BY <1>4, <2>1, <2>2, <3>1 DEF Present, Entering, ClientsOf
    <3> QED BY <1>1, <1>3, <3>1, <3>2 DEF Unlisted, ClientsOf
  <2> QED BY <2>2, <2>3, <2>4 DEF ListedInv, Listed
<1> QED BY <1>5, <1>6 DEF ListedInv, Listed

\* Run is not registering anybody, before and after the step.
LEMMA ListedElsewhere ==
  ASSUME ListedInv, UNCHANGED enrolled, ~Registering, ~Registering'
  PROVE  ListedInv'
<1>1. \A d \in Clients : Newcomer(d)' = Newcomer(d) /\ Present(d)' = Present(d)
  BY DEF Newcomer, Registering, Present, Live, Entering, enrolled
<1> QED BY <1>1, ListedKept DEF enrolled

LEMMA ListedHub ==
  ASSUME RedisMayFail = FALSE, TypeInv, SessionInv, PresenceInv, ListedInv, HubStep
  PROVE  ListedInv'
<1>1. CASE HubCallsCleanup
  <2>1. hubOld \in Clients /\ CleanBegin(hubOld)
    BY <1>1 DEF HubCallsCleanup, TypeInv, HubLocals
  <2>2. UNCHANGED <<AllClients, Rooms, Register, served, hubAt, hubClient>>
    BY <1>1 DEF HubCallsCleanup, HubTo, HubFrame, hubState, pumps
  <2> QED BY <2>1, <2>2, ListedBegin
<1>2. CASE HubUnregister \/ HubList \/ HubPush \/ HubManage
  <2>1. UNCHANGED enrolled /\ ~Registering /\ ~Registering'
    BY <1>2 DEF HubUnregister, HubList, HubPush, HubManage, HubTo, HubFrame, enrolled, hubState,
       redis, pumps, Registering
  <2> QED BY <2>1, ListedElsewhere
<1>3. CASE HubBroadcast \/ HubPersist \/ HubDeliverPrivate
  <2>1. UNCHANGED enrolled /\ ~Registering /\ ~Registering'
    BY <1>3 DEF HubBroadcast, HubPublish, HubDeliverRoom, HubLookUpPrivate, HubDropKick,
       HubReceives, HubPersist, HubDeliverPrivate, BroadcastFrame, HubFrame, enrolled, hubState,
       redis, pumps, Registering
  <2> QED BY <2>1, ListedElsewhere
<1>4. CASE HubQuit \/ HubQuitNext \/ HubStop
  <2>1. UNCHANGED enrolled /\ ~Registering /\ ~Registering'
    BY <1>4 DEF HubQuit, HubQuitNext, HubStop, QuitTo, HubFrame, enrolled, hubState, redis, pumps,
       Registering
  <2> QED BY <2>1, ListedElsewhere
<1> QED
  BY <1>1, <1>2, <1>3, <1>4, ListedRegister, ListedAnnounce, ListedInsert
  DEF HubStep, HubContinues

LEMMA ListedNext ==
  ASSUME RedisMayFail = FALSE
  PROVE  TypeInv /\ SessionInv /\ PresenceInv /\ ListedInv /\ [Next]_vars => ListedInv'
<1> SUFFICES ASSUME TypeInv, SessionInv, PresenceInv, ListedInv, [Next]_vars PROVE ListedInv'
  OBVIOUS
<1>1. CASE UNCHANGED vars
  BY <1>1, ListedStutter DEF vars, presenceVars, enrolled, hubState, chans, redis, locals, pumps,
     spawned
<1>2. CASE PersistWorker \/ RedisStep \/ Stop
  <2>1. UNCHANGED <<Rooms, Register, presence, served, cleanup, hubAt, hubClient>>
    BY <1>2 DEF PersistWorker, RedisStep, ListenAck, ListenForward, Stop, OtherFrame,
       SpawnedFrame, hubState, locals, pumps
  <2> QED BY <2>1 DEF ListedInv, Enrolled, Listed, Unlisted, ClientsOf, Present, Live, Entering,
         Newcomer, Registering
<1>3. ASSUME NEW c \in Clients, KickerRuns(c) PROVE ListedInv'
  <2>1. /\ UNCHANGED <<AllClients, Rooms, Register, served, hubAt, hubClient>>
        /\ CleanBegin(c) \/ UNCHANGED <<cleanup, presence>>
    BY <1>3 DEF KickerRuns, SpawnedFrame, hubState, locals, pumps
  <2>2. CASE UNCHANGED <<cleanup, presence>>
    BY <2>1, <2>2 DEF ListedInv, Enrolled, Listed, Unlisted, ClientsOf, Present, Live, Entering,
       Newcomer, Registering
  <2> QED BY <2>1, <2>2, ListedBegin
<1>4. ASSUME NEW c \in Clients, ClientStep(c) PROVE ListedInv'
  BY <1>3, <1>4, ListedServe, PresenceQuiet, ListedStutter, ListedCleanup
  DEF ClientStep, SpawnedStep
<1> QED BY <1>1, <1>2, <1>4, ListedHub DEF Next

\* As long as Redis answers, an open session is listed in its room, whichever
\* goroutines clean up other sessions of its user; only the cleanup of a
\* connection that broke before it was registered unlists the name.
THEOREM OnlineListedHolds ==
  ASSUME RedisMayFail = FALSE
  PROVE  Spec => []OnlineListed
<1>1. Init => ListedInv
  BY ConstantsAssumption
     DEF ConstantsAssumption, Init, ListedInv, Enrolled, Listed, Present, Live, Entering, Newcomer
<1>2. TypeInv /\ PresenceInv /\ [Next]_vars => PresenceInv'
  BY PresenceNext
<1>3. TypeInv /\ SessionInv /\ PresenceInv /\ ListedInv /\ [Next]_vars => ListedInv'
  BY ListedNext
<1>4. ListedInv => OnlineListed
  BY DEF ListedInv, Listed, Present, Unlisted, OnlineListed
<1> QED BY <1>1, <1>2, <1>3, <1>4, PresenceInit, SessionInvariant, PTL DEF Spec
=============================================================================
