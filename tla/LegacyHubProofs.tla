--------------------------- MODULE LegacyHubProofs ---------------------------
(***************************************************************************)
(* What holds of the single-file server for every number of connections,   *)
(* names and messages, every capacity and every length of the history.     *)
(***************************************************************************)
EXTENDS LegacyHub, SequenceTheorems, TLAPS

Ids == 1..MaxMessages

\* A client without pumps was never registered, and one with pumps has a name.
\* The map holds each client under its own name.
Registry ==
  /\ \A c \in Conns : reader[c] = "off" =>
       c \notin Connected /\ c \notin closed /\ c \notin skipped /\ dropping[c] = 0
  /\ \A c \in Conns : reader[c] # "off" => name[c] \in Names
  /\ RegisteredOpen

Inv == TypeOK /\ Registry

LEMMA Bounds ==
  /\ MaxMessages \in Nat /\ BroadcastCap \in Nat /\ BroadcastCap > 0
  /\ MaxDrops \in Nat /\ MaxDrops > 0
  /\ HistoryLimit \in Nat /\ SendCap \in Nat /\ HistoryLimit <= SendCap
BY LegacyAssumption DEF LegacyAssumption

LEMMA ConnectedType ==
  ASSUME TypeOK
  PROVE  /\ Connected \subseteq Conns /\ None \notin Connected
         /\ \A n \in Names : {clients[n]} \ {None} \subseteq Connected
BY DEF TypeOK, Connected

\* Whoever is registered is found under its name, and has pumps.
LEMMA ConnectedNamed ==
  ASSUME Inv, NEW c \in Connected
  PROVE  /\ c \in Conns /\ name[c] \in Names /\ clients[name[c]] = c
         /\ c \notin closed /\ reader[c] # "off"
<1>1. c \in Conns
  BY ConnectedType DEF Inv
<1>. QED
  BY <1>1 DEF Inv, Registry, RegisteredOpen, Connected

LEMMA PushType ==
  ASSUME NEW S, NEW q \in Seq(S), NEW x \in S, NEW cap \in Nat, Len(q) < cap
  PROVE  Append(q, x) \in Seq(S) /\ Len(Append(q, x)) <= cap
OBVIOUS

LEMMA PopType ==
  ASSUME NEW S, NEW q \in Seq(S), NEW cap \in Nat, Len(q) <= cap, q # <<>>
  PROVE  Head(q) \in S /\ Tail(q) \in Seq(S) /\ Len(Tail(q)) <= cap
OBVIOUS

\* A buffer with space takes one more; what is not zero can be decreased.
LEMMA CounterType ==
  ASSUME NEW n \in Nat, NEW f \in [Conns -> 0..n], NEW c \in Conns
  PROVE  /\ f[c] < n => [f EXCEPT ![c] = @ + 1] \in [Conns -> 0..n]
         /\ f[c] > 0 => [f EXCEPT ![c] = @ - 1] \in [Conns -> 0..n]
OBVIOUS

LEMMA AppendType ==
  ASSUME NEW S, NEW s \in Seq(S), NEW x \in S
  PROVE  /\ Append(s, x) \in Seq(S) /\ Len(Append(s, x)) = Len(s) + 1
         /\ Append(s, x) # <<>> /\ Tail(Append(s, x)) \in Seq(S)
         /\ Len(Tail(Append(s, x))) = Len(s)
<1>1. Append(s, x) \in Seq(S) /\ Len(Append(s, x)) = Len(s) + 1 /\ Append(s, x) # <<>>
  BY AppendProperties
<1>. QED
  BY <1>1, HeadTailProperties

LEMMA TypedIds ==
  ASSUME TypeOK
  PROVE  history \in Seq(Ids) /\ log \in Seq(Ids) /\ got \in [Conns -> Seq(Ids)]
BY DEF TypeOK, Ids

LEMMA NoticeType == Notice \in Message
BY DEF Notice, Message

LEMMA UserListType ==
  ASSUME TypeOK
  PROVE  /\ WithUserList(broadcast) \in Seq(Message)
         /\ Len(WithUserList(broadcast)) <= BroadcastCap
BY Bounds, NoticeType, PushType DEF TypeOK, WithUserList

LEMMA CloseType ==
  ASSUME TypeOK, NEW S \in SUBSET Conns, Close(S)
  PROVE  /\ closed' \in SUBSET Conns /\ skipped' \in SUBSET Conns
         /\ process' \in {"up", "panic"}
BY DEF TypeOK, Close

LEMMA WithoutType ==
  ASSUME TypeOK, NEW S
  PROVE  Without(S) \in [Conns -> Seq(Ids)]
<1>1. <<>> \in Seq(Ids)
  OBVIOUS
<1>. QED
  BY <1>1 DEF TypeOK, Without, Ids

\* The history never exceeds its limit, and loses its oldest message only.
LEMMA RememberType ==
  ASSUME TypeOK, NEW id \in Ids
  PROVE  /\ Remember(id) \in Seq(Ids) /\ Len(Remember(id)) <= HistoryLimit
         /\ Len(Remember(id)) <= Len(history) + 1
<1>1. history \in Seq(Ids) /\ Len(history) <= HistoryLimit /\ Len(history) \in Nat
  BY TypedIds DEF TypeOK
<1>. QED
  BY <1>1, Bounds, AppendType DEF Remember

LEMMA InvInit == Init => Inv
<1>. SUFFICES ASSUME Init PROVE TypeOK /\ Registry
  BY DEF Inv
<1>0. <<>> \in Seq(Ids) /\ <<>> \in Seq(Message) /\ <<>> \in Seq(Conns) /\ Len(<<>>) = 0
  OBVIOUS
<1>1. TypeOK
  <2>1. send \in [Conns -> 0..SendCap] /\ dropping \in [Conns -> 0..MaxDrops]
    BY Bounds DEF Init
  <2>2. sent \in 0..MaxMessages /\ input \in [Conns -> Message]
    BY Bounds, NoticeType DEF Init
  <2>3. /\ history \in Seq(Ids) /\ Len(history) <= HistoryLimit
        /\ broadcast \in Seq(Message) /\ Len(broadcast) <= BroadcastCap
        /\ owed \in Seq(Conns) /\ Len(owed) <= 2
        /\ log \in Seq(Ids) /\ got \in [Conns -> Seq(Ids)]
    BY <1>0, Bounds DEF Init
  <2>. QED
    BY <2>1, <2>2, <2>3 DEF Init, TypeOK, Places, Ids
<1>2. Registry
  BY DEF Init, Registry, RegisteredOpen, Connected
<1>. QED
  BY <1>1, <1>2

-----------------------------------------------------------------------------
(***************************************************************************)
(* Types                                                                   *)
(***************************************************************************)

LEMMA RegisterTypes ==
  ASSUME Inv, NEW c \in Conns, NEW n \in NamesFor[c], Register(c, n)
  PROVE  TypeOK'
<1>. USE DEF Inv
<1>1. n \in Names
  BY LegacyAssumption DEF LegacyAssumption
<1>2. {clients[n]} \ {None} \in SUBSET Conns
  BY <1>1, ConnectedType
<1>3. /\ closed' \in SUBSET Conns /\ skipped' \in SUBSET Conns
      /\ process' \in {"up", "panic"}
  BY <1>2, CloseType DEF Register
<1>4. history \in Seq(Ids) /\ Len(history) \in 0..SendCap
  BY Bounds DEF TypeOK, Ids
<1>5. got' \in [Conns -> Seq(Ids)] /\ send' \in [Conns -> 0..SendCap]
  BY <1>4, WithoutType DEF Register, Replay, TypeOK
<1>6. broadcast' \in Seq(Message) /\ Len(broadcast') <= BroadcastCap
  BY UserListType DEF Register
<1>. QED
  BY <1>1, <1>3, <1>5, <1>6 DEF Register, TypeOK, Places, Ids

LEMMA UnregisterTypes ==
  ASSUME Inv, NEW c \in Conns, UnregisterByReader(c) \/ UnregisterByDrop(c)
  PROVE  TypeOK'
<1>. USE DEF Inv
<1>1. name[c] \in Names
  <2>1. reader[c] # "off"
    BY Bounds DEF UnregisterByReader, UnregisterByDrop, Registry
  <2>. QED
    BY <2>1 DEF Registry
<1>2. {clients[name[c]]} \ {None} \in SUBSET Conns
  BY <1>1, ConnectedType
<1>3. Unregister(c)
  BY DEF UnregisterByReader, UnregisterByDrop
<1>4. /\ closed' \in SUBSET Conns /\ skipped' \in SUBSET Conns
      /\ process' \in {"up", "panic"}
  BY <1>2, <1>3, CloseType DEF Unregister
<1>5. broadcast' \in Seq(Message) /\ Len(broadcast') <= BroadcastCap
  BY <1>3, UserListType DEF Unregister, TypeOK
<1>6. got' \in [Conns -> Seq(Ids)]
  BY <1>3, WithoutType DEF Unregister
<1>7. clients' \in [Names -> Conns \cup {None}]
  BY <1>1, <1>3 DEF Unregister, TypeOK
<1>8. broken' \in SUBSET Conns
  BY <1>2 DEF UnregisterByReader, UnregisterByDrop, TypeOK
<1>9. reader' \in [Conns -> Places] /\ dropping' \in [Conns -> 0..MaxDrops]
  <2>1. \/ UNCHANGED dropping
        \/ dropping[c] > 0 /\ dropping' = [dropping EXCEPT ![c] = @ - 1]
    BY DEF UnregisterByReader, UnregisterByDrop
  <2>2. dropping' \in [Conns -> 0..MaxDrops]
    <3>1. dropping \in [Conns -> 0..MaxDrops] /\ MaxDrops \in Nat
      BY Bounds DEF TypeOK
    <3>. QED
      BY <2>1, <3>1, CounterType
  <2>3. \/ UNCHANGED reader
        \/ \E p \in Places : reader' = [reader EXCEPT ![c] = p]
    BY DEF UnregisterByReader, UnregisterByDrop, Places
  <2>. QED
    BY <2>2, <2>3 DEF TypeOK
<1>. QED
  BY <1>3, <1>4, <1>5, <1>6, <1>7, <1>8, <1>9 DEF Unregister, TypeOK, Ids

LEMMA FanoutTypes ==
  ASSUME Inv, Fanout
  PROVE  TypeOK'
<1>. USE DEF Inv
<1> DEFINE m == Head(broadcast)
<1>1. m \in Message /\ broadcast' \in Seq(Message) /\ Len(broadcast') <= BroadcastCap
  BY Bounds, PopType DEF Fanout, TypeOK
<1>2. send' \in [Conns -> 0..SendCap]
  <2>1. \A c \in Conns : send[c] \in 0..SendCap
    BY DEF TypeOK
  <2>2. \A c \in Conns : Fits(c) => send[c] + 1 \in 0..SendCap
    BY <2>1, Bounds DEF Fits
  <2>. QED
    BY <2>1, <2>2 DEF Fanout
<1>3. dropping' \in [Conns -> 0..MaxDrops]
  <2>1. \A c \in Conns : dropping[c] \in 0..MaxDrops
    BY DEF TypeOK
  <2>2. \A c \in Conns :
          dropping[c] < MaxDrops => dropping[c] + 1 \in 0..MaxDrops
    BY <2>1, Bounds
  <2>. QED
    BY <2>1, <2>2 DEF Fanout
<1>4. CASE m.type # "chat"
  BY <1>1, <1>2, <1>3, <1>4 DEF Fanout, TypeOK
<1>5. CASE m.type = "chat"
  <2>1. m.id \in Ids
    BY <1>1, <1>5 DEF Message, Ids
  <2>2. history' \in Seq(Ids) /\ Len(history') <= HistoryLimit
    BY <1>5, <2>1, RememberType DEF Fanout
  <2>3. log' \in Seq(Ids)
    BY <1>5, <2>1, TypedIds, AppendType DEF Fanout
  <2>4. got' \in [Conns -> Seq(Ids)]
    <3>1. \A c \in Conns : got[c] \in Seq(Ids) /\ Append(got[c], m.id) \in Seq(Ids)
      BY <2>1, TypedIds, AppendType
    <3>. QED
      BY <1>5, <3>1 DEF Fanout
  <2>5. skipped' \in SUBSET Conns
    BY <1>5, ConnectedType DEF Fanout, TypeOK
  <2>. QED
    BY <1>1, <1>2, <1>3, <2>2, <2>3, <2>4, <2>5 DEF Fanout, TypeOK, Ids
<1>. QED
  BY <1>4, <1>5

LEMMA PrivateTypes ==
  ASSUME Inv, Private \/ SendOwed \/ Unknown
  PROVE  TypeOK'
<1>. USE DEF Inv
<1>1. CASE Private
  <2> DEFINE m == Head(broadcast)
  <2>1. m \in Message /\ broadcast' \in Seq(Message) /\ Len(broadcast') <= BroadcastCap
    BY <1>1, Bounds, PopType DEF Private, TypeOK
  <2>2. m.sender \in Names /\ m.target \in Names
    BY <1>1, <2>1 DEF Private, Message
  <2>3. \A n \in Names : To(n) \in Seq(Conns) /\ Len(To(n)) <= 1
    BY DEF To, TypeOK
  <2>4. owed' \in Seq(Conns) /\ Len(owed') <= 2
    <3> DEFINE t == IF m.target = m.sender THEN <<>> ELSE To(m.target)
    <3>1. To(m.sender) \in Seq(Conns) /\ Len(To(m.sender)) <= 1
      BY <2>2, <2>3
    <3>2. t \in Seq(Conns) /\ Len(t) <= 1
      BY <2>2, <2>3
    <3>3. owed' = To(m.sender) \o t
      BY <1>1 DEF Private
    <3>. HIDE DEF t
    <3>. QED
      BY <3>1, <3>2, <3>3, ConcatProperties
  <2>. QED
    BY <1>1, <2>1, <2>4 DEF Private, TypeOK, clientVars, ghosts
<1>2. CASE SendOwed
  <2>1. Head(owed) \in Conns /\ owed' \in Seq(Conns) /\ Len(owed') <= 2
    BY <1>2, PopType DEF SendOwed, TypeOK
  <2>2. send' \in [Conns -> 0..SendCap]
    BY <1>2, <2>1, Bounds, CounterType DEF SendOwed, TypeOK, Fits
  <2>. QED
    BY <1>2, <2>1, <2>2 DEF SendOwed, TypeOK, ghosts
<1>3. CASE Unknown
  <2>1. broadcast' \in Seq(Message) /\ Len(broadcast') <= BroadcastCap
    BY <1>3, Bounds, PopType DEF Unknown, TypeOK
  <2>. QED
    BY <1>3, <2>1 DEF Unknown, TypeOK, clientVars, ghosts
<1>. QED
  BY <1>1, <1>2, <1>3

LEMMA QuitTypes ==
  ASSUME Inv, Quit
  PROVE  TypeOK'
<1>. USE DEF Inv
<1>1. Connected \in SUBSET Conns
  BY ConnectedType
<1>2. /\ closed' \in SUBSET Conns /\ skipped' \in SUBSET Conns
      /\ process' \in {"up", "panic"}
  BY <1>1, CloseType DEF Quit
<1>3. got' \in [Conns -> Seq(Ids)]
  BY WithoutType DEF Quit
<1>. QED
  BY <1>1, <1>2, <1>3 DEF Quit, TypeOK, Ids

LEMMA PumpTypes ==
  ASSUME Inv, NEW c \in Conns,
         ReadPump(c) \/ WritePump(c) \/ Read(c) \/ ReadNull(c) \/ Limit(c) \/ Break(c)
  PROVE  TypeOK'
<1>. USE DEF Inv
<1>1. CASE Push(c)
  <2>1. broadcast' \in Seq(Message) /\ Len(broadcast') <= BroadcastCap
    BY <1>1, Bounds, PushType DEF Push, TypeOK
  <2>. QED
    BY <1>1, <2>1, NoticeType DEF Push, TypeOK, Places, ghosts
<1>2. CASE Reply(c)
  <2>1. send' \in [Conns -> 0..SendCap]
    BY <1>2, Bounds DEF Reply, TypeOK, Fits
  <2>. QED
    BY <1>2, <2>1 DEF Reply, TypeOK, Places, hubVars, ghosts
<1>3. CASE Write(c)
  <2>1. send' \in [Conns -> 0..SendCap]
    BY <1>3, Bounds DEF Write, TypeOK
  <2>. QED
    BY <1>3, <2>1 DEF Write, TypeOK, hubVars, ghosts
<1>4. CASE WriterEnds(c) \/ Break(c)
  BY <1>4 DEF WriterEnds, Break, TypeOK, hubVars, ghosts
<1>5. CASE Read(c)
  <2>1. input' \in [Conns -> Message] /\ sent' \in 0..MaxMessages
    BY <1>5, Bounds DEF Read, TypeOK
  <2>. QED
    BY <1>5, <2>1 DEF Read, TypeOK, Places, hubVars
<1>6. CASE Limit(c) \/ ReadNull(c)
  <2>1. sent' \in 0..MaxMessages
    BY <1>6, Bounds DEF Limit, ReadNull, TypeOK
  <2>. QED
    BY <1>6, <2>1 DEF Limit, ReadNull, TypeOK, Places, hubVars
<1>7. CASE Crash(c)
  BY <1>7 DEF Crash, TypeOK, hubVars, clientVars, ghosts
<1>. QED
  BY <1>1, <1>2, <1>3, <1>4, <1>5, <1>6, <1>7 DEF ReadPump, WritePump

LEMMA TypeStep ==
  ASSUME Inv, [Next]_vars
  PROVE  TypeOK'
<1>1. CASE Stop
  BY <1>1 DEF Stop, Inv, TypeOK, hubVars, clientVars, ghosts
<1>2. CASE UNCHANGED vars
  BY <1>2 DEF Inv, TypeOK, vars, hubVars, clientVars, ghosts
<1>. QED
  BY <1>1, <1>2, RegisterTypes, UnregisterTypes, FanoutTypes, PrivateTypes, QuitTypes, PumpTypes
  DEF Next, Run

-----------------------------------------------------------------------------
(***************************************************************************)
(* The registry                                                            *)
(***************************************************************************)

LEMMA RegisterKeeps ==
  ASSUME Inv, NEW c \in Conns, NEW n \in NamesFor[c], Register(c, n)
  PROVE  Registry'
<1> DEFINE x == {clients[n]} \ {None}
<1>1. n \in Names /\ None \notin Conns
  BY LegacyAssumption DEF LegacyAssumption
<1>2. /\ clients' = [clients EXCEPT ![n] = c] /\ name' = [name EXCEPT ![c] = n]
      /\ reader[c] = "off" /\ reader' = [reader EXCEPT ![c] = "reading"]
      /\ closed' = closed \cup x /\ skipped' = skipped \ x /\ UNCHANGED dropping
  BY DEF Register, Close
<1>3. c \notin Connected /\ c \notin closed /\ x \subseteq Connected /\ Connected \subseteq Conns
  BY <1>1, <1>2, ConnectedType DEF Inv, Registry
<1>4. \A k \in Names : k # n /\ clients[k] # None =>
        clients[k] \in Connected /\ clients[k] \notin x /\ clients[k] # c
  BY <1>1, <1>3 DEF Connected, Inv, Registry, RegisteredOpen
<1>5. RegisteredOpen'
  <2>. SUFFICES ASSUME NEW k \in Names, clients'[k] # None
                PROVE  name'[clients'[k]] = k /\ clients'[k] \notin closed'
    BY DEF RegisteredOpen
  <2>1. CASE k = n
    BY <1>1, <1>2, <1>3, <2>1 DEF Inv, TypeOK
  <2>2. CASE k # n
    <3>1. clients'[k] = clients[k] /\ clients[k] \in Conns
      BY <1>1, <1>2, <2>2 DEF Inv, TypeOK
    <3>2. name'[clients[k]] = name[clients[k]]
      BY <1>2, <1>4, <2>2, <3>1 DEF Inv, TypeOK
    <3>. QED
      BY <1>2, <1>4, <2>2, <3>1, <3>2 DEF Inv, Registry, RegisteredOpen
  <2>. QED
    BY <2>1, <2>2
<1>6. Connected' \subseteq Connected \cup {c}
  BY <1>1, <1>2 DEF Connected, Inv, TypeOK
<1>7. \A d \in Conns : d # c => reader'[d] = reader[d] /\ name'[d] = name[d]
  BY <1>2 DEF Inv, TypeOK
<1>8. reader'[c] = "reading" /\ name'[c] = n
  BY <1>2 DEF Inv, TypeOK
<1>. QED
  BY <1>1, <1>2, <1>3, <1>5, <1>6, <1>7, <1>8 DEF Inv, Registry

LEMMA UnregisterKeeps ==
  ASSUME Inv, NEW c \in Conns, UnregisterByReader(c) \/ UnregisterByDrop(c)
  PROVE  Registry'
<1> DEFINE k == name[c]
           x == {clients[k]} \ {None}
<1>1. k \in Names
  <2>1. reader[c] # "off"
    BY Bounds DEF UnregisterByReader, UnregisterByDrop, Registry, Inv
  <2>. QED
    BY <2>1 DEF Registry, Inv
<1>2. /\ clients' = [clients EXCEPT ![k] = None] /\ UNCHANGED name
      /\ closed' = closed \cup x /\ skipped' = skipped \ x
  BY DEF UnregisterByReader, UnregisterByDrop, Unregister, Close
<1>3. /\ reader[c] # "off" /\ \A d \in Conns : (reader'[d] = "off") = (reader[d] = "off")
      /\ \A d \in Conns : d # c => dropping'[d] = dropping[d]
  <2>1. reader[c] # "off"
    BY Bounds DEF UnregisterByReader, UnregisterByDrop, Registry, Inv
  <2>2. CASE UnregisterByReader(c)
    BY <2>1, <2>2 DEF UnregisterByReader, Inv, TypeOK
  <2>3. CASE UnregisterByDrop(c)
    BY <2>1, <2>3 DEF UnregisterByDrop, Inv, TypeOK
  <2>. QED
    BY <2>1, <2>2, <2>3
<1>4. x \subseteq Connected /\ Connected' \subseteq Connected
  BY <1>1, <1>2 DEF Connected, Inv, TypeOK
<1>5. RegisteredOpen'
  <2>. SUFFICES ASSUME NEW n \in Names, clients'[n] # None
                PROVE  name'[clients'[n]] = n /\ clients'[n] \notin closed'
    BY DEF RegisteredOpen
  <2>1. n # k /\ clients'[n] = clients[n]
    BY <1>1, <1>2 DEF Inv, TypeOK
  <2>2. name[clients[n]] = n /\ clients[n] \notin closed
    BY <2>1 DEF Inv, Registry, RegisteredOpen
  <2>3. clients[k] # None => name[clients[k]] = k
    BY <1>1 DEF Inv, Registry, RegisteredOpen
  <2>. QED
    BY <1>2, <2>1, <2>2, <2>3
<1>. QED
  BY <1>2, <1>3, <1>4, <1>5 DEF Inv, Registry

LEMMA FanoutKeeps ==
  ASSUME Inv, Fanout
  PROVE  Registry'
<1>1. UNCHANGED <<clients, name, reader, closed>> /\ skipped' \subseteq skipped \cup Connected
      /\ \A c \in Conns : c \notin Connected => dropping'[c] = dropping[c]
  BY DEF Fanout
<1>2. Connected' = Connected /\ RegisteredOpen'
  BY <1>1 DEF Connected, Inv, Registry, RegisteredOpen
<1>. QED
  BY <1>1, <1>2 DEF Inv, Registry

LEMMA QuitKeeps ==
  ASSUME Inv, Quit
  PROVE  Registry'
<1>1. /\ clients' = [n \in Names |-> None] /\ UNCHANGED <<name, reader, dropping>>
      /\ closed' = closed \cup Connected /\ skipped' = skipped \ Connected
  BY DEF Quit, Close
<1>2. Connected' = {} /\ RegisteredOpen'
  BY <1>1 DEF Connected, RegisteredOpen
<1>. QED
  BY <1>1, <1>2 DEF Inv, Registry

\* Steps that leave the registry alone.
Elsewhere ==
  /\ UNCHANGED <<clients, name, closed, skipped, dropping, history, log, got>>
  /\ \A c \in Conns : (reader'[c] = "off") = (reader[c] = "off")

LEMMA ElsewhereKeeps ==
  ASSUME Inv, Elsewhere
  PROVE  Registry'
<1>1. Connected' = Connected /\ RegisteredOpen'
  BY DEF Elsewhere, Connected, Inv, Registry, RegisteredOpen
<1>. QED
  BY <1>1 DEF Elsewhere, Inv, Registry

LEMMA PumpsElsewhere ==
  ASSUME Inv,
         \/ Private \/ SendOwed \/ Unknown \/ Stop \/ UNCHANGED vars
         \/ \E c \in Conns : \/ ReadPump(c) \/ WritePump(c)
                              \/ Read(c) \/ ReadNull(c) \/ Limit(c) \/ Break(c)
  PROVE  Elsewhere
<1>. USE DEF Elsewhere, Inv, TypeOK
<1>1. CASE Private \/ SendOwed \/ Unknown \/ Stop \/ UNCHANGED vars
  BY <1>1 DEF Private, SendOwed, Unknown, Stop, vars, hubVars, clientVars, ghosts
<1>2. ASSUME NEW c \in Conns, Push(c) \/ Reply(c) \/ Crash(c)
      PROVE  Elsewhere
  BY <1>2 DEF Push, Reply, Crash, hubVars, clientVars, ghosts
<1>3. ASSUME NEW c \in Conns, Read(c) \/ ReadNull(c) \/ Limit(c)
      PROVE  Elsewhere
  BY <1>3 DEF Read, ReadNull, Limit, hubVars
<1>4. ASSUME NEW c \in Conns, Write(c) \/ WriterEnds(c) \/ Break(c)
      PROVE  Elsewhere
  BY <1>4 DEF Write, WriterEnds, Break, hubVars, ghosts
<1>. QED
  BY <1>1, <1>2, <1>3, <1>4 DEF ReadPump, WritePump

LEMMA InvStep == Inv /\ [Next]_vars => Inv'
<1>. SUFFICES ASSUME Inv, [Next]_vars PROVE TypeOK' /\ Registry'
  BY DEF Inv
<1>1. TypeOK'
  BY TypeStep
<1>2. Registry'
  BY RegisterKeeps, UnregisterKeeps, FanoutKeeps, QuitKeeps, ElsewhereKeeps, PumpsElsewhere
  DEF Next, Run
<1>. QED
  BY <1>1, <1>2

LEMMA Invariance == Spec => []Inv
BY InvInit, InvStep, PTL DEF Spec

\* Every buffer of the server stays within its capacity and its history within
\* its limit.
THEOREM TypeCorrect == Spec => []TypeOK
<1>1. Inv => TypeOK
  BY DEF Inv
<1>. QED
  BY <1>1, Invariance, PTL

\* However many connections come up with the same name, replace each other and
\* are unregistered by their readers and by the goroutines that drop them, the
\* map holds open clients under their own names.
THEOREM RegisteredOpenHolds == Spec => []RegisteredOpen
<1>1. Inv => RegisteredOpen
  BY DEF Inv, Registry
<1>. QED
  BY <1>1, Invariance, PTL

-----------------------------------------------------------------------------
(***************************************************************************)
(* The replay and the live messages                                        *)
(***************************************************************************)

\* s is the end of l.
EndOf(s, l) ==
  /\ Len(s) <= Len(l)
  /\ \A i \in 1..Len(s) : s[i] = l[Len(l) - Len(s) + i]

LEMMA EndIsRecent ==
  ASSUME TypeOK, NEW s \in Seq(Ids), EndOf(s, log)
  PROVE  s = Recent(s)
<1> DEFINE n == Len(log) - Len(s)
<1>1. log \in Seq(Ids) /\ Len(log) \in Nat /\ Len(s) \in Nat /\ n \in Nat
      /\ n + Len(s) = Len(log)
  BY TypedIds DEF EndOf
<1>2. \A i \in 1..Len(s) : n + i \in 1..Len(log)
  BY <1>1
<1>3. SubSeq(log, n + 1, Len(log)) = [i \in 1..Len(s) |-> log[n + i]]
  BY <1>1
<1>4. s = [i \in 1..Len(s) |-> s[i]]
  OBVIOUS
<1>. QED
  BY <1>3, <1>4 DEF EndOf, Recent

\* Both ends grow by the same message.
LEMMA EndGrows ==
  ASSUME NEW s \in Seq(Ids), NEW l \in Seq(Ids), NEW id \in Ids, EndOf(s, l)
  PROVE  EndOf(Append(s, id), Append(l, id))
<1> DEFINE t == Append(s, id)
           k == Append(l, id)
<1>1. /\ Len(t) = Len(s) + 1 /\ Len(k) = Len(l) + 1 /\ Len(s) \in Nat /\ Len(l) \in Nat
      /\ Len(s) <= Len(l)
  BY AppendProperties DEF EndOf
<1>2. /\ \A i \in 1..Len(s) : t[i] = s[i] /\ t[Len(s) + 1] = id
      /\ \A i \in 1..Len(l) : k[i] = l[i]
      /\ k[Len(l) + 1] = id /\ t[Len(s) + 1] = id
  BY AppendProperties
<1>3. ASSUME NEW i \in 1..Len(t)
      PROVE  t[i] = k[Len(k) - Len(t) + i]
  <2>. HIDE DEF t, k
  <2>1. Len(k) - Len(t) + i = Len(l) - Len(s) + i
    BY <1>1
  <2>2. CASE i \in 1..Len(s)
    <3>1. Len(l) - Len(s) + i \in 1..Len(l)
      BY <1>1, <2>2
    <3>. QED
      BY <1>2, <2>1, <2>2, <3>1 DEF EndOf
  <2>3. CASE i = Len(s) + 1
    <3>1. Len(l) - Len(s) + i = Len(l) + 1
      BY <1>1, <2>3
    <3>. QED
      BY <1>2, <2>1, <2>3, <3>1
  <2>. QED
    BY <1>1, <2>2, <2>3
<1>4. Len(t) <= Len(k)
  BY <1>1
<1>. QED
  BY <1>3, <1>4, Zenon DEF EndOf

\* The end of an end is an end.
LEMMA TailIsEnd ==
  ASSUME NEW s \in Seq(Ids), NEW l \in Seq(Ids), EndOf(s, l), s # <<>>
  PROVE  EndOf(Tail(s), l)
<1>1. /\ Len(Tail(s)) = Len(s) - 1 /\ Len(s) \in Nat /\ Len(l) \in Nat /\ Len(s) > 0
      /\ Len(s) <= Len(l) /\ \A i \in 1..Len(Tail(s)) : Tail(s)[i] = s[i + 1]
  BY HeadTailProperties DEF EndOf
<1>2. ASSUME NEW i \in 1..Len(Tail(s))
      PROVE  Tail(s)[i] = l[Len(l) - Len(Tail(s)) + i]
  <2>1. i + 1 \in 1..Len(s) /\ Len(l) - Len(Tail(s)) + i = Len(l) - Len(s) + (i + 1)
    BY <1>1
  <2>. QED
    BY <1>1, <2>1 DEF EndOf
<1>. QED
  BY <1>1, <1>2 DEF EndOf

LEMMA RememberIsEnd ==
  ASSUME TypeOK, EndOf(history, log), NEW id \in Ids
  PROVE  EndOf(Remember(id), Append(log, id))
<1>1. history \in Seq(Ids) /\ log \in Seq(Ids)
  BY TypedIds
<1>2. EndOf(Append(history, id), Append(log, id))
  BY <1>1, EndGrows
<1>3. Append(history, id) \in Seq(Ids) /\ Append(log, id) \in Seq(Ids) /\ Append(history, id) # <<>>
  BY <1>1, AppendType
<1>4. EndOf(Tail(Append(history, id)), Append(log, id))
  BY <1>2, <1>3, TailIsEnd
<1>. QED
  BY <1>2, <1>4 DEF Remember

\* The messages that registered client c was given reach from the history, or
\* before it, to now, or c is about to be dropped.
Served(c) ==
  \/ c \in skipped /\ dropping[c] > 0
  \/ c \notin skipped /\ EndOf(got[c], log) /\ Len(got[c]) >= Len(history)

Gapless == EndOf(history, log) /\ \A c \in Connected : Served(c)

LEMMA FanoutServes ==
  ASSUME Inv, Gapless, Fanout
  PROVE  Gapless'
<1> DEFINE m == Head(broadcast)
<1>1. Connected' = Connected /\ Connected \subseteq Conns
  BY ConnectedType DEF Fanout, Connected, Inv
<1>2. \A c \in Conns : /\ dropping[c] > 0 => dropping'[c] > 0
                       /\ c \in Connected /\ ~Fits(c) => dropping'[c] > 0
  BY Bounds DEF Fanout, Inv, TypeOK
<1>3. CASE m.type # "chat"
  <2>1. UNCHANGED <<history, log, got, skipped>>
    BY <1>3 DEF Fanout
  <2>. QED
    BY <1>1, <1>2, <2>1 DEF Gapless, Served
<1>4. CASE m.type = "chat"
  <2>1. m.id \in Ids
    <3>1. m \in Message
      BY Bounds, PopType DEF Fanout, Inv, TypeOK
    <3>. QED
      BY <1>4, <3>1 DEF Message, Ids
  <2>2. /\ history' = Remember(m.id) /\ log' = Append(log, m.id)
        /\ skipped' = skipped \cup {c \in Connected : ~Fits(c)}
    BY <1>4 DEF Fanout
  <2>3. \A c \in Connected : Fits(c) => got'[c] = Append(got[c], m.id)
    BY <1>1, <1>4 DEF Fanout
  <2>4. EndOf(history', log')
    BY <2>1, <2>2, RememberIsEnd DEF Inv, Gapless
  <2>5. ASSUME NEW c \in Connected
        PROVE  Served(c)'
    <3>1. CASE c \in skipped \/ ~Fits(c)
      BY <1>1, <1>2, <2>2, <2>5, <3>1 DEF Gapless, Served
    <3>2. CASE c \notin skipped /\ Fits(c)
      <4>1. EndOf(got[c], log) /\ Len(got[c]) >= Len(history)
        BY <3>2 DEF Gapless, Served
      <4>2. got[c] \in Seq(Ids) /\ log \in Seq(Ids) /\ history \in Seq(Ids)
        BY <1>1, TypedIds DEF Inv
      <4>3. EndOf(got'[c], log')
        BY <2>1, <2>2, <2>3, <3>2, <4>1, <4>2, EndGrows
      <4>4. Len(got'[c]) >= Len(history')
        BY <2>1, <2>2, <2>3, <3>2, <4>1, <4>2, AppendType, RememberType DEF Inv
      <4>. QED
        BY <2>2, <3>2, <4>3, <4>4 DEF Served
    <3>. QED
      BY <3>1, <3>2
  <2>. QED
    BY <1>1, <2>4, <2>5 DEF Gapless
<1>. QED
  BY <1>3, <1>4

LEMMA RegisterServes ==
  ASSUME Inv, Inv', Gapless, NEW c \in Conns, NEW n \in NamesFor[c], Register(c, n)
  PROVE  Gapless'
<1> DEFINE x == {clients[n]} \ {None}
<1>1. n \in Names
  BY LegacyAssumption DEF LegacyAssumption
<1>2. /\ reader[c] = "off" /\ skipped' = skipped \ x /\ closed' = closed \cup x
      /\ got' = [Without(x) EXCEPT ![c] = history] /\ clients' = [clients EXCEPT ![n] = c]
      /\ UNCHANGED <<history, log, dropping>>
  BY DEF Register, Close, Replay
<1>3. got'[c] = history /\ \A d \in Conns : d # c /\ d \notin x => got'[d] = got[d]
  BY <1>2 DEF Without
<1>4. c \notin skipped
  BY <1>2 DEF Inv, Registry
<1>5. ASSUME NEW d \in Connected'
      PROVE  Served(d)'
  <2>1. d \in Conns /\ d \notin closed'
    BY <1>5 DEF Inv, TypeOK, Registry, RegisteredOpen, Connected
  <2>2. CASE d = c
    <3>1. Len(history) \in Nat
      BY TypedIds DEF Inv
    <3>. QED
      BY <1>2, <1>3, <1>4, <2>2, <3>1 DEF Served, Gapless
  <2>3. CASE d # c
    <3>1. d \in Connected /\ d \notin x
      BY <1>1, <1>2, <2>1, <2>3 DEF Connected, Inv, TypeOK
    <3>. QED
      BY <1>2, <1>3, <2>1, <2>3, <3>1 DEF Served, Gapless
  <2>. QED
    BY <2>2, <2>3
<1>. QED
  BY <1>2, <1>5 DEF Gapless

\* A client that is dropped is no longer registered, so nobody else's goroutine
\* is used up for it.
LEMMA UnregisterServes ==
  ASSUME Inv, Inv', Gapless, NEW c \in Conns, UnregisterByReader(c) \/ UnregisterByDrop(c)
  PROVE  Gapless'
<1> DEFINE k == name[c]
           x == {clients[k]} \ {None}
<1>1. k \in Names
  <2>1. reader[c] # "off"
    BY Bounds DEF UnregisterByReader, UnregisterByDrop, Registry, Inv
  <2>. QED
    BY <2>1 DEF Registry, Inv
<1>2. /\ clients' = [clients EXCEPT ![k] = None] /\ UNCHANGED <<name, history, log>>
      /\ closed' = closed \cup x /\ skipped' = skipped \ x /\ got' = Without(x)
  BY DEF UnregisterByReader, UnregisterByDrop, Unregister, Close
<1>3. \A d \in Conns : d # c => dropping'[d] = dropping[d]
  BY DEF UnregisterByReader, UnregisterByDrop, Inv, TypeOK
<1>4. ASSUME NEW d \in Connected'
      PROVE  Served(d)'
  <2>1. d \in Conns /\ d \notin closed' /\ clients'[name'[d]] = d /\ d # None
    BY <1>4 DEF Inv, TypeOK, Registry, RegisteredOpen, Connected
  <2>2. d # c
    BY <1>1, <1>2, <2>1 DEF Inv, TypeOK
  <2>3. d \in Connected /\ d \notin x
    BY <1>1, <1>2, <1>4, <2>1 DEF Connected, Inv, TypeOK
  <2>4. got'[d] = got[d]
    BY <1>2, <2>1, <2>3 DEF Without
  <2>. QED
    BY <1>2, <1>3, <2>1, <2>2, <2>3, <2>4 DEF Served, Gapless
<1>. QED
  BY <1>2, <1>4 DEF Gapless

LEMMA GaplessStep == Inv /\ Inv' /\ Gapless /\ [Next]_vars => Gapless'
<1>. SUFFICES ASSUME Inv, Inv', Gapless, [Next]_vars PROVE Gapless'
  OBVIOUS
<1>1. CASE Quit
  BY <1>1 DEF Quit, Gapless, Connected
<1>2. CASE Elsewhere
  BY <1>2 DEF Elsewhere, Gapless, Connected, Served
<1>. QED
  BY <1>1, <1>2, FanoutServes, RegisterServes, UnregisterServes, PumpsElsewhere DEF Next, Run

LEMMA GaplessInit == Init => Gapless
BY DEF Init, Gapless, EndOf, Connected

\* For every capacity and every length of the history, the replay and the live
\* messages leave no gap and repeat nothing for a registered client, unless its
\* buffer was full, and then a goroutine is about to drop it.
THEOREM GaplessOrDroppedHolds == Spec => []GaplessOrDropped
<1>1. Inv /\ Gapless => GaplessOrDropped
  <2>. SUFFICES ASSUME Inv, Gapless PROVE GaplessOrDropped
    OBVIOUS
  <2>1. \A s \in Seq(Ids) : EndOf(s, log) => s = Recent(s)
    BY EndIsRecent DEF Inv
  <2>2. history = Recent(history)
    BY <2>1, TypedIds DEF Inv, Gapless
  <2>3. ASSUME NEW c \in Connected, c \notin skipped
        PROVE  got[c] = Recent(got[c]) /\ Len(got[c]) >= Len(history)
    <3>1. EndOf(got[c], log) /\ Len(got[c]) >= Len(history) /\ got[c] \in Seq(Ids)
      BY <2>3, ConnectedType, TypedIds DEF Inv, Gapless, Served
    <3>. QED
      BY <2>1, <3>1
  <2>4. \A c \in Connected : c \in skipped => dropping[c] > 0
    BY DEF Gapless, Served
  <2>. QED
    BY <2>2, <2>3, <2>4 DEF GaplessOrDropped
<1>. QED
  BY <1>1, GaplessInit, GaplessStep, Invariance, PTL DEF Spec
=============================================================================
