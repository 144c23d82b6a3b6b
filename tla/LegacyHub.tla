----------------------------- MODULE LegacyHub -----------------------------
(***************************************************************************)
(* The single-file server of legacy/challenge-7/chat.go: one goroutine     *)
(* Run that owns the clients and the history, and two pumps per            *)
(* connection.  register and unregister are unbuffered, so a send on them  *)
(* and the case of Run that receives it are one step.                      *)
(*                                                                         *)
(* What ReadMessage returns, the limiter's verdict, the moment a           *)
(* connection breaks and SIGTERM are the environment's.  A chat message is *)
(* a number; a system message, a list of users and a reprimand are all     *)
(* notices.  send is a counter: what was put into it is in got.            *)
(***************************************************************************)
EXTENDS Integers, Sequences, FiniteSets

CONSTANTS
  Conns,         \* connections, each with its *Client
  Names,
  NamesFor,      \* what generateRandomName may come up with for each connection
  None,          \* no client
  MaxMessages,   \* bound: how many messages clients send
  BroadcastCap,  \* capacity of broadcast, 256 in the code
  SendCap,       \* capacity of send, 256
  HistoryLimit,  \* 20
  MaxDrops       \* bound: goroutines that wait to drop one client

ASSUME LegacyAssumption ==
  /\ MaxMessages \in Nat /\ BroadcastCap \in Nat \ {0} /\ MaxDrops \in Nat \ {0}
  /\ HistoryLimit \in Nat /\ SendCap \in Nat /\ HistoryLimit <= SendCap
  /\ None \notin Conns /\ NamesFor \in [Conns -> SUBSET Names]

\* TypeSystem and TypeUserList are notices; the client may ask for any type.
Message ==
  [type : {"chat"}, id : 1..MaxMessages] \cup [type : {"notice", "unknown"}]
  \cup [type : {"private"}, sender : Names, target : Names]

Notice == [type |-> "notice"]

VARIABLES
  (* Hub *)
  clients,    \* name -> client
  history,    \* the last chat messages
  broadcast,  \* the channel
  owed,       \* clients that Run still has to send a private message to
  quit,       \* the channel is closed
  process,    \* "up" or "panic"
  (* Client *)
  name,
  send,       \* how many messages wait in the channel
  closed,     \* clients whose send is closed
  broken,     \* clients whose conn is closed
  reader,     \* where readPump is
  writer,     \* where writePump is
  input,      \* what readPump is about to broadcast
  dropping,   \* goroutines that Run has started to drop the client
  (* history *)
  sent,       \* how many messages clients have sent
  log,        \* the chat messages in the order Run handled them
  got,        \* registered client -> the chat messages that were put into its send
  skipped     \* registered clients whose send was full when a chat message came

hubVars    == <<clients, history, broadcast, owed>>
clientVars == <<name, send, closed, broken, reader, writer, input, dropping>>
ghosts     == <<sent, log, got, skipped>>
vars       == <<hubVars, quit, process, clientVars, ghosts>>

\* "panicking": readPump has panicked and runs its deferred function, "crash": it
\* has run it.
Places == {"off", "reading", "push", "reply", "over", "panicking", "crash"}

TypeOK ==
  /\ clients \in [Names -> Conns \cup {None}]
  /\ history \in Seq(1..MaxMessages) /\ Len(history) <= HistoryLimit
  /\ broadcast \in Seq(Message) /\ Len(broadcast) <= BroadcastCap
  /\ owed \in Seq(Conns) /\ Len(owed) <= 2
  /\ quit \in BOOLEAN /\ process \in {"up", "panic"}
  /\ name \in [Conns -> Names \cup {None}]
  /\ send \in [Conns -> 0..SendCap]
  /\ closed \in SUBSET Conns /\ broken \in SUBSET Conns /\ skipped \in SUBSET Conns
  /\ reader \in [Conns -> Places] /\ writer \in [Conns -> {"off", "on", "over"}]
  /\ input \in [Conns -> Message]
  /\ dropping \in [Conns -> 0..MaxDrops]
  /\ sent \in 0..MaxMessages
  /\ log \in Seq(1..MaxMessages) /\ got \in [Conns -> Seq(1..MaxMessages)]

Init ==
  /\ clients = [n \in Names |-> None] /\ history = <<>> /\ broadcast = <<>> /\ owed = <<>>
  /\ quit = FALSE /\ process = "up"
  /\ name = [c \in Conns |-> None]
  /\ send = [c \in Conns |-> 0] /\ closed = {} /\ broken = {}
  /\ reader = [c \in Conns |-> "off"] /\ writer = [c \in Conns |-> "off"]
  /\ input = [c \in Conns |-> Notice] /\ dropping = [c \in Conns |-> 0]
  /\ sent = 0 /\ log = <<>> /\ got = [c \in Conns |-> <<>>] /\ skipped = {}

-----------------------------------------------------------------------------
(***************************************************************************)
(* Run                                                                     *)
(***************************************************************************)

\* Run is at its select.
Selecting == process = "up" /\ owed = <<>>

Connected == {clients[n] : n \in Names} \ {None}

\* broadcastUserList, which skips the list when the channel is full.
WithUserList(queue) ==
  IF Len(queue) < BroadcastCap THEN Append(queue, Notice) ELSE queue

\* close(c.send); a second time it panics.
Close(S) ==
  /\ closed' = closed \cup S
  /\ process' = IF S \cap closed = {} THEN process ELSE "panic"
  /\ skipped' = skipped \ S

\* What clients in S were given is no longer looked at.
Without(S) == [c \in Conns |-> IF c \in S THEN <<>> ELSE got[c]]

\* Mutant: a newcomer is not shown the history.
ReplayMutant == <<>>

\* The messages that a newcomer is sent first.
Replay == history

\* serveWS: case client := <-h.register of Run, and the pumps.
Register(c, n) ==
  LET x == {clients[n]} \ {None} IN
  /\ Selecting /\ reader[c] = "off"
  /\ name' = [name EXCEPT ![c] = n]
  /\ Close(x)
  /\ send' = [send EXCEPT ![c] = Len(Replay)]
  /\ got' = [Without(x) EXCEPT ![c] = Replay]
  /\ clients' = [clients EXCEPT ![n] = c]
  /\ broadcast' = WithUserList(broadcast)
  /\ reader' = [reader EXCEPT ![c] = "reading"]
  /\ writer' = [writer EXCEPT ![c] = "on"]
  /\ UNCHANGED <<history, owed, quit, broken, input, dropping, sent, log>>

\* Mutant: the client stays in the map.
UnregisterMutant(c) ==
  LET x == {clients[name[c]]} \ {None} IN
  /\ Close(x)
  /\ broadcast' = WithUserList(broadcast)
  /\ got' = Without(x)
  /\ UNCHANGED <<clients, history, owed, quit, name, send, writer, input, sent, log>>

\* case client := <-h.unregister.  cleanupClient looks the client up by its name.
Unregister(c) ==
  LET x == {clients[name[c]]} \ {None} IN
  /\ Close(x)
  /\ clients' = [clients EXCEPT ![name[c]] = None]
  /\ broadcast' = IF x = {} THEN broadcast ELSE WithUserList(broadcast)
  /\ got' = Without(x)
  /\ UNCHANGED <<history, owed, quit, name, send, writer, input, sent, log>>

\* Mutant: readPump only closes its connection.
UnregisterByReaderMutant(c) ==
  /\ Selecting /\ reader[c] = "reading" /\ c \in broken
  /\ reader' = [reader EXCEPT ![c] = "over"]
  /\ UNCHANGED <<hubVars, quit, process, name, send, closed, broken, writer, input, dropping,
                 ghosts>>

\* ReadMessage fails or readPump panics, and it runs its deferred function.
UnregisterByReader(c) ==
  /\ Selecting
  /\ (reader[c] = "reading" /\ c \in broken) \/ reader[c] = "panicking"
  /\ Unregister(c)
  /\ broken' = broken \cup {c} \cup ({clients[name[c]]} \ {None})
  /\ reader' = [reader EXCEPT ![c] = IF @ = "panicking" THEN "crash" ELSE "over"]
  /\ UNCHANGED dropping

\* The goroutine that drops a slow client.
UnregisterByDrop(c) ==
  /\ Selecting /\ dropping[c] > 0
  /\ Unregister(c)
  /\ broken' = broken \cup ({clients[name[c]]} \ {None})
  /\ dropping' = [dropping EXCEPT ![c] = @ - 1]
  /\ UNCHANGED reader

Fits(c) == send[c] < SendCap

\* Mutant: the limit is looked at before the message is appended.
RememberMutant(id) ==
  IF Len(history) > HistoryLimit THEN Append(Tail(history), id) ELSE Append(history, id)

\* history = append(history, m), and the first one goes.
Remember(id) ==
  LET longer == Append(history, id) IN
  IF Len(longer) > HistoryLimit THEN Tail(longer) ELSE longer

\* case message := <-h.broadcast, for everybody.
Fanout ==
  LET m == Head(broadcast) IN
  /\ Selecting /\ broadcast # <<>> /\ m.type \in {"chat", "notice"}
  /\ \A c \in Connected : ~Fits(c) => dropping[c] < MaxDrops
  /\ broadcast' = Tail(broadcast)
  /\ send' = [c \in Conns |-> IF c \in Connected /\ Fits(c) THEN send[c] + 1
                              ELSE send[c]]
  /\ dropping' = [c \in Conns |-> IF c \in Connected /\ ~Fits(c) THEN dropping[c] + 1
                                  ELSE dropping[c]]
  /\ \/ /\ m.type = "chat"
        /\ history' = Remember(m.id)
        /\ log' = Append(log, m.id)
        /\ got' = [c \in Conns |-> IF c \in Connected /\ Fits(c) THEN Append(got[c], m.id)
                                   ELSE got[c]]
        /\ skipped' = skipped \cup {c \in Connected : ~Fits(c)}
     \/ m.type # "chat" /\ UNCHANGED <<history, log, got, skipped>>
  /\ UNCHANGED <<clients, owed, quit, process, name, closed, broken, reader, writer, input, sent>>

\* Who is registered with name n.
To(n) == IF clients[n] = None THEN <<>> ELSE <<clients[n]>>

\* A private message goes to its sender and to its target, and Run waits for room.
Private ==
  LET m == Head(broadcast) IN
  /\ Selecting /\ broadcast # <<>> /\ m.type = "private"
  /\ broadcast' = Tail(broadcast)
  /\ owed' = To(m.sender) \o (IF m.target = m.sender THEN <<>> ELSE To(m.target))
  /\ UNCHANGED <<clients, history, quit, process, clientVars, ghosts>>

SendOwed ==
  LET c == Head(owed) IN
  /\ process = "up" /\ owed # <<>>
  /\ c \in closed \/ Fits(c)
  /\ process' = IF c \in closed THEN "panic" ELSE process
  /\ send' = IF c \in closed THEN send ELSE [send EXCEPT ![c] = @ + 1]
  /\ owed' = Tail(owed)
  /\ UNCHANGED <<clients, history, broadcast, quit, name, closed, broken, reader, writer,
                 input, dropping, ghosts>>

Unknown ==
  /\ Selecting /\ broadcast # <<>> /\ Head(broadcast).type = "unknown"
  /\ broadcast' = Tail(broadcast)
  /\ UNCHANGED <<clients, history, owed, quit, process, clientVars, ghosts>>

\* case <-h.quit.  Run does not return: it comes back here as long as main sleeps.
Quit ==
  /\ Selecting /\ quit /\ Connected # {}
  /\ Close(Connected)
  /\ clients' = [n \in Names |-> None]
  /\ broken' = broken \cup Connected
  /\ got' = Without(Connected)
  /\ UNCHANGED <<history, broadcast, owed, quit, name, send, reader, writer, input, dropping,
                 sent, log>>

-----------------------------------------------------------------------------
(***************************************************************************)
(* readPump                                                                *)
(***************************************************************************)

\* The limiter lets the message through.  /help makes a chat message a notice.
Read(c) ==
  /\ process = "up" /\ reader[c] = "reading" /\ c \notin broken /\ sent < MaxMessages
  /\ \E m \in Message :
       /\ m.type = "chat" => m.id = sent + 1
       /\ m.type = "private" => m.sender = name[c]
       /\ input' = [input EXCEPT ![c] = m]
  /\ sent' = sent + 1
  /\ reader' = [reader EXCEPT ![c] = "push"]
  /\ UNCHANGED <<hubVars, quit, process, name, send, closed, broken, writer, dropping, log,
                 got, skipped>>

\* The JSON value null: Unmarshal makes payload nil and the next line reads its Type.
ReadNull(c) ==
  /\ process = "up" /\ reader[c] = "reading" /\ c \notin broken /\ sent < MaxMessages
  /\ sent' = sent + 1
  /\ reader' = [reader EXCEPT ![c] = "panicking"]
  /\ UNCHANGED <<hubVars, quit, process, name, send, closed, broken, writer, input, dropping,
                 log, got, skipped>>

\* A panic that nobody recovers ends the process.
Crash(c) ==
  /\ process = "up" /\ reader[c] = "crash"
  /\ process' = "panic"
  /\ UNCHANGED <<hubVars, quit, clientVars, ghosts>>

\* The limiter does not.
Limit(c) ==
  /\ process = "up" /\ reader[c] = "reading" /\ c \notin broken /\ sent < MaxMessages
  /\ sent' = sent + 1
  /\ reader' = [reader EXCEPT ![c] = "reply"]
  /\ UNCHANGED <<hubVars, quit, process, name, send, closed, broken, writer, input, dropping,
                 log, got, skipped>>

Push(c) ==
  /\ process = "up" /\ reader[c] = "push" /\ Len(broadcast) < BroadcastCap
  /\ broadcast' = Append(broadcast, input[c])
  /\ reader' = [reader EXCEPT ![c] = "reading"]
  /\ input' = [input EXCEPT ![c] = Notice]
  /\ UNCHANGED <<clients, history, owed, quit, process, name, send, closed, broken, writer,
                 dropping, ghosts>>

\* c.send <- p, which panics on a channel that Run has closed.
Reply(c) ==
  /\ process = "up" /\ reader[c] = "reply" /\ (c \in closed \/ Fits(c))
  /\ send' = IF c \in closed THEN send ELSE [send EXCEPT ![c] = @ + 1]
  /\ reader' = [reader EXCEPT ![c] = IF c \in closed THEN "panicking" ELSE "reading"]
  /\ UNCHANGED <<hubVars, quit, process, name, closed, broken, writer, input, dropping, ghosts>>

-----------------------------------------------------------------------------
(***************************************************************************)
(* writePump, and the world                                                *)
(***************************************************************************)

\* A message is written, or the write fails.
Write(c) ==
  /\ process = "up" /\ writer[c] = "on" /\ send[c] > 0
  /\ send' = [send EXCEPT ![c] = @ - 1]
  /\ writer' = IF c \in broken THEN [writer EXCEPT ![c] = "over"] ELSE writer
  /\ UNCHANGED <<hubVars, quit, process, name, closed, broken, reader, input, dropping, ghosts>>

\* send is closed and drained, or a ping fails.
WriterEnds(c) ==
  /\ process = "up" /\ writer[c] = "on"
  /\ (c \in closed /\ send[c] = 0) \/ c \in broken
  /\ writer' = [writer EXCEPT ![c] = "over"]
  /\ broken' = broken \cup {c}
  /\ UNCHANGED <<hubVars, quit, process, name, send, closed, reader, input, dropping, ghosts>>

\* The peer goes away, or is too slow for a deadline.
Break(c) ==
  /\ process = "up" /\ writer[c] = "on" /\ c \notin broken
  /\ broken' = broken \cup {c}
  /\ UNCHANGED <<hubVars, quit, process, name, send, closed, reader, writer, input, dropping,
                 ghosts>>

\* SIGTERM: main closes quit.  A second later it returns, which may cut a
\* behaviour short anywhere; the model lets it go on.
Stop ==
  /\ process = "up" /\ ~quit
  /\ quit' = TRUE
  /\ UNCHANGED <<hubVars, process, clientVars, ghosts>>

Run ==
  \/ \E c \in Conns : UnregisterByReader(c) \/ UnregisterByDrop(c)
  \/ Fanout \/ Private \/ SendOwed \/ Unknown \/ Quit

ReadPump(c)  == Push(c) \/ Reply(c) \/ Crash(c)
WritePump(c) == Write(c) \/ WriterEnds(c)

Next ==
  \/ Run
  \/ \E c \in Conns :
       \/ ReadPump(c) \/ WritePump(c) \/ Read(c) \/ ReadNull(c) \/ Limit(c) \/ Break(c)
       \/ \E n \in NamesFor[c] : Register(c, n)
  \/ Stop

\* The three kinds of goroutines go on when they can.  Nothing makes a peer speak
\* or leave.
Fairness ==
  /\ WF_vars(Run)
  /\ \A c \in Conns : WF_vars(ReadPump(c)) /\ WF_vars(WritePump(c))

Spec == Init /\ [][Next]_vars /\ Fairness
-----------------------------------------------------------------------------
(***************************************************************************)
(* Properties                                                              *)
(***************************************************************************)

\* Whatever connections with the same name replace and unregister each other, a
\* client that is registered has its own name and an open send, so Run itself
\* never sends on or closes a closed channel.
RegisteredOpen ==
  \A n \in Names : clients[n] # None => name[clients[n]] = n /\ clients[n] \notin closed

\* The last Len(s) messages of the log.
Recent(s) == SubSeq(log, Len(log) - Len(s) + 1, Len(log))

\* The replay of the history and the live messages fit together: a registered
\* client was given every chat message of the history and every one since the
\* oldest it was given, in order and once, unless its buffer was full, and then
\* a goroutine is about to drop it.
GaplessOrDropped ==
  /\ history = Recent(history)
  /\ \A c \in Connected :
       IF c \in skipped THEN dropping[c] > 0
       ELSE got[c] = Recent(got[c]) /\ Len(got[c]) >= Len(history)

\* Waits for room in a send that is full, open and read by nobody any more.
Dead(c) == writer[c] = "over" /\ ~Fits(c) /\ c \notin closed

\* Run is blocked for good in a private message; readPump is in a reprimand, which
\* ends only when Run closes its send.
RunStuck == owed # <<>> /\ Dead(Head(owed))
Stuck(c) == RunStuck \/ (reader[c] = "reply" /\ Dead(c))

\* A client whose connection is closed is forgotten, unless Run is stuck for ever
\* with a private message, readPump with a reprimand, or the process is gone.
BrokenIsForgotten ==
  \A c \in Conns :
    (c \in Connected /\ c \in broken) ~> (c \notin Connected \/ []Stuck(c) \/ process # "up")
=============================================================================
