# A verification model of the WebSocket chat server

TLA+ modules for the chat server in `cmd/server` and `internal/` and for its
last single-file predecessor: what goroutines, requests, Redis signals and
database statements do to each other, checked with TLC on small instances and,
for the safety properties that hold, proved with TLAPS for every number of servers,
clients, users, rooms, messages and requests and every channel capacity.

## 1. The system

One process per server. `main` (cmd/server/main.go) connects PostgreSQL and
Redis, starts the hub's goroutines and the HTTPS server, and waits for SIGTERM.

| component | state it keeps | operations | talks to |
|---|---|---|---|
| Hub (`internal/chat/hub.go`, `Run`) | `AllClients`, `Rooms`, `ActiveSubs` under `h.mu`; the channels `Register` (64), `Unregister` (64), `Broadcast` (2048), `PersistenceQueue` (1024), `Quit` | the five cases of `Run`'s select; `cleanupClient` (once per client); `manageSubscription`; `broadcastUserList`; `replayHistory` | clients over their `Send` buffers, Redis (publish, subscribe, presence sets), the persistence worker |
| Client (`internal/chat/client.go`) | `Send` (256), the connection, `once` | `ReadPump`, `WritePump` | the hub's channels |
| Redis listener (`ListenToRedis`) | the subscription | JOIN, LEAVE, acks, everything else | the ring, `cleanupClient`, `Broadcast` |
| Persistence worker and message repository | `PersistenceQueue`, the table `messages` | `Save` (insert or nothing), `UpdateStatus` (forward only), `Fetch` | PostgreSQL |
| Ring (`internal/hashing/consistent.go`) | `Nodes`, `Registry` | `Add`, `Remove`, `Get` | membership, routing |
| Cluster membership (`IsOnline`, `announceServerAdd`, `AnnounceServerLeave`) | `LastSeen`, `RedisOnline`, the ring | heartbeat, watcher, JOIN and LEAVE | the peers, through Redis |
| Routing (`serveWS`) | none of its own | redirect to the owner, or accept | the ring, the hub |
| Rate limiter (`internal/middleware/rateLimiter.go`) | `token`, `lastTick` | `Allow` | `ReadPump` |
| Authentication (`internal/api`, `internal/auth`, the user and token repositories, the middleware, the token cleaner) | the tables `users` and `refresh_tokens` | signup, login, refresh, logout, the access check, the nightly purge | PostgreSQL, the browser's cookies |
| Legacy server (`legacy/challenge-7/chat.go`) | `clients` by name, `history` (20), `broadcast` (256), unbuffered `register` and `unregister`, `send` (256) | the four cases of `Run`, `readPump`, `writePump`, SIGTERM | nothing else: no Redis, no database |
| Start-up and plumbing (configuration, pool, CORS, room names) | none after start-up | | |

What is hard in it:

* every client has two pumps, and cleanups, evictions, history replays and user
  lists run in goroutines of their own: the order of their steps is not given;
* `cleanupClient` works under the lock, then Redis, then channels; other
  goroutines run between;
* all channels are bounded and most sends block; `Run` sends to its own channel;
* `Quit` ends `Run` while everything else keeps running;
* Redis commands may fail; signals are sent once and never confirmed;
* two servers persist messages and acknowledgements independently;
* handlers are sequences of single statements without a transaction: requests
  overlap between any two of them, and each statement may fail, or take effect
  and report a timeout;
* hashes may collide, and clocks and durations have units.

What makes each part correct:

* registry: one live session per user, handed over only after the old one's
  cleanup; the indexes (`Rooms`, `ActiveSubs`, the Redis subscription, the
  presence sets) agree; a connection that is gone is cleaned up completely;
* pipeline: one order of delivery for everybody, private messages stay private,
  rows are stored and only move forward, what is stored was published, nothing
  that was handed over is lost while Redis and the database are up;
* membership and routing: no ghost stays in a ring for ever, servers find each
  other again after any loss, redirects end;
* authentication: a session has one usable refresh token, which is exchanged
  once; a session that has ended stays ended; names and addresses are unique;
  connections are admitted for the user who signed in; overlapping requests do
  not cost a client its session;
* ring: keys belong to the nearest member, whatever was added and removed
  before, and only the keys of the server concerned move;
* rate limiter: tokens come back;
* legacy server: the map holds open clients only, replay and live messages fit
  together, a broken client is forgotten.

## 2. Plan

| order | module | subject | state |
|---|---|---|---|
| 1 | `Hub`, `MCHub`, `HubProofs` | one server's registry and all goroutines around it | modelled, checked, proved (safety) |
| 2 | `Pipeline`, `MCPipeline`, `PipelineProofs` | a message's way through several servers and the table | modelled, checked, proved (safety) |
| 3 | `Cluster`, `MCCluster`, `ClusterProofs` | membership, ring, routing on several servers | modelled, checked, proved (safety) |
| 4 | `AuthSession`, `SessionBaton`, `MCAuthSession`, `AuthSessionProofs`, `AuthClientProofs` | signup, login, refresh, logout, access check, purge; overlapping requests and failing statements; the abstract session and the refinement | modelled, checked, proved (rotation, refinement; what clients are left with) |
| 5 | `HashRing`, `MCHashRing`, `HashRingProofs` | virtual nodes, colliding hashes | modelled, checked, proved |
| 6 | `RateLimiter` | the token bucket with its units | modelled, checked |
| 7 | `LegacyHub`, `MCLegacyHub`, `LegacyHubProofs` | the single-file server of challenge 7 | modelled, checked, proved (safety) |

`Hub`, `Pipeline` and `Cluster` overlap on purpose. `Hub` has one server with every
goroutine's own steps and no contents; `Pipeline` has several servers, contents
and a table, and takes registration and cleanup as single steps; `Cluster` has
several servers, time and no clients' sessions. What one of them takes as one
step, or leaves to the environment, another one opens: `HashRing` justifies the
circle of `Cluster`, `AuthSession` ends where `serveWS` of `Cluster` and `Hub`
begins, and `RateLimiter` is the choice that `Hub` makes at an input.

## 3. Modules and code

Each definition's source lines are in `PROJECT.json` under `map`.

### Hub

One server. Variables are the fields of `Hub` and `Client` (`AllClients`,
`Rooms`, `ActiveSubs`, the channels, `Send` as the number of payloads in it),
what Redis holds for this server (`subs`, `presence`), and the places of the
goroutines: `hubAt` and its locals for `Run`, `readPump`, `writePump`, `served`
(the HTTP handler), `cleanup` (the body of `once.Do`, whoever runs it),
`replay`, and the sets of goroutines started with `go` (`kickers`, `evictors`,
`listers`). A section under `h.mu` is one step; between two such sections,
channel operations or Redis calls everything may interleave. `once.Do` makes a
second caller wait for the first (`OnceReturns`). A send on a closed channel
ends the process (`crashed`), and so does an iteration over `AllClients` that
meets a concurrent write. `broadcastUserList` is in two steps where `Run` calls it
(`HubList`, `HubPush`): the second one waits for space in the channel that only
`Run` empties.

`Inputs`, `Remote`, `Acks`, `RedisMayFail` and `StopSignal` select what the
environment may do, so that a run can be about one question.

Left out or simplified: contents of messages; ping frames (their ticker changes
no state); `manageSubscription` is there and, as `SubsIndex` shows, never has
anything to do; the branch of `Run` that delivers acks (hub.go 557-569) is
unreachable because `ListenToRedis` does not forward acks; several eviction
goroutines of one client count as one; `ReadExit` sends to `Unregister` and
closes the connection in one step.

### Pipeline

Several servers and a room's clients on them. `Ingest` is the end of
`ReadPump`: sender, room and time are the server's, the status is what the
frontend sent (`SentStatuses`). `HubPublish` and `HubPersist` are the two halves
of the Broadcast case for local messages (the second one waits for space),
`HubDeliver` the case for messages from Redis. `Fanned` is Redis: one order of
publication, received by those subscribed at that moment. `PersistWorker` with
`Save` and `UpdateStatus` are the statements with their conditions; `Replay` is
`Fetch` and the history sent to a client that joined.

User lists take part because they take space: a registration and an
unregistration (`HubRegister`, `Leave`) end with `Run` about to send one into its
own `Broadcast` (`listing`, `PushList`), where it blocks for good when the channel
is full (`Stuck`), and every cleanup starts a goroutine that sends one
(`listers`, `ListerRuns`). They are published, come back and are dropped at the
delivery, since what clients do with them is not looked at. `Leavers` says whose
connection may end.

`n`, a message's place in the order of publication, and `announced`, the id and
time of every sending that was published, are history variables.

Left out or simplified: a client is the one session of its user and reads all it
is sent (buffers are Hub's subject); join notices, which `Run` hands to Redis
directly and nobody stores; one clock for all servers; the item the worker holds
is counted in its queue; a chat text that begins with `JOIN:` or `LEAVE:` is taken
for a signal by `ListenToRedis`, which is not modelled.

### Cluster

Several servers. A ring is the set of its members. From the hash of a user the
circle meets the servers in an order that does not depend on membership
(`Circle`), and `Get` is the first member in that order: this is what `Add`,
`Remove` and `Get` do with virtual nodes as long as no two hashes collide.
`LastSeen` holds ages in periods of the ticker (five seconds; `Silence` is 4 in
the code). The listener's `Ring.Add` and its note in `LastSeen` are two steps
(`ListenJoin`, `JoinSeen`), and so are the watcher's `Ring.Remove` and `delete`
(`WatchRemove`, `WatchDelete`), because the ring has a lock of its own and
`h.mu` covers only parts. `Publish` loses the signal when Redis is down, and a
server that has started announces itself before it is subscribed. Servers crash,
leave, restart. After SIGTERM the process goes on serving HTTP with its last
ring, since `wg.Wait` never returns: nobody calls `Done` for the HTTP goroutine,
and nobody closes `PersistenceQueue`.

Left out or simplified: colliding hashes (HashRing); signals arrive within the
period they were sent in, in the order of publication; the watcher and the
listener of a server end in one step; re-subscribing to the rooms after an
outage, which go-redis has done already; bans and room names in `serveWS`.

### AuthSession and SessionBaton

Requests are numbered; a number also names the user and the pair of tokens that
the request creates, so a row of `users` or `refresh_tokens` is given by the
request that inserted it (`asked`, `user`) and the tables are a set and a
function to `absent`, `valid`, `revoked`. Each handler is a sequence of places
(`at`), one per statement: everything before the first statement and between
two of them is local and belongs to the step. `Plan` says what the requests may
ask. The environment: statements that fail or time out (`Outcomes`: `late` is an
effect with an error), handlers that die and answers that are lost (`Lose`),
tokens that grow old (`Age`), an administrator who bans, the purge at any
moment, and browsers whose jars take `Set-Cookie` in the order answers arrive
in. `family` is a history variable, the login or signup that a token goes back
to.

The conversions are modelled as what they do, and two facts of the code come
out of that. `LoginHandler` gives `VerifyPassword` its arguments in the wrong
order (authHandler.go:80, passwords.go:10), so a login succeeds exactly when the
password sent is a hash of the stored hash. All three callers of
`CreateRefreshToken` pass the user agent where it expects the address and the
other way round (authHandler.go:93, 227 and 381, jwt.go:106); the text of a user
agent is normally no address, `ClientIP` is nil, its text `<nil>` does not fit a
column of type INET, and signup and login answer 500 after creating the user.
Sessions exist only for clients whose user agent is the text of their address;
`native` in `MCAuthSession` is one, so that the rotation is exercised, and
`plain` is a browser. Also: `GetTokenByHash` does not wrap `ErrNoRows`, so a
reused token is answered 500 and the branch with 401 (authHandler.go:344) is
never taken; a browser does not send the refresh cookie to
`/api/auth/logout`, so that logout usually revokes nothing (`SendLogout` has
both cases). The model takes from the driver that an INET column is read as the
text of its address.

`SessionBaton` is what rotation promises: a session is a baton that one holder
has at a time, that goes only to holders who never had one, and that is never
seen again once dropped. `Baton` maps a session to the token that is valid or
the request that is between its `RevokeToken` and its `SaveRefreshToken`.

Left out: failures of bcrypt, of the signature and of the random source;
`RevokeAllUserTokens` and `DeleteToken`, which nobody calls; the wording of
answers.

### HashRing

`hash` is a variable that `Init` chooses from all functions: CRC-32 may give two
virtual nodes one hash. `Nodes` counts how often a hash is in the sorted slice,
`Registry` is the map. The loops of `Add` and `Remove` are folded over the
replicas of one hash (`Copies`, `Put`, `Cut`). With colliding hashes a server may
be refused by `Add` for ever, may lose entries to another one, and `Remove` may
leave a node without an owner, so that `Get` returns the empty string;
`BystandersSafe` says how far that goes.

### RateLimiter

`Allow` with the code's units: `lastTick` in seconds, `rate` in nanoseconds. The
clock counts half seconds. `ReadPump` is the only caller of a limiter, so the
result of the second compare-and-swap, which the code ignores, does not matter.

### LegacyHub

Challenge 7. `register` and `unregister` are unbuffered, so a send and the case
of `Run` that receives it are one step; `owed` is the private message whose
addressees `Run` is still waiting for. `closed` and `broken` are the clients
whose channel or connection is closed, `dropping` the goroutines that wait to
drop a slow client. `log`, `got` and `skipped` are history variables. Clients are
looked up by name, names are not unique, and `cleanupClient` closes whoever is
found: a connection that was replaced takes its successor with it when it ends.
That does not violate `RegisteredOpen`, which is about the map. A
message that is the JSON value `null` makes `payload` nil and `readPump` panics
(`ReadNull`), as it does when it answers into a closed channel (`Reply`); it then
runs its deferred function, which unregisters, and the process ends (`Crash`).

Left out: the texts of the commands; the limiter (a choice); text that is not
JSON, which `readPump` skips; the exit of the process a second after SIGTERM.
Challenges 1 to 6 are earlier states of the same file and are not modelled.

## 4. Runs

| run | checks | result |
|---|---|---|
| `hub_registry` | `TypeOK`, `OneLiveSession`, `SubsIndex`, `EmptyRoomUnsubscribed`, `PresenceBacked`, `OnlineListed`, `StopClosesSessions`, `HandoverAfterCleanup` | hold: two connections of one user, ack kicks and SIGTERM in every order |
| `hub_liveness` | `GoneIsCleaned`, `SlowConsumerDropped` | hold under fairness, unless `Run` is stuck for ever: one client that may vanish or stop reading, an endless stream of messages and kick signals |
| `hub_panic` | `NoSendOnClosed` | violated: an early disconnection's Unregister is handled before the Register, the client is inserted after its own cleanup, and the next message of the room is sent to its closed buffer |
| `hub_subscription` | `OccupiedRoomSubscribed` | violated: the Unsubscribe of a cleanup that an ack started comes after the Subscribe of a newcomer |
| `pipeline_safety` | `TypeOK`, `DeliveredInOrder`, `OnlyAddressees`, `StoredWasPublished`, `RowsOnlyAdvance` | hold: two servers, a chat message that may be sent twice, a private one, late acks, user lists, failing Redis and database |
| `pipeline_liveness` | `EventuallySaved`, `EventuallyReceived` | hold under fairness, with channels of capacity one, unless `Run` stops before it has taken the message, or is stuck for ever |
| `pipeline_gap` | `NoGap` | violated: a message published before the subscription and saved after the history was fetched is seen neither way |
| `cluster` | `TypeOK`, `PeersWatched`, `NoRedirectLoop`, `GhostsPruned`, `PeersMeet` | hold: crash, SIGTERM, restart, outages, a user who dials either server |
| `auth` | `TypeOK`, `OneLivePerSession`, `SingleExchange`, `OneAccountPerName`, `AdmittedAsSelf`, `JarUsable`, `ImplementsBaton` | hold: four overlapping requests, one fault, one ageing or ban, the purge |
| `hash_ring` | `TypeOK`, `RoutesToOwner`, `BystandersSafe`, `LittleMoves` | hold: three servers, every hash function on six hashes |
| `limiter_refill` | `RefilledOnDemand` | violated: an emptied bucket stays empty |
| `legacy` | `TypeOK`, `RegisteredOpen`, `GaplessOrDropped`, `BrokenIsForgotten` | hold, the last one under fairness: two connections with one name or two, two messages of any type |

The four that are violated are findings, with their lines and the sentences of
the documentation they disagree with, in `PROJECT.json`. Two causes are behind
most of what goes wrong in Hub. The pumps start before the registration is queued
(`hub_panic`). And `ListenToRedis` tests for acks where it logs a kick
(hub.go:237), so that an ordinary ack of any client starts a cleanup beside `Run`
(`hub_subscription`).

Behaviours of the models that disagree with the documentation as well, and have
no run of their own. Each is what the code does, and TLC finds it in a few steps
when asked for it:

* The early disconnection of `hub_panic` also leaves the name in the presence set
  and the dead client in the room (`EarlyGone`), where nothing removes them;
  README.md:227 wants the server to be "the final arbiter of truth".
* With an ack, a session can be removed between the lookup of a private message
  (hub.go:537) and the send; README.md:48 names "delivery to dead sockets" as what
  was fixed.
* With an ack and SIGTERM, `AllClients` is written under the Quit loop
  (hub.go:398, `crashed = "mapRace"`); README.md:11 promises no data races.
* `Run` waits for ever in its own full channel (hub.go:329, `HubStuck`, `Stuck`);
  README.md:124 promises that internal deadlocks are eliminated.
* A kick signal from another server does nothing (hub.go:509, `HubDropKick`);
  README.md:181 says that remote nodes terminate the session.
* What waits in `Broadcast` when `Run` takes its Quit case (hub.go:402) is neither
  published nor stored; README.md:139 and 305 promise zero loss.
* A peer is pruned four periods after it was added although all its heartbeats
  arrived, since only an `Add` of a new member refreshes `LastSeen` (hub.go:217);
  README.md:199 says that silent peers are purged.
* In challenge 7 a private message to a full buffer that nobody reads stops `Run`
  (chat.go:234, `RunStuck`; README.md:25 and 28), and the reader of a replaced
  client closes its successor (chat.go:124; README.md:51).

Not a run of its own: `ReadPump` answers commands (client.go:135) and warns
(client.go:94) into a buffer that a cleanup may have closed, and so does
`replayHistory` (hub.go:293). Each is another way to violate `NoSendOnClosed`, as
with `Inputs = {"command"}`.

How far the passing properties reach:

* The excuses of the liveness properties are states that last. `HubStuck` and
  `Stuck` of Pipeline say that `Run` waits for space in the channel of which it is
  the only receiver. In the legacy server a send is `Dead` when it is full, open
  and without a writer; `BrokenIsForgotten` excuses only what is `Stuck` from then
  on for ever. A stop excuses `EventuallySaved` only for what is left in
  `Broadcast` for good.
* `PresenceBacked` and `OnlineListed` are about a Redis that answers, and both name
  the early disconnection as their exception, one for the ghost that it leaves,
  the other for the session that its cleanup unlists.
* `hub_liveness` has no acks: with them, and with Redis errors, the graph is too
  large for the temporal check. `hub_registry`, about safety, has them.
* `PeersMeet` says "again and again" and not "for ever", because live peers are
  pruned.
* `JarUsable` is about addresses that are addresses (section 5), and about the
  cookie that is left: a refresh that is answered after a logout leaves the client
  logged in, which no property forbids.
* `pipeline_safety` has one room, and `auth` no connection after a refresh; the
  theorems about the same properties have both.

Deadlock is checked in `cluster`, where time always goes on. The other systems
may come to rest: all clients gone, all messages delivered.

### Bounds

* Channels have capacity 1 or 2 instead of 64, 256, 1024 and 2048. What matters
  is whether a send finds space, and small capacities make "full" frequent. The
  theorems do not depend on it.
* Two connections are enough for an old and a new session of one user and for
  two users in one room; two servers for a local and a remote side; `MaxStarts`
  2 for a server that comes back as a ghost of itself.
* `Silence` is 1 in `cluster` instead of 4; the watcher only compares.
* `Plans` says how often each message may be sent and `MaxHistory` bounds the
  history; acks are sent once per status. `pipeline_safety` retries one message
  (`Two`), sends it as `Seen` (`SentStatuses` 2) and acks it as `Delivered`
  (`Statuses` 1), so that a status could go back; nobody leaves there. In
  `pipeline_liveness` one client may leave, and every message is sent once.
* `hub_liveness` has one client, and `Broadcast` holds one message, so that it is
  full at once.
* `auth`: four requests are a session, a second client or a second refresh, and
  two more refreshes, a refresh and a logout, or a connection; one fault puts an
  error, a timeout with effect, a lost answer or a dead handler at any place of
  any of them. The proofs have no bound on either.
* `hash_ring`: three servers are two that collide and one that does not, two
  replicas are a first one, which `Add` and `Remove` test, and another; six
  hashes leave room for six distinct virtual nodes. The first virtual node of
  the first server is put at 0, which only turns the circle. `MaxCopies` bounds
  the slice, which grows with colliding servers that are added and removed.
* `legacy`: two connections are an old and a new client of one name, or two
  clients; `NamesFor` lets only the second one choose, since names can be
  swapped. Buffers of one fill up at once, `MaxDrops` is 1.
* No symmetry is used: the circle and the functions on clients tell them apart.

### Fairness

Weak fairness for each goroutine: Go schedules runnable goroutines. Strong
fairness where the code relies on more: `Run`'s `select` chooses at random among
ready cases, so a case that is ready again and again is taken; goroutines that
wait to send on one channel are served in order, hence strong fairness of
`ListenToRedis` and of the goroutines that send user lists. What a goroutine does
when it is not at a choice (`HubPersist`, `PushList`) has weak fairness. In Cluster time passes. In
LegacyHub messages are bounded, so weak fairness of `Run` as a whole and of each
pump is enough. AuthSession and HashRing are about safety alone. Nothing
is assumed of users, peers, signals, crashes or Redis: liveness properties name
the outage or the stop that excuses them.

## 5. Proofs

Theorems are of the form `Spec => []P`, `Spec => [][A]_vars` or, for the
refinement, `Spec => Abstract!Spec`, for every
value of the constants allowed by the modules' assumptions (capacities positive,
functions total, the circle contains every server once).

**HubProofs.** `TypeCorrect` rests on `TypeInv`, which adds to `TypeOK` that
`Run`'s locals are set where they are used. `OneLiveSession`, `SubsIndex`,
`StopClosesSessions` and `HandoverAfterCleanup` follow from `SessionInv`: a
member of a room whose cleanup has not removed it owns its name in `AllClients`;
the name is free when `Run` inserts; the Quit loop still has every open session
before it; `ActiveSubs` is the set of occupied rooms. `OneLiveSession` alone is
not inductive, for it says nothing of who is in `AllClients`.
`EmptyRoomUnsubscribed` is inductive with the types: the only step that
empties a room is the one after which that cleanup has its `Unsubscribe` before it.

`PresenceBacked` is proved for `RedisMayFail = FALSE`: an `SREM` that fails leaves
the name in the set, and nobody tries again. What it says of the set is not
inductive, because a listed client must not be one that is just being removed,
and a newcomer must not be cleaned up between `SADD` and its insertion. `Backed`
states the former. The latter needs that a client stands in `Register` once
(`QueuedOnce`) and that before its insertion only `Run`'s own Unregister case may
clean it up (`Untouched`): nobody has its name in `AllClients`, so no kick and no
successor finds it. `Run` is in one case at a time, and that is enough.

`OnlineListed` is proved under the same hypothesis, from `PresenceInv` and
`ListedInv`: a client that `Run` has taken in and nobody has begun to clean up is in
its room (`Enrolled`), so an `SREM` for a session that `Run` knows is for one that
was live itself, and by `OneLiveSession` no other is; and who is live or about to be
inserted is listed, unless the cleanup of a newcomer has unlisted the name
(`Listed`).

**PipelineProofs.** `DeliveredInOrder` is the consequence of a chain kept on
every server: what was delivered precedes what waits in `Broadcast`, that
precedes what waits in the inbox, and all of it is below the number of messages
published (`OrderInv`). Messages without a stamp may stand anywhere.
`OnlyAddressees` needs that messages in the channels are genuine (sender and
kind are those of their id) and that no ack comes from Redis to a hub
(`AddressInv`). `RowsOnlyAdvance` needs only the types. `StoredWasPublished`
follows from `StoredInv`: what `Run` is about to queue, and what waits in a queue,
are acks and sendings that were published (`Printed`), told apart by id and time,
so that a retry whose `Publish` succeeds does not vouch for an earlier one whose
`Publish` failed.

**ClusterProofs.** A server never loses its own place in its ring (`OwnPlace`):
it never watches itself, which is part of `TypeOK`, and ignores its own LEAVE. Hence `Get` is at or before
the server on the user's circle, and a redirect goes strictly up (`Climbing`).
So `NoRedirectLoop` holds for any number of servers and whatever the rings are;
the `from` parameter is not needed for it. That a first member exists is derived
from the well-foundedness of strict inclusion on finite sets. `PeersWatched`
needs that a peer being pruned is out of the ring, or is back in it with the
listener waiting for `h.mu` (`PruneUnderLock`).

**AuthSessionProofs.** The properties are about two tokens at a time and none is
inductive. `Rotation` is: a session is named by the request it began with
(`Begun`, `Rooted`); who is shown a token got it from the jar, where only tokens
of known sessions are (`Shown`); a refresh that has got past `RevokeToken` has
exchanged a token that is not valid any more (`Exchanged`); at most one request
or token of a session holds it (`OneHolder`), a token was exchanged by at most
one request (`OneExchange`), and who was answered 200 has done so (`Renewed`).
Every action is one of five kinds as far as this is concerned: it sends a
request, lowers what is held (logout, purge, a fault), opens a session, passes
one on, or turns a request that holds into a token that does (`Sends`, `Lowers`,
`Opens`, `Passes`, `Saves`). Each kind preserves `Rotation`, and each is a step
or a stutter of `SessionBaton`, which gives `BatonImplemented`.

**AuthClientProofs.** First every action is summed up in what it does to its
request (`Introduces`, `Accepts`, `Revokes`, `Stores`, `Admits`, `Refuses`, ...;
`StepDoes`), so that the invariants are shown to survive ten kinds of step and
not every statement of every handler. `OneAccountPerName` holds because `Unique`,
the constraint of the table, is looked at in the step that inserts.
`AdmittedAsSelf` follows from `Ownership`: cookies in a jar, cookies on a request
and the rows behind them were handed to that client, and the user of each goes
back to a signup or login of the same client that was answered (`Granted`).
`JarUsable` is not inductive while a refresh is between its statements. `Unharmed`
is: as long as nothing has failed, a client's refresh cookie is usable or expired,
or a request of that client is on its way to replace it (`JarsGood`); an answer
with 200 or 201 carries a usable token (`AnswersGood`); and a refresh that has
accepted its token will be able to save the new one (`Storable`). The last one
needs `ParsableAddresses`: the new row holds the text of the user agent as its
address, which was compared with the text of the address of the old one. That is
an address unless the client sent a text of its own as `X-Forwarded-For`. Without
the hypothesis a refresh may revoke the old row and then fail at the column of
type INET, and the session is lost although nothing failed.

**HashRingProofs.** `BystandersSafe` is inductive with the types: `Add` and
`Remove` of one server touch only entries at hashes of that server. For
`RoutesToOwner` two facts are added: a hash that no virtual node has is
never in the slice (`NoStrays`), and `Search` returns the first
point clockwise (`SearchNearest`). The latter needs that a nonempty finite set of
hashes has a least element, which is derived from the well-foundedness of strict
inclusion on finite sets. `LittleMoves` is a property of steps: the points before
and after `Add` or `Remove` are those of the members before and after
(`Routed`, primed by `RoutedNext`), two points at the same distance from a key are
one point (`DistanceInjective`), so a key whose point is there both times keeps
its server (`SameOwner`); if it is not, its server is the one added or removed.

**LegacyHubProofs.** `Registry` adds to the types and to `RegisteredOpen` that the
map holds each client under its own name and that a client whose pumps do not
run yet is nowhere. Names are then what identifies a registered client,
whichever of several goroutines unregisters it. `GaplessOrDropped` rests on
`Gapless`: the history is an end of the log of chat messages, and so is what a
registered client that missed nothing was given, at least as long as the
history; one that missed something has a goroutine that waits to drop it
(`Served`).

Only model-checked: liveness (`GoneIsCleaned`, `SlowConsumerDropped`,
`EventuallySaved`, `EventuallyReceived`, `GhostsPruned`, `PeersMeet`,
`BrokenIsForgotten`), since fairness and `ENABLED` are beyond the prover. The
properties that are violated have no theorem. `PresenceBackedHolds` and
`OnlineListedHolds` state their hypothesis `RedisMayFail = FALSE`; the run that
checks those properties has the same value.

## 6. Not modelled

* CORS, configuration, pool, room names, migrations, the build script: no state
  after start-up. The tables' constraints are used where the repositories rely
  on them (`Unique`, the column of type INET).
* `legacy/` challenges 1 to 6: earlier states of challenge 7.
* Statements without a property, whose states the models have: connections left in
  `Register` when `Run` returns; an ack handled before its message is stored; a
  logout undone by the answer of an earlier refresh.
