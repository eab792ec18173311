# A TLA+ verification of websocket_proxy

`websocket_proxy` lets several Windows processes share one WebSocket connection
to a remote server. A proxy server (`websocket_proxy.exe`) owns the connections;
client processes talk to it over two shared-memory rings. This directory models
the proxy and its client library in TLA+, model-checks them with TLC on small
instances and proves the main properties with TLAPS for instances of any size.

## 1. Inventory

### Components, their state and their operations

| Component (source) | State | Operations |
|---|---|---|
| Proxy server core (`src/src/websocket_proxy.cpp`) | `clients_` (pid, last heartbeat), `websocketsById_`, `websocketsByUrlApiKey_`, `closed_sockets_`, `shutdown_time_`, `run_`, the handlers pending in `ioc_` | one handler per client message; `removeClosedSockets`, `checkHeartbeats`, `shutdown` |
| Websocket connection (`src/src/websocket.h`) | `status_`, `clients_`, `subscriptions_`, read and write buffers, outstanding asynchronous operations | `open`, `close`, `send`, `on_read`, `on_write`, `on_close`, `fail` |
| Single-instance election (`websocket_proxy.cpp`: constructor, `run`, destructor) | a named file mapping with `owner_pid_`, `own_shm_` | create or open the mapping, check the owner, take over, release |
| Subscription bookkeeping (`handleSubscribe`, `handleUnsubscribe`) | per symbol: requested types and client pids | subscribe, unsubscribe |
| Client library (`src/include/websocket_proxy/websocket_proxy_client.h`) | `server_pid_`, `websockets_`, heartbeat stamps, worker thread | connect (spawn, register), open, close, subscribe, send, worker loop, destructor |
| Shared-memory protocol (`types.h`, slick_queue) | two lossy rings, replies written in place into the request's slot | reserve, publish, read |
| `main.cpp`, logging, example client | none of its own | – |

### How they interact

The server has one thread, inside `ioc_.run()`. Its handlers never overlap; what
varies is their order: the pump `processClientMessage` reads one message and
posts itself again, `startHeartbeat` does the same for the heartbeat check, and
each `Websocket` contributes completions (open, read, write, close). Handlers
communicate through the tables: a completion queues an id in `closed_sockets_`,
the pump removes it later; an open enters the tables only when it has succeeded,
up to a minute after the request. Clients are separate processes that register,
send heartbeats, may die silently and may spawn a server each when they start
together; the instances then elect one over the shared word `owner_pid_`.

### What is hard, and what correct means

* Core: opens that overlap each other or a close of the same key; clients that
  leave while their open is pending; failures between two steps of a socket's
  life; the idle countdown racing a registration; an exception ending the pump.
  Correct: the tables agree with each other and with the connections, a shared
  socket is never taken from a client by another one, one connection per key,
  idle termination and nothing earlier, closed sockets eventually removed.
* Election: creation and initialisation of the mapping are two steps, the pid
  compared was read before a sleep, any instance may crash anywhere. Correct: one
  instance serves, and a live owner is not deposed.
* Connection: overlapping writes on one buffer. Correct: messages reach the
  remote server once, whole and in order.
* Subscriptions: stale pids, combined types. Correct: the remote server is
  subscribed to what live clients asked for.
* Client library: two threads sharing unsynchronised stamps and a replaced
  queue, server crash and takeover. Correct: a lost server is noticed, a live
  one is not reported lost, the destructor returns.

The hazards are listed line by line in `PROJECT.json`.

## 2. Modules

| Module | Role | Instances | Proofs |
|---|---|---|---|
| `WebsocketProxy` | the proxy server core and the life cycle of its connections | `MCProxy`, `MCProxy*.cfg` | `WebsocketProxyProofs` |
| `SharedConnection` | abstract: what the clients of one `(url, api_key)` get; `WebsocketProxy` implements it until opens race | checked in `tables` | `SharedConnectionProofs` |
| `InstanceOwner` | the single-instance election | `MCInstanceOwner`, `MCInstanceOwner*.cfg` | `InstanceOwnerProofs` |
| `PassThrough` | abstract: what a connection promises for the requests sent over it | – | – |
| `WsWriter` | the write buffer of one connection; implements `PassThrough` until requests overlap | `MCWriter`, `MCWriter*.cfg` | `WsWriterProofs` |
| `Subscriptions` | the subscriptions of one connection and what the remote server was asked for | `MCSubscriptions`, `MCSubscriptions*.cfg` | `SubscriptionsProofs` |
| `ProxyClient` | the client library: two threads of a client, and the servers it meets | `MCClient`, `MCClient*.cfg` | `ProxyClientProofs` |
| `RequestRing` | the ring of requests shared by all clients, with the answers in it | `MCRing`, `MCRing*.cfg` | `RequestRingProofs` |

Definitions marked "Mutant" are plausible bugs of the definition that follows
them. No specification uses them; substituting one must make the property named
for it in `PROJECT.json` fail, which shows that the property depends on the code.

The modules overlap where the parts meet, each seeing the others through what
its own code uses of them. `WebsocketProxy` reads any message a client may send;
`Subscriptions` and `WsWriter` look inside one of its sockets; `RequestRing` is
the memory through which those messages and the answers go; `ProxyClient` has
the server as its environment: registrations, opens, closes, drops and heartbeats.

### WebsocketProxy

One handler is one action, because one thread runs them all. The correspondence
is by name: `handleClientRegistration`, `closeWs`, `on_read`, `shutdown` and so
on. `openWs` appears as its two outcomes `JoinWs` (an indexed socket is shared)
and `openNewWs`, plus `openNewWsThrows` for a URL whose port `std::stoi` rejects.
`FinishMessage` is the tail of `processClientMessage` and part of every message
action. `OpenSucceeds`, `OpenFails`, `on_read*`, `on_write*`, `on_close` are the
completions of one `Websocket`. Variables carry the names of the members they
stand for; `users` is `Websocket::clients_`.

Abstractions:

* The message read by the pump is an input: any process may send any message the
  client library can produce. Answers, and slots used again before they are
  answered, are the subject of `RequestRing`.
* A `(url, api_key)` pair is a member of `Key`; `BadKey` are those whose
  constructor throws.
* Time stamps are ages in ticks, saturated just past the limit they are compared
  with. The clock is the system clock: `ClockSetBack` is a step back, after which
  the unsigned differences are huge, every client looks silent and a running
  idle countdown looks over.
* `users[id]` of a socket that left the tables is kept but never read again.
* Subscribe and Unsubscribe appear as the `send` they cause
  (`sendWsRequest`) or, when nothing is sent, as a heartbeat.
* The handler that creates the local 5 s timer and the timer's immediate
  completion are one step, `StopTimer`.
* `raced`, `late` and `threw` are history variables: no guard reads them.

Not covered by these abstractions: exceptions other than the constructor's (out
of memory), the wrap of `closed_sockets_` after 256 unread ids, ids colliding
after 10000 connections.

### SharedConnection

The abstract promise to the clients of one key: one connection, that the first who
asks causes (`Ask`, then `Up` or `Refused`) and others join. Members leave
(`Leave`) by a request of their own, one at a time, or because they are not
registered any more: an input `present`, the registered clients, says who may ask,
join and leave, and nobody leaves who is present and has not asked for it. The
connection goes with its last member, after a failure (`Fails`, `Cleared`) or in the
shutdown. `Apart` is the one way out: a second open while one
is under way or closing. The refinement maps, for each key, `link` and `members`
to the status and the users of the socket in the key index, `asking` to the opener
of the socket that connects, `present` to `clients_`, `serving` to `run_` and `apart` to `raced`. The ids, the
table by id, `closed_sockets_` and the heartbeat ages are hidden. A handler that
closes one socket by id and erases by key, or that removes in its tail a socket
that has closed, must look to every key like one of these steps or like nothing.

### InstanceOwner

Instances run in parallel, so one action is one access to what they share: the
mapping's name (`CreateFileMapping`), the word (`StoreOwner`, `LoadOwner`,
`CompareExchange`, `ReleaseOwner`), the process table (`CheckOwner`). The mapping
exists while somebody holds a handle and is zero-filled when created; that exactly
the live instances hold one is part of `TypeOK`. `exit(-1)`
runs no destructor, so a losing instance only closes its handle. `Crash` may
happen anywhere. Process ids are not reused.

### WsWriter and PassThrough

`send` appends to `w_buffer` and starts a write of the whole buffer; `on_write`
consumes as much as that write transferred. Beast is external, and allows one
outstanding write only. For more it promises nothing; the model assumes the mildest
outcome, that their frames go on the wire in the order of the calls, each with its
`on_write` before the next (`async_write`). `Transparent` fails even so;
`BufferDrained` and `IntactWhenAlone` say something of overlapping writes, and
that rests on the assumption. `PassesThrough` does not: it ends with the first
overlap. A write started while another is outstanding refers to memory that the other's
`on_write` consumes, so its frame may hold the old bytes, the bytes now in the
buffer, or neither (`Frames`). Requests are numbers, one unit long each.
Nothing in the code keeps requests apart; `alone` records those that were sent
when no write was outstanding. `PassThrough` is the abstract promise: the
requests accepted reach the remote server one frame each, whole, once and in
order, until the connection breaks. The refinement maps `wire` to `PassedOn`, the
frames before the first request that was sent too early, maps `sent` and `up` to
themselves and hides the buffer and the outstanding writes.

### Subscriptions

`handleSubscribe` and `handleUnsubscribe` over `type` and `subscribers`, the two
members of a `Subscription`; a symbol without subscribers has no entry, and one
with subscribers may have no type, since `SubscriptionType::None` is accepted.
`clients`, `users` and `link` are what the other handlers do to the socket: a client
registers, joins, closes, unregisters or is dropped; the socket goes with its
last user. `link` is "cut" once the remote side has closed the connection, which
`on_read` ignores: the socket stays in the table and requests are answered with
SUCCESS, but the writes fail and nobody is asked (`asked`). It is "closing" after
`fail()`, until the pump removes the socket. `remote` is what the remote server has been asked for, which
the proxy does not know: the text of a request is the client's, and the text of
an unsubscription may end any set of types. `wants` is what each client is
entitled to. `mixed`, `left` and `narrow` are history.

### ProxyClient

The application thread and the worker thread of one client, one action per
stretch of code between two accesses the other thread can get in between.
`openWebSocket(wait)` is the synchronous and the asynchronous open, with
`connect()` in front if needed: `spawnWebsocketsProxyServer` or `ServerRunning`,
`openQueues`, `RegisterAnswered` (the stamp), `Registered` (the store of
`server_pid_`), `Opened`, or `connectFails`, `serverNotReady` and `giveUp` for
the time limits. The worker may run between any two of them. `closeWebSocket` and `Closed`, `Destroy` and `Joined` are the two halves
of the closing call and of the destructor; `closeWebSocket` may be called, with any
id, connected or not, once `client_queue_` exists (before, it dereferences null).
The worker is `WorkerStarts`
(the thread itself creates `run_`), `WorkerLoads`, `WorkerReads` or
`WorkerReadsNothing`, `Disconnected` or `StillConnected`.

The servers are the environment: one runs at a time, crashes (`ServerEnds`) or
is started by somebody else (`ServerStarts`), does not see requests older than
itself, greets with a heartbeat (`ServerGreets`), answers, publishes, beats and
drops the client. It beats only while it has clients: this one (`registered`) or
others (`peers`, which `PeersChange` lets come and go). The client's own
heartbeats are not in the queue: `ServerDrops` may come at any time, since they
may be late or, after a clock step, not count. The reading position in the
server's queue and its wrapping are reduced to a sequence of unread messages.

Stamps are ages: the worker's `now` is `stall` ticks old when it is compared with
a stamp `sinceSeen` ticks old. Both are readings of the system clock, and
`ClockSet` moves it, ahead by one of `SetAhead` or back by one of `SetBack`:
`stampSkew` and `nowSkew` are what it was moved by since each reading. The unsigned
difference is `elapsed`, `(sinceSeen + stampSkew - (stall + nowSkew)) % WORD`. A stamp
newer than `now`, which the application thread can set in between, therefore wraps,
and so does one taken before the clock was set back. The bound: the clock is not set
again before the readings it was set after are replaced. `Tick` is held back while the worker
is about to enter its loop or has used up `MaxStall`, and while a live server's
heartbeat is due.

### RequestRing

Messages take one slot each and are numbered as their slots are reserved. `ring` is
the memory: a message, its status, and (history) the request whose handling set
the status. Reserving and clearing a slot (`reserveMessage`) and filling in and
publishing the message (`sendMessage`) are two steps: others may reserve, publish
and read in between, and the process may die there (`Dies`), in which case the
server waits at the slot until the ring has gone round. `filling`, `opening` and
`waiting` are the references into the ring that outlive a step: a reservation, the
message the callback of `openNewWs` captures and the one `waitForResponse` polls. The server reads whatever is in its slot when it gets
there, so messages written over are lost. Requests are of three kinds: opened
later, answered when read, not answered. `overrun` records that a slot still
referred to, or not read yet, was reserved again.

## 3. Model checking

| Run | Checks | Instance | Result |
|---|---|---|---|
| `tables` | `TypeOK`, `IndexSound`, `TableTracksSockets`, `SocketsAreUsed`, `UsersRegistered`, `IdleShutdownOnly`, `SharedUnlessRaced`, `SharedSocketSurvives`, `SharesConnections` | 2 clients, 1 key, 2 connections; 1.9 M states | holds |
| `live` | `Terminates`, `ClosingSocketsGo`, `QuietClientsReleased`, `SignalStops` | 1 client, 2 keys, one of them bad, 2 connections | holds |
| `remote_close` | `RemoteCloseAnnounced` | 1 client, 1 connection | violated |
| `owner` | `TypeOK`, `OwnerIsTheServer`, `LiveOwnerKeepsOwnership` | 4 instances | holds |
| `only_one` | `OnlyOneInstance` | 2 instances | violated |
| `writer` | `TypeOK`, `BufferDrained`, `IntactWhenAlone`, `PassesThrough` | 6 requests | holds |
| `transparent` | `Transparent` | 3 requests | violated |
| `subscriptions` | `TypeOK`, `Served`, `EndsWithLastClient` | 3 clients, 1 symbol, 2 types | holds |
| `client` | `TypeOK`, `LostSocketsAnnounced`, `NoFalseAlarm`, `QueueReplacedSafely` | 2 servers, 1 socket, queues of 2, no clock setting; 3.1 M states | holds |
| `client_live` | `LostServerNoticed`, `DestructorReturns`, `NoFalseAlarm` | 1 server, 1 socket, queues of 1, clock set back; 0.5 M states | holds |
| `dropped_client` | `DroppedClientReturns` | 1 server, queues of 1, other clients | violated |
| `ring` | `TypeOK`, `OwnSocket`, `OwnAnswer` | 2 clients, 2 slots, 4 messages | holds |

### Bounds

* Server. `MaxId = 2` connections are what the table properties need: two sockets
  of one key exist together only through a race, and their entries then collide
  in the key index. Two clients are needed for sharing and for two lost
  heartbeats in one check. `CLIENT_TIMEOUT = 0` and `SHUTDOWN_DELAY = 1`
  let time pass both before and after each limit. The bad key of `live` lets the
  pump die at any point.
* Election. Four instances allow a creator, a takeover, a second takeover and a
  bystander.
* Writer. Three outstanding writes suffice for a frame that repeats one request
  and misses another; six also let a second burst follow the first.
* Subscriptions. Symbols do not interact; three clients are one that wants, one
  that gives up and one that left.
* Client. A second server is what refreshes the stamp of the first one's client.
  `MaxStall = 1` lets the application's stamp fall between the worker's clock and
  its comparison; `HEARTBEAT_INTERVAL = 1 < HEARTBEAT_TIMEOUT = 2` keeps the order
  of the real limits, with a silent stretch on either side of the limit, and
  `WORD = 16` is far above both, as 2^64 is. `PassAssumption` says that a pass of the
  worker and a heartbeat interval fit into the time-out (a pass of at most
  14.5 s for the real 500 ms and 15 s): with `MaxStall = 2`, which breaks it,
  TLC finds a false alarm. The clock is set in `client_live` only, back by one tick,
  which makes a fresh stamp lie in the future; `client`, with two servers and queues
  of 2, would grow past what TLC finishes. The proof of `NoFalseAlarm` covers
  settings by any amount.
* Ring. Four messages take two slots round twice, and one of them may never be
  published.

Clients (in `tables`, `subscriptions`, `ring`) and instances (in `owner`) are
symmetric: nothing orders them. Deadlock is not checked because the proxy, the
instances and the client are meant to stop, and the other models stop at their
bounds.

### What the code does not do

Four runs state what the repository says and the code does not do:

* `remote_close`: `on_read` drops `error::closed` and `eof` silently, so the users
  of a connection closed by the remote server are never told.
* `only_one`: a takeover between the creation of the mapping and the creator's
  store gives two serving instances. `OwnerIsTheServer` shows that this is the
  only way.
* `transparent`: a request sent before the previous one is written goes out in a
  frame that starts with the previous one again, or is garbled. Until then
  requests are passed through (`PassesThrough`); the first of a burst is intact
  (`IntactWhenAlone`), and a burst leaves nothing behind (`BufferDrained`).
* `dropped_client`: the heartbeat check drops a client without telling it, and
  `server_pid_` stays set. As long as another client keeps the server up and
  beating, the dropped one takes it for its own and does not register again. (A
  server left without clients sends no heartbeats: a lone dropped client notices
  after 15 s.)

Elsewhere a property names the exception that the code makes, and holds because
it does; without the exception TLC finds a counterexample in a few steps.

* `SharedUnlessRaced`, against "Maintains single WebSocket connection": a second
  open while the first is connecting, or while the old socket is closing, starts
  a second connection (`raced`).
* `Terminates`, `ClosingSocketsGo`: an exception in a message handler ends the
  pump, and idle termination and the removal of closed sockets with it (`threw`).
* `Served`: `Quotes|Trades` after `Quotes` counts as subscribed (`mixed`); and on a
  connection the remote side has closed, SUCCESS is answered and nobody is asked
  (`link = "open"`).
* `EndsWithLastClient`: a pid that left the socket stays in the entry, and the last
  real unsubscription is swallowed (`left`); or the last request names fewer
  types than are subscribed (`narrow`).
* `NoFalseAlarm`: the worker reads the clock, the application stamps
  `last_server_heartbeat_time_` later, the unsigned age wraps, and a live server
  is reported lost (`sinceSeen < stall`); or the system clock is set between the two
  readings (`stampSkew # nowSkew`).
* `LostServerNoticed`: messages of a new server keep the stamp fresh, and a client
  of the old one never notices (`server # None`).
* `DestructorReturns`: a destructor that comes before the worker has created `run_`
  joins a thread that never ends (`run # "null"`).
* `LostSocketsAnnounced`, `QueueReplacedSafely`: `closeWebSocket` of one socket
  unregisters the client, so its other sockets are taken away without notice, and
  a `connect()` that follows may replace the queue the worker is reading (`closed`).
* `OwnAnswer`, `OwnSocket`: the ring goes round while an open is pending, and its
  result is written into another request, whose caller returns it (`overrun`).
* `UsersRegistered`: a client that left while its open was pending becomes a user of
  the new socket (`late`).

What such an exception covers is therefore not ruled out but known: the property
says that nothing else goes wrong, and the hazard's note in `PROJECT.json` says so.

Two more are modelled without a property. The 5 s timer of `shutdown()` is local to
its handler and cancelled at once, so `StopTimer` stops the loop without delay; and
the failure of an asynchronous open names a socket that never entered
`websockets_`, so nobody is called back.

### Fairness

`WebsocketProxy!FairSpec`: weak fairness of `NoEffect` (the pass of the message
pump that needs no message: the pump posts itself), `startHeartbeat`, `shutdown`
and `StopTimer`: a handler that stays posted to `ioc_` is run. Weak fairness of
the completion of an open and of a close: each step is bounded by a Beast
timeout. Weak fairness of `Tick`: the clock advances. Nothing is assumed of
clients, of the remote server, of reads and writes, of signals, or of clock steps.

`ProxyClient!FairSpec`: weak fairness of the worker's loop and of a call in
progress (`CallGoesOn`): both threads are scheduled, and every wait of a call has
a time limit or is for the worker's end. Strong fairness of `Tick`, whose guard
goes up and down with the worker's loop: time passes however busy the threads
are. Nothing is assumed of the application's calls or of servers.
`BeatingSpec` adds strong fairness of `ServerBeats`, the heartbeats of a server with
clients (`startHeartbeat`, `checkHeartbeats`), and weak fairness of the end of a
server without any (its idle countdown). Only `dropped_client` needs it, so that the
client's lasting belief is due neither to a silent server nor to one that outlives
its last client.

## 4. Proofs

All proofs are for any value of the constants that satisfies the module's named
assumption (`ConstantsAssumption`, `NobodyAssumption`, `WriterAssumption`,
`RingAssumption`, `ClientAssumption`: sizes and limits are numbers, the null value
is no process; `PassAssumption` of `ProxyClient`: see Bounds).

`WebsocketProxyProofs`, for any sets of processes and keys and any number of
connections:

* `TypeCorrect`: `Spec => []TypeOK`
* `TablesSound`: `Spec => []IndexSound`
* `SocketsTracked`: `Spec => []TableTracksSockets`
* `SocketsUsed`: `Spec => []SocketsAreUsed`
* `UsersSound`: `Spec => []UsersRegistered`
* `IdleShutdownSafe`: `Spec => []IdleShutdownOnly`
* `Shared`: `Spec => []SharedUnlessRaced`
* `SharedSocketsSurvive`: `Spec => SharedSocketSurvives`, which names who may cause a
  working socket to go: a shutdown, the departure of all its registered users, or
  the `CloseWs` of its only user

The inductive invariant `Inv` adds what the properties do not say themselves.
`StatusSound`: only sockets past connecting are in the table and only
disconnected ones in `closed_sockets_`, so that `removeClosedSockets` never
removes a live socket; a connecting socket still has its opener, which
`TypeOK` needs when the open succeeds. `NoEarlyUsers`: a socket has no users
before its open succeeds. `Exact(k)`: as long as the opens of `k` did not race,
the index of `k` names every socket of `k` in the table, so erasing by key
cannot hit another socket; from it follows `SharedUnlessRaced`. The steps are
grouped by effect: lemmas about the handlers that remove sockets
(`RemovalTables`, `RemovalSharing`), that close them (`CloseTables`,
`CloseSharing`) and that drop clients (`UnregisterUsers`), cited once per action.

`InstanceOwnerProofs` proves `TypeCorrect`, `ServerOwns`
(`Spec => []OwnerIsTheServer`) and `OwnershipKept` (`Spec =>
LiveOwnerKeepsOwnership`) for any number of instances. `TypeOK` says that
exactly the live instances hold a handle (so a fresh mapping means nobody is alive);
the invariant adds that whoever is about to replace a pid has seen that process dead, and that
before the creator's store the word is 0 and nobody serves.

`WsWriterProofs` proves, for any number of requests, `TypeCorrect`, `BurstsEnd`
(`Spec => []BufferDrained`), `AloneIntact` (`Spec => []IntactWhenAlone`) and the
refinement `PassThroughUntilOverlap` (`Spec => PassesThrough`). The
invariant: the buffer is never longer than the data of the newest write, so its
`on_write` empties it (`Covered`); frames and outstanding writes account for every
request, so the oldest write belongs to the next frame (`Counted`); only the
oldest outstanding request can have been sent alone, and then it is at the front
of the buffer (`AloneFirst`). For the refinement, `send` maps to `Accept`,
`async_write` to `Deliver` or, after the first overlap, to a stutter
(`WriteDelivers`, by `AloneFrame`: the frame is the next request), `Break` to
`Break`, and the completions to stutters.

`SubscriptionsProofs` proves, for any number of clients, symbols and types,
`TypeCorrect`, `SubscribersServed` (`Spec => []Served`) and `LastClientEnds`
(`Spec => []EndsWithLastClient`). The invariant: an entry names everybody who
wants the symbol, and otherwise only those who left (`Recorded`); what is wanted
is in `type_`, and, while the connection works, what is in `type_` was asked for
(`Asked`); without an entry
nothing is subscribed, unless the last request was too narrow (`Ended`).

`RequestRingProofs` proves, for any number of clients, slots and messages,
`TypeCorrect`, `SocketsGivenRight` (`Spec => []OwnSocket`) and `AnswersGivenRight`
(`Spec => OwnAnswer`). The invariant: whatever the ring and the references into it
name was sent (`Sent`); and until a slot in use is reserved again, a message not read
yet names its sender (`Unread`), every reference finds its own message (`Refs`), a
slot being filled is referred to by nobody else and holds nothing the server has
still to read (`Filled`), and every status answers the message it stands in
(`Answers`).

`SharedConnectionProofs` proves `Refinement` (`Spec => SharesConnections`) from the
invariant of `WebsocketProxyProofs`, for any sets of processes and keys and any
number of connections. `Exact(k)` gives `EraseExact`: erasing by key hits
the indexed socket exactly when erasing by id does. `SocketsAreUsed` makes a
deserted socket one whose users are all among the leavers, so `Unregister`,
`closeWs` and the heartbeat check are `Leave` of clients that asked for it or are not
registered any more (`Departure`), or `Cleared` when the
tail of the message pump removes the socket first. `StatusSound` makes what that
tail removes a closing connection and never one that was just joined
(`JoinSimulates`). The other steps: `openNewWs` is `Ask` (`OpenSimulates`) or, on an
unsettled key, `Apart` (`RaceSimulates`); `OpenSucceeds` is `Up`, since by `Exact` the
connecting socket is the only one (`ConnectSimulates`); a failure is `Refused` before
the connection is up and `Fails` after it (`FailSimulates`); `shutdown` is `Shutdown`.

`ProxyClientProofs` proves, for any number of servers and sockets, any length of the
queues and any limits that satisfy the assumptions, `TypeCorrect`, `Announcements`
(`Spec => []LostSocketsAnnounced`), `FalseAlarms` (`Spec => NoFalseAlarm`) and
`QueueReplacement` (`Spec => QueueReplacedSafely`). The parts of
the invariant `Inv`:

* `Awaits`: only the call in progress waits, for the request it sent last, so an
  answer that comes after a time-out is not taken for another one's;
  `RegisterAnswer`: the answer to `Register` names the server that has the client
  registered. From both follows `Registration`: that server is `server_pid_`.
* `Stamp`: when nothing is left to read, the stamp is at most as old as the
  server's silence plus one pass of the worker; at the comparison it is at most
  `HEARTBEAT_INTERVAL + MaxStall` older than the clock that was read. With
  `PassAssumption` the comparison then fails unless the difference wraps or the
  readings are of a clock set in between: `NoFalseAlarm`. It holds from the stamp on,
  before `server_pid_` is stored.
* `Session`, until the first `closeWebSocket`: a client without a server has no
  sockets and its worker does not read, which is `QueueReplacedSafely`.
* `Sockets`, until the first `closeWebSocket`: every socket the client knows, or is
  about to hear of in an `OpenWs` still to be read, is attached, was dropped with
  the client, or has its `CloseWs` behind that message. `Pids` (a server's pid is
  new) keeps messages of two servers apart.

Only model-checked: the liveness properties
(`Terminates`, `ClosingSocketsGo`, `QuietClientsReleased`, `SignalStops`,
`LostServerNoticed`, `DestructorReturns`), since the prover handles neither
fairness nor `ENABLED`.

## 5. Not modelled, and the plan

Not modelled:

* `main.cpp` (command line and logging), the example client, and third-party
  libraries beyond what the handlers see.
* Calls of the client library made from inside a callback, on the worker thread.
* Messages of different sizes in the rings, and the wrapping of the ring from the
  server to the clients.
* The grammar of URLs in the constructor of `Websocket`, beyond whether it throws.
* The reuse of process ids by the operating system.

Planned, in this order:

1. The ring from the server to the clients: a slow client that is lapped loses
   `CloseWs`, and `LostSocketsAnnounced` with it.
2. A composition of several `ProxyClient`s with `InstanceOwner` and the tables of
   `WebsocketProxy`: retries of a timed-out open, restarts under load.
