--------------------------- MODULE WebsocketProxy ---------------------------
(***************************************************************************)
(* The proxy server: class WebsocketProxy (src/src/websocket_proxy.cpp)    *)
(* together with the connections it owns, class Websocket                  *)
(* (src/src/websocket.h).                                                  *)
(*                                                                         *)
(* Everything here runs on one thread inside ioc_.run(), so one handler is *)
(* one atomic action; what interleaves is the order in which handlers run: *)
(* the client message pump (processClientMessage), the heartbeat handler   *)
(* (startHeartbeat), the completions of the asynchronous operations of     *)
(* each Websocket (open, async_read, async_write, async_close), the signal *)
(* handler and the handlers posted by shutdown().                          *)
(*                                                                         *)
(* The message a pump step reads is an input: any process may have queued  *)
(* any message the client library can send.  Time stamps are kept as ages  *)
(* (now - stamp), counted in ticks and saturated just past the limit they  *)
(* are compared with.  A request's slot of the shared ring is not reused   *)
(* before it is answered.                                                  *)
(***************************************************************************)
EXTENDS Integers

CONSTANTS
    Pid,             \* client processes
    Key,             \* (url, api_key) pairs: WebsocketKey
    BadKey,          \* keys whose url makes the Websocket constructor throw
    MaxId,           \* bound: connections the server ever creates
    CLIENT_TIMEOUT,  \* 30000 ms of checkHeartbeats, in ticks
    SHUTDOWN_DELAY,  \* 60000 ms of processClientMessage, in ticks
    None

ASSUME ConstantsAssumption ==
    /\ BadKey \subseteq Key
    /\ MaxId \in Nat
    /\ CLIENT_TIMEOUT \in Nat
    /\ SHUTDOWN_DELAY \in Nat
    /\ None \notin Pid /\ None \notin Key

Id == 1..MaxId
NoWs == 0            \* websocketsByUrlApiKey_.find() = end()
Never == -1          \* shutdown_time_ = 0

VARIABLES
    \* Tables of the server.
    clients,               \* clients_: the registered processes
    idle,                  \* age of ClientInfo::last_heartbeat_time
    websocketsById,        \* websocketsById_: ids in the table
    websocketsByUrlApiKey, \* websocketsByUrlApiKey_: Key -> id
    closed_sockets,        \* closed_sockets_: ids queued for removal
    shutdown_time,         \* age of shutdown_time_, or Never
    \* The event loop: which handlers are pending.
    run,                   \* run_
    pump,                  \* processClientMessage is posted
    beat,                  \* startHeartbeat is posted
    shutdowns,             \* posted bodies of shutdown()
    stopPosted,            \* the handler that ends in ioc_.stop() is posted
    stopped,               \* ioc_ is stopped: run() returns
    signalled,             \* SIGINT or SIGTERM has been delivered
    \* The connections.
    websocket_id,          \* websocket_id_: the last id given out
    status,                \* Websocket::status_
    key,                   \* Websocket::url_, api_key_
    opener,                \* msg.pid of the pending open request
    users,                 \* Websocket::clients_
    reading,               \* ids with an async_read outstanding
    writing,               \* ids with an async_write outstanding
    \* History, read by no guard.
    raced,    \* keys with a second open started before the first was settled
    late,     \* <<id, p>>: p's open ended in id after p had been unregistered
    threw     \* an exception has left processClientMessage

tableVars == <<clients, idle, websocketsById, websocketsByUrlApiKey,
               closed_sockets, shutdown_time>>
loopVars  == <<run, pump, beat, shutdowns, stopPosted, stopped, signalled>>
wsVars    == <<websocket_id, status, key, opener, users, reading, writing>>
histVars  == <<raced, late, threw>>
vars      == <<tableVars, loopVars, wsVars, histVars>>

Open == {"CONNECTING", "CONNECTED"}        \* status_ < DISCONNECTING
Status == Open \cup {"UNUSED", "DISCONNECTING", "DISCONNECTED"}

TypeOK ==
    /\ clients \subseteq Pid
    /\ idle \in [Pid -> 0..CLIENT_TIMEOUT + 1]
    /\ websocketsById \subseteq Id
    /\ websocketsByUrlApiKey \in [Key -> Id \cup {NoWs}]
    /\ closed_sockets \subseteq Id
    /\ shutdown_time \in Never..SHUTDOWN_DELAY
    /\ run \in BOOLEAN /\ pump \in BOOLEAN /\ beat \in BOOLEAN
    /\ shutdowns \in Nat
    /\ stopPosted \in BOOLEAN /\ stopped \in BOOLEAN /\ signalled \in BOOLEAN
    /\ websocket_id \in 0..MaxId
    /\ status \in [Id -> Status]
    /\ key \in [Id -> Key \cup {None}]
    /\ opener \in [Id -> Pid \cup {None}]
    /\ users \in [Id -> SUBSET Pid]
    /\ reading \subseteq Id /\ writing \subseteq Id
    /\ raced \subseteq Key /\ late \subseteq Id \X Pid
    /\ threw \in BOOLEAN

\* run() has taken ownership, posted its handlers and sent the first heartbeat.
Init ==
    /\ clients = {} /\ idle = [p \in Pid |-> 0]
    /\ websocketsById = {} /\ websocketsByUrlApiKey = [k \in Key |-> NoWs]
    /\ closed_sockets = {} /\ shutdown_time = Never
    /\ run = TRUE /\ pump = TRUE /\ beat = TRUE
    /\ shutdowns = 0 /\ stopPosted = FALSE /\ stopped = FALSE /\ signalled = FALSE
    /\ websocket_id = 0 /\ status = [id \in Id |-> "UNUSED"]
    /\ key = [id \in Id |-> None] /\ opener = [id \in Id |-> None]
    /\ users = [id \in Id |-> {}] /\ reading = {} /\ writing = {}
    /\ raced = {} /\ late = {} /\ threw = FALSE

-----------------------------------------------------------------------------
(* Pieces shared by several handlers.  A definition whose comment starts   *)
(* with "Mutant" is a plausible bug in the one after it: no specification  *)
(* uses it, and it shows that some property notices.                       *)

\* Mutant of Erase: the key index is left behind.
EraseIdOnly(S) ==
    /\ websocketsById' = websocketsById \ S
    /\ UNCHANGED websocketsByUrlApiKey

\* The table entries of S go: closeWs, removeClosedSockets and shutdown erase
\* the id and then whatever socket is indexed under that socket's key.
Erase(S) ==
    /\ websocketsById' = websocketsById \ S
    /\ websocketsByUrlApiKey' =
         [k \in Key |-> IF \E id \in S : key[id] = k THEN NoWs
                                                     ELSE websocketsByUrlApiKey[k]]

\* Websocket::close() called on each socket of S.
close(S) ==
    [id \in Id |-> IF id \in S /\ status[id] \in Open THEN "DISCONNECTING"
                                                       ELSE status[id]]

\* getClient(): finding the client refreshes it.
getClient(p) == idle' = [idle EXCEPT ![p] = 0]

\* Mutant of Deserted: misses a socket when more processes leave than use it.
DesertedByAll(D) == {id \in websocketsById : users[id] = D}

\* Sockets that lose their last user when the processes of D leave.
Deserted(D) ==
    {id \in websocketsById : users[id] \cap D # {} /\ users[id] \subseteq D}

\* Mutant of remainingUsers: skips the sockets that are going down.
remainingOpenUsers(D) ==
    [id \in Id |-> IF id \in websocketsById /\ status[id] \in Open THEN users[id] \ D
                                                                   ELSE users[id]]

\* clients() of every socket without the processes of D.
remainingUsers(D) ==
    [id \in Id |-> IF id \in websocketsById THEN users[id] \ D ELSE users[id]]

\* Mutant of idleSince: a stamp in seconds, compared with one in milliseconds.
idleSinceEpoch(D) ==
    IF D # {} /\ clients \subseteq D THEN SHUTDOWN_DELAY + 1 ELSE shutdown_time

\* Mutant of idleSince: any client that leaves starts the countdown.
idleSinceAnyLeft(D) == IF D # {} THEN 0 ELSE shutdown_time

\* The idle countdown starts when the last client leaves.
idleSince(D) == IF D # {} /\ clients \subseteq D THEN 0 ELSE shutdown_time

\* unregisterClient, for every process of D; the caller erases Deserted(D).
unregisterClient(D) ==
    /\ clients' = clients \ D
    /\ idle' = [p \in Pid |-> IF p \in D THEN 0 ELSE idle[p]]
    /\ users' = remainingUsers(D)
    /\ status' = close(Deserted(D))
    /\ shutdown_time' = idleSince(D)

\* Mutant of onWsClosed: the id is not queued.
onWsClosedNotQueued(id) == id \in Id /\ UNCHANGED closed_sockets

\* onWsClosed(): the CloseWs is published and the id queued for removal.
onWsClosed(id) == closed_sockets' = closed_sockets \cup {id}

-----------------------------------------------------------------------------
(* processClientMessage: one message, then removeClosedSockets, then the   *)
(* idle-shutdown check or the next post.                                   *)

Pumping == pump /\ ~stopped

\* Mutant of removeClosedSockets: the queue is drained, the tables are kept.
dropClosedSockets(S) == Erase(S) /\ closed_sockets' = {}

\* removeClosedSockets, in a handler that itself erases the sockets of S.
removeClosedSockets(S) ==
    /\ Erase(S \cup (closed_sockets \cap websocketsById))
    /\ closed_sockets' = {}

\* 60 s have passed since the last client left.
Expired == shutdown_time' # Never /\ shutdown_time' >= SHUTDOWN_DELAY

\* Mutant of PostNext: reading stops when the countdown starts.
PostNextUnlessIdle ==
    /\ pump' = (run /\ shutdown_time' = Never)
    /\ shutdowns' = IF run /\ Expired THEN shutdowns + 1 ELSE shutdowns

\* processClientMessage posts itself again, or posts the shutdown.
PostNext ==
    /\ pump' = (run /\ ~Expired)
    /\ shutdowns' = IF run /\ Expired THEN shutdowns + 1 ELSE shutdowns

\* Everything processClientMessage does after handleClientMessage, which itself
\* erases the sockets of S.
FinishMessage(S) ==
    /\ removeClosedSockets(S)
    /\ PostNext
    /\ UNCHANGED <<run, beat, stopPosted, stopped, signalled>>

\* No message, or one without effect on this state: LogLevel, WsData, WsError, or
\* a request other than Register and WsRequest from a process not registered.
NoEffect ==
    /\ Pumping
    /\ UNCHANGED <<clients, idle, shutdown_time, wsVars, histVars>>
    /\ FinishMessage({})

handleClientRegistration(p) ==
    /\ Pumping
    /\ clients' = clients \cup {p}
    /\ getClient(p)
    /\ shutdown_time' = Never
    /\ UNCHANGED <<wsVars, histVars>>
    /\ FinishMessage({})

Unregister(p) ==
    /\ Pumping /\ p \in clients
    /\ unregisterClient({p})
    /\ UNCHANGED <<websocket_id, key, opener, reading, writing, histVars>>
    /\ FinishMessage(Deserted({p}))

\* Heartbeat; also CloseWs, Subscribe or Unsubscribe that reaches no socket, and
\* a subscription for which nothing is sent.
handleClientHeartbeat(p) ==
    /\ Pumping /\ p \in clients
    /\ getClient(p)
    /\ UNCHANGED <<clients, shutdown_time, wsVars, histVars>>
    /\ FinishMessage({})

\* Mutant of Joinable: only a socket that still connects is shared.
JoinableConnecting(k) ==
    /\ websocketsByUrlApiKey[k] # NoWs
    /\ status[websocketsByUrlApiKey[k]] = "CONNECTING"

\* Mutant of Joinable: a socket on its way down is shared too.
JoinableIndexed(k) == websocketsByUrlApiKey[k] # NoWs

\* openWs finds a socket for the key that is not on its way down.
Joinable(k) ==
    /\ websocketsByUrlApiKey[k] # NoWs
    /\ status[websocketsByUrlApiKey[k]] \notin {"DISCONNECTING", "DISCONNECTED"}

JoinWs(p, k) ==
    /\ Pumping /\ p \in clients /\ Joinable(k)
    /\ getClient(p)
    /\ LET id == websocketsByUrlApiKey[k]
       IN  users' = [users EXCEPT ![id] = @ \cup {p}]
    /\ UNCHANGED <<clients, shutdown_time, websocket_id, status, key, opener,
                   reading, writing, histVars>>
    /\ FinishMessage({})

\* Another connection of k is under way, or a dying one still holds its index.
Unsettled(k) ==
    \/ websocketsByUrlApiKey[k] # NoWs /\ status[websocketsByUrlApiKey[k]] \notin Open
    \/ \E id \in Id : key[id] = k /\ status[id] = "CONNECTING"

\* The new Websocket enters no table before its open has succeeded.
openNewWs(p, k) ==
    /\ Pumping /\ p \in clients /\ ~Joinable(k) /\ k \notin BadKey
    /\ websocket_id < MaxId
    /\ getClient(p)
    /\ websocket_id' = websocket_id + 1
    /\ status' = [status EXCEPT ![websocket_id + 1] = "CONNECTING"]
    /\ key' = [key EXCEPT ![websocket_id + 1] = k]
    /\ opener' = [opener EXCEPT ![websocket_id + 1] = p]
    /\ raced' = IF Unsettled(k) THEN raced \cup {k} ELSE raced
    /\ UNCHANGED <<clients, shutdown_time, users, reading, writing,
                   late, threw>>
    /\ FinishMessage({})

\* The Websocket constructor throws (std::stoi on the port): the exception
\* leaves processClientMessage before it can post itself again; run() catches
\* it and goes on with the io_context, or returns when run_ is already FALSE.
openNewWsThrows(p, k) ==
    /\ Pumping /\ p \in clients /\ ~Joinable(k) /\ k \in BadKey
    /\ websocket_id < MaxId
    /\ getClient(p)
    /\ websocket_id' = websocket_id + 1
    /\ pump' = FALSE
    /\ stopped' = ~run
    /\ threw' = TRUE
    /\ UNCHANGED <<clients, websocketsById, websocketsByUrlApiKey, closed_sockets,
                   shutdown_time, run, beat, shutdowns, stopPosted,
                   signalled, status, key, opener, users, reading,
                   writing, raced, late>>

\* Mutant of Unused: the users are counted before p is taken off them, so that a
\* stranger's CloseWs takes the socket of a single user.
UnusedBySize(p, id) ==
    IF p \in Pid /\ \E q \in Pid : users[id] \subseteq {q} THEN {id} ELSE {}

\* The socket to close when p leaves it: id, if nobody else is left on it.
Unused(p, id) == IF users[id] \subseteq {p} THEN {id} ELSE {}

\* CloseWs.
closeWs(p, id) ==
    /\ Pumping /\ p \in clients /\ id \in websocketsById
    /\ getClient(p)
    /\ users' = [users EXCEPT ![id] = @ \ {p}]
    /\ status' = close(Unused(p, id))
    /\ UNCHANGED <<clients, shutdown_time, websocket_id, key, opener,
                   reading, writing, histVars>>
    /\ FinishMessage(Unused(p, id))

\* WsRequest on a socket of the table (Subscribe and Unsubscribe reach
\* Websocket::send the same way).
sendWsRequest(p, id) ==
    /\ Pumping /\ p \in clients /\ id \in websocketsById
    /\ getClient(p)
    /\ writing' = writing \cup {id}
    /\ UNCHANGED <<clients, shutdown_time, websocket_id, status, key,
                   opener, users, reading, histVars>>
    /\ FinishMessage({})

\* WsRequest that cannot be sent: a WsError is published.
sendWsRequestFails(p, id) ==
    /\ Pumping /\ ~(p \in clients /\ id \in websocketsById)
    /\ idle' = [idle EXCEPT ![p] = IF p \in clients THEN 0 ELSE @]
    /\ UNCHANGED <<clients, shutdown_time, wsVars, histVars>>
    /\ FinishMessage({})

-----------------------------------------------------------------------------
(* The other handlers of the proxy.                                        *)

\* Mutant of heartbeatLost: the check runs only while the message pump does.
heartbeatLostInPump == {p \in clients : pump /\ idle[p] > CLIENT_TIMEOUT}

\* The clients not heard of for more than 30 s.
heartbeatLost == {p \in clients : idle[p] > CLIENT_TIMEOUT}

\* A heartbeat is sent when one is due (not part of this state), and every
\* client that went quiet is dropped.
checkHeartbeats ==
    /\ unregisterClient(heartbeatLost)
    /\ Erase(Deserted(heartbeatLost))

startHeartbeat ==
    /\ beat /\ ~stopped
    /\ beat' = run
    /\ checkHeartbeats
    /\ UNCHANGED <<closed_sockets, run, pump, shutdowns, stopPosted, stopped,
                   signalled, websocket_id, key, opener, reading, writing, histVars>>

\* The signal_set completes once and calls shutdown(), which only posts.
Signal ==
    /\ ~stopped /\ ~signalled
    /\ signalled' = TRUE
    /\ shutdowns' = shutdowns + 1
    /\ UNCHANGED <<tableVars, run, pump, beat, stopPosted, stopped,
                   wsVars, histVars>>

\* The handler posted by shutdown().
shutdown ==
    /\ ~stopped /\ shutdowns > 0
    /\ shutdowns' = shutdowns - 1
    /\ run' = FALSE
    /\ stopPosted' = TRUE
    /\ status' = close(websocketsById)
    /\ Erase(websocketsById)
    /\ UNCHANGED <<clients, idle, closed_sockets, shutdown_time, pump,
                   beat, stopped, signalled, websocket_id, key, opener, users,
                   reading, writing, histVars>>

\* Mutant of StopTimer: waits until the table of sockets is empty.
StopWhenClosed ==
    /\ ~stopped /\ stopPosted /\ websocketsById = {}
    /\ stopped' = TRUE
    /\ UNCHANGED <<tableVars, run, pump, beat, shutdowns, stopPosted,
                   signalled, wsVars, histVars>>

\* The handler posted by shutdown()'s body creates the deadline_timer as a
\* local variable; its destructor cancels the wait, whose completion ignores
\* the error code and calls ioc_.stop().
StopTimer ==
    /\ ~stopped /\ stopPosted
    /\ stopped' = TRUE
    /\ UNCHANGED <<tableVars, run, pump, beat, shutdowns, stopPosted,
                   signalled, wsVars, histVars>>

-----------------------------------------------------------------------------
(* Completions of a Websocket's asynchronous operations.                   *)

\* The callback given by openNewWs, on success: msg.pid becomes a user, whether
\* it is still registered or not, and the socket enters both tables.
openCallback(id) ==
    /\ opener' = [opener EXCEPT ![id] = None]
    /\ users' = [users EXCEPT ![id] = @ \cup {opener[id]}]
    /\ websocketsById' = websocketsById \cup {id}
    /\ websocketsByUrlApiKey' =
         [websocketsByUrlApiKey EXCEPT ![key[id]] = IF @ = NoWs THEN id ELSE @]
    /\ late' = IF opener[id] \in clients THEN late ELSE late \cup {<<id, opener[id]>>}

\* Websocket::open reaches its end: the first read starts, the callback runs.
OpenSucceeds(id) ==
    /\ ~stopped /\ status[id] = "CONNECTING"
    /\ status' = [status EXCEPT ![id] = "CONNECTED"]
    /\ reading' = reading \cup {id}
    /\ openCallback(id)
    /\ UNCHANGED <<clients, idle, closed_sockets, shutdown_time, loopVars,
                   websocket_id, key, writing, raced, threw>>

\* fail(): publish the error and close() the socket.
fail(id) == status' = close({id})

\* resolve, connect or one of the handshakes fails: fail() answers FAILED.
OpenFails(id) ==
    /\ ~stopped /\ status[id] = "CONNECTING"
    /\ fail(id)
    /\ opener' = [opener EXCEPT ![id] = None]
    /\ UNCHANGED <<tableVars, loopVars, websocket_id, key, users, reading,
                   writing, histVars>>

on_read(id) ==
    /\ ~stopped /\ id \in reading
    /\ reading' = IF status[id] = "CONNECTED" THEN reading ELSE reading \ {id}
    /\ UNCHANGED <<tableVars, loopVars, websocket_id, status, key, opener, users,
                   writing, histVars>>

on_read_error(id) ==
    /\ ~stopped /\ id \in reading /\ status[id] # "DISCONNECTED"
    /\ fail(id)
    /\ reading' = reading \ {id}
    /\ UNCHANGED <<tableVars, loopVars, websocket_id, key, opener, users,
                   writing, histVars>>

\* closed, eof or operation_aborted: on_read just returns.  On a connected
\* socket this is the remote server closing the connection.
on_read_ignored(id) ==
    /\ ~stopped /\ id \in reading
    /\ reading' = reading \ {id}
    /\ UNCHANGED <<tableVars, loopVars, websocket_id, status, key, opener,
                   users, writing, histVars>>

\* Written, or failed with an error on_write ignores.
on_write(id) ==
    /\ ~stopped /\ id \in writing
    /\ writing' = writing \ {id}
    /\ UNCHANGED <<tableVars, loopVars, websocket_id, status, key, opener,
                   users, reading, histVars>>

on_write_error(id) ==
    /\ ~stopped /\ id \in writing /\ status[id] # "DISCONNECTED"
    /\ fail(id)
    /\ writing' = writing \ {id}
    /\ UNCHANGED <<tableVars, loopVars, websocket_id, key, opener, users,
                   reading, histVars>>

\* async_close completes, with or without an error.
on_close(id) ==
    /\ ~stopped /\ status[id] = "DISCONNECTING"
    /\ status' = [status EXCEPT ![id] = "DISCONNECTED"]
    /\ onWsClosed(id)
    /\ UNCHANGED <<clients, idle, websocketsById, websocketsByUrlApiKey,
                   shutdown_time, loopVars, websocket_id, key, opener, users,
                   reading, writing, histVars>>

\* Time passes; every age saturates just past the limit it is compared with.
Tick ==
    /\ ~stopped
    /\ idle' = [p \in Pid |-> IF p \in clients /\ idle[p] <= CLIENT_TIMEOUT
                              THEN idle[p] + 1 ELSE idle[p]]
    /\ shutdown_time' = IF shutdown_time \in 0..(SHUTDOWN_DELAY - 1)
                        THEN shutdown_time + 1 ELSE shutdown_time
    /\ UNCHANGED <<clients, websocketsById, websocketsByUrlApiKey, closed_sockets,
                   loopVars, wsVars, histVars>>

\* get_timestamp() is the system clock: when it is set back past a stamp, the
\* unsigned now - stamp is huge.  Every client looks silent, and an idle
\* countdown that runs looks over.
ClockSetBack ==
    /\ ~stopped
    /\ idle' = [p \in Pid |-> IF p \in clients THEN CLIENT_TIMEOUT + 1 ELSE idle[p]]
    /\ shutdown_time' = IF shutdown_time = Never THEN Never ELSE SHUTDOWN_DELAY
    /\ UNCHANGED <<clients, websocketsById, websocketsByUrlApiKey, closed_sockets,
                   loopVars, wsVars, histVars>>

-----------------------------------------------------------------------------
processClientMessage ==
    \/ NoEffect
    \/ \E p \in Pid :
          \/ handleClientRegistration(p)
          \/ Unregister(p)
          \/ handleClientHeartbeat(p)
          \/ \E k \in Key : JoinWs(p, k) \/ openNewWs(p, k) \/ openNewWsThrows(p, k)
          \/ \E id \in Id : closeWs(p, id) \/ sendWsRequest(p, id)
                            \/ sendWsRequestFails(p, id)

OpenCompletes(id) == OpenSucceeds(id) \/ OpenFails(id)
ReadCompletes(id) == on_read(id) \/ on_read_error(id) \/ on_read_ignored(id)
WriteCompletes(id) == on_write(id) \/ on_write_error(id)

Next ==
    \/ processClientMessage
    \/ startHeartbeat
    \/ Signal \/ shutdown \/ StopTimer
    \/ \E id \in Id : OpenCompletes(id) \/ ReadCompletes(id)
                      \/ WriteCompletes(id) \/ on_close(id)
    \/ Tick \/ ClockSetBack

Spec == Init /\ [][Next]_vars

\* A handler that stays posted runs, an asynchronous open or close completes
\* (each is bounded by a Beast timeout), and time passes.  Nothing is assumed of
\* clients, of the remote server, of reads and writes, or of signals: of the
\* steps of the message pump only the one that needs no message is fair.
Fairness ==
    /\ WF_vars(NoEffect) /\ WF_vars(startHeartbeat)
    /\ WF_vars(shutdown) /\ WF_vars(StopTimer) /\ WF_vars(Tick)
    /\ \A id \in Id : WF_vars(OpenCompletes(id)) /\ WF_vars(on_close(id))

FairSpec == Spec /\ Fairness

-----------------------------------------------------------------------------
(* Safety.                                                                 *)

\* The key index never dangles: what websocketsByUrlApiKey_ holds for a key is
\* a socket of that key that websocketsById_ holds too, although the index is
\* erased by key and filled with emplace(), which keeps an older entry.
IndexSound ==
    \A k \in Key : websocketsByUrlApiKey[k] # NoWs =>
        /\ websocketsByUrlApiKey[k] \in websocketsById
        /\ key[websocketsByUrlApiKey[k]] = k

\* No connection is lost while it is up, and none outlives its end: a connected
\* socket is in websocketsById_, and a disconnected one is still there only
\* while closed_sockets_ holds its id for removeClosedSockets.
TableTracksSockets ==
    \A id \in Id :
        /\ status[id] = "CONNECTED" => id \in websocketsById
        /\ id \in websocketsById /\ status[id] = "DISCONNECTED" => id \in closed_sockets

\* A socket stays in the table only while somebody uses it: CloseWs, Unregister
\* and a lost heartbeat each close a socket whose last client they remove.
SocketsAreUsed == \A id \in websocketsById : users[id] # {}

\* The users of a socket are registered clients; the one exception is a client
\* that was unregistered while its own open was still connecting (the callback
\* of openNewWs adds msg.pid without asking getClient again).
UsersRegistered ==
    \A id \in websocketsById :
        \A p \in users[id] : p \in clients \/ <<id, p>> \in late

\* The idle countdown runs only without clients, and without a signal the proxy
\* winds down only when nobody is registered and nobody can register any more.
IdleShutdownOnly ==
    /\ clients # {} => shutdown_time = Never
    /\ (shutdowns > 0 \/ ~run) /\ ~signalled => clients = {} /\ ~pump

Live(k) == {id \in Id : key[id] = k /\ status[id] \in Open}

\* Clients share one connection per (url, api_key), as long as no open of the
\* key was started while another one was connecting or going down.
SharedUnlessRaced ==
    \A k \in Key \ raced : \A i, j \in Live(k) : i = j

\* A socket that still works is taken out of the table by a shutdown, when none of
\* its users is registered any more, or by the CloseWs of its only user: never
\* under a client that stays, whatever request or silence of another causes it.
SharedSocketSurvives ==
    [][\A id \in websocketsById \ websocketsById' :
          \/ status[id] = "DISCONNECTED" \/ ~run'
          \/ users[id] \cap clients' = {}
          \/ \E p \in Pid : users[id] = {p} /\ closeWs(p, id)]_vars

\* The connection of k as its clients see it: the indexed socket, or the open of
\* k that is in progress.
Indexed(k) == websocketsByUrlApiKey[k]
Link(k) ==
    IF Indexed(k) = NoWs THEN "down"
    ELSE IF status[Indexed(k)] \in Open THEN "up" ELSE "closing"
Members(k) == IF Indexed(k) = NoWs THEN {} ELSE users[Indexed(k)]
Asking(k) == {opener[id] : id \in {i \in Id : key[i] = k /\ status[i] = "CONNECTING"}}

Connection(k) == INSTANCE SharedConnection
    WITH link <- Link(k), members <- Members(k), asking <- Asking(k),
         serving <- run, apart <- (k \in raced), present <- clients

\* Openers, joiners, leavers, lost clients, failures and removals of a key add up to
\* one shared connection, although openWs finds it by key, closeWs by id, and a
\* failed one is cleared away a message later; until an open races (raced).
SharesConnections ==
    /\ \A k \in Key : Connection(k)!Init
    /\ [][\A k \in Key : [Connection(k)!Next]_(Connection(k)!vars)]_vars

-----------------------------------------------------------------------------
(* Liveness, of FairSpec.                                                  *)

\* "Server ... terminates when all clients disconnect" (README.md:15), unless a
\* new one comes or an exception has ended the message pump.
Terminates == (shutdown_time # Never) ~> (stopped \/ clients # {} \/ threw)

\* A socket that fails or is told to close leaves the tables, so that the next
\* open of its key gets a fresh connection and is not refused for ever; again
\* unless an exception has ended the message pump.
ClosingSocketsGo ==
    \A id \in Id : (status[id] = "DISCONNECTING") ~> (id \notin websocketsById \/ stopped \/ threw)

\* A client that falls silent is given up: until it is heard again or no socket
\* of the table counts it as a user, the heartbeat check stays after it, even
\* when the message pump has died.
QuietClientsReleased ==
    \A p \in Pid :
        (p \in clients /\ idle[p] > CLIENT_TIMEOUT)
            ~> \/ p \in clients /\ idle[p] = 0
               \/ \A id \in websocketsById : p \notin users[id]
               \/ stopped

\* SIGINT or SIGTERM ends the proxy, whatever becomes of the message pump.
SignalStops == signalled ~> stopped

-----------------------------------------------------------------------------
(* What the repository says of the proxy and the code does not do.         *)

\* "Called when WebSocket connection closes" (README.md:241, of
\* onWebsocketClosed): when the remote server closes a connection, which ends
\* its reading, its users are sent the CloseWs that on_close publishes.
RemoteCloseAnnounced ==
    \A p \in Pid, id \in Id :
        (status[id] = "CONNECTED" /\ id \notin reading /\ p \in users[id])
            ~> (p \notin users[id] \/ status[id] = "DISCONNECTED" \/ ~run)
=============================================================================
