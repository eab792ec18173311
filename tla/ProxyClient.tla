----------------------------- MODULE ProxyClient -----------------------------
(***************************************************************************)
(* The client library: class WebsocketProxyClient                          *)
(* (src/include/websocket_proxy/websocket_proxy_client.h) in one process,  *)
(* with the proxy servers it may meet.                                     *)
(*                                                                         *)
(* Two threads share the object: the application's, which calls the        *)
(* methods, and the worker (doWork), which reads server_queue_ and watches *)
(* for a lost server.  Nothing but server_pid_ and *run_ is atomic, so one *)
(* action is one stretch of code between two accesses that the other       *)
(* thread may get in between.  The servers are external: what the client   *)
(* sees of src/src/websocket_proxy.cpp (module WebsocketProxy).            *)
(*                                                                         *)
(* Time stamps are ages in ticks.  The worker compares the time it read at *)
(* the top of its loop, `stall' ticks ago, with a stamp that is `sinceSeen'*)
(* ticks old.  Both are readings of the system clock, which may be set     *)
(* forward or back in between: stampSkew and nowSkew are what it has been  *)
(* moved by since each reading.                                            *)
(***************************************************************************)
EXTENDS Integers, Sequences

CONSTANTS
    HEARTBEAT_TIMEOUT,   \* 15000 ms, in ticks
    HEARTBEAT_INTERVAL,  \* 500 ms, in ticks: a live server is never longer silent
    WORD,                \* 2^64, the modulus of uint64_t, scaled down
    SetAhead,    \* by how much the system clock may be set ahead
    SetBack,     \* by how much it may be set back
    MaxBack,     \* bound: of the latter
    MaxStall,    \* bound: ticks of one pass of the worker's loop
    MaxServers,  \* bound: servers that ever start
    MaxId,       \* bound: sockets the servers ever open for the client
    MaxQueue     \* bound: messages unread in either queue

ASSUME ClientAssumption ==
    /\ {HEARTBEAT_TIMEOUT, HEARTBEAT_INTERVAL, WORD, MaxStall, MaxServers, MaxId,
        MaxQueue, MaxBack} \subseteq Nat
    /\ HEARTBEAT_TIMEOUT + MaxStall + MaxBack + 1 < WORD
    /\ SetBack \subseteq 0..MaxBack
    /\ SetAhead \subseteq 0..(WORD - (HEARTBEAT_TIMEOUT + MaxStall + MaxBack + 1))

\* 500 ms and one pass of the worker's loop are less than 15000 ms: the worker is
\* not held up for more than 14.5 s between reading its clock and using it.
ASSUME PassAssumption == HEARTBEAT_INTERVAL + MaxStall <= HEARTBEAT_TIMEOUT

Server == 1..MaxServers    \* pids of servers, in the order of their start
Id == 1..MaxId             \* ids of sockets (pid_ * 10000 + n: never reused)
None == 0

ClockSteps == SetAhead \cup {-d : d \in SetBack}

\* Ages are not told apart beyond what every clock setting leaves past the limit.
MaxAge == HEARTBEAT_TIMEOUT + MaxStall + MaxBack + 1

VARIABLES
    \* The object.
    app,         \* where the application thread is
    sync,        \* it is inside openWebSocket, not openWebSocketAsync
    worker,      \* where the worker thread is
    loaded,      \* the worker's local server_pid, while it is needed
    run,         \* run_: null, TRUE or FALSE
    server_pid,  \* server_pid_
    websockets,  \* websockets_
    client_queue,  \* client_queue_ is not null
    sinceSeen,   \* age of last_server_heartbeat_time_
    stampSkew,   \* what the clock was moved by since
    stall,       \* age of the worker's local now
    nowSkew,     \* what the clock was moved by since
    \* The queues.
    requests,    \* client_queue_: not read by the server yet
    reply,       \* status and data of the request the application waits for
    inbox,       \* server_queue_: not read by the client yet
    \* The servers.
    server,      \* pid of the running server, or None
    starts,      \* servers started so far
    peers,       \* it is "starting", or has "none" or "some" other clients registered
    silent,      \* ticks since the server last published, while the client is registered
    registered,  \* the client is in clients_
    sockets,     \* sockets of the client's that are up, perhaps only for others now
    attached,    \* those that have the client among their users
    opening,     \* <<id, awaited>>: opens in progress
    lastId,      \* the last id given out
    \* History, read by no guard.
    closed,      \* the application has called closeWebSocket
    dropped      \* ids whose server dropped the client

appVars == <<app, sync>>
workerVars == <<worker, loaded, stall, nowSkew>>
stampVars == <<sinceSeen, stampSkew>>
sharedVars == <<run, server_pid, websockets, client_queue, stampVars>>
clientVars == <<appVars, workerVars, sharedVars>>
queueVars == <<requests, reply, inbox>>
processVars == <<server, starts, peers>>
tableVars == <<registered, sockets, attached, opening, lastId>>
serverVars == <<processVars, silent, tableVars>>
histVars == <<closed, dropped>>
vars == <<clientVars, queueVars, serverVars, histVars>>

Request == [kind : {"Register", "Unregister", "OpenWs", "CloseWs"},
            id : Id \cup {None}, awaited : BOOLEAN]
Message == [pid : Server, kind : {"Heartbeat"}, id : {None}]
               \cup [pid : Server, kind : {"OpenWs", "CloseWs", "WsError"}, id : Id]
Reply == [status : {"PENDING", "SUCCESS", "FAILED"}, val : Server \cup Id \cup {None}]
Pending == [status |-> "PENDING", val |-> None]

ClientType ==
    /\ app \in {"idle", "spawn", "queue", "register", "stamped", "open", "close", "join",
               "destroyed"}
    /\ worker \in {"none", "start", "top", "read", "check", "exited"}
    /\ sync \in BOOLEAN /\ closed \in BOOLEAN /\ client_queue \in BOOLEAN
    /\ run \in {"null", "TRUE", "FALSE"}
    /\ loaded \in Server \cup {None} /\ server_pid \in Server \cup {None}
    /\ websockets \subseteq Id
    /\ sinceSeen \in 0..MaxAge /\ stall \in 0..MaxStall
    /\ stampSkew \in ClockSteps \cup {0} /\ nowSkew \in ClockSteps \cup {0}

QueueType == requests \in Seq(Request) /\ reply \in Reply /\ inbox \in Seq(Message)

ServerType ==
    /\ server \in Server \cup {None} /\ starts \in 0..MaxServers
    /\ silent \in 0..HEARTBEAT_INTERVAL /\ peers \in {"starting", "none", "some"}
    /\ registered \in BOOLEAN /\ attached \subseteq sockets /\ sockets \subseteq Id
    /\ opening \subseteq Id \X BOOLEAN /\ lastId \in 0..MaxId
    /\ dropped \subseteq Id

TypeOK == ClientType /\ QueueType /\ ServerType

Init ==
    /\ app = "idle" /\ sync = FALSE
    /\ worker = "none" /\ loaded = None /\ run = "null" /\ server_pid = None
    /\ websockets = {} /\ client_queue = FALSE
    /\ sinceSeen = 0 /\ stampSkew = 0 /\ stall = 0 /\ nowSkew = 0
    /\ requests = <<>> /\ reply = Pending /\ inbox = <<>>
    /\ server = None /\ starts = 0 /\ peers = "none" /\ silent = 0
    /\ registered = FALSE /\ sockets = {} /\ attached = {} /\ opening = {} /\ lastId = 0
    /\ closed = FALSE /\ dropped = {}

-----------------------------------------------------------------------------
(* The application thread.  A definition whose comment starts with         *)
(* "Mutant" is a plausible bug in the one after it: no specification uses  *)
(* it.                                                                     *)

\* reserveMessage and sendMessage; awaited if the caller waits for the answer.
sendMessage(kind, id, awaited) ==
    /\ requests' = Append(requests, [kind |-> kind, id |-> id, awaited |-> awaited])
    /\ reply' = Pending

Room == Len(requests) < MaxQueue

\* The application is between two calls.
Return == app' = "idle" /\ sync' = FALSE

\* sendOpenMessage when the client is connected.
sendOpenMessage(wait) ==
    /\ sendMessage("OpenWs", None, wait)
    /\ IF wait THEN app' = "open" /\ sync' = TRUE ELSE Return

\* openWebSocket and openWebSocketAsync; connect() starts the worker once.
openWebSocket(wait) ==
    /\ app = "idle" /\ Room
    /\ IF server_pid # None
       THEN sendOpenMessage(wait) /\ UNCHANGED worker
       ELSE /\ app' = "spawn" /\ sync' = wait
            /\ worker' = IF worker = "none" THEN "start" ELSE worker
            /\ UNCHANGED <<requests, reply>>
    /\ UNCHANGED <<loaded, stall, nowSkew, sharedVars, inbox, serverVars, histVars>>

\* A new server process, spawned by this client or by another one; what its
\* predecessor had not read is never read (client_index_ starts at the end).
StartServer ==
    /\ server = None /\ starts < MaxServers
    /\ server' = starts + 1 /\ starts' = starts + 1 /\ peers' = "starting"
    /\ requests' = <<>>

\* spawnWebsocketsProxyServer: no server is running ...
spawnWebsocketsProxyServer ==
    /\ app = "spawn"
    /\ StartServer
    /\ app' = "queue"
    /\ UNCHANGED <<sync, workerVars, sharedVars, reply, inbox, silent, tableVars, histVars>>

\* ... or one is.
ServerRunning ==
    /\ app = "spawn" /\ server # None
    /\ app' = "queue"
    /\ UNCHANGED <<sync, workerVars, sharedVars, queueVars, serverVars, histVars>>

\* CreateProcess fails, or the queues cannot be opened.
connectFails ==
    /\ app \in {"spawn", "queue"}
    /\ Return
    /\ UNCHANGED <<workerVars, sharedVars, queueVars, serverVars, histVars>>

\* The queues are opened, replacing the previous objects, and reading starts at
\* the end.
replaceQueues == inbox' = <<>> /\ client_queue' = TRUE

\* A queue never used makes the client wait for its first message, which does not
\* come.
serverNotReady ==
    /\ app = "queue"
    /\ replaceQueues
    /\ Return
    /\ UNCHANGED <<workerVars, run, server_pid, websockets, stampVars, requests, reply,
                   serverVars, histVars>>

\* Or it comes, or was not needed, and _register sends its request.
openQueues ==
    /\ app = "queue" /\ Room
    /\ replaceQueues
    /\ sendMessage("Register", None, TRUE)
    /\ app' = "register"
    /\ UNCHANGED <<sync, workerVars, run, server_pid, websockets, stampVars, serverVars,
                   histVars>>

Answered == reply.status # "PENDING"

\* waitForResponse gives up: nobody looks at the answer any more.
giveUp ==
    /\ app \in {"register", "open", "close"} /\ ~Answered
    /\ Return
    /\ requests' = [i \in DOMAIN requests |-> [requests[i] EXCEPT !.awaited = FALSE]]
    /\ opening' = {<<o[1], FALSE>> : o \in opening}
    /\ UNCHANGED <<workerVars, sharedVars, reply, inbox, processVars, silent,
                   registered, sockets, attached, lastId, histVars>>

\* last_server_heartbeat_time_ = get_timestamp(), in the application thread.
stampNow == sinceSeen' = 0 /\ stampSkew' = 0

\* _register is answered: it stamps ...
RegisterAnswered ==
    /\ app = "register" /\ Answered
    /\ stampNow
    /\ app' = "stamped"
    /\ UNCHANGED <<sync, workerVars, run, server_pid, websockets, client_queue, queueVars,
                   serverVars, histVars>>

\* ... and then stores the server's pid; the open request that made it necessary
\* follows.
Registered ==
    /\ app = "stamped" /\ Room
    /\ server_pid' = reply.val
    /\ sendOpenMessage(sync)
    /\ UNCHANGED <<workerVars, run, websockets, client_queue, stampVars, inbox, serverVars,
                   histVars>>

\* openWebSocket is answered, with success or not.
Opened ==
    /\ app = "open" /\ Answered
    /\ Return
    /\ reply' = Pending
    /\ stampNow
    /\ UNCHANGED <<workerVars, run, server_pid, websockets, client_queue, requests, inbox,
                   serverVars, histVars>>

\* closeWebSocket(id), connected or not; id_, which stands for id = 0, is never set.
\* Before the first connect() it is undefined: client_queue_ is null.
closeWebSocket(id) ==
    /\ app = "idle" /\ Room /\ client_queue
    /\ sendMessage("CloseWs", id, TRUE)
    /\ app' = "close"
    /\ closed' = TRUE
    /\ UNCHANGED <<sync, workerVars, sharedVars, inbox, serverVars, dropped>>

\* unregister().
unregister ==
    /\ sendMessage("Unregister", None, FALSE)
    /\ server_pid' = None

\* closeWebSocket is answered: whatever it closed, the client unregisters.
Closed ==
    /\ app = "close" /\ Answered /\ Room
    /\ Return
    /\ unregister
    /\ UNCHANGED <<workerVars, run, websockets, client_queue, stampVars, inbox, serverVars,
                   histVars>>

\* Mutant of stopWorker: the flag is cleared only while connected.
stopWorkerIfConnected == IF run = "TRUE" /\ server_pid # None THEN "FALSE" ELSE run

\* The flag of the worker is cleared, if the worker has made one.
stopWorker == IF run = "null" THEN run ELSE "FALSE"

\* The destructor, up to join().
Destroy ==
    /\ app = "idle" /\ Room
    /\ IF server_pid # None THEN unregister ELSE UNCHANGED <<requests, reply, server_pid>>
    /\ run' = stopWorker
    /\ app' = IF worker = "none" THEN "destroyed" ELSE "join"
    /\ UNCHANGED <<sync, workerVars, websockets, client_queue, stampVars, inbox, serverVars,
                   histVars>>

Joined ==
    /\ app = "join" /\ worker = "exited"
    /\ app' = "destroyed"
    /\ UNCHANGED <<sync, workerVars, sharedVars, queueVars, serverVars, histVars>>

-----------------------------------------------------------------------------
(* The worker thread: doWork().                                            *)

WorkerStarts ==
    /\ worker = "start"
    /\ run' = "TRUE" /\ worker' = "top"
    /\ UNCHANGED <<appVars, loaded, stall, nowSkew, server_pid, websockets, client_queue,
                   stampVars, queueVars, serverVars, histVars>>

\* The flag is read, then server_pid_, then the clock.
enterLoop ==
    /\ IF run = "FALSE" THEN worker' = "exited" /\ UNCHANGED loaded
                        ELSE worker' = "read" /\ loaded' = server_pid
    /\ UNCHANGED <<appVars, stall, nowSkew, sharedVars, queueVars, serverVars, histVars>>

\* Mutant of WorkerLoads: reads without being connected.
WorkerLoadsAnyway == worker = "top" /\ enterLoop

\* The top of the loop.  (Not connected: it sleeps 250 ms, and looks again.)
WorkerLoads ==
    /\ worker = "top" /\ (run = "FALSE" \/ server_pid # None)
    /\ enterLoop

\* The end of one pass.
NextPass == worker' = "top" /\ loaded' = None /\ stall' = 0 /\ nowSkew' = 0

\* Mutant of handled: the type of the message is not looked at.
handledAnyKind(m) == websockets \cup {m.id}

\* Mutant of handled: CloseWs has no case.
handledOpenOnly(m) == IF m.kind = "OpenWs" THEN websockets \cup {m.id} ELSE websockets

\* handleWsOpen and handleWsClose; handleWsError and handleWsData only call back.
handled(m) ==
    CASE m.kind = "OpenWs"  -> websockets \cup {m.id}
      [] m.kind = "CloseWs" -> websockets \ {m.id}
      [] OTHER              -> websockets

\* A message is read; whoever sent it, the server counts as seen.  A message of
\* another server than the one loaded is dropped.
WorkerReads ==
    /\ worker = "read" /\ inbox # <<>>
    /\ LET m == Head(inbox)
       IN  websockets' = IF m.pid = loaded THEN handled(m) ELSE websockets
    /\ inbox' = Tail(inbox)
    /\ sinceSeen' = stall /\ stampSkew' = nowSkew
    /\ NextPass
    /\ UNCHANGED <<appVars, run, server_pid, client_queue, requests, reply, serverVars, histVars>>

WorkerReadsNothing ==
    /\ worker = "read" /\ inbox = <<>>
    /\ worker' = "check"
    /\ UNCHANGED <<appVars, loaded, stall, nowSkew, sharedVars, queueVars, serverVars,
                   histVars>>

\* now - last_server_heartbeat_time_, in unsigned arithmetic.
elapsed == (sinceSeen + stampSkew - (stall + nowSkew)) % WORD

\* Mutant of TimedOut: off by one.
TimedOutEarly == elapsed >= HEARTBEAT_TIMEOUT

\* Mutant of TimedOut: looks at last_heartbeat_time_, which the client's own
\* heartbeats keep fresh.
TimedOutOwnHeartbeat == HEARTBEAT_INTERVAL > HEARTBEAT_TIMEOUT

\* The server has not been heard of for more than 15 s.
TimedOut == elapsed > HEARTBEAT_TIMEOUT

\* onWebsocketProxyServerDisconnected, and onWebsocketClosed for every socket.
Disconnected ==
    /\ worker = "check" /\ TimedOut
    /\ server_pid' = None
    /\ websockets' = {}
    /\ NextPass
    /\ UNCHANGED <<appVars, run, client_queue, stampVars, queueVars, serverVars, histVars>>

StillConnected ==
    /\ worker = "check" /\ ~TimedOut
    /\ NextPass
    /\ UNCHANGED <<appVars, sharedVars, queueVars, serverVars, histVars>>

-----------------------------------------------------------------------------
(* The servers.                                                            *)

\* A message is published in the queue, in order.
Published(kind, id) ==
    /\ Len(inbox) < MaxQueue
    /\ inbox' = Append(inbox, [pid |-> server, kind |-> kind, id |-> id])
    /\ silent' = 0

Quiet == UNCHANGED <<inbox, silent>>

answer(awaited, status, val) ==
    reply' = IF awaited THEN [status |-> status, val |-> val] ELSE reply

\* The server reads a request of the client, once it has sent its first heartbeat.
ServerReads ==
    /\ server # None /\ peers # "starting" /\ requests # <<>>
    /\ requests' = Tail(requests)
    /\ LET r == Head(requests)
       IN  \/ /\ r.kind = "Register"
              /\ registered' = TRUE
              /\ answer(r.awaited, "SUCCESS", server)
              /\ Quiet /\ UNCHANGED <<sockets, attached, opening, lastId>>
           \/ /\ r.kind = "Unregister"
              /\ registered' = FALSE /\ attached' = {} /\ silent' = 0
              /\ UNCHANGED <<inbox, reply, sockets, opening, lastId>>
           \/ \* openNewWs: the answer comes when the connection is up, or is not.
              /\ r.kind = "OpenWs" /\ registered /\ lastId < MaxId
              /\ lastId' = lastId + 1
              /\ opening' = opening \cup {<<lastId + 1, r.awaited>>}
              /\ Quiet /\ UNCHANGED <<reply, registered, sockets, attached>>
           \/ \* openWs of a socket that is up.
              /\ r.kind = "OpenWs" /\ registered
              /\ \E id \in sockets : /\ Published("OpenWs", id)
                                     /\ answer(r.awaited, "SUCCESS", id)
                                     /\ attached' = attached \cup {id}
              /\ UNCHANGED <<registered, sockets, opening, lastId>>
           \/ \* openWs of a client that is not registered.
              /\ r.kind = "OpenWs" /\ ~registered
              /\ answer(r.awaited, "FAILED", None)
              /\ Quiet /\ UNCHANGED tableVars
           \/ /\ r.kind = "CloseWs"
              /\ attached' = IF registered THEN attached \ {r.id} ELSE attached
              /\ answer(r.awaited, "SUCCESS", None)
              /\ Quiet /\ UNCHANGED <<registered, sockets, opening, lastId>>
    /\ UNCHANGED <<clientVars, processVars, histVars>>

\* An open ends: OpenWs and SUCCESS ...
OpenSucceeds(o) ==
    /\ server # None /\ o \in opening
    /\ opening' = opening \ {o}
    /\ Published("OpenWs", o[1])
    /\ answer(o[2], "SUCCESS", o[1])
    /\ sockets' = sockets \cup {o[1]} /\ attached' = attached \cup {o[1]}
    /\ UNCHANGED <<clientVars, requests, processVars, registered, lastId, histVars>>

\* ... or WsError and FAILED.
OpenFails(o) ==
    /\ server # None /\ o \in opening
    /\ opening' = opening \ {o}
    /\ Published("WsError", o[1])
    /\ answer(o[2], "FAILED", o[1])
    /\ UNCHANGED <<clientVars, requests, processVars, registered, sockets, attached,
                   lastId, histVars>>

\* The heartbeat that run() sends before anything else.
ServerGreets ==
    /\ server # None /\ peers = "starting"
    /\ Published("Heartbeat", None)
    /\ peers' = "none"
    /\ UNCHANGED <<clientVars, requests, reply, server, starts, tableVars, histVars>>

\* A heartbeat, or anything else that changes nothing in the client; without a
\* client checkHeartbeats sends none.
ServerBeats ==
    /\ server # None /\ (registered \/ peers = "some")
    /\ Published("Heartbeat", None)
    /\ UNCHANGED <<clientVars, requests, reply, processVars, tableVars, histVars>>

\* A socket is closed, for lack of users or under them; on_close tells all.
SocketEnds(id) ==
    /\ server # None /\ id \in sockets
    /\ sockets' = sockets \ {id} /\ attached' = attached \ {id}
    /\ Published("CloseWs", id)
    /\ UNCHANGED <<clientVars, requests, reply, processVars, registered, opening,
                   lastId, histVars>>

\* checkHeartbeats drops the client, which is not told.
ServerDrops ==
    /\ server # None /\ registered
    /\ registered' = FALSE /\ attached' = {} /\ silent' = 0
    /\ dropped' = dropped \cup attached
    /\ UNCHANGED <<clientVars, queueVars, processVars, sockets, opening, lastId, closed>>

\* The server crashes, or terminates.
ServerEnds ==
    /\ server # None
    /\ server' = None /\ peers' = "none" /\ silent' = 0
    /\ registered' = FALSE /\ sockets' = {} /\ attached' = {} /\ opening' = {}
    /\ UNCHANGED <<clientVars, queueVars, starts, lastId, histVars>>

\* Other clients register with the server, or the last of them leaves it.
PeersChange ==
    /\ server # None /\ peers # "starting"
    /\ peers' = IF peers = "none" THEN "some" ELSE "none"
    /\ UNCHANGED <<clientVars, queueVars, server, starts, silent, tableVars, histVars>>

\* Another client spawns a server.
ServerStarts ==
    /\ StartServer
    /\ UNCHANGED <<clientVars, reply, inbox, silent, tableVars, histVars>>

\* Time passes, no faster than the worker's loop and a live server's heartbeat.
Tick ==
    /\ worker \in {"read", "check"} => stall < MaxStall
    /\ registered => silent < HEARTBEAT_INTERVAL
    /\ worker = "top" => server_pid = None /\ run # "FALSE"
    /\ stall' = IF worker \in {"read", "check"} THEN stall + 1 ELSE stall
    /\ sinceSeen' = IF sinceSeen < MaxAge THEN sinceSeen + 1 ELSE sinceSeen
    /\ silent' = IF registered THEN silent + 1 ELSE silent
    /\ UNCHANGED <<appVars, worker, loaded, nowSkew, run, server_pid, websockets,
                   client_queue, stampSkew, queueVars, processVars, tableVars, histVars>>

\* get_timestamp() reads the system clock, and somebody sets it.  (Bound: not again
\* before the readings it was set after are forgotten.)
ClockSet ==
    /\ stampSkew = 0 /\ nowSkew = 0
    /\ \E d \in ClockSteps :
          /\ stampSkew' = d
          /\ nowSkew' = IF worker \in {"read", "check"} THEN d ELSE 0
    /\ UNCHANGED <<appVars, worker, loaded, stall, run, server_pid, websockets,
                   client_queue, sinceSeen, queueVars, serverVars, histVars>>

-----------------------------------------------------------------------------
\* A method called by the application goes on until it returns.
CallGoesOn ==
    \/ spawnWebsocketsProxyServer \/ ServerRunning \/ connectFails \/ openQueues
    \/ serverNotReady \/ giveUp \/ RegisterAnswered \/ Registered \/ Opened \/ Closed \/ Joined

Application ==
    \/ \E wait \in BOOLEAN : openWebSocket(wait)
    \/ \E id \in Id \cup {None} : closeWebSocket(id)
    \/ Destroy
    \/ CallGoesOn

doWork ==
    \/ WorkerStarts \/ WorkerLoads
    \/ WorkerReads \/ WorkerReadsNothing \/ Disconnected \/ StillConnected

Environment ==
    \/ ServerReads \/ ServerGreets \/ ServerBeats \/ ServerDrops \/ PeersChange
    \/ ServerEnds \/ ServerStarts
    \/ \E o \in opening : OpenSucceeds(o) \/ OpenFails(o)
    \/ \E id \in Id : SocketEnds(id)

\* Nothing is left to look at once the object is destroyed.
Exists == app # "destroyed"

Next == Exists /\ (Application \/ doWork \/ Environment \/ Tick \/ ClockSet)

Spec == Init /\ [][Next]_vars

\* Both threads run, every wait of a call having a time limit or ending with the
\* worker; time passes however busy they are.  Nothing is assumed of what the
\* application calls or of any server.
FairSpec ==
    Spec /\ WF_vars(doWork) /\ WF_vars(CallGoesOn) /\ SF_vars(Exists /\ Tick)

\* The same, and a server with clients sends its heartbeats, while one without any
\* ends (60 s after the last has left).
BeatingSpec ==
    /\ FairSpec
    /\ SF_vars(Exists /\ ServerBeats)
    /\ WF_vars(Exists /\ ~registered /\ peers = "none" /\ ServerEnds)

-----------------------------------------------------------------------------
(* Safety.                                                                 *)

\* The server the client is connected to and registered with, which therefore
\* sends heartbeats, is reported lost in two cases only.  One is a race of doWork:
\* the application thread stamps last_server_heartbeat_time_ after the worker has
\* read its clock, and the unsigned difference wraps.  The other is that the system
\* clock was set between the stamp and the worker's reading.
NoFalseAlarm ==
    [][Disconnected =>
          \/ server_pid # server \/ ~registered
          \/ sinceSeen < stall \/ stampSkew # nowSkew]_vars

\* The client knows of every socket it loses: one that websockets_ holds is still
\* the client's, or its CloseWs is on the way.  Otherwise the server has ended or
\* has dropped the client, or the application has called closeWebSocket.
LostSocketsAnnounced ==
    \A id \in websockets :
        \/ id \in attached \cup dropped \/ ~registered \/ closed
        \/ \E i \in DOMAIN inbox : inbox[i].kind = "CloseWs" /\ inbox[i].id = id

\* connect() replaces server_queue_ under the reading worker only after the
\* application itself has disconnected with closeWebSocket: a server lost and
\* found again does not lead there.
QueueReplacedSafely ==
    [][openQueues \/ serverNotReady => worker # "read" \/ closed]_vars

(* Liveness.                                                               *)

\* A client whose server is gone finds out, or another server appears.
LostServerNoticed ==
    (server_pid # None /\ server = None) ~> (server_pid = None \/ server # None)

\* The destructor returns, if the worker thread had started to run before.
DestructorReturns ==
    [](run # "null" /\ app # "join" => [](app = "join" => <>(app = "destroyed")))

-----------------------------------------------------------------------------
(* What the repository says of the client and the code does not do.        *)

\* "Automatic heartbeat and reconnection handling" (README.md:59): a client that
\* its server has dropped, and that has not called closeWebSocket, does not stay so.
\* (It does, as long as other clients keep the server up and beating.)
DroppedClientReturns ==
    (server_pid # None /\ server_pid = server /\ ~registered)
        ~> (server_pid # server \/ registered \/ closed)
=============================================================================
