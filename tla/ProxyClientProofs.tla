------------------------- MODULE ProxyClientProofs -------------------------
(***************************************************************************)
(* Proofs about ProxyClient, for any length of queue, number of servers,   *)
(* of sockets and any timing that the assumptions allow.                   *)
(***************************************************************************)
EXTENDS ProxyClient, SequenceTheorems, TLAPS

USE DEF appVars, workerVars, sharedVars, clientVars, queueVars, processVars, tableVars,
        serverVars, histVars, stampVars, replaceQueues, stampNow

\* A request of this kind has not been read by a server yet.
HasRequest(kind) == \E i \in DOMAIN requests : requests[i].kind = kind

\* Only the call in progress waits, for the request it sent last, and only until
\* the answer is there: an answer is never taken for that of another request.
Awaits ==
    /\ \A i \in DOMAIN requests : requests[i].awaited =>
          /\ i = Len(requests) /\ ~Answered
          /\ <<app, requests[i].kind>> \in {<<"register", "Register">>,
                                            <<"open", "OpenWs">>, <<"close", "CloseWs">>}
    /\ \A o \in opening : o[2] =>
          /\ app = "open" /\ ~Answered
          /\ \A i \in DOMAIN requests : ~requests[i].awaited
          /\ \A p \in opening : p[2] => p = o

\* The answer to Register names the server that has the client registered, and no
\* request is left behind it.
RegisterAnswer ==
    (app = "register" /\ Answered) \/ app = "stamped" =>
        requests = <<>> /\ reply.val \in Server /\ (registered => reply.val = server)

\* A server that has the client registered is the one the client is connected to.
Registration ==
    /\ registered => server # None
    /\ app \in {"spawn", "queue", "register", "stamped"} \/ HasRequest("Register") =>
          server_pid = None
    /\ registered /\ server_pid # None => server_pid = server

\* How old the stamp can be when nothing is left to read, and when it is checked.
Stamp ==
    /\ ~registered => silent = 0
    /\ registered /\ (server_pid # None \/ app = "stamped") /\ inbox = <<>> =>
          sinceSeen <= silent + MaxStall
    /\ registered /\ (server_pid # None \/ app = "stamped") /\ worker = "check" =>
          sinceSeen - stall <= HEARTBEAT_INTERVAL + MaxStall

\* The destructor has been called.
Leaving == app \in {"join", "destroyed"}

\* The worker uses the server_pid_ it has loaded.
InPass == worker \in {"read", "check"}

\* Before the first closeWebSocket a client without a server has no sockets and
\* does not read.
Session ==
    /\ app # "close" /\ ~HasRequest("CloseWs")
    /\ HasRequest("Unregister") => Leaving /\ ~HasRequest("Register")
    /\ (server_pid = None /\ ~Leaving) \/ HasRequest("Register") => websockets = {} /\ ~InPass
    /\ registered /\ InPass => loaded = server

\* The CloseWs of a socket is in the inbox after the first n messages.
Announced(id, n) ==
    \E i \in DOMAIN inbox : /\ i > n
                            /\ inbox[i].pid = server
                            /\ inbox[i].kind = "CloseWs" /\ inbox[i].id = id

\* The client still has a socket, or a server has dropped it, or its CloseWs follows.
Accounted(id, n) == id \in attached \cup dropped \/ Announced(id, n)

\* No server has the client registered, or ever will.
Gone == Leaving /\ ~registered /\ ~HasRequest("Register")

\* The sockets the client knows of, or is about to hear of, are accounted for.
Sockets ==
    /\ ~Gone => \A i \in DOMAIN inbox :
          inbox[i].kind = "OpenWs" /\ inbox[i].pid = server => Accounted(inbox[i].id, i)
    /\ registered => \A id \in websockets : Accounted(id, 0)

\* Pids of servers are not used again.
Pids == server <= starts /\ \A i \in DOMAIN inbox : inbox[i].pid <= starts

Inv ==
    /\ TypeOK /\ Awaits /\ RegisterAnswer /\ Registration /\ Stamp /\ Pids
    /\ ~closed => Session /\ Sockets

-----------------------------------------------------------------------------
(* Type correctness.                                                       *)

LEMMA PendingType == Pending \in Reply
  BY DEF Pending, Reply

\* 0 is a value of every counter and clock, and an empty queue of every queue.
LEMMA ZeroTypes ==
    /\ 0 \in 0..HEARTBEAT_INTERVAL /\ 0 \in 0..MaxStall
    /\ 0 \in 0..MaxServers /\ 0 \in 0..MaxId
    /\ 0 \in 0..MaxAge /\ 0..MaxStall \subseteq 0..MaxAge /\ MaxAge \in Nat
    /\ <<>> \in Seq(Request) /\ <<>> \in Seq(Message)
  BY ClientAssumption DEF MaxAge

\* The variables that are truth values.
Flags ==
    /\ sync \in BOOLEAN /\ closed \in BOOLEAN /\ client_queue \in BOOLEAN
    /\ registered \in BOOLEAN

LEMMA InitInv == Init => Inv
<1> SUFFICES ASSUME Init PROVE Inv
  OBVIOUS
<1>0. Flags
  BY DEF Init, Flags
<1>1. ClientType
  BY <1>0, ZeroTypes DEF Flags, Init, ClientType
<1>2. QueueType
  BY PendingType, ZeroTypes DEF Init, QueueType
<1>3. ServerType
  BY <1>0, ZeroTypes DEF Flags, Init, ServerType
<1> QED
  BY <1>1, <1>2, <1>3, ClientAssumption
  DEF Init, Inv, TypeOK, Awaits, RegisterAnswer, Registration, Stamp, Pids, Session, Sockets,
      Pending, Answered, HasRequest, None, Server, InPass, Leaving

LEMMA FlagsStep == ASSUME TypeOK, [Next]_vars PROVE Flags'
<1> USE DEF TypeOK, ClientType, ServerType, Flags
<1>1. CASE Application
  BY <1>1 DEF Application, CallGoesOn, openWebSocket, sendOpenMessage, Return,
              spawnWebsocketsProxyServer, ServerRunning, connectFails, serverNotReady,
              RegisterAnswered, openQueues, giveUp, Registered, Opened, Closed, Joined,
              closeWebSocket, Destroy
<1>2. CASE doWork
  BY <1>2 DEF doWork, WorkerStarts, WorkerLoads, enterLoop, WorkerReads, WorkerReadsNothing,
              Disconnected, StillConnected
<1>3. CASE Environment
  BY <1>3 DEF Environment, ServerReads, ServerGreets, ServerBeats, PeersChange, ServerDrops,
              ServerEnds, ServerStarts, OpenSucceeds, OpenFails, SocketEnds
<1>4. CASE Tick \/ ClockSet
  BY <1>4 DEF Tick, ClockSet
<1>5. CASE UNCHANGED vars
  BY <1>5 DEF vars
<1> QED
  BY <1>1, <1>2, <1>3, <1>4, <1>5 DEF Next

LEMMA ClientTypeStep == ASSUME TypeOK, RegisterAnswer, [Next]_vars PROVE ClientType'
<1> USE DEF TypeOK, ClientType
<1>0. sync' \in BOOLEAN /\ closed' \in BOOLEAN /\ client_queue' \in BOOLEAN
  BY FlagsStep DEF Flags
<1>1. ASSUME NEW wait \in BOOLEAN, openWebSocket(wait) PROVE ClientType'
  BY <1>1 DEF openWebSocket, sendOpenMessage, Return
<1>2. CASE \/ spawnWebsocketsProxyServer \/ ServerRunning \/ connectFails \/ openQueues
           \/ serverNotReady \/ giveUp \/ Closed \/ Joined
  BY <1>0, <1>2 DEF spawnWebsocketsProxyServer, ServerRunning, connectFails, serverNotReady,
                    RegisterAnswered, openQueues, giveUp, Closed, unregister, Joined, Return
<1>3. CASE Registered
  <2>1. /\ app' \in {"open", "idle"}
        /\ UNCHANGED <<worker, run, loaded, websockets, stall, nowSkew, stampVars>>
    BY <1>3 DEF Registered, sendOpenMessage, Return
  <2>2. server_pid' \in Server
    BY <1>3 DEF Registered, RegisterAnswer
  <2> QED
    BY <1>0, <2>1, <2>2
<1>4. CASE RegisterAnswered \/ Opened
  <2>1. app' \in {"idle", "stamped"}
    BY <1>4 DEF RegisterAnswered, Opened, Return
  <2> QED
    BY <1>0, <1>4, <2>1, ZeroTypes DEF RegisterAnswered, Opened
<1>5. ASSUME NEW id \in Id \cup {None}, closeWebSocket(id) PROVE ClientType'
  BY <1>5 DEF closeWebSocket
<1>6. CASE Destroy
  BY <1>6 DEF Destroy, unregister, stopWorker
<1>7. CASE WorkerStarts \/ WorkerLoads \/ WorkerReadsNothing
  BY <1>7 DEF WorkerStarts, WorkerLoads, enterLoop, WorkerReadsNothing
<1>8. CASE WorkerReads
  <2>1. Head(inbox) \in Message
    BY <1>8 DEF WorkerReads, QueueType
  <2>2. handled(Head(inbox)) \subseteq Id
    BY <2>1 DEF handled, Message
  <2> QED
    BY <1>8, <2>2, ZeroTypes DEF WorkerReads, NextPass
<1>9. CASE Disconnected \/ StillConnected
  BY <1>9, ZeroTypes DEF Disconnected, StillConnected, NextPass
<1>10. CASE Environment
  BY <1>10 DEF Environment, ServerReads, ServerGreets, ServerBeats, PeersChange, ServerDrops,
               ServerEnds, ServerStarts, OpenSucceeds, OpenFails, SocketEnds
<1>11. CASE Tick \/ ClockSet
  <2>1. CASE Tick
    BY <2>1, ZeroTypes, ClientAssumption DEF Tick
  <2>2. CASE ClockSet
    BY <2>2 DEF ClockSet
  <2> QED
    BY <1>11, <2>1, <2>2
<1>12. CASE UNCHANGED vars
  BY <1>12 DEF vars
<1> QED
  BY <1>1, <1>2, <1>3, <1>4, <1>5, <1>6, <1>7, <1>8, <1>9, <1>10, <1>11, <1>12
  DEF Next, Application, CallGoesOn, doWork

LEMMA SendType ==
    ASSUME QueueType, NEW kind \in {"Register", "Unregister", "OpenWs", "CloseWs"},
           NEW id \in Id \cup {None}, NEW awaited \in BOOLEAN,
           sendMessage(kind, id, awaited)
    PROVE  requests' \in Seq(Request) /\ reply' \in Reply
<1>1. [kind |-> kind, id |-> id, awaited |-> awaited] \in Request
  BY DEF Request
<1> QED
  BY <1>1, PendingType DEF QueueType, sendMessage

LEMMA PublishType ==
    ASSUME TypeOK, server # None,
           NEW kind, NEW id, Published(kind, id),
           \/ kind = "Heartbeat" /\ id = None
           \/ kind \in {"OpenWs", "CloseWs", "WsError"} /\ id \in Id
    PROVE  inbox' \in Seq(Message) /\ silent' \in 0..HEARTBEAT_INTERVAL
<1>1. [pid |-> server, kind |-> kind, id |-> id] \in Message
  BY DEF Message, TypeOK, ServerType
<1> QED
  BY <1>1, ClientAssumption DEF TypeOK, QueueType, ServerType, Published

LEMMA AnswerType ==
    ASSUME QueueType, NEW awaited, NEW status \in {"SUCCESS", "FAILED"},
           NEW val \in Server \cup Id \cup {None}, answer(awaited, status, val)
    PROVE  reply' \in Reply
  BY DEF QueueType, answer, Reply

LEMMA QueueTypeStep == ASSUME TypeOK, [Next]_vars PROVE QueueType'
<1> USE DEF TypeOK
<1>1. ASSUME NEW wait \in BOOLEAN, openWebSocket(wait) PROVE QueueType'
  BY <1>1, SendType DEF openWebSocket, sendOpenMessage, QueueType
<1>2. CASE spawnWebsocketsProxyServer \/ ServerStarts
  BY <1>2, ZeroTypes DEF spawnWebsocketsProxyServer, ServerStarts, StartServer, QueueType
<1>3. CASE openQueues \/ serverNotReady
  BY <1>3, SendType, ZeroTypes DEF openQueues, serverNotReady, QueueType
<1>4. CASE giveUp
  <2>1. ASSUME NEW i \in DOMAIN requests
        PROVE  [requests[i] EXCEPT !.awaited = FALSE] \in Request
    <3>1. requests[i] \in Request
      BY DEF QueueType
    <3> QED
      BY <3>1 DEF Request
  <2>2. requests' \in Seq(Request)
    BY <1>4, <2>1 DEF giveUp, QueueType
  <2> QED
    BY <1>4, <2>2 DEF giveUp, QueueType
<1>5. CASE Registered
  BY <1>5, SendType DEF Registered, sendOpenMessage, QueueType, ClientType
<1>6. CASE Opened
  BY <1>6, PendingType DEF Opened, QueueType
<1>7. ASSUME NEW id \in Id \cup {None}, closeWebSocket(id) PROVE QueueType'
  BY <1>7, SendType DEF closeWebSocket, QueueType, ClientType
<1>8. CASE Closed \/ Destroy
  BY <1>8, SendType DEF Closed, Destroy, unregister, QueueType
<1>9. CASE \/ ServerRunning \/ connectFails \/ RegisterAnswered \/ Joined \/ Tick \/ ClockSet
           \/ ServerDrops \/ ServerEnds \/ PeersChange
  BY <1>9 DEF ServerRunning, connectFails, RegisterAnswered, PeersChange, Joined, Tick,
              ClockSet, ServerDrops, ServerEnds, QueueType
<1>10. CASE doWork
  BY <1>10 DEF doWork, WorkerStarts, WorkerLoads, enterLoop, WorkerReads, WorkerReadsNothing,
               Disconnected, StillConnected, QueueType
<1>11. CASE ServerReads
  <2>1. requests' \in Seq(Request)
    BY <1>11 DEF ServerReads, QueueType
  <2>2. inbox' \in Seq(Message)
    BY <1>11, PublishType DEF ServerReads, Quiet, QueueType, ServerType
  <2>3. reply' \in Reply
    BY <1>11, AnswerType DEF ServerReads, QueueType, ServerType
  <2> QED
    BY <2>1, <2>2, <2>3 DEF QueueType
<1>12. CASE ServerGreets \/ ServerBeats
  BY <1>12, PublishType DEF ServerGreets, ServerBeats, QueueType
<1>13. ASSUME NEW o \in opening, OpenSucceeds(o) \/ OpenFails(o) PROVE QueueType'
  <2>1. o[1] \in Id
    BY DEF ServerType
  <2> QED
    BY <1>13, <2>1, PublishType, AnswerType DEF OpenSucceeds, OpenFails, QueueType
<1>14. ASSUME NEW id \in Id, SocketEnds(id) PROVE QueueType'
  BY <1>14, PublishType DEF SocketEnds, QueueType
<1>15. CASE UNCHANGED vars
  BY <1>15 DEF vars, QueueType
<1> QED
  BY <1>1, <1>2, <1>3, <1>4, <1>5, <1>6, <1>7, <1>8, <1>9, <1>10, <1>11, <1>12, <1>13, <1>14,
     <1>15
  DEF Next, Application, CallGoesOn, Environment

LEMMA ServerTypeStep == ASSUME TypeOK, [Next]_vars PROVE ServerType'
<1> USE DEF TypeOK, ServerType
<1>0. registered' \in BOOLEAN
  BY FlagsStep DEF Flags
<1>1. CASE spawnWebsocketsProxyServer \/ ServerStarts
  <2>1. starts < MaxServers => starts + 1 \in Server /\ starts + 1 \in 0..MaxServers
    BY ClientAssumption DEF Server
  <2> QED
    BY <1>1, <2>1 DEF spawnWebsocketsProxyServer, ServerStarts, StartServer
<1>2. CASE giveUp
  <2>1. \A o \in opening : <<o[1], FALSE>> \in Id \X BOOLEAN
    OBVIOUS
  <2>2. opening' = {<<o[1], FALSE>> : o \in opening}
    BY <1>2 DEF giveUp
  <2>3. opening' \subseteq Id \X BOOLEAN
    BY <2>1, <2>2
  <2> QED
    BY <1>2, <2>3 DEF giveUp
<1>3. ASSUME \/ \E wait \in BOOLEAN : openWebSocket(wait)
             \/ \E id \in Id \cup {None} : closeWebSocket(id)
             \/ Destroy \/ ServerRunning \/ connectFails \/ openQueues \/ serverNotReady
             \/ RegisterAnswered \/ Registered \/ Opened \/ Closed \/ Joined
      PROVE  ServerType'
  BY <1>3 DEF openWebSocket, closeWebSocket, Destroy, ServerRunning, connectFails,
              serverNotReady, RegisterAnswered, openQueues, Registered, Opened, Closed, Joined
<1>4. CASE doWork
  BY <1>4 DEF doWork, WorkerStarts, WorkerLoads, enterLoop, WorkerReads, WorkerReadsNothing,
              Disconnected, StillConnected
<1>5. CASE ServerReads
  <2> DEFINE r == Head(requests)
  <2>1. r \in Request
    BY <1>5 DEF ServerReads, QueueType
  <2>2. CASE r.kind \in {"Register", "Unregister", "CloseWs"}
    BY <1>0, <1>5, <2>2, ZeroTypes DEF ServerReads, Quiet
  <2>3. CASE r.kind = "OpenWs" /\ ~registered
    BY <1>5, <2>3 DEF ServerReads, Quiet
  <2>4. CASE r.kind = "OpenWs" /\ registered
    <3>1. silent' \in 0..HEARTBEAT_INTERVAL
      BY <1>5, <2>4, ZeroTypes DEF ServerReads, Quiet, Published
    <3>2. opening' \subseteq Id \X BOOLEAN /\ lastId' \in 0..MaxId
      <4>1. lastId < MaxId => lastId + 1 \in Id /\ lastId + 1 \in 0..MaxId
        BY ClientAssumption DEF Id
      <4>2. r.awaited \in BOOLEAN
        BY <2>1 DEF Request
      <4>3. CASE opening' = opening /\ lastId' = lastId
        BY <4>3
      <4>4. CASE /\ lastId < MaxId /\ lastId' = lastId + 1
                 /\ opening' = opening \cup {<<lastId + 1, r.awaited>>}
        <5>1. <<lastId + 1, r.awaited>> \in Id \X BOOLEAN
          BY <4>1, <4>2, <4>4
        <5> QED
          BY <4>1, <4>4, <5>1
      <4> QED
        BY <1>5, <2>4, <4>3, <4>4 DEF ServerReads
    <3>3. attached' \subseteq sockets' /\ sockets' = sockets /\ UNCHANGED registered
      BY <1>5, <2>4 DEF ServerReads
    <3> QED
      BY <1>5, <3>1, <3>2, <3>3 DEF ServerReads
  <2> QED
    BY <2>1, <2>2, <2>3, <2>4 DEF Request
<1>6. CASE ServerGreets \/ ServerBeats \/ ServerDrops \/ ServerEnds \/ PeersChange
  BY <1>0, <1>6, ZeroTypes DEF ServerGreets, ServerBeats, PeersChange, Published, ServerDrops,
                               ServerEnds
<1>7. ASSUME NEW o \in opening, OpenSucceeds(o) \/ OpenFails(o) PROVE ServerType'
  <2>1. o[1] \in Id
    OBVIOUS
  <2> QED
    BY <1>7, <2>1, ZeroTypes DEF OpenSucceeds, OpenFails, Published
<1>8. ASSUME NEW id \in Id, SocketEnds(id) PROVE ServerType'
  BY <1>8, ZeroTypes DEF SocketEnds, Published
<1>9. CASE Tick \/ ClockSet
  BY <1>9, ClientAssumption DEF Tick, ClockSet
<1>10. CASE UNCHANGED vars
  BY <1>10 DEF vars
<1> QED
  BY <1>1, <1>2, <1>3, <1>4, <1>5, <1>6, <1>7, <1>8, <1>9, <1>10
  DEF Next, Application, CallGoesOn, Environment

LEMMA TypeStep == TypeOK /\ RegisterAnswer /\ [Next]_vars => TypeOK'
  BY ClientTypeStep, QueueTypeStep, ServerTypeStep DEF TypeOK

-----------------------------------------------------------------------------
(* What a caller waits for.                                                *)

LEMMA SendEffect ==
    ASSUME QueueType, NEW kind, NEW id, NEW awaited, sendMessage(kind, id, awaited)
    PROVE  /\ reply' = Pending /\ ~Answered'
           /\ Len(requests') = Len(requests) + 1
           /\ DOMAIN requests' = DOMAIN requests \cup {Len(requests) + 1}
           /\ \A i \in DOMAIN requests : requests'[i] = requests[i]
           /\ requests'[Len(requests) + 1] = [kind |-> kind, id |-> id, awaited |-> awaited]
<1>1. reply' = Pending /\ ~Answered'
  BY DEF sendMessage, Pending, Answered
<1> QED
  BY <1>1 DEF QueueType, sendMessage

LEMMA ReadEffect ==
    ASSUME QueueType, ServerReads
    PROVE  /\ 1 \in DOMAIN requests /\ requests[1] = Head(requests)
           /\ Len(requests') = Len(requests) - 1
           /\ \A i \in DOMAIN requests' : i + 1 \in DOMAIN requests /\ requests'[i] = requests[i + 1]
  BY DEF QueueType, ServerReads

\* No request or open in progress is waited for.
NobodyWaits ==
    /\ \A i \in DOMAIN requests : ~requests[i].awaited
    /\ \A o \in opening : ~o[2]

LEMMA NotWaiting ==
    ASSUME Awaits, app \notin {"register", "open", "close"} \/ Answered
    PROVE  NobodyWaits
  BY DEF Awaits, NobodyWaits

LEMMA NobodyAwaits == NobodyWaits => Awaits
  BY DEF Awaits, NobodyWaits

LEMMA SendAwaits ==
    ASSUME QueueType, NobodyWaits, UNCHANGED opening,
           NEW kind, NEW id, NEW awaited \in BOOLEAN, sendMessage(kind, id, awaited),
           awaited => <<app', kind>> \in {<<"register", "Register">>, <<"open", "OpenWs">>,
                                          <<"close", "CloseWs">>}
    PROVE  Awaits'
<1>1. \A o \in opening' : ~o[2]
  BY DEF NobodyWaits
<1>2. ASSUME NEW i \in DOMAIN requests', requests'[i].awaited
      PROVE  i = Len(requests') /\ requests'[i].kind = kind /\ awaited
  <2>1. i \notin DOMAIN requests
    BY <1>2, SendEffect DEF NobodyWaits
  <2>0. /\ DOMAIN requests' = DOMAIN requests \cup {Len(requests) + 1}
        /\ Len(requests') = Len(requests) + 1
    BY SendEffect
  <2>2. i = Len(requests') /\ i = Len(requests) + 1
    BY <2>0, <2>1, Zenon
  <2>3. requests'[i] = [kind |-> kind, id |-> id, awaited |-> awaited]
    BY <2>2, SendEffect
  <2> QED
    BY <1>2, <2>2, <2>3
<1>3. ASSUME NEW i \in DOMAIN requests', requests'[i].awaited
      PROVE  /\ i = Len(requests') /\ ~Answered'
             /\ <<app', requests'[i].kind>> \in {<<"register", "Register">>,
                                                 <<"open", "OpenWs">>, <<"close", "CloseWs">>}
  <2>1. ~Answered'
    BY SendEffect
  <2> QED
    BY <1>2, <1>3, <2>1
<1> QED
  BY <1>1, <1>3 DEF Awaits

LEMMA AwaitsStep == ASSUME TypeOK, Awaits, [Next]_vars PROVE Awaits'
<1>1. QueueType
  BY DEF TypeOK
<1>2. ASSUME NEW wait \in BOOLEAN, openWebSocket(wait) PROVE Awaits'
  <2>1. NobodyWaits
    BY <1>2, NotWaiting DEF openWebSocket
  <2>2. CASE server_pid # None
    <3>1. sendOpenMessage(wait) /\ UNCHANGED opening
      BY <1>2, <2>2 DEF openWebSocket
    <3> QED
      BY <1>1, <2>1, <3>1, SendAwaits DEF sendOpenMessage
  <2>3. CASE server_pid = None
    <3>1. NobodyWaits'
      BY <1>2, <2>1, <2>3 DEF openWebSocket, NobodyWaits
    <3> QED
      BY <3>1, NobodyAwaits DEF NobodyWaits, Awaits
  <2> QED
    BY <2>2, <2>3
<1>3. CASE \/ spawnWebsocketsProxyServer \/ ServerRunning \/ connectFails \/ serverNotReady
           \/ RegisterAnswered \/ Joined
  <2>1. NobodyWaits
    BY <1>3, NotWaiting DEF spawnWebsocketsProxyServer, ServerRunning, connectFails,
                            serverNotReady, RegisterAnswered, Joined
  <2> QED
    BY <1>3, <2>1
    DEF spawnWebsocketsProxyServer, StartServer, ServerRunning, connectFails, serverNotReady,
        RegisterAnswered, Joined, NobodyWaits, Awaits
<1>4. CASE openQueues
  <2>1. NobodyWaits
    BY <1>4, NotWaiting DEF openQueues
  <2> QED
    BY <1>1, <1>4, <2>1, SendAwaits DEF openQueues
<1>5. CASE giveUp
  <2>1. ASSUME NEW i \in DOMAIN requests' PROVE ~requests'[i].awaited
    <3>1. i \in DOMAIN requests /\ requests'[i] = [requests[i] EXCEPT !.awaited = FALSE]
      BY <1>5 DEF giveUp
    <3>2. requests[i] \in Request
      BY <1>1, <3>1 DEF QueueType
    <3> QED
      BY <3>1, <3>2 DEF Request
  <2>2. ASSUME NEW o \in opening' PROVE ~o[2]
    <3>1. PICK p \in opening : o = <<p[1], FALSE>>
      BY <1>5 DEF giveUp
    <3> QED
      BY <3>1
  <2> QED
    BY <2>1, <2>2 DEF Awaits
<1>6. CASE Registered
  <2>1. NobodyWaits
    BY <1>6, NotWaiting DEF Registered
  <2>2. sendOpenMessage(sync) /\ UNCHANGED opening
    BY <1>6 DEF Registered
  <2> QED
    BY <1>1, <2>1, <2>2, SendAwaits DEF sendOpenMessage, TypeOK, ClientType
<1>7. CASE Opened
  <2>1. NobodyWaits
    BY <1>7, NotWaiting DEF Opened
  <2> QED
    BY <1>7, <2>1 DEF Opened, NobodyWaits, Awaits
<1>8. ASSUME NEW id \in Id \cup {None}, closeWebSocket(id) PROVE Awaits'
  <2>1. NobodyWaits
    BY <1>8, NotWaiting DEF closeWebSocket
  <2> QED
    BY <1>1, <1>8, <2>1, SendAwaits DEF closeWebSocket
<1>9. CASE Closed \/ Destroy
  <2>1. NobodyWaits
    BY <1>9, NotWaiting DEF Closed, Destroy
  <2>2. CASE sendMessage("Unregister", None, FALSE)
    BY <1>1, <1>9, <2>1, <2>2, SendAwaits DEF Closed, Destroy
  <2>3. CASE UNCHANGED <<requests, reply>>
    BY <1>9, <2>1, <2>3 DEF Closed, Destroy, NobodyWaits, Awaits
  <2> QED
    BY <1>9, <2>2, <2>3 DEF Closed, Destroy, unregister
<1>10. CASE ServerReads
  <2> DEFINE r == Head(requests)
  <2>1. \A i \in DOMAIN requests' : i + 1 \in DOMAIN requests /\ requests'[i] = requests[i + 1]
    BY <1>1, <1>10, ReadEffect
  <2>2. 1 \in DOMAIN requests /\ r = requests[1] /\ Len(requests') = Len(requests) - 1
    BY <1>1, <1>10, ReadEffect
  <2>3. CASE r.awaited
    <3>1. Len(requests) = 1 /\ ~Answered /\ (r.kind = "OpenWs" => app = "open")
      BY <2>2, <2>3 DEF Awaits
    <3>2. \A i \in DOMAIN requests' : ~requests'[i].awaited
      <4>1. requests' = <<>>
        BY <1>1, <1>10, <3>1 DEF ServerReads, QueueType
      <4> QED
        BY <4>1
    <3>3. \A o \in opening : ~o[2]
      BY <2>2, <2>3 DEF Awaits
    <3>4. CASE UNCHANGED opening
      BY <3>2, <3>3, <3>4 DEF Awaits
    <3>5. CASE r.kind = "OpenWs" /\ opening' = opening \cup {<<lastId + 1, r.awaited>>}
                                /\ UNCHANGED <<app, reply>>
      <4>1. app' = "open" /\ ~Answered'
        BY <3>1, <3>5 DEF Answered
      <4>2. \A o \in opening' : o[2] => o = <<lastId + 1, r.awaited>>
        BY <3>3, <3>5
      <4> QED
        BY <3>2, <4>1, <4>2 DEF Awaits
    <3> QED
      BY <1>10, <3>4, <3>5 DEF ServerReads
  <2>4. CASE ~r.awaited
    <3>1. UNCHANGED <<app, reply>>
      BY <1>10, <2>4 DEF ServerReads, answer
    <3>2. \A o \in opening' : o[2] => o \in opening
      BY <1>10, <2>4 DEF ServerReads
    <3>3. ASSUME NEW i \in DOMAIN requests', requests'[i].awaited
          PROVE  /\ i = Len(requests') /\ ~Answered
                 /\ <<app, requests'[i].kind>> \in {<<"register", "Register">>,
                                                    <<"open", "OpenWs">>, <<"close", "CloseWs">>}
      <4>1. i + 1 \in DOMAIN requests /\ requests'[i] = requests[i + 1]
        BY <2>1
      <4>2. i + 1 = Len(requests)
        BY <3>3, <4>1 DEF Awaits
      <4>3. i = Len(requests')
        BY <1>1, <2>2, <4>2 DEF QueueType
      <4> QED
        BY <3>3, <4>1, <4>3 DEF Awaits
    <3>4. ASSUME NEW o \in opening', o[2]
          PROVE  /\ app = "open" /\ ~Answered
                 /\ \A i \in DOMAIN requests' : ~requests'[i].awaited
                 /\ \A p \in opening' : p[2] => p = o
      BY <2>1, <3>2, <3>4 DEF Awaits
    <3> QED
      BY <3>1, <3>3, <3>4 DEF Awaits, Answered
  <2> QED
    BY <2>3, <2>4
<1>11. ASSUME NEW o \in opening, OpenSucceeds(o) \/ OpenFails(o) PROVE Awaits'
  <2>1. opening' = opening \ {o} /\ UNCHANGED <<app, requests>>
    BY <1>11 DEF OpenSucceeds, OpenFails
  <2>2. CASE o[2]
    BY <2>1, <2>2 DEF Awaits
  <2>3. CASE ~o[2]
    <3>1. UNCHANGED reply
      BY <1>11, <2>3 DEF OpenSucceeds, OpenFails, answer
    <3> QED
      BY <2>1, <3>1 DEF Awaits, Answered
  <2> QED
    BY <2>2, <2>3
<1>12. CASE ServerEnds \/ ServerStarts
  BY <1>12 DEF ServerEnds, ServerStarts, StartServer, Awaits, Answered
<1>13. ASSUME \/ doWork \/ ServerGreets \/ ServerBeats \/ ServerDrops \/ PeersChange
              \/ Tick \/ ClockSet \/ UNCHANGED vars
              \/ \E id \in Id : SocketEnds(id)
       PROVE  Awaits'
  <2>1. UNCHANGED <<app, requests, reply, opening>>
    BY <1>13
    DEF doWork, WorkerStarts, WorkerLoads, enterLoop, WorkerReads, WorkerReadsNothing,
        Disconnected, StillConnected, ServerGreets, ServerBeats, PeersChange, ServerDrops,
        Tick, ClockSet, SocketEnds, vars
  <2> QED
    BY <2>1 DEF Awaits, Answered
<1> QED
  BY <1>2, <1>3, <1>4, <1>5, <1>6, <1>7, <1>8, <1>9, <1>10, <1>11, <1>12, <1>13
  DEF Next, Application, CallGoesOn, Environment

-----------------------------------------------------------------------------
(* The server the client is connected to.                                  *)

LEMMA SendRequested ==
    ASSUME QueueType, NEW kind, NEW id, NEW awaited, sendMessage(kind, id, awaited),
           NEW k, HasRequest(k)'
    PROVE  HasRequest(k) \/ k = kind
<1>1. PICK i \in DOMAIN requests' : requests'[i].kind = k
  BY DEF HasRequest
<1>2. CASE i \in DOMAIN requests
  BY <1>1, <1>2, SendEffect DEF HasRequest
<1>3. CASE i = Len(requests) + 1
  <2>1. requests'[i] = [kind |-> kind, id |-> id, awaited |-> awaited]
    BY <1>3, SendEffect
  <2> QED
    BY <1>1, <2>1
<1>4. DOMAIN requests' = DOMAIN requests \cup {Len(requests) + 1}
  BY SendEffect
<1> QED
  BY <1>2, <1>3, <1>4, Zenon

\* Which calls bring a request of a kind that was not in the queue.
LEMMA Requested ==
    ASSUME TypeOK, [Next]_vars, NEW k, HasRequest(k)'
    PROVE  \/ HasRequest(k)
           \/ k = "OpenWs"
           \/ k = "Register" /\ openQueues
           \/ k = "CloseWs" /\ \E id \in Id \cup {None} : closeWebSocket(id)
           \/ k = "Unregister" /\ (Closed \/ (Destroy /\ server_pid # None))
<1>1. QueueType
  BY DEF TypeOK
<1>2. ASSUME NEW wait \in BOOLEAN, openWebSocket(wait)
      PROVE  HasRequest(k) \/ k = "OpenWs"
  <2>1. CASE server_pid # None
    BY <1>1, <1>2, <2>1, SendRequested DEF openWebSocket, sendOpenMessage
  <2>2. CASE server_pid = None
    BY <1>2, <2>2 DEF openWebSocket, HasRequest
  <2> QED
    BY <2>1, <2>2
<1>3. CASE spawnWebsocketsProxyServer \/ ServerStarts
  BY <1>3 DEF spawnWebsocketsProxyServer, ServerStarts, StartServer, HasRequest
<1>4. CASE openQueues
  BY <1>1, <1>4, SendRequested DEF openQueues
<1>5. CASE giveUp
  <2>1. PICK i \in DOMAIN requests' : requests'[i].kind = k
    BY DEF HasRequest
  <2>2. i \in DOMAIN requests /\ requests'[i] = [requests[i] EXCEPT !.awaited = FALSE]
    BY <1>5 DEF giveUp
  <2>3. requests[i] \in Request
    BY <1>1, <2>2 DEF QueueType
  <2> QED
    BY <2>1, <2>2, <2>3 DEF Request, HasRequest
<1>6. CASE Registered
  BY <1>1, <1>6, SendRequested DEF Registered, sendOpenMessage
<1>7. ASSUME NEW id \in Id \cup {None}, closeWebSocket(id)
      PROVE  HasRequest(k) \/ k = "CloseWs"
  BY <1>1, <1>7, SendRequested DEF closeWebSocket
<1>8. CASE Closed
  <2>1. sendMessage("Unregister", None, FALSE)
    BY <1>8 DEF Closed, unregister
  <2>2. HasRequest(k) \/ k = "Unregister"
    BY <1>1, <2>1, SendRequested
  <2> QED
    BY <1>8, <2>2
<1>9. CASE Destroy
  <2>1. CASE server_pid # None
    BY <1>1, <1>9, <2>1, SendRequested DEF Destroy, unregister
  <2>2. CASE server_pid = None
    BY <1>9, <2>2 DEF Destroy, HasRequest
  <2> QED
    BY <2>1, <2>2
<1>10. CASE ServerReads
  <2>1. PICK i \in DOMAIN requests' : requests'[i].kind = k
    BY DEF HasRequest
  <2>2. i + 1 \in DOMAIN requests /\ requests[i + 1].kind = k
    BY <1>1, <1>10, <2>1, ReadEffect
  <2> QED
    BY <2>2 DEF HasRequest
<1>11. ASSUME \/ ServerRunning \/ connectFails \/ serverNotReady \/ RegisterAnswered \/ Opened
              \/ Joined \/ doWork \/ ServerGreets \/ ServerBeats \/ PeersChange
              \/ ServerDrops \/ ServerEnds \/ Tick \/ ClockSet \/ UNCHANGED vars
              \/ \E o \in opening : OpenSucceeds(o) \/ OpenFails(o)
              \/ \E id \in Id : SocketEnds(id)
       PROVE  HasRequest(k)
  <2>1. UNCHANGED requests
    BY <1>11
    DEF ServerRunning, connectFails, serverNotReady, RegisterAnswered, Opened, Joined, doWork,
        WorkerStarts, WorkerLoads, enterLoop, WorkerReads, WorkerReadsNothing, Disconnected,
        StillConnected, ServerGreets, ServerBeats, PeersChange, ServerDrops, ServerEnds,
        OpenSucceeds, OpenFails, Tick, ClockSet, SocketEnds, vars
  <2> QED
    BY <2>1 DEF HasRequest
<1> QED
  BY <1>2, <1>3, <1>4, <1>5, <1>6, <1>7, <1>8, <1>9, <1>10, <1>11
  DEF Next, Application, CallGoesOn, Environment

LEMMA RegisterAnswerStep ==
    ASSUME TypeOK, Awaits, RegisterAnswer, Registration, [Next]_vars
    PROVE  RegisterAnswer'
<1>1. QueueType
  BY DEF TypeOK
<1>2. CASE Application
  <2>1. CASE openQueues
    BY <1>1, <2>1, SendEffect DEF openQueues, RegisterAnswer
  <2>2. CASE RegisterAnswered
    BY <2>2 DEF RegisterAnswered, RegisterAnswer
  <2>3. CASE ~openQueues /\ ~RegisterAnswered
    <3>1. app' \notin {"register", "stamped"}
      BY <1>2, <2>3
      DEF Application, CallGoesOn, openWebSocket, sendOpenMessage, Return,
          spawnWebsocketsProxyServer, ServerRunning, connectFails, serverNotReady, giveUp,
          Registered, Opened, Closed, Joined, closeWebSocket, Destroy
    <3> QED
      BY <3>1 DEF RegisterAnswer
  <2> QED
    BY <2>1, <2>2, <2>3
<1>3. CASE ServerReads
  <2>0. app # "stamped"
    BY <1>3 DEF ServerReads, RegisterAnswer
  <2> SUFFICES ASSUME app = "register", Answered'
               PROVE  requests' = <<>> /\ reply'.val \in Server
                      /\ (registered' => reply'.val = server')
    BY <1>3, <2>0 DEF ServerReads, RegisterAnswer
  <2>1. ~Answered
    BY <1>3 DEF ServerReads, RegisterAnswer
  <2>2. Head(requests).awaited
    BY <1>3, <2>1 DEF ServerReads, answer, Answered
  <2>3. Head(requests).kind = "Register" /\ Len(requests) = 1
    BY <1>1, <1>3, <2>2, ReadEffect DEF Awaits
  <2>4. requests' = <<>>
    BY <1>1, <1>3, <2>3 DEF ServerReads, QueueType
  <2>5. reply' = [status |-> "SUCCESS", val |-> server] /\ UNCHANGED server /\ server # None
    BY <1>3, <2>2, <2>3 DEF ServerReads, answer
  <2> QED
    BY <2>4, <2>5 DEF TypeOK, ServerType
<1>4. ASSUME NEW o \in opening, OpenSucceeds(o) \/ OpenFails(o) PROVE RegisterAnswer'
  <2>1. UNCHANGED <<app, requests, server, registered>>
    BY <1>4 DEF OpenSucceeds, OpenFails
  <2>2. CASE app \in {"register", "stamped"}
    <3>1. UNCHANGED reply
      BY <1>4, <2>2 DEF OpenSucceeds, OpenFails, answer, Awaits
    <3> QED
      BY <2>1, <3>1 DEF RegisterAnswer, Answered
  <2> QED
    BY <2>1, <2>2 DEF RegisterAnswer
<1>5. CASE ServerDrops \/ ServerEnds
  <2>1. UNCHANGED <<app, requests, reply>> /\ ~registered'
    BY <1>5 DEF ServerDrops, ServerEnds
  <2> QED
    BY <2>1 DEF RegisterAnswer, Answered
<1>6. CASE ServerStarts
  <2>1. UNCHANGED <<app, reply, registered>> /\ requests' = <<>> /\ server = None
    BY <1>6 DEF ServerStarts, StartServer
  <2> QED
    BY <2>1 DEF RegisterAnswer, Registration, Answered
<1>7. ASSUME \/ doWork \/ ServerGreets \/ ServerBeats \/ PeersChange
             \/ Tick \/ ClockSet \/ UNCHANGED vars
             \/ \E id \in Id : SocketEnds(id)
      PROVE  RegisterAnswer'
  <2>1. UNCHANGED <<app, requests, reply, registered, server>>
    BY <1>7
    DEF doWork, WorkerStarts, WorkerLoads, enterLoop, WorkerReads, WorkerReadsNothing,
        Disconnected, StillConnected, ServerGreets, ServerBeats, PeersChange, Tick, ClockSet,
        SocketEnds, vars
  <2> QED
    BY <2>1 DEF RegisterAnswer, Answered
<1> QED
  BY <1>2, <1>3, <1>4, <1>5, <1>6, <1>7 DEF Next, Environment

LEMMA RegistrationStep ==
    ASSUME TypeOK, RegisterAnswer, Registration, [Next]_vars
    PROVE  Registration'
<1>1. QueueType /\ server \in Server \cup {None} /\ starts \in Nat
  BY ClientAssumption DEF TypeOK, ServerType
<1>2. ASSUME HasRequest("Register")' PROVE openQueues \/ HasRequest("Register")
  BY <1>2, Requested
<1>3. CASE Application
  <2>1. CASE Registered
    <3>1. server_pid' = reply.val /\ app' \in {"open", "idle"} /\ UNCHANGED <<server, registered>>
      BY <2>1 DEF Registered, sendOpenMessage, Return
    <3>2. ~HasRequest("Register") /\ reply.val \in Server /\ (registered => reply.val = server)
      BY <2>1 DEF Registered, RegisterAnswer, HasRequest
    <3>3. ~openQueues
      BY <2>1 DEF Registered, openQueues
    <3> QED
      BY <1>2, <3>1, <3>2, <3>3 DEF Registration
  <2>2. CASE spawnWebsocketsProxyServer
    <3>1. /\ server = None /\ server' = starts + 1 /\ app = "spawn" /\ requests' = <<>>
          /\ UNCHANGED <<server_pid, registered>>
      BY <2>2 DEF spawnWebsocketsProxyServer, StartServer
    <3> QED
      BY <3>1 DEF Registration
  <2>3. CASE ~Registered /\ ~spawnWebsocketsProxyServer
    <3>1. UNCHANGED <<server, registered>> /\ server_pid' \in {server_pid, None}
      BY <1>3, <2>3
      DEF Application, CallGoesOn, openWebSocket, ServerRunning, connectFails, serverNotReady,
          RegisterAnswered, openQueues, giveUp, Opened, Closed, unregister, Joined,
          closeWebSocket, Destroy
    <3>2. app' \in {"spawn", "queue", "register", "stamped"} => server_pid = None
      BY <1>3, <2>3
      DEF Application, CallGoesOn, openWebSocket, sendOpenMessage, Return, ServerRunning,
          connectFails, serverNotReady, RegisterAnswered, openQueues, giveUp, Opened, Closed,
          Joined, closeWebSocket, Destroy, Registration
    <3>3. HasRequest("Register")' => server_pid = None
      BY <1>2 DEF openQueues, Registration
    <3> QED
      BY <3>1, <3>2, <3>3 DEF Registration
  <2> QED
    BY <2>1, <2>2, <2>3
<1>4. CASE ~Application /\ ~ServerReads /\ ~ServerStarts
  <2>1. /\ server_pid' \in {server_pid, None} /\ UNCHANGED app
        /\ registered' => registered /\ server' = server
    <3>1. CASE doWork \/ Tick \/ ClockSet \/ UNCHANGED vars
      BY <3>1
      DEF doWork, WorkerStarts, WorkerLoads, enterLoop, WorkerReads, WorkerReadsNothing,
          Disconnected, StillConnected, Tick, ClockSet, vars
    <3>2. CASE Environment
      BY <1>4, <3>2
      DEF Environment, ServerGreets, ServerBeats, PeersChange, ServerDrops, ServerEnds,
          OpenSucceeds, OpenFails, SocketEnds
    <3> QED
      BY <1>4, <3>1, <3>2 DEF Next
  <2> QED
    BY <1>2, <2>1 DEF openQueues, Registration
<1>5. CASE ServerReads
  <2>1. UNCHANGED <<server_pid, app, server>> /\ server # None
    BY <1>5 DEF ServerReads
  <2>2. registered' => registered \/ HasRequest("Register")
    <3>1. registered' => registered \/ Head(requests).kind = "Register"
      BY <1>5 DEF ServerReads
    <3> QED
      BY <1>1, <1>5, <3>1, ReadEffect DEF HasRequest
  <2> QED
    BY <1>2, <2>1, <2>2 DEF openQueues, Registration
<1>6. CASE ServerStarts
  <2>1. server = None /\ requests' = <<>> /\ UNCHANGED <<server_pid, app, registered>>
    BY <1>6 DEF ServerStarts, StartServer
  <2> QED
    BY <2>1 DEF Registration, HasRequest
<1> QED
  BY <1>3, <1>4, <1>5, <1>6

-----------------------------------------------------------------------------
(* The age of the stamp.                                                   *)

LEMMA Clocks ==
    ASSUME TypeOK
    PROVE  /\ sinceSeen \in Nat /\ stall \in Nat /\ stall <= MaxStall
           /\ silent \in Nat /\ silent <= HEARTBEAT_INTERVAL
           /\ MaxStall \in Nat /\ HEARTBEAT_INTERVAL \in Nat /\ HEARTBEAT_TIMEOUT \in Nat
  BY ClientAssumption, ZeroTypes DEF TypeOK, ClientType, ServerType

LEMMA StampStep ==
    ASSUME TypeOK, RegisterAnswer, Registration, Stamp, [Next]_vars
    PROVE  Stamp'
<1>1. QueueType
  BY DEF TypeOK
<1>2. CASE RegisterAnswered \/ Opened
  <2>1. sinceSeen' = 0 /\ UNCHANGED <<stall, silent, registered>>
    BY <1>2 DEF RegisterAnswered, Opened
  <2> QED
    BY <2>1, Clocks DEF Stamp
<1>3. CASE openQueues \/ serverNotReady
  <2>1. server_pid' = None /\ app' # "stamped" /\ UNCHANGED <<silent, registered>>
    BY <1>3 DEF openQueues, serverNotReady, Return, Registration
  <2> QED
    BY <2>1 DEF Stamp
<1>4. ASSUME \/ \E wait \in BOOLEAN : openWebSocket(wait)
             \/ \E id \in Id \cup {None} : closeWebSocket(id)
             \/ Destroy \/ spawnWebsocketsProxyServer \/ ServerRunning \/ connectFails
             \/ giveUp \/ Closed \/ Joined \/ ServerStarts \/ UNCHANGED vars
      PROVE  Stamp'
  <2>1. /\ UNCHANGED <<sinceSeen, stall, inbox, silent, registered>>
        /\ server_pid' \in {server_pid, None} /\ (worker' = "check" => worker = "check")
        /\ app' = "stamped" => app = "stamped"
    BY <1>4
    DEF openWebSocket, sendOpenMessage, Return, closeWebSocket, Destroy, unregister,
        spawnWebsocketsProxyServer, ServerRunning, connectFails, giveUp, Closed, Joined,
        ServerStarts, vars
  <2> QED
    BY <2>1 DEF Stamp
<1>5. CASE WorkerReads
  <2>1. sinceSeen' = stall /\ worker' = "top" /\ UNCHANGED <<app, silent, registered>>
    BY <1>5 DEF WorkerReads, NextPass
  <2> QED
    BY <2>1, Clocks DEF Stamp
<1>6. CASE WorkerReadsNothing
  <2>1. /\ inbox = <<>>
        /\ UNCHANGED <<app, sinceSeen, stall, inbox, silent, registered, server_pid>>
    BY <1>6 DEF WorkerReadsNothing
  <2> QED
    BY <2>1, Clocks DEF Stamp
<1>7. CASE WorkerStarts \/ WorkerLoads \/ Disconnected \/ StillConnected
  <2>1. /\ UNCHANGED <<app, sinceSeen, inbox, silent, registered>>
        /\ server_pid' \in {server_pid, None} /\ worker' # "check"
    BY <1>7 DEF WorkerStarts, WorkerLoads, enterLoop, Disconnected, StillConnected, NextPass
  <2> QED
    BY <2>1 DEF Stamp
<1>8. ASSUME silent' = 0, UNCHANGED <<app, sinceSeen, stall, worker, server_pid>>,
             (UNCHANGED registered /\ inbox' # <<>>) \/ ~registered'
      PROVE  Stamp'
  BY <1>8 DEF Stamp
<1>9. ASSUME NEW kind, NEW id, Published(kind, id), UNCHANGED <<clientVars, registered>>
      PROVE  Stamp'
  <2>1. silent' = 0 /\ inbox' # <<>>
    BY <1>1, <1>9 DEF Published, QueueType
  <2> QED
    BY <1>8, <1>9, <2>1
<1>10. CASE ServerReads
  <2>1. CASE Head(requests).kind = "Unregister"
    BY <1>8, <1>10, <2>1 DEF ServerReads
  <2>2. CASE Head(requests).kind = "Register"
    <3>1. server_pid' = None /\ app' # "stamped" /\ registered'
      <4>1. HasRequest("Register")
        BY <1>1, <1>10, <2>2, ReadEffect DEF HasRequest
      <4> QED
        BY <1>10, <2>2, <4>1 DEF ServerReads, Registration, RegisterAnswer
    <3> QED
      BY <3>1 DEF Stamp
  <2>3. CASE Quiet /\ UNCHANGED registered
    <3>1. UNCHANGED <<app, sinceSeen, stall, worker, server_pid, silent, inbox>>
      BY <1>10, <2>3 DEF ServerReads, Quiet
    <3> QED
      BY <2>3, <3>1 DEF Stamp
  <2>4. ASSUME NEW id, Published("OpenWs", id), UNCHANGED registered PROVE Stamp'
    BY <1>9, <1>10, <2>4 DEF ServerReads
  <2> QED
    BY <1>10, <2>1, <2>2, <2>3, <2>4 DEF ServerReads
<1>11. ASSUME NEW o \in opening, OpenSucceeds(o) \/ OpenFails(o) PROVE Stamp'
  BY <1>9, <1>11 DEF OpenSucceeds, OpenFails
<1>12. CASE ServerGreets \/ ServerBeats
  BY <1>9, <1>12 DEF ServerGreets, ServerBeats
<1>13. ASSUME NEW id \in Id, SocketEnds(id) PROVE Stamp'
  BY <1>9, <1>13 DEF SocketEnds
<1>14. CASE ServerDrops \/ ServerEnds
  BY <1>8, <1>14 DEF ServerDrops, ServerEnds
<1>15. CASE Tick
  <2>1. /\ sinceSeen' <= sinceSeen + 1 /\ sinceSeen' \in Nat
        /\ worker = "check" => stall' = stall + 1
        /\ silent' = IF registered THEN silent + 1 ELSE silent
        /\ UNCHANGED <<app, inbox, registered, server_pid, worker>>
    BY <1>15, Clocks DEF Tick
  <2> QED
    BY <2>1, Clocks DEF Stamp
<1>16. CASE Registered
  <2>1. app = "stamped" /\ UNCHANGED <<sinceSeen, stall, worker, inbox, silent, registered>>
    BY <1>16 DEF Registered
  <2> QED
    BY <2>1 DEF Stamp
<1>17. CASE ClockSet \/ PeersChange
  <2>1. UNCHANGED <<app, sinceSeen, stall, worker, server_pid, inbox, silent, registered>>
    BY <1>17 DEF ClockSet, PeersChange
  <2> QED
    BY <2>1 DEF Stamp
<1> QED
  BY <1>2, <1>3, <1>4, <1>5, <1>6, <1>7, <1>10, <1>11, <1>12, <1>13, <1>14, <1>15,
     <1>16, <1>17
  DEF Next, Application, CallGoesOn, doWork, Environment

-----------------------------------------------------------------------------
(* The worker and the connection before the first closeWebSocket.          *)

LEMMA AppUnchanged == ASSUME [Next]_vars, ~Application PROVE UNCHANGED app
<1>1. CASE doWork \/ Tick \/ ClockSet \/ UNCHANGED vars
  BY <1>1 DEF doWork, WorkerStarts, WorkerLoads, enterLoop, WorkerReads, WorkerReadsNothing,
              Disconnected, StillConnected, Tick, ClockSet, vars
<1>2. CASE Environment
  BY <1>2 DEF Environment, ServerReads, ServerGreets, ServerBeats, PeersChange, ServerDrops,
              ServerEnds, ServerStarts, OpenSucceeds, OpenFails, SocketEnds
<1> QED
  BY <1>1, <1>2 DEF Next

LEMMA LeavingStep == ASSUME [Next]_vars, Leaving PROVE Leaving' /\ ~openQueues
<1>1. CASE Application
  BY <1>1
  DEF Application, CallGoesOn, openWebSocket, spawnWebsocketsProxyServer, ServerRunning,
      connectFails, serverNotReady, RegisterAnswered, openQueues, giveUp, Registered, Opened,
      Closed, Joined, closeWebSocket, Destroy, Leaving
<1>2. CASE ~Application
  BY <1>2, AppUnchanged DEF Leaving, openQueues
<1> QED
  BY <1>1, <1>2

LEMMA SessionStep ==
    ASSUME TypeOK, RegisterAnswer, Registration, Session, ~closed', [Next]_vars
    PROVE  Session'
<1>1. QueueType
  BY DEF TypeOK
<1>2. \A id \in Id \cup {None} : ~closeWebSocket(id)
  BY DEF closeWebSocket
<1>3. ~Closed
  BY DEF Closed, Session
<1>4. app' # "close"
  <2>1. CASE Application
    BY <1>2, <2>1
    DEF Application, CallGoesOn, openWebSocket, sendOpenMessage, Return,
        spawnWebsocketsProxyServer, ServerRunning, connectFails, serverNotReady,
        RegisterAnswered, openQueues, giveUp, Registered, Opened, Closed, Joined, Destroy,
        Session
  <2>2. CASE ~Application
    BY <2>2, AppUnchanged DEF Session
  <2> QED
    BY <2>1, <2>2
<1>5. ~HasRequest("CloseWs")'
  BY <1>2, Requested DEF Session
<1>6. Leaving => Leaving' /\ ~openQueues
  BY LeavingStep
<1>7. ASSUME HasRequest("Unregister")' PROVE Leaving' /\ ~HasRequest("Register")'
  <2>1. Leaving' /\ ~HasRequest("Register") /\ ~openQueues
    <3>1. CASE HasRequest("Unregister")
      BY <1>6, <3>1 DEF Session
    <3>2. CASE Destroy /\ server_pid # None
      BY <3>2 DEF Destroy, openQueues, Leaving, Registration
    <3> QED
      BY <1>3, <1>7, <3>1, <3>2, Requested
  <2> QED
    BY <2>1, Requested
<1>8. ASSUME server_pid = None, websockets = {}, ~InPass PROVE websockets' = {} /\ ~InPass'
  <2>1. CASE Application
    BY <1>8, <2>1
    DEF Application, CallGoesOn, openWebSocket, spawnWebsocketsProxyServer, ServerRunning,
        connectFails, serverNotReady, RegisterAnswered, openQueues, giveUp, Registered, Opened,
        Closed, Joined, closeWebSocket, Destroy, InPass
  <2>2. CASE doWork \/ Tick \/ ClockSet \/ UNCHANGED vars
    BY <1>8, <2>2
    DEF doWork, WorkerStarts, WorkerLoads, enterLoop, WorkerReads, WorkerReadsNothing,
        Disconnected, StillConnected, Tick, ClockSet, InPass, vars
  <2>3. CASE Environment
    BY <1>8, <2>3
    DEF Environment, ServerReads, ServerGreets, ServerBeats, PeersChange, ServerDrops,
        ServerEnds, ServerStarts, OpenSucceeds, OpenFails, SocketEnds, InPass
  <2> QED
    BY <2>1, <2>2, <2>3 DEF Next
<1>9. ASSUME server_pid' = None, ~Leaving' PROVE websockets' = {} /\ ~InPass'
  <2>1. CASE server_pid = None
    BY <1>6, <1>8, <1>9, <2>1 DEF Session
  <2>2. CASE Disconnected
    BY <2>2 DEF Disconnected, NextPass, InPass
  <2>3. CASE server_pid # None
    <3>1. ~Destroy
      BY <1>9 DEF Destroy, Leaving
    <3>2. ~Registered
      BY <1>9 DEF Registered, RegisterAnswer, Server, None
    <3>3. CASE Application
      BY <1>2, <1>3, <1>9, <2>3, <3>1, <3>2, <3>3
      DEF Application, CallGoesOn, openWebSocket, spawnWebsocketsProxyServer, ServerRunning,
          connectFails, serverNotReady, RegisterAnswered, openQueues, giveUp, Opened, Joined
    <3>4. CASE (doWork \/ Tick \/ ClockSet \/ UNCHANGED vars) /\ ~Disconnected
      BY <1>9, <2>3, <3>4
      DEF doWork, WorkerStarts, WorkerLoads, enterLoop, WorkerReads, WorkerReadsNothing,
          StillConnected, Tick, ClockSet, vars
    <3>5. CASE Environment
      BY <1>9, <2>3, <3>5
      DEF Environment, ServerReads, ServerGreets, ServerBeats, PeersChange, ServerDrops,
          ServerEnds, ServerStarts, OpenSucceeds, OpenFails, SocketEnds
    <3> QED
      BY <2>2, <3>3, <3>4, <3>5 DEF Next
  <2> QED
    BY <2>1, <2>3
<1>10. ASSUME HasRequest("Register")' PROVE websockets' = {} /\ ~InPass'
  <2>1. CASE HasRequest("Register")
    BY <1>8, <2>1 DEF Session, Registration
  <2>2. CASE openQueues
    BY <1>8, <2>2 DEF openQueues, Session, Registration, Leaving
  <2> QED
    BY <1>10, <2>1, <2>2, Requested
<1>11. ASSUME registered', InPass' PROVE loaded' = server'
  <2>1. CASE Application
    <3>1. ~spawnWebsocketsProxyServer
      <4>1. spawnWebsocketsProxyServer => server = None /\ registered
        BY <1>11 DEF spawnWebsocketsProxyServer, StartServer
      <4> QED
        BY <4>1 DEF Registration
    <3>2. UNCHANGED <<registered, loaded, server>> /\ (InPass' => InPass)
      BY <2>1, <3>1
      DEF Application, CallGoesOn, openWebSocket, ServerRunning, connectFails, serverNotReady,
          RegisterAnswered, openQueues, giveUp, Registered, Opened, Closed, Joined,
          closeWebSocket, Destroy, InPass
    <3> QED
      BY <1>11, <3>2 DEF Session
  <2>2. CASE WorkerLoads
    BY <1>11, <2>2 DEF WorkerLoads, enterLoop, InPass, Registration
  <2>3. CASE (doWork \/ Tick \/ ClockSet \/ UNCHANGED vars) /\ ~WorkerLoads
    BY <1>11, <2>3
    DEF doWork, WorkerStarts, WorkerReads, WorkerReadsNothing, Disconnected, StillConnected,
        NextPass, Tick, ClockSet, InPass, Session, vars
  <2>4. CASE ServerReads
    <3>1. UNCHANGED <<server, loaded, worker>>
      BY <2>4 DEF ServerReads
    <3>2. Head(requests).kind = "Register" => HasRequest("Register")
      BY <1>1, <2>4, ReadEffect DEF HasRequest
    <3>3. registered
      BY <1>11, <2>4, <3>1, <3>2 DEF ServerReads, Session, InPass
    <3> QED
      BY <1>11, <3>1, <3>3 DEF Session, InPass
  <2>5. CASE Environment /\ ~ServerReads
    BY <1>11, <2>5
    DEF Environment, ServerGreets, ServerBeats, PeersChange, ServerDrops, ServerEnds,
        ServerStarts, StartServer, OpenSucceeds, OpenFails, SocketEnds, Session, Registration,
        InPass
  <2> QED
    BY <2>1, <2>2, <2>3, <2>4, <2>5 DEF Next
<1> QED
  BY <1>4, <1>5, <1>7, <1>9, <1>10, <1>11 DEF Session

-----------------------------------------------------------------------------
(* The sockets and the messages about them.                                *)

LEMMA PublishEffect ==
    ASSUME QueueType, NEW kind, NEW id, Published(kind, id)
    PROVE  /\ Len(inbox) \in Nat /\ DOMAIN inbox = 1..Len(inbox)
           /\ DOMAIN inbox' = 1..Len(inbox) + 1
           /\ \A i \in DOMAIN inbox : inbox'[i] = inbox[i]
           /\ inbox'[Len(inbox) + 1] = [pid |-> server, kind |-> kind, id |-> id]
  BY DEF QueueType, Published

LEMMA PidsStep == ASSUME TypeOK, Pids, [Next]_vars PROVE Pids'
<1>1. /\ QueueType /\ starts \in Nat /\ server \in Nat
      /\ \A i \in DOMAIN inbox : inbox[i] \in Message /\ inbox[i].pid \in Nat
  <2>1. Server \subseteq Nat /\ 0..MaxServers \subseteq Nat /\ None \in Nat
    BY ClientAssumption DEF Server, None
  <2>2. \A m \in Message : m.pid \in Server
    BY DEF Message
  <2>3. QueueType /\ \A i \in DOMAIN inbox : inbox[i] \in Message
    BY DEF TypeOK, QueueType
  <2>4. starts \in Nat /\ server \in Nat
    BY <2>1 DEF TypeOK, ServerType
  <2> QED
    BY <2>1, <2>2, <2>3, <2>4
<1>2. CASE UNCHANGED <<server, starts, inbox>>
  BY <1>2 DEF Pids
<1>3. CASE spawnWebsocketsProxyServer \/ ServerStarts
  <2>1. server' = starts + 1 /\ starts' = starts + 1 /\ UNCHANGED inbox
    BY <1>3 DEF spawnWebsocketsProxyServer, ServerStarts, StartServer
  <2> QED
    BY <1>1, <2>1 DEF Pids
<1>4. CASE openQueues \/ serverNotReady
  <2>1. inbox' = <<>> /\ UNCHANGED <<server, starts>>
    BY <1>4 DEF openQueues, serverNotReady
  <2> QED
    BY <2>1 DEF Pids
<1>5. CASE WorkerReads
  <2>1. UNCHANGED <<server, starts>>
    BY <1>5 DEF WorkerReads
  <2>2. \A i \in DOMAIN inbox' : i + 1 \in DOMAIN inbox /\ inbox'[i] = inbox[i + 1]
    BY <1>1, <1>5 DEF WorkerReads, QueueType
  <2> QED
    BY <2>1, <2>2 DEF Pids
<1>6. ASSUME NEW kind, NEW id, Published(kind, id), UNCHANGED <<server, starts>> PROVE Pids'
  <2>1. \A i \in DOMAIN inbox' : i \in DOMAIN inbox \/ i = Len(inbox) + 1
    <3>1. /\ DOMAIN inbox' = 1..Len(inbox) + 1 /\ Len(inbox) \in Nat
          /\ DOMAIN inbox = 1..Len(inbox)
      BY <1>1, <1>6, PublishEffect
    <3> QED
      BY <3>1
  <2>2. \A i \in DOMAIN inbox : inbox'[i] = inbox[i]
    BY <1>1, <1>6, PublishEffect
  <2>3. inbox'[Len(inbox) + 1] = [pid |-> server, kind |-> kind, id |-> id]
    BY <1>1, <1>6, PublishEffect
  <2>4. \A i \in DOMAIN inbox' : inbox'[i].pid <= starts
    BY <2>1, <2>2, <2>3 DEF Pids
  <2> QED
    BY <1>6, <2>4 DEF Pids
<1>7. CASE ServerEnds
  BY <1>1, <1>7 DEF ServerEnds, Pids, None
<1>8. CASE Application
  BY <1>2, <1>3, <1>4, <1>8
  DEF Application, CallGoesOn, openWebSocket, ServerRunning, connectFails, serverNotReady,
      RegisterAnswered, giveUp, Registered, Opened, Closed, Joined, closeWebSocket, Destroy
<1>9. CASE doWork \/ Tick \/ ClockSet \/ UNCHANGED vars
  BY <1>2, <1>5, <1>9
  DEF doWork, WorkerStarts, WorkerLoads, enterLoop, WorkerReadsNothing, Disconnected,
      StillConnected, Tick, ClockSet, vars
<1>10. CASE Environment
  BY <1>2, <1>3, <1>6, <1>7, <1>10
  DEF Environment, ServerReads, Quiet, ServerGreets, ServerBeats, PeersChange, ServerDrops,
      OpenSucceeds, OpenFails, SocketEnds
<1> QED
  BY <1>8, <1>9, <1>10 DEF Next

LEMMA AnnouncedOn ==
    ASSUME QueueType, NEW kind, NEW x, Published(kind, x), UNCHANGED server,
           NEW id, NEW n \in Nat
    PROVE  /\ Announced(id, n) => Announced(id, n)'
           /\ kind = "CloseWs" /\ id = x /\ n <= Len(inbox) => Announced(id, n)'
<1>1. ASSUME Announced(id, n) PROVE Announced(id, n)'
  <2>1. PICK i \in DOMAIN inbox : /\ i > n /\ inbox[i].pid = server
                                  /\ inbox[i].kind = "CloseWs" /\ inbox[i].id = id
    BY <1>1 DEF Announced
  <2>2. inbox'[i] = inbox[i] /\ i \in DOMAIN inbox'
    <3>1. inbox'[i] = inbox[i] /\ i \in 1..Len(inbox) /\ Len(inbox) \in Nat
      BY PublishEffect
    <3>2. DOMAIN inbox' = 1..Len(inbox) + 1
      BY PublishEffect
    <3> QED
      BY <3>1, <3>2
  <2> QED
    BY <2>1, <2>2 DEF Announced
<1>2. ASSUME kind = "CloseWs", id = x, n <= Len(inbox) PROVE Announced(id, n)'
  <2> DEFINE i == Len(inbox) + 1
  <2>1. i \in DOMAIN inbox' /\ i > n
    <3>1. DOMAIN inbox' = 1..Len(inbox) + 1 /\ Len(inbox) \in Nat
      BY PublishEffect
    <3> QED
      BY <1>2, <3>1
  <2>2. inbox'[i] = [pid |-> server, kind |-> kind, id |-> x]
    BY PublishEffect
  <2> QED
    BY <1>2, <2>1, <2>2 DEF Announced
<1> QED
  BY <1>1, <1>2

\* A message is published that opens only what the client has, and closes whatever
\* the client loses.
LEMMA PublishSockets ==
    ASSUME QueueType, Sockets, NEW kind, NEW x, Published(kind, x),
           UNCHANGED <<server, websockets, registered>>, Gone => Gone',
           kind = "OpenWs" => x \in attached',
           \A id \in attached \cup dropped :
               id \in attached' \cup dropped' \/ (kind = "CloseWs" /\ id = x)
    PROVE  Sockets'
<1>1. ASSUME NEW id, NEW n \in Nat, n <= Len(inbox), Accounted(id, n) PROVE Accounted(id, n)'
  <2>1. CASE id \in attached \cup dropped
    BY <1>1, <2>1, AnnouncedOn DEF Accounted
  <2>2. CASE Announced(id, n)
    BY <2>2, AnnouncedOn DEF Accounted
  <2> QED
    BY <1>1, <2>1, <2>2 DEF Accounted
<1>2. ASSUME ~Gone', NEW i \in DOMAIN inbox', NEW m, m = inbox'[i],
             m.kind = "OpenWs", m.pid = server
      PROVE  Accounted(m.id, i)'
  <2>1. CASE i \in DOMAIN inbox
    <3>1. m = inbox[i]
      BY <1>2, <2>1, PublishEffect
    <3>2. i \in Nat /\ i <= Len(inbox)
      BY <2>1 DEF QueueType
    <3>3. Accounted(m.id, i)
      BY <1>2, <2>1, <3>1 DEF Sockets
    <3> QED
      BY <1>1, <3>2, <3>3
  <2>2. CASE i = Len(inbox) + 1
    <3>1. m = [pid |-> server, kind |-> kind, id |-> x]
      BY <1>2, <2>2, PublishEffect
    <3> QED
      BY <1>2, <3>1 DEF Accounted
  <2>3. DOMAIN inbox' = 1..Len(inbox) + 1 /\ Len(inbox) \in Nat /\ DOMAIN inbox = 1..Len(inbox)
    BY PublishEffect
  <2> QED
    BY <2>1, <2>2, <2>3
<1>3. registered' => \A id \in websockets' : Accounted(id, 0)'
  <2>1. 0 <= Len(inbox)
    BY PublishEffect
  <2> QED
    BY <1>1, <2>1 DEF Sockets
<1> QED
  BY <1>2, <1>3 DEF Sockets, Accounted, Announced

\* The head of the inbox is read by a worker that has loaded the pid of the server.
LEMMA ReadSockets ==
    ASSUME TypeOK, Sockets, WorkerReads, Gone => Gone', registered => loaded = server
    PROVE  Sockets'
<1>1. QueueType /\ UNCHANGED <<server, attached, dropped, registered>>
  BY DEF WorkerReads, TypeOK
<1>2. /\ inbox # <<>> /\ Len(inbox') = Len(inbox) - 1 /\ Len(inbox) \in Nat
      /\ DOMAIN inbox = 1..Len(inbox) /\ DOMAIN inbox' = 1..Len(inbox')
      /\ 1 \in DOMAIN inbox /\ Head(inbox) = inbox[1]
      /\ \A i \in DOMAIN inbox' : i + 1 \in DOMAIN inbox /\ inbox'[i] = inbox[i + 1]
  BY <1>1 DEF WorkerReads, QueueType
<1>3. ASSUME NEW id, NEW n \in Nat, Announced(id, n + 1) PROVE Announced(id, n)'
  <2>1. PICK i \in DOMAIN inbox : /\ i > n + 1 /\ inbox[i].pid = server
                                  /\ inbox[i].kind = "CloseWs" /\ inbox[i].id = id
    BY <1>3 DEF Announced
  <2>2. i - 1 \in DOMAIN inbox' /\ i - 1 > n /\ inbox'[i - 1] = inbox[(i - 1) + 1]
    BY <1>2, <2>1
  <2>3. (i - 1) + 1 = i
    BY <1>2
  <2> QED
    BY <1>1, <2>1, <2>2, <2>3 DEF Announced
<1>4. ASSUME NEW id, NEW n \in Nat, Accounted(id, n + 1) PROVE Accounted(id, n)'
  BY <1>1, <1>3, <1>4 DEF Accounted
<1>5. ASSUME ~Gone', NEW i \in DOMAIN inbox', NEW m, m = inbox'[i],
             m.kind = "OpenWs", m.pid = server
      PROVE  Accounted(m.id, i)'
  <2>1. i + 1 \in DOMAIN inbox /\ m = inbox[i + 1] /\ i \in Nat
    BY <1>2, <1>5
  <2>2. Accounted(m.id, i + 1)
    BY <1>5, <2>1 DEF Sockets
  <2> QED
    BY <1>4, <2>1, <2>2
<1>6. ASSUME registered', NEW id \in websockets' PROVE Accounted(id, 0)'
  <2> DEFINE m == Head(inbox)
  <2>1. loaded = server /\ registered /\ ~Gone
    BY <1>1, <1>6 DEF Gone
  <2>2. CASE id \in websockets /\ ~(m.pid = server /\ m.kind = "CloseWs" /\ m.id = id)
    <3>1. Accounted(id, 0)
      BY <2>1, <2>2 DEF Sockets
    <3>2. Announced(id, 0) => Announced(id, 0 + 1)
      <4> SUFFICES ASSUME NEW i \in DOMAIN inbox, i > 0, inbox[i].pid = server,
                          inbox[i].kind = "CloseWs", inbox[i].id = id
                   PROVE  i > 0 + 1
        BY DEF Announced
      <4>1. i # 1
        BY <1>2, <2>2
      <4> QED
        BY <1>2, <4>1
    <3> QED
      BY <1>4, <3>1, <3>2 DEF Accounted
  <2>3. CASE m.pid = server /\ m.kind = "OpenWs" /\ id = m.id
    <3>1. Accounted(id, 1)
      BY <1>2, <2>1, <2>3 DEF Sockets
    <3>2. Accounted(id, 0 + 1)
      BY <3>1
    <3> QED
      BY <1>4, <3>2
  <2>4. websockets' = IF m.pid = server THEN handled(m) ELSE websockets
    BY <2>1 DEF WorkerReads
  <2> QED
    BY <1>6, <2>2, <2>3, <2>4 DEF handled
<1> QED
  BY <1>1, <1>5, <1>6 DEF Sockets, Accounted, Announced

LEMMA GoneStep == ASSUME TypeOK, [Next]_vars, Gone PROVE Gone'
<1>1. Leaving' /\ ~HasRequest("Register")'
  BY LeavingStep, Requested DEF Gone
<1>2. ~registered'
  <2>1. CASE ServerReads
    <3>1. Head(requests).kind # "Register"
      BY <2>1, ReadEffect DEF TypeOK, Gone, HasRequest
    <3> QED
      BY <2>1, <3>1 DEF ServerReads, Gone
  <2>2. CASE Application
    BY <2>2
    DEF Application, CallGoesOn, openWebSocket, spawnWebsocketsProxyServer, ServerRunning,
        connectFails, serverNotReady, RegisterAnswered, openQueues, giveUp, Registered, Opened,
        Closed, Joined, closeWebSocket, Destroy, Gone
  <2>3. CASE doWork \/ Tick \/ ClockSet \/ UNCHANGED vars
    BY <2>3
    DEF doWork, WorkerStarts, WorkerLoads, enterLoop, WorkerReads, WorkerReadsNothing,
        Disconnected, StillConnected, Tick, ClockSet, Gone, vars
  <2>4. CASE Environment /\ ~ServerReads
    BY <2>4
    DEF Environment, ServerGreets, ServerBeats, PeersChange, ServerDrops, ServerEnds,
        ServerStarts, OpenSucceeds, OpenFails, SocketEnds, Gone
  <2> QED
    BY <2>1, <2>2, <2>3, <2>4 DEF Next
<1> QED
  BY <1>1, <1>2 DEF Gone

LEMMA SocketsStep ==
    ASSUME TypeOK, Registration, Pids, Session, Sockets, ~closed', [Next]_vars
    PROVE  Sockets'
<1>1. QueueType
  BY DEF TypeOK
<1>2. Gone => Gone'
  BY GoneStep
<1>3. ASSUME UNCHANGED <<inbox, server, dropped>>, attached \subseteq attached',
             websockets' \subseteq websockets, registered' => registered \/ websockets' = {}
      PROVE  Sockets'
  BY <1>2, <1>3 DEF Sockets, Accounted, Announced
<1>4. CASE openQueues \/ serverNotReady
  <2>1. inbox' = <<>> /\ websockets' = {}
    BY <1>4 DEF openQueues, serverNotReady, Registration, Session, Leaving
  <2> QED
    BY <2>1 DEF Sockets
<1>5. CASE spawnWebsocketsProxyServer \/ ServerStarts
  <2>1. server = None /\ server' = starts + 1 /\ UNCHANGED <<inbox, registered>>
    BY <1>5 DEF spawnWebsocketsProxyServer, ServerStarts, StartServer
  <2>2. \A i \in DOMAIN inbox : inbox[i].pid # server'
    BY <1>1, <2>1, ClientAssumption DEF Pids, TypeOK, ServerType
  <2> QED
    BY <2>1, <2>2 DEF Sockets, Registration
<1>6. CASE WorkerReads
  BY <1>2, <1>6, ReadSockets DEF Session, InPass, WorkerReads
<1>7. CASE ServerReads
  <2> DEFINE r == Head(requests)
  <2>1. UNCHANGED <<server, websockets, dropped>> /\ HasRequest(r.kind)
    BY <1>1, <1>7, ReadEffect DEF ServerReads, HasRequest
  <2>2. CASE r.kind = "Register"
    <3>1. websockets' = {} /\ UNCHANGED <<inbox, attached>>
      BY <1>7, <2>1, <2>2 DEF ServerReads, Quiet, Session
    <3> QED
      BY <1>3, <2>1, <3>1
  <2>3. CASE r.kind = "Unregister"
    <3>1. ~registered' /\ Leaving' /\ ~HasRequest("Register")'
      <4>1. Leaving /\ ~HasRequest("Register")
        BY <2>1, <2>3 DEF Session
      <4> QED
        BY <1>7, <2>3, <4>1, LeavingStep, Requested DEF ServerReads
    <3> QED
      BY <3>1 DEF Sockets, Gone
  <2>4. CASE r.kind = "OpenWs" /\ UNCHANGED attached /\ Quiet
    <3>1. UNCHANGED registered
      BY <1>7, <2>4 DEF ServerReads
    <3> QED
      BY <1>3, <2>1, <2>4, <3>1 DEF Quiet
  <2>5. ASSUME NEW id \in sockets, Published("OpenWs", id), attached' = attached \cup {id},
               UNCHANGED registered
        PROVE  Sockets'
    BY <1>1, <1>2, <2>1, <2>5, PublishSockets
  <2>6. r.kind # "CloseWs"
    BY <2>1 DEF Session
  <2> QED
    BY <1>7, <2>2, <2>3, <2>4, <2>5, <2>6 DEF ServerReads
<1>8. CASE ServerGreets \/ ServerBeats
  BY <1>1, <1>2, <1>8, PublishSockets DEF ServerGreets, ServerBeats
<1>9. ASSUME NEW o \in opening, OpenSucceeds(o) \/ OpenFails(o) PROVE Sockets'
  <2>1. CASE OpenSucceeds(o)
    BY <1>1, <1>2, <2>1, PublishSockets DEF OpenSucceeds
  <2>2. CASE OpenFails(o)
    BY <1>1, <1>2, <2>2, PublishSockets DEF OpenFails
  <2> QED
    BY <1>9, <2>1, <2>2
<1>10. ASSUME NEW id \in Id, SocketEnds(id) PROVE Sockets'
  BY <1>1, <1>2, <1>10, PublishSockets DEF SocketEnds
<1>11. CASE ServerDrops
  <2>1. /\ UNCHANGED <<inbox, server>> /\ ~registered'
        /\ attached \cup dropped \subseteq attached' \cup dropped'
    BY <1>11 DEF ServerDrops
  <2> QED
    BY <1>2, <2>1 DEF Sockets, Accounted, Announced
<1>12. CASE ServerEnds
  <2>1. UNCHANGED inbox /\ server' = None /\ ~registered'
    BY <1>12 DEF ServerEnds
  <2>2. \A i \in DOMAIN inbox : inbox[i].pid # None
    BY <1>1 DEF QueueType, Message, Server, None
  <2> QED
    BY <2>1, <2>2 DEF Sockets
<1>13. CASE Application
  BY <1>3, <1>4, <1>5, <1>13
  DEF Application, CallGoesOn, openWebSocket, ServerRunning, connectFails, serverNotReady,
      RegisterAnswered, giveUp, Registered, Opened, Closed, Joined, closeWebSocket, Destroy
<1>14. CASE doWork \/ Tick \/ ClockSet \/ UNCHANGED vars
  BY <1>3, <1>6, <1>14
  DEF doWork, WorkerStarts, WorkerLoads, enterLoop, WorkerReadsNothing, Disconnected,
      StillConnected, Tick, ClockSet, vars
<1>15. CASE PeersChange
  BY <1>3, <1>15 DEF PeersChange
<1> QED
  BY <1>5, <1>7, <1>8, <1>9, <1>10, <1>11, <1>12, <1>13, <1>14, <1>15 DEF Next, Environment

-----------------------------------------------------------------------------
(* The theorems.                                                           *)

LEMMA InvStep == Inv /\ [Next]_vars => Inv'
<1> SUFFICES ASSUME Inv, [Next]_vars PROVE Inv'
  OBVIOUS
<1>1. TypeOK' /\ Awaits' /\ RegisterAnswer' /\ Registration' /\ Stamp' /\ Pids'
  BY TypeStep, AwaitsStep, RegisterAnswerStep, RegistrationStep, StampStep, PidsStep DEF Inv
<1>2. ASSUME ~closed' PROVE ~closed
  <2>1. CASE Application
    BY <1>2, <2>1
    DEF Application, CallGoesOn, openWebSocket, spawnWebsocketsProxyServer, ServerRunning,
        connectFails, serverNotReady, RegisterAnswered, openQueues, giveUp, Registered, Opened,
        Closed, Joined, closeWebSocket, Destroy
  <2>2. CASE doWork \/ Tick \/ ClockSet \/ UNCHANGED vars
    BY <1>2, <2>2
    DEF doWork, WorkerStarts, WorkerLoads, enterLoop, WorkerReads, WorkerReadsNothing,
        Disconnected, StillConnected, Tick, ClockSet, vars
  <2>3. CASE Environment
    BY <1>2, <2>3
    DEF Environment, ServerReads, ServerGreets, ServerBeats, PeersChange, ServerDrops,
        ServerEnds, ServerStarts, OpenSucceeds, OpenFails, SocketEnds
  <2> QED
    BY <2>1, <2>2, <2>3 DEF Next
<1>3. ASSUME ~closed' PROVE Session' /\ Sockets'
  BY <1>2, <1>3, SessionStep, SocketsStep DEF Inv
<1> QED
  BY <1>1, <1>3 DEF Inv

\* The invariant holds in every state that the two threads and the servers reach,
\* in every order of their steps.
THEOREM Invariance == Spec => []Inv
  BY InitInv, InvStep, PTL DEF Spec

\* Type correctness of the client library's state, its queues and what it sees of
\* the servers (websocket_proxy_client.h).
THEOREM TypeCorrect == Spec => []TypeOK
<1>1. Inv => TypeOK
  BY DEF Inv
<1> QED
  BY <1>1, Invariance, PTL

\* handleWsClose hears of every socket the client loses: LostSocketsAnnounced, for
\* every interleaving of the two threads, the servers and their restarts.
THEOREM Announcements == Spec => []LostSocketsAnnounced
<1>1. Inv => LostSocketsAnnounced
  BY DEF Inv, Sockets, Accounted, Announced, LostSocketsAnnounced
<1> QED
  BY <1>1, Invariance, PTL

\* doWork reports the loss of a server that has the client registered only through
\* the race on last_server_heartbeat_time_, or after a setting of the system clock,
\* whose steps may be of any size: NoFalseAlarm.
THEOREM FalseAlarms == Spec => NoFalseAlarm
<1>1. ASSUME Inv, Disconnected
      PROVE  server_pid # server \/ ~registered \/ sinceSeen < stall \/ stampSkew # nowSkew
  <2> SUFFICES ASSUME server_pid = server, registered, sinceSeen >= stall,
                      stampSkew = nowSkew
               PROVE  FALSE
    BY <1>1, Clocks DEF Inv
  <2>1. TypeOK /\ server_pid # None /\ worker = "check" /\ TimedOut
    BY <1>1 DEF Inv, Registration, Disconnected
  <2>2. sinceSeen - stall \in 0..HEARTBEAT_TIMEOUT
    BY <1>1, <2>1, Clocks, PassAssumption DEF Inv, Stamp
  <2>3. sinceSeen + stampSkew - (stall + nowSkew) = sinceSeen - stall
    <3>1. nowSkew \in Int
      BY <2>1, ClientAssumption DEF TypeOK, ClientType, ClockSteps
    <3> QED
      BY <2>1, <3>1, Clocks
  <2>4. (sinceSeen - stall) % WORD = sinceSeen - stall
    <3>1. WORD \in Nat /\ HEARTBEAT_TIMEOUT < WORD /\ HEARTBEAT_TIMEOUT \in Nat
      BY ClientAssumption
    <3> HIDE <1>1
    <3> QED
      BY <2>2, <3>1
  <2> QED
    BY <2>1, <2>2, <2>3, <2>4, Clocks DEF TimedOut, elapsed
<1>2. Inv /\ [Next]_vars =>
          [Disconnected => \/ server_pid # server \/ ~registered
                           \/ sinceSeen < stall \/ stampSkew # nowSkew]_vars
  BY <1>1
<1> QED
  BY <1>2, Invariance, PTL DEF Spec, NoFalseAlarm

\* connect() does not replace server_queue_ under a worker that is reading it, before
\* the first closeWebSocket: QueueReplacedSafely.
THEOREM QueueReplacement == Spec => QueueReplacedSafely
<1>1. ASSUME Inv, openQueues \/ serverNotReady PROVE worker # "read" \/ closed
  BY <1>1 DEF Inv, Session, Registration, openQueues, serverNotReady, Leaving, InPass
<1>2. Inv /\ [Next]_vars => [openQueues \/ serverNotReady => worker # "read" \/ closed]_vars
  BY <1>1
<1> QED
  BY <1>2, Invariance, PTL DEF Spec, QueueReplacedSafely

=============================================================================
