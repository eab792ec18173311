----------------------- MODULE SharedConnectionProofs -----------------------
(***************************************************************************)
(* The proxy implements, for every (url, api_key), one shared connection.  *)
(* The inductive invariant of WebsocketProxyProofs carries the proof: it   *)
(* makes the key index exact for the keys whose opens have not raced, so   *)
(* that what the handlers do by id and erase by key is what the clients of *)
(* the key see.                                                            *)
(***************************************************************************)
EXTENDS WebsocketProxyProofs

\* A step of the proxy is a step, or nothing, for the clients of k.
Simulates(k) == [Connection(k)!Next]_(Connection(k)!vars)

-----------------------------------------------------------------------------
(* What the handlers do to the connection of a key.                        *)

LEMMA IndexedFacts ==
    ASSUME Inv, NEW k \in Key, Indexed(k) # NoWs
    PROVE  /\ Indexed(k) \in websocketsById /\ Indexed(k) \in Id
           /\ key[Indexed(k)] = k
           /\ status[Indexed(k)] \in {"CONNECTED", "DISCONNECTING", "DISCONNECTED"}
           /\ users[Indexed(k)] # {} /\ users[Indexed(k)] \subseteq Pid
<1>1. Indexed(k) \in websocketsById /\ key[Indexed(k)] = k
  BY DEF Inv, Tables, IndexSound, Indexed
<1>2. Indexed(k) \in Id
  BY <1>1 DEF Inv, TypeOK
<1>3. status[Indexed(k)] \in Status /\ status[Indexed(k)] \notin {"UNUSED", "CONNECTING"}
  BY <1>1, <1>2 DEF Inv, TypeOK, Tables, StatusSound
<1>4. users[Indexed(k)] # {} /\ users[Indexed(k)] \subseteq Pid
  BY <1>1, <1>2 DEF Inv, TypeOK, Users, SocketsAreUsed
<1> QED
  BY <1>1, <1>2, <1>3, <1>4 DEF Status, Open

\* Erasing by key hits the indexed socket exactly when erasing by id does.
LEMMA EraseExact ==
    ASSUME Inv, NEW k \in Key \ raced, NEW R \in SUBSET websocketsById, Erase(R)
    PROVE  Indexed(k)' = IF Indexed(k) \in R THEN NoWs ELSE Indexed(k)
<1>1. \A id \in R : key[id] = k => Indexed(k) = id
  BY DEF Inv, Sharing, Exact, Indexed
<1>2. Indexed(k) \in R => key[Indexed(k)] = k
  <2> SUFFICES ASSUME Indexed(k) \in R PROVE key[Indexed(k)] = k
    OBVIOUS
  <2>1. Indexed(k) # NoWs
    BY DEF Inv, TypeOK, NoWs, Id
  <2> QED
    BY <2>1, IndexedFacts
<1> QED
  BY <1>1, <1>2 DEF Erase, Indexed

\* Who is asking depends only on the sockets that connect.
LEMMA AskingKept ==
    ASSUME NEW k \in Key,
           \A id \in Id : (key'[id] = k /\ status'[id] = "CONNECTING")
                              <=> (key[id] = k /\ status[id] = "CONNECTING"),
           \A id \in Id : key[id] = k /\ status[id] = "CONNECTING" => opener'[id] = opener[id]
    PROVE  Asking(k)' = Asking(k)
<1>1. {i \in Id : key[i] = k /\ status[i] = "CONNECTING"}'
        = {i \in Id : key[i] = k /\ status[i] = "CONNECTING"}
  OBVIOUS
<1> QED
  BY <1>1 DEF Asking

\* close() of sockets of the table leaves the ones that connect alone.
LEMMA CloseKeepsAsking ==
    ASSUME Inv, NEW k \in Key, NEW S \in SUBSET websocketsById, status' = close(S),
           UNCHANGED <<key, opener>>
    PROVE  Asking(k)' = Asking(k)
<1>1. \A id \in Id : status'[id] = "CONNECTING" <=> status[id] = "CONNECTING"
  BY DEF close, Open, Inv, Tables, StatusSound
<1> QED
  BY <1>1, AskingKept

\* A handler that does not touch the indexed socket of k, nor any that connects.
LEMMA Untouched ==
    ASSUME NEW k \in Key \ raced, Indexed(k)' = Indexed(k), Asking(k)' = Asking(k),
           run' = run, k \notin raced',
           Indexed(k) # NoWs =>
              /\ users'[Indexed(k)] = users[Indexed(k)]
              /\ status'[Indexed(k)] \in Open <=> status[Indexed(k)] \in Open
    PROVE  Simulates(k)
<1>1. Link(k)' = Link(k) /\ Members(k)' = Members(k)
  BY DEF Link, Members
<1> QED
  BY <1>1 DEF Simulates, Connection!vars

\* The processes of D leave the connection of k, whose handler erases the
\* deserted sockets S and, in the message pump, some that have closed.
LEMMA Departure ==
    ASSUME Inv, NEW k \in Key \ raced, NEW D \in SUBSET Pid,
           NEW S, NEW R \in SUBSET websocketsById,
           S \subseteq R, R \ S \subseteq closed_sockets, Erase(R),
           D \cap clients' = {} \/ \E p \in clients : D = {p},
           Indexed(k) # NoWs =>
              /\ users'[Indexed(k)] = users[Indexed(k)] \ D
              /\ Indexed(k) \in S <=> users[Indexed(k)] \subseteq D
              /\ Indexed(k) \notin S => status'[Indexed(k)] = status[Indexed(k)],
           Asking(k)' = Asking(k), run' = run, k \notin raced'
    PROVE  Simulates(k)
<1>1. Indexed(k)' = IF Indexed(k) \in R THEN NoWs ELSE Indexed(k)
  BY EraseExact
<1>2. CASE Indexed(k) = NoWs
  <2>1. Indexed(k)' = NoWs
    BY <1>1, <1>2
  <2> QED
    BY <1>2, <2>1, Untouched
<1>3. CASE Indexed(k) # NoWs /\ Indexed(k) \in S
  <2>1. Indexed(k)' = NoWs
    BY <1>1, <1>3
  <2>2. Link(k) # "down" /\ Link(k)' = "down"
    BY <1>3, <2>1 DEF Link
  <2>3. Members(k) \subseteq D /\ Members(k)' = Members(k) \ D
    BY <1>3, <2>1 DEF Members
  <2>4. Connection(k)!Leave(D)
    BY <2>2, <2>3 DEF Connection!Leave
  <2> QED
    BY <2>4 DEF Simulates, Connection!Next
<1>4. CASE Indexed(k) # NoWs /\ Indexed(k) \notin S /\ Indexed(k) \in R
  <2>1. Indexed(k)' = NoWs
    BY <1>1, <1>4
  <2>2. status[Indexed(k)] = "DISCONNECTED"
    BY <1>4 DEF Inv, Tables, StatusSound
  <2>3. Link(k) = "closing" /\ Link(k)' = "down" /\ Members(k)' = {}
    BY <1>4, <2>1, <2>2 DEF Link, Members, Open
  <2>4. Connection(k)!Cleared
    BY <2>3 DEF Connection!Cleared
  <2> QED
    BY <2>4 DEF Simulates, Connection!Next
<1>5. CASE Indexed(k) # NoWs /\ Indexed(k) \notin R
  <2>1. Indexed(k)' = Indexed(k) /\ Indexed(k) \notin S
    BY <1>1, <1>5
  <2>2. Link(k) # "down" /\ Link(k)' = Link(k)
    BY <1>5, <2>1 DEF Link
  <2>3. ~(Members(k) \subseteq D) /\ Members(k)' = Members(k) \ D
    BY <1>5, <2>1 DEF Members
  <2>4. Connection(k)!Leave(D)
    BY <2>2, <2>3 DEF Connection!Leave
  <2> QED
    BY <2>4 DEF Simulates, Connection!Next
<1> QED
  BY <1>2, <1>3, <1>4, <1>5

\* The same for the message pump: FinishMessage erases S and what has closed.
LEMMA MessageDeparture ==
    ASSUME Inv, NEW k \in Key \ raced, NEW D \in SUBSET Pid,
           NEW S \in SUBSET websocketsById, FinishMessage(S),
           D \cap clients' = {} \/ \E p \in clients : D = {p},
           Indexed(k) # NoWs =>
              /\ users'[Indexed(k)] = users[Indexed(k)] \ D
              /\ Indexed(k) \in S <=> users[Indexed(k)] \subseteq D
              /\ Indexed(k) \notin S => status'[Indexed(k)] = status[Indexed(k)],
           Asking(k)' = Asking(k), k \notin raced'
    PROVE  Simulates(k)
<1> DEFINE R == S \cup (closed_sockets \cap websocketsById)
<1>1. Erase(R) /\ run' = run
  BY DEF FinishMessage, removeClosedSockets
<1>2. R \in SUBSET websocketsById /\ S \subseteq R /\ R \ S \subseteq closed_sockets
  OBVIOUS
<1> HIDE DEF R
<1> QED
  BY <1>1, <1>2, Departure

\* A message of no consequence for the connection of k.
LEMMA MessageUntouched ==
    ASSUME Inv, NEW k \in Key \ raced, FinishMessage({}),
           Indexed(k) # NoWs =>
              /\ users'[Indexed(k)] = users[Indexed(k)]
              /\ status'[Indexed(k)] = status[Indexed(k)],
           Asking(k)' = Asking(k), k \notin raced'
    PROVE  Simulates(k)
<1>1. Indexed(k) # NoWs => ~(users[Indexed(k)] \subseteq {})
  BY IndexedFacts
<1>2. {} \in SUBSET Pid /\ {} \in SUBSET websocketsById /\ {} \cap clients' = {}
  OBVIOUS
<1> QED
  BY <1>1, <1>2, MessageDeparture

-----------------------------------------------------------------------------
(* Every step of the proxy, for a key whose opens have not raced.          *)

LEMMA UnregisterFacts ==
    ASSUME Inv, NEW k \in Key, NEW D \in SUBSET Pid, unregisterClient(D),
           UNCHANGED <<key, opener>>
    PROVE  /\ Deserted(D) \subseteq websocketsById
           /\ Asking(k)' = Asking(k)
           /\ Indexed(k) # NoWs =>
                /\ users'[Indexed(k)] = users[Indexed(k)] \ D
                /\ Indexed(k) \in Deserted(D) <=> users[Indexed(k)] \subseteq D
                /\ Indexed(k) \notin Deserted(D) =>
                      status'[Indexed(k)] = status[Indexed(k)]
<1>1. Deserted(D) \subseteq websocketsById
  BY DEF Deserted
<1>2. Asking(k)' = Asking(k)
  BY <1>1, CloseKeepsAsking DEF unregisterClient
<1>3. ASSUME Indexed(k) # NoWs
      PROVE  /\ users'[Indexed(k)] = users[Indexed(k)] \ D
             /\ Indexed(k) \in Deserted(D) <=> users[Indexed(k)] \subseteq D
             /\ Indexed(k) \notin Deserted(D) => status'[Indexed(k)] = status[Indexed(k)]
  <2>1. Indexed(k) \in websocketsById /\ Indexed(k) \in Id /\ users[Indexed(k)] # {}
    BY <1>3, IndexedFacts
  <2>2. users'[Indexed(k)] = users[Indexed(k)] \ D
    BY <2>1 DEF unregisterClient, remainingUsers
  <2>3. Indexed(k) \in Deserted(D) <=> users[Indexed(k)] \subseteq D
    BY <2>1 DEF Deserted
  <2>4. Indexed(k) \notin Deserted(D) => status'[Indexed(k)] = status[Indexed(k)]
    BY <2>1 DEF unregisterClient, close
  <2> QED
    BY <2>2, <2>3, <2>4
<1> QED
  BY <1>1, <1>2, <1>3

LEMMA JoinSimulates ==
    ASSUME Inv, NEW k \in Key \ raced, NEW p \in Pid, NEW j \in Key, JoinWs(p, j)
    PROVE  Simulates(k)
<1>1. FinishMessage({}) /\ UNCHANGED <<status, key, opener, raced>>
  BY DEF JoinWs, histVars
<1>2. Asking(k)' = Asking(k)
  BY <1>1, AskingKept
<1>3. /\ Indexed(j) # NoWs /\ status[Indexed(j)] \notin {"DISCONNECTING", "DISCONNECTED"}
      /\ p \in clients
  BY DEF JoinWs, Joinable, Indexed
<1>4. Indexed(j) \in Id /\ key[Indexed(j)] = j /\ status[Indexed(j)] = "CONNECTED"
  BY <1>3, IndexedFacts
<1>5. \A i \in Id : users'[i] = IF i = Indexed(j) THEN users[i] \cup {p} ELSE users[i]
  BY <1>4 DEF JoinWs, Indexed, Inv, TypeOK
<1>6. CASE j # k
  <2>1. Indexed(k) # NoWs => Indexed(k) \in Id /\ Indexed(k) # Indexed(j)
    BY <1>4, <1>6, IndexedFacts
  <2>2. Indexed(k) # NoWs => users'[Indexed(k)] = users[Indexed(k)]
    BY <1>5, <2>1
  <2> QED
    BY <1>1, <1>2, <2>2, MessageUntouched
<1>7. CASE j = k
  <2> DEFINE R == closed_sockets \cap websocketsById
  <2>1. Erase(R) /\ run' = run
    BY <1>1 DEF FinishMessage, removeClosedSockets
  <2>2. Indexed(k) \notin R
    BY <1>4, <1>7 DEF Inv, Tables, StatusSound
  <2>3. R \in SUBSET websocketsById
    OBVIOUS
  <2> HIDE DEF R
  <2>4. Indexed(k)' = Indexed(k)
    BY <2>1, <2>2, <2>3, EraseExact
  <2>5. Link(k) = "up" /\ Link(k)' = "up"
    BY <1>1, <1>3, <1>4, <1>7, <2>4 DEF Link, Open
  <2>6. Members(k)' = Members(k) \cup {p}
    BY <1>3, <1>4, <1>5, <1>7, <2>4 DEF Members
  <2>7. Connection(k)!Join(p)
    BY <1>1, <1>2, <1>3, <2>1, <2>5, <2>6 DEF Connection!Join
  <2> QED
    BY <2>7 DEF Simulates, Connection!Next
<1> QED
  BY <1>6, <1>7

LEMMA OpenSimulates ==
    ASSUME Inv, NEW k \in Key \ raced', NEW p \in Pid, NEW j \in Key, openNewWs(p, j)
    PROVE  Simulates(k)
<1> DEFINE new == websocket_id + 1
<1>1. new \in Id /\ status[new] = "UNUSED"
  BY ConstantsAssumption DEF openNewWs, Inv, TypeOK, Id, Tables, StatusSound
<1>2. /\ \A id \in Id : status'[id] = IF id = new THEN "CONNECTING" ELSE status[id]
      /\ \A id \in Id : key'[id] = IF id = new THEN j ELSE key[id]
      /\ \A id \in Id : opener'[id] = IF id = new THEN p ELSE opener[id]
      /\ users' = users /\ FinishMessage({})
  BY <1>1 DEF openNewWs, Inv, TypeOK
<1> HIDE DEF new
<1>3. k \notin raced /\ (j = k => ~Unsettled(k))
  BY DEF openNewWs
<1>4. CASE j # k
  <2>2. Asking(k)' = Asking(k)
    BY <1>1, <1>2, <1>4, AskingKept
  <2>3. Indexed(k) # NoWs => Indexed(k) # new /\ Indexed(k) \in Id
    BY <1>1, IndexedFacts
  <2>4. Indexed(k) # NoWs => /\ users'[Indexed(k)] = users[Indexed(k)]
                             /\ status'[Indexed(k)] = status[Indexed(k)]
    BY <1>2, <2>3
  <2> QED
    BY <1>2, <1>3, <2>2, <2>4, MessageUntouched
<1>5. CASE j = k
  <2>1. /\ Indexed(k) = NoWs
        /\ \A id \in Id : ~(key[id] = k /\ status[id] = "CONNECTING")
    BY <1>3, <1>5 DEF openNewWs, Joinable, Unsettled, Open, Indexed
  <2>2. Indexed(k)' = NoWs /\ run' = run /\ raced' = raced
    BY <1>2, <1>3, <1>5, <2>1
    DEF openNewWs, FinishMessage, removeClosedSockets, Erase, Indexed
  <2>3. Asking(k) = {}
    BY <2>1 DEF Asking
  <2>4. {i \in Id : key[i] = k /\ status[i] = "CONNECTING"}' = {new}
    BY <1>1, <1>2, <1>5, <2>1
  <2>5. Asking(k)' = {p}
    BY <1>1, <1>2, <2>4 DEF Asking
  <2>6. Connection(k)!Ask(p)
    BY <2>1, <2>2, <2>3, <2>5 DEF openNewWs, Connection!Ask, Link, Members
  <2> QED
    BY <2>6 DEF Simulates, Connection!Next
<1> QED
  BY <1>4, <1>5

LEMMA ConnectSimulates ==
    ASSUME Inv, NEW k \in Key \ raced, NEW id \in Id, OpenSucceeds(id)
    PROVE  Simulates(k)
<1>1. /\ status[id] = "CONNECTING" /\ key[id] \in Key /\ opener[id] \in Pid
      /\ users[id] = {}
  BY DEF OpenSucceeds, Inv, Tables, StatusSound, Users, NoEarlyUsers
<1>2. /\ \A i \in Id : status'[i] = IF i = id THEN "CONNECTED" ELSE status[i]
      /\ \A i \in Id : i # id => opener'[i] = opener[i]
      /\ \A i \in Id : users'[i] = IF i = id THEN {opener[id]} ELSE users[i]
      /\ UNCHANGED <<key, raced, run>>
  BY <1>1 DEF OpenSucceeds, openCallback, Inv, TypeOK, loopVars
<1>3. Indexed(k)' = IF k = key[id] /\ Indexed(k) = NoWs THEN id ELSE Indexed(k)
  BY <1>1 DEF OpenSucceeds, openCallback, Inv, TypeOK, Indexed
<1>4. CASE key[id] # k
  <2>1. Asking(k)' = Asking(k)
    BY <1>2, <1>4, AskingKept
  <2>2. Indexed(k)' = Indexed(k)
    BY <1>3, <1>4
  <2>3. Indexed(k) # NoWs => Indexed(k) \in Id /\ Indexed(k) # id
    BY <1>4, IndexedFacts
  <2>4. Indexed(k) # NoWs => /\ users'[Indexed(k)] = users[Indexed(k)]
                             /\ status'[Indexed(k)] = status[Indexed(k)]
    BY <1>2, <2>3
  <2> QED
    BY <1>2, <2>1, <2>2, <2>4, Untouched
<1>5. CASE key[id] = k
  <2>1. /\ Indexed(k) = NoWs
        /\ \A j \in Id : key[j] = k /\ status[j] = "CONNECTING" => j = id
    BY <1>1, <1>5 DEF Inv, Sharing, Exact, Indexed
  <2>2. Indexed(k)' = id /\ id # NoWs
    BY <1>3, <1>5, <2>1 DEF NoWs, Id
  <2>3. {i \in Id : key[i] = k /\ status[i] = "CONNECTING"} = {id}
    BY <1>1, <1>5, <2>1
  <2>4. Asking(k) = {opener[id]}
    BY <2>3 DEF Asking
  <2>5. {i \in Id : key[i] = k /\ status[i] = "CONNECTING"}' = {}
    BY <1>2, <2>1
  <2>6. Asking(k)' = {}
    BY <2>5 DEF Asking
  <2>7. Link(k) = "down" /\ Link(k)' = "up" /\ Members(k)' = {opener[id]}
    BY <1>2, <2>1, <2>2 DEF Link, Members, Open
  <2>8. Connection(k)!Up
    BY <1>2, <2>4, <2>6, <2>7 DEF Connection!Up
  <2> QED
    BY <2>8 DEF Simulates, Connection!Next
<1> QED
  BY <1>4, <1>5

\* fail() of a socket that connects, is up, or is already going down.
LEMMA FailSimulates ==
    ASSUME Inv, NEW k \in Key \ raced, NEW id \in Id, fail(id),
           UNCHANGED <<websocketsByUrlApiKey, key, users, run, raced>>,
           \A i \in Id : i # id => opener'[i] = opener[i],
           status[id] # "CONNECTING" => opener'[id] = opener[id]
    PROVE  Simulates(k)
<1>1. \A i \in Id : status'[i] = IF i = id /\ status[i] \in Open THEN "DISCONNECTING"
                                                                 ELSE status[i]
  BY DEF fail, close
<1>2. Indexed(k)' = Indexed(k)
  BY DEF Indexed
<1>3. CASE key[id] = k /\ status[id] = "CONNECTING"
  <2>1. /\ Indexed(k) = NoWs
        /\ \A j \in Id : key[j] = k /\ status[j] = "CONNECTING" => j = id
    BY <1>3 DEF Inv, Sharing, Exact, Indexed
  <2>2. id \in {i \in Id : key[i] = k /\ status[i] = "CONNECTING"}
    BY <1>3
  <2>3. Asking(k) # {}
    BY <2>2 DEF Asking
  <2>4. {i \in Id : key[i] = k /\ status[i] = "CONNECTING"}' = {}
    BY <1>1, <2>1 DEF Open
  <2>5. Asking(k)' = {}
    BY <2>4 DEF Asking
  <2>6. Connection(k)!Refused
    BY <1>2, <2>1, <2>3, <2>5 DEF Connection!Refused, Link, Members
  <2> QED
    BY <2>6 DEF Simulates, Connection!Next
<1>4. CASE ~(key[id] = k /\ status[id] = "CONNECTING")
  <2>1. Asking(k)' = Asking(k)
    <3>1. \A i \in Id : (key'[i] = k /\ status'[i] = "CONNECTING")
                            <=> (key[i] = k /\ status[i] = "CONNECTING")
      BY <1>1, <1>4
    <3>2. \A i \in Id : key[i] = k /\ status[i] = "CONNECTING" => opener'[i] = opener[i]
      BY <1>4
    <3> QED
      BY <3>1, <3>2, AskingKept
  <2>2. CASE Indexed(k) = id /\ status[id] \in Open
    <3>1. Indexed(k) # NoWs
      BY <2>2 DEF NoWs, Id
    <3>2. Link(k) = "up" /\ Link(k)' = "closing"
      BY <1>1, <1>2, <2>2, <3>1 DEF Link, Open
    <3>3. Members(k)' = Members(k)
      BY <1>2 DEF Members
    <3>4. Connection(k)!Fails
      BY <2>1, <3>2, <3>3 DEF Connection!Fails
    <3> QED
      BY <3>4 DEF Simulates, Connection!Next
  <2>3. CASE ~(Indexed(k) = id /\ status[id] \in Open)
    <3>1. Indexed(k) # NoWs => status'[Indexed(k)] = status[Indexed(k)]
      BY <1>1, <2>3, IndexedFacts
    <3> QED
      BY <1>2, <2>1, <3>1, Untouched
  <2> QED
    BY <2>2, <2>3
<1> QED
  BY <1>3, <1>4

\* The handlers that neither the tables nor the sockets notice.
LEMMA QuietSimulates ==
    ASSUME NEW k \in Key \ raced,
           UNCHANGED <<websocketsByUrlApiKey, status, key, opener, users, run, raced>>
    PROVE  Simulates(k)
<1>1. Indexed(k)' = Indexed(k) /\ Asking(k)' = Asking(k)
  BY DEF Indexed, Asking
<1> QED
  BY <1>1, Untouched

LEMMA StepSimulates ==
    ASSUME Inv, [Next]_vars, NEW k \in Key, k \notin raced'
    PROVE  Simulates(k)
<1>a. raced' = raced \/ \E p \in Pid, j \in Key : openNewWs(p, j)
  BY DEF Next, processClientMessage, NoEffect, handleClientRegistration, Unregister,
         handleClientHeartbeat, JoinWs, openNewWsThrows, closeWs, sendWsRequest,
         sendWsRequestFails, startHeartbeat, Signal, shutdown, StopTimer,
         OpenCompletes, OpenSucceeds, OpenFails, ReadCompletes, on_read,
         on_read_error, on_read_ignored, WriteCompletes, on_write, on_write_error,
         on_close, Tick, ClockSetBack, vars, histVars
<1>b. k \notin raced
  BY <1>a DEF openNewWs
<1>c. Asking(k)' = Asking(k) \/ ~UNCHANGED <<status, key, opener>>
  BY DEF Asking
<1>1. CASE NoEffect
  BY <1>1, <1>b, <1>c, MessageUntouched DEF NoEffect, wsVars, histVars
<1>2. ASSUME NEW p \in Pid, handleClientRegistration(p) PROVE Simulates(k)
  BY <1>2, <1>b, <1>c, MessageUntouched DEF handleClientRegistration, wsVars, histVars
<1>3. ASSUME NEW p \in Pid, Unregister(p) PROVE Simulates(k)
  <2>1. /\ unregisterClient({p}) /\ FinishMessage(Deserted({p}))
        /\ UNCHANGED <<key, opener, raced>> /\ {p} \in SUBSET Pid
        /\ {p} \cap clients' = {}
    BY <1>3 DEF Unregister, unregisterClient, histVars
  <2>2. Deserted({p}) \subseteq websocketsById /\ Asking(k)' = Asking(k)
    BY <2>1, UnregisterFacts
  <2>3. Indexed(k) # NoWs =>
           /\ users'[Indexed(k)] = users[Indexed(k)] \ {p}
           /\ Indexed(k) \in Deserted({p}) <=> users[Indexed(k)] \subseteq {p}
           /\ Indexed(k) \notin Deserted({p}) => status'[Indexed(k)] = status[Indexed(k)]
    BY <2>1, UnregisterFacts
  <2> QED
    BY <1>b, <2>1, <2>2, <2>3, MessageDeparture
<1>4. ASSUME NEW p \in Pid, handleClientHeartbeat(p) PROVE Simulates(k)
  BY <1>4, <1>b, <1>c, MessageUntouched DEF handleClientHeartbeat, wsVars, histVars
<1>5. ASSUME NEW p \in Pid, NEW j \in Key, JoinWs(p, j) PROVE Simulates(k)
  BY <1>5, <1>b, JoinSimulates
<1>6. ASSUME NEW p \in Pid, NEW j \in Key, openNewWs(p, j) PROVE Simulates(k)
  BY <1>6, OpenSimulates
<1>7. ASSUME NEW p \in Pid, NEW j \in Key, openNewWsThrows(p, j) PROVE Simulates(k)
  BY <1>7, <1>b, QuietSimulates DEF openNewWsThrows
<1>8. ASSUME NEW p \in Pid, NEW id \in Id, closeWs(p, id) PROVE Simulates(k)
  <2> DEFINE D == IF id = Indexed(k) THEN {p} ELSE {}
             S == Unused(p, id)
  <2>1. /\ FinishMessage(S) /\ status' = close(S) /\ id \in websocketsById
        /\ UNCHANGED <<key, opener, raced>>
    BY <1>8 DEF closeWs, histVars
  <2>2. \A i \in Id : users'[i] = IF i = id THEN users[i] \ {p} ELSE users[i]
    BY <1>8 DEF closeWs, Inv, TypeOK
  <2>3. /\ S \in SUBSET websocketsById /\ D \in SUBSET Pid
        /\ D \cap clients' = {} \/ \E q \in clients : D = {q}
    BY <1>8, <2>1 DEF Unused, closeWs
  <2>4. Asking(k)' = Asking(k)
    BY <2>1, <2>3, CloseKeepsAsking
  <2>5. ASSUME Indexed(k) # NoWs
        PROVE  /\ users'[Indexed(k)] = users[Indexed(k)] \ D
               /\ Indexed(k) \in S <=> users[Indexed(k)] \subseteq D
               /\ Indexed(k) \notin S => status'[Indexed(k)] = status[Indexed(k)]
    <3>1. Indexed(k) \in Id /\ users[Indexed(k)] # {}
      BY <2>5, IndexedFacts
    <3>2. users'[Indexed(k)] = users[Indexed(k)] \ D
      BY <2>2, <3>1
    <3>3. Indexed(k) \in S <=> users[Indexed(k)] \subseteq D
      BY <3>1 DEF Unused
    <3>4. Indexed(k) \notin S => status'[Indexed(k)] = status[Indexed(k)]
      BY <2>1, <3>1 DEF close
    <3> QED
      BY <3>2, <3>3, <3>4
  <2> HIDE DEF D, S
  <2> QED
    BY <1>b, <2>1, <2>3, <2>4, <2>5, MessageDeparture
<1>9. ASSUME NEW p \in Pid, NEW id \in Id, sendWsRequest(p, id) PROVE Simulates(k)
  BY <1>9, <1>b, <1>c, MessageUntouched DEF sendWsRequest, histVars
<1>10. ASSUME NEW p \in Pid, NEW id \in Id, sendWsRequestFails(p, id)
       PROVE  Simulates(k)
  BY <1>10, <1>b, <1>c, MessageUntouched DEF sendWsRequestFails, wsVars, histVars
<1>11. CASE startHeartbeat
  <2> DEFINE D == heartbeatLost
             S == Deserted(D)
  <2>1. /\ unregisterClient(D) /\ Erase(S) /\ D \in SUBSET Pid
        /\ UNCHANGED <<key, opener, run, raced>>
    BY <1>11 DEF startHeartbeat, checkHeartbeats, heartbeatLost, histVars, Inv, TypeOK
  <2> HIDE DEF D
  <2>2. /\ S \in SUBSET websocketsById /\ Asking(k)' = Asking(k)
        /\ D \cap clients' = {}
    BY <2>1, UnregisterFacts DEF unregisterClient
  <2>3. Indexed(k) # NoWs =>
           /\ users'[Indexed(k)] = users[Indexed(k)] \ D
           /\ Indexed(k) \in S <=> users[Indexed(k)] \subseteq D
           /\ Indexed(k) \notin S => status'[Indexed(k)] = status[Indexed(k)]
    BY <2>1, UnregisterFacts
  <2>4. S \subseteq S /\ S \ S \subseteq closed_sockets
    OBVIOUS
  <2> HIDE DEF S
  <2> QED
    BY <1>b, <2>1, <2>2, <2>3, <2>4, Departure
<1>12. CASE shutdown
  <2>1. /\ status' = close(websocketsById) /\ Erase(websocketsById)
        /\ run' = FALSE /\ UNCHANGED <<key, opener, raced>>
    BY <1>12 DEF shutdown, histVars
  <2>2. Indexed(k)' = NoWs
    BY <1>b, <2>1, EraseExact, IndexedFacts
  <2>3. Asking(k)' = Asking(k)
    BY <2>1, CloseKeepsAsking
  <2>4. Connection(k)!Shutdown
    BY <2>1, <2>2, <2>3 DEF Connection!Shutdown, Link, Members
  <2> QED
    BY <2>4 DEF Simulates, Connection!Next
<1>13. CASE Signal \/ StopTimer
  BY <1>13, <1>b, QuietSimulates DEF Signal, StopTimer, tableVars, wsVars, histVars
<1>14. ASSUME NEW id \in Id, OpenSucceeds(id) PROVE Simulates(k)
  BY <1>14, <1>b, ConnectSimulates
<1>15. ASSUME NEW id \in Id, OpenFails(id) PROVE Simulates(k)
  <2>1. /\ fail(id) /\ status[id] = "CONNECTING"
        /\ UNCHANGED <<websocketsByUrlApiKey, key, users, run, raced>>
    BY <1>15 DEF OpenFails, tableVars, loopVars, histVars
  <2>2. \A i \in Id : i # id => opener'[i] = opener[i]
    BY <1>15 DEF OpenFails, Inv, TypeOK
  <2> QED
    BY <1>b, <2>1, <2>2, FailSimulates
<1>16. ASSUME NEW id \in Id, on_read_error(id) \/ on_write_error(id) PROVE Simulates(k)
  <2>1. /\ fail(id)
        /\ UNCHANGED <<websocketsByUrlApiKey, key, users, run, raced, opener>>
    BY <1>16 DEF on_read_error, on_write_error, tableVars, loopVars, histVars
  <2> QED
    BY <1>b, <2>1, FailSimulates
<1>17. ASSUME NEW id \in Id, on_read(id) \/ on_read_ignored(id) \/ on_write(id)
       PROVE  Simulates(k)
  BY <1>17, <1>b, QuietSimulates
  DEF on_read, on_read_ignored, on_write, tableVars, loopVars, histVars
<1>18. ASSUME NEW id \in Id, on_close(id) PROVE Simulates(k)
  <2>1. /\ status[id] = "DISCONNECTING"
        /\ \A i \in Id : status'[i] = IF i = id THEN "DISCONNECTED" ELSE status[i]
        /\ UNCHANGED <<websocketsByUrlApiKey, key, opener, users, run, raced>>
    BY <1>18 DEF on_close, loopVars, histVars, Inv, TypeOK
  <2>2. Asking(k)' = Asking(k)
    BY <2>1, AskingKept
  <2>3. Indexed(k) # NoWs =>
           (status'[Indexed(k)] \in Open <=> status[Indexed(k)] \in Open)
    BY <2>1, IndexedFacts DEF Open
  <2>4. Indexed(k)' = Indexed(k)
    BY <2>1 DEF Indexed
  <2> QED
    BY <1>b, <2>1, <2>2, <2>3, <2>4, Untouched
<1>19. CASE Tick \/ ClockSetBack
  BY <1>19, <1>b, QuietSimulates DEF Tick, ClockSetBack, loopVars, wsVars, histVars
<1>20. CASE UNCHANGED vars
  BY <1>20, <1>b, QuietSimulates DEF vars, tableVars, loopVars, wsVars, histVars
<1> QED
  BY <1>1, <1>2, <1>3, <1>4, <1>5, <1>6, <1>7, <1>8, <1>9, <1>10, <1>11, <1>12,
     <1>13, <1>14, <1>15, <1>16, <1>17, <1>18, <1>19, <1>20
  DEF Next, processClientMessage, OpenCompletes, ReadCompletes, WriteCompletes

\* The promise of a key ends only in openNewWs, and only while another
\* connection of the key is under way or closing.
LEMMA RaceSimulates ==
    ASSUME Inv, [Next]_vars, NEW k \in Key, k \in raced'
    PROVE  Simulates(k)
<1>1. CASE k \in raced
  BY <1>1 DEF Simulates, Connection!Next, Connection!Apart
<1>2. CASE k \notin raced
  <2>1. PICK p \in Pid, j \in Key : openNewWs(p, j)
    BY <1>2 DEF Next, processClientMessage, NoEffect, handleClientRegistration,
         Unregister, handleClientHeartbeat, JoinWs, openNewWsThrows, closeWs,
         sendWsRequest, sendWsRequestFails, startHeartbeat, Signal, shutdown,
         StopTimer, OpenCompletes, OpenSucceeds, OpenFails, ReadCompletes, on_read,
         on_read_error, on_read_ignored, WriteCompletes, on_write, on_write_error,
         on_close, Tick, ClockSetBack, vars, histVars
  <2>2. Unsettled(k)
    BY <1>2, <2>1 DEF openNewWs
  <2>3. Link(k) = "closing" \/ Asking(k) # {}
    BY <2>2 DEF Unsettled, Link, Indexed, Asking
  <2> QED
    BY <2>3 DEF Simulates, Connection!Next, Connection!Apart
<1> QED
  BY <1>1, <1>2

LEMMA InitSimulates ==
    ASSUME Init, NEW k \in Key
    PROVE  Connection(k)!Init
<1>1. Link(k) = "down" /\ Members(k) = {} /\ Asking(k) = {}
  BY DEF Init, Link, Members, Asking, Indexed
<1> QED
  BY <1>1 DEF Connection!Init, Init

\* The proxy implements one shared connection per (url, api_key), for any number
\* of processes, keys and connections: its clients get, share, leave and lose it
\* as SharedConnection says, until a second open of the key races with one that
\* is under way or closing.
THEOREM Refinement == Spec => SharesConnections
<1>1. Init => \A k \in Key : Connection(k)!Init
  BY InitSimulates
<1>2. Inv /\ [Next]_vars =>
        [\A k \in Key : [Connection(k)!Next]_(Connection(k)!vars)]_vars
  BY StepSimulates, RaceSimulates DEF Simulates
<1> QED
  BY <1>1, <1>2, InvHolds, PTL DEF Spec, SharesConnections
=============================================================================
