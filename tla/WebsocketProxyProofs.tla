------------------------ MODULE WebsocketProxyProofs ------------------------
(* Proofs about the proxy server's tables.                                 *)
EXTENDS WebsocketProxy, TLAPS

-----------------------------------------------------------------------------
(* The inductive invariant, in the groups in which it is preserved.        *)

\* What a socket's status says of the tables: one that connects is in none of
\* them, a connected one is, and only disconnected ones are queued for removal.
StatusSound ==
    /\ \A id \in websocketsById : status[id] \notin {"UNUSED", "CONNECTING"}
    /\ \A id \in closed_sockets : status[id] = "DISCONNECTED"
    /\ \A id \in Id : id > websocket_id => status[id] = "UNUSED"
    /\ \A id \in Id : status[id] = "CONNECTING" => key[id] \in Key /\ opener[id] \in Pid

Tables == StatusSound /\ IndexSound /\ TableTracksSockets

\* A socket has no users before its open has succeeded.
NoEarlyUsers == \A id \in Id : status[id] \in {"UNUSED", "CONNECTING"} => users[id] = {}

Users == NoEarlyUsers /\ SocketsAreUsed /\ UsersRegistered

\* As long as no open of k raced with another one, the key index is exact for k:
\* every socket of k in the table is the indexed one, and one that connects is
\* the only one of k.
Exact(k) ==
    /\ \A id \in websocketsById : key[id] = k => websocketsByUrlApiKey[k] = id
    /\ \A id \in Id : key[id] = k /\ status[id] = "CONNECTING" =>
          /\ websocketsByUrlApiKey[k] = NoWs
          /\ \A j \in Id : key[j] = k /\ status[j] = "CONNECTING" => j = id

Sharing == \A k \in Key \ raced : Exact(k)

Inv == TypeOK /\ Tables /\ Users /\ IdleShutdownOnly /\ Sharing

-----------------------------------------------------------------------------
(* Types.                                                                  *)

LEMMA EraseType ==
    ASSUME TypeOK, NEW S \in SUBSET Id, Erase(S)
    PROVE  /\ websocketsById' \subseteq Id
           /\ websocketsByUrlApiKey' \in [Key -> Id \cup {NoWs}]
BY DEF TypeOK, Erase

LEMMA FinishType ==
    ASSUME TypeOK, NEW S \in SUBSET Id, FinishMessage(S)
    PROVE  /\ websocketsById' \subseteq Id
           /\ websocketsByUrlApiKey' \in [Key -> Id \cup {NoWs}]
           /\ closed_sockets' \subseteq Id
           /\ run' \in BOOLEAN /\ pump' \in BOOLEAN /\ beat' \in BOOLEAN
           /\ shutdowns' \in Nat
           /\ stopPosted' \in BOOLEAN /\ stopped' \in BOOLEAN /\ signalled' \in BOOLEAN
<1>1. Erase(S \cup (closed_sockets \cap websocketsById))
  BY DEF FinishMessage, removeClosedSockets
<1> QED
  BY <1>1, EraseType DEF TypeOK, FinishMessage, removeClosedSockets, PostNext, Expired

LEMMA UnregisterType ==
    ASSUME TypeOK, NEW D \in SUBSET Pid, unregisterClient(D)
    PROVE  /\ clients' \subseteq Pid
           /\ idle' \in [Pid -> 0..CLIENT_TIMEOUT + 1]
           /\ shutdown_time' \in Never..SHUTDOWN_DELAY
           /\ status' \in [Id -> Status]
           /\ users' \in [Id -> SUBSET Pid]
           /\ Deserted(D) \subseteq Id
BY ConstantsAssumption
DEF TypeOK, unregisterClient, remainingUsers, idleSince, Deserted, close, Never,
    Status, Open

LEMMA CloseType ==
    ASSUME TypeOK, NEW S
    PROVE  close(S) \in [Id -> Status]
BY DEF TypeOK, close, Status, Open

LEMMA InitType == Init => TypeOK
<1> SUFFICES ASSUME Init PROVE TypeOK
  OBVIOUS
<1>1. idle \in [Pid -> 0..CLIENT_TIMEOUT + 1] /\ shutdown_time \in Never..SHUTDOWN_DELAY
  BY ConstantsAssumption DEF Init, Never
<1>2. websocketsByUrlApiKey \in [Key -> Id \cup {NoWs}]
  BY DEF Init
<1>3. shutdowns \in Nat /\ websocket_id \in 0..MaxId
  BY ConstantsAssumption DEF Init
<1>4. status \in [Id -> Status] /\ key \in [Id -> Key \cup {None}]
  BY DEF Init, Status
<1>5. opener \in [Id -> Pid \cup {None}] /\ users \in [Id -> SUBSET Pid]
  BY DEF Init
<1> QED
  BY <1>1, <1>2, <1>3, <1>4, <1>5 DEF Init, TypeOK

LEMMA NextType == TypeOK /\ StatusSound /\ [Next]_vars => TypeOK'
<1> SUFFICES ASSUME TypeOK, StatusSound, [Next]_vars PROVE TypeOK'
  OBVIOUS
<1> USE ConstantsAssumption
<1>1. CASE NoEffect
  BY <1>1, FinishType DEF NoEffect, TypeOK, wsVars, histVars
<1>2. ASSUME NEW p \in Pid, handleClientRegistration(p) PROVE TypeOK'
  BY <1>2, FinishType DEF handleClientRegistration, getClient, TypeOK, wsVars, histVars, Never
<1>3. ASSUME NEW p \in Pid, Unregister(p) PROVE TypeOK'
  <2>1. Deserted({p}) \subseteq Id
    BY DEF Deserted, TypeOK
  <2> QED
    BY <1>3, <2>1, FinishType, UnregisterType DEF Unregister, TypeOK, histVars
<1>4. ASSUME NEW p \in Pid, handleClientHeartbeat(p) PROVE TypeOK'
  BY <1>4, FinishType DEF handleClientHeartbeat, getClient, TypeOK, wsVars, histVars
<1>5. ASSUME NEW p \in Pid, NEW k \in Key, JoinWs(p, k) PROVE TypeOK'
  <2>1. users' \in [Id -> SUBSET Pid]
    BY <1>5 DEF JoinWs, TypeOK
  <2>2. idle' \in [Pid -> 0..CLIENT_TIMEOUT + 1]
    BY <1>5 DEF JoinWs, getClient, TypeOK
  <2> QED
    BY <1>5, <2>1, <2>2, FinishType DEF JoinWs, TypeOK, histVars
<1>6. ASSUME NEW p \in Pid, NEW k \in Key, openNewWs(p, k) PROVE TypeOK'
  <2>1. websocket_id + 1 \in Id /\ websocket_id' \in 0..MaxId
    BY <1>6 DEF openNewWs, TypeOK, Id
  <2>2. status' \in [Id -> Status] /\ key' \in [Id -> Key \cup {None}]
    BY <1>6, <2>1 DEF openNewWs, TypeOK, Status, Open
  <2>3. opener' \in [Id -> Pid \cup {None}]
    BY <1>6, <2>1 DEF openNewWs, TypeOK
  <2> QED
    BY <1>6, <2>1, <2>2, <2>3, FinishType DEF openNewWs, getClient, TypeOK
<1>7. ASSUME NEW p \in Pid, NEW k \in Key, openNewWsThrows(p, k) PROVE TypeOK'
  <2>1. websocket_id' \in 0..MaxId
    BY <1>7 DEF openNewWsThrows, TypeOK
  <2>2. idle' \in [Pid -> 0..CLIENT_TIMEOUT + 1] /\ stopped' \in BOOLEAN
    BY <1>7 DEF openNewWsThrows, getClient, TypeOK
  <2> QED
    BY <1>7, <2>1, <2>2 DEF openNewWsThrows, TypeOK, histVars
<1>8. ASSUME NEW p \in Pid, NEW id \in Id, closeWs(p, id) PROVE TypeOK'
  <2>1. Unused(p, id) \subseteq Id
    BY DEF Unused
  <2> QED
    BY <1>8, <2>1, FinishType, CloseType DEF closeWs, getClient, TypeOK, histVars
<1>9. ASSUME NEW p \in Pid, NEW id \in Id, sendWsRequest(p, id) PROVE TypeOK'
  BY <1>9, FinishType DEF sendWsRequest, getClient, TypeOK, histVars
<1>10. ASSUME NEW p \in Pid, NEW id \in Id, sendWsRequestFails(p, id) PROVE TypeOK'
  BY <1>10, FinishType DEF sendWsRequestFails, TypeOK, wsVars, histVars
<1>11. CASE startHeartbeat
  <2>1. heartbeatLost \subseteq Pid
    BY DEF heartbeatLost, TypeOK
  <2>2. Deserted(heartbeatLost) \subseteq Id
    BY DEF Deserted, TypeOK
  <2> QED
    BY <1>11, <2>1, <2>2, UnregisterType, EraseType DEF startHeartbeat, checkHeartbeats, TypeOK, histVars
<1>12. CASE Signal
  BY <1>12 DEF Signal, TypeOK, tableVars, wsVars, histVars
<1>13. CASE shutdown
  <2>1. websocketsById \subseteq Id
    BY DEF TypeOK
  <2>2. shutdowns' \in Nat
    BY <1>13 DEF shutdown, TypeOK
  <2> QED
    BY <1>13, <2>1, <2>2, EraseType, CloseType DEF shutdown, TypeOK, histVars
<1>14. CASE StopTimer
  BY <1>14 DEF StopTimer, TypeOK, tableVars, wsVars, histVars
<1>15. ASSUME NEW id \in Id, OpenSucceeds(id) PROVE TypeOK'
  <2>1. opener[id] \in Pid
    BY <1>15 DEF OpenSucceeds, openCallback, StatusSound
  <2>2. websocketsByUrlApiKey' \in [Key -> Id \cup {NoWs}]
    BY <1>15 DEF OpenSucceeds, openCallback, TypeOK
  <2>3. users' \in [Id -> SUBSET Pid] /\ opener' \in [Id -> Pid \cup {None}]
    BY <1>15, <2>1 DEF OpenSucceeds, openCallback, TypeOK
  <2>4. late' \subseteq Id \X Pid /\ status' \in [Id -> Status]
    BY <1>15, <2>1 DEF OpenSucceeds, openCallback, TypeOK, Status, Open
  <2> QED
    BY <1>15, <2>1, <2>2, <2>3, <2>4 DEF OpenSucceeds, openCallback, TypeOK, loopVars
<1>16. ASSUME NEW id \in Id, OpenFails(id) PROVE TypeOK'
  BY <1>16, CloseType DEF OpenFails, fail, TypeOK, tableVars, loopVars, histVars
<1>17. ASSUME NEW id \in Id, ReadCompletes(id) PROVE TypeOK'
  BY <1>17, CloseType DEF ReadCompletes, on_read, on_read_error, on_read_ignored, fail, TypeOK,
                          tableVars, loopVars, histVars
<1>18. ASSUME NEW id \in Id, WriteCompletes(id) PROVE TypeOK'
  BY <1>18, CloseType DEF WriteCompletes, on_write, on_write_error, fail, TypeOK,
                          tableVars, loopVars, histVars
<1>19. ASSUME NEW id \in Id, on_close(id) PROVE TypeOK'
  BY <1>19 DEF on_close, onWsClosed, TypeOK, loopVars, histVars, Status
<1>20. CASE Tick \/ ClockSetBack
  BY <1>20 DEF Tick, ClockSetBack, TypeOK, loopVars, wsVars, histVars, Never
<1>21. CASE UNCHANGED vars
  BY <1>21 DEF vars, TypeOK, tableVars, loopVars, wsVars, histVars
<1> QED
  BY <1>1, <1>2, <1>3, <1>4, <1>5, <1>6, <1>7, <1>8, <1>9, <1>10, <1>11, <1>12,
     <1>13, <1>14, <1>15, <1>16, <1>17, <1>18, <1>19, <1>20, <1>21
  DEF Next, processClientMessage, OpenCompletes
-----------------------------------------------------------------------------
(* Tables and sharing: sockets leave, sockets fail, a socket enters.       *)

LEMMA CloseNone == TypeOK => close({}) = status
BY DEF TypeOK, close

LEMMA EraseIndex ==
    ASSUME TypeOK, IndexSound, NEW R \in SUBSET websocketsById, Erase(R), key' = key
    PROVE  IndexSound'
BY DEF TypeOK, IndexSound, Erase, NoWs

\* The handlers that remove sockets: those of S are closed, the others of R have
\* been queued by onWsClosed.
LEMMA RemovalTables ==
    ASSUME TypeOK, Tables, NEW S, NEW R \in SUBSET websocketsById,
           S \subseteq R, R \ S \subseteq closed_sockets,
           Erase(R), status' = close(S),
           \/ closed_sockets' = closed_sockets
           \/ closed_sockets' = {} /\ closed_sockets \cap websocketsById \subseteq R,
           UNCHANGED <<websocket_id, key, opener>>
    PROVE  Tables'
<1>1. IndexSound'
  BY EraseIndex DEF Tables
<1>2. \A id \in Id : status'[id] = IF id \in S /\ status[id] \in Open THEN "DISCONNECTING"
                                                                   ELSE status[id]
  BY DEF close
<1>3. websocketsById' = websocketsById \ R
  BY DEF Erase
<1>4. websocketsById \subseteq Id /\ closed_sockets \subseteq Id
  BY DEF TypeOK
<1>5. StatusSound'
  BY <1>2, <1>3, <1>4 DEF Tables, StatusSound, Open
<1>6. TableTracksSockets'
  BY <1>2, <1>3, <1>4 DEF Tables, StatusSound, TableTracksSockets, Open
<1> QED
  BY <1>1, <1>5, <1>6 DEF Tables

LEMMA FinishTables ==
    ASSUME TypeOK, Tables, NEW S \in SUBSET websocketsById, FinishMessage(S),
           status' = close(S), UNCHANGED <<websocket_id, key, opener>>
    PROVE  Tables'
<1> DEFINE R == S \cup (closed_sockets \cap websocketsById)
<1>1. R \in SUBSET websocketsById /\ S \subseteq R /\ R \ S \subseteq closed_sockets
  OBVIOUS
<1>2. Erase(R) /\ closed_sockets' = {} /\ closed_sockets \cap websocketsById \subseteq R
  BY DEF FinishMessage, removeClosedSockets
<1> HIDE DEF R
<1> QED
  BY <1>1, <1>2, RemovalTables

\* The completions that close sockets and touch no table.
LEMMA CloseTables ==
    ASSUME TypeOK, Tables, NEW S, status' = close(S),
           UNCHANGED <<websocketsById, websocketsByUrlApiKey, closed_sockets,
                       websocket_id, key>>,
           \A id \in Id : status'[id] = "CONNECTING" => opener'[id] = opener[id]
    PROVE  Tables'
<1>1. \A id \in Id : status'[id] = IF id \in S /\ status[id] \in Open THEN "DISCONNECTING"
                                                                   ELSE status[id]
  BY DEF close
<1>2. websocketsById \subseteq Id /\ closed_sockets \subseteq Id
  BY DEF TypeOK
<1>3. StatusSound'
  BY <1>1, <1>2 DEF Tables, StatusSound, Open
<1>4. TableTracksSockets'
  BY <1>1, <1>2 DEF Tables, StatusSound, TableTracksSockets, Open
<1>5. IndexSound'
  BY DEF Tables, IndexSound
<1> QED
  BY <1>3, <1>4, <1>5 DEF Tables

LEMMA RemovalSharing ==
    ASSUME TypeOK, Sharing, NEW S, NEW R \in SUBSET websocketsById, Erase(R),
           status' = close(S), UNCHANGED <<key, raced>>
    PROVE  Sharing'
<1> SUFFICES ASSUME NEW k \in Key \ raced PROVE Exact(k)'
  BY DEF Sharing
<1>1. Exact(k)
  BY DEF Sharing
<1>2. \A id \in Id : status'[id] = "CONNECTING" => status[id] = "CONNECTING"
  BY DEF close, Open
<1>3. websocketsByUrlApiKey'[k] \in {NoWs, websocketsByUrlApiKey[k]}
  BY DEF Erase
<1>4. ASSUME NEW id \in websocketsById', key'[id] = k
      PROVE  websocketsByUrlApiKey'[k] = id
  BY <1>1, <1>4 DEF Exact, Erase
<1> QED
  BY <1>1, <1>2, <1>3, <1>4 DEF Exact

LEMMA FinishSharing ==
    ASSUME TypeOK, Sharing, NEW S \in SUBSET websocketsById, NEW T, FinishMessage(S),
           status' = close(T), UNCHANGED <<key, raced>>
    PROVE  Sharing'
<1> DEFINE R == S \cup (closed_sockets \cap websocketsById)
<1>1. R \in SUBSET websocketsById /\ Erase(R)
  BY DEF FinishMessage, removeClosedSockets
<1> HIDE DEF R
<1> QED
  BY <1>1, RemovalSharing

LEMMA CloseSharing ==
    ASSUME Sharing, NEW S, status' = close(S),
           UNCHANGED <<websocketsById, websocketsByUrlApiKey, key, raced>>
    PROVE  Sharing'
<1>1. \A id \in Id : status'[id] = "CONNECTING" => status[id] = "CONNECTING"
  BY DEF close, Open
<1> QED
  BY <1>1 DEF Sharing, Exact

LEMMA InitTables == Init => Tables /\ Sharing
BY DEF Init, Tables, StatusSound, IndexSound, TableTracksSockets, Sharing, Exact, NoWs

LEMMA NextTables ==
    TypeOK /\ Tables /\ Sharing /\ [Next]_vars => Tables' /\ Sharing'
<1> SUFFICES ASSUME TypeOK, Tables, Sharing, [Next]_vars PROVE Tables' /\ Sharing'
  OBVIOUS
<1> USE ConstantsAssumption
<1>a. status = close({}) /\ {} \in SUBSET websocketsById
  BY CloseNone
<1>1. CASE NoEffect
  BY <1>1, <1>a, FinishTables, FinishSharing DEF NoEffect, wsVars, histVars
<1>2. ASSUME NEW p \in Pid, handleClientRegistration(p) PROVE Tables' /\ Sharing'
  BY <1>2, <1>a, FinishTables, FinishSharing DEF handleClientRegistration, wsVars, histVars
<1>3. ASSUME NEW p \in Pid, Unregister(p) PROVE Tables' /\ Sharing'
  <2>1. Deserted({p}) \in SUBSET websocketsById
    BY DEF Deserted
  <2> QED
    BY <1>3, <2>1, FinishTables, FinishSharing DEF Unregister, unregisterClient, histVars
<1>4. ASSUME NEW p \in Pid, handleClientHeartbeat(p) PROVE Tables' /\ Sharing'
  BY <1>4, <1>a, FinishTables, FinishSharing DEF handleClientHeartbeat, wsVars, histVars
<1>5. ASSUME NEW p \in Pid, NEW k \in Key, JoinWs(p, k) PROVE Tables' /\ Sharing'
  BY <1>5, <1>a, FinishTables, FinishSharing DEF JoinWs, histVars
<1>6. ASSUME NEW p \in Pid, NEW k \in Key, openNewWs(p, k) PROVE Tables' /\ Sharing'
  <2> DEFINE new == websocket_id + 1
             R == closed_sockets \cap websocketsById
  <2>1. new \in Id /\ status[new] = "UNUSED" /\ new \notin websocketsById
    BY <1>6 DEF openNewWs, TypeOK, Id, Tables, StatusSound
  <2>2. Erase(R) /\ closed_sockets' = {}
    BY <1>6 DEF openNewWs, FinishMessage, removeClosedSockets
  <2>3. /\ websocketsById' = websocketsById \ R
        /\ \A j \in Key : websocketsByUrlApiKey'[j] =
             IF \E id \in R : key[id] = j THEN NoWs ELSE websocketsByUrlApiKey[j]
    BY <2>2 DEF Erase
  <2>4. /\ \A id \in Id : status'[id] = IF id = new THEN "CONNECTING" ELSE status[id]
        /\ \A id \in Id : key'[id] = IF id = new THEN k ELSE key[id]
        /\ \A id \in Id : opener'[id] = IF id = new THEN p ELSE opener[id]
        /\ websocket_id' = new
    BY <1>6, <2>1 DEF openNewWs, TypeOK
  <2>5. websocketsById \subseteq Id /\ closed_sockets \subseteq Id /\ websocket_id \in Int
    BY DEF TypeOK
  <2>6. StatusSound'
    BY <2>1, <2>2, <2>3, <2>4, <2>5 DEF Tables, StatusSound, Id
  <2>7. IndexSound'
    BY <2>1, <2>3, <2>4, <2>5 DEF Tables, IndexSound
  <2>8. TableTracksSockets'
    BY <2>1, <2>2, <2>3, <2>4, <2>5 DEF Tables, TableTracksSockets, StatusSound
  <2>9. ASSUME NEW j \in Key \ raced' PROVE Exact(j)'
    <3>1. j \notin raced /\ (j = k => ~Unsettled(k))
      BY <1>6, <2>9 DEF openNewWs
    <3>a. j = k => /\ websocketsByUrlApiKey[k] = NoWs
                   /\ \A id \in Id : ~(key[id] = k /\ status[id] = "CONNECTING")
      BY <1>6, <3>1 DEF openNewWs, Joinable, Unsettled, Open
    <3>2. Exact(j)
      BY <3>1 DEF Sharing
    <3>3. CASE j = k
      BY <2>1, <2>3, <2>4, <2>5, <3>a, <3>2, <3>3 DEF Exact, NoWs, Id
    <3>4. CASE j # k
      BY <2>1, <2>3, <2>4, <2>5, <3>2, <3>4 DEF Exact
    <3> QED
      BY <3>3, <3>4
  <2> QED
    BY <2>6, <2>7, <2>8, <2>9 DEF Tables, Sharing
<1>7. ASSUME NEW p \in Pid, NEW k \in Key, openNewWsThrows(p, k) PROVE Tables' /\ Sharing'
  BY <1>7 DEF openNewWsThrows, histVars, TypeOK, Tables, StatusSound, IndexSound,
              TableTracksSockets, Sharing, Exact, Id
<1>8. ASSUME NEW p \in Pid, NEW id \in Id, closeWs(p, id) PROVE Tables' /\ Sharing'
  <2>1. Unused(p, id) \in SUBSET websocketsById
    BY <1>8 DEF closeWs, Unused
  <2> QED
    BY <1>8, <2>1, FinishTables, FinishSharing DEF closeWs, histVars
<1>9. ASSUME NEW p \in Pid, NEW id \in Id, sendWsRequest(p, id) PROVE Tables' /\ Sharing'
  BY <1>9, <1>a, FinishTables, FinishSharing DEF sendWsRequest, histVars
<1>10. ASSUME NEW p \in Pid, NEW id \in Id, sendWsRequestFails(p, id)
       PROVE  Tables' /\ Sharing'
  BY <1>10, <1>a, FinishTables, FinishSharing DEF sendWsRequestFails, wsVars, histVars
<1>11. CASE startHeartbeat
  <2> DEFINE S == Deserted(heartbeatLost)
  <2>1. S \in SUBSET websocketsById /\ Erase(S) /\ status' = close(S)
    BY <1>11 DEF startHeartbeat, checkHeartbeats, Deserted, unregisterClient
  <2>2. S \subseteq S /\ S \ S \subseteq closed_sockets
    OBVIOUS
  <2> HIDE DEF S
  <2> QED
    BY <1>11, <2>1, <2>2, RemovalTables, RemovalSharing DEF startHeartbeat, checkHeartbeats, histVars
<1>12. CASE Signal
  BY <1>12, <1>a, CloseTables, CloseSharing DEF Signal, tableVars, wsVars, histVars
<1>13. CASE shutdown
  BY <1>13, RemovalTables, RemovalSharing DEF shutdown, histVars
<1>14. CASE StopTimer
  BY <1>14, <1>a, CloseTables, CloseSharing DEF StopTimer, tableVars, wsVars, histVars
<1>15. ASSUME NEW id \in Id, OpenSucceeds(id) PROVE Tables' /\ Sharing'
  <2> DEFINE k == key[id]
  <2>1. k \in Key /\ id \notin websocketsById /\ id \notin closed_sockets
    BY <1>15 DEF OpenSucceeds, openCallback, Tables, StatusSound
  <2>2. /\ \A i \in Id : status'[i] = IF i = id THEN "CONNECTED" ELSE status[i]
        /\ \A i \in Id : i # id => opener'[i] = opener[i]
        /\ \A j \in Key : websocketsByUrlApiKey'[j] =
              IF j = k /\ websocketsByUrlApiKey[k] = NoWs THEN id
                                                          ELSE websocketsByUrlApiKey[j]
        /\ websocketsById' = websocketsById \cup {id}
        /\ UNCHANGED <<key, closed_sockets, websocket_id, raced>>
    BY <1>15, <2>1 DEF OpenSucceeds, openCallback, TypeOK
  <2>3. websocketsById \subseteq Id /\ closed_sockets \subseteq Id /\ websocket_id \in Int
    BY DEF TypeOK
  <2>4. StatusSound'
    BY <1>15, <2>1, <2>2, <2>3 DEF OpenSucceeds, openCallback, Tables, StatusSound
  <2>5. IndexSound'
    BY <2>1, <2>2, <2>3 DEF Tables, IndexSound, NoWs
  <2>6. TableTracksSockets'
    BY <2>1, <2>2, <2>3 DEF Tables, TableTracksSockets
  <2>7. ASSUME NEW j \in Key \ raced' PROVE Exact(j)'
    <3>1. Exact(j)
      BY <2>2, <2>7 DEF Sharing
    <3>2. CASE j = k
      BY <1>15, <2>1, <2>2, <2>3, <3>1, <3>2 DEF OpenSucceeds, openCallback, Exact, NoWs, Id
    <3>3. CASE j # k
      BY <2>1, <2>2, <2>3, <3>1, <3>3 DEF Exact
    <3> QED
      BY <3>2, <3>3
  <2> QED
    BY <2>4, <2>5, <2>6, <2>7 DEF Tables, Sharing
<1>16. ASSUME NEW id \in Id, OpenFails(id) PROVE Tables' /\ Sharing'
  <2>1. \A i \in Id : status'[i] = "CONNECTING" => opener'[i] = opener[i]
    BY <1>16 DEF OpenFails, fail, close, Open, TypeOK
  <2> QED
    BY <1>16, <2>1, CloseTables, CloseSharing DEF OpenFails, fail, tableVars, histVars
<1>17. ASSUME NEW id \in Id, ReadCompletes(id) PROVE Tables' /\ Sharing'
  BY <1>17, <1>a, CloseTables, CloseSharing
  DEF ReadCompletes, on_read, on_read_error, on_read_ignored, fail, tableVars, histVars
<1>18. ASSUME NEW id \in Id, WriteCompletes(id) PROVE Tables' /\ Sharing'
  BY <1>18, <1>a, CloseTables, CloseSharing
  DEF WriteCompletes, on_write, on_write_error, fail, tableVars, histVars
<1>19. ASSUME NEW id \in Id, on_close(id) PROVE Tables' /\ Sharing'
  <2>1. \A i \in Id : status'[i] = IF i = id THEN "DISCONNECTED" ELSE status[i]
    BY <1>19 DEF on_close, TypeOK
  <2>2. /\ closed_sockets' = closed_sockets \cup {id} /\ status[id] = "DISCONNECTING"
        /\ UNCHANGED <<websocketsById, websocketsByUrlApiKey, websocket_id, key, opener, raced>>
    BY <1>19 DEF on_close, onWsClosed, histVars
  <2>3. websocketsById \subseteq Id /\ closed_sockets \subseteq Id
    BY DEF TypeOK
  <2>4. StatusSound'
    BY <2>1, <2>2, <2>3 DEF Tables, StatusSound
  <2>5. IndexSound' /\ TableTracksSockets'
    BY <2>1, <2>2, <2>3 DEF Tables, IndexSound, TableTracksSockets
  <2>6. Sharing'
    BY <2>1, <2>2, <2>3 DEF Sharing, Exact
  <2> QED
    BY <2>4, <2>5, <2>6 DEF Tables
<1>20. CASE Tick \/ ClockSetBack
  BY <1>20, <1>a, CloseTables, CloseSharing DEF Tick, ClockSetBack, wsVars, histVars
<1>21. CASE UNCHANGED vars
  BY <1>21, <1>a, CloseTables, CloseSharing DEF vars, tableVars, wsVars, histVars
<1> QED
  BY <1>1, <1>2, <1>3, <1>4, <1>5, <1>6, <1>7, <1>8, <1>9, <1>10, <1>11, <1>12,
     <1>13, <1>14, <1>15, <1>16, <1>17, <1>18, <1>19, <1>20, <1>21
  DEF Next, processClientMessage, OpenCompletes
-----------------------------------------------------------------------------
(* Users of the sockets.                                                   *)

Early == {"UNUSED", "CONNECTING"}

LEMMA FinishShrinks ==
    ASSUME NEW S, FinishMessage(S)
    PROVE  websocketsById' \subseteq websocketsById \ S
BY DEF FinishMessage, removeClosedSockets, Erase

\* The handlers that remove no user and no client.
LEMMA KeepUsers ==
    ASSUME Users, websocketsById' \subseteq websocketsById, users' = users,
           clients \subseteq clients', late' = late,
           \A id \in Id : status'[id] \in Early => status[id] \in Early
    PROVE  Users'
BY DEF Users, NoEarlyUsers, SocketsAreUsed, UsersRegistered, Early

\* The handlers that remove clients.
LEMMA UnregisterUsers ==
    ASSUME TypeOK, Users, NEW D, unregisterClient(D), late' = late,
           websocketsById' \subseteq websocketsById \ Deserted(D)
    PROVE  Users'
<1>1. websocketsById \subseteq Id
  BY DEF TypeOK
<1>2. \A id \in Id : users'[id] = IF id \in websocketsById THEN users[id] \ D ELSE users[id]
  BY DEF unregisterClient, remainingUsers
<1>3. NoEarlyUsers'
  <2>1. \A id \in Id : status'[id] \in Early => status[id] \in Early
    BY DEF unregisterClient, close, Early
  <2> QED
    BY <1>2, <2>1 DEF Users, NoEarlyUsers, Early
<1>4. SocketsAreUsed'
  BY <1>1, <1>2 DEF Users, SocketsAreUsed, Deserted
<1>5. UsersRegistered'
  BY <1>1, <1>2 DEF Users, UsersRegistered, unregisterClient
<1> QED
  BY <1>3, <1>4, <1>5 DEF Users

LEMMA CloseEarly ==
    ASSUME NEW S, status' = close(S)
    PROVE  \A id \in Id : status'[id] \in Early => status[id] \in Early
BY DEF close, Early

LEMMA InitUsers == Init => Users
BY DEF Init, Users, NoEarlyUsers, SocketsAreUsed, UsersRegistered

LEMMA NextUsers ==
    TypeOK /\ Tables /\ Users /\ [Next]_vars => Users'
<1> SUFFICES ASSUME TypeOK, Tables, Users, [Next]_vars PROVE Users'
  OBVIOUS
<1>a. status' = status => \A id \in Id : status'[id] \in Early => status[id] \in Early
  OBVIOUS
<1>b. websocketsById \subseteq Id
  BY DEF TypeOK
<1>1. CASE NoEffect
  BY <1>1, <1>a, FinishShrinks, KeepUsers DEF NoEffect, wsVars, histVars
<1>2. ASSUME NEW p \in Pid, handleClientRegistration(p) PROVE Users'
  BY <1>2, <1>a, FinishShrinks, KeepUsers DEF handleClientRegistration, wsVars, histVars
<1>3. ASSUME NEW p \in Pid, Unregister(p) PROVE Users'
  BY <1>3, FinishShrinks, UnregisterUsers DEF Unregister, histVars
<1>4. ASSUME NEW p \in Pid, handleClientHeartbeat(p) PROVE Users'
  BY <1>4, <1>a, FinishShrinks, KeepUsers DEF handleClientHeartbeat, wsVars, histVars
<1>5. ASSUME NEW p \in Pid, NEW k \in Key, JoinWs(p, k) PROVE Users'
  <2> DEFINE id == websocketsByUrlApiKey[k]
  <2>1. id \in websocketsById /\ p \in clients
    BY <1>5 DEF JoinWs, Joinable, Tables, IndexSound
  <2>2. \A i \in Id : users'[i] = IF i = id THEN users[i] \cup {p} ELSE users[i]
    BY <1>5, <1>b, <2>1 DEF JoinWs, TypeOK
  <2>3. websocketsById' \subseteq websocketsById
    BY <1>5, FinishShrinks DEF JoinWs
  <2>4. UNCHANGED <<clients, late, status>>
    BY <1>5 DEF JoinWs, histVars
  <2> HIDE DEF id
  <2>5. NoEarlyUsers'
    BY <1>b, <2>1, <2>2, <2>4 DEF Users, NoEarlyUsers, Tables, StatusSound
  <2>6. SocketsAreUsed' /\ UsersRegistered'
    BY <1>b, <2>1, <2>2, <2>3, <2>4 DEF Users, SocketsAreUsed, UsersRegistered
  <2> QED
    BY <2>5, <2>6 DEF Users
<1>6. ASSUME NEW p \in Pid, NEW k \in Key, openNewWs(p, k) PROVE Users'
  <2>1. \A id \in Id : status'[id] \in Early => status[id] \in Early
    BY <1>6, ConstantsAssumption DEF openNewWs, TypeOK, Tables, StatusSound, Early, Id
  <2> QED
    BY <1>6, <2>1, FinishShrinks, KeepUsers DEF openNewWs
<1>7. ASSUME NEW p \in Pid, NEW k \in Key, openNewWsThrows(p, k) PROVE Users'
  BY <1>7, <1>a, KeepUsers DEF openNewWsThrows, histVars
<1>8. ASSUME NEW p \in Pid, NEW id \in Id, closeWs(p, id) PROVE Users'
  <2>1. status' = close(Unused(p, id))
    BY <1>8 DEF closeWs
  <2>2. \A i \in Id : users'[i] = IF i = id THEN users[i] \ {p} ELSE users[i]
    BY <1>8 DEF closeWs, TypeOK
  <2>3. websocketsById' \subseteq websocketsById \ Unused(p, id)
    BY <1>8, FinishShrinks DEF closeWs
  <2>4. UNCHANGED <<clients, late>>
    BY <1>8 DEF closeWs, histVars
  <2>5. NoEarlyUsers'
    BY <2>1, <2>2, CloseEarly DEF Users, NoEarlyUsers, Early
  <2>6. SocketsAreUsed' /\ UsersRegistered'
    BY <1>b, <2>2, <2>3, <2>4 DEF Users, SocketsAreUsed, UsersRegistered, Unused
  <2> QED
    BY <2>5, <2>6 DEF Users
<1>9. ASSUME NEW p \in Pid, NEW id \in Id, sendWsRequest(p, id) PROVE Users'
  BY <1>9, <1>a, FinishShrinks, KeepUsers DEF sendWsRequest, histVars
<1>10. ASSUME NEW p \in Pid, NEW id \in Id, sendWsRequestFails(p, id) PROVE Users'
  BY <1>10, <1>a, FinishShrinks, KeepUsers DEF sendWsRequestFails, wsVars, histVars
<1>11. CASE startHeartbeat
  BY <1>11, UnregisterUsers DEF startHeartbeat, checkHeartbeats, Erase, histVars
<1>12. CASE Signal \/ StopTimer
  BY <1>12, <1>a, KeepUsers DEF Signal, StopTimer, tableVars, wsVars, histVars
<1>13. CASE shutdown
  BY <1>13, CloseEarly, KeepUsers DEF shutdown, Erase, histVars
<1>14. ASSUME NEW id \in Id, OpenSucceeds(id) PROVE Users'
  <2>1. /\ \A i \in Id : users'[i] = IF i = id THEN users[i] \cup {opener[id]} ELSE users[i]
        /\ \A i \in Id : status'[i] = IF i = id THEN "CONNECTED" ELSE status[i]
        /\ websocketsById' = websocketsById \cup {id} /\ clients' = clients
        /\ status[id] = "CONNECTING"
    BY <1>14 DEF OpenSucceeds, openCallback, TypeOK
  <2>2. opener[id] \in clients \/ <<id, opener[id]>> \in late'
    BY <1>14 DEF OpenSucceeds, openCallback
  <2>3. late \subseteq late'
    BY <1>14 DEF OpenSucceeds, openCallback
  <2>4. users[id] = {}
    BY <2>1 DEF Users, NoEarlyUsers
  <2>5. NoEarlyUsers' /\ SocketsAreUsed'
    BY <1>b, <2>1 DEF Users, NoEarlyUsers, SocketsAreUsed
  <2>6. UsersRegistered'
    BY <1>b, <2>1, <2>2, <2>3, <2>4 DEF Users, UsersRegistered
  <2> QED
    BY <2>5, <2>6 DEF Users
<1>15. ASSUME NEW id \in Id, OpenFails(id) PROVE Users'
  BY <1>15, CloseEarly, KeepUsers DEF OpenFails, fail, tableVars, histVars
<1>16. ASSUME NEW id \in Id, ReadCompletes(id) \/ WriteCompletes(id) PROVE Users'
  BY <1>16, <1>a, CloseEarly, KeepUsers
  DEF ReadCompletes, on_read, on_read_error, on_read_ignored, WriteCompletes,
      on_write, on_write_error, fail, tableVars, histVars
<1>17. ASSUME NEW id \in Id, on_close(id) PROVE Users'
  <2>1. \A i \in Id : status'[i] \in Early => status[i] \in Early
    BY <1>17 DEF on_close, TypeOK, Early
  <2> QED
    BY <1>17, <2>1, KeepUsers DEF on_close, histVars
<1>18. CASE Tick \/ ClockSetBack \/ UNCHANGED vars
  BY <1>18, <1>a, KeepUsers DEF Tick, ClockSetBack, vars, tableVars, wsVars, histVars
<1> QED
  BY <1>1, <1>2, <1>3, <1>4, <1>5, <1>6, <1>7, <1>8, <1>9, <1>10, <1>11, <1>12,
     <1>13, <1>14, <1>15, <1>16, <1>17, <1>18
  DEF Next, processClientMessage, OpenCompletes
-----------------------------------------------------------------------------
(* The idle countdown.                                                     *)

LEMMA FinishIdle ==
    ASSUME TypeOK, IdleShutdownOnly, NEW S, Pumping, FinishMessage(S),
           clients' # {} => shutdown_time' = Never
    PROVE  IdleShutdownOnly'
<1>1. /\ run' = run /\ signalled' = signalled
      /\ pump' = (run /\ ~Expired)
      /\ shutdowns' = IF run /\ Expired THEN shutdowns + 1 ELSE shutdowns
  BY DEF FinishMessage, PostNext
<1>2. signalled \/ (run /\ ~(shutdowns > 0))
  BY DEF IdleShutdownOnly, Pumping
<1>3. Expired => clients' = {}
  BY DEF Expired
<1>4. CASE signalled
  BY <1>1, <1>4 DEF IdleShutdownOnly
<1>5. CASE ~signalled /\ Expired
  BY <1>1, <1>3, <1>5 DEF IdleShutdownOnly
<1>6. CASE ~signalled /\ ~Expired
  BY <1>1, <1>2, <1>6 DEF IdleShutdownOnly
<1> QED
  BY <1>4, <1>5, <1>6

LEMMA UnregisterIdle ==
    ASSUME IdleShutdownOnly, NEW D, unregisterClient(D)
    PROVE  clients' \subseteq clients /\ (clients' # {} => shutdown_time' = Never)
BY DEF IdleShutdownOnly, unregisterClient, idleSince

LEMMA NextIdle ==
    TypeOK /\ IdleShutdownOnly /\ [Next]_vars => IdleShutdownOnly'
<1> SUFFICES ASSUME TypeOK, IdleShutdownOnly, [Next]_vars PROVE IdleShutdownOnly'
  OBVIOUS
<1>a. clients # {} => shutdown_time = Never
  BY DEF IdleShutdownOnly
<1>1. CASE NoEffect
  BY <1>1, <1>a, FinishIdle DEF NoEffect
<1>2. ASSUME NEW p \in Pid, handleClientRegistration(p) PROVE IdleShutdownOnly'
  BY <1>2, FinishIdle DEF handleClientRegistration
<1>3. ASSUME NEW p \in Pid, Unregister(p) PROVE IdleShutdownOnly'
  BY <1>3, UnregisterIdle, FinishIdle DEF Unregister
<1>4. ASSUME NEW p \in Pid, handleClientHeartbeat(p) PROVE IdleShutdownOnly'
  BY <1>4, <1>a, FinishIdle DEF handleClientHeartbeat
<1>5. ASSUME NEW p \in Pid, NEW k \in Key, JoinWs(p, k) \/ openNewWs(p, k)
      PROVE  IdleShutdownOnly'
  BY <1>5, <1>a, FinishIdle DEF JoinWs, openNewWs
<1>6. ASSUME NEW p \in Pid, NEW k \in Key, openNewWsThrows(p, k) PROVE IdleShutdownOnly'
  BY <1>6 DEF openNewWsThrows, IdleShutdownOnly
<1>7. ASSUME NEW p \in Pid, NEW id \in Id,
             closeWs(p, id) \/ sendWsRequest(p, id) \/ sendWsRequestFails(p, id)
      PROVE  IdleShutdownOnly'
  BY <1>7, <1>a, FinishIdle DEF closeWs, sendWsRequest, sendWsRequestFails
<1>8. CASE startHeartbeat
  BY <1>8, UnregisterIdle DEF startHeartbeat, checkHeartbeats, IdleShutdownOnly
<1>9. CASE Signal
  BY <1>9 DEF Signal, IdleShutdownOnly, tableVars
<1>10. CASE shutdown
  BY <1>10 DEF shutdown, IdleShutdownOnly
<1>11. CASE StopTimer
  BY <1>11 DEF StopTimer, IdleShutdownOnly, tableVars
<1>12. ASSUME NEW id \in Id,
              \/ OpenCompletes(id) \/ ReadCompletes(id)
              \/ WriteCompletes(id) \/ on_close(id)
       PROVE  IdleShutdownOnly'
  <2>1. UNCHANGED <<clients, shutdown_time, loopVars>>
    BY <1>12 DEF OpenCompletes, OpenSucceeds, openCallback, OpenFails, ReadCompletes, on_read,
                 on_read_error, on_read_ignored, WriteCompletes, on_write,
                 on_write_error, on_close, tableVars
  <2> QED
    BY <2>1 DEF IdleShutdownOnly, loopVars
<1>13. CASE Tick \/ ClockSetBack
  <2>1. shutdown_time = Never => shutdown_time' = Never
    BY <1>13 DEF Tick, ClockSetBack, Never
  <2> QED
    BY <1>13, <2>1 DEF Tick, ClockSetBack, loopVars, IdleShutdownOnly
<1>14. CASE UNCHANGED vars
  BY <1>14 DEF vars, tableVars, loopVars, IdleShutdownOnly
<1> QED
  BY <1>1, <1>2, <1>3, <1>4, <1>5, <1>6, <1>7, <1>8, <1>9, <1>10, <1>11, <1>12,
     <1>13, <1>14
  DEF Next, processClientMessage

-----------------------------------------------------------------------------
(* The theorems.                                                           *)

LEMMA InvHolds == Spec => []Inv
<1>1. Init => Inv
  <2>1. Init => IdleShutdownOnly
    BY DEF Init, IdleShutdownOnly
  <2> QED
    BY <2>1, InitType, InitTables, InitUsers DEF Inv
<1>2. Inv /\ [Next]_vars => Inv'
  BY NextType, NextTables, NextUsers, NextIdle DEF Inv, Tables
<1> QED
  BY <1>1, <1>2, PTL DEF Spec

\* Every variable of the proxy keeps its type, for any number of processes, keys
\* and connections.
THEOREM TypeCorrect == Spec => []TypeOK
BY InvHolds, PTL DEF Inv

\* The key index never dangles, whatever opens, failures and removals overlap:
\* neither emplace() nor erase-by-key leaves an entry for a socket that is gone.
THEOREM TablesSound == Spec => []IndexSound
<1>1. Inv => IndexSound
  BY DEF Inv, Tables
<1> QED
  BY <1>1, InvHolds, PTL

\* No live connection drops out of the table, and no dead one stays in it without
\* being queued for removal.
THEOREM SocketsTracked == Spec => []TableTracksSockets
<1>1. Inv => TableTracksSockets
  BY DEF Inv, Tables
<1> QED
  BY <1>1, InvHolds, PTL

\* The table holds only sockets that somebody uses.
THEOREM SocketsUsed == Spec => []SocketsAreUsed
<1>1. Inv => SocketsAreUsed
  BY DEF Inv, Users
<1> QED
  BY <1>1, InvHolds, PTL

\* The users of a socket are registered clients, late openers excepted.
THEOREM UsersSound == Spec => []UsersRegistered
<1>1. Inv => UsersRegistered
  BY DEF Inv, Users
<1> QED
  BY <1>1, InvHolds, PTL

\* Without a signal the proxy winds down only when no client is registered and
\* none can register any more.
THEOREM IdleShutdownSafe == Spec => []IdleShutdownOnly
BY InvHolds, PTL DEF Inv

\* One connection per (url, api_key) for keys whose opens did not race: from
\* the exactness of the key index.
THEOREM Shared == Spec => []SharedUnlessRaced
<1>1. Inv => SharedUnlessRaced
  <2> SUFFICES ASSUME Inv, NEW k \in Key \ raced, NEW i \in Live(k), NEW j \in Live(k)
               PROVE  i = j
    BY DEF SharedUnlessRaced
  <2>1. i \in Id /\ j \in Id /\ key[i] = k /\ key[j] = k
    BY DEF Live
  <2>2. /\ status[i] = "CONNECTED" => i \in websocketsById
        /\ status[j] = "CONNECTED" => j \in websocketsById
    BY <2>1 DEF Inv, Tables, TableTracksSockets
  <2>3. Exact(k)
    BY DEF Inv, Sharing
  <2> QED
    BY <2>1, <2>2, <2>3 DEF Live, Open, Exact, NoWs, Id
<1> QED
  BY <1>1, InvHolds, PTL

LEMMA SurvivalStep ==
    ASSUME Inv, [Next]_vars, NEW id \in websocketsById \ websocketsById'
    PROVE  \/ status[id] = "DISCONNECTED" \/ ~run'
           \/ users[id] \cap clients' = {}
           \/ \E p \in Pid : users[id] = {p} /\ closeWs(p, id)
<1>a. ASSUME NEW S, FinishMessage(S) PROVE id \in S \/ status[id] = "DISCONNECTED"
  BY <1>a DEF FinishMessage, removeClosedSockets, Erase, Inv, Tables, StatusSound
<1>1. CASE NoEffect
  BY <1>1, <1>a DEF NoEffect
<1>2. ASSUME NEW p \in Pid, handleClientRegistration(p) \/ handleClientHeartbeat(p)
      PROVE  status[id] = "DISCONNECTED"
  BY <1>2, <1>a DEF handleClientRegistration, handleClientHeartbeat
<1>3. ASSUME NEW p \in Pid, Unregister(p)
      PROVE  status[id] = "DISCONNECTED" \/ users[id] \cap clients' = {}
  BY <1>3, <1>a DEF Unregister, unregisterClient, Deserted
<1>4. ASSUME NEW p \in Pid, NEW k \in Key,
             JoinWs(p, k) \/ openNewWs(p, k) \/ openNewWsThrows(p, k)
      PROVE  status[id] = "DISCONNECTED"
  BY <1>4, <1>a DEF JoinWs, openNewWs, openNewWsThrows
<1>5. ASSUME NEW p \in Pid, NEW i \in Id, closeWs(p, i)
      PROVE  status[id] = "DISCONNECTED" \/ (users[id] = {p} /\ closeWs(p, id))
  <2>1. id \in Unused(p, i) \/ status[id] = "DISCONNECTED"
    BY <1>5, <1>a DEF closeWs
  <2>2. users[id] # {}
    BY DEF Inv, Users, SocketsAreUsed
  <2> QED
    BY <1>5, <2>1, <2>2 DEF Unused
<1>6. ASSUME NEW p \in Pid, NEW i \in Id, sendWsRequest(p, i) \/ sendWsRequestFails(p, i)
      PROVE  status[id] = "DISCONNECTED"
  BY <1>6, <1>a DEF sendWsRequest, sendWsRequestFails
<1>7. CASE startHeartbeat
  <2>1. id \in Deserted(heartbeatLost) /\ clients' = clients \ heartbeatLost
    BY <1>7 DEF startHeartbeat, checkHeartbeats, Erase, unregisterClient
  <2> QED
    BY <2>1 DEF Deserted
<1>8. CASE shutdown
  BY <1>8 DEF shutdown
<1>9. ASSUME websocketsById \subseteq websocketsById' PROVE FALSE
  BY <1>9
<1>10. ASSUME NEW i \in Id,
              \/ OpenCompletes(i) \/ ReadCompletes(i)
              \/ WriteCompletes(i) \/ on_close(i)
       PROVE  websocketsById \subseteq websocketsById'
  BY <1>10 DEF OpenCompletes, OpenSucceeds, openCallback, OpenFails, ReadCompletes, on_read,
               on_read_error, on_read_ignored, WriteCompletes, on_write,
               on_write_error, on_close, tableVars
<1>11. CASE Signal \/ StopTimer \/ Tick \/ ClockSetBack \/ UNCHANGED vars
  BY <1>11, <1>9 DEF Signal, StopTimer, Tick, ClockSetBack, vars, tableVars
<1> QED
  BY <1>1, <1>2, <1>3, <1>4, <1>5, <1>6, <1>7, <1>8, <1>9, <1>10, <1>11
  DEF Next, processClientMessage

\* No client loses a shared connection because of what another client does: a
\* working socket leaves the table only in a shutdown, with its only user, or
\* when all its users are gone.
THEOREM SharedSocketsSurvive == Spec => SharedSocketSurvives
<1>1. Inv /\ [Next]_vars =>
        [\A id \in websocketsById \ websocketsById' :
            \/ status[id] = "DISCONNECTED" \/ ~run'
            \/ users[id] \cap clients' = {}
            \/ \E p \in Pid : users[id] = {p} /\ closeWs(p, id)]_vars
  BY SurvivalStep
<1> QED
  BY <1>1, InvHolds, PTL DEF Spec, SharedSocketSurvives
=============================================================================
