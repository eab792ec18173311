---------------------------- MODULE RequestRing ----------------------------
(***************************************************************************)
(* The queue of requests that all clients share, client_queue_: a ring in  *)
(* shared memory (slick_queue, external) in which a request is also the    *)
(* place of its answer.                                                    *)
(*                                                                         *)
(* A client reserves the next slots of the ring, clears them, fills in the *)
(* request and publishes it (reserveMessage and sendMessage of             *)
(* websocket_proxy_client.h), then looks at the status in the ring until   *)
(* it changes (waitForResponse).  The server works on the message in place *)
(* (src/src/websocket_proxy.cpp), and openNewWs keeps a reference to it    *)
(* until the connection is up.  Nothing keeps a slot from being reserved   *)
(* again while the server or a client still refers to it, and a process    *)
(* may die between reserving a slot and publishing it: the server then     *)
(* waits there until the ring has gone round.                              *)
(*                                                                         *)
(* Every message takes one slot; messages are numbered as their slots are  *)
(* reserved.  The number of a message is stored apart from the memory of   *)
(* the slot, when it is published.                                         *)
(***************************************************************************)
EXTENDS Integers

CONSTANTS
    Pid,     \* client processes
    Slots,   \* messages the ring holds (1 << 16 bytes)
    MaxMsg,  \* bound: messages ever sent
    Nobody

ASSUME RingAssumption ==
    /\ Slots \in Nat \ {0}
    /\ MaxMsg \in Nat
    /\ Nobody \notin Pid

Slot == 0..Slots - 1
Msg == 1..MaxMsg
Kind == {"open",   \* OpenWs
         "call",   \* Register, CloseWs, (Un)Subscribe, WsRequest: answered when read
         "post"}   \* Heartbeat, Unregister, LogLevel: not answered

VARIABLES
    ring,          \* the messages in memory
    tail,          \* slot of the next message
    sent,          \* messages for which a slot was reserved so far
    filling,       \* <<s, n, p>>: p has reserved slot s for message n, not published
    client_index,  \* client_index_ of the server: its next slot ...
    unread,        \* ... and the first message it has not seen
    opening,       \* <<s, n>>: openNewWs of request n, which it read from slot s
    waiting,       \* <<s, n>>: the request in slot s that a client waits for
    users,         \* <<n, p>>: p is a user of the socket opened for request n
    \* History, read by no guard.
    asker,         \* who sent which request
    overrun        \* a slot in use, or not read yet, was reserved again

vars == <<ring, tail, sent, filling, client_index, unread, opening, waiting, users, asker,
          overrun>>

Status == {"PENDING", "SUCCESS", "FAILED"}
Message == [n : Msg \cup {0},     \* the number of the message, once published
            pid : Pid \cup {Nobody}, kind : Kind, status : Status,
            by : Msg \cup {0}]    \* the request whose handling set status
Ref == Slot \X Msg
NoRef == <<0, 0>>

TypeOK ==
    /\ ring \in [Slot -> Message]
    /\ tail \in Slot /\ client_index \in Slot
    /\ sent \in 0..MaxMsg /\ unread \in 1..MaxMsg + 1
    /\ filling \subseteq Slot \X Msg \X Pid
    /\ opening \subseteq Ref
    /\ waiting \in [Pid -> Ref \cup {NoRef}]
    /\ users \subseteq Msg \X (Pid \cup {Nobody})
    /\ asker \in [Msg -> Pid \cup {Nobody}]
    /\ overrun \in BOOLEAN

Init ==
    /\ ring = [s \in Slot |-> [n |-> 0, pid |-> Nobody, kind |-> "post",
                               status |-> "PENDING", by |-> 0]]
    /\ tail = 0 /\ sent = 0 /\ client_index = 0 /\ unread = 1
    /\ filling = {} /\ opening = {} /\ waiting = [p \in Pid |-> NoRef] /\ users = {}
    /\ asker = [n \in Msg |-> Nobody] /\ overrun = FALSE

-----------------------------------------------------------------------------
(* A definition whose comment starts with "Mutant" is a plausible bug in   *)
(* the one after it: no specification uses it.                             *)

\* Mutant of NextSlot: off by one where the ring wraps.
NextSlotPastEnd(s) == IF s = Slots THEN 0 ELSE s + 1

\* Where the ring goes on after a slot.
NextSlot(s) == IF s = Slots - 1 THEN 0 ELSE s + 1

\* The slot about to be reserved is in use, or has not been read yet.
Referred ==
    \/ \E n \in Msg, p \in Pid : <<tail, n, p>> \in filling
    \/ \E n \in Msg : <<tail, n>> \in opening
    \/ \E p \in Pid, n \in Msg : waiting[p] = <<tail, n>>
    \/ ring[tail].n >= unread

\* A thread of a client reserves the next slot, and clears it.
reserveMessage(p) ==
    /\ sent < MaxMsg
    /\ ring' = [ring EXCEPT ![tail].pid = p, ![tail].status = "PENDING", ![tail].by = 0]
    /\ tail' = NextSlot(tail)
    /\ sent' = sent + 1
    /\ filling' = filling \cup {<<tail, sent + 1, p>>}
    /\ asker' = [asker EXCEPT ![sent + 1] = p]
    /\ overrun' = (overrun \/ Referred)
    /\ UNCHANGED <<client_index, unread, opening, waiting, users>>

\* Mutant of awaited: the slot after the message.
awaitedNext(f) == <<NextSlot(f[1]), f[2]>>

\* Where the sender looks for the answer.
awaited(f) == <<f[1], f[2]>>

\* It has filled in its request and publishes it, to wait for the answer or not.
sendMessage(f, kind, wait) ==
    /\ f \in filling
    /\ wait => kind # "post" /\ waiting[f[3]] = NoRef
    /\ filling' = filling \ {f}
    /\ ring' = [ring EXCEPT ![f[1]].n = f[2], ![f[1]].kind = kind,
                            ![f[1]].status = "PENDING"]
    /\ waiting' = IF wait THEN [waiting EXCEPT ![f[3]] = awaited(f)] ELSE waiting
    /\ UNCHANGED <<tail, sent, client_index, unread, opening, users, asker, overrun>>

\* A client process dies; what it has reserved is not published.
Dies(p) ==
    /\ filling' = {f \in filling : f[3] # p}
    /\ waiting' = [waiting EXCEPT ![p] = NoRef]
    /\ UNCHANGED <<ring, tail, sent, client_index, unread, opening, users, asker, overrun>>

Answered(p) == waiting[p] # NoRef /\ ring[waiting[p][1]].status # "PENDING"

\* waitForResponse sees a status in the ring and returns it.
Returns(p) ==
    /\ Answered(p)
    /\ waiting' = [waiting EXCEPT ![p] = NoRef]
    /\ UNCHANGED <<ring, tail, sent, filling, client_index, unread, opening, users, asker,
                   overrun>>

\* waitForResponse gives up.
TimesOut(p) ==
    /\ waiting[p] # NoRef /\ ~Answered(p)
    /\ waiting' = [waiting EXCEPT ![p] = NoRef]
    /\ UNCHANGED <<ring, tail, sent, filling, client_index, unread, opening, users, asker,
                   overrun>>

-----------------------------------------------------------------------------
\* The status of a message is stored, by the handling of request n.
answer(s, n, status) == [ring EXCEPT ![s].status = status, ![s].by = n]

\* Mutant of opened: client_index_, already advanced, instead of the message.
openedNext(s, n) == <<NextSlot(s), n>>

\* What the callback of openNewWs captures.
opened(s, n) == <<s, n>>

\* The server reads a message: of a slot written over before it came there it
\* sees the newer message, and what was in between is lost.
Reading ==
    /\ ring[client_index].n >= unread
    /\ unread' = ring[client_index].n + 1
    /\ client_index' = NextSlot(client_index)
    /\ UNCHANGED <<tail, sent, filling, waiting, users, asker, overrun>>

\* openNewWs.
openNewWs ==
    /\ Reading
    /\ ring[client_index].kind = "open"
    /\ opening' = opening \cup {opened(client_index, ring[client_index].n)}
    /\ UNCHANGED ring

\* A request answered at once: also an OpenWs of a socket that is already open,
\* or of a client not registered.
handleAtOnce(status) ==
    /\ Reading
    /\ ring[client_index].kind # "post"
    /\ ring' = answer(client_index, ring[client_index].n, status)
    /\ UNCHANGED opening

\* A message without answer.
handlePost ==
    /\ Reading
    /\ ring[client_index].kind = "post"
    /\ UNCHANGED <<ring, opening>>

\* The callback of openNewWs: msg.pid, read from the slot as it is now, becomes
\* the user of the socket, and the slot gets the answer.
OpenSucceeds(o) ==
    /\ o \in opening
    /\ opening' = opening \ {o}
    /\ users' = users \cup {<<o[2], ring[o[1]].pid>>}
    /\ ring' = answer(o[1], o[2], "SUCCESS")
    /\ UNCHANGED <<tail, sent, filling, client_index, unread, waiting, asker, overrun>>

OpenFails(o) ==
    /\ o \in opening
    /\ opening' = opening \ {o}
    /\ ring' = answer(o[1], o[2], "FAILED")
    /\ UNCHANGED <<tail, sent, filling, client_index, unread, waiting, users, asker, overrun>>

Next ==
    \/ \E p \in Pid : reserveMessage(p) \/ Returns(p) \/ TimesOut(p) \/ Dies(p)
    \/ \E f \in filling, kind \in Kind, wait \in BOOLEAN : sendMessage(f, kind, wait)
    \/ openNewWs \/ handlePost
    \/ \E status \in {"SUCCESS", "FAILED"} : handleAtOnce(status)
    \/ \E o \in opening : OpenSucceeds(o) \/ OpenFails(o)

Spec == Init /\ [][Next]_vars

-----------------------------------------------------------------------------
\* A call of the client library returns the answer to its own request, although
\* all share the ring, fill it concurrently and use slots again; unless the ring has
\* gone round under a message that was not settled.
OwnAnswer ==
    [][\A p \in Pid : Returns(p) => ring[waiting[p][1]].by = waiting[p][2] \/ overrun]_vars

\* A new connection is given to the process that asked for it, although the
\* server looks up who that is only when the connection is up; unless the ring
\* has gone round meanwhile.
OwnSocket == \A u \in users : asker[u[1]] = u[2] \/ overrun
=============================================================================
