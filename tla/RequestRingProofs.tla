------------------------- MODULE RequestRingProofs -------------------------
(***************************************************************************)
(* Proofs about RequestRing, for any number of clients, slots and          *)
(* messages.  Neither OwnAnswer nor OwnSocket is inductive: both rest on   *)
(* what a reference into the ring means (Refs), on who has a slot while it *)
(* is being filled (Filled), and on whose answer a slot holds (Answers).   *)
(***************************************************************************)
EXTENDS RequestRing, TLAPS

\* What the ring and the references into it name was sent.
Sent ==
    /\ \A s \in Slot : ring[s].n <= sent
    /\ \A f \in filling : f[2] <= sent /\ asker[f[2]] = f[3]
    /\ \A o \in opening : o[2] <= sent
    /\ \A u \in users : u[1] <= sent

\* A status in the ring answers the message it stands in.
Answers == \A s \in Slot : ring[s].status # "PENDING" => ring[s].by = ring[s].n

\* A message that the server has not read names its sender.
Unread == \A s \in Slot : ring[s].n >= unread => ring[s].pid = asker[ring[s].n]

\* Whoever refers to a slot still finds its message there.
Refs ==
    /\ \A o \in opening : ring[o[1]].n = o[2] /\ ring[o[1]].pid = asker[o[2]]
    /\ \A p \in Pid : waiting[p] # NoRef => ring[waiting[p][1]].n = waiting[p][2]

\* A slot being filled is its client's alone, and the server has read what was in it.
Filled ==
    \A f \in filling :
        /\ ring[f[1]].pid = f[3] /\ ring[f[1]].n < unread
        /\ \A g \in filling : g[1] = f[1] => g = f
        /\ \A o \in opening : o[1] # f[1]
        /\ \A p \in Pid : waiting[p] # NoRef => waiting[p][1] # f[1]

Inv ==
    /\ TypeOK /\ Sent /\ OwnSocket
    /\ ~overrun => Answers /\ Unread /\ Refs /\ Filled

LEMMA NextSlotType == ASSUME NEW s \in Slot PROVE NextSlot(s) \in Slot
  BY RingAssumption DEF NextSlot, Slot

LEMMA InitInv == Init => Inv
<1> SUFFICES ASSUME Init PROVE Inv
  OBVIOUS
<1>1. TypeOK
  <2>1. [n |-> 0, pid |-> Nobody, kind |-> "post", status |-> "PENDING", by |-> 0] \in Message
    BY DEF Message, Kind, Status
  <2>2. ring \in [Slot -> Message] /\ waiting \in [Pid -> Ref \cup {NoRef}]
    BY <2>1 DEF Init
  <2>3. 0 \in Slot /\ 0 \in 0..MaxMsg /\ 1 \in 1..MaxMsg + 1
    BY RingAssumption DEF Slot
  <2> QED
    BY <2>2, <2>3 DEF Init, TypeOK
<1> QED
  BY <1>1 DEF Init, Inv, Sent, OwnSocket, Answers, Unread, Refs, Filled

LEMMA ReserveInv == ASSUME Inv, NEW p \in Pid, reserveMessage(p) PROVE Inv'
<1>1. sent + 1 \in Msg /\ sent \in Nat /\ tail \in Slot
  BY RingAssumption DEF Inv, TypeOK, reserveMessage, Msg
<1>2. /\ ring' \in [Slot -> Message]
      /\ \A s \in Slot : ring'[s].n = ring[s].n
      /\ \A s \in Slot \ {tail} : ring'[s] = ring[s]
      /\ ring'[tail].pid = p /\ ring'[tail].status = "PENDING"
  <2> DEFINE m == [ring[tail] EXCEPT !.pid = p, !.status = "PENDING", !.by = 0]
  <2>1. ring[tail] \in Message
    BY <1>1 DEF Inv, TypeOK
  <2>2. m \in Message /\ m.n = ring[tail].n /\ m.pid = p /\ m.status = "PENDING"
    BY <2>1 DEF Message, Status
  <2>3. ring' = [ring EXCEPT ![tail] = m]
    BY DEF reserveMessage
  <2> HIDE DEF m
  <2> QED
    BY <1>1, <2>2, <2>3 DEF Inv, TypeOK
<1>3. asker' \in [Msg -> Pid \cup {Nobody}] /\ asker'[sent + 1] = p
      /\ \A n \in Msg : n <= sent => asker'[n] = asker[n]
  BY <1>1 DEF Inv, TypeOK, reserveMessage
<1>4. /\ filling' = filling \cup {<<tail, sent + 1, p>>} /\ sent' = sent + 1
      /\ UNCHANGED <<client_index, unread, opening, waiting, users>>
  BY DEF reserveMessage
<1>5. TypeOK'
  <2>1. tail' \in Slot
    BY NextSlotType DEF Inv, TypeOK, reserveMessage
  <2>2. sent' \in 0..MaxMsg
    BY <1>1, <1>4 DEF Msg
  <2>3. overrun' \in BOOLEAN
    BY DEF Inv, TypeOK, reserveMessage, Referred
  <2>4. filling' \subseteq Slot \X Msg \X Pid
    BY <1>1, <1>4 DEF Inv, TypeOK
  <2> QED
    BY <1>2, <1>3, <1>4, <2>1, <2>2, <2>3, <2>4 DEF Inv, TypeOK
<1>6. Sent'
  <2>1. \A s \in Slot : ring'[s].n <= sent'
    BY <1>1, <1>2, <1>4 DEF Inv, TypeOK, Message, Msg, Sent
  <2>2. ASSUME NEW f \in filling' PROVE f[2] <= sent' /\ asker'[f[2]] = f[3]
    <3>1. CASE f \in filling
      <4>1. f[2] \in Msg /\ f[2] <= sent /\ asker[f[2]] = f[3]
        BY <3>1 DEF Inv, TypeOK, Sent
      <4> QED
        BY <1>1, <1>3, <1>4, <4>1 DEF Msg
    <3>2. CASE f = <<tail, sent + 1, p>>
      BY <1>1, <1>3, <1>4, <3>2
    <3> QED
      BY <1>4, <3>1, <3>2
  <2>3. \A o \in opening' : o[2] <= sent'
    BY <1>1, <1>4 DEF Inv, TypeOK, Sent, Ref, Msg
  <2>4. \A u \in users' : u[1] <= sent'
    BY <1>1, <1>4 DEF Inv, TypeOK, Sent, Msg
  <2> QED
    BY <2>1, <2>2, <2>3, <2>4 DEF Sent
<1>7. OwnSocket'
  <2>1. ASSUME NEW u \in users' PROVE u \in users /\ asker'[u[1]] = asker[u[1]]
    BY <1>3, <1>4, <2>1 DEF Inv, TypeOK, Sent
  <2> QED
    BY <2>1 DEF Inv, OwnSocket, reserveMessage
<1>8. ASSUME ~overrun' PROVE Answers' /\ Unread' /\ Refs' /\ Filled'
  <2>1. ~overrun /\ ~Referred
    BY <1>8 DEF reserveMessage
  <2>2. Answers'
    BY <1>1, <1>2, <2>1 DEF Inv, Answers
  <2>3. Unread'
    <3> SUFFICES ASSUME NEW s \in Slot, ring'[s].n >= unread
                 PROVE  ring'[s].pid = asker'[ring'[s].n]
      BY <1>4 DEF Unread
    <3>1. s # tail
      BY <1>2, <2>1 DEF Referred
    <3>2. ring[s].n \in Msg /\ ring[s].n <= sent
      BY <1>2, RingAssumption DEF Inv, TypeOK, Message, Msg, Sent
    <3> QED
      BY <1>2, <1>3, <2>1, <3>1, <3>2 DEF Inv, Unread
  <2>4. ASSUME NEW o \in opening PROVE o[1] \in Slot /\ o[1] # tail
    <3>1. o[1] \in Slot /\ o[2] \in Msg /\ o = <<o[1], o[2]>>
      BY DEF Inv, TypeOK, Ref
    <3> QED
      BY <2>1, <3>1 DEF Referred
  <2>5. ASSUME NEW q \in Pid, waiting[q] # NoRef PROVE waiting[q][1] \in Slot /\ waiting[q][1] # tail
    <3>1. waiting[q] \in Ref
      BY <2>5 DEF Inv, TypeOK
    <3>2. /\ waiting[q][1] \in Slot /\ waiting[q][2] \in Msg
          /\ waiting[q] = <<waiting[q][1], waiting[q][2]>>
      BY <3>1 DEF Ref
    <3> QED
      BY <2>1, <3>2 DEF Referred
  <2>6. ASSUME NEW f \in filling PROVE f[1] \in Slot /\ f[1] # tail
    <3>1. f[1] \in Slot /\ f[2] \in Msg /\ f[3] \in Pid /\ f = <<f[1], f[2], f[3]>>
      BY DEF Inv, TypeOK
    <3> QED
      BY <2>1, <3>1 DEF Referred
  <2>7. Refs'
    <3>1. ASSUME NEW o \in opening PROVE ring'[o[1]].n = o[2] /\ ring'[o[1]].pid = asker'[o[2]]
      <4>1. o[2] \in Msg /\ o[2] <= sent
        BY DEF Inv, TypeOK, Ref, Sent
      <4> QED
        BY <1>2, <1>3, <2>1, <2>4, <4>1 DEF Inv, Refs
    <3>2. ASSUME NEW q \in Pid, waiting[q] # NoRef
          PROVE  ring'[waiting[q][1]].n = waiting[q][2]
      BY <1>2, <2>1, <2>5, <3>2 DEF Inv, Refs
    <3> QED
      BY <1>4, <3>1, <3>2 DEF Refs
  <2>8. ring[tail].n < unread
    BY <1>1, <2>1 DEF Referred, Inv, TypeOK, Message, Msg
  <2>9. Filled'
    <3> SUFFICES ASSUME NEW f \in filling'
                 PROVE  /\ ring'[f[1]].pid = f[3] /\ ring'[f[1]].n < unread
                        /\ \A g \in filling' : g[1] = f[1] => g = f
                        /\ \A o \in opening : o[1] # f[1]
                        /\ \A q \in Pid : waiting[q] # NoRef => waiting[q][1] # f[1]
      BY <1>4 DEF Filled
    <3>1. CASE f \in filling
      BY <1>2, <1>4, <2>1, <2>6, <3>1 DEF Inv, Filled
    <3>2. CASE f = <<tail, sent + 1, p>>
      BY <1>1, <1>2, <1>4, <2>4, <2>5, <2>6, <2>8, <3>2
    <3> QED
      BY <1>4, <3>1, <3>2
  <2> QED
    BY <2>2, <2>3, <2>7, <2>9
<1> QED
  BY <1>5, <1>6, <1>7, <1>8 DEF Inv

LEMMA SendInv ==
    ASSUME Inv, NEW f \in filling, NEW kind \in Kind, NEW wait \in BOOLEAN,
           sendMessage(f, kind, wait)
    PROVE  Inv'
<1>1. /\ f[1] \in Slot /\ f[2] \in Msg /\ f[3] \in Pid /\ f[2] <= sent /\ asker[f[2]] = f[3]
      /\ sent \in Nat /\ f[2] \in Nat
  BY DEF Inv, TypeOK, Sent, Msg
<1>2. /\ ring' \in [Slot -> Message]
      /\ \A s \in Slot \ {f[1]} : ring'[s] = ring[s]
      /\ ring'[f[1]].n = f[2] /\ ring'[f[1]].pid = ring[f[1]].pid
      /\ ring'[f[1]].status = "PENDING"
  BY <1>1 DEF Inv, TypeOK, Message, Status, sendMessage
<1>3. /\ filling' = filling \ {f}
      /\ UNCHANGED <<tail, sent, client_index, unread, opening, users, asker, overrun>>
  BY DEF sendMessage
<1>4. waiting' \in [Pid -> Ref \cup {NoRef}]
      /\ \A q \in Pid : waiting'[q] = waiting[q] \/ waiting'[q] = <<f[1], f[2]>>
  BY <1>1 DEF Inv, TypeOK, sendMessage, awaited, Ref
<1>5. TypeOK'
  BY <1>2, <1>3, <1>4 DEF Inv, TypeOK
<1>6. Sent'
  BY <1>1, <1>2, <1>3 DEF Inv, Sent
<1>7. OwnSocket'
  BY <1>3 DEF Inv, OwnSocket
<1>8. ASSUME ~overrun' PROVE Answers' /\ Unread' /\ Refs' /\ Filled'
  <2>1. Answers /\ Unread /\ Refs /\ Filled
    BY <1>3, <1>8 DEF Inv
  <2>2. ring[f[1]].pid = f[3]
    BY <2>1 DEF Filled
  <2>3. \A o \in opening : o[1] # f[1] /\ o[1] \in Slot
    BY <2>1 DEF Filled, Inv, TypeOK, Ref
  <2>4. ASSUME NEW q \in Pid, waiting[q] # NoRef PROVE waiting[q][1] # f[1] /\ waiting[q][1] \in Slot
    BY <2>1, <2>4 DEF Filled, Inv, TypeOK, Ref
  <2>5. \A g \in filling' : g[1] # f[1] /\ g[1] \in Slot /\ g \in filling
    BY <1>3, <2>1 DEF Filled, Inv, TypeOK
  <2>6. Answers'
    BY <1>2, <2>1 DEF Answers
  <2>7. Unread'
    BY <1>1, <1>2, <1>3, <2>1, <2>2 DEF Unread
  <2>8. Refs'
    <3>1. \A o \in opening' : ring'[o[1]].n = o[2] /\ ring'[o[1]].pid = asker'[o[2]]
      BY <1>2, <1>3, <2>1, <2>3 DEF Refs
    <3>2. ASSUME NEW q \in Pid, waiting'[q] # NoRef PROVE ring'[waiting'[q][1]].n = waiting'[q][2]
      BY <1>2, <1>4, <2>1, <2>4, <3>2 DEF Refs
    <3> QED
      BY <3>1, <3>2 DEF Refs
  <2>9. Filled'
    <3> SUFFICES ASSUME NEW g \in filling'
                 PROVE  /\ ring'[g[1]].pid = g[3] /\ ring'[g[1]].n < unread
                        /\ \A h \in filling' : h[1] = g[1] => h = g
                        /\ \A o \in opening : o[1] # g[1]
                        /\ \A q \in Pid : waiting'[q] # NoRef => waiting'[q][1] # g[1]
      BY <1>3 DEF Filled
    <3>1. ring'[g[1]] = ring[g[1]]
      BY <1>2, <2>5
    <3>2. \A q \in Pid : waiting'[q] # NoRef => waiting'[q][1] # g[1]
      BY <1>4, <2>1, <2>5 DEF Filled
    <3> QED
      BY <2>1, <2>5, <3>1, <3>2 DEF Filled
  <2> QED
    BY <2>6, <2>7, <2>8, <2>9
<1> QED
  BY <1>5, <1>6, <1>7, <1>8 DEF Inv

\* A client stops waiting, or is gone.
LEMMA WaitEnds ==
    ASSUME Inv, NEW p \in Pid, Returns(p) \/ TimesOut(p) \/ Dies(p)
    PROVE  Inv'
<1>1. /\ waiting' = [waiting EXCEPT ![p] = NoRef] /\ filling' \subseteq filling
      /\ UNCHANGED <<ring, tail, sent, client_index, unread, opening, users, asker, overrun>>
  BY DEF Returns, TimesOut, Dies
<1>2. TypeOK'
  BY <1>1 DEF Inv, TypeOK
<1>3. Sent' /\ OwnSocket'
  BY <1>1 DEF Inv, Sent, OwnSocket
<1>4. ~overrun' => Answers' /\ Unread' /\ Refs' /\ Filled'
  BY <1>1 DEF Inv, TypeOK, Answers, Unread, Refs, Filled
<1> QED
  BY <1>2, <1>3, <1>4 DEF Inv

\* What storing a status in a slot changes.
LEMMA AnswerType ==
    ASSUME TypeOK, NEW s \in Slot, NEW n \in Msg, NEW status \in Status
    PROVE  /\ answer(s, n, status) \in [Slot -> Message]
           /\ \A t \in Slot : /\ answer(s, n, status)[t].n = ring[t].n
                              /\ answer(s, n, status)[t].pid = ring[t].pid
           /\ \A t \in Slot \ {s} : answer(s, n, status)[t] = ring[t]
           /\ answer(s, n, status)[s].by = n
  BY DEF answer, TypeOK, Message

LEMMA ReadInv ==
    ASSUME Inv, openNewWs \/ handlePost \/ \E status \in {"SUCCESS", "FAILED"} : handleAtOnce(status)
    PROVE  Inv'
<1> DEFINE n == ring[client_index].n
<1>1. Reading
  BY DEF openNewWs, handlePost, handleAtOnce
<1>2. n \in Msg /\ client_index \in Slot /\ n <= sent /\ n >= unread
  <2>1. ring[client_index] \in Message /\ unread \in 1..MaxMsg + 1 /\ client_index \in Slot
    BY DEF Inv, TypeOK
  <2>2. n \in Msg
    BY <1>1, <2>1, RingAssumption DEF Reading, Message, Msg
  <2> QED
    BY <1>1, <2>1, <2>2 DEF Inv, Sent, Msg, Reading
<1>3. unread' \in 1..MaxMsg + 1 /\ client_index' \in Slot
  <2>1. unread' = n + 1 /\ client_index' = NextSlot(client_index)
    BY <1>1 DEF Reading
  <2> QED
    BY <1>2, <2>1, NextSlotType, RingAssumption DEF Msg
<1>7. ASSUME ~overrun, UNCHANGED asker,
             \A t \in Slot : ring'[t].n = ring[t].n /\ ring'[t].pid = ring[t].pid
      PROVE  Unread' /\ \A f \in filling : ring'[f[1]].pid = f[3] /\ ring'[f[1]].n < unread'
  <2>1. unread' = n + 1 /\ unread \in Nat /\ n \in Nat /\ \A t \in Slot : ring[t].n \in Nat
    BY <1>1, <1>2 DEF Reading, Inv, TypeOK, Message, Msg
  <2>2. Unread'
    BY <1>2, <1>7, <2>1 DEF Inv, Unread
  <2>3. ASSUME NEW f \in filling PROVE ring'[f[1]].pid = f[3] /\ ring'[f[1]].n < unread'
    <3>1. f[1] \in Slot /\ ring[f[1]].pid = f[3] /\ ring[f[1]].n < unread
      BY <1>7 DEF Inv, TypeOK, Filled
    <3> QED
      BY <1>2, <1>7, <2>1, <3>1
  <2> QED
    BY <2>2, <2>3
<1>4. CASE openNewWs
  <2>1. opening' = opening \cup {<<client_index, n>>}
    BY <1>4 DEF openNewWs, opened
  <2>2. TypeOK'
    BY <1>1, <1>2, <1>3, <1>4, <2>1 DEF Inv, TypeOK, Reading, openNewWs, Ref
  <2>3. Sent' /\ OwnSocket'
    BY <1>1, <1>2, <1>4, <2>1 DEF Inv, Sent, OwnSocket, Reading, openNewWs
  <2>4. ASSUME ~overrun' PROVE Answers' /\ Unread' /\ Refs' /\ Filled'
    <3>1. ~overrun /\ UNCHANGED <<ring, asker, waiting, filling>>
      BY <1>1, <1>4, <2>4 DEF Reading, openNewWs
    <3>2. Answers'
      BY <3>1 DEF Inv, Answers
    <3>3. Refs'
      <4>1. ring[client_index].pid = asker[n]
        BY <1>2, <3>1 DEF Inv, Unread
      <4> QED
        BY <2>1, <3>1, <4>1 DEF Inv, Refs
    <3>4. Unread' /\ \A f \in filling : ring'[f[1]].pid = f[3] /\ ring'[f[1]].n < unread'
      BY <1>7, <3>1
    <3>5. \A f \in filling : f[1] # client_index
      <4>1. ASSUME NEW f \in filling PROVE ring[f[1]].n < unread /\ f[1] \in Slot
        BY <3>1 DEF Inv, Filled, TypeOK
      <4> QED
        BY <1>2, <4>1 DEF Inv, TypeOK, Message, Msg
    <3>6. Filled'
      BY <2>1, <3>1, <3>4, <3>5 DEF Inv, Filled
    <3> QED
      BY <3>2, <3>3, <3>4, <3>6
  <2> QED
    BY <2>2, <2>3, <2>4 DEF Inv
<1>5. CASE handlePost
  <2>1. /\ UNCHANGED <<ring, opening, tail, sent, filling, waiting, users, asker, overrun>>
    BY <1>1, <1>5 DEF handlePost, Reading
  <2>2. TypeOK' /\ Sent' /\ OwnSocket'
    BY <1>3, <2>1 DEF Inv, TypeOK, Sent, OwnSocket
  <2>3. ~overrun => Answers' /\ Refs'
    BY <2>1 DEF Inv, Answers, Refs
  <2>4. ~overrun => Unread' /\ Filled'
    BY <1>7, <2>1 DEF Inv, Filled
  <2> QED
    BY <2>1, <2>2, <2>3, <2>4 DEF Inv
<1>6. ASSUME NEW status \in {"SUCCESS", "FAILED"}, handleAtOnce(status) PROVE Inv'
  <2>1. /\ ring' = answer(client_index, n, status) /\ status \in Status
        /\ UNCHANGED <<opening, tail, sent, filling, waiting, users, asker, overrun>>
    BY <1>1, <1>6 DEF handleAtOnce, Reading, Status
  <2>2. /\ ring' \in [Slot -> Message]
        /\ \A t \in Slot : ring'[t].n = ring[t].n /\ ring'[t].pid = ring[t].pid
        /\ \A t \in Slot \ {client_index} : ring'[t] = ring[t]
        /\ ring'[client_index].by = n
    BY <1>2, <2>1, AnswerType DEF Inv
  <2>3. TypeOK'
    BY <1>3, <2>1, <2>2 DEF Inv, TypeOK
  <2>4. Sent' /\ OwnSocket'
    BY <2>1, <2>2 DEF Inv, Sent, OwnSocket
  <2>5. ~overrun => Answers'
    BY <1>2, <2>1, <2>2 DEF Inv, Answers
  <2>6. ~overrun => Refs'
    BY <2>1, <2>2 DEF Inv, TypeOK, Ref, Refs
  <2>7. ~overrun => Unread' /\ Filled'
    BY <1>7, <2>1, <2>2 DEF Inv, Filled
  <2> QED
    BY <2>1, <2>3, <2>4, <2>5, <2>6, <2>7 DEF Inv
<1> QED
  BY <1>4, <1>5, <1>6

LEMMA OpenInv ==
    ASSUME Inv, NEW o \in opening, OpenSucceeds(o) \/ OpenFails(o)
    PROVE  Inv'
<1>1. o[1] \in Slot /\ o[2] \in Msg /\ o[2] <= sent
  BY DEF Inv, TypeOK, Ref, Sent
<1>2. PICK status \in Status :
        /\ ring' = answer(o[1], o[2], status)
        /\ opening' = opening \ {o}
        /\ UNCHANGED <<tail, sent, filling, client_index, unread, waiting, asker, overrun>>
  BY DEF OpenSucceeds, OpenFails, Status
<1>3. /\ ring' \in [Slot -> Message]
      /\ \A t \in Slot : ring'[t].n = ring[t].n /\ ring'[t].pid = ring[t].pid
      /\ \A t \in Slot \ {o[1]} : ring'[t] = ring[t]
      /\ ring'[o[1]].by = o[2]
  BY <1>1, <1>2, AnswerType DEF Inv
<1>4. users' \subseteq users \cup {<<o[2], ring[o[1]].pid>>}
  BY DEF OpenSucceeds, OpenFails
<1>5. TypeOK'
  <2>1. ring[o[1]].pid \in Pid \cup {Nobody}
    BY <1>1 DEF Inv, TypeOK, Message
  <2> QED
    BY <1>1, <1>2, <1>3, <1>4, <2>1 DEF Inv, TypeOK
<1>6. Sent'
  BY <1>1, <1>2, <1>3, <1>4 DEF Inv, Sent
<1>7. OwnSocket'
  <2>1. ~overrun => asker[o[2]] = ring[o[1]].pid
    BY DEF Inv, Refs
  <2> QED
    BY <1>2, <1>4, <2>1 DEF Inv, OwnSocket
<1>8. ~overrun => Answers'
  BY <1>1, <1>2, <1>3 DEF Inv, Answers, Refs
<1>9. ~overrun => Refs'
  BY <1>2, <1>3 DEF Inv, TypeOK, Ref, Refs
<1>10. ~overrun => Unread'
  BY <1>2, <1>3 DEF Inv, Unread
<1>11. ~overrun => Filled'
  BY <1>2, <1>3 DEF Inv, TypeOK, Filled
<1> QED
  BY <1>2, <1>5, <1>6, <1>7, <1>8, <1>9, <1>10, <1>11 DEF Inv

LEMMA StutterInv == Inv /\ UNCHANGED vars => Inv'
  BY DEF Inv, TypeOK, Sent, OwnSocket, Answers, Unread, Refs, Filled, vars

LEMMA InvHolds == Spec => []Inv
<1>1. Inv /\ [Next]_vars => Inv'
  BY ReserveInv, SendInv, WaitEnds, ReadInv, OpenInv, StutterInv DEF Next
<1> QED
  BY <1>1, InitInv, PTL DEF Spec

-----------------------------------------------------------------------------
\* Type correctness of the ring and of every reference into it.
THEOREM TypeCorrect == Spec => []TypeOK
<1>1. Inv => TypeOK
  BY DEF Inv
<1> QED
  BY <1>1, InvHolds, PTL

\* However many clients share the ring, a connection is given to the process
\* that asked for it, unless the ring has gone round under its request.
THEOREM SocketsGivenRight == Spec => []OwnSocket
<1>1. Inv => OwnSocket
  BY DEF Inv
<1> QED
  BY <1>1, InvHolds, PTL

\* A call returns the answer to its own request, unless the ring has gone round
\* under a request that was not settled.
THEOREM AnswersGivenRight == Spec => OwnAnswer
<1>1. Inv /\ [Next]_vars =>
        [\A p \in Pid : Returns(p) => ring[waiting[p][1]].by = waiting[p][2] \/ overrun]_vars
  <2> SUFFICES ASSUME Inv, NEW p \in Pid, Returns(p), ~overrun
               PROVE  ring[waiting[p][1]].by = waiting[p][2]
    OBVIOUS
  <2>1. waiting[p] \in Ref
    BY DEF Inv, TypeOK, Returns, Answered
  <2>2. waiting[p][1] \in Slot /\ waiting[p] # NoRef
    BY <2>1 DEF Ref, Returns, Answered
  <2> QED
    BY <2>2 DEF Inv, Answers, Refs, Returns, Answered
<1> QED
  BY <1>1, InvHolds, PTL DEF Spec, OwnAnswer
=============================================================================
