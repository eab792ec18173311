------------------------- MODULE SubscriptionsProofs -------------------------
(***************************************************************************)
(* Proofs about Subscriptions, for any number of clients, symbols, types.  *)
(***************************************************************************)
EXTENDS Subscriptions, TLAPS

\* The entry of a symbol names everybody who wants it, and nobody else but those
\* who left without unsubscribing.
Recorded ==
    \A p \in Pid, s \in Symbol :
        /\ wants[p][s] # {} => p \in subscribers[s]
        /\ p \in subscribers[s] => wants[p][s] # {} \/ <<p, s>> \in left

\* type_ has every wanted type, and the remote server was asked for all of it, on
\* the connection that works.
Asked ==
    \A s \in Symbol :
        /\ link = "open" => type[s] \subseteq remote[s]
        /\ \A p \in Pid : s \in mixed \/ \A t \in wants[p][s] : t \subseteq type[s]

\* Without an entry nothing is sent, unless the last request was too narrow, and
\* without a connection nothing at all; a socket that is gone took its entries.
Ended ==
    \A s \in Symbol :
        /\ subscribers[s] = {} /\ remote[s] # {} => s \in narrow
        /\ link # "open" => remote[s] = {}
        /\ link = "down" => subscribers[s] = {}

Inv == TypeOK /\ Recorded /\ Asked /\ Ended

\* Init establishes the invariant, and so does the end of the socket.
LEMMA InitInv == Init => Inv
  BY DEF Init, Inv, TypeOK, Recorded, Asked, Ended, NoSymbol

\* The end of the socket ends everything the invariant speaks of.
LEMMA GoneInv == ASSUME Inv, SocketGone, clients' \subseteq Pid PROVE Inv'
  BY DEF SocketGone, Inv, TypeOK, Recorded, Asked, Ended, NoSymbol

\* A client that leaves the socket keeps the invariant: its entries stay.
LEMMA LeaveInv ==
    ASSUME Inv, NEW p \in Pid, Leave(p), clients' \subseteq Pid
    PROVE  Inv'
<1>1. CASE link # "down" /\ users # {} /\ users \subseteq {p}
  BY <1>1, GoneInv DEF Leave
<1>2. CASE ~(link # "down" /\ users # {} /\ users \subseteq {p})
  <2>1. /\ users' = users \ {p} /\ UNCHANGED <<link, type, subscribers, remote, mixed, narrow>>
        /\ wants' = [wants EXCEPT ![p] = NoSymbol]
        /\ left' = left \cup ({p} \X {s \in Symbol : p \in subscribers[s]})
    BY <1>2 DEF Leave, subVars
  <2>2. \A q \in Pid, s \in Symbol : wants'[q][s] = IF q = p THEN {} ELSE wants[q][s]
    BY <2>1 DEF Inv, TypeOK, NoSymbol
  <2>3. TypeOK'
    BY <2>1 DEF Inv, TypeOK, NoSymbol
  <2>4. Recorded' /\ Asked' /\ Ended'
    BY <2>1, <2>2 DEF Inv, TypeOK, Recorded, Asked, Ended
  <2> QED BY <2>3, <2>4 DEF Inv
<1> QED BY <1>1, <1>2

\* handleSubscribe keeps the invariant.
LEMMA SubscribeInv ==
    ASSUME Inv, NEW p \in Pid, NEW s \in Symbol, NEW t \in Flags, handleSubscribe(p, s, t)
    PROVE  Inv'
<1> USE DEF Inv
<1>1. /\ subscribers' = [subscribers EXCEPT ![s] = subscribers[s] \cup {p}]
      /\ wants' = [wants EXCEPT ![p][s] = wants[p][s] \cup {t}]
      /\ left' = left \ {<<p, s>>}
      /\ UNCHANGED <<clients, link, users, narrow>>
  BY DEF handleSubscribe
<1>2. t \subseteq Type
  BY DEF Flags
<1>3. \A q \in Pid, r \in Symbol :
         wants'[q][r] = IF q = p /\ r = s THEN wants[p][s] \cup {t} ELSE wants[q][r]
  BY <1>1 DEF TypeOK
<1>4. /\ type'[s] = IF Known(s, t) THEN type[s] ELSE type[s] \cup t
      /\ remote'[s] = IF Known(s, t) \/ link # "open" THEN remote[s] ELSE remote[s] \cup t
      /\ \A r \in Symbol \ {s} : type'[r] = type[r] /\ remote'[r] = remote[r]
      /\ type' \in [Symbol -> SUBSET Type] /\ remote' \in [Symbol -> SUBSET Type]
  BY <1>2 DEF handleSubscribe, asked, TypeOK, Known
<1>5. /\ mixed \subseteq mixed' /\ mixed' \subseteq Symbol
      /\ Known(s, t) => s \in mixed' \/ t \subseteq type[s]
  BY DEF handleSubscribe, Known, TypeOK
<1>6. TypeOK'
  <2>1. \A r \in Symbol : subscribers'[r] = {} => type'[r] = {}
    BY <1>1, <1>4 DEF TypeOK
  <2>2. wants' \in [Pid -> [Symbol -> SUBSET Flags]]
    BY <1>1 DEF TypeOK
  <2>3. /\ subscribers' \in [Symbol -> SUBSET Pid]
        /\ left' \subseteq Pid \X Symbol /\ narrow' \subseteq Symbol
        /\ clients' \subseteq Pid /\ users' \subseteq Pid
        /\ link' \in {"down", "open", "cut", "closing"}
    BY <1>1 DEF TypeOK
  <2> QED BY <1>4, <1>5, <2>1, <2>2, <2>3, Zenon DEF TypeOK
<1>7. Recorded'
  BY <1>1, <1>2, <1>3 DEF Recorded, TypeOK
<1>8. Asked'
  <2> SUFFICES ASSUME NEW r \in Symbol
               PROVE  /\ link' = "open" => type'[r] \subseteq remote'[r]
                      /\ \A q \in Pid :
                           r \in mixed' \/ \A v \in wants'[q][r] : v \subseteq type'[r]
    BY DEF Asked
  <2>1. CASE r = s
    BY <2>1, <1>1, <1>3, <1>4, <1>5 DEF Asked
  <2>2. CASE r # s
    BY <2>2, <1>1, <1>3, <1>4, <1>5 DEF Asked
  <2> QED BY <2>1, <2>2
<1>9. Ended'
  <2>1. link # "down"
    BY DEF handleSubscribe
  <2>2. p \in subscribers'[s] /\ \A r \in Symbol \ {s} : subscribers'[r] = subscribers[r]
    BY <1>1 DEF TypeOK
  <2> QED BY <1>1, <1>4, <2>1, <2>2 DEF Ended
<1> QED BY <1>6, <1>7, <1>8, <1>9

\* handleUnsubscribe keeps the invariant.
LEMMA UnsubscribeInv ==
    ASSUME Inv, NEW p \in Pid, NEW s \in Symbol, NEW u \in Flags, handleUnsubscribe(p, s, u)
    PROVE  Inv'
<1> USE DEF Inv
<1>1. /\ subscribers' = [subscribers EXCEPT ![s] = subscribers[s] \ {p}]
      /\ wants' = [wants EXCEPT ![p][s] = {}]
      /\ left' = left \ {<<p, s>>}
      /\ UNCHANGED <<clients, link, users>>
  BY DEF handleUnsubscribe
<1>2. \A q \in Pid, r \in Symbol :
         wants'[q][r] = IF q = p /\ r = s THEN {} ELSE wants[q][r]
  BY <1>1 DEF TypeOK
<1>3. Recorded'
  BY <1>1, <1>2 DEF Recorded, TypeOK
<1>4. CASE Last(p, s)
  <2>1. /\ type' = [type EXCEPT ![s] = {}] /\ remote' = [remote EXCEPT ![s] = remote[s] \ u]
        /\ mixed' = mixed \ {s}
        /\ narrow' = IF remote[s] \subseteq u THEN narrow \ {s} ELSE narrow \cup {s}
    BY <1>4 DEF handleUnsubscribe, ended
  <2>2. \A q \in Pid : wants'[q][s] = {}
    BY <1>2, <1>4 DEF Last, Recorded
  <2>3. subscribers'[s] = {}
    BY <1>1, <1>4 DEF Last, TypeOK
  <2>4. TypeOK'
    BY <1>1, <2>1, <2>3 DEF TypeOK
  <2>5. Asked'
    BY <1>1, <1>2, <2>1, <2>2 DEF Asked, TypeOK
  <2>6. Ended'
    BY <1>1, <2>1 DEF Ended, TypeOK
  <2> QED BY <1>3, <2>4, <2>5, <2>6
<1>5. CASE ~Last(p, s)
  <2>1. UNCHANGED <<type, remote, mixed, narrow>>
    BY <1>5 DEF handleUnsubscribe
  <2>2. \A r \in Symbol : subscribers'[r] = {} <=> subscribers[r] = {}
    BY <1>1, <1>5 DEF Last, TypeOK
  <2>3. TypeOK'
    BY <1>1, <2>1, <2>2 DEF TypeOK
  <2>4. Asked' /\ Ended'
    BY <1>1, <1>2, <2>1, <2>2 DEF Asked, Ended
  <2> QED BY <1>3, <2>3, <2>4
<1> QED BY <1>4, <1>5

\* The invariant holds throughout.
LEMMA Invariance == Spec => []Inv
<1>1. Inv /\ [Next]_vars => Inv'
  <2> SUFFICES ASSUME Inv, [Next]_vars PROVE Inv'
    OBVIOUS
  <2> USE DEF Inv
  <2>1. ASSUME NEW p \in Pid, handleClientRegistration(p) \/ openWs(p) PROVE Inv'
    BY <2>1 DEF handleClientRegistration, openWs, subVars, TypeOK, Recorded, Asked, Ended
  <2>2. ASSUME NEW p \in Pid, unregisterClient(p) \/ closeWs(p) PROVE Inv'
    <3>1. Leave(p) /\ clients' \subseteq Pid
      BY <2>2 DEF unregisterClient, closeWs, TypeOK
    <3> QED BY <3>1, LeaveInv
  <2>3. CASE RemoteCloses \/ Fails
    BY <2>3 DEF RemoteCloses, Fails, Cut, NoSymbol, TypeOK, Recorded, Asked, Ended
  <2>a. CASE Removed
    BY <2>a, GoneInv DEF Removed, TypeOK
  <2>4. CASE UNCHANGED vars
    BY <2>4 DEF vars, TypeOK, Recorded, Asked, Ended
  <2> QED BY <2>1, <2>2, <2>3, <2>a, <2>4, SubscribeInv, UnsubscribeInv DEF Next
<1> QED BY InitInv, <1>1, PTL DEF Spec

-----------------------------------------------------------------------------
\* Type correctness; types are recorded only for a symbol that has clients.
THEOREM TypeCorrect == Spec => []TypeOK
  BY Invariance, PTL DEF Inv

\* A client gets what it subscribed to while the connection works, mixed requests
\* excepted.
THEOREM SubscribersServed == Spec => []Served
<1>1. Inv => Served
  BY DEF Inv, Asked, Served
<1> QED BY Invariance, <1>1, PTL

\* What nobody wants is ended, stale clients and narrow requests excepted.
THEOREM LastClientEnds == Spec => []EndsWithLastClient
<1>1. Inv => EndsWithLastClient
  BY DEF Inv, TypeOK, Recorded, Ended, EndsWithLastClient
<1> QED BY Invariance, <1>1, PTL
=============================================================================
