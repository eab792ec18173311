--------------------------- MODULE WsWriterProofs ---------------------------
(***************************************************************************)
(* Proofs about WsWriter, for any number of requests: what holds however   *)
(* they overlap, and that requests are passed through until they do.       *)
(***************************************************************************)
EXTENDS WsWriter, SequenceTheorems, TLAPS

\* The request whose frame comes next: one on_write is due for each earlier one.
NextFrame == Len(wire) + 1

\* While the stream is up, the buffer holds at most the data of the newest
\* write, so that its on_write empties it.
Covered ==
    up => IF writes = <<>> THEN w_buffer = <<>>
                           ELSE Len(w_buffer) <= Len(writes[Len(writes)])

\* Frames and outstanding writes account for every request.
Counted ==
    /\ Len(wire) <= sent
    /\ up => Len(wire) + Len(writes) = sent + (IF written THEN 1 ELSE 0)

\* Only the oldest outstanding request can have been sent alone; if so, its data
\* are the request itself, at the front of the buffer.
AloneFirst ==
    up => /\ \A m \in alone : m + Len(writes) <= sent + 1
          /\ ~written /\ writes # <<>> /\ NextFrame \in alone =>
                writes[1] = <<NextFrame>> /\ w_buffer # <<>> /\ w_buffer[1] = NextFrame

Inv ==
    /\ TypeOK
    /\ written => writes # <<>>
    /\ Covered /\ Counted /\ AloneFirst
    /\ IntactWhenAlone

\* A sequence of length one is its first element.
LEMMA Singleton == ASSUME NEW S, NEW s \in Seq(S), Len(s) = 1 PROVE s = <<s[1]>>
  OBVIOUS

\* There is one, or there are more.
LEMMA OneOrMore == ASSUME NEW n \in Nat, n >= 1 PROVE n = 1 \/ n > 1
  OBVIOUS

\* What Append does to the length and the last element.
LEMMA AppendOne ==
    ASSUME NEW S, NEW s \in Seq(S), NEW e \in S
    PROVE  /\ Append(s, e) \in Seq(S) /\ Append(s, e) # <<>> /\ Len(s) \in Nat
           /\ Len(Append(s, e)) = Len(s) + 1 /\ Append(s, e)[Len(Append(s, e))] = e
  OBVIOUS

\* Init establishes the invariant.
LEMMA InitInv == Init => Inv
<1> SUFFICES ASSUME Init PROVE Inv
  OBVIOUS
<1>1. TypeOK
  <2>1. w_buffer \in Seq(Request) /\ writes \in Seq(Seq(Request)) /\ wire \in Seq(Seq(Nat))
    BY EmptySeq DEF Init
  <2>2. sent \in Nat /\ alone \subseteq Request /\ written = FALSE /\ up = TRUE
    BY DEF Init
  <2> QED BY <2>1, <2>2, Zenon DEF TypeOK
<1>2. Covered /\ Counted /\ (written => writes # <<>>)
  BY DEF Init, Covered, Counted
<1>3. AloneFirst /\ IntactWhenAlone
  BY DEF Init, AloneFirst, IntactWhenAlone
<1> QED BY <1>1, <1>2, <1>3 DEF Inv

\* A frame that belongs to a request sent alone is that request.
LEMMA AloneFrame ==
    ASSUME Inv, async_write, NextFrame \in alone
    PROVE  wire' = Append(wire, <<NextFrame>>)
<1>1. writes[1] = <<NextFrame>> /\ w_buffer # <<>> /\ w_buffer[1] = NextFrame
  BY DEF Inv, AloneFirst, async_write
<1>2. Head(writes) = <<NextFrame>>
  BY <1>1 DEF async_write, Inv, TypeOK
<1>3. Len(w_buffer) \in Nat /\ Len(w_buffer) >= 1
  BY <1>1 DEF Inv, TypeOK
<1>4. SubSeq(w_buffer, 1, 1) = <<NextFrame>>
  <2>1. \A i \in 1..1 : w_buffer[i] \in Request
    BY <1>3 DEF Inv, TypeOK
  <2>2. /\ SubSeq(w_buffer, 1, 1) \in Seq(Request) /\ Len(SubSeq(w_buffer, 1, 1)) = 1
        /\ SubSeq(w_buffer, 1, 1)[1] = w_buffer[1]
    BY <2>1, SubSeqProperties
  <2> QED BY <2>2, <1>1, Singleton
<1>5. Intact(<<NextFrame>>)
  BY <1>3, <1>4 DEF Intact
<1>6. Frames(Head(writes)) = {<<NextFrame>>}
  BY <1>2, <1>5 DEF Frames
<1> QED BY <1>6 DEF async_write

\* send() keeps the invariant.
LEMMA SendInv == Inv /\ send => Inv'
<1> SUFFICES ASSUME Inv, send PROVE Inv'
  OBVIOUS
<1> USE DEF Inv
<1>1. sent' = sent + 1 /\ sent' \in Request /\ sent \in Nat
  BY DEF send, TypeOK, Request
<1>2. /\ w_buffer' = Append(w_buffer, sent')
      /\ writes' = Append(writes, w_buffer')
      /\ UNCHANGED <<written, wire, up>>
  BY DEF send, prepared
<1>a. /\ w_buffer' \in Seq(Request)
      /\ Len(w_buffer') = Len(w_buffer) + 1 /\ Len(w_buffer) \in Nat
  BY <1>1, <1>2, AppendProperties DEF TypeOK
<1>b. /\ writes' \in Seq(Seq(Request)) /\ writes' # <<>>
      /\ Len(writes') = Len(writes) + 1 /\ Len(writes) \in Nat
      /\ writes'[Len(writes')] = w_buffer'
  <2>1. writes \in Seq(Seq(Request))
    BY DEF TypeOK
  <2>2. w_buffer' \in Seq(Request) /\ writes' = Append(writes, w_buffer')
    BY <1>a, <1>2, Zenon
  <2> QED BY <2>1, <2>2, AppendOne
<1>3. TypeOK'
  BY <1>1, <1>2, <1>a, <1>b DEF send, TypeOK
<1>4. /\ w_buffer \in Seq(Request) /\ writes \in Seq(Seq(Request))
      /\ w_buffer' \in Seq(Request) /\ writes' \in Seq(Seq(Request))
      /\ Len(writes') = Len(writes) + 1 /\ writes' # <<>>
      /\ writes'[Len(writes')] = w_buffer'
      /\ Len(w_buffer') = Len(w_buffer) + 1 /\ Len(writes) \in Nat /\ Len(wire) \in Nat
  BY <1>1, <1>2, <1>a, <1>b DEF TypeOK
<1>5. Covered'
  BY <1>4 DEF Covered
<1>6. Counted'
  <2>1. Len(wire') = Len(wire) /\ Len(wire) <= sent
    BY <1>2 DEF Counted
  <2>2. up => Len(wire) + Len(writes) = sent + (IF written THEN 1 ELSE 0)
    BY DEF Counted
  <2>3. up' => Len(wire') + Len(writes') = sent' + (IF written' THEN 1 ELSE 0)
    <3> DEFINE d == IF written THEN 1 ELSE 0
    <3>1. d \in Nat /\ Len(wire) \in Nat /\ Len(writes) \in Nat /\ sent \in Nat
      BY <1>1, <1>4
    <3>2. up => Len(wire) + Len(writes) + 1 = sent + 1 + d
      <4> HIDE DEF d
      <4>1. up => Len(wire) + Len(writes) = sent + d
        BY <2>2, Zenon DEF d
      <4> QED BY <3>1, <4>1
    <3> QED BY <3>1, <3>2, <2>1, <1>1, <1>2, <1>4
  <2> QED BY <2>1, <2>3, <1>1, <1>4 DEF Counted
<1>7. AloneFirst'
  <2> SUFFICES ASSUME up PROVE AloneFirst'
    BY <1>2 DEF AloneFirst
  <2>1. CASE writes = <<>>
    <3>1. w_buffer = <<>> /\ ~written
      BY <2>1 DEF Covered
    <3>2. Len(wire) = sent
      BY <2>1, <3>1, <1>1, <1>4 DEF Counted
    <3>3. w_buffer' = <<sent'>> /\ writes' = << <<sent'>> >>
      BY <2>1, <3>1, <1>2
    <3>4. \A m \in alone' : m + Len(writes') <= sent' + 1
      <4> SUFFICES ASSUME NEW m \in alone' PROVE m + Len(writes') <= sent' + 1
        OBVIOUS
      <4>1. m = sent' \/ m \in alone
        BY DEF send
      <4>2. m \in Nat
        BY <1>3 DEF TypeOK, Request
      <4>3. Len(writes') = 1 /\ Len(writes) = 0
        BY <2>1, <3>3
      <4>4. m \in alone => m + Len(writes) <= sent + 1
        BY DEF AloneFirst
      <4> QED BY <4>1, <4>2, <4>3, <4>4, <1>1
    <3>5. writes'[1] = <<sent'>> /\ w_buffer'[1] = sent' /\ w_buffer' # <<>>
      BY <3>3
    <3>6. NextFrame' = sent'
      BY <3>2, <1>1, <1>2 DEF NextFrame
    <3> QED BY <3>4, <3>5, <3>6 DEF AloneFirst
  <2>2. CASE writes # <<>>
    <3>1. alone' = alone
      BY <2>2 DEF send
    <3>2. \A m \in alone' : m + Len(writes') <= sent' + 1
      <4> SUFFICES ASSUME NEW m \in alone PROVE m + Len(writes') <= sent' + 1
        BY <3>1
      <4>1. m \in Nat /\ m + Len(writes) <= sent + 1
        BY DEF TypeOK, Request, AloneFirst
      <4> QED BY <4>1, <1>1, <1>4
    <3>3. writes'[1] = writes[1] /\ NextFrame' = NextFrame
      BY <2>2, <1>2, <1>4 DEF NextFrame
    <3>4. w_buffer # <<>> => w_buffer'[1] = w_buffer[1] /\ w_buffer' # <<>>
      BY <1>1, <1>2, <1>4
    <3> QED BY <2>2, <3>1, <3>2, <3>3, <3>4, <1>2 DEF AloneFirst
  <2> QED BY <2>1, <2>2
<1>9. IntactWhenAlone'
  <2>1. wire' = wire
    BY <1>2
  <2>2. \A i \in DOMAIN wire : i \in alone' => i \in alone
    <3> SUFFICES ASSUME NEW i \in DOMAIN wire, i \in alone', i \notin alone PROVE FALSE
      OBVIOUS
    <3>1. writes = <<>> /\ i = sent'
      BY DEF send
    <3>2. i \in 1..Len(wire)
      BY DEF TypeOK
    <3> QED BY <3>1, <3>2, <1>1, <1>4 DEF Counted
  <2> QED BY <2>1, <2>2 DEF IntactWhenAlone
<1>10. written' => writes' # <<>>
  BY <1>4
<1> QED BY <1>3, <1>5, <1>6, <1>7, <1>9, <1>10

\* The write of a frame keeps the invariant.
LEMMA WriteInv == Inv /\ async_write => Inv'
<1> SUFFICES ASSUME Inv, async_write PROVE Inv'
  OBVIOUS
<1> USE DEF Inv
<1>1. PICK frame \in Frames(Head(writes)) : wire' = Append(wire, frame)
  BY DEF async_write
<1>2. /\ up /\ writes # <<>> /\ ~written /\ written'
      /\ UNCHANGED <<w_buffer, writes, sent, up, alone>>
  BY DEF async_write
<1>3. frame \in Seq(Nat)
  <2>1. Head(writes) \in Seq(Request)
    BY <1>2 DEF TypeOK
  <2>2. \A s \in Seq(Request) : s \in Seq(Nat)
    BY DEF Request
  <2>3. Garbled \in Seq(Nat)
    BY DEF Garbled
  <2> QED BY <2>1, <2>2, <2>3 DEF Frames, TypeOK
<1>4. TypeOK'
  BY <1>1, <1>2, <1>3 DEF TypeOK
<1>5. /\ Len(wire) \in Nat /\ Len(writes) \in Nat /\ Len(writes) >= 1 /\ sent \in Nat
      /\ Len(wire') = Len(wire) + 1
  BY <1>1, <1>2, <1>3 DEF TypeOK
<1>6. Covered' /\ (written' => writes' # <<>>)
  BY <1>2 DEF Covered
<1>7. Counted'
  BY <1>2, <1>5 DEF Counted
<1>8. AloneFirst'
  BY <1>2 DEF AloneFirst
<1>9. IntactWhenAlone'
  <2> SUFFICES ASSUME NEW i \in DOMAIN wire', i \in alone PROVE wire'[i] = <<i>>
    BY <1>2 DEF IntactWhenAlone
  <2>1. CASE i = NextFrame
    BY <2>1, <1>5, AloneFrame DEF NextFrame, TypeOK
  <2>2. CASE i # NextFrame
    <3>1. i \in DOMAIN wire /\ wire'[i] = wire[i]
      BY <2>2, <1>1, <1>3, <1>5 DEF NextFrame, TypeOK
    <3> QED BY <3>1 DEF IntactWhenAlone
  <2> QED BY <2>1, <2>2
<1> QED BY <1>4, <1>6, <1>7, <1>8, <1>9

\* on_write() keeps the invariant: it consumes at least what its request added.
LEMMA OnWriteInv == Inv /\ on_write => Inv'
<1> SUFFICES ASSUME Inv, on_write PROVE Inv'
  OBVIOUS
<1> USE DEF Inv
<1> DEFINE n == Len(Head(writes))
<1>1. /\ written /\ ~written' /\ UNCHANGED <<sent, wire, up, alone>>
      /\ writes' = Tail(writes) /\ w_buffer' = SubSeq(w_buffer, n + 1, Len(w_buffer))
  BY DEF on_write, consume
<1>2. /\ writes # <<>> /\ writes \in Seq(Seq(Request)) /\ w_buffer \in Seq(Request)
      /\ Head(writes) = writes[1] /\ n \in Nat /\ Len(w_buffer) \in Nat
      /\ Len(writes) \in Nat /\ Len(writes) >= 1
  BY <1>1 DEF TypeOK
<1>a. /\ writes' \in Seq(Seq(Request)) /\ Len(writes') = Len(writes) - 1
      /\ \A i \in 1..Len(writes') : writes'[i] = writes[i + 1]
  BY <1>1, <1>2, HeadTailProperties
<1>b. /\ w_buffer' \in Seq(Request)
      /\ Len(w_buffer') = IF n + 1 <= Len(w_buffer) THEN Len(w_buffer) - (n + 1) + 1 ELSE 0
  <2>1. \A i \in (n + 1)..Len(w_buffer) : w_buffer[i] \in Request
    BY <1>2
  <2> HIDE DEF n
  <2> QED BY <2>1, <1>1, <1>2, SubSeqProperties
<1>3. /\ w_buffer' \in Seq(Request) /\ writes' \in Seq(Seq(Request))
      /\ Len(writes') = Len(writes) - 1
      /\ Len(w_buffer') = IF n + 1 <= Len(w_buffer) THEN Len(w_buffer) - n ELSE 0
  BY <1>a, <1>b, <1>2
<1>4. TypeOK'
  <2>1. /\ written' \in BOOLEAN /\ up' \in BOOLEAN /\ sent' \in Nat
        /\ wire' \in Seq(Seq(Nat)) /\ alone' \subseteq Request
    BY <1>1, Zenon DEF on_write, TypeOK
  <2> QED BY <2>1, <1>3, Zenon DEF TypeOK
<1>5. Covered'
  <2> SUFFICES ASSUME up PROVE Covered'
    BY <1>1 DEF Covered
  <2>1. Len(w_buffer) <= Len(writes[Len(writes)])
    BY <1>2 DEF Covered
  <2>2. CASE Len(writes) = 1
    <3>1. writes' = <<>> /\ Len(w_buffer') = 0
      BY <2>1, <2>2, <1>2, <1>3
    <3> QED BY <3>1, <1>3 DEF Covered
  <2>3. CASE Len(writes) > 1
    <3>1. writes' # <<>> /\ writes'[Len(writes')] = writes[Len(writes)]
      BY <2>3, <1>2, <1>3, <1>a
    <3>2. Len(w_buffer') <= Len(w_buffer)
      BY <1>2, <1>3
    <3>3. Len(writes[Len(writes)]) \in Nat /\ Len(w_buffer') \in Nat
      BY <1>2, <1>3
    <3>4. Len(w_buffer') <= Len(writes'[Len(writes')])
      BY <3>1, <3>2, <3>3, <2>1, <1>2
    <3> QED BY <3>1, <3>4 DEF Covered
  <2>4. Len(writes) = 1 \/ Len(writes) > 1
    BY <1>2, OneOrMore, Zenon
  <2> QED BY <2>2, <2>3, <2>4, Zenon
<1>6. Counted'
  BY <1>1, <1>2, <1>3 DEF Counted, TypeOK
<1>7. AloneFirst'
  <2> SUFFICES ASSUME up PROVE AloneFirst'
    BY <1>1 DEF AloneFirst
  <2>1. \A m \in alone : m \in Nat /\ m + Len(writes') <= sent
    BY <1>2, <1>3 DEF AloneFirst, TypeOK, Request
  <2>2. Len(wire') + Len(writes') = sent
    BY <1>1, <1>2, <1>3 DEF Counted, TypeOK
  <2>3. NextFrame' \notin alone
    BY <2>1, <2>2, <1>1, <1>2, <1>3 DEF NextFrame, TypeOK
  <2> QED BY <2>1, <2>3, <1>1, <1>2, <1>3 DEF AloneFirst, TypeOK
<1>8. IntactWhenAlone'
  BY <1>1 DEF IntactWhenAlone
<1> QED BY <1>1, <1>4, <1>5, <1>6, <1>7, <1>8

\* A broken stream keeps the invariant, most of which is about working ones.
LEMMA BrokenInv == Inv /\ (on_write_error \/ Break \/ UNCHANGED vars) => Inv'
<1> USE DEF Inv
<1>1. ASSUME Inv, on_write_error PROVE Inv'
  <2>1. writes' \in Seq(Seq(Request)) /\ ~up /\ ~written
        /\ UNCHANGED <<w_buffer, written, sent, wire, up, alone>>
    BY <1>1 DEF on_write_error, TypeOK
  <2> QED BY <1>1, <2>1 DEF TypeOK, Covered, Counted, AloneFirst,
                            IntactWhenAlone
<1>2. ASSUME Inv, Break PROVE Inv'
  BY <1>2 DEF Break, TypeOK, Covered, Counted, AloneFirst, IntactWhenAlone
<1>3. ASSUME Inv, UNCHANGED vars PROVE Inv'
  BY <1>3 DEF vars, TypeOK, Covered, Counted, AloneFirst, IntactWhenAlone,
              NextFrame
<1> QED BY <1>1, <1>2, <1>3

\* The invariant holds throughout.
LEMMA Invariance == Spec => []Inv
<1>1. Inv /\ [Next]_vars => Inv'
  BY SendInv, WriteInv, OnWriteInv, BrokenInv DEF Next
<1> QED BY InitInv, <1>1, PTL DEF Spec

-----------------------------------------------------------------------------
\* The type invariant of the write path.
THEOREM TypeCorrect == Spec => []TypeOK
  BY Invariance, PTL DEF Inv

\* However requests overlap, the write buffer is empty when the last on_write has
\* run.
THEOREM BurstsEnd == Spec => []BufferDrained
<1>1. Inv => BufferDrained
  BY DEF Inv, Covered, BufferDrained
<1> QED BY Invariance, <1>1, PTL

\* A request sent when no write was outstanding has a frame of its own.
THEOREM AloneIntact == Spec => []IntactWhenAlone
<1>1. Inv => IntactWhenAlone
  BY DEF Inv
<1> QED BY Invariance, <1>1, PTL

\* A step that changes neither what was written so far nor who sent those
\* requests alone changes nothing of what was passed on.
LEMMA SamePassedOn ==
    ASSUME wire' = wire, \A i \in DOMAIN wire : 1..i \subseteq alone' <=> 1..i \subseteq alone
    PROVE  PassedOn' = PassedOn
<1>1. Undisturbed' = Undisturbed
  BY DEF Undisturbed
<1> QED BY <1>1 DEF PassedOn, Undisturbed

\* As long as nothing was disturbed, all that was written is passed on.
LEMMA AllPassedOn ==
    ASSUME wire \in Seq(Seq(Nat)), \A i \in DOMAIN wire : 1..i \subseteq alone
    PROVE  PassedOn = wire
<1>1. Undisturbed = DOMAIN wire
  BY DEF Undisturbed
<1>2. wire = [i \in DOMAIN wire |-> wire[i]]
  OBVIOUS
<1> QED BY <1>1, <1>2 DEF PassedOn

\* The write of a frame delivers the next request, or comes after the first
\* disturbed one.
LEMMA WriteDelivers == ASSUME Inv, async_write PROVE Pass!Deliver \/ UNCHANGED Pass!vars
<1>1. /\ Len(wire) \in Nat /\ sent \in Nat /\ up /\ ~written
      /\ Len(writes) \in Nat /\ Len(writes) >= 1
      /\ UNCHANGED <<sent, up, alone>> /\ wire \in Seq(Seq(Nat))
  BY DEF async_write, Inv, TypeOK
<1>2. Len(wire) < sent
  BY <1>1 DEF Inv, Counted
<1>3. wire' \in Seq(Seq(Nat)) /\ DOMAIN wire' = 1..NextFrame /\ DOMAIN wire = 1..Len(wire)
      /\ \A i \in DOMAIN wire : wire'[i] = wire[i]
  <2>1. TypeOK'
    BY WriteInv DEF Inv
  <2>2. PICK f \in Frames(Head(writes)) : wire' = Append(wire, f)
    BY DEF async_write
  <2> QED BY <2>1, <2>2, <1>1 DEF TypeOK, NextFrame
<1>4. CASE 1..NextFrame \subseteq alone
  <2>1. \A i \in DOMAIN wire' : 1..i \subseteq alone
    BY <1>1, <1>3, <1>4 DEF NextFrame
  <2>2. \A i \in DOMAIN wire : 1..i \subseteq alone
    BY <2>1, <1>1, <1>3 DEF NextFrame
  <2>3. PassedOn = wire
    BY <2>2, <1>1, AllPassedOn
  <2>4. PassedOn' = wire'
    <3>1. Undisturbed' = DOMAIN wire'
      BY <2>1, <1>1 DEF Undisturbed
    <3>2. wire' = [i \in DOMAIN wire' |-> wire'[i]]
      BY <1>3
    <3> QED BY <3>1, <3>2 DEF PassedOn
  <2>5. NextFrame \in alone
    BY <1>1, <1>4 DEF NextFrame
  <2>6. wire' = Append(wire, <<Len(wire) + 1>>)
    BY <2>5, AloneFrame DEF NextFrame
  <2> QED BY <1>1, <1>2, <2>3, <2>4, <2>6 DEF Pass!Deliver
<1>5. CASE ~(1..NextFrame \subseteq alone)
  <2>1. Undisturbed' = Undisturbed
    BY <1>1, <1>3, <1>5 DEF Undisturbed, NextFrame
  <2>2. \A i \in Undisturbed : wire'[i] = wire[i]
    BY <1>3 DEF Undisturbed
  <2>3. PassedOn' = PassedOn
    BY <2>1, <2>2 DEF PassedOn
  <2> QED BY <2>3, <1>1 DEF Pass!vars
<1> QED BY <1>4, <1>5

\* The code implements the pass-through specification as long as a request is sent
\* only when its predecessor has been written.
THEOREM PassThroughUntilOverlap == Spec => PassesThrough
<1>1. Init => Pass!Init
  <2> SUFFICES ASSUME Init PROVE Pass!Init
    OBVIOUS
  <2>1. wire \in Seq(Seq(Nat)) /\ DOMAIN wire = {}
    BY DEF Init
  <2>2. PassedOn = wire
    BY <2>1, AllPassedOn
  <2> QED BY <2>2 DEF Init, Pass!Init
<1>2. Inv /\ [Next]_vars => [Pass!Next]_Pass!vars
  <2> SUFFICES ASSUME Inv, [Next]_vars PROVE [Pass!Next]_Pass!vars
    OBVIOUS
  <2> USE DEF Pass!Next, Pass!vars
  <2>1. CASE send
    <3>1. /\ wire' = wire /\ up' = up /\ sent' = sent + 1 /\ sent \in Nat
          /\ alone' \subseteq alone \cup {sent'} /\ alone \subseteq alone'
      BY <2>1 DEF send, Inv, TypeOK
    <3>2. \A i \in DOMAIN wire : i \in Nat /\ i <= sent
      BY <3>1 DEF Inv, Counted, TypeOK
    <3>3. \A i \in DOMAIN wire : 1..i \subseteq alone' <=> 1..i \subseteq alone
      BY <3>1, <3>2
    <3>4. PassedOn' = PassedOn
      BY <3>1, <3>3, SamePassedOn
    <3> QED BY <3>1, <3>4 DEF Pass!Accept
  <2>2. CASE async_write
    BY <2>2, WriteDelivers
  <2>3. ASSUME UNCHANGED <<wire, alone>> PROVE PassedOn' = PassedOn
    BY <2>3, SamePassedOn
  <2>4. CASE on_write
    BY <2>4, <2>3 DEF on_write
  <2>5. CASE on_write_error
    BY <2>5, <2>3 DEF on_write_error
  <2>6. CASE Break
    BY <2>6, <2>3 DEF Break, Pass!Break
  <2>7. CASE UNCHANGED vars
    BY <2>7, <2>3 DEF vars
  <2> QED BY <2>1, <2>2, <2>4, <2>5, <2>6, <2>7 DEF Next
<1> QED BY <1>1, <1>2, Invariance, PTL DEF Spec, PassesThrough, Pass!Spec
=============================================================================
