------------------------ MODULE InstanceOwnerProofs ------------------------
(* Proofs about the election of the serving instance.                      *)
EXTENDS InstanceOwner, TLAPS

\* The pids that were ever written or read belong to processes that started.
PidsStarted ==
    /\ owner # Nobody => pc[owner] # "ready"
    /\ \A p \in Proc : expected[p] # Nobody => pc[expected[p]] # "ready"

\* Whoever is about to replace a pid has seen that process dead.
ReplacesTheDead ==
    \A p \in Proc : pc[p] = "cas" /\ expected[p] # Nobody => pc[expected[p]] = "dead"

\* Before the creator's store the word is 0 and nobody serves.
CreatorIsFirst ==
    ~overtaken => \A p \in Proc : pc[p] = "init" =>
        /\ owner = Nobody
        /\ \A q \in Proc : pc[q] \in {"init", "running", "stopping"} => q = p

\* The inductive invariant.
Inv == TypeOK /\ PidsStarted /\ ReplacesTheDead /\ CreatorIsFirst
              /\ OwnerIsTheServer

LEMMA InitInv == Init => Inv
BY NobodyAssumption
DEF Init, Inv, TypeOK, PC, Alive, PidsStarted, ReplacesTheDead,
    CreatorIsFirst, OwnerIsTheServer

LEMMA NextInv == Inv /\ [Next]_vars => Inv'
<1> SUFFICES ASSUME Inv, [Next]_vars PROVE Inv'
  OBVIOUS
<1> USE NobodyAssumption
<1> USE DEF Inv, TypeOK, PC, Alive, Goto
<1>1. ASSUME NEW p \in Proc, CreateFileMapping(p) PROVE Inv'
  BY <1>1 DEF CreateFileMapping, PidsStarted, ReplacesTheDead,
              CreatorIsFirst, OwnerIsTheServer
<1>2. ASSUME NEW p \in Proc, StoreOwner(p) PROVE Inv'
  BY <1>2 DEF StoreOwner, PidsStarted, ReplacesTheDead,
              CreatorIsFirst, OwnerIsTheServer
<1>3. ASSUME NEW p \in Proc, LoadOwner(p) PROVE Inv'
  BY <1>3 DEF LoadOwner, PidsStarted, ReplacesTheDead,
              CreatorIsFirst, OwnerIsTheServer
<1>4. ASSUME NEW p \in Proc, CheckOwner(p) PROVE Inv'
  BY <1>4 DEF CheckOwner, Exit, PidsStarted, ReplacesTheDead,
              CreatorIsFirst, OwnerIsTheServer
<1>5. ASSUME NEW p \in Proc, CompareExchange(p) PROVE Inv'
  <2>1. CASE owner = expected[p]
    <3>1. TypeOK'
      BY <1>5, <2>1 DEF CompareExchange
    <3>2. PidsStarted' /\ ReplacesTheDead'
      BY <1>5, <2>1 DEF CompareExchange, PidsStarted, ReplacesTheDead
    <3>3. ASSUME ~overtaken' PROVE ~overtaken /\ \A q \in Proc : pc[q] # "init"
      BY <1>5, <2>1, <3>3 DEF CompareExchange
    <3>4. CreatorIsFirst'
      BY <1>5, <2>1, <3>3 DEF CompareExchange, CreatorIsFirst
    <3>5. OwnerIsTheServer'
      BY <1>5, <2>1, <3>3 DEF CompareExchange, OwnerIsTheServer, ReplacesTheDead
    <3> QED
      BY <3>1, <3>2, <3>4, <3>5
  <2>2. CASE owner # expected[p]
    BY <1>5, <2>2 DEF CompareExchange, Exit, PidsStarted,
                      ReplacesTheDead, CreatorIsFirst, OwnerIsTheServer
  <2> QED
    BY <2>1, <2>2
<1>6. ASSUME NEW p \in Proc, Stop(p) PROVE Inv'
  BY <1>6 DEF Stop, PidsStarted, ReplacesTheDead,
              CreatorIsFirst, OwnerIsTheServer
<1>7. ASSUME NEW p \in Proc, ReleaseOwner(p) PROVE Inv'
  BY <1>7 DEF ReleaseOwner, PidsStarted, ReplacesTheDead,
              CreatorIsFirst, OwnerIsTheServer
<1>8. ASSUME NEW p \in Proc, CloseMapping(p) \/ Crash(p) PROVE Inv'
  BY <1>8 DEF CloseMapping, Crash, Exit, PidsStarted,
              ReplacesTheDead, CreatorIsFirst, OwnerIsTheServer
<1>9. CASE UNCHANGED vars
  BY <1>9 DEF vars, PidsStarted, ReplacesTheDead, CreatorIsFirst,
              OwnerIsTheServer
<1> QED
  BY <1>1, <1>2, <1>3, <1>4, <1>5, <1>6, <1>7, <1>8, <1>9 DEF Next

LEMMA InvHolds == Spec => []Inv
BY InitInv, NextInv, PTL DEF Spec

\* The variables of the election keep their types, and every live instance, only
\* those, keeps the mapping in being: it is created anew only when all are gone.
THEOREM TypeCorrect == Spec => []TypeOK
BY InvHolds, PTL DEF Inv

\* For any number of instances that start, stop and crash in any order, the one
\* that serves is the one owner_pid_ names, unless a takeover slipped in before
\* the creator's store.
THEOREM ServerOwns == Spec => []OwnerIsTheServer
BY InvHolds, PTL DEF Inv

\* One step takes ownership only from the dead, or by the owner's destructor.
LEMMA OwnershipStep ==
    ASSUME Inv, [Next]_vars, ~overtaken', owner' # owner, owner # Nobody
    PROVE  ~Alive(owner) \/ (pc[owner] = "stopping" /\ owner' = Nobody)
<1> USE NobodyAssumption DEF Inv, TypeOK, PC, Alive, Goto
<1>1. ASSUME NEW p \in Proc, CreateFileMapping(p)
      PROVE  ~Alive(owner)
  BY <1>1 DEF CreateFileMapping
<1>2. ASSUME NEW p \in Proc, StoreOwner(p) PROVE FALSE
  BY <1>2 DEF StoreOwner, CreatorIsFirst
<1>3. ASSUME NEW p \in Proc, CompareExchange(p) PROVE ~Alive(owner)
  BY <1>3 DEF CompareExchange, ReplacesTheDead
<1>4. ASSUME NEW p \in Proc, ReleaseOwner(p)
      PROVE  pc[owner] = "stopping" /\ owner' = Nobody
  BY <1>4 DEF ReleaseOwner, OwnerIsTheServer
<1> QED
  BY <1>1, <1>2, <1>3, <1>4
  DEF Next, vars, LoadOwner, CheckOwner, Stop, CloseMapping, Crash

\* A live instance is never deposed, whatever the other instances have read
\* before.
THEOREM OwnershipKept == Spec => LiveOwnerKeepsOwnership
<1>1. Inv /\ [Next]_vars =>
        [~overtaken' /\ owner' # owner /\ owner # Nobody =>
           \/ ~Alive(owner)
           \/ pc[owner] = "stopping" /\ owner' = Nobody]_vars
  BY OwnershipStep
<1> QED
  BY <1>1, InvHolds, PTL DEF Spec, LiveOwnerKeepsOwnership
=============================================================================
