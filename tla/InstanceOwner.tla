--------------------------- MODULE InstanceOwner ---------------------------
(***************************************************************************)
(* Which websocket_proxy.exe of a session serves: the election over the    *)
(* shared word owner_pid_ (constructor, run() and destructor of            *)
(* WebsocketProxy, src/src/websocket_proxy.cpp).                           *)
(*                                                                         *)
(* Several instances can start at once, since every client that finds no   *)
(* websocket_proxy.exe spawns one.  They run in parallel: one action is    *)
(* one access to what they share, the named file mapping, its 8 bytes and  *)
(* the process table.  The mapping exists while somebody holds a handle to *)
(* it and is zero-filled when it is created.  A process may be killed at   *)
(* any point, also by a constructor that throws.  Process ids are not      *)
(* reused: a process starts once.                                          *)
(*                                                                         *)
(* A definition whose comment starts with "Mutant" is a plausible bug in   *)
(* the one after it: no specification uses it, and it shows that some      *)
(* property notices.                                                       *)
(***************************************************************************)
CONSTANTS
    Proc,     \* instances of websocket_proxy.exe in one session
    Nobody    \* the value 0 of owner_pid_

ASSUME NobodyAssumption == Nobody \notin Proc

VARIABLES
    pc,         \* where each instance is
    mapped,     \* instances with a handle to the mapping: hMapFile_
    owner,      \* *owner_pid_ in the mapping
    own_shm,    \* instances with own_shm_
    expected,   \* the local variable owner of run()
    overtaken   \* history: a takeover succeeded while the mapping's creator
                \* had not stored its own pid yet

vars == <<pc, mapped, owner, own_shm, expected, overtaken>>

PC == {"ready", "init", "load", "check", "cas", "running", "stopping",
       "closing", "dead"}

Alive(p) == pc[p] \notin {"ready", "dead"}

\* Types, and: exactly the live instances hold a handle to the mapping, so that a
\* new instance creates it only when no other is alive.
TypeOK ==
    /\ pc \in [Proc -> PC]
    /\ mapped = {p \in Proc : Alive(p)}
    /\ owner \in Proc \cup {Nobody}
    /\ own_shm \subseteq Proc
    /\ expected \in [Proc -> Proc \cup {Nobody}]
    /\ overtaken \in BOOLEAN

Init ==
    /\ pc = [p \in Proc |-> "ready"]
    /\ mapped = {} /\ owner = Nobody /\ own_shm = {}
    /\ expected = [p \in Proc |-> Nobody]
    /\ overtaken = FALSE

Goto(p, l) == pc' = [pc EXCEPT ![p] = l]

\* The process ends, exit(-1) included, which runs no destructor; Windows
\* closes its handles.
Exit(p) == Goto(p, "dead") /\ mapped' = mapped \ {p}

-----------------------------------------------------------------------------
\* Mutant of CreateFileMapping: the handle to a mapping that already exists is not
\* kept, as if hMapFile_ were closed once ERROR_ALREADY_EXISTS is seen.
CreateFileMappingNotKept(p) ==
    /\ pc[p] = "ready"
    /\ IF mapped = {}
       THEN /\ mapped' = {p} /\ own_shm' = own_shm \cup {p}
            /\ owner' = Nobody /\ Goto(p, "init")
       ELSE UNCHANGED <<mapped, own_shm, owner>> /\ Goto(p, "load")
    /\ UNCHANGED <<expected, overtaken>>

\* CreateFileMapping, the test for ERROR_ALREADY_EXISTS and MapViewOfFile.
CreateFileMapping(p) ==
    /\ pc[p] = "ready"
    /\ mapped' = mapped \cup {p}
    /\ IF mapped = {}
       THEN own_shm' = own_shm \cup {p} /\ owner' = Nobody /\ Goto(p, "init")
       ELSE UNCHANGED <<own_shm, owner>> /\ Goto(p, "load")
    /\ UNCHANGED <<expected, overtaken>>

\* new (lpvMem_) std::atomic<uint64_t>(pid_); run() then skips the election.
StoreOwner(p) ==
    /\ pc[p] = "init"
    /\ owner' = p
    /\ Goto(p, "running")
    /\ UNCHANGED <<mapped, own_shm, expected, overtaken>>

LoadOwner(p) ==
    /\ pc[p] = "load"
    /\ expected' = [expected EXCEPT ![p] = owner]
    /\ Goto(p, IF owner = Nobody THEN "cas" ELSE "check")
    /\ UNCHANGED <<mapped, owner, own_shm, overtaken>>

\* Mutant of CheckOwner: the owner is not checked again after the sleep.
CheckOwnerNever(p) ==
    /\ pc[p] = "check"
    /\ Goto(p, "cas")
    /\ UNCHANGED <<mapped, owner, own_shm, expected, overtaken>>

\* Mutant of CheckOwner: a process in its destructor counts as gone.
CheckOwnerEarly(p) ==
    /\ pc[p] = "check"
    /\ IF Alive(expected[p]) /\ pc[expected[p]] # "closing"
       THEN Exit(p) ELSE Goto(p, "cas") /\ UNCHANGED mapped
    /\ UNCHANGED <<owner, own_shm, expected, overtaken>>

\* After 500 ms of sleep: isProcessRunning(owner).
CheckOwner(p) ==
    /\ pc[p] = "check"
    /\ IF Alive(expected[p]) THEN Exit(p) ELSE Goto(p, "cas") /\ UNCHANGED mapped
    /\ UNCHANGED <<owner, own_shm, expected, overtaken>>

\* compare_exchange_strong: a failure loads the current owner, and the instance
\* gives up if there is one, dead or alive, and tries again if there is none.
CompareExchange(p) ==
    /\ pc[p] = "cas"
    /\ IF owner = expected[p]
       THEN /\ owner' = p
            /\ overtaken' = (overtaken \/ \E q \in Proc : pc[q] = "init")
            /\ Goto(p, "running")
            /\ UNCHANGED <<mapped, expected>>
       ELSE /\ expected' = [expected EXCEPT ![p] = owner]
            /\ IF owner # Nobody THEN Exit(p) ELSE UNCHANGED <<pc, mapped>>
            /\ UNCHANGED <<owner, overtaken>>
    /\ UNCHANGED own_shm

\* run() returns.
Stop(p) ==
    /\ pc[p] = "running"
    /\ Goto(p, "stopping")
    /\ UNCHANGED <<mapped, owner, own_shm, expected, overtaken>>

\* The destructor's store: only by the creator of the mapping, since a takeover
\* does not set own_shm_.
ReleaseOwner(p) ==
    /\ pc[p] = "stopping"
    /\ owner' = IF p \in own_shm THEN Nobody ELSE owner
    /\ Goto(p, "closing")
    /\ UNCHANGED <<mapped, own_shm, expected, overtaken>>

\* UnmapViewOfFile, CloseHandle, and the end of the process.
CloseMapping(p) ==
    /\ pc[p] = "closing"
    /\ Exit(p)
    /\ UNCHANGED <<owner, own_shm, expected, overtaken>>

Crash(p) ==
    /\ Alive(p)
    /\ Exit(p)
    /\ UNCHANGED <<owner, own_shm, expected, overtaken>>

Next ==
    \E p \in Proc :
        \/ CreateFileMapping(p) \/ StoreOwner(p)
        \/ LoadOwner(p) \/ CheckOwner(p) \/ CompareExchange(p)
        \/ Stop(p) \/ ReleaseOwner(p) \/ CloseMapping(p) \/ Crash(p)

Spec == Init /\ [][Next]_vars

-----------------------------------------------------------------------------
\* Unless a takeover slipped in between the creation of the mapping and the
\* creator's store, the instance that serves, through run() and until its
\* destructor has released the word, is the one owner_pid_ names: so there is
\* at most one, through any number of crashes, restarts and takeovers.
OwnerIsTheServer ==
    ~overtaken => \A p \in Proc : pc[p] \in {"running", "stopping"} => owner = p

\* Ownership is taken only from the dead, or given up by the owner's destructor,
\* although an instance compares the word with a pid it checked much earlier.
LiveOwnerKeepsOwnership ==
    [][~overtaken' /\ owner' # owner /\ owner # Nobody =>
          \/ ~Alive(owner)
          \/ pc[owner] = "stopping" /\ owner' = Nobody]_vars

\* "Only one WebsocketProxy instance is allowed" (src/websocket_proxy.cpp:145).
OnlyOneInstance ==
    \A p, q \in Proc : pc[p] = "running" /\ pc[q] = "running" => p = q
=============================================================================
