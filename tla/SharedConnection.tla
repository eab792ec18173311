-------------------------- MODULE SharedConnection --------------------------
(***************************************************************************)
(* What the proxy promises the clients of one (url, api_key): they share   *)
(* one connection.  The first who asks causes it, and has it when it is    *)
(* up; others join it; it goes when the last of them has left, when it     *)
(* fails, or with the proxy, and not before.  A client leaves by its own   *)
(* request, one at a time, or because it is not registered any more: the   *)
(* registered processes (present) are an input of this module.             *)
(*                                                                         *)
(* The promise ends (`apart') only when a second connection is asked for   *)
(* before the first is settled, and only because openNewWs does not        *)
(* prevent that: from then on nothing is said of the key.                  *)
(***************************************************************************)
CONSTANT Pid  \* client processes

VARIABLES
    link,     \* "down", "up", or "closing": failed, and not cleared away yet
    members,  \* the clients that have it
    asking,   \* the client whose open is in progress
    serving,  \* the proxy has not begun to shut down
    apart,    \* there may be a second connection
    present   \* input: the processes registered with the proxy

vars == <<link, members, asking, serving, apart>>

Init ==
    /\ link = "down" /\ members = {} /\ asking = {}
    /\ serving = TRUE /\ apart = FALSE

Ask(p) ==
    /\ p \in present /\ link = "down" /\ asking = {}
    /\ asking' = {p}
    /\ UNCHANGED <<link, members, serving, apart>>

Refused ==
    /\ asking # {}
    /\ asking' = {}
    /\ UNCHANGED <<link, members, serving, apart>>

Up ==
    /\ link = "down" /\ asking # {}
    /\ link' = "up" /\ members' = asking /\ asking' = {}
    /\ UNCHANGED <<serving, apart>>

Join(p) ==
    /\ p \in present /\ link = "up"
    /\ members' = members \cup {p}
    /\ UNCHANGED <<link, asking, serving, apart>>

\* The processes of D leave, one by its own request or any that are registered no
\* more, and the last one takes the connection with it.
Leave(D) ==
    /\ D \cap present' = {} \/ \E p \in present : D = {p}
    /\ link # "down"
    /\ members' = members \ D
    /\ link' = IF members \subseteq D THEN "down" ELSE link
    /\ UNCHANGED <<asking, serving, apart>>

Fails ==
    /\ link = "up" /\ link' = "closing"
    /\ UNCHANGED <<members, asking, serving, apart>>

Cleared ==
    /\ link = "closing"
    /\ link' = "down" /\ members' = {}
    /\ UNCHANGED <<asking, serving, apart>>

Shutdown ==
    /\ link' = "down" /\ members' = {} /\ serving' = FALSE
    /\ UNCHANGED <<asking, apart>>

\* A second connection is started while one is asked for or closing, or has been.
Apart ==
    /\ apart \/ asking # {} \/ link = "closing"
    /\ apart' = TRUE

Next ==
    \/ \E p \in Pid : Ask(p) \/ Join(p)
    \/ \E D \in SUBSET Pid : Leave(D)
    \/ Refused \/ Up \/ Fails \/ Cleared \/ Shutdown
    \/ Apart

Spec == Init /\ [][Next]_vars
=============================================================================
