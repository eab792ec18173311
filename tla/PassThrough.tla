---------------------------- MODULE PassThrough ----------------------------
(***************************************************************************)
(* What "transparent message pass-through" promises of one connection: the *)
(* requests handed to Websocket::send reach the remote server one frame    *)
(* each, whole, once and in order, until the connection breaks.  Requests  *)
(* are numbered in the order of the calls.                                 *)
(***************************************************************************)
EXTENDS Naturals, Sequences

VARIABLES
    sent,   \* requests accepted so far
    wire,   \* frames the remote server was sent, each the requests it holds
    up      \* the connection carries frames

vars == <<sent, wire, up>>

Init == sent = 0 /\ wire = <<>> /\ up = TRUE

Accept == sent' = sent + 1 /\ UNCHANGED <<wire, up>>

Deliver ==
    /\ up /\ Len(wire) < sent
    /\ wire' = Append(wire, <<Len(wire) + 1>>)
    /\ UNCHANGED <<sent, up>>

Break == up' = FALSE /\ UNCHANGED <<sent, wire>>

Next == Accept \/ Deliver \/ Break

Spec == Init /\ [][Next]_vars
=============================================================================
