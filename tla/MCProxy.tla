------------------------------ MODULE MCProxy ------------------------------
(* Instances of WebsocketProxy for TLC.                                    *)
EXTENDS WebsocketProxy, TLC

CONSTANTS p1, p2, k1, k2

\* Client processes are interchangeable: no guard or property names one.
Symm == Permutations(Pid)
=============================================================================
