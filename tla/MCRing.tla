------------------------------- MODULE MCRing -------------------------------
(* Instances of RequestRing for TLC.                                       *)
EXTENDS RequestRing, TLC

CONSTANTS p1, p2

\* Client processes are interchangeable: no guard or property names one.
Symm == Permutations(Pid)
=============================================================================
