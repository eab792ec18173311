-------------------------- MODULE MCInstanceOwner --------------------------
(* Instances of InstanceOwner for TLC.                                     *)
EXTENDS InstanceOwner, TLC

CONSTANTS s1, s2, s3, s4

\* Instances are interchangeable: nothing in the model orders process ids.
Symm == Permutations(Proc)
=============================================================================
