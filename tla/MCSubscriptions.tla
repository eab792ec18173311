--------------------------- MODULE MCSubscriptions ---------------------------
(* Instances of Subscriptions for TLC.                                     *)
EXTENDS Subscriptions, TLC

CONSTANTS p1, p2, p3, s1, Quotes, Trades

\* Neither processes nor symbols nor flags are told apart.
Symm == Permutations(Pid) \cup Permutations(Symbol) \cup Permutations(Type)
=============================================================================
