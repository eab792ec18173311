------------------------------ MODULE MCClient ------------------------------
(* Instances of ProxyClient for TLC.                                       *)
EXTENDS ProxyClient
=============================================================================
