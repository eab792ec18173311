------------------------------ MODULE MCWriter ------------------------------
(* Instances of WsWriter for TLC. *)
EXTENDS WsWriter
=============================================================================
