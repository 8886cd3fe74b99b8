-------------------------- MODULE MCServerShutdown --------------------------
(* Instances of ServerShutdown for TLC. *)
EXTENDS ServerShutdown
=============================================================================
