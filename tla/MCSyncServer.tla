---------------------------- MODULE MCSyncServer ----------------------------
(***************************************************************************)
(* SyncServer for TLC.  Calls are interchangeable, and so are streams.     *)
(***************************************************************************)
EXTENDS SyncServer

CONSTANTS C1, C2, D1, E1, T1, S1, S2

Symmetry == Permutations(Calls) \cup Permutations(Streams)
=============================================================================
