--------------------------- MODULE MCSyncService ---------------------------
(***************************************************************************)
(* SyncService for TLC.  The calls are interchangeable, and so are the     *)
(* entity ids; liveness runs use no symmetry.                              *)
(***************************************************************************)
EXTENDS SyncService

CONSTANTS C1, C2, C3, D1, D2, E1, E2, T1

Symmetry == Permutations(Calls) \cup Permutations(EntityIds)
=============================================================================
