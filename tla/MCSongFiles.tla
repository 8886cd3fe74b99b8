---------------------------- MODULE MCSongFiles ----------------------------
(***************************************************************************)
(* SongFiles for TLC.  Requests are used once: a behaviour ends when all   *)
(* have ended.                                                             *)
(***************************************************************************)
EXTENDS SongFiles

CONSTANTS U1, U2, R1, R2

Symmetry == Permutations(Uploads) \cup Permutations(Others)
=============================================================================
