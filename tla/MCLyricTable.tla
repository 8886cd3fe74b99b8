---------------------------- MODULE MCLyricTable ----------------------------
(* Instances of LyricTable for TLC. *)
EXTENDS LyricTable, TLC

Symmetry == Permutations(Calls)
=============================================================================
