----------------------------- MODULE MCPlaylist -----------------------------
(***************************************************************************)
(* Playlist for TLC.  A playlist id and a call are used once, so that a    *)
(* behaviour ends when all are.                                            *)
(***************************************************************************)
EXTENDS Playlist

CONSTANTS C1, C2, C3, C4, P1, A, B

Symmetry == Permutations(Calls) \cup Permutations(Songs)
=============================================================================
