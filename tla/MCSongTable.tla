---------------------------- MODULE MCSongTable ----------------------------
(***************************************************************************)
(* SongTable for TLC: title stands for the text columns, disc for the      *)
(* numbers.  A client comes once, and a behaviour ends when all have.      *)
(***************************************************************************)
EXTENDS SongTable, TLC

CONSTANTS A, B, C, h1, h2, title, disc

\* A file without tags, one with both, and one whose title is too long.
MCTags ==
    {[f \in Columns |-> IF f = title THEN t ELSE d] :
        <<t, d>> \in {<<"none", "none">>, <<"fits", "fits">>, <<"long", "fits">>}}

Symmetry == Permutations(Clients) \cup Permutations(Hashes)
=============================================================================
