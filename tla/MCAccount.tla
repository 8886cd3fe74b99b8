----------------------------- MODULE MCAccount -----------------------------
(***************************************************************************)
(* Account for TLC.  A call is made once, and a behaviour ends when all    *)
(* have been: a name or a password is like another.                        *)
(***************************************************************************)
EXTENDS Account

CONSTANTS c1, c2, c3, c4, n1, n2, p1, p2, d1

Symmetry == Permutations(Calls) \cup Permutations(Names) \cup Permutations(Passwords)
=============================================================================
