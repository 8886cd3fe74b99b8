--------------------------- MODULE MCRangeRequest ---------------------------
(***************************************************************************)
(* RangeRequest for TLC: every header over a few numbers, negative ones    *)
(* and ones behind the file among them, and every pattern of reads.        *)
(***************************************************************************)
EXTENDS RangeRequest

SmallTotals == 0 .. 5
SmallNumbers == -1 .. 6
=============================================================================
