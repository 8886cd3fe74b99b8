----------------------------- MODULE MCNotifier -----------------------------
(***************************************************************************)
(* Notifier for TLC.  Streams are used once, so a behaviour ends when all  *)
(* are closed and every message was sent.                                  *)
(***************************************************************************)
EXTENDS Notifier

CONSTANTS A, B, S1, S2, S3, N1, N2, M1, M2
=============================================================================
