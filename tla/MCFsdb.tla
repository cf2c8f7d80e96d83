------------------------------- MODULE MCFsdb -------------------------------
(* Instances of Fsdb for TLC. *)
EXTENDS Fsdb, TLC

CONSTANTS k1, k2, sk1

KeyOrder == <<k1, k2>>
=============================================================================
