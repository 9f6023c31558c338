----------------------------- MODULE MCMemInfo ------------------------------
(***************************************************************************)
(* MemInfo for TLC: Bad and None are numbers outside Kibs, so that TLC can *)
(* compare them with those inside.                                         *)
(***************************************************************************)
EXTENDS MemInfo

NoDigits == -1
NoValue == -2
=============================================================================
