---------------------------- MODULE MCBinFormat -----------------------------
(***************************************************************************)
(* BinFormat for TLC: bytes of two values and a u64 of two bytes, so that  *)
(* lengths from 0 to 3 can be declared.  A magic that is empty, a prefix   *)
(* of another, and the longest; payloads that look like sections.          *)
(***************************************************************************)
EXTENDS BinFormat

SomeMagics == {<<>>, <<1>>, <<1, 0>>}

SomePayloads == {<<>>, <<1>>, <<1, 0>>, <<0, 1, 1>>}
=============================================================================
