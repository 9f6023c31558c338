---------------------------- MODULE MCScanThread -----------------------------
(***************************************************************************)
(* ScanThread for TLC: cores on both sides of a word and of a group, on    *)
(* two nodes, and one core number that does not exist.                     *)
(***************************************************************************)
EXTENDS ScanThread

NodeOfCore == [c \in {0, 1, 3} |-> IF c = 3 THEN 1 ELSE 0]

Masks == {{0}, {1, 3}, {0, 3}}

None == -1

Symmetry == Permutations(Threads) \union Permutations(Counters)
=============================================================================
