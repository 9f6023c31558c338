------------------------------ MODULE MCMemory ------------------------------
(***************************************************************************)
(* Memory for TLC.  Blocks are interchangeable, and so are vectors.        *)
(***************************************************************************)
EXTENDS Memory, TLC

OneUnit == {[size |-> 1, align |-> 1]}

(* A type of one page, and one aligned to two huge pages.                  *)
SmallAndOverAligned ==
  {[size |-> 2, align |-> 2], [size |-> 8, align |-> 8]}

Symmetry == Permutations(Blocks) \union Permutations(Vecs)
=============================================================================
