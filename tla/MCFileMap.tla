----------------------------- MODULE MCFileMap ------------------------------
(***************************************************************************)
(* FileMap for TLC.  Callers, paths and inodes are interchangeable.        *)
(***************************************************************************)
EXTENDS FileMapProofs, TLC

Symmetry == Permutations(Callers) \union Permutations(Paths)
              \union Permutations(Inodes)

(* Files that begin as long as they may be, and cannot be longer later.    *)
SpecOfLongFiles ==
  Init /\ (\A i \in Inodes : len[i] = MaxLen) /\ [][Next]_vars
=============================================================================
