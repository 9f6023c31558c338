------------------------------- MODULE MCNuma -------------------------------
(***************************************************************************)
(* Numa for TLC: one candidate library is enough here, the loop over two   *)
(* is NumaLoader's.                                                        *)
(***************************************************************************)
EXTENDS Numa, TLC

One == <<"libnuma.so.1">>

(* One node, two nodes, and two nodes with a hole between them.            *)
Machines == {{0}, {0, 1}, {0, 2}}

Symmetry == Permutations(Threads)
=============================================================================
