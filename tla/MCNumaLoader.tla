---------------------------- MODULE MCNumaLoader ----------------------------
(***************************************************************************)
(* NumaLoader for TLC: the two candidates of try_load.                     *)
(***************************************************************************)
EXTENDS NumaLoader, TLC

Both == <<"libnuma.so.1", "libnuma.so">>

Symmetry == Permutations(Threads)
=============================================================================
