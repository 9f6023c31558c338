------------------------------ MODULE MCCorpus ------------------------------
(***************************************************************************)
(* Directory trees for Corpus.  The nodes are numbered in path order:      *)
(*   0/          the base                                                  *)
(*     1         a file                                                    *)
(*     2/        a directory                                               *)
(*       3       a file                                                    *)
(*       4/      a directory                                               *)
(*         5     a file, or a link from the start                          *)
(*         6     a special file, in the mixed tree only                    *)
(***************************************************************************)
EXTENDS Corpus

PlainTree == 0 :> {1, 2} @@ 2 :> {3, 4} @@ 4 :> {5}

MixedTree == 0 :> {1, 2} @@ 2 :> {3, 4} @@ 4 :> {5, 6}

BothTrees == {PlainTree, MixedTree}

OneFile == {0 :> {1}}

NoLinkOrOne == {{}, {5}}

NoLinks == {{}}

Symmetry == Permutations(Inodes)
=============================================================================
