---------------------------- MODULE MCTopicStore ----------------------------
(***************************************************************************)
(* Finite instances of TopicStore.                                         *)
(***************************************************************************)
EXTENDS TopicStore, TLC

\* A lone node, and a root with one child.
MCShapes == {<<0>>, <<0, 1>>}

Symmetry == Permutations(Topics)
StoreSymmetry == Permutations(Topics) \cup Permutations(Hosts)
=============================================================================
