---------------------------- MODULE MCTopicTree -----------------------------
(***************************************************************************)
(* Finite instances of TopicTree.                                          *)
(***************************************************************************)
EXTENDS TopicTree, TLC

\* A lone node, and a root with two children on two levels.
MCShapes == {<<0>>, <<0, 1>>}

Symmetry == Permutations(Topics) \cup Permutations(Hosts)
=============================================================================
