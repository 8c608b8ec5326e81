---------------------------- MODULE MCReplaceTree ----------------------------
(* ReplaceTree on a small instance: two interchangeable writers, two files.*)
EXTENDS ReplaceTree, TLC

Symmetry == Permutations(Writers) \cup Permutations(Files)
=============================================================================
