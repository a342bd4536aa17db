-------------------------- MODULE MCMergingSearcher --------------------------
(* Instances of the merging searcher for TLC.                              *)
EXTENDS MergingSearcher
=============================================================================
