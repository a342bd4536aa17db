---------------------------- MODULE MCUserSearcher ----------------------------
(* Instances of KLEE's searchers on the S2E executor for TLC.              *)
EXTENDS UserSearcher
=============================================================================
