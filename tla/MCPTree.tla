------------------------------- MODULE MCPTree -------------------------------
(* Instances of the executor and its process tree for TLC.                 *)
EXTENDS PTree
=============================================================================
