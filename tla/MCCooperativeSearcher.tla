------------------------ MODULE MCCooperativeSearcher ------------------------
(* Instances of the cooperative searcher for TLC.                          *)
EXTENDS CooperativeSearcher
=============================================================================
