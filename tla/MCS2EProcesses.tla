---------------------------- MODULE MCS2EProcesses ----------------------------
(* Instances of the processes for TLC.                                     *)
EXTENDS S2EProcesses
=============================================================================
