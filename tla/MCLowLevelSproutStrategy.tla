----------------------- MODULE MCLowLevelSproutStrategy -----------------------
(* Instances of the executor with the sprout strategy for TLC.             *)
EXTENDS LowLevelSproutStrategy
=============================================================================
