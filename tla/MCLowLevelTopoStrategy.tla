------------------------ MODULE MCLowLevelTopoStrategy ------------------------
(* Instances of the executor with the topologic strategy for TLC.          *)
EXTENDS LowLevelTopoStrategy, TLC

\* A loop of two blocks, the first of which is a loop of its own and the second
\* of which calls a helper; the helper has the same shape without the call and
\* returns from its second block.
LoopFlow == {<<0, 0>>, <<0, 1>>, <<1, 0>>}

StateSymmetry == Permutations(States)
=============================================================================
