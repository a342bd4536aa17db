--------------------------- MODULE LowLevelStrategy ---------------------------
(***************************************************************************)
(* What the low-level strategies (qemu/s2e/Chef/LowLevelStrategy.cpp) have *)
(* in common: each is installed as S2E's searcher, over the one that was   *)
(* there, and S2E runs one state at a time.                                *)
(***************************************************************************)
EXTENDS HighLevelExecutor

CONSTANT
    ForkUntracked  \* whether a state may fork before the executor tracks it

ASSUME ForkUntrackedAssumption == ForkUntracked \in BOOLEAN

VARIABLE running  \* g_s2e_state, the state S2E is running

\* What the underlying searcher selects from.
Alive == {l \in States : status[l] = "alive"}

\* LowLevelStrategy::selectState() and S2EExecutor::selectNextState(): one of
\* the states the strategy offers or, when it has none (none), any state that
\* the underlying searcher selects.
selectNextState(none, offered) ==
    /\ phase = "idle" /\ Alive # {}
    /\ running' \in IF none THEN Alive ELSE offered
    /\ UNCHANGED vars
=============================================================================
