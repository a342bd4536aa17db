------------------------ MODULE LowLevelSproutStrategy ------------------------
(***************************************************************************)
(* The executor composed with S2E's main loop and the "sprout" low-level   *)
(* strategy (qemu/s2e/Chef/LowLevelStrategy.cpp): S2E runs one state at a  *)
(* time, and the strategy, installed as its searcher, replaces it by a LL  *)
(* state at the segment of the target HL state.                            *)
(***************************************************************************)
EXTENDS LowLevelStrategy

sproutVars == <<vars, running>>

SproutInit == Init /\ running \in Alive

\* The running state produces an event of the executor.
run ==
    /\ \/ getState(running)
       \/ \E pc \in HLPC : onFirstHighLevelPCUpdate(running, pc)
                           \/ onHighLevelPCUpdate(running, pc)
       \/ /\ ForkUntracked \/ Tracked(running)
          /\ \E n \in States : onStateFork(running, n)
    /\ UNCHANGED running

\* terminateState(), of the running state or, by a plugin, of another one.
terminateState(l) == onStateKill(l) /\ UNCHANGED running

\* Mutant of selectLowLevelState: the last selection is returned again.
CachedState == {running}

\* LowLevelSproutStrategy::selectLowLevelState(): a member of the segment's
\* set, whose order is that of addresses.
selectLowLevelState == StatesAt(hlSeg[target])

\* S2E selects when the running state was terminated or the state switch timer
\* fired; the strategy has no state to offer as long as it has no target.
sproutSelect == selectNextState(target = NoState, selectLowLevelState)

SproutNext ==
    \/ run
    \/ \E l \in States : terminateState(l)
    \/ sproutSelect
    \/ (tryUpdateSelectedState /\ UNCHANGED running)
    \/ (allStatesTerminated /\ UNCHANGED running)

SproutSpec == SproutInit /\ [][SproutNext]_sproutVars

\* The loop of a handler runs to its end; the running state is executed until
\* it writes another HLPC or terminates (an execution has finitely many HLPC
\* writes: MaxDepth), and S2E replaces it when it is dead.  No assumption is
\* made on which state is selected or when the timer fires.
SproutFairSpec ==
    /\ SproutSpec
    /\ WF_sproutVars(tryUpdateSelectedState /\ UNCHANGED running)
    /\ WF_sproutVars(\/ terminateState(running)
                     \/ \E pc \in HLPC : onHighLevelPCUpdate(running, pc) /\ UNCHANGED running)
    /\ WF_sproutVars(running \notin Alive /\ sproutSelect)

-----------------------------------------------------------------------------
\* The assertion of selectLowLevelState(): whenever S2E can ask for a state and
\* there is a target, the segment of the target has a LL state.
SelectableTarget ==
    phase = "idle" /\ Alive # {} /\ target # NoState => StatesAt(hlSeg[target]) # {}

\* No state is stranded: S2E runs every state, whatever their forks, until all
\* are terminated, so each HL state gets its turn as the target.
ExplorationCompletes == <>(Alive = {})
=============================================================================
