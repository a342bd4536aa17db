--------------------------- MODULE MergingSearcher ---------------------------
(***************************************************************************)
(* The executor with the MergingSearcher plugin                            *)
(* (qemu/s2e/Plugins/Searchers/MergingSearcher.cpp) as its searcher.  The  *)
(* guest opens a merge group; the states forked in it are merged into the  *)
(* first of them to reach the end of the group, which waits suspended.     *)
(***************************************************************************)
EXTENDS Searcher

CONSTANTS
    MaxGroups,   \* bound on the merge groups that are started
    EndsInGroup  \* whether a path may end, or be balanced away, in a group

ASSUME MergeAssumption == MaxGroups \in Nat /\ EndsInGroup \in BOOLEAN

VARIABLES
    mergePools,    \* m_mergePools, a function on the groups it has entries for
    activeStates,  \* m_activeStates
    nextGroup,     \* m_nextMergeGroupId
    groupId        \* MergingSearcherState::m_groupId of each state

mergeOnly == <<mergePools, activeStates, currentState, nextGroup, groupId>>
mergeVars == <<vars, mergeOnly>>

Group == 1..MaxGroups
Pool == [firstState : State \cup {NoState}, states : SUBSET State]

MergeTypeOK ==
    /\ DOMAIN mergePools \subseteq Group /\ \A g \in DOMAIN mergePools : mergePools[g] \in Pool
    /\ activeStates \subseteq State /\ currentState \in State \cup {NoState}
    /\ nextGroup \in 1..MaxGroups + 1 /\ groupId \in [State -> 0..MaxGroups]

MergeInit ==
    /\ Init
    /\ mergePools = [g \in {} |-> {}] /\ activeStates = {InitialState}
    /\ currentState = NoState /\ nextGroup = 1 /\ groupId = [s \in State |-> 0]

EmptyPool == [firstState |-> NoState, states |-> {}]

\* std::map::operator[]: the entry, or a new one.
PoolAt(g) == IF g \in DOMAIN mergePools THEN mergePools[g] ELSE EmptyPool

\* Mutant of PoolsAfter: the states added in a group do not join its pool.
PoolsNoJoin(added, removed) ==
    [g \in DOMAIN mergePools \cup ({groupId[s] : s \in added \cup removed} \ {0}) |->
        [PoolAt(g) EXCEPT !.states = @ \ removed]]

\* The pools after MergingSearcher_update(): removed states leave, added ones join.
PoolsAfter(added, removed) ==
    [g \in DOMAIN mergePools \cup ({groupId[s] : s \in added \cup removed} \ {0}) |->
        [PoolAt(g) EXCEPT !.states = (@ \cup {s \in added : groupId[s] = g}) \ removed]]

\* Mutant of MergingSearcher_update: a removed state remains the last selection.
MergingSearcher_updateKeep(added, removed) ==
    /\ mergePools' = PoolsAfter(added, removed)
    /\ activeStates' = (activeStates \cup added) \ removed
    /\ UNCHANGED <<currentState, nextGroup, groupId>>

\* MergingSearcher::MergingSearcher_update().
MergingSearcher_update(added, removed) ==
    /\ mergePools' = PoolsAfter(added, removed)
    /\ activeStates' = (activeStates \cup added) \ removed
    /\ currentState' = IF currentState \in removed THEN NoState ELSE currentState
    /\ UNCHANGED <<nextGroup, groupId>>

InGroup(s) == groupId[s] # 0

\* The plugin state is copied with the state that forks.
mergeFork(s) ==
    /\ fork(s) \/ ((EndsInGroup \/ ~InGroup(current)) /\ forkTooDeep(s))
    /\ groupId' = [groupId EXCEPT ![s] = groupId[current]]
    /\ UNCHANGED <<mergePools, activeStates, currentState, nextGroup>>

mergeTerminate ==
    /\ EndsInGroup \/ ~InGroup(current)
    /\ terminateState /\ UNCHANGED mergeOnly

mergeSucceed ==
    /\ EndsInGroup \/ ~InGroup(current)
    /\ succeedState /\ MergingSearcher_update({}, {current})

\* The timer's own MergingSearcher_update() has nothing to add or remove.
mergeTimer ==
    /\ stateSwitchTimerCallback /\ UNCHANGED mergeOnly
    /\ EndsInGroup \/ \A s \in removedStates' : ~InGroup(s)

mergeUpdate == updateStates /\ MergingSearcher_update(addedStates, removedStates)

\* mergeStart(); within a group it only warns.
mergeStart ==
    /\ Executing /\ UpToDate /\ ~InGroup(current) /\ nextGroup <= MaxGroups
    /\ groupId' = [groupId EXCEPT ![current] = nextGroup]
    /\ mergePools' = [g \in DOMAIN mergePools \cup {nextGroup} |->
                        IF g = nextGroup THEN [EmptyPool EXCEPT !.states = {current}]
                        ELSE mergePools[g]]
    /\ nextGroup' = nextGroup + 1
    /\ UNCHANGED <<vars, activeStates, currentState>>

\* The state at mergeEnd() and those of its group that have yet to reach it.
AtEnd(g) == Executing /\ UpToDate /\ groupId[current] = g /\ g \in DOMAIN mergePools

Others(g) == mergePools[g].states \ {current}

Without(g) == [h \in DOMAIN mergePools \ {g} |-> mergePools[h]]

\* mergeEnd() when nothing was forked in the group.
mergeNothing(g) ==
    /\ AtEnd(g) /\ Others(g) = {} /\ mergePools[g].firstState = NoState
    /\ groupId' = [groupId EXCEPT ![current] = 0]
    /\ mergePools' = Without(g)
    /\ UNCHANGED <<vars, activeStates, currentState, nextGroup>>

\* mergeEnd() of the first state: suspend() and yieldState().
mergeFirst(g) ==
    /\ AtEnd(g) /\ Others(g) # {} /\ mergePools[g].firstState = NoState
    /\ yieldState
    /\ mergePools' = [mergePools EXCEPT ![g] = [firstState |-> current, states |-> Others(g)]]
    /\ activeStates' = activeStates \ {current}
    /\ currentState' = IF currentState = current THEN NoState ELSE currentState
    /\ UNCHANGED <<nextGroup, groupId>>

\* Mutant of mergeNext: the last state to arrive does not resume the first.
mergeNoResume(g) ==
    /\ AtEnd(g) /\ mergePools[g].firstState # NoState
    /\ \/ terminateState /\ UNCHANGED groupId
       \/ UNCHANGED vars /\ groupId' = [groupId EXCEPT ![current] = 0]
    /\ mergePools' = [mergePools EXCEPT ![g].states = Others(g)]
    /\ UNCHANGED <<activeStates, currentState, nextGroup>>

\* mergeEnd() of a later state: it is merged into the first and terminated, or
\* cannot be merged and goes on.  The last one resumes the first.
mergeNext(g) ==
    /\ AtEnd(g) /\ mergePools[g].firstState # NoState
    /\ LET done == IF Others(g) = {} THEN {mergePools[g].firstState} ELSE {}
       IN  \E failed \in {{}, {current}} :
              /\ IF failed = {} THEN terminateState ELSE UNCHANGED vars
              /\ groupId' = [s \in State |-> IF s \in done \cup failed THEN 0 ELSE groupId[s]]
              /\ activeStates' = activeStates \cup done
              /\ mergePools' = IF done = {} THEN [mergePools EXCEPT ![g].states = Others(g)]
                               ELSE Without(g)
    /\ UNCHANGED <<currentState, nextGroup>>

\* selectState(): the last selection until it is gone, then any active state.
MergingSearcher_selectState(s) ==
    /\ IF currentState # NoState THEN s = currentState ELSE s \in activeStates
    /\ currentState' = s
    /\ UNCHANGED <<mergePools, activeStates, nextGroup, groupId>>

mergeEnd == \E g \in Group : mergeNothing(g) \/ mergeFirst(g) \/ mergeNext(g)

MergeNext ==
    \/ \E s \in State : mergeFork(s)
    \/ mergeTerminate
    \/ mergeSucceed
    \/ (yieldState /\ UNCHANGED mergeOnly)
    \/ mergeStart
    \/ mergeEnd
    \/ mergeTimer
    \/ mergeUpdate
    \/ \E s \in State : /\ activeStates # {} /\ MergingSearcher_selectState(s)
                        /\ \/ selectNextState(s)
                           \/ (EndsInGroup \/ ~InGroup(s)) /\ terminateSpeculative(s)
    \/ (activeStates = {} /\ allTerminated /\ UNCHANGED mergeOnly)
    \/ (stopped /\ UNCHANGED mergeOnly)

MergeSpec == MergeInit /\ [][MergeNext]_mergeVars

-----------------------------------------------------------------------------
Waiting == {mergePools[g].firstState : g \in DOMAIN mergePools} \ {NoState}

\* A pool holds the states of its group that can still run, and nothing else;
\* every searched state is either active or waits in one pool.
PoolsMatchGroups ==
    /\ MergeTypeOK
    /\ UpToDate /\ pc # "stopped" =>
        /\ \A g \in DOMAIN mergePools :
              mergePools[g].states = {s \in activeStates : groupId[s] = g}
        /\ activeStates \cup Waiting = states /\ activeStates \cap Waiting = {}

\* Besides the fairness of the main loop, a state that runs reaches the end of
\* its group, and ends once it is out of it.
MergeFairSpec ==
    /\ MergeSpec
    /\ WF_mergeVars(mergeUpdate) /\ WF_mergeVars(mergeTimer)
    /\ WF_mergeVars(\E s \in State : MergingSearcher_selectState(s) /\ selectNextState(s))
    /\ WF_mergeVars(activeStates = {} /\ allTerminated /\ UNCHANGED mergeOnly)
    /\ SF_mergeVars(mergeEnd) /\ SF_mergeVars(mergeTerminate)

\* Every state that waits at the end of its group is run again.
WaitingResumes == \A s \in State : (s \in Waiting) ~> (s \in activeStates)
=============================================================================
