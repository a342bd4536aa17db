------------------------- MODULE S2EExecutor_proofs -------------------------
(***************************************************************************)
(* Proofs, for any number of states and any options, that the executor's   *)
(* bookkeeping loses no state and never meets one that is gone, and that   *)
(* the merging searcher, which takes states from it and gives them back,   *)
(* keeps to that bookkeeping.                                              *)
(***************************************************************************)
EXTENDS MergingSearcher, TLAPS

\* Where a state can be: the sets are disjoint and hold what was created.
Places ==
    /\ states \cap addedStates = {}
    /\ (deletedStates \cup freed) \cap (states \cup addedStates) = {}
    /\ suspended \cap (states \cup addedStates \cup deletedStates \cup freed) = {}
    /\ states \cup addedStates \cup deletedStates \cup freed \cup suspended \subseteq created
    /\ created \subseteq states \cup addedStates \cup deletedStates \cup freed
                        \cup suspended \cup (IF pc = "stopped" THEN {current} ELSE {})
    /\ current \in created /\ current \notin freed /\ current \notin addedStates

\* What the flags say about a state's place.
Flags ==
    /\ removedStates \subseteq states
    /\ states \cap zombie \subseteq removedStates
    /\ addedStates \cap zombie = {}
    /\ zombie \subseteq created /\ speculative \subseteq created
    /\ current \notin speculative
    /\ suspended # {} => Succeeds

\* The running state is searched unless it was ended or suspended, and in the
\* CPU loop only its own termination is pending.
Loop ==
    /\ pc = "run" => /\ current \in states \cup zombie \cup suspended
                     /\ removedStates # {} => current \in zombie
    /\ pc = "select" => addedStates = {}
    /\ pc = "stopped" => states = {} /\ addedStates = {}

\* The inductive invariant.
IInv == TypeOK /\ Places /\ Flags /\ Loop

\* The guest does nothing more once it has reported success.
QuietSuccess == Succeeds => IdleGuest

\* The initial state, alone and running, satisfies the invariant.
LEMMA InitInv == Init => IInv
BY StateAssumption DEF Init, IInv, TypeOK, Places, Flags, Loop

\* Every step of the running state, the timer and the selection keeps the
\* states in their places.
LEMMA NextInv == ASSUME QuietSuccess, IInv, [Next]_vars PROVE IInv'
<1> USE DEF IInv
<1>1. ASSUME NEW s \in State, fork(s) PROVE IInv'
  <2> USE <1>1 DEF fork, branch, Executing, Runnable
  <2>1. TypeOK'  BY DEF TypeOK
  <2>2. Places'  BY DEF TypeOK, Places, Flags
  <2>3. Flags'  BY DEF TypeOK, Places, Flags
  <2>4. Loop'  BY DEF TypeOK, Places, Flags, Loop
  <2> QED  BY <2>1, <2>2, <2>3, <2>4
<1>2. ASSUME NEW s \in State, forkTooDeep(s) PROVE IInv'
  <2> USE <1>2 DEF forkTooDeep, branch, Executing, Runnable
  <2>0. current \in states
    BY DEF QuietSuccess, Loop, Flags
  <2>1. TypeOK'  BY DEF TypeOK
  <2>2. Places'  BY DEF TypeOK, Places, Flags
  <2>3. Flags'  BY <2>0 DEF TypeOK, Places, Flags
  <2>4. Loop'  BY DEF TypeOK, Places, Flags, Loop
  <2> QED  BY <2>1, <2>2, <2>3, <2>4
<1>3. ASSUME terminateState PROVE IInv'
  <2> USE <1>3 DEF terminateState, Executing, Runnable
  <2>0. current \in states
    BY DEF QuietSuccess, Loop, Flags
  <2>1. TypeOK'  BY DEF TypeOK
  <2>2. Places'  BY DEF TypeOK, Places, Flags
  <2>3. Flags'  BY <2>0 DEF TypeOK, Places, Flags
  <2>4. Loop'  BY DEF TypeOK, Places, Flags, Loop
  <2> QED  BY <2>1, <2>2, <2>3, <2>4
<1>4. ASSUME yieldState PROVE IInv'
  BY <1>4 DEF yieldState, Executing, TypeOK, Places, Flags, Loop
<1>5. ASSUME succeedState PROVE IInv'
  <2> USE <1>5 DEF succeedState, Executing, Runnable
  <2>1. TypeOK'  BY DEF TypeOK
  <2>2. Places'  BY DEF TypeOK, Places, Flags
  <2>3. Flags'  BY DEF TypeOK, Places, Flags
  <2>4. Loop'  BY DEF TypeOK, Places, Flags, Loop
  <2> QED  BY <2>1, <2>2, <2>3, <2>4
<1>6. ASSUME updateStates PROVE IInv'
  <2> USE <1>6 DEF updateStates
  <2>1. TypeOK'  BY DEF TypeOK
  <2>2. Places'  BY DEF TypeOK, Places, Flags
  <2>3. Flags'  BY DEF TypeOK, Places, Flags
  <2>4. Loop'  BY DEF TypeOK, Places, Flags, Loop
  <2> QED  BY <2>1, <2>2, <2>3, <2>4
<1>7. ASSUME stateSwitchTimerCallback PROVE IInv'
  <2> USE <1>7 DEF stateSwitchTimerCallback, UpToDate
  <2>0. removedStates' \subseteq states
    BY DEF Halves, Flags
  <2>1. TypeOK'  BY <2>0 DEF TypeOK
  <2>2. Places'  BY DEF TypeOK, Places, Flags
  <2>3. Flags'  BY <2>0 DEF TypeOK, Places, Flags
  <2>4. Loop'  BY DEF TypeOK, Places, Flags, Loop
  <2> QED  BY <2>1, <2>2, <2>3, <2>4
<1>8. ASSUME NEW s \in states, selectNextState(s) PROVE IInv'
  <2> USE <1>8 DEF selectNextState, switchTo, UpToDate
  <2>1. TypeOK'  BY DEF TypeOK
  <2>2. Places'  BY DEF TypeOK, Places, Flags
  <2>3. Flags'  BY DEF TypeOK, Places, Flags
  <2>4. Loop'  BY DEF TypeOK, Places, Flags, Loop
  <2> QED  BY <2>1, <2>2, <2>3, <2>4
<1>9. ASSUME NEW s \in states, terminateSpeculative(s) PROVE IInv'
  <2> USE <1>9 DEF terminateSpeculative, UpToDate
  <2>1. TypeOK'  BY DEF TypeOK
  <2>2. Places'  BY DEF TypeOK, Places, Flags
  <2>3. Flags'  BY DEF TypeOK, Places, Flags
  <2>4. Loop'  BY DEF TypeOK, Places, Flags, Loop
  <2> QED  BY <2>1, <2>2, <2>3, <2>4
<1>10. ASSUME states = {}, allTerminated PROVE IInv'
  <2> USE <1>10 DEF allTerminated, UpToDate
  <2>1. TypeOK'  BY DEF TypeOK
  <2>2. Places'  BY DEF TypeOK, Places, Flags
  <2>3. Flags'  BY DEF TypeOK, Places, Flags
  <2>4. Loop'  BY DEF TypeOK, Places, Flags, Loop
  <2> QED  BY <2>1, <2>2, <2>3, <2>4
<1>11. ASSUME UNCHANGED vars PROVE IInv'
  BY <1>11 DEF vars, TypeOK, Places, Flags, Loop
<1> QED
  BY <1>1, <1>2, <1>3, <1>4, <1>5, <1>6, <1>7, <1>8, <1>9, <1>10, <1>11
     DEF Next, Execute, stopped

\* In every run of the main loop whose guest is quiet after a success, the
\* invariant holds throughout.
THEOREM Invariant == ASSUME QuietSuccess PROVE Spec => []IInv
<1>1. Init => IInv  BY InitInv
<1>2. IInv /\ [Next]_vars => IInv'  BY NextInv
<1> QED  BY <1>1, <1>2, PTL DEF Spec

\* updateStates() finds every state it is asked to remove, no deleted state
\* can be selected, run or freed twice, the CPU loop only executes feasible
\* states that are searched, and S2E stops only when every state ever forked
\* was ended or suspended.
THEOREM Bookkeeping ==
    ASSUME QuietSuccess
    PROVE  Spec => [](/\ TypeOK /\ RemovedAreStates /\ DeletedUnreachable
                      /\ ExecutingIsSearched /\ CurrentFeasible /\ NoneLost)
<1>1. ASSUME IInv
      PROVE  /\ TypeOK /\ RemovedAreStates /\ DeletedUnreachable
             /\ ExecutingIsSearched /\ CurrentFeasible /\ NoneLost
  <2> USE <1>1 DEF IInv
  <2>1. TypeOK /\ RemovedAreStates /\ DeletedUnreachable /\ CurrentFeasible
    BY DEF Places, Flags, RemovedAreStates, DeletedUnreachable, CurrentFeasible
  <2>2. ExecutingIsSearched
    BY DEF QuietSuccess, Flags, Loop, ExecutingIsSearched, Executing, Runnable
  <2>3. NoneLost
    BY DEF TypeOK, Places, Loop, NoneLost
  <2> QED  BY <2>1, <2>2, <2>3
<1> QED  BY <1>1, Invariant, PTL

\* No state that was terminated can be selected again, and the running state is
\* never freed: selectNextState()'s assertion s != newState holds.
THEOREM DeletedUnreachableAlways ==
    ASSUME QuietSuccess PROVE Spec => []DeletedUnreachable
BY Bookkeeping, PTL

-----------------------------------------------------------------------------
\* Only the running state is active, among those that are not gone.
LoadedState ==
    DepthUnlimited =>
        /\ active \subseteq created
        /\ current \in active
        /\ (states \cup addedStates) \cap active \subseteq {current}

\* fork() and doStateSwitch() keep the active flag with the running state.
LEMMA NextLoaded ==
    ASSUME IInv, LoadedState, [Next]_vars PROVE LoadedState'
<1> USE DEF LoadedState, DepthUnlimited
<1>1. ASSUME NEW s \in State, fork(s) PROVE LoadedState'
  BY <1>1 DEF fork, branch, IInv, TypeOK, Places
<1>2. ASSUME NEW s \in State, forkTooDeep(s) PROVE LoadedState'
  BY <1>2 DEF forkTooDeep, DepthExceeded
<1>3. CASE terminateState \/ yieldState \/ succeedState
  BY <1>3 DEF terminateState, yieldState, succeedState
<1>4. CASE updateStates  BY <1>4 DEF updateStates
<1>5. CASE stateSwitchTimerCallback  BY <1>5 DEF stateSwitchTimerCallback
<1>6. ASSUME NEW s \in states, selectNextState(s) PROVE LoadedState'
  BY <1>6 DEF selectNextState, switchTo, UpToDate, IInv, Places
<1>7. ASSUME NEW s \in states, terminateSpeculative(s) PROVE LoadedState'
  BY <1>7 DEF terminateSpeculative
<1>8. CASE allTerminated  BY <1>8 DEF allTerminated
<1>9. CASE UNCHANGED vars  BY <1>9 DEF vars
<1> QED
  BY <1>1, <1>2, <1>3, <1>4, <1>5, <1>6, <1>7, <1>8, <1>9 DEF Next, Execute, stopped

\* Where the depth limit does not apply, the assertions of doStateSwitch() hold: the state
\* that is switched out is active, the one that is switched in is not.
THEOREM SwitchAssertions ==
    ASSUME QuietSuccess PROVE Spec => []ActiveIsCurrent
<1>1. Init => LoadedState  BY DEF Init, LoadedState
<1>2. IInv /\ LoadedState /\ [Next]_vars => LoadedState'  BY NextLoaded
<1>3. LoadedState => ActiveIsCurrent  BY DEF LoadedState, ActiveIsCurrent
<1> QED  BY <1>1, <1>2, <1>3, Invariant, PTL DEF Spec

-----------------------------------------------------------------------------
(* MergingSearcher.                                                        *)

\* Groups are numbered in the order in which they are started.
GroupsStarted ==
    /\ \A s \in State : groupId[s] < nextGroup
    /\ \A g \in DOMAIN mergePools : g < nextGroup

\* A searched state is active or waits, yielded and not terminated, in a pool.
WaitingApart ==
    /\ activeStates \cup Waiting = states /\ activeStates \cap Waiting = {}
    /\ removedStates \cap Waiting = {} /\ Waiting \subseteq yielded
    /\ currentState \in activeStates \cup {NoState}

\* A pool holds the active states of its group that are not terminated; there
\* is one for each of those; and who waits in it waits for somebody.
PoolsHold ==
    /\ \A g \in DOMAIN mergePools :
          /\ mergePools[g].states = {s \in activeStates \ removedStates : groupId[s] = g}
          /\ mergePools[g].firstState # NoState =>
                groupId[mergePools[g].firstState] = g /\ mergePools[g].states # {}
    /\ \A s \in activeStates \ removedStates :
          groupId[s] # 0 => groupId[s] \in DOMAIN mergePools

MergeInv == MergeTypeOK /\ GroupsStarted /\ WaitingApart /\ PoolsHold

\* Who waits.
LEMMA WaitingMember ==
    \A s : s \in Waiting <=> s # NoState /\ \E g \in DOMAIN mergePools : mergePools[g].firstState = s
BY DEF Waiting

\* A step that leaves the pools alone, and terminates only states that are in
\* no group.
LEMMA KeepPools ==
    ASSUME MergeInv, UNCHANGED <<mergePools, activeStates, nextGroup>>, states' = states,
           currentState' \in activeStates \cup {NoState},
           groupId' \in [State -> 0..MaxGroups], \A s \in State : groupId'[s] < nextGroup,
           \A s \in states : groupId'[s] = groupId[s],
           removedStates' \cap Waiting = {}, Waiting \subseteq yielded',
           \A s \in activeStates : (s \in removedStates' <=> s \in removedStates) \/ groupId[s] = 0
    PROVE  MergeInv'
<1>1. Waiting' = Waiting  BY DEF Waiting
<1>2. activeStates \subseteq states /\ Waiting \subseteq states  BY DEF MergeInv, WaitingApart
<1>3. MergeTypeOK'  BY <1>2 DEF MergeInv, MergeTypeOK
<1>4. GroupsStarted'  BY DEF MergeInv, GroupsStarted
<1>5. WaitingApart'  BY <1>1 DEF MergeInv, WaitingApart
<1>6. \A g \in DOMAIN mergePools : g # 0
  BY MergeAssumption DEF MergeInv, MergeTypeOK, Group
<1>7. ASSUME NEW g \in DOMAIN mergePools
      PROVE  {s \in activeStates \ removedStates' : groupId'[s] = g}
               = {s \in activeStates \ removedStates : groupId[s] = g}
  BY <1>2, <1>6
<1>8. ASSUME NEW g \in DOMAIN mergePools, mergePools[g].firstState # NoState
      PROVE  groupId'[mergePools[g].firstState] = groupId[mergePools[g].firstState]
  <2>1. mergePools[g].firstState \in Waiting  BY <1>8, WaitingMember
  <2> QED  BY <1>2, <2>1
<1>9. PoolsHold'
  <2>1. ASSUME NEW s \in activeStates \ removedStates', groupId'[s] # 0
        PROVE  groupId'[s] \in DOMAIN mergePools
    BY <1>2, <2>1 DEF MergeInv, PoolsHold
  <2> QED  BY <1>7, <1>8, <2>1 DEF MergeInv, PoolsHold
<1> QED  BY <1>3, <1>4, <1>5, <1>9 DEF MergeInv

\* update(): the terminated states of a group have left its pool already.
LEMMA MergeUpdate ==
    ASSUME MergeInv, NEW added \in SUBSET State, NEW removed \in SUBSET State,
           MergingSearcher_update(added, removed), states' = (states \cup added) \ removed,
           removedStates \subseteq removed, removedStates' = {}, yielded' = yielded,
           removed \subseteq activeStates, added \cap states = {},
           \A s \in removed \ removedStates : groupId[s] = 0
    PROVE  MergeInv'
<1> DEFINE D == DOMAIN mergePools \cup ({groupId[s] : s \in added \cup removed} \ {0})
<1>0. /\ groupId \in [State -> 0..MaxGroups] /\ DOMAIN mergePools \subseteq Group
      /\ \A g \in DOMAIN mergePools : mergePools[g] \in Pool
      /\ activeStates \subseteq State /\ activeStates \subseteq states
      /\ nextGroup \in 1..MaxGroups + 1
  BY DEF MergeInv, MergeTypeOK, WaitingApart
<1>1. /\ mergePools' = PoolsAfter(added, removed)
      /\ activeStates' = (activeStates \cup added) \ removed
      /\ currentState' = IF currentState \in removed THEN NoState ELSE currentState
      /\ nextGroup' = nextGroup /\ groupId' = groupId
  BY DEF MergingSearcher_update
<1>2. \A g : PoolAt(g) = IF g \in DOMAIN mergePools THEN mergePools[g] ELSE EmptyPool
  BY DEF PoolAt
<1>3. EmptyPool \in Pool /\ EmptyPool.firstState = NoState /\ EmptyPool.states = {}
  BY DEF EmptyPool, Pool
<1>4. ASSUME NEW g PROVE PoolAt(g) \in Pool  BY <1>0, <1>2, <1>3
<1>5. DOMAIN mergePools' = D  BY <1>1 DEF PoolsAfter
<1>6. ASSUME NEW g \in D
      PROVE  /\ mergePools'[g] \in Pool
             /\ mergePools'[g].firstState = PoolAt(g).firstState
             /\ mergePools'[g].states
                  = (PoolAt(g).states \cup {s \in added : groupId[s] = g}) \ removed
  <2>1. mergePools'[g] = [PoolAt(g) EXCEPT !.states = (@ \cup {s \in added : groupId[s] = g}) \ removed]
    BY <1>1 DEF PoolsAfter
  <2> QED  BY <1>4, <2>1 DEF Pool
<1>7. D \subseteq Group
  BY <1>0, MergeAssumption DEF Group
<1>8. Waiting' = Waiting
  <2>1. ASSUME NEW s, s \in Waiting PROVE s \in Waiting'
    <3>1. PICK g \in DOMAIN mergePools : mergePools[g].firstState = s /\ s # NoState
      BY <2>1, WaitingMember
    <3>2. g \in D /\ mergePools'[g].firstState = s  BY <1>2, <1>6, <3>1
    <3> QED  BY <1>5, <3>1, <3>2 DEF Waiting
  <2>2. ASSUME NEW s, s \in Waiting' PROVE s \in Waiting
    <3>1. PICK g \in D : mergePools'[g].firstState = s /\ s # NoState
      BY <1>5, <2>2 DEF Waiting
    <3>2. PoolAt(g).firstState = s  BY <1>6, <3>1
    <3>3. g \in DOMAIN mergePools /\ mergePools[g].firstState = s
      BY <1>2, <1>3, <3>1, <3>2
    <3> QED  BY <3>1, <3>3 DEF Waiting
  <2> QED  BY Zenon, <2>1, <2>2
<1>9. MergeTypeOK'
  BY <1>0, <1>1, <1>5, <1>6, <1>7 DEF MergeInv, MergeTypeOK
<1>10. GroupsStarted'
  <2>1. \A g \in D : g < nextGroup  BY <1>0 DEF MergeInv, GroupsStarted
  <2> QED  BY <1>1, <1>5, <2>1 DEF MergeInv, GroupsStarted
<1>11. WaitingApart'
  BY <1>1, <1>8 DEF MergeInv, WaitingApart
<1>12. ASSUME NEW g \in D
       PROVE  PoolAt(g).states = {s \in activeStates \ removedStates : groupId[s] = g}
  <2>1. CASE g \in DOMAIN mergePools  BY <1>2, <2>1 DEF MergeInv, PoolsHold
  <2>2. CASE g \notin DOMAIN mergePools
    <3>1. g # 0  BY <1>7, MergeAssumption DEF Group
    <3> QED  BY <1>2, <1>3, <2>2, <3>1 DEF MergeInv, PoolsHold
  <2> QED  BY <2>1, <2>2
<1>13. ASSUME NEW g \in D
       PROVE  /\ mergePools'[g].states = {s \in activeStates' \ removedStates' : groupId'[s] = g}
              /\ PoolAt(g).states \subseteq mergePools'[g].states
  <2>1. g # 0  BY <1>7, MergeAssumption DEF Group
  <2> QED  BY <1>0, <1>1, <1>6, <1>12, <2>1
<1>14. ASSUME NEW g \in D, mergePools'[g].firstState # NoState
       PROVE  groupId'[mergePools'[g].firstState] = g /\ mergePools'[g].states # {}
  <2>1. PoolAt(g).firstState # NoState  BY <1>6, <1>14
  <2>2. g \in DOMAIN mergePools /\ PoolAt(g) = mergePools[g]  BY <1>2, <1>3, <2>1
  <2>3. groupId[mergePools[g].firstState] = g /\ mergePools[g].states # {}
    BY <2>1, <2>2 DEF MergeInv, PoolsHold
  <2> QED  BY <1>1, <1>6, <1>13, <2>2, <2>3
<1>15. ASSUME NEW s \in activeStates' \ removedStates', groupId'[s] # 0 PROVE groupId'[s] \in D
  BY <1>1, <1>15 DEF MergeInv, PoolsHold
<1>16. PoolsHold'
  <2> HIDE DEF D
  <2> QED  BY <1>5, <1>13, <1>14, <1>15 DEF PoolsHold
<1> QED  BY <1>9, <1>10, <1>11, <1>16 DEF MergeInv

\* The running state, when it executes, is active.
LEMMA ExecutingActive ==
    ASSUME QuietSuccess, IInv, MergeInv, Executing
    PROVE  current \in State /\ current \in activeStates /\ current \notin Waiting
<1>1. current \in states /\ current \in State
  BY DEF QuietSuccess, IInv, TypeOK, Flags, Loop, Executing, Runnable
<1>2. current \notin yielded  BY DEF Executing, Runnable
<1> QED  BY <1>1, <1>2 DEF MergeInv, WaitingApart

\* mergeStart(): the new group is that of nobody else.
LEMMA MergeStartInv ==
    ASSUME QuietSuccess, IInv, MergeInv, mergeStart PROVE MergeInv'
<1>0. current \in State /\ current \in activeStates /\ current \notin Waiting
  BY ExecutingActive DEF mergeStart
<1>1. /\ UNCHANGED <<activeStates, currentState>> /\ states' = states
      /\ removedStates' = {} /\ removedStates = {} /\ yielded' = yielded
      /\ nextGroup' = nextGroup + 1 /\ nextGroup <= MaxGroups
      /\ groupId' = [groupId EXCEPT ![current] = nextGroup] /\ groupId[current] = 0
  BY DEF mergeStart, vars, UpToDate, InGroup
<1>2. /\ groupId \in [State -> 0..MaxGroups] /\ DOMAIN mergePools \subseteq Group
      /\ \A g \in DOMAIN mergePools : mergePools[g] \in Pool /\ g < nextGroup
      /\ activeStates \subseteq State /\ nextGroup \in 1..MaxGroups + 1 /\ MaxGroups \in Nat
      /\ \A s \in State : groupId[s] < nextGroup
  BY MergeAssumption DEF MergeInv, MergeTypeOK, GroupsStarted
<1>3. nextGroup \notin DOMAIN mergePools /\ nextGroup \in Group /\ nextGroup # 0 /\ nextGroup \in Nat
  BY <1>1, <1>2 DEF Group
<1>4. [EmptyPool EXCEPT !.states = {current}] = [firstState |-> NoState, states |-> {current}]
  BY DEF EmptyPool
<1>5. /\ DOMAIN mergePools' = DOMAIN mergePools \cup {nextGroup}
      /\ mergePools'[nextGroup] = [firstState |-> NoState, states |-> {current}]
      /\ \A g \in DOMAIN mergePools : mergePools'[g] = mergePools[g]
  BY <1>3, <1>4 DEF mergeStart
<1>6. Waiting' = Waiting
  <2>1. ASSUME NEW s, s # NoState
        PROVE  (\E g \in DOMAIN mergePools' : mergePools'[g].firstState = s)
                 <=> \E g \in DOMAIN mergePools : mergePools[g].firstState = s
    BY <1>5, <2>1
  <2> QED  BY <2>1 DEF Waiting
<1>7. MergeTypeOK'
  <2>1. [firstState |-> NoState, states |-> {current}] \in Pool  BY <1>0 DEF Pool
  <2>2. groupId' \in [State -> 0..MaxGroups]  BY <1>0, <1>1, <1>2
  <2>3. nextGroup' \in 1..MaxGroups + 1  BY <1>1, <1>2
  <2>4. DOMAIN mergePools' \subseteq Group /\ \A g \in DOMAIN mergePools' : mergePools'[g] \in Pool
    BY <1>2, <1>3, <1>5, <2>1
  <2> QED  BY <1>1, <2>2, <2>3, <2>4 DEF MergeInv, MergeTypeOK
<1>8. GroupsStarted'
  <2>1. \A s \in State : groupId'[s] < nextGroup'  BY <1>0, <1>1, <1>2
  <2>2. \A g \in DOMAIN mergePools' : g < nextGroup'  BY <1>1, <1>2, <1>5 DEF Group
  <2> QED  BY <2>1, <2>2 DEF GroupsStarted
<1>9. WaitingApart'  BY <1>1, <1>6 DEF MergeInv, WaitingApart
<1>10. \A s \in State : groupId'[s] = IF s = current THEN nextGroup ELSE groupId[s]
  BY <1>0, <1>1, <1>2
<1>11. ASSUME NEW g \in DOMAIN mergePools
       PROVE  /\ mergePools'[g].states = {s \in activeStates' \ removedStates' : groupId'[s] = g}
              /\ mergePools'[g].firstState # NoState =>
                    groupId'[mergePools'[g].firstState] = g /\ mergePools'[g].states # {}
  <2>1. g # 0 /\ g # nextGroup  BY <1>2, <1>3 DEF Group
  <2>2. mergePools[g].states = {s \in activeStates \ removedStates : groupId[s] = g}
    BY DEF MergeInv, PoolsHold
  <2>3. {s \in activeStates' \ removedStates' : groupId'[s] = g}
          = {s \in activeStates \ removedStates : groupId[s] = g}
    BY <1>1, <1>2, <1>10, <2>1
  <2>4. ASSUME mergePools[g].firstState # NoState
        PROVE  groupId'[mergePools[g].firstState] = g /\ mergePools[g].states # {}
    <3>1. mergePools[g].firstState \in Waiting  BY <2>4, WaitingMember
    <3>2. mergePools[g].firstState \in State  BY <1>2, <2>4 DEF Pool
    <3> QED  BY <1>0, <1>10, <2>4, <3>1, <3>2 DEF MergeInv, PoolsHold
  <2> QED  BY <1>5, <2>2, <2>3, <2>4
<1>12. {current} = {s \in activeStates' \ removedStates' : groupId'[s] = nextGroup}
  <2>1. \A s \in State : groupId[s] # nextGroup  BY <1>2
  <2> QED  BY <1>0, <1>1, <1>2, <1>10, <2>1
<1>13. PoolsHold'
  <2>1. \A s \in activeStates' \ removedStates' :
          groupId'[s] # 0 => groupId'[s] \in DOMAIN mergePools'
    BY <1>1, <1>2, <1>5, <1>10 DEF MergeInv, PoolsHold
  <2> QED  BY <1>5, <1>11, <1>12, <2>1 DEF PoolsHold
<1> QED  BY <1>7, <1>8, <1>9, <1>13 DEF MergeInv

\* The last state of a group makes mergeEnd() drop the group's pool and resume the
\* state that waits in it, if one does.
LEMMA PoolGone ==
    ASSUME MergeInv, NEW g \in DOMAIN mergePools, NEW done,
           done = {mergePools[g].firstState} \ {NoState},
           mergePools' = Without(g), activeStates' = activeStates \cup done,
           states' = states, yielded' = yielded, currentState' = currentState,
           nextGroup' = nextGroup,
           removedStates \subseteq removedStates', removedStates' \cap Waiting = {},
           groupId' \in [State -> 0..MaxGroups],
           \A s \in State : groupId'[s] = groupId[s] \/ groupId'[s] = 0,
           \A s \in State : groupId[s] # g => groupId'[s] = groupId[s],
           \A s \in activeStates' \ removedStates' : groupId'[s] # g,
           \A s \in activeStates : s \in removedStates' \ removedStates => groupId[s] = g
    PROVE  MergeInv'
<1>1. /\ groupId \in [State -> 0..MaxGroups] /\ DOMAIN mergePools \subseteq Group
      /\ \A h \in DOMAIN mergePools : mergePools[h] \in Pool
      /\ activeStates \subseteq State
  BY DEF MergeInv, MergeTypeOK
<1>2. /\ DOMAIN mergePools' = DOMAIN mergePools \ {g}
      /\ \A h \in DOMAIN mergePools \ {g} : mergePools'[h] = mergePools[h]
  BY DEF Without
<1>3. \A h \in DOMAIN mergePools : mergePools[h].firstState # NoState
        => mergePools[h].firstState \in State /\ groupId[mergePools[h].firstState] = h
  BY <1>1 DEF MergeInv, PoolsHold, Pool
<1>4. Waiting' = Waiting \ done
  <2>1. \A s : s \in Waiting' <=> s # NoState /\ \E h \in DOMAIN mergePools \ {g} : mergePools[h].firstState = s
    BY <1>2 DEF Waiting
  <2> QED  BY <1>3, <2>1, WaitingMember
<1>5. done \subseteq Waiting /\ done \subseteq State
  BY <1>3, WaitingMember
<1>6. MergeTypeOK'
  BY <1>1, <1>2, <1>5 DEF MergeInv, MergeTypeOK
<1>7. GroupsStarted'
  BY <1>1, <1>2 DEF MergeInv, GroupsStarted, MergeTypeOK
<1>8. WaitingApart'
  BY <1>4, <1>5 DEF MergeInv, WaitingApart
<1>9. ASSUME NEW h \in DOMAIN mergePools \ {g}
      PROVE  /\ mergePools[h].states = {s \in activeStates' \ removedStates' : groupId'[s] = h}
             /\ mergePools[h].firstState # NoState =>
                   groupId'[mergePools[h].firstState] = h /\ mergePools[h].states # {}
  <2>1. h # 0 /\ h # g  BY <1>1 DEF Group
  <2>2. mergePools[h].states = {s \in activeStates \ removedStates : groupId[s] = h}
    BY DEF MergeInv, PoolsHold
  <2>3. \A s \in done : groupId[s] = g  BY <1>3
  <2>4. \A s \in State : groupId'[s] = h <=> groupId[s] = h  BY <2>1
  <2>5. {s \in activeStates' \ removedStates' : groupId'[s] = h}
          = {s \in activeStates \ removedStates : groupId[s] = h}
    BY <1>1, <1>5, <2>1, <2>3, <2>4
  <2> QED  BY <1>3, <2>2, <2>4, <2>5 DEF MergeInv, PoolsHold
<1>10. ASSUME NEW s \in activeStates' \ removedStates', groupId'[s] # 0
       PROVE  groupId'[s] \in DOMAIN mergePools \ {g}
  <2>1. s \in State /\ groupId'[s] = groupId[s] /\ groupId'[s] # g  BY <1>1, <1>5, <1>10
  <2>2. s \notin done  BY <1>3, <2>1
  <2> QED  BY <1>10, <2>1, <2>2 DEF MergeInv, PoolsHold
<1>11. PoolsHold'  BY <1>2, <1>9, <1>10 DEF PoolsHold
<1> QED  BY <1>6, <1>7, <1>8, <1>11 DEF MergeInv

\* mergeEnd() takes the running state out of the pool of its group, in which f
\* waits from then on: it is f itself, terminated, or out of the group.
LEMMA PoolShrinks ==
    ASSUME MergeInv, NEW g \in DOMAIN mergePools, NEW f \in State,
           mergePools' = [mergePools EXCEPT ![g] = [firstState |-> f, states |-> Others(g)]],
           Others(g) # {}, current \in State, current \in activeStates, groupId[current] = g,
           activeStates' \in {activeStates, activeStates \ {current}},
           removedStates = {}, removedStates' \subseteq {current},
           nextGroup' = nextGroup, currentState' \in State \cup {NoState},
           groupId' \in [State -> 0..MaxGroups], groupId'[f] = g, groupId'[current] \in {0, g},
           \A s \in State \ {current} : groupId'[s] = groupId[s],
           current \notin activeStates' \ removedStates' \/ groupId'[current] = 0,
           \A h \in DOMAIN mergePools \ {g} : mergePools[h].firstState # current
    PROVE  MergeTypeOK' /\ GroupsStarted' /\ PoolsHold'
<1>1. /\ groupId \in [State -> 0..MaxGroups] /\ DOMAIN mergePools \subseteq Group
      /\ \A h \in DOMAIN mergePools : mergePools[h] \in Pool
      /\ activeStates \subseteq State /\ nextGroup \in 1..MaxGroups + 1
  BY DEF MergeInv, MergeTypeOK
<1>2. /\ DOMAIN mergePools' = DOMAIN mergePools
      /\ mergePools'[g].firstState = f /\ mergePools'[g].states = Others(g)
      /\ \A h \in DOMAIN mergePools \ {g} : mergePools'[h] = mergePools[h]
  OBVIOUS
<1>3. Others(g) = {s \in activeStates : groupId[s] = g /\ s # current}
  BY DEF Others, MergeInv, PoolsHold
<1>4. mergePools'[g] \in Pool
  <2>1. Others(g) \subseteq State  BY <1>1, <1>3
  <2> QED  BY <2>1 DEF Pool
<1>5. MergeTypeOK'
  BY <1>1, <1>2, <1>4 DEF MergeInv, MergeTypeOK
<1>6. GroupsStarted'
  <2>1. g < nextGroup /\ 0 < nextGroup  BY <1>1, MergeAssumption DEF MergeInv, GroupsStarted
  <2>2. ASSUME NEW s \in State PROVE groupId'[s] < nextGroup'
    <3>1. CASE s = current  BY <2>1, <3>1
    <3>2. CASE s # current  BY <3>2 DEF MergeInv, GroupsStarted
    <3> QED  BY <3>1, <3>2
  <2>3. \A h \in DOMAIN mergePools' : h < nextGroup'  BY <1>2 DEF MergeInv, GroupsStarted
  <2> QED  BY <2>2, <2>3 DEF GroupsStarted
<1>7. g # 0  BY <1>1 DEF Group
<1>8. Others(g) = {s \in activeStates' \ removedStates' : groupId'[s] = g}
  BY <1>1, <1>3, <1>7
<1>9. ASSUME NEW h \in DOMAIN mergePools \ {g}
      PROVE  /\ mergePools[h].states = {s \in activeStates' \ removedStates' : groupId'[s] = h}
             /\ mergePools[h].firstState # NoState =>
                   groupId'[mergePools[h].firstState] = h /\ mergePools[h].states # {}
  <2>1. h # 0 /\ h # g  BY <1>1 DEF Group
  <2>2. mergePools[h].states = {s \in activeStates \ removedStates : groupId[s] = h}
    BY DEF MergeInv, PoolsHold
  <2>3. {s \in activeStates' \ removedStates' : groupId'[s] = h}
          = {s \in activeStates \ removedStates : groupId[s] = h}
    BY <1>1, <2>1
  <2>4. ASSUME mergePools[h].firstState # NoState
        PROVE  groupId'[mergePools[h].firstState] = h /\ mergePools[h].states # {}
    <3>1. mergePools[h].firstState \in State \ {current}  BY <1>1, <2>4 DEF Pool
    <3> QED  BY <2>4, <3>1 DEF MergeInv, PoolsHold
  <2> QED  BY <2>2, <2>3, <2>4
<1>10. ASSUME NEW s \in activeStates' \ removedStates', groupId'[s] # 0
       PROVE  groupId'[s] \in DOMAIN mergePools'
  BY <1>1, <1>2, <1>10 DEF MergeInv, PoolsHold
<1>11. PoolsHold'  BY <1>2, <1>8, <1>9, <1>10 DEF PoolsHold
<1> QED  BY <1>5, <1>6, <1>11

\* mergeEnd() of the first state of a group, which waits from then on.
LEMMA MergeFirstInv ==
    ASSUME QuietSuccess, IInv, MergeInv, NEW g \in Group, mergeFirst(g) PROVE MergeInv'
<1>0. current \in State /\ current \in activeStates /\ current \notin Waiting
  BY ExecutingActive DEF mergeFirst, AtEnd
<1>1. /\ g \in DOMAIN mergePools /\ groupId[current] = g /\ Others(g) # {}
      /\ mergePools[g].firstState = NoState
      /\ mergePools' = [mergePools EXCEPT ![g] = [firstState |-> current, states |-> Others(g)]]
      /\ activeStates' = activeStates \ {current} /\ removedStates = {} /\ removedStates' = {}
      /\ yielded' = yielded \cup {current} /\ states' = states
      /\ currentState' = IF currentState = current THEN NoState ELSE currentState
      /\ nextGroup' = nextGroup /\ groupId' = groupId
  BY DEF mergeFirst, AtEnd, UpToDate, yieldState
<1>2. \A h \in DOMAIN mergePools : mergePools[h].firstState # current
  BY <1>0, NoStateAssumption, WaitingMember
<1>3. groupId \in [State -> 0..MaxGroups] /\ currentState \in State \cup {NoState}
  BY DEF MergeInv, MergeTypeOK
<1>4. MergeTypeOK' /\ GroupsStarted' /\ PoolsHold'
  BY Zenon, <1>0, <1>1, <1>2, <1>3, PoolShrinks
<1>5. Waiting' = Waiting \cup {current}
  <2>1. /\ DOMAIN mergePools' = DOMAIN mergePools /\ mergePools'[g].firstState = current
        /\ \A h \in DOMAIN mergePools \ {g} : mergePools'[h] = mergePools[h]
    BY <1>1
  <2>2. current # NoState  BY <1>0, NoStateAssumption
  <2>3. \A s : s \in Waiting' <=> s # NoState /\ \E h \in DOMAIN mergePools' : mergePools'[h].firstState = s
    BY DEF Waiting
  <2> QED  BY <1>1, <2>1, <2>2, <2>3, WaitingMember
<1>6. WaitingApart'
  BY <1>0, <1>1, <1>5 DEF MergeInv, WaitingApart
<1> QED  BY <1>4, <1>6 DEF MergeInv

\* mergeEnd() of a later state.
LEMMA MergeNextInv ==
    ASSUME QuietSuccess, IInv, MergeInv, NEW g \in Group, mergeNext(g) PROVE MergeInv'
<1>0. current \in State /\ current \in activeStates /\ current \notin Waiting
  BY ExecutingActive DEF mergeNext, AtEnd
<1> DEFINE f == mergePools[g].firstState
           done == IF Others(g) = {} THEN {f} ELSE {}
<1>1. /\ g \in DOMAIN mergePools /\ groupId[current] = g /\ f # NoState /\ removedStates = {}
      /\ nextGroup' = nextGroup /\ currentState' = currentState
  BY DEF mergeNext, AtEnd, UpToDate
<1>2. PICK failed \in {{}, {current}} :
        /\ IF failed = {} THEN terminateState ELSE UNCHANGED vars
        /\ groupId' = [s \in State |-> IF s \in done \cup failed THEN 0 ELSE groupId[s]]
        /\ activeStates' = activeStates \cup done
        /\ mergePools' = IF done = {} THEN [mergePools EXCEPT ![g].states = Others(g)]
                         ELSE Without(g)
  BY DEF mergeNext
<1>3. /\ groupId \in [State -> 0..MaxGroups] /\ currentState \in State \cup {NoState}
      /\ mergePools[g] \in Pool /\ MaxGroups \in Nat /\ g # 0
  BY <1>1, MergeAssumption DEF MergeInv, MergeTypeOK, Group
<1>4. f \in Waiting /\ f \in State /\ f # current /\ groupId[f] = g
  <2>1. f \in Waiting  BY <1>1, WaitingMember
  <2>2. f \in State  BY <1>1, <1>3 DEF Pool
  <2> QED  BY <1>0, <1>1, <2>1, <2>2 DEF MergeInv, PoolsHold
<1>5. /\ removedStates' = (IF failed = {} THEN {current} ELSE {})
      /\ states' = states /\ yielded' = yielded
  BY <1>1, <1>2 DEF terminateState, vars
<1>6. groupId' \in [State -> 0..MaxGroups]  BY <1>2, <1>3
<1>7. CASE Others(g) = {}
  <2>1. done = {f} \ {NoState} /\ mergePools' = Without(g) /\ done = {f}  BY <1>1, <1>2, <1>7
  <2>2. mergePools[g].states = {s \in activeStates : groupId[s] = g}
    BY <1>1 DEF MergeInv, PoolsHold
  <2>3. \A s \in activeStates : groupId[s] = g => s = current
    BY <1>7, <2>2 DEF Others
  <2>4. \A s \in activeStates' \ removedStates' : groupId'[s] # g
    <3>1. activeStates \subseteq State  BY DEF MergeInv, MergeTypeOK
    <3> QED  BY <1>2, <1>3, <1>4, <1>5, <2>1, <2>3, <3>1
  <2>5. \A s \in State : (groupId'[s] = groupId[s] \/ groupId'[s] = 0)
                         /\ (groupId[s] # g => groupId'[s] = groupId[s])
    BY <1>1, <1>2, <1>4, <2>1
  <2>6. \A s \in activeStates : s \in removedStates' \ removedStates => groupId[s] = g
    BY <1>1, <1>5
  <2>7. removedStates \subseteq removedStates' /\ removedStates' \cap Waiting = {}
    BY <1>0, <1>1, <1>5
  <2>8. activeStates' = activeStates \cup done  BY <1>2
  <2> HIDE DEF done
  <2> QED  BY <1>1, <1>5, <1>6, <2>1, <2>4, <2>5, <2>6, <2>7, <2>8, PoolGone
<1>8. CASE Others(g) # {}
  <2>1. done = {} /\ activeStates' = activeStates  BY <1>2, <1>8
  <2>2. mergePools' = [mergePools EXCEPT ![g] = [firstState |-> f, states |-> Others(g)]]
    <3>1. [mergePools[g] EXCEPT !.states = Others(g)] = [firstState |-> f, states |-> Others(g)]
      BY <1>3 DEF Pool
    <3>2. mergePools' = [mergePools EXCEPT ![g] = [mergePools[g] EXCEPT !.states = Others(g)]]
      BY <1>2, <2>1
    <3> QED  BY Zenon, <3>1, <3>2
  <2>3. \A h \in DOMAIN mergePools : mergePools[h].firstState # current
    BY <1>0, NoStateAssumption, WaitingMember
  <2>4. /\ groupId'[f] = g /\ groupId'[current] \in {0, g}
        /\ \A s \in State \ {current} : groupId'[s] = groupId[s]
        /\ current \notin activeStates' \ removedStates' \/ groupId'[current] = 0
    BY <1>0, <1>1, <1>2, <1>4, <1>5, <2>1
  <2>5. MergeTypeOK' /\ GroupsStarted' /\ PoolsHold'
    <3>1. activeStates' \in {activeStates, activeStates \ {current}} /\ removedStates' \subseteq {current}
      BY <1>5, <2>1
    <3> HIDE DEF f
    <3> QED  BY Zenon, <1>0, <1>1, <1>3, <1>4, <1>6, <1>8, <2>2, <2>3, <2>4, <3>1, PoolShrinks
  <2>6. Waiting' = Waiting
    <3>1. /\ DOMAIN mergePools' = DOMAIN mergePools
          /\ \A h \in DOMAIN mergePools : mergePools'[h].firstState = mergePools[h].firstState
      BY <1>1, <2>2
    <3> QED  BY <3>1 DEF Waiting
  <2>7. WaitingApart'
    BY <1>0, <1>1, <1>5, <2>1, <2>6 DEF MergeInv, WaitingApart
  <2> QED  BY <2>5, <2>7 DEF MergeInv
<1> QED  BY <1>7, <1>8

\* mergeEnd() when nothing was forked in the group.
LEMMA MergeNothingInv ==
    ASSUME QuietSuccess, IInv, MergeInv, NEW g \in Group, mergeNothing(g) PROVE MergeInv'
<1>0. current \in State /\ current \in activeStates /\ current \notin Waiting
  BY ExecutingActive DEF mergeNothing, AtEnd
<1>1. /\ g \in DOMAIN mergePools /\ groupId[current] = g /\ Others(g) = {}
      /\ mergePools[g].firstState = NoState /\ removedStates = {} /\ removedStates' = {}
      /\ groupId' = [groupId EXCEPT ![current] = 0] /\ mergePools' = Without(g)
      /\ states' = states /\ yielded' = yielded /\ activeStates' = activeStates
      /\ currentState' = currentState /\ nextGroup' = nextGroup
  BY DEF mergeNothing, AtEnd, UpToDate, vars
<1>2. /\ groupId \in [State -> 0..MaxGroups] /\ MaxGroups \in Nat /\ g # 0
      /\ activeStates \subseteq State
  BY MergeAssumption DEF MergeInv, MergeTypeOK, Group
<1>3. groupId' \in [State -> 0..MaxGroups]
  <2>1. 0 \in 0..MaxGroups  BY <1>2
  <2>2. PICK R : R = 0..MaxGroups  OBVIOUS
  <2> QED  BY Zenon, <1>1, <1>2, <2>1, <2>2
<1>4. \A s \in State : (groupId'[s] = groupId[s] \/ groupId'[s] = 0)
                       /\ (groupId[s] # g => groupId'[s] = groupId[s])
  BY <1>1, <1>2
<1>5. \A s \in activeStates' \ removedStates' : groupId'[s] # g
  <2>1. mergePools[g].states = {s \in activeStates : groupId[s] = g}
    BY <1>1 DEF MergeInv, PoolsHold
  <2>2. \A s \in activeStates : groupId[s] = g => s = current
    BY <1>1, <2>1 DEF Others
  <2> QED  BY <1>0, <1>1, <1>2, <2>2
<1>6. PICK done : done = {mergePools[g].firstState} \ {NoState}  BY Zenon
<1>7. activeStates' = activeStates \cup done /\ removedStates' \cap Waiting = {}
      /\ removedStates \subseteq removedStates'
      /\ \A s \in activeStates : s \in removedStates' \ removedStates => groupId[s] = g
  BY <1>1, <1>6
<1> QED  BY <1>1, <1>3, <1>4, <1>5, <1>6, <1>7, PoolGone

\* Every step of the merging searcher is one of the executor, and keeps the
\* pools in step with it.
LEMMA MergeStep ==
    ASSUME QuietSuccess, ~EndsInGroup, IInv, MergeInv, [MergeNext]_mergeVars
    PROVE  [Next]_vars /\ MergeInv'
<1>1. /\ groupId \in [State -> 0..MaxGroups] /\ currentState \in activeStates \cup {NoState}
      /\ activeStates \subseteq states /\ activeStates \subseteq State
      /\ states \subseteq created /\ current \in State /\ Waiting \subseteq states
      /\ removedStates \cap Waiting = {} /\ Waiting \subseteq yielded
      /\ activeStates \cap Waiting = {} /\ \A s \in State : groupId[s] < nextGroup
  BY DEF MergeInv, MergeTypeOK, WaitingApart, GroupsStarted, IInv, TypeOK, Places
<1>2. ASSUME UNCHANGED mergeOnly, states' = states, removedStates' \cap Waiting = {},
             Waiting \subseteq yielded',
             \A s \in activeStates : (s \in removedStates' <=> s \in removedStates) \/ groupId[s] = 0
      PROVE  MergeInv'
  <2>1. /\ UNCHANGED <<mergePools, activeStates, nextGroup>> /\ currentState' = currentState
        /\ groupId' = groupId
    BY <1>2 DEF mergeOnly
  <2> QED  BY <1>1, <1>2, <2>1, KeepPools
<1>3. ASSUME NEW s \in State, mergeFork(s) PROVE Next /\ MergeInv'
  <2>1. Next  BY Zenon, <1>3 DEF mergeFork, Next, Execute
  <2>2. /\ UNCHANGED <<mergePools, activeStates, nextGroup>> /\ currentState' = currentState
        /\ groupId' = [groupId EXCEPT ![s] = groupId[current]]
    BY <1>3 DEF mergeFork
  <2>3. states' = states /\ yielded' = yielded /\ s \notin created /\ Executing
    BY <1>3 DEF mergeFork, fork, forkTooDeep, branch
  <2>4. current \in activeStates /\ current \notin Waiting  BY <2>3, ExecutingActive
  <2>5. \/ removedStates' = removedStates
        \/ (removedStates' = removedStates \cup {current} /\ groupId[current] = 0)
    <3>1. fork(s) \/ (groupId[current] = 0 /\ forkTooDeep(s))
      BY Zenon, <1>3 DEF mergeFork, InGroup
    <3> QED  BY <3>1 DEF fork, forkTooDeep
  <2>6. /\ groupId' \in [State -> 0..MaxGroups]
        /\ \A t \in State : groupId'[t] < nextGroup
        /\ \A t \in states : groupId'[t] = groupId[t]
    BY <1>1, <2>2, <2>3
  <2>7. /\ removedStates' \cap Waiting = {} /\ Waiting \subseteq yielded'
        /\ \A t \in activeStates : (t \in removedStates' <=> t \in removedStates) \/ groupId[t] = 0
        /\ currentState' \in activeStates \cup {NoState}
    BY <1>1, <2>2, <2>3, <2>4, <2>5
  <2>8. MergeInv'  BY <2>2, <2>3, <2>6, <2>7, KeepPools
  <2> QED  BY <2>1, <2>8
<1>4. ASSUME mergeTerminate PROVE Next /\ MergeInv'
  <2>1. Next  BY Zenon, <1>4 DEF mergeTerminate, Next, Execute
  <2>2. /\ UNCHANGED mergeOnly /\ states' = states /\ yielded' = yielded
        /\ removedStates' = removedStates \cup {current} /\ groupId[current] = 0 /\ Executing
    BY <1>4 DEF mergeTerminate, terminateState, InGroup
  <2>3. current \notin Waiting  BY <2>2, ExecutingActive
  <2>4. /\ removedStates' \cap Waiting = {} /\ Waiting \subseteq yielded'
        /\ \A t \in activeStates : (t \in removedStates' <=> t \in removedStates) \/ groupId[t] = 0
    BY <1>1, <2>2, <2>3
  <2>5. MergeInv'  BY <1>2, <2>2, <2>4
  <2> QED  BY <2>1, <2>5
<1>5. ASSUME mergeSucceed PROVE Next /\ MergeInv'
  <2>1. Next  BY Zenon, <1>5 DEF mergeSucceed, Next, Execute
  <2>2. /\ MergingSearcher_update({}, {current}) /\ groupId[current] = 0 /\ Executing
        /\ states' = states \ {current} /\ yielded' = yielded
        /\ removedStates = {} /\ removedStates' = {}
    BY <1>5 DEF mergeSucceed, succeedState, InGroup, Executing
  <2>3. current \in activeStates  BY <2>2, ExecutingActive
  <2>4. /\ {} \in SUBSET State /\ {current} \in SUBSET State
        /\ states' = (states \cup {}) \ {current} /\ removedStates \subseteq {current}
        /\ {current} \subseteq activeStates /\ {} \cap states = {}
        /\ \A s \in {current} \ removedStates : groupId[s] = 0
    BY <1>1, <2>2, <2>3
  <2>5. MergeInv'  BY <2>2, <2>4, MergeUpdate
  <2> QED  BY <2>1, <2>5
<1>6. ASSUME yieldState, UNCHANGED mergeOnly PROVE Next /\ MergeInv'
  <2>1. Next  BY Zenon, <1>6 DEF Next, Execute
  <2>2. states' = states /\ yielded' = yielded \cup {current} /\ removedStates' = removedStates
    BY <1>6 DEF yieldState
  <2>3. MergeInv'  BY <1>1, <1>2, <1>6, <2>2
  <2> QED  BY <2>1, <2>3
<1>7. ASSUME mergeStart PROVE UNCHANGED vars /\ MergeInv'
  <2>1. UNCHANGED vars  BY <1>7 DEF mergeStart
  <2> QED  BY <1>7, <2>1, MergeStartInv
<1>8. ASSUME NEW g \in Group, mergeNothing(g) \/ mergeFirst(g) \/ mergeNext(g)
      PROVE  [Next]_vars /\ MergeInv'
  <2>1. CASE mergeNothing(g)
    BY <2>1, MergeNothingInv DEF mergeNothing
  <2>2. CASE mergeFirst(g)
    <3>1. Next  BY Zenon, <2>2 DEF mergeFirst, Next, Execute
    <3> QED  BY <2>2, <3>1, MergeFirstInv
  <2>3. CASE mergeNext(g)
    <3>1. terminateState \/ UNCHANGED vars  BY <2>3 DEF mergeNext
    <3>2. [Next]_vars  BY Zenon, <3>1 DEF Next, Execute
    <3> QED  BY <2>3, <3>2, MergeNextInv
  <2> QED  BY <1>8, <2>1, <2>2, <2>3
<1>9. ASSUME mergeTimer PROVE Next /\ MergeInv'
  <2>1. Next  BY Zenon, <1>9 DEF mergeTimer, Next, Execute
  <2>2. /\ UNCHANGED mergeOnly /\ states' = states /\ yielded' = yielded /\ removedStates = {}
        /\ \A s \in removedStates' : groupId[s] = 0
    BY <1>9 DEF mergeTimer, stateSwitchTimerCallback, UpToDate, InGroup
  <2>3. \A s \in Waiting : groupId[s] # 0
    <3>1. ASSUME NEW s \in Waiting PROVE groupId[s] # 0
      <4>1. PICK g \in DOMAIN mergePools : mergePools[g].firstState = s /\ s # NoState
        BY <3>1, WaitingMember
      <4>2. groupId[s] = g /\ g \in Group  BY <4>1 DEF MergeInv, PoolsHold, MergeTypeOK
      <4> QED  BY <4>2, MergeAssumption DEF Group
    <3> QED  BY <3>1
  <2>4. /\ removedStates' \cap Waiting = {} /\ Waiting \subseteq yielded'
        /\ \A t \in activeStates : (t \in removedStates' <=> t \in removedStates) \/ groupId[t] = 0
    BY <1>1, <2>2, <2>3
  <2>5. MergeInv'  BY <1>2, <2>2, <2>4
  <2> QED  BY <2>1, <2>5
<1>10. ASSUME mergeUpdate PROVE Next /\ MergeInv'
  <2>1. Next  BY Zenon, <1>10 DEF mergeUpdate, Next
  <2>2. /\ MergingSearcher_update(addedStates, removedStates)
        /\ states' = (states \cup addedStates) \ removedStates
        /\ removedStates' = {} /\ yielded' = yielded
    BY <1>10 DEF mergeUpdate, updateStates
  <2>3. /\ addedStates \in SUBSET State /\ removedStates \in SUBSET State
        /\ removedStates \subseteq states /\ addedStates \cap states = {}
    BY DEF IInv, TypeOK, Places, Flags
  <2>4. removedStates \subseteq activeStates
    BY <1>1, <2>3 DEF MergeInv, WaitingApart
  <2>5. MergeInv'  BY <2>2, <2>3, <2>4, MergeUpdate
  <2> QED  BY <2>1, <2>5
<1>11. ASSUME NEW s \in State, activeStates # {}, MergingSearcher_selectState(s),
              selectNextState(s) \/ (~InGroup(s) /\ terminateSpeculative(s))
       PROVE  Next /\ MergeInv'
  <2>1. /\ s \in activeStates /\ s \in states /\ currentState' = s /\ groupId' = groupId
        /\ UNCHANGED <<mergePools, activeStates, nextGroup>>
    BY <1>1, <1>11 DEF MergingSearcher_selectState
  <2>2. Next  BY Zenon, <1>11, <2>1 DEF Next
  <2>3. /\ states' = states
        /\ yielded' = yielded \ {s} \/ yielded' = yielded
        /\ \/ removedStates' = removedStates
           \/ (removedStates' = {s} /\ groupId[s] = 0 /\ removedStates = {})
    <3>1. selectNextState(s) \/ (groupId[s] = 0 /\ terminateSpeculative(s))
      BY Zenon, <1>11 DEF InGroup
    <3> QED  BY Zenon, <3>1 DEF selectNextState, switchTo, terminateSpeculative, UpToDate
  <2>4. /\ removedStates' \cap Waiting = {} /\ Waiting \subseteq yielded'
        /\ \A t \in activeStates : (t \in removedStates' <=> t \in removedStates) \/ groupId[t] = 0
        /\ currentState' \in activeStates \cup {NoState}
    BY <1>1, <2>1, <2>3
  <2>5. MergeInv'  BY <1>1, <2>1, <2>3, <2>4, KeepPools
  <2> QED  BY <2>2, <2>5
<1>12. ASSUME activeStates = {}, allTerminated, UNCHANGED mergeOnly PROVE Next /\ MergeInv'
  <2>1. Waiting = {}
    <3> SUFFICES ASSUME NEW s \in Waiting PROVE FALSE  OBVIOUS
    <3>1. PICK g \in DOMAIN mergePools : mergePools[g].firstState = s /\ s # NoState
      BY WaitingMember
    <3>2. mergePools[g].states # {} /\ mergePools[g].states \subseteq activeStates
      BY <3>1 DEF MergeInv, PoolsHold
    <3> QED  BY <1>12, <3>2
  <2>2. states = {}  BY <1>12, <2>1 DEF MergeInv, WaitingApart
  <2>3. Next  BY Zenon, <1>12, <2>2 DEF Next
  <2>4. states' = states /\ yielded' = yielded /\ removedStates' = removedStates
    BY <1>12 DEF allTerminated
  <2>5. MergeInv'  BY <1>1, <1>2, <1>12, <2>4
  <2> QED  BY <2>3, <2>5
<1>13. ASSUME UNCHANGED vars, UNCHANGED mergeOnly PROVE MergeInv'
  <2>1. states' = states /\ yielded' = yielded /\ removedStates' = removedStates
    BY <1>13 DEF vars
  <2> QED  BY <1>1, <1>2, <1>13, <2>1
<1>14. UNCHANGED mergeVars => UNCHANGED vars /\ UNCHANGED mergeOnly  BY DEF mergeVars
<1> QED
  BY Zenon, <1>3, <1>4, <1>5, <1>6, <1>7, <1>8, <1>9, <1>10, <1>11, <1>12, <1>13, <1>14
     DEF MergeNext, mergeEnd, stopped

\* There is no group at first.
LEMMA MergeInitInv == MergeInit => Init /\ MergeInv
<1> SUFFICES ASSUME MergeInit PROVE Init /\ MergeInv  OBVIOUS
<1>1. DOMAIN mergePools = {} /\ Waiting = {}  BY DEF MergeInit, Waiting
<1>2. MergeTypeOK  BY <1>1, StateAssumption, MergeAssumption DEF MergeInit, MergeTypeOK
<1>3. GroupsStarted  BY <1>1 DEF MergeInit, GroupsStarted
<1>4. WaitingApart /\ PoolsHold
  BY <1>1, StateAssumption DEF MergeInit, Init, WaitingApart, PoolsHold
<1> QED  BY <1>2, <1>3, <1>4 DEF MergeInit, MergeInv

\* Where no path ends inside its merge group, the merging searcher is a way of
\* choosing among the executor's states: it selects none that waits or is gone,
\* and S2E stops only when no state waits to be merged.
THEOREM MergingImplementsExecutor ==
    ASSUME QuietSuccess, ~EndsInGroup PROVE MergeSpec => ImplementsExecutor
<1>1. MergeInit => Init /\ IInv /\ MergeInv  BY MergeInitInv, InitInv
<1>2. IInv /\ MergeInv /\ [MergeNext]_mergeVars => [Next]_vars /\ IInv' /\ MergeInv'
  BY MergeStep, NextInv
<1> QED  BY <1>1, <1>2, PTL DEF MergeSpec, Spec, ImplementsExecutor

\* A pool of m_mergePools holds exactly the active states of its group, and a
\* searched state is active or waits in one pool, whatever the forks, merges,
\* failed merges and removals, and the entries that operator[] brings back.
THEOREM PoolsMatchGroupsAlways ==
    ASSUME QuietSuccess, ~EndsInGroup PROVE MergeSpec => []PoolsMatchGroups
<1>1. MergeInit => IInv /\ MergeInv  BY MergeInitInv, InitInv
<1>2. IInv /\ MergeInv /\ [MergeNext]_mergeVars => IInv' /\ MergeInv'
  BY MergeStep, NextInv
<1>3. MergeInv => PoolsMatchGroups
  BY DEF MergeInv, WaitingApart, PoolsHold, PoolsMatchGroups, UpToDate
<1> QED  BY <1>1, <1>2, <1>3, PTL DEF MergeSpec
=============================================================================
