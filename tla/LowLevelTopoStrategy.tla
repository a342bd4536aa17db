------------------------- MODULE LowLevelTopoStrategy -------------------------
(***************************************************************************)
(* The executor composed with S2E's main loop and the topologic low-level  *)
(* strategy (qemu/s2e/Chef/LowLevelTopoStrategy.cpp).  Every LL state has  *)
(* a topologic index: its position in the unfolding of the guest's control *)
(* flow, one level per call and per loop iteration.  Every HL state has a  *)
(* cursor into the same unfolding; the strategy moves the cursor of the    *)
(* target forward to the next LL state on the target's path.               *)
(*                                                                         *)
(* A TopologicNode is named by the levels that lead to it, each a triple   *)
(* <<basic_block, call_index, base>>; base is the function called when     *)
(* the level is a call base and "none" otherwise.  The nodes without LL    *)
(* states, which a cursor steps over, are not represented.                 *)
(***************************************************************************)
EXTENDS LowLevelStrategy

CONSTANTS
    Succ,           \* guest control flow: pairs of basic blocks, entry block 0
    CallSites,      \* blocks of the interpreter loop that call the helper, once
    Exits,          \* blocks in which a function may return
    WriteBackRate,  \* the option low-level-cursor-wbr
    MaxIndex        \* bound: levels of a topologic index

ASSUME TopoAssumption ==
    /\ Succ \subseteq Nat \X Nat /\ CallSites \subseteq Nat /\ Exits \subseteq Nat
    /\ WriteBackRate \in Nat /\ MaxIndex \in Nat
    /\ NoState \notin States  \* NULL is no state

VARIABLES
    index,    \* LowLevelState::topo_index
    cursor,   \* HighLevelState::cursor
    active,   \* active_cursor_
    current,  \* current_ll_state_, NoState for NULL
    wbr,      \* cursor_wbr_counter_
    pending   \* a call tracer event has created the state and is to be handled

topoVars == <<vars, index, cursor, active, current, wbr, running, pending>>

-----------------------------------------------------------------------------
(* The topologic space.                                                    *)

Root == <<-1, 0, "loop">>

Slot(i) == i[Len(i)]

\* The node itself, then what is below it, then the nodes after it: the order
\* in which stepCursor() visits.
Earlier(x, y) == x[1] < y[1] \/ (x[1] = y[1] /\ x[2] < y[2])
SameNode(p, q) == Len(p) = Len(q) /\ \A i \in 1..Len(p) : p[i][1] = q[i][1] /\ p[i][2] = q[i][2]
Before(p, q) ==
    \E n \in 0..Len(p) :
        /\ n <= Len(q) /\ SameNode(SubSeq(p, 1, n), SubSeq(q, 1, n))
        /\ \/ n = Len(p) /\ n < Len(q)
           \/ n < Len(p) /\ n < Len(q) /\ Earlier(p[n+1], q[n+1])

\* getNext(): the node after the last level, at the same depth.
getNext(i, bb, ci) == [i EXCEPT ![Len(i)] = <<bb, ci, @[3]>>]
\* getDown(): the first node below the last level.
getDown(i, base) == Append(i, <<-1, 0, base>>)

\* The innermost call base of index i, and the function called there.
CallBase(i) == CHOOSE n \in 1..Len(i) :
    i[n][3] # "none" /\ \A m \in n+1..Len(i) : i[m][3] = "none"
Function(i) == i[CallBase(i)][3]

\* Mutant of stepBasicBlock: the levels of the loops that are left stay open.
stepBasicBlockOpen(i, bb) ==
    IF bb <= Slot(i)[1] THEN getNext(getDown(i, "none"), bb, 0) ELSE getNext(i, bb, 0)

\* stepBasicBlock(): a block that does not come after the current one opens a
\* level; otherwise the levels of the loops that are left are closed.
stepBasicBlock(i, bb) ==
    IF bb <= Slot(i)[1] THEN getNext(getDown(i, "none"), bb, 0)
    ELSE LET n == CHOOSE n \in CallBase(i)..Len(i) :
                    /\ n = CallBase(i) \/ bb <= i[n-1][1]
                    /\ \A m \in n+1..Len(i) : bb > i[m-1][1]
         IN  getNext(SubSeq(i, 1, n), bb, 0)

\* Mutant of returned: the call index is not incremented.
returnedToCall(i) == SubSeq(i, 1, CallBase(i) - 1)

\* onStackFramePopping(): the caller's slot with the next call index.
returned(i) ==
    LET j == SubSeq(i, 1, CallBase(i) - 1)
    IN  getNext(j, Slot(j)[1], Slot(j)[2] + 1)

-----------------------------------------------------------------------------
(* The guest: what the state at index i may do next.  The executor may be  *)
(* created anywhere in the interpreter loop, which is not left.            *)

Starting(i) == Len(i) = 1 /\ Slot(i)[1] = -1
Blocks == {0} \cup {e[2] : e \in Succ}

Calls(i) == /\ Function(i) = "loop" /\ Slot(i)[2] = 0
            /\ Starting(i) \/ Slot(i)[1] \in CallSites
Enters(i) == {bb \in Blocks : \/ Starting(i)
                              \/ Slot(i)[1] = -1 /\ bb = 0
                              \/ ~Calls(i) /\ <<Slot(i)[1], bb>> \in Succ}
Returns(i) == CallBase(i) > 1 /\ Slot(i)[1] \in Exits

-----------------------------------------------------------------------------
(* Scheduling.                                                             *)

\* Mutant of findNextState: the walk goes on to the last state.
findLastState(onPath, idx, from) ==
    {l \in onPath : ~Before(idx[l], from) /\ \A m \in onPath : ~Before(idx[l], idx[m])}

\* findNextState(): the LL states of a path at the first node, from the cursor
\* on, that has one.
findNextState(onPath, idx, from) ==
    {l \in onPath : /\ ~Before(idx[l], from)
                    /\ \A m \in onPath : Before(idx[m], idx[l]) => Before(idx[m], from)}

\* Mutant of trySchedule: the states of every path are considered.
tryScheduleAny(h, from) ==
    \E l \in findNextState({l \in States : seg'[l] # NoSegment}, index', from) :
        current' = l /\ active' = index'[l]

\* trySchedule() when h is the target: the cursor moves to the state found, the
\* first one in the order in which they came to that node.
trySchedule(h, from) ==
    LET onPath == {l \in States : seg'[l] # NoSegment /\ path'[seg'[l]] = path'[hlSeg'[h]]}
    IN  \E l \in findNextState(onPath, index', from) :
            current' = l /\ active' = index'[l]

\* updateTargetHighLevelState(): the cursor of the old target is saved when the
\* target changes, or after WriteBackRate updates of the same target.
updateTargetHighLevelState(h, cursors) ==
    IF h # target \/ wbr = WriteBackRate
    THEN /\ cursor' = IF target = NoState THEN cursors
                      ELSE [cursors EXCEPT ![target] = active]
         /\ wbr' = 0
         /\ trySchedule(h, cursor'[h])
    ELSE /\ cursor' = cursors
         /\ wbr' = wbr + 1
         /\ trySchedule(h, active)

unscheduled == <<cursor, active, current, wbr>>

-----------------------------------------------------------------------------
TopoInit ==
    /\ Init
    /\ index = [l \in States |-> <<>>]
    /\ cursor = <<>> /\ active = <<>> /\ current = NoState /\ wbr = 0
    /\ running \in Alive /\ pending = FALSE

\* createState(): the LL state and the new HL state's cursor are at a new root.
topoCreate ==
    /\ ~pending
    /\ index' = [index EXCEPT ![running] = <<Root>>]
    /\ updateTargetHighLevelState(selected', Append(cursor, <<Root>>))
    /\ UNCHANGED running

\* The first call tracer event of a state: its handler starts with getState().
topoGetState == getState(running) /\ topoCreate /\ pending' = TRUE

\* The interpreter tracer watches memory while the interpreter loop is the
\* innermost function.
topoPCUpdate(pc) ==
    /\ Tracked(running) => Function(index[running]) = "loop"
    /\ \/ onFirstHighLevelPCUpdate(running, pc) /\ topoCreate
       \/ ~pending /\ onHighLevelPCUpdate(running, pc)
          /\ UNCHANGED <<index, unscheduled, running>>
    /\ UNCHANGED pending

\* LowLevelState::clone()
topoFork(n) ==
    /\ ~pending /\ (ForkUntracked \/ Tracked(running))
    /\ onStateFork(running, n)
    /\ index' = [index EXCEPT ![n] = index[running]]
    /\ UNCHANGED <<unscheduled, running, pending>>

\* LowLevelState::terminate(), of the running state or, by a plugin, of another.
topoKill(l) ==
    /\ ~pending
    /\ onStateKill(l)
    /\ index' = [index EXCEPT ![l] = <<>>]
    /\ UNCHANGED <<unscheduled, running, pending>>

\* The running state is tracked and its index moves to i.
move(i) ==
    /\ phase = "idle" /\ status[running] = "alive" /\ Tracked(running)
    /\ Len(i) <= MaxIndex
    /\ index' = [index EXCEPT ![running] = i]
    /\ pending' = FALSE
    /\ UNCHANGED <<vars, running>>

onStackFramePush ==
    /\ Tracked(running) /\ Calls(index[running])
    /\ move(getDown(index[running], "helper"))
    /\ UNCHANGED unscheduled

onStackFramePopping ==
    /\ Tracked(running) /\ Returns(index[running])
    /\ move(returned(index[running]))
    /\ UNCHANGED unscheduled

\* The other LL states at the node of index i, of whatever path.
Mergeable(i) == {l \in States \ {running} :
                   Tracked(l) /\ seg[l][1] = seg[running][1] /\ SameNode(index[l], i)}

\* onBasicBlockEnter(): in the interpreter loop, without another state at the
\* same node, or when every merge fails, another state may be scheduled.
onBasicBlockEnter ==
    /\ Tracked(running)
    /\ \E bb \in Enters(index[running]) : move(stepBasicBlock(index[running], bb))
    /\ IF target = NoState
       THEN current' = NoState /\ UNCHANGED active
       ELSE trySchedule(target, active)
    /\ UNCHANGED <<cursor, wbr>>

\* onBasicBlockEnter(): a merge into another state at the same node succeeds and
\* the running state is killed.
onBasicBlockMerge ==
    /\ Tracked(running) /\ status[running] = "alive"
    /\ \E bb \in Enters(index[running]) :
         LET i == stepBasicBlock(index[running], bb)
         IN  Len(i) <= MaxIndex /\ Function(i) # "loop" /\ Mergeable(i) # {}
    /\ onStateKill(running)
    /\ index' = [index EXCEPT ![running] = <<>>]
    /\ pending' = FALSE
    /\ UNCHANGED <<unscheduled, running>>

\* The strategy offers the state it scheduled, if any.
topoSelect ==
    /\ ~pending /\ selectNextState(current = NoState, {current})
    /\ UNCHANGED <<index, unscheduled, pending>>

\* HighLevelState::fork() copies the saved cursor of the selected state.
topoUpdate ==
    /\ \/ doUpdateKill \/ doUpdateStep \/ doUpdateFork
    /\ cursor' = [h \in DOMAIN hlSeg' |-> IF h \in DOMAIN cursor THEN cursor[h] ELSE cursor[selected]]
    /\ UNCHANGED <<index, active, current, wbr, running, pending>>

topoUpdateEnd ==
    /\ tryUpdateSelectedStateEnd
    /\ UNCHANGED <<index, running, pending>>
    /\ IF selected = NoState THEN UNCHANGED unscheduled
       ELSE updateTargetHighLevelState(selected, cursor)

topoTerminated ==
    /\ allStatesTerminated
    /\ UNCHANGED <<index, unscheduled, running, pending>>

TopoNext ==
    \/ topoGetState \/ onStackFramePush \/ onStackFramePopping
    \/ onBasicBlockEnter \/ onBasicBlockMerge \/ topoSelect
    \/ topoUpdate \/ topoUpdateEnd \/ topoTerminated
    \/ \E pc \in HLPC : topoPCUpdate(pc)
    \/ \E l \in States : topoFork(l) \/ topoKill(l)

TopoSpec == TopoInit /\ [][TopoNext]_topoVars

-----------------------------------------------------------------------------
(* Properties.                                                             *)

\* Type invariant: indexes and cursors are paths of the topologic space.
Indexes == Seq((Blocks \cup {-1}) \X Nat \X {"loop", "helper", "none"})
TopoTypeOK ==
    /\ \A l \in States : index[l] \in Indexes /\ (index[l] # <<>> <=> Tracked(l))
    /\ DOMAIN cursor = DOMAIN hlSeg
    /\ \A h \in DOMAIN cursor : cursor[h] \in Indexes /\ cursor[h] # <<>>
    /\ active \in Indexes
    /\ current \in States \cup {NoState}
    /\ wbr \in 0..WriteBackRate
    /\ running \in States /\ pending \in BOOLEAN

\* A state only moves forward in the topologic order, through calls, returns,
\* loops and loop exits, so a cursor that has passed a node need not come back
\* for the states that were there: the assertion of TopologicNode::getNext().
TopologicOrder ==
    [][\A l \in States :
         Tracked(l) /\ Tracked(l)' /\ index'[l] # index[l] => Before(index[l], index'[l])]_topoVars

\* Every index is well formed: exactly the tracked states have one, and a loop
\* level holds blocks up to the one from which the loop was re-entered.
LoopLevels ==
    /\ TopoTypeOK
    /\ \A l \in States : \A n \in 2..Len(index[l]) :
         index[l][n][3] = "none" => index[l][n][1] <= index[l][n-1][1]

\* current_ll_state_ is a raw pointer: between events, while any state is
\* tracked, it is a tracked state on the path of the target HL state.
CurrentOnPath ==
    phase = "idle" /\ (\E l \in States : Tracked(l)) =>
        current # NoState /\ current \in StatesOn(path[hlSeg[target]])

\* The cursor that trySchedule() uses for HL state h.
CursorOf(h) == IF h = target THEN active ELSE cursor[h]

\* As long as the states take the same high-level path, no LL state of an HL
\* state's path is behind the HL state's cursor: the walk of findNextState(),
\* which never goes back, reaches every one of them.
CursorBehind ==
    Cardinality({path[s] : s \in Segments}) <= 1 =>
    \A h \in hlStates : \A l \in StatesOn(path[hlSeg[h]]) : ~Before(index[l], CursorOf(h))

\* The assertion of trySchedule(), "Could not find next state. Perhaps wrong
\* cursor position?", where the end of tryUpdateSelectedState() is about to
\* make the selected HL state the target.
NextStateFound ==
    phase = "update" /\ ~Advancing /\ selected # NoState =>
        \E l \in StatesOn(path[hlSeg[selected]]) : ~Before(index[l], CursorOf(selected))
=============================================================================
