-------------------------- MODULE HighLevelExecutor --------------------------
(***************************************************************************)
(* The high-level executor of Chef (qemu/s2e/Chef/HighLevelExecutor.cpp),  *)
(* with the high-level strategy (SelectorStrategy over the DFS or the BFS  *)
(* selector) and the target of the low-level strategy.                     *)
(*                                                                         *)
(* S2E runs many low-level (LL) states of one interpreter.  The executor   *)
(* lifts each onto a tree of high-level path segments: a segment is the    *)
(* sequence of high-level program counters (HLPC) that led to it, behind   *)
(* the id of its root.  High-level (HL) states sit on segments; the LL     *)
(* states run ahead of them, and the selected HL state is advanced, forked *)
(* or killed when its segment has no LL state left.                        *)
(*                                                                         *)
(* S2E is single threaded: a handler runs to its end before another event  *)
(* is seen.  A handler that ends in tryUpdateSelectedState() leaves        *)
(* phase = "update"; until its loop is over (phase = "idle" again) only    *)
(* the iterations of that loop are enabled.                                *)
(***************************************************************************)
EXTENDS Integers, Sequences, FiniteSets

CONSTANTS
    States,    \* S2E execution states, those not forked yet included
    HLPC,      \* values written to the interpreter's high-level PC
    Strategy,  \* "dfs" or "bfs": the selector behind the HL strategy
    MaxDepth   \* bound: longest segment (its root id included)

ASSUME HLPCAssumption == HLPC \subseteq Nat /\ IsFiniteSet(HLPC)
ASSUME StrategyAssumption == Strategy \in {"dfs", "bfs"}
ASSUME MaxDepthAssumption == MaxDepth \in Nat

VARIABLES
    status,     \* of an S2E state: "unborn", "alive" or "dead"
    seg,        \* LowLevelState::segment; NoSegment for an S2E state not in state_map_
    apic,       \* the APIC interrupts of an S2E state are enabled
    path,       \* HighLevelPathSegment::path->id of every segment created so far
    pathCount,  \* HighLevelPathTracer::path_id_counter_
    hlSeg,      \* HighLevelState::segment of every HL state created so far
    hlStates,   \* HighLevelExecutor::high_level_states_
    queue,      \* QueuedSelector::queue_, front first
    selected,   \* HighLevelExecutor::selected_state_
    target,     \* LowLevelStrategy::target_hl_state_
    phase       \* "update" inside tryUpdateSelectedState(), "idle" outside

treeVars == <<path, pathCount>>
hlVars == <<hlSeg, hlStates, queue, selected>>
vars == <<status, seg, apic, path, pathCount, hlSeg, hlStates, queue,
          selected, target, phase>>

NoSegment == <<>>
NoState == 0

-----------------------------------------------------------------------------
(* The tree of path segments.                                              *)

Segments == DOMAIN path

\* HighLevelPathSegment::children, as the set of its keys.
Children(s) == {pc \in HLPC : Append(s, pc) \in Segments}

\* HighLevelPathSegment::low_level_states and HighLevelPath::low_level_states.
StatesAt(s) == {l \in States : seg[l] = s}
StatesOn(p) == {l \in States : seg[l] # NoSegment /\ path[seg[l]] = p}

\* Segment t is s or one of its descendants.
AtOrBelow(t, s) == Len(s) <= Len(t) /\ \A i \in 1..Len(s) : t[i] = s[i]

\* Mutant of NextPath: every new child opens a path.
NextPathAlwaysNew(s, pc) ==
    IF pc \in Children(s) THEN path
    ELSE [t \in Segments \cup {Append(s, pc)} |->
            IF t \in Segments THEN path[t] ELSE pathCount]

\* getNextSegment(): an existing child, else a new one, which stays on the
\* path of s when it is the first child and opens a path otherwise.
NextPath(s, pc) ==
    IF pc \in Children(s) THEN path
    ELSE [t \in Segments \cup {Append(s, pc)} |->
            IF t \in Segments THEN path[t]
            ELSE IF Children(s) = {} THEN path[s] ELSE pathCount]

getNextSegment(s, pc) ==
    /\ path' = NextPath(s, pc)
    /\ pathCount' = IF pc \in Children(s) \/ Children(s) = {}
                    THEN pathCount ELSE pathCount + 1

-----------------------------------------------------------------------------
(* The queue of the high-level strategy: update() moves a state to the     *)
(* front or puts it there, remove() takes it out.                          *)

PositionOf(q, h) == CHOOSE i \in 1..Len(q) : q[i] = h

QueueAdd(q, h) == [i \in 1..Len(q)+1 |-> IF i = 1 THEN h ELSE q[i-1]]

QueueUpdate(q, h) ==
    LET k == PositionOf(q, h)
    IN  [i \in 1..Len(q) |-> IF i = 1 THEN h ELSE IF i <= k THEN q[i-1] ELSE q[i]]

QueueRemove(q, h) ==
    LET k == PositionOf(q, h)
    IN  [i \in 1..Len(q)-1 |-> IF i < k THEN q[i] ELSE q[i+1]]

selectState(q) ==
    IF Len(q) = 0 THEN NoState ELSE IF Strategy = "dfs" THEN q[1] ELSE q[Len(q)]

-----------------------------------------------------------------------------
\* createRootSegment(): a new root is named by the path it opens.
createRootSegment == <<pathCount>>

Init ==
    /\ \E l \in States : status = [m \in States |-> IF m = l THEN "alive" ELSE "unborn"]
    /\ seg = [l \in States |-> NoSegment]
    /\ apic = [l \in States |-> TRUE]
    /\ path = <<>> /\ pathCount = 0
    /\ hlSeg = <<>> /\ hlStates = {} /\ queue = <<>>
    /\ selected = NoState /\ target = NoState /\ phase = "idle"

Tracked(l) == seg[l] # NoSegment

\* The segments "created" open a path of their own.
addRoot(created) ==
    /\ path' = [t \in Segments \cup created |->
                  IF t \in Segments THEN path[t] ELSE pathCount]
    /\ pathCount' = pathCount + 1

\* getState() of an S2E state seen for the first time: createState() gives it
\* a root segment, an HL state there and a LL state, which ends up at segment s
\* when the event is its first HLPC write (created: the segments this makes).
createState(l, s, created) ==
    LET h == Len(hlSeg) + 1
    IN  /\ phase = "idle" /\ status[l] = "alive" /\ ~Tracked(l)
        /\ addRoot(created)
        /\ seg' = [seg EXCEPT ![l] = s]
        /\ apic' = [apic EXCEPT ![l] = TRUE]
        /\ hlSeg' = Append(hlSeg, createRootSegment)
        /\ hlStates' = hlStates \cup {h}
        /\ queue' = QueueAdd(queue, h)
        /\ selected' = selectState(QueueAdd(queue, h))
        /\ target' = selectState(QueueAdd(queue, h))
        /\ UNCHANGED status

\* A call tracer event: the topologic strategy asks for the LL state.
getState(l) ==
    /\ createState(l, createRootSegment, {createRootSegment})
    /\ UNCHANGED phase

\* onHighLevelPCUpdate() on a state that is not tracked yet.
onFirstHighLevelPCUpdate(l, pc) ==
    /\ LET s == Append(createRootSegment, pc)
       IN  createState(l, s, {createRootSegment, s})
    /\ phase' = "update"

\* Mutant of ApicAfterMove: leaveState() does not switch on the state left alone.
ApicAfterJoin(l, left, others) ==
    [m \in States |->
        IF \E x \in others : others = {x} /\ m \in {x, l} THEN FALSE
        ELSE IF others = {} /\ m = l THEN TRUE ELSE apic[m]]

\* leaveState() then joinState(): the APIC of every state when l moves from the
\* path where the states "left" stay to the path where "others" are.
ApicAfterMove(l, left, others) ==
    [m \in States |->
        IF \E x \in others : others = {x} /\ m \in {x, l} THEN FALSE
        ELSE IF others = {} /\ m = l THEN TRUE
        ELSE IF left = {m} THEN TRUE ELSE apic[m]]

\* onHighLevelPCUpdate() -> LowLevelState::step()
onHighLevelPCUpdate(l, pc) ==
    LET s == seg[l]
        q == NextPath(s, pc)[Append(s, pc)]
    IN  /\ phase = "idle" /\ status[l] = "alive" /\ Tracked(l)
        /\ Len(s) < MaxDepth
        /\ getNextSegment(s, pc)
        /\ seg' = [seg EXCEPT ![l] = Append(s, pc)]
        /\ apic' = ApicAfterMove(l, StatesOn(path[s]) \ {l}, StatesOn(q) \ {l})
        /\ phase' = "update"
        /\ UNCHANGED <<status, hlVars, target>>

\* onStateFork() -> LowLevelState::clone(); nothing to do for a state that is
\* not tracked.  The new state starts with a copy of the CPU, its APIC included.
onStateFork(l, n) ==
    /\ phase = "idle" /\ status[l] = "alive" /\ status[n] = "unborn"
    /\ status' = [status EXCEPT ![n] = "alive"]
    /\ seg' = [seg EXCEPT ![n] = seg[l]]
    /\ apic' = IF Tracked(l) /\ StatesOn(path[seg[l]]) = {l}
               THEN [apic EXCEPT ![l] = FALSE, ![n] = FALSE]
               ELSE [apic EXCEPT ![n] = apic[l]]
    /\ UNCHANGED <<treeVars, hlVars, target, phase>>

\* onStateKill() -> LowLevelState::terminate()
onStateKill(l) ==
    /\ phase = "idle" /\ status[l] = "alive"
    /\ status' = [status EXCEPT ![l] = "dead"]
    /\ IF Tracked(l)
       THEN /\ seg' = [seg EXCEPT ![l] = NoSegment]
            /\ apic' = [m \in States |->
                          IF StatesOn(path[seg[l]]) \ {l} = {m} THEN TRUE ELSE apic[m]]
            /\ phase' = "update"
       ELSE UNCHANGED <<seg, apic, phase>>
    /\ UNCHANGED <<treeVars, hlVars, target>>

-----------------------------------------------------------------------------
(* tryUpdateSelectedState(): the loop over doUpdateSelectedState().        *)

\* The HL state to advance is at a segment that no LL state is at any more.
Advancing == phase = "update" /\ selected # NoState /\ StatesAt(hlSeg[selected]) = {}

\* The child keys of s that stay on its path.
SamePath(s) == {pc \in Children(s) : path[Append(s, pc)] = path[s]}

\* The orders in which the children map may list the keys of F.
Orders(F) ==
    {o \in [1..Cardinality(F) -> F] :
        /\ \A i, j \in 1..Cardinality(F) : o[i] = o[j] => i = j
        /\ \A pc \in F : \E i \in 1..Cardinality(F) : o[i] = pc}

\* A high-level state terminates when its segment has no children either.
Terminating == Advancing /\ Children(hlSeg[selected]) = {}

doUpdateKill ==
    /\ Terminating
    /\ hlStates' = hlStates \ {selected}
    /\ queue' = QueueRemove(queue, selected)
    /\ selected' = selectState(QueueRemove(queue, selected))
    /\ UNCHANGED <<status, seg, apic, treeVars, hlSeg, target, phase>>

\* Mutant of doUpdateStep: the segment of the HL state is not advanced.
doUpdateStay ==
    /\ Advancing /\ Cardinality(Children(hlSeg[selected])) = 1
    /\ queue' = QueueUpdate(queue, selected)
    /\ selected' = selectState(QueueUpdate(queue, selected))
    /\ UNCHANGED <<status, seg, apic, treeVars, hlSeg, hlStates, target, phase>>

\* One child: HighLevelState::step().
doUpdateStep ==
    /\ Advancing
    /\ \E pc \in HLPC :
         /\ Children(hlSeg[selected]) = {pc}
         /\ hlSeg' = [hlSeg EXCEPT ![selected] = Append(@, pc)]
    /\ queue' = QueueUpdate(queue, selected)
    /\ selected' = selectState(QueueUpdate(queue, selected))
    /\ UNCHANGED <<status, seg, apic, treeVars, hlStates, target, phase>>

\* Several: an HL state is forked onto each child that opens a path, then the
\* selected one steps along its own.  stepping_hlpc = 0 stands for "not found".
\* Every state is put at the front of the queue: the selected one first.
doUpdateFork ==
    /\ Advancing /\ Cardinality(Children(hlSeg[selected])) > 1
    /\ \E pc \in HLPC \ {0} :
         LET s == hlSeg[selected]
             n == Cardinality(Children(s) \ {pc})
             h == Len(hlSeg)
             q == QueueUpdate(queue, selected)
             newQueue == [i \in 1..Len(q)+n |-> IF i <= n THEN h + n + 1 - i ELSE q[i-n]]
         IN  /\ SamePath(s) = {pc}
             /\ \E o \in Orders(Children(s) \ {pc}) :
                  hlSeg' = [i \in 1..h+n |->
                              IF i = selected THEN Append(s, pc)
                              ELSE IF i <= h THEN hlSeg[i] ELSE Append(s, o[i-h])]
             /\ hlStates' = hlStates \cup (h+1..h+n)
             /\ queue' = newQueue
             /\ selected' = selectState(newQueue)
    /\ UNCHANGED <<status, seg, apic, treeVars, target, phase>>

doUpdateSelectedState == doUpdateKill \/ doUpdateStep \/ doUpdateFork

\* Mutant of NextTarget: the low-level strategy is not told.
KeepTarget == target

NextTarget == IF selected # NoState THEN selected ELSE target

\* The loop ends; a state that is still selected becomes the target of the
\* low-level strategy.
tryUpdateSelectedStateEnd ==
    /\ phase = "update" /\ ~Advancing
    /\ phase' = "idle"
    /\ target' = NextTarget
    /\ UNCHANGED <<status, seg, apic, treeVars, hlVars>>

tryUpdateSelectedState == doUpdateSelectedState \/ tryUpdateSelectedStateEnd

\* "All states were terminated": S2E requests a shutdown.
allStatesTerminated ==
    /\ phase = "idle" /\ \A l \in States : status[l] # "alive"
    /\ UNCHANGED vars

Next ==
    \/ \E l \in States :
         \/ getState(l)
         \/ onStateKill(l)
         \/ \E pc \in HLPC : onFirstHighLevelPCUpdate(l, pc) \/ onHighLevelPCUpdate(l, pc)
         \/ \E n \in States : onStateFork(l, n)
    \/ tryUpdateSelectedState
    \/ allStatesTerminated

Spec == Init /\ [][Next]_vars

-----------------------------------------------------------------------------
(* Properties.                                                             *)

\* Type invariant of the executor's fields; a path id is below the counter.
TreeTypeOK ==
    /\ pathCount \in Nat
    /\ path \in [Segments -> 0..pathCount-1]
    /\ \A s \in Segments : s \in Seq(Nat) /\ Len(s) > 0

TypeOK ==
    /\ TreeTypeOK
    /\ status \in [States -> {"unborn", "alive", "dead"}]
    /\ seg \in [States -> Segments \cup {NoSegment}]
    /\ apic \in [States -> BOOLEAN]
    /\ hlSeg \in Seq(Segments)
    /\ hlStates \subseteq 1..Len(hlSeg)
    /\ queue \in Seq(hlStates)
    /\ selected \in hlStates \cup {NoState}
    /\ target \in 0..Len(hlSeg)
    /\ phase \in {"idle", "update"}
    /\ \A l \in States : Tracked(l) => status[l] = "alive"

\* No low-level state is ever lost to the high-level search, and none is
\* explored twice: every tracked LL state is at or below the segment of exactly
\* one HL state, through every step, fork and kill of doUpdateSelectedState().
Covered ==
    \A l \in States : Tracked(l) =>
        \E h \in hlStates :
            /\ AtOrBelow(seg[l], hlSeg[h])
            /\ \A g \in hlStates : AtOrBelow(seg[l], hlSeg[g]) => g = h

\* Two HL states are never on the same path (HighLevelState::id() tells them
\* apart) and never one below the other.
DistinctPaths ==
    \A g, h \in hlStates : g # h =>
        /\ path[hlSeg[g]] # path[hlSeg[h]]
        /\ ~AtOrBelow(hlSeg[g], hlSeg[h])

\* The selector holds exactly the live HL states, each once, so the assertions
\* "State already added", "State killed twice" and "Current state was not
\* present in the selector" of SelectorStrategy hold; the executor's selection
\* is the one the selector would make now.
SelectorInSync ==
    /\ \A h \in hlStates : \E i \in 1..Len(queue) : queue[i] = h
    /\ \A i, j \in 1..Len(queue) : queue[i] = queue[j] => i = j
    /\ selected = selectState(queue)

\* Between events, if any LL state is tracked then an HL state is selected, it
\* is the target of the low-level strategy, and its segment has a LL state to
\* run: the assertion of LowLevelSproutStrategy::selectLowLevelState().
TargetRunnable ==
    phase = "idle" /\ (\E l \in States : Tracked(l)) =>
        selected # NoState /\ target = selected /\ StatesAt(hlSeg[target]) # {}

\* When the selected HL state is to be forked, exactly one child continues its
\* path and the loop can tell it was found: "Successor in fork found more than
\* once", "Could not find path successor in fork" and the assertion of
\* HighLevelState::fork() all hold.
SteppingSuccessor ==
    Advancing /\ Cardinality(Children(hlSeg[selected])) > 1 =>
        \E pc \in Children(hlSeg[selected]) : SamePath(hlSeg[selected]) = {pc} /\ pc # 0

\* A LL state that is alone on its high-level path has its timer interrupts
\* on, however it came to be alone: setAPICState() in joinState()/leaveState().
LoneStateInterruptible ==
    \A l \in States : Tracked(l) /\ StatesOn(path[seg[l]]) = {l} => apic[l]

\* What a step may do to an HL state: it keeps its path for life, it only moves
\* down, by one segment at a time and only off a segment without LL states, and
\* it is removed only when no LL state is left at or below its segment.
HighLevelProgress ==
    [][\A h \in hlStates :
         IF h \in hlStates'
         THEN /\ path'[hlSeg'[h]] = path[hlSeg[h]]
              /\ hlSeg'[h] # hlSeg[h] =>
                    /\ StatesAt(hlSeg[h]) = {}
                    /\ AtOrBelow(hlSeg'[h], hlSeg[h])
                    /\ Len(hlSeg'[h]) = Len(hlSeg[h]) + 1
         ELSE \A l \in States : Tracked(l) => ~AtOrBelow(seg[l], hlSeg[h])]_vars

\* The loop of tryUpdateSelectedState() ends after every event.
UpdateTerminates == phase = "update" ~> phase = "idle"

-----------------------------------------------------------------------------
(* The inductive invariant behind the properties.                          *)

\* The segments form a forest closed under prefixes; a path is a chain of
\* segments, and a segment with children has exactly one on its own path.
TreeInv ==
    /\ \A t \in Segments : \A n \in 1..Len(t) : SubSeq(t, 1, n) \in Segments
    /\ \A t \in Segments : t[1] < pathCount /\ \A i \in 2..Len(t) : t[i] \in HLPC
    /\ \A s, t \in Segments : path[s] = path[t] => AtOrBelow(s, t) \/ AtOrBelow(t, s)
    /\ \A s \in Segments : Children(s) # {} => \E pc \in HLPC : SamePath(s) = {pc}

\* The HL states are an antichain that covers the LL states, the selector holds
\* them, and between events the selected one is the target and can run.
FrontierInv ==
    /\ \A g, h \in hlStates : AtOrBelow(hlSeg[g], hlSeg[h]) => g = h
    /\ \A l \in States : Tracked(l) => \E h \in hlStates : AtOrBelow(seg[l], hlSeg[h])
    /\ SelectorInSync
    /\ phase = "idle" /\ selected # NoState =>
          target = selected /\ StatesAt(hlSeg[selected]) # {}

ExecutorInv == TypeOK /\ TreeInv /\ FrontierInv

-----------------------------------------------------------------------------
(* Refinement: the executor is a search over high-level traces.            *)

Frontier == {hlSeg[h] : h \in hlStates}

Search == INSTANCE HighLevelSearch
          WITH trace <- seg, visited <- Segments, frontier <- Frontier

\* The executor implements HighLevelSearch: the HL states are its frontier, and
\* each iteration of doUpdateSelectedState() that kills, steps or forks an HL
\* state is one Advance of the search; path ids, the selector, the selected and
\* the target state do not influence what is searched, only in which order.
ImplementsSearch == Search!Spec
=============================================================================
