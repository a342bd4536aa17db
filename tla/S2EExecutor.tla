----------------------------- MODULE S2EExecutor -----------------------------
(***************************************************************************)
(* The life of the execution states in S2E's main loop                     *)
(* (qemu/s2e/S2EExecutor.cpp on klee/lib/Core/Executor.cpp): one state     *)
(* runs at a time; it forks, yields, is suspended or terminated; the state *)
(* switch timer balances the load with another process and asks the        *)
(* searcher for the next state.  The searcher is any one that selects      *)
(* among the executor's states; the searcher modules refine this one.      *)
(***************************************************************************)
EXTENDS Naturals, FiniteSets

CONSTANTS
    State,         \* S2EExecutionState objects by id, each allocated at most once
    InitialState,  \* the one made by createInitialState()
    MaxDepth,      \* option -max-depth, 0 for no limit
    RandomizeFork, \* option -randomize-fork
    ConcolicModes, \* the values of ConcolicMode to start S2E with
    LoadBalancing, \* whether another process slot may be free
    Succeeds,      \* whether the guest reports success to the state manager
    IdleGuest      \* whether it does nothing more once it has done so

ASSUME StateAssumption ==
    State \subseteq Nat /\ IsFiniteSet(State) /\ InitialState \in State
ASSUME OptionAssumption ==
    /\ MaxDepth \in Nat
    /\ RandomizeFork \in BOOLEAN /\ ConcolicModes \subseteq BOOLEAN
    /\ LoadBalancing \in BOOLEAN /\ Succeeds \in BOOLEAN /\ IdleGuest \in BOOLEAN

VARIABLES
    concolicMode,  \* ConcolicMode: whether fork() is concolicFork()
    created,       \* the states allocated so far
    states,        \* Executor::states
    addedStates,   \* forked since the last updateStates()
    removedStates, \* terminated since the last updateStates()
    deletedStates, \* m_deletedStates, out of the tree but not freed
    freed,         \* the states whose memory was released
    zombie,        \* m_zombie
    yielded,       \* m_yielded
    speculative,   \* not yet known to be feasible
    suspended,     \* taken out of the search by suspendState()
    active,        \* m_active: machine state is loaded in QEMU
    depth,         \* ExecutionState::depth
    current,       \* g_s2e_state
    pc             \* "run": CPU loop, "select": in selectNextState(), "stopped"

vars == <<concolicMode, created, states, addedStates, removedStates, deletedStates, freed,
          zombie, yielded, speculative, suspended, active, depth, current, pc>>

TypeOK ==
    /\ concolicMode \in ConcolicModes
    /\ created \subseteq State /\ states \subseteq State
    /\ addedStates \subseteq State /\ removedStates \subseteq State
    /\ deletedStates \subseteq State /\ freed \subseteq State
    /\ zombie \subseteq State /\ yielded \subseteq State
    /\ speculative \subseteq State /\ suspended \subseteq State
    /\ active \subseteq State /\ depth \in [State -> Nat]
    /\ current \in State /\ pc \in {"run", "select", "stopped"}

Init ==
    /\ concolicMode \in ConcolicModes
    /\ created = {InitialState} /\ states = {InitialState}
    /\ addedStates = {} /\ removedStates = {} /\ deletedStates = {} /\ freed = {}
    /\ zombie = {} /\ yielded = {} /\ speculative = {} /\ suspended = {}
    /\ active = {InitialState} /\ depth = [s \in State |-> 0]
    /\ current = InitialState /\ pc = "run"

\* s2e_is_runnable(): the condition under which the CPU loop executes a state.
Runnable(s) == s \notin zombie \cup speculative \cup yielded

\* updateStates() comes before the next instruction after a termination.
Executing ==
    /\ pc = "run" /\ Runnable(current) /\ removedStates = {}
    /\ IdleGuest => current \notin suspended

\* ExecutionState::branch(): the next id is taken, and the two sides have the
\* incremented depth.
branch(s) ==
    /\ s \in State \ created /\ \A t \in State \ created : s <= t
    /\ created' = created \cup {s}
    /\ depth' = [depth EXCEPT ![current] = @ + 1, ![s] = depth[current] + 1]

\* Concolic forks ignore the depth limit.
DepthUnlimited == concolicMode \/ MaxDepth = 0
DepthExceeded == ~DepthUnlimited /\ MaxDepth <= depth[current] + 1

\* Mutant of fork: the copy keeps the active flag of the original.
forkActiveCopy(s) ==
    /\ Executing /\ ~DepthExceeded /\ branch(s)
    /\ addedStates' = addedStates \cup {s}
    /\ speculative' = IF concolicMode THEN speculative \cup {s} ELSE speculative
    /\ active' = active \cup {s}
    /\ UNCHANGED <<concolicMode, states, removedStates, deletedStates, freed, zombie, yielded,
                   suspended, current, pc>>

\* S2EExecutor::fork(): the copy made by clone() is active like its original
\* until doStateFork() clears the flag.
fork(s) ==
    /\ Executing /\ ~DepthExceeded /\ branch(s)
    /\ addedStates' = addedStates \cup {s}
    /\ speculative' = IF concolicMode THEN speculative \cup {s} ELSE speculative
    /\ UNCHANGED <<concolicMode, states, removedStates, deletedStates, freed, zombie, yielded,
                   suspended, active, current, pc>>

\* Executor::fork() past the depth limit: both states are terminated, the true
\* one first.  If that is the running one, terminateState() throws: the other
\* is not terminated and doStateFork() is not reached.
forkTooDeep(s) ==
    /\ Executing /\ DepthExceeded /\ branch(s)
    /\ removedStates' = removedStates \cup {current}
    /\ \/ /\ addedStates' = addedStates \cup {s}
          /\ active' = active \cup {s}
          /\ zombie' = zombie \cup {current}
          /\ UNCHANGED deletedStates
       \/ /\ RandomizeFork
          /\ deletedStates' = deletedStates \cup {s}
          /\ active' = active \cup {s}
          /\ zombie' = zombie \cup {s, current}
          /\ UNCHANGED addedStates
    /\ UNCHANGED <<concolicMode, states, freed, yielded, speculative, suspended, current, pc>>

\* Mutant of terminateState: the state is also deleted at once.
terminateDelete ==
    /\ Executing
    /\ removedStates' = removedStates \cup {current}
    /\ deletedStates' = deletedStates \cup {current}
    /\ zombie' = zombie \cup {current}
    /\ UNCHANGED <<concolicMode, created, states, addedStates, freed, yielded, speculative,
                   suspended, active, depth, current, pc>>

\* terminateState() of the running state leaves the CPU loop.
terminateState ==
    /\ Executing
    /\ removedStates' = removedStates \cup {current}
    /\ zombie' = zombie \cup {current}
    /\ UNCHANGED <<concolicMode, created, states, addedStates, deletedStates, freed, yielded,
                   speculative, suspended, active, depth, current, pc>>

\* yieldState(): without another state it returns and the state runs on.
yieldState ==
    /\ Executing /\ Cardinality(states) > 1
    /\ yielded' = yielded \cup {current}
    /\ UNCHANGED <<concolicMode, created, states, addedStates, removedStates, deletedStates, freed,
                   zombie, speculative, suspended, active, depth, current, pc>>

\* StateManager::succeedState(): suspendState() and an exit from the CPU loop,
\* but nothing keeps the loop from executing the state again.
succeedState ==
    /\ Succeeds /\ Executing /\ addedStates = {} /\ current \in states
    /\ states' = states \ {current}
    /\ suspended' = suspended \cup {current}
    /\ UNCHANGED <<concolicMode, created, addedStates, removedStates, deletedStates, freed, zombie,
                   yielded, speculative, active, depth, current, pc>>

\* Mutant of updateStates: what was added is dropped when a state is removed.
updateStatesDrop ==
    /\ pc # "stopped" /\ addedStates \cup removedStates # {}
    /\ states' = IF removedStates = {} THEN states \cup addedStates ELSE states \ removedStates
    /\ deletedStates' = deletedStates \cup removedStates
    /\ addedStates' = {} /\ removedStates' = {}
    /\ UNCHANGED <<concolicMode, created, freed, zombie, yielded, speculative, suspended, active,
                   depth, current, pc>>

\* Executor::updateStates(), at the end of every instruction, when an exception
\* leaves the CPU loop, and in selectNextState().
updateStates ==
    /\ pc # "stopped" /\ addedStates \cup removedStates # {}
    /\ states' = (states \cup addedStates) \ removedStates
    /\ deletedStates' = deletedStates \cup removedStates
    /\ addedStates' = {} /\ removedStates' = {}
    /\ UNCHANGED <<concolicMode, created, freed, zombie, yielded, speculative, suspended, active,
                   depth, current, pc>>

UpToDate == addedStates = {} /\ removedStates = {}

\* doLoadBalancing() as this process sees it: it goes on with one half of its
\* states, and another process with the other.
Halves ==
    LET n == Cardinality(states) \div 2
    IN  {h \in SUBSET states : Cardinality(h) \in {n, Cardinality(states) - n}}

\* stateSwitchTimerCallback(), between two instructions.
stateSwitchTimerCallback ==
    /\ pc = "run" /\ UpToDate
    /\ \/ UNCHANGED removedStates
       \/ /\ LoadBalancing /\ Cardinality(states) >= 2
          /\ removedStates' \in Halves
    /\ pc' = "select"
    /\ UNCHANGED <<concolicMode, created, states, addedStates, deletedStates, freed, zombie, yielded,
                   speculative, suspended, active, depth, current>>

\* Mutant of switchTo: the selected state's yield flag is left set.
switchYielded(s) ==
    /\ active' = IF s = current THEN active ELSE (active \ {current}) \cup {s}
    /\ current' = s /\ pc' = "run"
    /\ freed' = freed \cup deletedStates /\ deletedStates' = {}
    /\ UNCHANGED yielded

\* Mutant of switchTo: the list of deleted states is cleared without freeing.
switchLeak(s) ==
    /\ yielded' = yielded \ {s}
    /\ active' = IF s = current THEN active ELSE (active \ {current}) \cup {s}
    /\ current' = s /\ pc' = "run"
    /\ deletedStates' = {} /\ UNCHANGED freed

\* doStateSwitch(), and the states that were waiting for it are freed.
switchTo(s) ==
    /\ yielded' = yielded \ {s}
    /\ active' = IF s = current THEN active ELSE (active \ {current}) \cup {s}
    /\ current' = s /\ pc' = "run"
    /\ freed' = freed \cup deletedStates /\ deletedStates' = {}

\* selectNextState() with the searcher's selection s, known to be feasible or
\* found to be so by resolveSpeculativeState().
selectNextState(s) ==
    /\ pc = "select" /\ UpToDate
    /\ switchTo(s)
    /\ speculative' = speculative \ {s}
    /\ UNCHANGED <<concolicMode, created, states, addedStates, removedStates, zombie, suspended, depth>>

\* selectNonSpeculativeState(): an infeasible selection is terminated, and
\* after updateStates() the searcher is asked again.
terminateSpeculative(s) ==
    /\ pc = "select" /\ UpToDate /\ s \in speculative
    /\ removedStates' = {s} /\ zombie' = zombie \cup {s}
    /\ UNCHANGED <<concolicMode, created, states, addedStates, deletedStates, freed, yielded,
                   speculative, suspended, active, depth, current, pc>>

\* "All states were terminated": the running state is left for QEMU to exit.
allTerminated ==
    /\ pc = "select" /\ UpToDate
    /\ freed' = freed \cup (deletedStates \ {current}) /\ deletedStates' = {}
    /\ pc' = "stopped"
    /\ UNCHANGED <<concolicMode, created, states, addedStates, removedStates, zombie, yielded,
                   speculative, suspended, active, depth, current>>

\* qemu_system_shutdown_request() was obeyed: nothing runs any more.
stopped == pc = "stopped" /\ UNCHANGED vars

\* What the running state and the timer do, whatever the searcher.
Execute ==
    \/ \E s \in State : fork(s) \/ forkTooDeep(s)
    \/ terminateState \/ yieldState \/ succeedState
    \/ stateSwitchTimerCallback

Next ==
    \/ Execute
    \/ updateStates
    \/ \E s \in states : selectNextState(s) \/ terminateSpeculative(s)
    \/ (states = {} /\ allTerminated)
    \/ stopped

Spec == Init /\ [][Next]_vars

-----------------------------------------------------------------------------
\* What removedStates holds is still in states, so updateStates() finds it
\* (Executor.cpp:2568), and no terminated state stays behind to be selected.
RemovedAreStates ==
    /\ removedStates \subseteq states
    /\ states \cap zombie \subseteq removedStates

\* A deleted or freed state is neither selectable nor running: the assertion
\* s != newState of selectNextState() holds, and g_s2e_state does not dangle.
DeletedUnreachable ==
    /\ (deletedStates \cup freed) \cap (states \cup addedStates) = {}
    /\ current \notin freed

\* As long as no fork is cut short by the depth limit, the running state's
\* machine state is the one loaded in QEMU and no state that can be switched to
\* claims that its own is (doStateSwitch()'s assertions, S2EExecutor.cpp:1326
\* and 1327).
ActiveIsCurrent ==
    DepthUnlimited =>
        /\ current \in active
        /\ pc = "select" => states \cap active \subseteq {current}

\* The state that the CPU loop executes is one the executor searches: it can
\* fork (PTree::split() asserts that its node is active) and terminate
\* (updateStates() and the searcher assert that they know it).
ExecutingIsSearched == Executing => current \in states

\* "Current state should *never* be speculative" (executeInstructions()).
CurrentFeasible == pc = "run" => current \notin speculative

\* Every state ever forked is still searched, was ended, or is suspended: the
\* bookkeeping in several sets, and the exceptions that cut handlers short,
\* lose none, and S2E stops only when none is left.
NoneLost ==
    /\ created = states \cup addedStates \cup deletedStates \cup freed
                 \cup suspended \cup (IF pc = "stopped" THEN {current} ELSE {})
    /\ pc = "stopped" => states \cup addedStates = {}

\* When the CPU loop refuses the running state (it yielded or was terminated),
\* another selection ends that, or S2E stops.
CpuResumes == (pc = "run" /\ ~Runnable(current)) ~> (pc = "run" /\ Runnable(current)) \/ pc = "stopped"

\* A terminated state is freed, although not while it is the running one; the
\* last one is left for QEMU to exit.
Reclaimed ==
    \A s \in State :
        s \in removedStates ~> s \in freed \/ (pc = "stopped" /\ current = s)
=============================================================================
