# Verification of Chef

Chef (`qemu/s2e/Chef`, `qemu/s2e/Plugins/Chef`) turns S2E, a symbolic executor
of machine code, into a symbolic executor of the programs an interpreter runs.
S2E explores many *low-level* (LL) states of one interpreter. Chef watches the
interpreter's *high-level program counter* (HLPC), groups the LL states by the
high-level path they follow, and decides which one S2E runs next. A mistake in
this bookkeeping does not crash the guest: it silently drops paths, explores
them twice, starves them, or aborts the whole exploration in an assertion after
hours. This directory holds TLA+ models of that bookkeeping, in Chef and in the
parts of S2E and KLEE it stands on, what TLC checks of them, and what TLAPS
proves about them.

## The system

The parts, from the guest upwards. Within a process all callbacks run in S2E's
single main loop; the interleavings that matter are those of the *S2E states*,
which are switched at timer ticks, fork and are terminated, while most tracer
objects are shared by all of them; and those of the *processes* among which S2E
balances its states.

| Part | Module | Hard behaviour |
|---|---|---|
| OS tracer | `OSTracer` | notifications and hardware events out of step; weak references |
| Analyzer plugin, detector, connection of the call tracer | `InterpreterAnalyzer` | objects shared by all states, set up and taken down by events of one |
| Call tracer | `CallTracer` | several frames unwound at once; forks |
| Interpreter tracer | `InterpreterTracer` | HL frames entered without a LL call; one memory callback for all states |
| High-level executor, strategies, selectors | `HighLevelExecutor` | LL states run ahead of, diverge from and die under HL states |
| Low-level strategies: sprout, topologic | `LowLevelStrategy`, `LowLevelSproutStrategy`, `LowLevelTopoStrategy` | stale targets, cursors and pointers |
| S2E executor | `S2EExecutor` | states added, removed and freed in batches; handlers cut short by exceptions; states that are only speculative |
| KLEE searchers, process tree | `UserSearcher`, `PTree` | copies of the set of states kept in step |
| Merging and cooperative searcher | `MergingSearcher`, `CooperativeSearcher` | states that wait for one another; scheduling by the guest |
| Processes, state manager, trace file | `S2EProcesses` | critical sections interleaved, forks that fail, crashes |

Interaction: the OS tracer tells the analyzer plugin about threads, which sets
up the call tracer; its frames drive the interpreter tracer's HL stacks; the
HLPC writes found with them are the `onHighLevelPCUpdate` events of the
high-level executor; that gives the LL strategy its target; the LL strategy is
the searcher of the S2E executor, in the place of KLEE's searchers or a searcher
plugin; load balancing gives half of the executor's states to a new process.
The models meet at these interfaces: each composition below contains two or
three neighbours, and takes the rest as nondeterministic input.

What must be true: no state is lost or explored twice, at any of the levels;
S2E always gets a runnable state; every state gets its turn; the stacks that the
HLPC is read from belong to the running state and activation; what is shared
finds the thread, state or process it refers to. `PROJECT.json` lists every
component with its status, and the hazards with their lines.

## Modules

* `HighLevelExecutor` — the executor, with the DFS or BFS selector and the
  target of the LL strategy. A path segment is the sequence of HLPCs that leads
  to it behind the id of its root (`path_id_counter_` when it was made), so the
  tree is the domain of `path`. `seg[l]` is `LowLevelState::segment`, `hlSeg[h]`
  is `HighLevelState::segment`; HL states are numbered in order of creation.
  One action per handler: `getState`, `onFirstHighLevelPCUpdate`,
  `onHighLevelPCUpdate`, `onStateFork`, `onStateKill`. The loop in
  `tryUpdateSelectedState()` at the end of a handler is unrolled: the handler
  sets `phase = "update"`, after which only `doUpdateKill`, `doUpdateStep`,
  `doUpdateFork` (the three branches of `doUpdateSelectedState()`) and
  `tryUpdateSelectedStateEnd` are enabled. The order of the children map is a
  nondeterministic choice.
* `HighLevelSearch` — what the executor promises: a search over high-level
  traces whose frontier covers all LL states. No selectors, path ids or loops.
* `LowLevelStrategy` — what the strategies share: the state that S2E runs, and
  the selection of the next one, which falls back on the underlying searcher.
* `LowLevelSproutStrategy` — the executor composed with S2E's main loop and the
  sprout strategy: only the running state produces events, any state may be
  terminated, and the strategy chooses the next state.
* `LowLevelTopoStrategy` — the same with the topologic strategy (the default).
  A `TopologicNode` is named by the levels that lead to it; nodes that no state
  is at are not represented, since a cursor only steps over them. The guest is
  a small control flow graph given by constants. A merge either succeeds and
  kills the running state or fails. A state's first call tracer event creates
  it and is then handled (`pending`).
* `CallTracer` — the LL call stacks as frames between stack addresses.
* `InterpreterTracer` — extends it with the HL stacks and the memory callback,
  because every event of the call tracer is handled by both in one step.
* `OSTracer` — per S2E state the threads, the address spaces and the active
  thread, as operators on an `OSTracerState`. A thread object has the name of
  its id while `threads_` holds it; an active thread that was erased from it
  lives on as `Old`, until another one is scheduled.
* `InterpreterAnalyzer` — the actions on top: the guest kernel's notifications,
  changes of privilege and page directory, forks, kills and switches of S2E
  states, and the calibration protocol, each with what the plugin, the call
  tracer and the detector do in it. What the detector finds in its recording is
  a choice.
* `S2EExecutor` — the life of a state in the main loop: `fork`, `forkTooDeep`,
  `terminateState`, `yieldState`, `succeedState`, `updateStates` (run between
  instructions and by the timer), `stateSwitchTimerCallback` with load
  balancing, `selectNextState`, and `terminateSpeculative` for a state that
  turns out infeasible when it is selected. Sets follow the fields: `states`,
  `addedStates`, `removedStates`, `deletedStates`, and flags as sets of states.
  A termination of the running state throws, so an action has exactly what the
  code does before the exception. The searcher is *any* choice among `states`.
* `PTree`, `UserSearcher`, `MergingSearcher`, `CooperativeSearcher` — the
  executor composed with one searcher each. They extend `S2EExecutor` (all but
  `PTree` through `Searcher`, which has the selection they keep) and conjoin to its actions what `update()` and `selectState()` do; they select
  from their own copy of the states, and stop when *that* is empty. The
  refinement `ImplementsExecutor` says that this is an allowed choice, so that
  everything shown of `S2EExecutor` holds under each searcher. A tree node is
  the sequence of turns from the root. `UserSearcher` covers the stacks that
  `constructUserSearcher()` builds from DFS, random, interleaved, batching and
  iterative deepening searchers.
* `S2EProcesses` — processes named by their index. One critical section on
  shared memory is one step; `S2E::fork()` and `doLoadBalancing()` are the
  steps `doLoadBalancing`, `reserve` or `forkRefused`, `fork` or `forkFails`,
  then `parentSplit` in one process and `claimSlot`, `childSplit` in the other;
  `exit` and `releaseSlot` are `~S2E()`; `crash` may come between any two.
* `MC…` modules and `.cfg` files — the instances TLC checks.
* `…_proofs` — the theorems about the module they are named after.
  `HighLevelExecutor_proofs` has those about `HighLevelSearch` and
  `LowLevelSproutStrategy`, `OSTracer_proofs` those about `InterpreterAnalyzer`,
  `InterpreterTracer_proofs` those about `CallTracer` and `S2EExecutor_proofs`
  those about `MergingSearcher` as well; `LowLevelStrategy_proofs` is about
  `LowLevelTopoStrategy`, and `Searchers_proofs` about `CooperativeSearcher` and
  `UserSearcher`.

Operators named as mutants in comments are deliberate mistakes; replacing the
definition they stand next to by them must make a property fail.

Options that are constant in an execution are variables that `Init` chooses and
no action changes (`concolicMode`, `stack`, `guest`): one run covers several
configurations, and each behaviour has one.

## Runs

| Run | Instance | States | Result |
|---|---|---|---|
| `sprout` | 3 LL states, 2 HLPCs, depth 3, DFS selector | 45k | all hold, with liveness |
| `topo` | 3 S2E states, 2 HLPCs, depth 2, indexes of 2 levels, BFS selector | 0.8M | all hold |
| `tracers` | 2 S2E states, 3 stack words, 4 frames in a history | 0.7M | all hold |
| `analyzer` | 2 S2E states, 2 threads, 2 page tables, three kinds of guest | 0.5M | all hold |
| `ptree` | 4 states, depth limit 2, concolic mode on and off | 1.8M | all hold |
| `searchers` | 4 states, depth limit 3, three stacks, both modes | 1.5M | all hold |
| `merging` | 3 states, depth limit 2, 2 merge groups, both modes | 25k | all hold, with liveness |
| `cooperative` | 3 states, depth limit 2, guests that yield or schedule, both modes | 15k | all hold, with liveness |
| `processes` | 3 slots, 4 process indexes, 4 states, crashes | 0.9M | all hold |
| `topo_cursor` | 3 S2E states, default writeback rate | | assertion fails |
| `tracers_reuse` | 1 S2E state, HLPC locations reused | | assertion fails |
| `merging_lost` | 3 states, 1 group, members may end in it | | a state is lost |

* `sprout`: `Covered` (each LL state is under exactly one HL state),
  `SteppingSuccessor` (the assertions of the fork), `LoneStateInterruptible` (the
  APIC is on for a state alone on its path), `SelectableTarget` (the strategy's
  assertion), `ImplementsSearch`, and as liveness `UpdateTerminates` and
  `ExplorationCompletes`.
* `topo`: `TopologicOrder` (an index only moves forward), `LoopLevels`,
  `CurrentOnPath` (the raw pointer is to a live state of the target's path) and
  `CursorBehind`; in `topo_cursor`, `NextStateFound` (the walk finds a state).
* `tracers`: `FramesTile`, `TrackingInLoop`, `HighLevelStackNotEmpty`,
  `ActivationsOnStack`.
* `analyzer`: `ThreadsSchedulable` (a known thread is found when its page table
  is loaded), `CallbacksFindThread`, `CallStacksClonable`, `DetectorFindsThread`.
* `ptree`: of the executor `NoneLost`, `DeletedUnreachable` and
  `ActiveIsCurrent`; of the tree `LeavesAreStates` and `ActiveIffSearched`, on
  which the assertions of `split()` and of the random walk rest.
* `searchers`: `SearchersInSync`, `NoInvalidRemoval`.
* `merging`: `PoolsMatchGroups`, and as liveness `WaitingResumes`, `CpuResumes`,
  `Reclaimed`.
* `cooperative`: `SelectionSearched`, and as liveness `NoStarvation`.
* `searchers`, `merging` and `cooperative`: `ImplementsExecutor`; `ptree`:
  `PathImplementsExecutor`, the same for the random walk.
* `processes`: `SlotFree` (the assertion of `S2E::fork()`), `UniqueStateIds`,
  `SuccessCounted` (asserted by `StateManager::checkInvariants()`),
  `BalancingKeepsStates`.

A type invariant is a theorem of its own, or a conjunct of the invariant that
relates the module's state to its neighbours (`LoopLevels`, `TrackingInLoop`,
`LeavesAreStates`, `SearchersInSync`, `PoolsMatchGroups`, `SelectionSearched`),
which is one. Some further properties are in no run because they are proved: see
below.

### Bounds

* `States`, `State`: S2E states of a history. Two are needed to diverge, three
  for one to stay behind while two diverge ahead of it, which is the smallest
  case in which a fork, a kill and an unselected HL state meet. In the
  executor's runs the fourth lets load balancing split a set of three or more,
  and gives the tree two branchings. In `analyzer` a name is an address, reused
  after a kill, so that histories are unbounded. What is proved holds for any
  number.
* `HLPC`: two values for a divergence.
* `MaxDepth` of the HL models: length of a segment with its root. Three lets a
  LL state run two segments ahead of its HL state, so that the update loop
  iterates. It also ends every history, which `ExplorationCompletes` relies on.
  `MaxDepth` of `S2EExecutor` is the option `-max-depth`, 0 for none: 2 is
  exceeded with three states, 3 with four.
* `MaxIndex` of topo: levels of a topologic index; two hold a call or a loop.
* `WriteBackRate` is 1 in `topo`, so that both branches of the writeback happen,
  and the default of 1000 in `topo_cursor`.
* `StackTop`, `MaxId`, `Addresses`: words of stack, frames created, HLPC
  locations. Three words hold three nested frames, enough for an unwinding over
  an activation that entered two HL frames.
* `Tids`, `PageTables`: two of each, for a thread switch, a shared page table
  and a restart under the same id while another thread runs.
* `MaxGroups`: two, so that one group is used after another was erased.
* `MaxProcesses`, `MaxIndex`, `MaxStateId` of `S2EProcesses`: three slots, so
  that two processes may race for the last; four indexes and four states in all.
  A slot is taken again by a later process within these.

States, or the page tables and states, are symmetric in `topo`, `topo_cursor`
and `analyzer`; runs with liveness use no symmetry. Deadlock is checked except
in `tracers`, `tracers_reuse` and `analyzer`, where the guest may simply stop
producing events, all its states killed or its frames used up.

### Assumptions about the guest and S2E

* `ForkUntracked = FALSE`: a state forks only after the executor has seen its
  first event.
* Topo: the function in which the executor first sees a state does not return,
  and the HLPC is written only while the interpreter loop is innermost (which
  is what `TrackingInLoop` says of the tracer).
* Tracers: the thread stays below its announced stack top; a call pushes below
  the caller's frame (both are assertions in the code); the structure is set
  "before the interpreter starts forking" (`InterpreterTracer.h`);
  an activation does not write the HLPC of a live outer one. `ReuseLocations`
  says whether it may use the location of an HL frame left behind.
* Analyzer: the guest kernel reports threads, and loads page tables, in kernel
  mode; an exited thread does not return to user mode; the calibration protocol
  is kept, and runs in user mode. A guest that `"shares"` page tables between
  threads is exempt from `ThreadsSchedulable`, one that `"forksEarly"`, before
  the structure is known, from `DetectorFindsThread`; every other property holds
  of them too.
* `IdleGuest`: a state that reported success, and is thereby suspended, does
  nothing until the next timer tick.
* `LongSlices`: a time slice of iterative deepening ends at the timer, with the
  state still searched.
* `EndsInGroup = FALSE` (`merging`): no path ends, and no state is balanced
  away, inside a merge group. `merging_lost` shows why that matters.
* `StaleIds = FALSE`: the guest of the cooperative searcher names live states.
* A critical section on shared memory is atomic: the semaphore is taken from how
  `S2ESynchronizedObject` uses it.

### Fairness

* `sprout`: weak fairness of the update loop (a handler runs to its end), of the
  running state, which writes another HLPC or terminates (the CPU runs it;
  `MaxDepth` makes the number of writes finite), and of replacing a terminated
  running state (S2E cannot run it). Nothing is assumed of the timer or of which
  state is selected.
* `merging`: weak fairness of `updateStates()`, of the timer (it is re-armed by
  its own callback), of the selection (the timer's callback runs to its end) and
  of the stop. Strong fairness of the two things the guest does: a state that is
  run again and again reaches the end of its group and, outside of it, the end
  of its path. A state that is never run gets nothing from it.
* `cooperative`: the same of the main loop, and strong fairness of `Yield`:
  `NoStarvation` is about guests that yield again and again and wait to be
  switched.

### Findings

1. `topo_cursor`: three states; one HL state's cursor passes a LL state that
   has left its path, and a later fork copies that cursor to the HL state which
   is to run it. The walk never goes back, and its assertion fails.
2. `tracers_reuse`: one HL frame is popped per return even when several were
   entered; reusing the location of one that was left behind empties the HL
   stack under live activations.
3. `merging_lost`: in concolic mode a member of a merge group may be found
   infeasible and be terminated before the end of the group. Nothing resumes
   the state that waits for it, and S2E stops with "All states were terminated".

Met while modelling, and the reason for an assumption or a weaker property
rather than a run of their own:

* `HighLevelExecutor.h:158`: the invariant in the comment of `HighLevelState`
  holds for the selected HL state only. `HighLevelExecutor.cpp:409`: an HLPC of
  0 trips the assertion after the fork loop; hence `0 \notin HLPC` below.
* `LowLevelStrategy.cpp:102`: with only untracked states left the target is
  stale; hence `ForkUntracked`.
* `Executor.cpp:1114`: past the depth limit the termination of the running side
  throws before the other side is terminated, and that one keeps its active
  flag; hence `DepthUnlimited` in `ActiveIsCurrent`.
* `StateManager.cpp:525`: a suspended state executes on until the timer tick,
  where a fork or an end is not expected; hence `IdleGuest`.
  `StateManager.cpp:561` adds up success counts that include copies of one
  state.
* `Searcher.cpp:391`: a slice that ends while the state runs removes the same
  state at each instruction; hence `LongSlices`.
* `MergingSearcher.cpp:247`: the pool may point to a first state that load
  balancing has terminated; hence `EndsInGroup`.
* `CooperativeSearcher.cpp:169`: an unknown id is reported and then used; hence
  `StaleIds`. A second `Yield` before the switch skips a state (`:195`); hence
  guests that wait.
* `OSTracer.cpp:240`: of two threads with one page table only the first is
  found; `InterpreterAnalyzer.cpp:228`: an exit in one S2E state takes the
  tracers down for all; `InterpreterDetector.cpp:486`: calibration is one flag
  for all states; hence the kinds of guest.

## Proofs

Each proof module has an invariant that the properties follow from, a lemma per
action or group of actions that it is preserved, and the theorems. All of them
are for every value of the constants that satisfies the module's named
assumptions, which are types, finiteness and distinctness of null values.

**`HighLevelExecutor_proofs`** — for every set of S2E
states, every finite set of HLPCs, both selectors and every depth: `TypeOK`,
`Covered`, `DistinctPaths`, `SelectorInSync`, `TargetRunnable`,
`LoneStateInterruptible`, `HighLevelProgress` and `ImplementsSearch`; and
`SteppingSuccessor` under the hypothesis that 0 is not an HLPC, without which it
is false. None of them is inductive. `ExecutorInv` is:

* `TreeInv`: segments are closed under prefixes; the segments of a path form a
  chain; a segment with children has exactly one on its own path. The last is
  what a fork relies on, and is kept because `getNextSegment()` gives the first
  child, and only it, the path of its parent.
* `FrontierInv`: HL states are an antichain in the prefix order that covers the
  LL states; the selector holds exactly them; between events the selected one
  is the target and has a LL state.

The argument for the update: the selected HL state leaves a segment without LL
states, so everything it covered is at or below a child (`ChildTowards`); it and
its forks take exactly the children (`AdvanceFrontier`), which are pairwise
incomparable (`SiblingsApart`), so the frontier stays an antichain with the same
cover; without children it covered nothing (`NothingBelow`). `DistinctPaths`
follows since paths are chains and the frontier is an antichain.
`TargetRunnable` needs the loop's exit condition together with the cover: while
a LL state is tracked, an HL state exists and hence one is selected.
`HighLevelProgress` and the refinement use the same invariant step by step; the
refinement maps traces to segments and the frontier to the HL states' segments,
and path ids, queue, selected and target state disappear.
For the sprout strategy, if no state forks untracked (`~ForkUntracked`): every
step is one of the executor, and `SelectableTarget`. `SproutInv`: every state is
tracked, or there is one state and no target yet; the rest is `ExecutorInv`.

**`S2EExecutor_proofs`** — for every set of states, every searcher and every
option, if `QuietSuccess` (a guest that reports success is idle until the tick):
`Bookkeeping` (`TypeOK`, `RemovedAreStates`, `DeletedUnreachable`,
`ExecutingIsSearched`, `CurrentFeasible`, `NoneLost`) and `SwitchAssertions`
(`ActiveIsCurrent`). The invariant says where a state can be (`Places`: the
sets are disjoint and together hold what was created), what the flags say about
its place (`Flags`: a terminated state that is still searched is about to be
removed) and what the phase of the loop excludes (`Loop`: in the CPU loop only
the running state's own termination is pending). `NoneLost` alone is not
inductive, since a removal of a state that is in two sets, or is not searched,
would lose or revive it. With `ImplementsExecutor`, which is proved for each
searcher (here and below; `PathImplementsExecutor` of the random walk), the
theorems reach the four searcher modules.
`DeletedUnreachable` is also stated alone: a state that is to be deleted, or was,
is in no set the executor selects from, and the running one was not freed.
For the merging searcher, if no state ends in a group (`~EndsInGroup`), it has
`PoolsMatchGroups` and `ImplementsExecutor`. `MergeInv`: a searched state is
active or waits, not both, and one that waits is not being removed
(`WaitingApart`); a pool holds the active members of its group, and whoever
waits in it waits for one of them (`PoolsHold`). The last conjunct is why the
searcher is never empty while the executor has a state, and it is what fails
in `merging_lost`.

**`S2EProcesses_proofs`** — for any number of slots, indexes and states, with
and without crashes: `SlotsMatch` (the assertion of `~S2E()`), `SlotFree`, `UniqueStateIds`,
`SuccessCounted`, `IndexFresh`, `TracesApart`, `BalancingKeepsStates`. The
heart is `Count`: the shared process count is the number of used slots plus the
number of places that were counted and have no slot yet (or never will, their
process being lost). A count of at most `MaxProcesses` then leaves a free slot
for every counted child, although counting and claiming are two critical
sections in two processes. `Slots` is the bijection of slots and owners,
`Indexes` ties each fork under way to an index nobody else has, and `Memory`
says that parent and child, which both still hold all states after the fork,
will keep disjoint halves.

**`OSTracer_proofs`** — for any number of states, threads and page tables, all
the properties of the run `analyzer`, and `AnalyzerTypeOK`, `OnlyActiveRuns` and
`SpacesOwned` (the assertions of `onPageDirectoryChange()`), `ModeTracked` and
`DetectorTracks`. Every `OSTracerState`, that of a killed
state included, is `Consistent` with the mode of its CPU: objects have the names
of their threads (`Named`), the marks are those of the active thread (`Marked`)
and address spaces refer to threads that exist and have that page table
(`Owned`); each operator of the tracer preserves this by a lemma of its own
(`StartedConsistent`, `ScheduledConsistent`, `CloneConsistent`, ...). The
stronger part is that in user mode the active thread is always a known one:
a thread that is only kept alive by being active has exited and is in the
kernel. Hence a connection made for the tracked thread cannot outlive it, and a
call stack is only made for a thread that a fork will copy.

**`PTree_proofs`** — for every set of states and every option, under
`QuietSuccess`: `LeavesAreStates`, `ActiveIffSearched` and, for the random walk,
`PathImplementsExecutor`. `TreeInv` gives the tree outright: its nodes are the
prefixes (`PathsTo`) of the leaves of the states that are searched or suspended,
its active nodes those of the searched ones, and no leaf is on the way to
another (`Apart`). So each operation on the tree is an equation about
prefixes: `split()` replaces a leaf by its two children (`SplitPaths`), and what
`remove()` and `deactivate()` take away, a leaf and its ancestors up to the first
with another child, is what the other leaves do not share (`RemovePath`). That
needs the point where two nodes part (`Parting`). A batch of removals is one
operation by `RemoveStates`, which takes a minimal set for which it would fail.
The walk ends at a leaf since a step from an active inner node has an active
node to go to (`StepActive`, `WalkSelects`).

**`Searchers_proofs`** — for every set of states and every option, under
`QuietSuccess`:

* cooperative searcher, if the guest names live states (`~StaleIds`):
  `SelectionSearched` and `ImplementsExecutor`. `CoopInv`: its map is the
  executor's set at every moment, and as long as there is a state, one of them is
  selected. The successor by id that `Yield` takes, and the first state that
  replaces one that ended, exist because a non-empty set of numbers has a least
  element.
* the stacks of KLEE searchers, with slices that end at the timer
  (`LongSlices`): `SearchersInSync`, `NoInvalidRemoval` and `ImplementsExecutor`.
  `UserInv`: the DFS vector lists the unpaused states once each, the random
  searcher holds the same ones, the batch and the DFS remember only listed
  states (`InSync`); paused and listed states are apart and together the
  executor's, nothing is paused when nothing is listed, and the running state is
  not paused. The deletions from the vector are `Remaining`, which places every
  kept state by its rank; that they fill the places without a gap is a
  pigeonhole argument (`InjectionOnto`, `RemainingStates`).

**`InterpreterTracer_proofs`** — for any number of states, frames, stack words and
HLPC locations: `FramesTile`; and if the HLPC location of a returned activation
is not used again (`~ReuseLocations`, without which `tracers_reuse` refutes it)
`ActivationsOnStack`, `TrackingInLoop` and `HighLevelStackNotEmpty`. `CallInv`:
every live state's frames tile the stack from its top, each younger than those
below. `HighInv`: the first HL frames of the activations are in the order of
these on the call stack (`Follows`). The weaker statement, that every activation
has an HL frame, is not inductive: a return pops one HL frame whatever was
entered, and only the order says that it is not the frame of an outer
activation. That as many HL frames lie above a place as activations have their
first one there (`RoomAbove`) is again a pigeonhole argument.

**`LowLevelStrategy_proofs`** — for any number of states, HLPCs, blocks and
levels: with the topologic strategy every step is one of `HighLevelExecutor`
(`TopoImplementsExecutor`), so the theorems above hold with it; `TopologicOrder`,
`LoopLevels`, `CurrentOnPath` and `CursorBehind`. `Before` is shown to be a strict
order (`BeforeTrans`, `BeforeIrreflexive`); calls, returns and block entries
move forward in it (`CallForward`, `ReturnForward`, `BlockForward`) because a loop
level holds only blocks up to the one that the loop was re-entered from
(`WellFormed`). For `CursorBehind`, `SinglePath` says that with one path there is
one HL state, that it is the target and that no state is behind the active
cursor; each walk stops at a least state of the target (`ScheduledAhead`), so
nothing is passed.

Induction over data enters these proofs as arguments about a least element: the
library's induction theorems take an operator and cannot be instantiated, but
that a non-empty set of numbers has a least element, and a non-empty set of
subsets of a finite set a minimal one, is about sets (`LeastNat`,
`MinimalSubset`): the smallest counterexample is a member of one.

### Only model-checked

Liveness (`UpdateTerminates`, `ExplorationCompletes`, `WaitingResumes`,
`CpuResumes`, `Reclaimed`, `NoStarvation`), which is out of the prover's reach
with the fairness and `ENABLED` it needs. All safety properties of the passing
runs are theorems.

## Coverage and what is not modelled

The repository contains QEMU, KLEE, STP and the guest tools in full, about a
million lines; the definitions here stand for about 3,000 lines of it, 0.3%.
About half of these are in `qemu/s2e/Chef` and its plugin, whose 5,200 lines
(headers, comments and license texts included) they cover to 29%; the rest
are the parts of S2E's executor, processes, searchers and KLEE's bookkeeping
that decide which state exists and runs. Most of the repository can never be
covered by models of this kind:

* the solver, the emulator and its devices, the translator, the symbolic
  interpreter of LLVM code, expressions and memory objects: their effect on
  what is modelled is a fork, a kill, a switch or a guest event, and all
  outcomes of these are explored. How a fork's condition is decided, how
  machine state is saved and loaded, and what a merge does to two machine
  states is data of this kind;
* the translation cache, and with it which instrumented blocks outlive a thread
  switch (`CallTracer.cpp:217`);
* storage below a step: iterators into vectors and maps that change during a
  dispatch (`S2ESyscallMonitor.cpp:128`, `StreamAnalyzer.h:160`), and the order
  of destructors in the plugin's `reset()` calls (`InterpreterAnalyzer.cpp:191`);
* the detector's analysis of its recording, a search over data of the guest;
* decoding of opcodes, statistics, logging and the contents of traces;
* `MaxTbSearcher`, `WeightedRandomSearcher` and the weighted selectors, which
  choose by coverage counters and real weights. Any choice they could make among
  the executor's states is covered by `S2EExecutor`; that they keep their copy
  of the states in step is not;
* the other S2E plugins, which log or edit guest memory and share no state with
  what is modelled.

Dead code is left out: the command protocol of the state manager (its callback
is commented out, `StateManager.cpp:327`), `checkDeadProcesses()` (never
called), the slab allocator (`slab_init()` is commented out, `S2E.cpp:272`),
`PTree::activate()` and `resumeState()`, KLEE's bump merging searchers, and the
OS tracer's memory map and `terminated_` flag, which are never read.
