----------------------------- MODULE S2EProcesses -----------------------------
(***************************************************************************)
(* The processes among which S2E balances its execution states             *)
(* (qemu/s2e/S2E.cpp, doLoadBalancing() in S2EExecutor.cpp) and what they  *)
(* share: the counters and the instance map of S2EShared, and the success  *)
(* counts of the StateManager plugin.  A process is named by its index,    *)
(* which also names its output directory.  A critical section on shared    *)
(* memory is one step; between two of them the other processes run.        *)
(***************************************************************************)
EXTENDS Naturals, FiniteSets

CONSTANTS
    MaxProcesses, \* m_maxProcesses
    MaxIndex,     \* bound on the process indexes
    MaxStateId,   \* bound on the state ids
    Crashes,      \* whether a process may die without running ~S2E()
    NoProcess     \* (unsigned) -1, and a NULL file

ASSUME ProcessAssumption ==
    /\ MaxProcesses \in Nat \ {0} /\ MaxIndex \in Nat /\ MaxStateId \in Nat \ {0}
    /\ Crashes \in BOOLEAN /\ NoProcess \notin Nat

Process == 0..MaxIndex
Slot == 0..MaxProcesses - 1
StateId == 0..MaxStateId - 1

VARIABLES
    currentProcessCount, lastFileId, lastStateId, processIds, \* S2EShared
    successCount, \* StateManagerShared::successCount
    status,       \* where each process is in doLoadBalancing() and S2E::fork()
    processId,    \* m_currentProcessId, its slot in processIds
    newIndex,     \* newProcessIndex in S2E::fork()
    states,       \* the executor's states, by id
    lower,        \* the first half of allStates in doLoadBalancing()
    succeeded,    \* StateManager::m_succeeded
    logFile       \* the directory of ExecutionTracer::m_LogFile

shared == <<currentProcessCount, lastFileId, lastStateId, processIds, successCount>>
own == <<processId, newIndex, states, lower, succeeded, logFile>>
vars == <<shared, status, own>>

\* "none", and "failed" after fork(2) failed: no process has the index.
\* "reserved": counted, but not created.  "forked": the child has no slot yet;
\* "claimed": it has.  "lost": it died, or was never made, without a slot.
Status == {"none", "reserved", "failed", "forked", "claimed", "running", "balancing",
           "forking", "splitting", "exiting", "exited", "crashed", "lost"}

TypeOK ==
    /\ currentProcessCount \in 0..MaxProcesses
    /\ lastFileId \in 1..MaxIndex + 1 /\ lastStateId \in 1..MaxStateId
    /\ processIds \in [Slot -> Process \cup {NoProcess}]
    /\ successCount \in [Slot -> Nat]
    /\ status \in [Process -> Status] /\ processId \in [Process -> Slot]
    /\ newIndex \in [Process -> Process \cup {NoProcess}]
    /\ states \in [Process -> SUBSET StateId] /\ lower \in [Process -> SUBSET StateId]
    /\ succeeded \in [Process -> SUBSET StateId]
    /\ logFile \in [Process -> Process \cup {NoProcess}]

\* S2E::S2E(), createInitialState() and ExecutionTracer::initialize().
Init ==
    /\ currentProcessCount = 1 /\ lastFileId = 1 /\ lastStateId = 1
    /\ processIds = [i \in Slot |-> IF i = 0 THEN 0 ELSE NoProcess]
    /\ successCount = [i \in Slot |-> 0]
    /\ status = [p \in Process |-> IF p = 0 THEN "running" ELSE "none"]
    /\ processId = [p \in Process |-> 0] /\ newIndex = [p \in Process |-> NoProcess]
    /\ states = [p \in Process |-> IF p = 0 THEN {0} ELSE {}]
    /\ lower = [p \in Process |-> {}] /\ succeeded = [p \in Process |-> {}]
    /\ logFile = [p \in Process |-> IF p = 0 THEN 0 ELSE NoProcess]

-----------------------------------------------------------------------------
\* Mutant of newState: the id is read in one critical section and counted in
\* another, and a second process has read it as well.
newStateStale(p) ==
    /\ status[p] = "running" /\ states[p] # {} /\ lastStateId < MaxStateId
    /\ \E id \in {lastStateId - 1, lastStateId} :
          states' = [states EXCEPT ![p] = @ \cup {id}]
    /\ lastStateId' = lastStateId + 1
    /\ UNCHANGED <<currentProcessCount, lastFileId, processIds, successCount, status,
                   processId, newIndex, lower, succeeded, logFile>>

\* A state forks: clone() takes a state id, and the fork is traced.
newState(p) ==
    /\ status[p] = "running" /\ states[p] # {} /\ lastStateId < MaxStateId
    /\ states' = [states EXCEPT ![p] = @ \cup {lastStateId}]
    /\ lastStateId' = lastStateId + 1
    /\ UNCHANGED <<currentProcessCount, lastFileId, processIds, successCount, status,
                   processId, newIndex, lower, succeeded, logFile>>

endState(p, s) ==
    /\ status[p] = "running" /\ s \in states[p]
    /\ states' = [states EXCEPT ![p] = @ \ {s}]
    /\ UNCHANGED <<shared, status, processId, newIndex, lower, succeeded, logFile>>

\* StateManager::succeedState(), which suspends the state.
succeedState(p, s) ==
    /\ status[p] = "running" /\ s \in states[p]
    /\ states' = [states EXCEPT ![p] = @ \ {s}]
    /\ succeeded' = [succeeded EXCEPT ![p] = @ \cup {s}]
    /\ successCount' = [successCount EXCEPT ![processId[p]] = Cardinality(succeeded'[p])]
    /\ UNCHANGED <<currentProcessCount, lastFileId, lastStateId, processIds, status,
                   processId, newIndex, lower, logFile>>

\* doLoadBalancing() up to S2E::fork(): a first look at the process count, and
\* onProcessFork, where the trace file is closed.  The order of allStates is
\* that of the states' addresses, which the child inherits.
doLoadBalancing(p) ==
    /\ status[p] = "running" /\ Cardinality(states[p]) >= 2
    /\ currentProcessCount # MaxProcesses
    /\ lastFileId + Cardinality({q \in Process : status[q] = "balancing"}) <= MaxIndex
    /\ \E h \in SUBSET states[p] :
          /\ Cardinality(h) = Cardinality(states[p]) \div 2
          /\ lower' = [lower EXCEPT ![p] = h]
    /\ logFile' = [logFile EXCEPT ![p] = NoProcess]
    /\ status' = [status EXCEPT ![p] = "balancing"]
    /\ UNCHANGED <<shared, processId, newIndex, states, succeeded>>

\* S2E::fork() finds all slots taken; the trace file is opened again.
forkRefused(p) ==
    /\ status[p] = "balancing" /\ currentProcessCount = MaxProcesses
    /\ status' = [status EXCEPT ![p] = "running"]
    /\ lower' = [lower EXCEPT ![p] = {}]
    /\ logFile' = [logFile EXCEPT ![p] = p]
    /\ UNCHANGED <<shared, processId, newIndex, states, succeeded>>

\* Mutant of reserve: the count that doLoadBalancing() saw is relied on.
reserveUnchecked(p) ==
    /\ status[p] = "balancing" /\ lastFileId <= MaxIndex
    /\ newIndex' = [newIndex EXCEPT ![p] = lastFileId]
    /\ status' = [status EXCEPT ![p] = "forking", ![lastFileId] = "reserved"]
    /\ lastFileId' = lastFileId + 1
    /\ currentProcessCount' = currentProcessCount + 1
    /\ UNCHANGED <<lastStateId, processIds, successCount, processId, states, lower,
                   succeeded, logFile>>

\* The first critical section of S2E::fork(): an index and a place are taken.
reserve(p) ==
    /\ status[p] = "balancing" /\ currentProcessCount # MaxProcesses
    /\ lastFileId <= MaxIndex
    /\ newIndex' = [newIndex EXCEPT ![p] = lastFileId]
    /\ status' = [status EXCEPT ![p] = "forking", ![lastFileId] = "reserved"]
    /\ lastFileId' = lastFileId + 1
    /\ currentProcessCount' = currentProcessCount + 1
    /\ UNCHANGED <<lastStateId, processIds, successCount, processId, states, lower,
                   succeeded, logFile>>

\* fork(2) fails: the place is given back, the index is not.
forkFails(p) ==
    /\ status[p] = "forking"
    /\ currentProcessCount' = currentProcessCount - 1
    /\ status' = [status EXCEPT ![p] = "running", ![newIndex[p]] = "failed"]
    /\ newIndex' = [newIndex EXCEPT ![p] = NoProcess]
    /\ lower' = [lower EXCEPT ![p] = {}]
    /\ logFile' = [logFile EXCEPT ![p] = p]
    /\ UNCHANGED <<lastFileId, lastStateId, processIds, successCount, processId, states,
                   succeeded>>

\* fork(2): the child is a copy of its parent.
fork(p) ==
    /\ status[p] = "forking"
    /\ LET c == newIndex[p]
       IN  /\ status' = [status EXCEPT ![p] = "splitting", ![c] = "forked"]
           /\ processId' = [processId EXCEPT ![c] = processId[p]]
           /\ states' = [states EXCEPT ![c] = states[p]]
           /\ lower' = [lower EXCEPT ![c] = lower[p]]
           /\ succeeded' = [succeeded EXCEPT ![c] = succeeded[p]]
           /\ newIndex' = [newIndex EXCEPT ![p] = NoProcess]
    /\ UNCHANGED <<shared, logFile>>

\* Mutant of parentSplit: both sides keep the same half.
parentSplitUpper(p) ==
    /\ status[p] = "splitting"
    /\ states' = [states EXCEPT ![p] = @ \ lower[p]]
    /\ lower' = [lower EXCEPT ![p] = {}]
    /\ logFile' = [logFile EXCEPT ![p] = p]
    /\ status' = [status EXCEPT ![p] = "running"]
    /\ UNCHANGED <<shared, processId, newIndex, succeeded>>

\* The rest of doLoadBalancing() in the parent: it appends to its trace file and
\* terminates the second half of the states.
parentSplit(p) ==
    /\ status[p] = "splitting"
    /\ states' = [states EXCEPT ![p] = lower[p]]
    /\ lower' = [lower EXCEPT ![p] = {}]
    /\ logFile' = [logFile EXCEPT ![p] = p]
    /\ status' = [status EXCEPT ![p] = "running"]
    /\ UNCHANGED <<shared, processId, newIndex, succeeded>>

FreeSlots == {i \in Slot : processIds[i] = NoProcess}

\* The second critical section of S2E::fork(), in the child.
claimSlot(c) ==
    /\ status[c] = "forked"
    /\ \E i \in FreeSlots :
          /\ \A j \in FreeSlots : i <= j
          /\ processIds' = [processIds EXCEPT ![i] = c]
          /\ processId' = [processId EXCEPT ![c] = i]
    /\ status' = [status EXCEPT ![c] = "claimed"]
    /\ UNCHANGED <<currentProcessCount, lastFileId, lastStateId, successCount, newIndex,
                   states, lower, succeeded, logFile>>

\* Mutant of childSplit: the StateManager does not count the child's copies.
childSplitUncounted(c) ==
    /\ status[c] = "claimed"
    /\ states' = [states EXCEPT ![c] = @ \ lower[c]]
    /\ lower' = [lower EXCEPT ![c] = {}]
    /\ logFile' = [logFile EXCEPT ![c] = c]
    /\ status' = [status EXCEPT ![c] = "running"]
    /\ UNCHANGED <<shared, processId, newIndex, succeeded>>

\* onProcessFork and the rest of doLoadBalancing() in the child: suspended
\* states were copied, a trace file is opened in its directory, and the first
\* half of the states is terminated.
childSplit(c) ==
    /\ status[c] = "claimed"
    /\ successCount' = [successCount EXCEPT ![processId[c]] = Cardinality(succeeded[c])]
    /\ states' = [states EXCEPT ![c] = @ \ lower[c]]
    /\ lower' = [lower EXCEPT ![c] = {}]
    /\ logFile' = [logFile EXCEPT ![c] = c]
    /\ status' = [status EXCEPT ![c] = "running"]
    /\ UNCHANGED <<currentProcessCount, lastFileId, lastStateId, processIds, processId,
                   newIndex, succeeded>>

\* S2E::~S2E(): first the plugins go, and StateManager takes back its count.
exit(p) ==
    /\ status[p] = "running"
    /\ successCount' = [successCount EXCEPT ![processId[p]] = @ - Cardinality(succeeded[p])]
    /\ logFile' = [logFile EXCEPT ![p] = NoProcess]
    /\ status' = [status EXCEPT ![p] = "exiting"]
    /\ UNCHANGED <<currentProcessCount, lastFileId, lastStateId, processIds, processId,
                   newIndex, states, lower, succeeded>>

\* The memory of a process goes with it.
discard(p) ==
    /\ states' = [states EXCEPT ![p] = {}] /\ lower' = [lower EXCEPT ![p] = {}]
    /\ succeeded' = [succeeded EXCEPT ![p] = {}]
    /\ logFile' = [logFile EXCEPT ![p] = NoProcess]
    /\ newIndex' = [newIndex EXCEPT ![p] = NoProcess]

\* S2E::~S2E(): then the slot is released, and others can fork more.
releaseSlot(p) ==
    /\ status[p] = "exiting"
    /\ processIds' = [processIds EXCEPT ![processId[p]] = NoProcess]
    /\ currentProcessCount' = currentProcessCount - 1
    /\ status' = [status EXCEPT ![p] = "exited"] /\ discard(p)
    /\ UNCHANGED <<lastFileId, lastStateId, successCount, processId>>

Alive(p) == status[p] \in {"forked", "claimed", "running", "balancing", "forking",
                           "splitting", "exiting"}

\* A process dies outside the critical sections.  Nobody calls
\* checkDeadProcesses(): its slot, or the place of its child, stays taken.
crash(p) ==
    /\ Crashes /\ Alive(p)
    /\ status' = [q \in Process |->
                    IF q = p THEN IF status[p] = "forked" THEN "lost" ELSE "crashed"
                    ELSE IF q = newIndex[p] THEN "lost" ELSE status[q]]
    /\ discard(p)
    /\ UNCHANGED <<shared, processId>>

\* No process is left.
allGone == (\A p \in Process : ~Alive(p)) /\ UNCHANGED vars

Next ==
    \/ \E p \in Process :
          \/ newState(p)
          \/ \E s \in StateId : endState(p, s) \/ succeedState(p, s)
          \/ doLoadBalancing(p) \/ forkRefused(p) \/ reserve(p) \/ forkFails(p) \/ fork(p)
          \/ parentSplit(p) \/ claimSlot(p) \/ childSplit(p)
          \/ exit(p) \/ releaseSlot(p) \/ crash(p)
    \/ allGone

Spec == Init /\ [][Next]_vars

-----------------------------------------------------------------------------
\* Each process with a slot is the one that the instance map has there: the
\* assertion of ~S2E() holds, and no two share a slot and its success count.
SlotsMatch ==
    \A p \in Process :
        Alive(p) /\ status[p] # "forked" => processIds[processId[p]] = p

\* A child that asks for a slot finds one: the assertion i < m_maxProcesses of
\* S2E::fork() holds, although the place was counted by its parent earlier, in
\* another critical section, and processes exit, fail to fork and crash.
SlotFree ==
    Cardinality({p \in Process : status[p] \in {"reserved", "forked"}}) <= Cardinality(FreeSlots)

\* What a process goes on with once it has terminated its half.
Kept(p) ==
    IF status[p] = "splitting" THEN lower[p]
    ELSE IF status[p] \in {"forked", "claimed"} THEN states[p] \ lower[p]
    ELSE states[p]

\* "We must have unique state ids across all processes" (S2EShared): no state
\* is explored by two processes, and the next id is new to all of them.
UniqueStateIds ==
    /\ \A p, q \in Process : p # q /\ Alive(p) /\ Alive(q) => Kept(p) \cap Kept(q) = {}
    /\ \A p \in Process : states[p] \subseteq 0..lastStateId - 1

Live == UNION {Kept(p) \cup succeeded[p] : p \in Process}

\* Load balancing loses no state, whatever fails on the way: one is only gone
\* when a running process ends its path, or with the process that had it.
BalancingKeepsStates ==
    [][\A s \in Live \ Live' : \E p \in Process :
          /\ s \in Kept(p) \cup succeeded[p]
          /\ \/ status[p] = "running" /\ status'[p] = "running"
             \/ status'[p] \in {"exited", "crashed", "lost"}]_vars

\* StateManager::checkInvariants(): the shared count is that of the process in
\* the slot, also when the slot had another owner before.
SuccessCounted ==
    \A p \in Process :
        status[p] \in {"running", "balancing", "forking", "splitting"} =>
            successCount[processId[p]] = Cardinality(succeeded[p])

\* An index is given out once, also after a failed fork: the next one belongs
\* to no process, and to no fork that is under way.
IndexFresh ==
    /\ \A p \in Process : status[p] = "forking" => status[newIndex[p]] = "reserved"
    /\ lastFileId \in Process => status[lastFileId] = "none"

\* Two processes never write the same trace file, although the child starts
\* with its parent's file name.
TracesApart ==
    \A p, q \in Process : p # q /\ logFile[p] # NoProcess => logFile[p] # logFile[q]
=============================================================================
