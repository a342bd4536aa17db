------------------------- MODULE S2EProcesses_proofs -------------------------
(***************************************************************************)
(* Proofs, for any number of slots, process indexes and states, that load  *)
(* balancing keeps the instance map, the process count, the indexes and    *)
(* the states of the processes apart.                                      *)
(***************************************************************************)
EXTENDS S2EProcesses, FiniteSetTheorems, TLAPS

\* A crashed process keeps its slot.
HasSlot(p) == status[p] \in {"claimed", "running", "balancing", "forking", "splitting",
                             "exiting", "crashed"}
Used == {i \in Slot : processIds[i] # NoProcess}
\* The places that were counted and have no slot yet, or never get one.
Pending == {p \in Process : status[p] \in {"reserved", "forked", "lost"}}

\* Slots and their owners are in bijection.
Slots ==
    /\ \A p \in Process : HasSlot(p) => processIds[processId[p]] = p
    /\ \A i \in Used : HasSlot(processIds[i]) /\ processId[processIds[i]] = i

\* The count is that of the slots and of the places still to be filled.
Count == currentProcessCount = Cardinality(Used) + Cardinality(Pending)

\* Who is about to fork has an index of their own, which no process has yet.
Indexes ==
    /\ \A p \in Process : p >= lastFileId => status[p] = "none"
    /\ \A p \in Process : status[p] = "forking" <=> newIndex[p] # NoProcess
    /\ \A p \in Process : newIndex[p] # NoProcess => status[newIndex[p]] = "reserved"
    /\ \A p, q \in Process : newIndex[p] = newIndex[q] /\ newIndex[p] # NoProcess => p = q

\* No state is kept by two processes, and the dead have none.
Memory ==
    /\ \A p \in Process : lower[p] \subseteq states[p]
    /\ \A p \in Process : status[p] = "running" => lower[p] = {}
    /\ \A p \in Process : states[p] \subseteq 0..lastStateId - 1
    /\ \A p \in Process : ~Alive(p) => states[p] = {} /\ succeeded[p] = {}
    /\ \A p, q \in Process : p # q => Kept(p) \cap Kept(q) = {}
    /\ \A p \in Process : logFile[p] \in {NoProcess, p}

\* The inductive invariant.
IInv == TypeOK /\ Slots /\ Count /\ Indexes /\ Memory /\ SuccessCounted

\* A set of state ids is finite.
LEMMA FiniteStates == ASSUME NEW S \in SUBSET StateId PROVE IsFiniteSet(S)
<1>1. IsFiniteSet(StateId)
  BY FS_Interval, ProcessAssumption DEF StateId
<1> QED  BY <1>1, FS_Subset

\* The processes, their slots and their succeeded states are finitely many, so
\* that they can be counted.
LEMMA Finite ==
    ASSUME TypeOK
    PROVE  /\ IsFiniteSet(Used) /\ IsFiniteSet(Pending)
           /\ Cardinality(Used) \in Nat /\ Cardinality(Pending) \in Nat
           /\ \A p \in Process : Cardinality(succeeded[p]) \in Nat
<1>1. IsFiniteSet(Slot) /\ IsFiniteSet(Process)
  BY FS_Interval, ProcessAssumption DEF Slot, Process
<1>2. Used \subseteq Slot /\ Pending \subseteq Process
  BY DEF Used, Pending
<1>3. IsFiniteSet(Used) /\ IsFiniteSet(Pending)
  BY <1>1, <1>2, FS_Subset
<1>4. ASSUME NEW p \in Process PROVE Cardinality(succeeded[p]) \in Nat
  <2>1. succeeded[p] \in SUBSET StateId  BY DEF TypeOK
  <2> QED  BY <2>1, FiniteStates, FS_CardinalityType
<1> QED  BY <1>3, <1>4, FS_CardinalityType

\* The first process, with slot 0 and the first state, satisfies the invariant.
LEMMA InitInv == Init => IInv
<1> SUFFICES ASSUME Init PROVE IInv
  OBVIOUS
<1> USE ProcessAssumption DEF Init
<1>1. TypeOK
  BY DEF TypeOK, Process, Slot, StateId, Status
<1>2. Slots
  BY DEF Slots, HasSlot, Used, Process, Slot
<1>3. Used = {0} /\ Pending = {}
  BY DEF Used, Pending, Slot, Process
<1>4. Count
  <2>1. Cardinality({0}) = 1 /\ Cardinality({}) = 0
    BY Zenon, FS_Singleton, FS_EmptySet
  <2> QED  BY <1>3, <2>1 DEF Count
<1>5. Indexes
  BY DEF Indexes, Process
<1>6. Memory
  BY DEF Memory, Process, Kept, Alive
<1>7. SuccessCounted
  BY FS_EmptySet DEF SuccessCounted, Slot, Process
<1> QED  BY <1>1, <1>2, <1>4, <1>5, <1>6, <1>7 DEF IInv

\* Every step of a process, its crash included, keeps the invariant.
LEMMA NextInv == ASSUME IInv, [Next]_vars PROVE IInv'
<1> USE ProcessAssumption DEF IInv
<1>0. /\ IsFiniteSet(Used) /\ IsFiniteSet(Pending)
      /\ Cardinality(Used) \in Nat /\ Cardinality(Pending) \in Nat
      /\ \A p \in Process : Cardinality(succeeded[p]) \in Nat
  BY Finite
<1>1. ASSUME NEW p \in Process, newState(p) PROVE IInv'
  <2> USE <1>1 DEF newState, shared
  <2>1. TypeOK'  BY DEF TypeOK, StateId
  <2>2. Slots'  BY DEF TypeOK, Slots, Used, HasSlot, Indexes
  <2>3. Used' = Used /\ Pending' = Pending
    BY DEF TypeOK, Used, Pending, Indexes, Alive
  <2>4. Count'  BY <2>3 DEF Count
  <2>5. Indexes'  BY DEF TypeOK, Indexes, Process, Alive
  <2>6. Memory'  BY DEF TypeOK, Memory, Kept, Alive, Indexes
  <2>7. SuccessCounted'  BY DEF TypeOK, SuccessCounted, Slots, HasSlot, Indexes
  <2> QED  BY <2>1, <2>2, <2>4, <2>5, <2>6, <2>7
<1>2. ASSUME NEW p \in Process, NEW s \in StateId, endState(p, s) PROVE IInv'
  <2> USE <1>2 DEF endState, shared
  <2>1. TypeOK'  BY DEF TypeOK, Status
  <2>2. Slots'  BY DEF TypeOK, Slots, Used, HasSlot, Indexes
  <2>3. Used' = Used /\ Pending' = Pending
    BY DEF TypeOK, Used, Pending, Indexes, Alive
  <2>4. Count'  BY <2>3 DEF Count
  <2>5. Indexes'  BY DEF TypeOK, Indexes, Process, Alive
  <2>6. Memory'  BY DEF TypeOK, Memory, Kept, Alive, Indexes
  <2>7. SuccessCounted'  BY DEF TypeOK, SuccessCounted, Slots, HasSlot, Indexes
  <2> QED  BY <2>1, <2>2, <2>4, <2>5, <2>6, <2>7
<1>3. ASSUME NEW p \in Process, NEW s \in StateId, succeedState(p, s) PROVE IInv'
  <2> USE <1>3 DEF succeedState, shared
  <2>1. TypeOK'
    <3>1. succeeded' \in [Process -> SUBSET StateId] /\ succeeded'[p] = succeeded[p] \cup {s}
      BY DEF TypeOK
    <3>2. Cardinality(succeeded'[p]) \in Nat
      BY <3>1, FiniteStates, FS_CardinalityType
    <3> QED  BY <3>1, <3>2 DEF TypeOK
  <2>2. Slots'  BY DEF TypeOK, Slots, Used, HasSlot, Indexes
  <2>3. Used' = Used /\ Pending' = Pending
    BY DEF TypeOK, Used, Pending, Indexes, Alive
  <2>4. Count'  BY <2>3 DEF Count
  <2>5. Indexes'  BY DEF TypeOK, Indexes, Process, Alive
  <2>6. Memory'  BY DEF TypeOK, Memory, Kept, Alive, Indexes
  <2>7. SuccessCounted'  BY DEF TypeOK, SuccessCounted, Slots, HasSlot, Indexes
  <2> QED  BY <2>1, <2>2, <2>4, <2>5, <2>6, <2>7
<1>4. ASSUME NEW p \in Process, doLoadBalancing(p) PROVE IInv'
  <2> USE <1>4 DEF doLoadBalancing, shared
  <2>1. TypeOK'  BY DEF TypeOK, Status
  <2>2. Slots'  BY DEF TypeOK, Slots, Used, HasSlot, Indexes
  <2>3. Used' = Used /\ Pending' = Pending
    BY DEF TypeOK, Used, Pending, Indexes, Alive
  <2>4. Count'  BY <2>3 DEF Count
  <2>5. Indexes'  BY DEF TypeOK, Indexes, Process, Alive
  <2>6. Memory'  BY DEF TypeOK, Memory, Kept, Alive, Indexes
  <2>7. SuccessCounted'  BY DEF TypeOK, SuccessCounted, Slots, HasSlot, Indexes
  <2> QED  BY <2>1, <2>2, <2>4, <2>5, <2>6, <2>7
<1>5. ASSUME NEW p \in Process, forkRefused(p) PROVE IInv'
  <2> USE <1>5 DEF forkRefused, shared
  <2>1. TypeOK'  BY DEF TypeOK, Status
  <2>2. Slots'  BY DEF TypeOK, Slots, Used, HasSlot, Indexes
  <2>3. Used' = Used /\ Pending' = Pending
    BY DEF TypeOK, Used, Pending, Indexes, Alive
  <2>4. Count'  BY <2>3 DEF Count
  <2>5. Indexes'  BY DEF TypeOK, Indexes, Process, Alive
  <2>6. Memory'  BY DEF TypeOK, Memory, Kept, Alive, Indexes
  <2>7. SuccessCounted'  BY DEF TypeOK, SuccessCounted, Slots, HasSlot, Indexes
  <2> QED  BY <2>1, <2>2, <2>4, <2>5, <2>6, <2>7
<1>6. ASSUME NEW p \in Process, reserve(p) PROVE IInv'
  <2> USE <1>6 DEF reserve, shared
  <2>1. TypeOK'
    <3>1. lastFileId \in Process /\ lastFileId' \in 1..MaxIndex + 1
      BY DEF TypeOK, Process
    <3>2. currentProcessCount' \in 0..MaxProcesses
      BY DEF TypeOK
    <3> QED  BY <3>1, <3>2 DEF TypeOK, Status
  <2>2. Slots'  BY DEF TypeOK, Slots, Used, HasSlot, Indexes
  <2>3. Used' = Used /\ Pending' = Pending \cup {lastFileId} /\ lastFileId \notin Pending
    <3>1. lastFileId \in Process /\ status[lastFileId] = "none"
      BY DEF TypeOK, Process, Indexes
    <3> QED  BY Zenon, <3>1 DEF TypeOK, Used, Pending
  <2>4. Count'
    <3>1. Cardinality(Pending') = Cardinality(Pending) + 1  BY Zenon, <1>0, <2>3, FS_AddElement
    <3> QED  BY <1>0, <2>3, <3>1 DEF TypeOK, Count
  <2>5. Indexes'  BY DEF TypeOK, Indexes, Process, Alive
  <2>6. Memory'
    <3>1. lastFileId \in Process /\ status[lastFileId] = "none"
      BY DEF TypeOK, Process, Indexes
    <3>2. ASSUME NEW q \in Process
          PROVE  /\ Kept(q)' = Kept(q) /\ (~Alive(q)' => ~Alive(q))
                 /\ (status[q] = "running")' => status[q] = "running"
      BY <3>1 DEF TypeOK, Kept, Alive
    <3> QED  BY Zenon, <3>2 DEF Memory
  <2>7. SuccessCounted'  BY DEF TypeOK, SuccessCounted, Slots, HasSlot, Indexes
  <2> QED  BY <2>1, <2>2, <2>4, <2>5, <2>6, <2>7
<1>7. ASSUME NEW p \in Process, forkFails(p) PROVE IInv'
  <2> USE <1>7 DEF forkFails, shared
  <2>2. Slots'  BY DEF TypeOK, Slots, Used, HasSlot, Indexes
  <2>3. Used' = Used /\ Pending' = Pending \ {newIndex[p]} /\ newIndex[p] \in Pending
    BY DEF TypeOK, Used, Pending, Indexes, Slots, HasSlot
  <2>8. Cardinality(Pending') = Cardinality(Pending) - 1 /\ Cardinality(Pending') \in Nat
    BY <1>0, <2>3, FS_RemoveElement, FS_CardinalityType
  <2>4. Count'  BY <1>0, <2>3, <2>8 DEF TypeOK, Count
  <2>1. TypeOK'
    <3>1. currentProcessCount' \in 0..MaxProcesses
      BY <1>0, <2>3, <2>8 DEF TypeOK, Count
    <3> QED  BY <3>1 DEF TypeOK, Status, Indexes
  <2>5. Indexes'  BY DEF TypeOK, Indexes, Process, Alive
  <2>6. Memory'
    <3>1. newIndex[p] \in Process /\ status[newIndex[p]] = "reserved"
      BY DEF TypeOK, Indexes
    <3>2. ASSUME NEW q \in Process PROVE Kept(q)' = Kept(q) /\ (~Alive(q)' => ~Alive(q))
      BY Zenon, <3>1 DEF TypeOK, Kept, Alive
    <3>3. ASSUME NEW q \in Process
          PROVE  /\ lower'[q] \subseteq states'[q] /\ logFile'[q] \in {NoProcess, q}
                 /\ (status[q] = "running")' => lower'[q] = {}
                 /\ states'[q] \subseteq 0..lastStateId' - 1
      BY <3>1 DEF TypeOK, Memory
    <3>4. \A q \in Process : ~Alive(q)' => states'[q] = {} /\ succeeded'[q] = {}
      BY <3>2 DEF Memory
    <3>5. \A q, r \in Process : q # r => (Kept(q) \cap Kept(r))' = {}
      BY <3>2 DEF Memory
    <3> QED  BY Zenon, <3>3, <3>4, <3>5 DEF Memory
  <2>7. SuccessCounted'  BY DEF TypeOK, SuccessCounted, Slots, HasSlot, Indexes
  <2> QED  BY <2>1, <2>2, <2>4, <2>5, <2>6, <2>7
<1>8. ASSUME NEW p \in Process, fork(p) PROVE IInv'
  <2> USE <1>8 DEF fork, shared
  <2>1. TypeOK'  BY DEF TypeOK, Status, Indexes
  <2>2. Slots'  BY DEF TypeOK, Slots, Used, HasSlot, Indexes
  <2>3. Used' = Used /\ Pending' = Pending
    BY DEF TypeOK, Used, Pending, Indexes, Alive
  <2>4. Count'  BY <2>3 DEF Count
  <2>5. Indexes'  BY DEF TypeOK, Indexes, Process, Alive
  <2>6. Memory'
    <3>1. PICK c \in Process : c = newIndex[p] /\ c # p /\ status[c] = "reserved"
      BY DEF TypeOK, Indexes
    <3>2. states[c] = {} /\ succeeded[c] = {}  BY <3>1 DEF Memory, Alive
    <3>3. /\ Kept(c)' = states[p] \ lower[p] /\ Kept(p)' = lower[p]
          /\ Kept(p) = states[p] /\ lower[p] \subseteq states[p]
      BY <3>1 DEF TypeOK, Memory, Kept
    <3>4. \A q \in Process \ {p, c} : Kept(q)' = Kept(q)  BY Zenon, <3>1 DEF TypeOK, Kept
    <3>5. \A q, r \in Process : q # r => (Kept(q) \cap Kept(r))' = {}
      BY <3>3, <3>4 DEF Memory
    <3>6. ASSUME NEW q \in Process
          PROVE  /\ lower'[q] \subseteq states'[q] /\ states'[q] \subseteq 0..lastStateId - 1
                 /\ (status[q] = "running")' => lower'[q] = {}
                 /\ ~Alive(q)' => states'[q] = {} /\ succeeded'[q] = {}
      BY <3>1, <3>2 DEF TypeOK, Memory, Alive
    <3> QED  BY Zenon, <3>5, <3>6 DEF Memory
  <2>7. SuccessCounted'  BY DEF TypeOK, SuccessCounted, Slots, HasSlot, Indexes
  <2> QED  BY <2>1, <2>2, <2>4, <2>5, <2>6, <2>7
<1>9. ASSUME NEW p \in Process, parentSplit(p) PROVE IInv'
  <2> USE <1>9 DEF parentSplit, shared
  <2>1. TypeOK'  BY DEF TypeOK, Status
  <2>2. Slots'  BY DEF TypeOK, Slots, Used, HasSlot, Indexes
  <2>3. Used' = Used /\ Pending' = Pending
    BY DEF TypeOK, Used, Pending, Indexes, Alive
  <2>4. Count'  BY <2>3 DEF Count
  <2>5. Indexes'  BY DEF TypeOK, Indexes, Process, Alive
  <2>6. Memory'  BY DEF TypeOK, Memory, Kept, Alive, Indexes
  <2>7. SuccessCounted'  BY DEF TypeOK, SuccessCounted, Slots, HasSlot, Indexes
  <2> QED  BY <2>1, <2>2, <2>4, <2>5, <2>6, <2>7
<1>10. ASSUME NEW p \in Process, claimSlot(p) PROVE IInv'
  <2> USE <1>10 DEF claimSlot, shared
  <2>3. PICK i \in FreeSlots : /\ processIds' = [processIds EXCEPT ![i] = p]
                               /\ processId' = [processId EXCEPT ![p] = i]
    BY Zenon
  <2>1. TypeOK'  BY <2>3 DEF TypeOK, Status, FreeSlots
  <2>2. Slots'
    <3>1. ASSUME NEW q \in Process, HasSlot(q)' PROVE processIds'[processId'[q]] = q
      BY <2>3, <3>1 DEF TypeOK, Slots, HasSlot, FreeSlots, Process
    <3>2. ASSUME NEW k \in Used'
          PROVE  (HasSlot(processIds[k]) /\ processId[processIds[k]] = k)'
      BY <2>3, <3>2 DEF TypeOK, Slots, Used, HasSlot, FreeSlots, Process
    <3> QED  BY <3>1, <3>2 DEF Slots
  <2>4. Count'
    <3>1. Used' = Used \cup {i} /\ i \notin Used /\ Pending' = Pending \ {p} /\ p \in Pending
      BY <2>3 DEF TypeOK, Used, Pending, FreeSlots, Process
    <3>2. Cardinality(Used') = Cardinality(Used) + 1  BY Zenon, <3>1, <1>0, FS_AddElement
    <3>3. Cardinality(Pending') = Cardinality(Pending) - 1  BY Zenon, <3>1, <1>0, FS_RemoveElement
    <3> QED  BY <3>2, <3>3, <1>0 DEF TypeOK, Count
  <2>5. Indexes'  BY DEF TypeOK, Indexes, Process, Alive
  <2>6. Memory'  BY DEF TypeOK, Memory, Kept, Alive, Indexes
  <2>7. SuccessCounted'  BY SMTT(40) DEF TypeOK, SuccessCounted, Slots, HasSlot, Indexes
  <2> QED  BY <2>1, <2>2, <2>4, <2>5, <2>6, <2>7
<1>11. ASSUME NEW p \in Process, childSplit(p) PROVE IInv'
  <2> USE <1>11 DEF childSplit, shared
  <2>1. TypeOK'  BY <1>0 DEF TypeOK, Status
  <2>2. Slots'  BY DEF TypeOK, Slots, Used, HasSlot, Indexes
  <2>3. Used' = Used /\ Pending' = Pending
    BY DEF TypeOK, Used, Pending, Indexes, Alive
  <2>4. Count'  BY <2>3 DEF Count
  <2>5. Indexes'  BY DEF TypeOK, Indexes, Process, Alive
  <2>6. Memory'  BY DEF TypeOK, Memory, Kept, Alive, Indexes
  <2>7. SuccessCounted'  BY SMTT(40) DEF TypeOK, SuccessCounted, Slots, HasSlot, Indexes
  <2> QED  BY Zenon, <2>1, <2>2, <2>4, <2>5, <2>6, <2>7
<1>12. ASSUME NEW p \in Process, exit(p) PROVE IInv'
  <2> USE <1>12 DEF exit, shared
  <2>1. TypeOK'
    <3>1. successCount' = [successCount EXCEPT ![processId[p]] = 0]
      <4>1. successCount[processId[p]] - Cardinality(succeeded[p]) = 0
        BY <1>0 DEF SuccessCounted
      <4> QED  BY Zenon, <4>1 DEF TypeOK
    <3> QED  BY <3>1 DEF TypeOK, Status
  <2>2. Slots'  BY DEF TypeOK, Slots, Used, HasSlot, Indexes
  <2>3. Used' = Used /\ Pending' = Pending
    BY DEF TypeOK, Used, Pending, Indexes, Alive
  <2>4. Count'  BY <2>3 DEF Count
  <2>5. Indexes'  BY DEF TypeOK, Indexes, Process, Alive
  <2>6. Memory'  BY DEF TypeOK, Memory, Kept, Alive, Indexes
  <2>7. SuccessCounted'  BY DEF TypeOK, SuccessCounted, Slots, HasSlot, Indexes
  <2> QED  BY <2>1, <2>2, <2>4, <2>5, <2>6, <2>7
<1>13. ASSUME NEW p \in Process, releaseSlot(p) PROVE IInv'
  <2> USE <1>13 DEF releaseSlot, discard, shared
  <2>2. Slots'  BY DEF TypeOK, Slots, Used, HasSlot, Indexes
  <2>3. Used' = Used \ {processId[p]} /\ Pending' = Pending /\ processId[p] \in Used
    BY SMTT(40) DEF TypeOK, Used, Pending, Slots, HasSlot, Process
  <2>8. Cardinality(Used') = Cardinality(Used) - 1 /\ Cardinality(Used') \in Nat
    BY <1>0, <2>3, FS_RemoveElement, FS_CardinalityType
  <2>4. Count'  BY <1>0, <2>3, <2>8 DEF TypeOK, Count
  <2>1. TypeOK'
    <3>1. currentProcessCount' \in 0..MaxProcesses
      BY <1>0, <2>3, <2>8 DEF TypeOK, Count
    <3> QED  BY <3>1 DEF TypeOK, Status
  <2>5. Indexes'  BY DEF TypeOK, Indexes, Process, Alive
  <2>6. Memory'  BY DEF TypeOK, Memory, Kept, Alive, Indexes
  <2>7. SuccessCounted'  BY DEF TypeOK, SuccessCounted, Slots, HasSlot, Indexes
  <2> QED  BY <2>1, <2>2, <2>4, <2>5, <2>6, <2>7
<1>14. ASSUME NEW p \in Process, crash(p) PROVE IInv'
  <2> USE <1>14 DEF crash, discard, shared
  <2>1. TypeOK'  BY DEF TypeOK, Status
  <2>2. Slots'
    <3>1. ASSUME NEW q \in Process, HasSlot(q)' PROVE processIds'[processId'[q]] = q
      BY <3>1 DEF TypeOK, Slots, HasSlot, Alive
    <3>2. ASSUME NEW k \in Used'
          PROVE  (HasSlot(processIds[k]) /\ processId[processIds[k]] = k)'
      BY <3>2 DEF TypeOK, Slots, Used, HasSlot, Alive, Indexes
    <3> QED  BY <3>1, <3>2 DEF Slots
  <2>3. Used' = Used /\ Pending' = Pending
    <3>1. Used' = Used  BY DEF Used
    <3>2. ASSUME NEW q \in Process PROVE q \in Pending <=> q \in Pending'
      <4>1. CASE q = p
        BY <4>1 DEF TypeOK, Pending, Alive
      <4>2. CASE q # p /\ q = newIndex[p]
        BY <4>2 DEF TypeOK, Pending, Indexes, Process
      <4>3. CASE q # p /\ q # newIndex[p]
        BY <4>3 DEF TypeOK, Pending
      <4> QED  BY <4>1, <4>2, <4>3
    <3> QED  BY <3>1, <3>2 DEF Pending
  <2>4. Count'  BY <2>3 DEF Count
  <2>5. Indexes'  BY DEF TypeOK, Indexes, Process, Alive
  <2>6. Memory'
    <3>1. ASSUME NEW q \in Process
          PROVE  /\ lower'[q] \subseteq lower[q] /\ states'[q] \subseteq states[q]
                 /\ lower'[q] \subseteq states'[q]
                 /\ (status[q] = "running")' => status[q] = "running"
                 /\ ~Alive(q)' => states'[q] = {} /\ succeeded'[q] = {}
                 /\ Kept(q)' \subseteq Kept(q)
      <4>1. CASE q = p
        BY <4>1 DEF TypeOK, Kept, Alive
      <4>2. CASE q # p /\ q = newIndex[p]
        <5>1. status[q] = "reserved" /\ status'[q] = "lost"
          BY <4>2 DEF Indexes, Process
        <5> QED  BY <4>2, <5>1 DEF TypeOK, Memory, Kept, Alive
      <4>3. CASE q # p /\ q # newIndex[p]
        BY <4>3 DEF TypeOK, Memory, Kept, Alive
      <4> QED  BY <4>1, <4>2, <4>3
    <3>2. \A q \in Process : logFile'[q] \in {NoProcess, q}  BY DEF TypeOK, Memory
    <3> QED  BY <3>1, <3>2 DEF Memory
  <2>7. SuccessCounted'  BY DEF TypeOK, SuccessCounted, Slots, HasSlot, Indexes
  <2> QED  BY <2>1, <2>2, <2>4, <2>5, <2>6, <2>7
<1>15. CASE UNCHANGED vars
  BY <1>15 DEF vars, shared, own, TypeOK, Slots, Used, HasSlot, Count, Pending, Indexes,
     Memory, Kept, Alive, SuccessCounted
<1> QED
  BY <1>1, <1>2, <1>3, <1>4, <1>5, <1>6, <1>7, <1>8, <1>9, <1>10, <1>11, <1>12, <1>13,
     <1>14, <1>15 DEF Next, allGone

\* The invariant holds in every reachable state.
THEOREM Invariant == Spec => []IInv
BY InitInv, NextInv, PTL DEF Spec

\* The slot of a process is the one the instance map has for it, which ~S2E()
\* asserts.
THEOREM InstanceMap == Spec => []SlotsMatch
<1>1. IInv => SlotsMatch
  BY DEF IInv, Slots, SlotsMatch, HasSlot, Alive
<1> QED  BY <1>1, Invariant, PTL

\* A child finds a free slot in S2E::fork(), however the other processes exit,
\* fork, fail to fork and crash after its parent counted it.
THEOREM SlotAvailable == Spec => []SlotFree
<1>1. ASSUME IInv PROVE SlotFree
  <2> DEFINE Waiting == {p \in Process : status[p] \in {"reserved", "forked"}}
  <2> USE ProcessAssumption
  <2>1. TypeOK /\ Count  BY <1>1 DEF IInv
  <2>2. /\ IsFiniteSet(Pending)
        /\ Cardinality(Used) \in Nat /\ Cardinality(Pending) \in Nat
    BY <2>1, Finite
  <2>3. Waiting \subseteq Pending  BY DEF Pending
  <2>4. Cardinality(Waiting) <= Cardinality(Pending) /\ Cardinality(Waiting) \in Nat
    BY <2>2, <2>3, FS_Subset, FS_CardinalityType
  <2>5. IsFiniteSet(Slot) /\ Cardinality(Slot) = MaxProcesses
    BY FS_Interval DEF Slot
  <2>6. FreeSlots = Slot \ Used /\ Slot \cap Used = Used
    BY DEF FreeSlots, Used
  <2>7. Cardinality(FreeSlots) = MaxProcesses - Cardinality(Used)
    BY Zenon, <2>5, <2>6, FS_Difference
  <2>8. Cardinality(Used) + Cardinality(Pending) <= MaxProcesses
    BY <2>1 DEF TypeOK, Count
  <2> QED  BY <2>2, <2>4, <2>7, <2>8 DEF SlotFree
<1> QED  BY <1>1, Invariant, PTL

\* No state is explored by two processes, and no state id is given out twice.
THEOREM StateIdsUnique == Spec => []UniqueStateIds
<1>1. IInv => UniqueStateIds
  BY DEF IInv, Memory, UniqueStateIds
<1> QED  BY <1>1, Invariant, PTL

\* StateManager::checkInvariants() finds the count of its own process, also in
\* a slot that had another owner.
THEOREM CountsRight == Spec => []SuccessCounted
BY Invariant, PTL DEF IInv

\* The next index is new, also after failed forks and crashes.
THEOREM IndexesFresh == Spec => []IndexFresh
<1>1. ASSUME IInv PROVE IndexFresh
  BY <1>1, ProcessAssumption DEF IInv, TypeOK, Indexes, IndexFresh, Process
<1> QED  BY <1>1, Invariant, PTL

\* No two processes write the same trace file.
THEOREM OwnTraces == Spec => []TracesApart
<1>1. ASSUME IInv PROVE TracesApart
  BY <1>1 DEF IInv, Memory, TracesApart
<1> QED  BY <1>1, Invariant, PTL

\* What BalancingKeepsStates says of a step, for one state.
Excused(s) ==
    \E p \in Process :
        /\ s \in Kept(p) \cup succeeded[p]
        /\ \/ status[p] = "running" /\ status'[p] = "running"
           \/ status'[p] \in {"exited", "crashed", "lost"}

\* A step that takes a state away from a process gives it to another, unless
\* the process ends the path or is gone: the halves of a split make a whole.
LEMMA StepKeepsStates ==
    ASSUME IInv, [Next]_vars, NEW x \in Live \ Live' PROVE Excused(x)
<1>0. PICK o \in Process : x \in Kept(o) \cup succeeded[o]
  BY DEF Live
<1>00. \A q \in Process : x \notin Kept(q)' \cup succeeded'[q]
  BY DEF Live
<1> SUFFICES ASSUME ~Excused(x) PROVE FALSE
  BY Zenon
<1>e. /\ ~(status[o] = "running" /\ status'[o] = "running")
      /\ status'[o] \notin {"exited", "crashed", "lost"}
  BY <1>0 DEF Excused
<1>k. ~(Kept(o) \subseteq Kept(o)' /\ succeeded[o] \subseteq succeeded'[o])
  BY <1>0, <1>00
<1>t. /\ status \in [Process -> Status] /\ newIndex \in [Process -> Process \cup {NoProcess}]
      /\ states \in [Process -> SUBSET StateId] /\ lower \in [Process -> SUBSET StateId]
      /\ succeeded \in [Process -> SUBSET StateId]
  BY DEF IInv, TypeOK
<1>1. ASSUME NEW p \in Process, newState(p) PROVE FALSE
  BY <1>k, <1>t, <1>1 DEF newState, Kept
<1>2. ASSUME NEW p \in Process, NEW s \in StateId, endState(p, s) PROVE FALSE
  BY <1>e, <1>k, <1>t, <1>2 DEF endState, Kept
<1>3. ASSUME NEW p \in Process, NEW s \in StateId, succeedState(p, s) PROVE FALSE
  BY <1>e, <1>k, <1>t, <1>3 DEF succeedState, Kept
<1>4. ASSUME NEW p \in Process, doLoadBalancing(p) PROVE FALSE
  BY <1>k, <1>t, <1>4 DEF doLoadBalancing, Kept
<1>5. ASSUME NEW p \in Process, forkRefused(p) PROVE FALSE
  BY <1>k, <1>t, <1>5 DEF forkRefused, Kept
<1>6. ASSUME NEW p \in Process, reserve(p) PROVE FALSE
  <2>1. lastFileId \in Process /\ status[lastFileId] = "none"
    BY <1>6, ProcessAssumption DEF IInv, TypeOK, Indexes, reserve, Process
  <2> QED  BY <1>k, <1>t, <1>6, <2>1 DEF reserve, Kept
<1>7. ASSUME NEW p \in Process, forkFails(p) PROVE FALSE
  <2>1. newIndex[p] \in Process /\ status[newIndex[p]] = "reserved"
    BY <1>7, <1>t DEF IInv, Indexes, forkFails
  <2> QED  BY <1>k, <1>t, <1>7, <2>1 DEF forkFails, Kept
<1>8. ASSUME NEW p \in Process, fork(p) PROVE FALSE
  <2> USE <1>8 DEF fork
  <2>1. PICK c \in Process : c = newIndex[p] /\ c # p /\ status[c] = "reserved"
    BY <1>t DEF IInv, Indexes
  <2>2. states[c] = {} /\ succeeded[c] = {} /\ Kept(c) = {}
    BY <2>1 DEF IInv, Memory, Alive, Kept
  <2>3. Kept(c)' = states[p] \ lower[p] /\ Kept(p)' = lower[p] /\ Kept(p) = states[p]
    BY <1>t, <2>1 DEF Kept
  <2>4. \A q \in Process \ {p, c} : Kept(q)' = Kept(q)  BY <1>t, <2>1, Zenon DEF Kept
  <2>5. \A q \in Process \ {c} : succeeded'[q] = succeeded[q]  BY <1>t, <2>1
  <2> QED  BY <1>0, <1>00, <2>1, <2>2, <2>3, <2>4, <2>5
<1>9. ASSUME NEW p \in Process, parentSplit(p) PROVE FALSE
  BY <1>k, <1>t, <1>9 DEF parentSplit, Kept
<1>10. ASSUME NEW p \in Process, claimSlot(p) PROVE FALSE
  BY <1>k, <1>t, <1>10 DEF claimSlot, Kept
<1>11. ASSUME NEW p \in Process, childSplit(p) PROVE FALSE
  BY <1>k, <1>t, <1>11 DEF childSplit, Kept
<1>12. ASSUME NEW p \in Process, exit(p) PROVE FALSE
  BY <1>k, <1>t, <1>12 DEF exit, Kept
<1>13. ASSUME NEW p \in Process, releaseSlot(p) PROVE FALSE
  BY <1>e, <1>k, <1>t, <1>13 DEF releaseSlot, discard, Kept
<1>14. ASSUME NEW p \in Process, crash(p) PROVE FALSE
  BY <1>e, <1>k, <1>t, <1>14 DEF crash, discard, Kept
<1>15. CASE UNCHANGED vars
  BY <1>k, <1>15 DEF vars, own, Kept
<1> QED
  BY <1>1, <1>2, <1>3, <1>4, <1>5, <1>6, <1>7, <1>8, <1>9, <1>10, <1>11, <1>12, <1>13,
     <1>14, <1>15 DEF Next, allGone

\* Load balancing loses no state, whatever fails on the way.
THEOREM KeepsStates == Spec => BalancingKeepsStates
<1>1. ASSUME IInv, [Next]_vars
      PROVE  [\A s \in Live \ Live' : Excused(s)]_vars
  BY <1>1, StepKeepsStates
<1>2. Spec => [][\A s \in Live \ Live' : Excused(s)]_vars
  BY <1>1, Invariant, PTL DEF Spec
<1> QED  BY <1>2, PTL DEF BalancingKeepsStates, Excused
=============================================================================
