-------------------------- MODULE Searchers_proofs --------------------------
(***************************************************************************)
(* Proofs that the cooperative searcher and the stacks of searchers that   *)
(* constructUserSearcher() builds implement the executor's choice of next  *)
(* state, for any number of states and any options: what a searcher keeps  *)
(* matches the executor's bookkeeping, so that it only ever selects a      *)
(* state that is searched and is empty only when none is left.             *)
(***************************************************************************)
EXTENDS CooperativeSearcher, UserSearcher, S2EExecutor_proofs,
        FiniteSetTheorems

-----------------------------------------------------------------------------
(* The least and the greatest of some states.                              *)

\* A set of naturals has a least element.
LEMMA LeastNat ==
    ASSUME NEW T, T \subseteq Nat, T # {} PROVE \E m \in T : \A k \in T : m <= k
<1>1. PICK x \in T : \A y \in T : ~(<<y, x>> \in OpToRel(<, Nat))
  BY Zenon, NatLessThanWellFounded, WFMin
<1>2. \A y \in T : ~(y < x)
  BY Zenon, <1>1 DEF OpToRel
<1> QED BY <1>2

\* std::map::begin() of a set of states that is not empty is one of them.
LEMMA MinState ==
    ASSUME NEW S, S \subseteq State, S # {} PROVE Min(S) \in S
<1>1. S \subseteq Nat  BY StateAssumption
<1>2. \E m \in S : \A k \in S : m <= k  BY Zenon, <1>1, LeastNat
<1> QED  BY Zenon, <1>2 DEF Min

\* So is the last one, as the states are finitely many.
LEMMA MaxState ==
    ASSUME NEW S, S \subseteq State, S # {} PROVE Max(S) \in S
<1> DEFINE HasMax(R) == \E m \in R : \A k \in R : m >= k
           T == {n \in Nat : \E R \in SUBSET State : R # {} /\ ~HasMax(R) /\ Cardinality(R) = n}
<1>1. T = {}
  <2> SUFFICES ASSUME T # {} PROVE FALSE  OBVIOUS
  <2>1. T \subseteq Nat  OBVIOUS
  <2>2. PICK n \in T : \A k \in T : n <= k
    <3> HIDE DEF T
    <3> QED  BY Zenon, <2>1, LeastNat
  <2>3. PICK R \in SUBSET State : R # {} /\ ~HasMax(R) /\ Cardinality(R) = n  OBVIOUS
  <2>4. PICK x : x \in R  BY <2>3
  <2>5. IsFiniteSet(R)  BY Zenon, <2>3, StateAssumption, FS_Subset
  <2>6. R \subseteq Nat  BY <2>3, StateAssumption
  <2> DEFINE Q == R \ {x}
  <2>7. IsFiniteSet(Q) /\ Cardinality(Q) = n - 1 /\ n \in Nat /\ Cardinality(Q) \in Nat
    BY <2>3, <2>4, <2>5, FS_RemoveElement, FS_CardinalityType
  <2>8. Q # {}
    <3> SUFFICES ASSUME Q = {} PROVE HasMax(R)  BY <2>3
    <3>1. R = {x}  BY <2>4
    <3> QED  BY <2>6, <3>1
  <2>9. HasMax(Q)
    <3> SUFFICES ASSUME ~HasMax(Q) PROVE FALSE  OBVIOUS
    <3>1. Cardinality(Q) \in T
      <4> Q \in SUBSET State  BY <2>3
      <4> QED  BY Zenon, <2>7, <2>8
    <3>2. n <= Cardinality(Q)  BY <2>2, <3>1
    <3> QED  BY <2>7, <3>2
  <2>10. PICK m \in Q : \A k \in Q : m >= k  BY <2>9
  <2>11. HasMax(R)
    <3>1. x \in Nat /\ m \in Nat /\ m \in R  BY <2>4, <2>6
    <3>2. CASE x >= m
      <4>1. \A k \in R : x >= k  BY <2>6, <2>10, <3>1, <3>2
      <4> QED  BY <2>4, <4>1
    <3>3. CASE m >= x
      <4>1. \A k \in R : m >= k  BY <2>6, <2>10, <3>1, <3>3
      <4> QED  BY <3>1, <4>1
    <3> QED  BY <3>1, <3>2, <3>3
  <2> QED  BY <2>3, <2>11
<1>2. HasMax(S)
  <2> SUFFICES ASSUME ~HasMax(S) PROVE FALSE  OBVIOUS
  <2>1. Cardinality(S) \in Nat
    BY Zenon, StateAssumption, FS_Subset, FS_CardinalityType
  <2>2. Cardinality(S) \in T  BY <2>1
  <2> QED  BY <1>1, <2>2
<1> QED  BY Zenon, <1>2 DEF Max

-----------------------------------------------------------------------------
(* CooperativeSearcher.                                                    *)

\* The searcher's map is the executor's set at every moment, and as long as
\* there is a state, one is selected.
CoopInv ==
    /\ CoopTypeOK /\ coopStates = states
    /\ currentState \in IF states = {} THEN {NoState} ELSE states

\* What update() leaves selected.
LEMMA CoopUpdate ==
    ASSUME CoopInv, NEW added \in SUBSET State, NEW removed \in SUBSET State,
           added \cap removed = {}, CooperativeSearcher_update(added, removed),
           states' = (states \cup added) \ removed
    PROVE  CoopInv'
<1>1. coopStates' = states' /\ coopStates' \subseteq State /\ guest' = guest
  BY DEF CoopInv, CoopTypeOK, CooperativeSearcher_update
<1>2. CASE currentState \in removed \cup {NoState}
  <2>1. currentState' = IF coopStates' # {} THEN Min(coopStates') ELSE NoState
    BY <1>2 DEF CooperativeSearcher_update
  <2>2. currentState' \in IF states' = {} THEN {NoState} ELSE states'
    BY <1>1, <2>1, MinState
  <2> QED  BY <1>1, <2>2 DEF CoopInv, CoopTypeOK
<1>3. CASE currentState \notin removed \cup {NoState}
  <2>1. currentState' = currentState /\ currentState \in states
    BY <1>3 DEF CoopInv, CooperativeSearcher_update
  <2>2. currentState' \in states'  BY <1>3, <2>1
  <2> QED  BY <1>1, <2>2 DEF CoopInv, CoopTypeOK
<1> QED  BY <1>2, <1>3

\* Every step of the cooperative searcher is one of the executor, and keeps the
\* two in step.
LEMMA CoopStep ==
    ASSUME ~StaleIds, IInv, CoopInv, [CoopNext]_coopVars
    PROVE  [Next]_vars /\ CoopInv'
<1>1. /\ coopStates = states /\ states \subseteq State
      /\ (states # {} => currentState \in states /\ currentState # NoState)
  BY NoStateAssumption DEF CoopInv, CoopTypeOK
<1>2. ASSUME UNCHANGED states, UNCHANGED coopOnly PROVE CoopInv'
  BY <1>2 DEF coopOnly, CoopInv, CoopTypeOK
<1>3. ASSUME NEW s \in State, coopFork(s) PROVE Next /\ CoopInv'
  <2>1. Next  BY Zenon, <1>3 DEF coopFork, Next, Execute
  <2>2. UNCHANGED states /\ UNCHANGED coopOnly  BY <1>3 DEF coopFork, fork, forkTooDeep
  <2> QED  BY <1>2, <2>1, <2>2
<1>4. ASSUME terminateState \/ yieldState \/ stateSwitchTimerCallback, UNCHANGED coopOnly
      PROVE  Next /\ CoopInv'
  <2>1. Next  BY Zenon, <1>4 DEF Next, Execute
  <2>2. UNCHANGED states  BY <1>4 DEF terminateState, yieldState, stateSwitchTimerCallback
  <2> QED  BY <1>2, <1>4, <2>1, <2>2
<1>5. ASSUME coopSucceed PROVE Next /\ CoopInv'
  <2>1. Next  BY Zenon, <1>5 DEF coopSucceed, Next, Execute
  <2>2. /\ CooperativeSearcher_update({}, {current}) /\ {} \cap {current} = {}
        /\ {} \in SUBSET State /\ {current} \in SUBSET State
        /\ states' = (states \cup {}) \ {current}
    BY <1>5 DEF coopSucceed, succeedState, IInv, TypeOK
  <2>3. CoopInv'  BY <2>2, CoopUpdate
  <2> QED  BY <2>1, <2>3
<1>6. ASSUME coopUpdate PROVE Next /\ CoopInv'
  <2>1. Next  BY Zenon, <1>6 DEF coopUpdate, Next
  <2>2. /\ CooperativeSearcher_update(addedStates, removedStates)
        /\ addedStates \in SUBSET State /\ removedStates \in SUBSET State
        /\ addedStates \cap removedStates = {}
        /\ states' = (states \cup addedStates) \ removedStates
    BY <1>6 DEF coopUpdate, updateStates, IInv, TypeOK, Places, Flags
  <2>3. CoopInv'  BY <2>2, CoopUpdate
  <2> QED  BY <2>1, <2>3
<1>7. ASSUME NEW s, s \in states, currentState' = s, UNCHANGED <<vars, guest, coopStates>>
      PROVE  UNCHANGED vars /\ CoopInv'
  <2>1. states' = states  BY <1>7 DEF vars
  <2> QED  BY <1>1, <1>7, <2>1 DEF CoopInv, CoopTypeOK
<1>8. ASSUME NEW id \in State, ScheduleNext(id) PROVE UNCHANGED vars /\ CoopInv'
  BY <1>1, <1>7, <1>8 DEF ScheduleNext
<1>9. ASSUME Yield PROVE UNCHANGED vars /\ CoopInv'
  <2> DEFINE lower == {t \in coopStates : t < currentState}
             R == IF lower = {} THEN coopStates ELSE lower
  <2>1. states # {}
    <3>1. Cardinality({}) = 0  BY FS_EmptySet
    <3> QED  BY <1>1, <1>9, <3>1 DEF Yield
  <2>2. R \subseteq State /\ R # {} /\ R \subseteq states  BY <1>1, <2>1
  <2>3. Yielded(currentState) = Max(R)  BY DEF Yielded
  <2>4. Yielded(currentState) \in states
    <3> HIDE DEF R
    <3> QED  BY <2>2, <2>3, MaxState
  <2> QED  BY <1>7, <1>9, <2>4 DEF Yield
<1>10. ASSUME NEW s \in State, CooperativeSearcher_selectState(s),
              selectNextState(s) \/ terminateSpeculative(s), UNCHANGED coopOnly
       PROVE  Next /\ CoopInv'
  <2>1. s \in states  BY <1>1, <1>10 DEF CooperativeSearcher_selectState
  <2>2. Next  BY Zenon, <1>10, <2>1 DEF Next
  <2>3. UNCHANGED states  BY <1>10 DEF selectNextState, terminateSpeculative
  <2> QED  BY <1>2, <1>10, <2>2, <2>3
<1>11. ASSUME coopStates = {}, allTerminated, UNCHANGED coopOnly PROVE Next /\ CoopInv'
  <2>1. Next  BY <1>1, <1>11 DEF Next
  <2>2. UNCHANGED states  BY <1>11 DEF allTerminated
  <2> QED  BY <1>2, <1>11, <2>1, <2>2
<1>12. ASSUME UNCHANGED vars, UNCHANGED coopOnly PROVE CoopInv'
  <2>1. UNCHANGED states  BY <1>12 DEF vars
  <2> QED  BY <1>2, <1>12, <2>1
<1>13. UNCHANGED coopVars => UNCHANGED vars /\ UNCHANGED coopOnly  BY DEF coopVars
<1> QED
  BY Zenon, <1>3, <1>4, <1>5, <1>6, <1>8, <1>9, <1>10, <1>11, <1>12, <1>13 DEF CoopNext, stopped

\* The searcher starts with the initial state.
LEMMA CoopInitInv == CoopInit => Init /\ CoopInv
BY StateAssumption DEF CoopInit, Init, CoopInv, CoopTypeOK

\* The guest that names only live states schedules among the executor's states:
\* every behaviour with the cooperative searcher is one of the executor.
THEOREM CoopImplementsExecutor ==
    ASSUME QuietSuccess, ~StaleIds PROVE CoopSpec => ImplementsExecutor
<1>1. CoopInit => Init /\ IInv /\ CoopInv  BY CoopInitInv, InitInv
<1>2. IInv /\ CoopInv /\ [CoopNext]_coopVars => [Next]_vars /\ IInv' /\ CoopInv'
  BY CoopStep, NextInv
<1> QED  BY <1>1, <1>2, PTL DEF CoopSpec, Spec, ImplementsExecutor

\* CooperativeSearcher's map is the executor's set of states and its selection,
\* renewed by update() and moved by the guest, is always one of them.
THEOREM SelectionSearchedAlways ==
    ASSUME QuietSuccess, ~StaleIds PROVE CoopSpec => []SelectionSearched
<1>1. CoopInit => IInv /\ CoopInv  BY CoopInitInv, InitInv
<1>2. IInv /\ CoopInv /\ [CoopNext]_coopVars => IInv' /\ CoopInv'
  BY CoopStep, NextInv
<1>3. CoopInv => SelectionSearched  BY DEF CoopInv, SelectionSearched
<1> QED  BY <1>1, <1>2, <1>3, PTL DEF CoopSpec

-----------------------------------------------------------------------------
(* The searchers of constructUserSearcher().                               *)

\* q lists states, each once.
Distinct(q) ==
    q \in Seq(State) /\ \A i, j \in 1..Len(q) : q[i] = q[j] => i = j

\* An injection between finite sets of the same size reaches every element.
LEMMA InjectionOnto ==
    ASSUME NEW S, NEW T, IsFiniteSet(S), IsFiniteSet(T), Cardinality(S) = Cardinality(T),
           NEW f \in [S -> T], \A x, y \in S : f[x] = f[y] => x = y
    PROVE  \A t \in T : \E x \in S : f[x] = t
<1> SUFFICES ASSUME NEW t \in T, \A x \in S : f[x] # t PROVE FALSE
  OBVIOUS
<1>1. IsFiniteSet(T \ {t}) /\ Cardinality(T \ {t}) = Cardinality(T) - 1
  BY FS_RemoveElement
<1>2. Cardinality(T) \in Nat  BY FS_CardinalityType
<1>3. Cardinality(T \ {t}) < Cardinality(S)  BY <1>1, <1>2
<1>4. f \in [S -> T \ {t}]  OBVIOUS
<1>5. \E x, y \in S : x # y /\ f[x] = f[y]
  BY <1>1, <1>3, <1>4, FS_PigeonHole
<1> QED  BY <1>5

\* The added states come in some order, each once.
LEMMA AddedInOrder ==
    ASSUME NEW added \in SUBSET State, NEW p \in Bijection(1..Cardinality(added), added)
    PROVE  Distinct(p) /\ Range(p) = added
<1>1. IsFiniteSet(added)  BY Zenon, StateAssumption, FS_Subset
<1>2. PICK n \in Nat : n = Cardinality(added)  BY <1>1, FS_CardinalityType
<1>3. p \in [1..n -> added] /\ \A i, j \in 1..n : i # j => p[i] # p[j]
  BY <1>2 DEF Bijection, Injection, IsInjective
<1>4. \A t \in added : \E i \in 1..n : p[i] = t  BY <1>2 DEF Bijection, Surjection
<1>5. p \in Seq(State) /\ Len(p) = n /\ DOMAIN p = 1..n  BY <1>3
<1>6. Distinct(p)  BY <1>3, <1>5 DEF Distinct
<1>7. Range(p) = added  BY <1>3, <1>4, <1>5 DEF Range
<1> QED  BY <1>6, <1>7

\* Appending states that are not listed yet.
LEMMA AppendAdded ==
    ASSUME NEW q, NEW p, Distinct(q), Distinct(p), Range(q) \cap Range(p) = {}
    PROVE  Distinct(q \o p) /\ Range(q \o p) = Range(q) \cup Range(p)
<1>1. q \in Seq(State) /\ p \in Seq(State)  BY DEF Distinct
<1>2. /\ q \o p \in Seq(State) /\ Len(q \o p) = Len(q) + Len(p)
      /\ \A i \in 1..Len(q) + Len(p) : (q \o p)[i] = IF i <= Len(q) THEN q[i] ELSE p[i - Len(q)]
      /\ Len(q) \in Nat /\ Len(p) \in Nat
  BY <1>1
<1>3. PICK r : r = q \o p  BY Zenon
<1>4. PICK m \in Nat, n \in Nat : m = Len(q) /\ n = Len(p)  BY <1>2
<1>5. /\ r \in Seq(State) /\ Len(r) = m + n
      /\ \A i \in 1..m : r[i] = q[i] /\ i \in 1..m+n
      /\ \A i \in 1..n : r[m + i] = p[i] /\ m + i \in 1..m+n
      /\ \A i \in 1..m+n : i \in 1..m \/ (i - m \in 1..n /\ r[i] = p[i - m])
  <2>1. /\ r \in Seq(State) /\ Len(r) = m + n
        /\ \A i \in 1..m+n : r[i] = IF i <= m THEN q[i] ELSE p[i - m]
    BY Zenon, <1>2, <1>3, <1>4
  <2>2. ASSUME NEW i \in 1..m PROVE r[i] = q[i] /\ i \in 1..m+n
    <3>1. i \in 1..m+n /\ i <= m  OBVIOUS
    <3> QED  BY Zenon, <2>1, <3>1
  <2>3. ASSUME NEW i \in 1..n PROVE r[m + i] = p[i] /\ m + i \in 1..m+n
    <3>1. m + i \in 1..m+n /\ ~(m + i <= m) /\ (m + i) - m = i  OBVIOUS
    <3>2. r[m + i] = p[(m + i) - m]  BY Zenon, <2>1, <3>1
    <3> QED  BY Zenon, <3>1, <3>2
  <2>4. ASSUME NEW i \in 1..m+n, i \notin 1..m PROVE i - m \in 1..n /\ r[i] = p[i - m]
    <3>1. i - m \in 1..n /\ ~(i <= m)  BY <2>4
    <3> QED  BY Zenon, <2>1, <3>1
  <2> QED  BY Zenon, <2>1, <2>2, <2>3, <2>4
<1>6. /\ Range(q) = {q[i] : i \in 1..m} /\ Range(p) = {p[i] : i \in 1..n}
      /\ Range(r) = {r[i] : i \in 1..m+n}
  <2>1. DOMAIN q = 1..m /\ DOMAIN p = 1..n  BY <1>1, <1>4
  <2>2. DOMAIN r = 1..m+n  BY <1>5
  <2> QED  BY Zenon, <2>1, <2>2 DEF Range
<1>7. Range(r) = Range(q) \cup Range(p)
  <2>1. ASSUME NEW x \in Range(r) PROVE x \in Range(q) \cup Range(p)  BY <1>5, <1>6
  <2>2. ASSUME NEW x \in Range(q) PROVE x \in Range(r)  BY <1>5, <1>6
  <2>3. ASSUME NEW x \in Range(p) PROVE x \in Range(r)
    <3>1. PICK i \in 1..n : x = p[i]  BY <1>6
    <3> QED  BY <1>5, <1>6, <3>1
  <2> QED  BY <2>1, <2>2, <2>3
<1>8. ASSUME NEW i \in 1..m+n, NEW j \in 1..m+n, r[i] = r[j] PROVE i = j
  <2>1. \A k \in 1..m : r[k] = q[k] /\ q[k] \in Range(q)  BY <1>5, <1>6
  <2>2. \A k \in 1..m+n : k \in 1..m \/ (k - m \in 1..n /\ r[k] = p[k - m] /\ p[k - m] \in Range(p))
    BY <1>5, <1>6
  <2>3. CASE i \in 1..m /\ j \in 1..m
    BY <1>4, <1>8, <2>1, <2>3 DEF Distinct
  <2>4. CASE i \notin 1..m /\ j \notin 1..m
    <3>1. i - m \in 1..n /\ j - m \in 1..n /\ p[i - m] = p[j - m]  BY <1>8, <2>2, <2>4
    <3>2. i - m = j - m  BY <1>4, <3>1 DEF Distinct
    <3> QED  BY <3>2
  <2>5. CASE (i \in 1..m /\ j \notin 1..m) \/ (i \notin 1..m /\ j \in 1..m)
    BY <1>8, <2>1, <2>2, <2>5
  <2> QED  BY <2>3, <2>4, <2>5
<1>9. Distinct(r)  BY <1>5, <1>8 DEF Distinct
<1> QED  BY <1>3, <1>7, <1>9

\* Erasing the removed states leaves the others, each once.
LEMMA RemainingStates ==
    ASSUME NEW q, NEW removed, Distinct(q)
    PROVE  Distinct(Remaining(q, removed)) /\ Range(Remaining(q, removed)) = Range(q) \ removed
<1> DEFINE stay == {i \in DOMAIN q : q[i] \notin removed}
           rank(i) == Cardinality({j \in stay : j <= i})
           idx(k) == CHOOSE i \in stay : rank(i) = k
<1>1. q \in Seq(State) /\ DOMAIN q = 1..Len(q) /\ Len(q) \in Nat  BY DEF Distinct
<1>2. stay \subseteq Nat /\ stay \subseteq 1..Len(q)  BY <1>1
<1>3. IsFiniteSet(stay)
  <2>1. 1 \in Int /\ Len(q) \in Int  BY <1>1
  <2>2. IsFiniteSet(1..Len(q))  BY Zenon, <2>1, FS_Interval
  <2> QED  BY Zenon, <1>2, <2>2, FS_Subset
<1>4. PICK n \in Nat : n = Cardinality(stay)  BY Zenon, <1>3, FS_CardinalityType
<1>5. Remaining(q, removed) = [k \in 1..n |-> q[idx(k)]]
  BY Zenon, <1>4 DEF Remaining
<1>6. Range(q) \ removed = {q[i] : i \in stay}  BY DEF Range
<1>7. \A i \in stay : q[i] \in State  BY <1>1, <1>2
<1>8. \A i, j \in stay : q[i] = q[j] => i = j
  BY Zenon, <1>2 DEF Distinct
<1> HIDE DEF stay
<1>9. ASSUME NEW i \in stay PROVE rank(i) \in 1..n
  <2> DEFINE R == {j \in stay : j <= i}
  <2>1. R \subseteq stay  OBVIOUS
  <2>2. IsFiniteSet(R) /\ Cardinality(R) <= n  BY Zenon, <1>3, <1>4, <2>1, FS_Subset
  <2>3. Cardinality(R) \in Nat  BY <2>2, FS_CardinalityType
  <2>4. i \in R  BY <1>2
  <2>5. Cardinality(R) # 0  BY Zenon, <2>2, <2>4, FS_EmptySet
  <2> HIDE DEF R
  <2>6. Cardinality(R) \in 1..n  BY <2>2, <2>3, <2>5
  <2> QED  BY <2>6 DEF R
<1>10. ASSUME NEW i \in stay, NEW k \in stay, i < k PROVE rank(i) # rank(k)
  <2> DEFINE R == {j \in stay : j <= i}
             S == {j \in stay : j <= k}
  <2>1. R \subseteq S
    <3>1. ASSUME NEW j \in stay, j <= i PROVE j <= k
      <4>1. i \in Nat /\ k \in Nat /\ j \in Nat  BY Zenon, <1>2
      <4> QED  BY <1>10, <3>1, <4>1
    <3> QED  BY Zenon, <3>1
  <2>2. k \in S /\ k \notin R  BY <1>2, <1>10
  <2>3. IsFiniteSet(S)
    <3>1. S \subseteq stay  OBVIOUS
    <3> QED  BY Zenon, <1>3, <3>1, FS_Subset
  <2>4. R # S  BY Zenon, <2>2
  <2> HIDE DEF R, S
  <2>5. Cardinality(R) # Cardinality(S)
    <3>1. Cardinality(R) = Cardinality(S) => S = R  BY <2>1, <2>3, FS_Subset
    <3> QED  BY Zenon, <2>4, <3>1
  <2> QED  BY <2>5 DEF R, S
<1> HIDE DEF rank
<1>11. \A i, k \in stay : rank(i) = rank(k) => i = k
  <2> SUFFICES ASSUME NEW i \in stay, NEW k \in stay, rank(i) = rank(k), i # k PROVE FALSE
    OBVIOUS
  <2>1. i < k \/ k < i  BY <1>2
  <2> QED  BY Zenon, <1>10, <2>1
<1>12. \A k \in 1..n : \E i \in stay : rank(i) = k
  <2> DEFINE f == [i \in stay |-> rank(i)]
  <2>1. PICK T : T = 1..n  OBVIOUS
  <2>2. IsFiniteSet(T) /\ Cardinality(T) = n
    <3>1. 1 \in Int /\ n \in Int  OBVIOUS
    <3>2. IsFiniteSet(1..n) /\ Cardinality(1..n) = IF 1 > n THEN 0 ELSE n - 1 + 1
      BY Zenon, <3>1, FS_Interval
    <3> QED  BY <2>1, <3>2
  <2>3. f \in [stay -> T]  BY Zenon, <1>9, <2>1
  <2>4. \A x, y \in stay : f[x] = f[y] => x = y  BY Zenon, <1>11
  <2>5. \A t \in T : \E x \in stay : f[x] = t
    <3> HIDE DEF f
    <3>1. Cardinality(stay) = Cardinality(T)  BY <1>4, <2>2
    <3> QED  BY SMT, <1>3, <2>2, <2>3, <2>4, <3>1, InjectionOnto
  <2> QED  BY Zenon, <2>1, <2>5
<1>13. \A k \in 1..n : idx(k) \in stay /\ rank(idx(k)) = k
  BY Zenon, <1>12
<1> HIDE DEF idx
<1>14. PICK r : r = [k \in 1..n |-> q[idx(k)]]  BY Zenon
<1>15. r \in Seq(State) /\ Len(r) = n /\ DOMAIN r = 1..n
  <2>1. \A k \in 1..n : q[idx(k)] \in State  BY Zenon, <1>7, <1>13
  <2> QED  BY <1>14, <2>1
<1>16. \A i, j \in 1..n : r[i] = r[j] => i = j
  <2> SUFFICES ASSUME NEW i \in 1..n, NEW j \in 1..n, r[i] = r[j] PROVE i = j
    OBVIOUS
  <2>1. q[idx(i)] = q[idx(j)]  BY Zenon, <1>14
  <2>2. idx(i) = idx(j)  BY Zenon, <1>8, <1>13, <2>1
  <2> QED  BY Zenon, <1>13, <2>2
<1>17. Range(r) = {q[i] : i \in stay}
  <2>1. ASSUME NEW i \in stay PROVE \E k \in 1..n : r[k] = q[i]
    <3>1. rank(i) \in 1..n /\ idx(rank(i)) = i  BY Zenon, <1>9, <1>11, <1>13
    <3> QED  BY Zenon, <1>14, <3>1
  <2>2. \A k \in 1..n : \E i \in stay : r[k] = q[i]  BY Zenon, <1>13, <1>14
  <2>3. Range(r) = {r[k] : k \in 1..n}  BY Zenon, <1>15 DEF Range
  <2>4. \A x : x \in {r[k] : k \in 1..n} <=> x \in {q[i] : i \in stay}
    <3>1. ASSUME NEW x \in {r[k] : k \in 1..n} PROVE x \in {q[i] : i \in stay}
      BY Zenon, <2>2, <3>1
    <3>2. ASSUME NEW x \in {q[i] : i \in stay} PROVE x \in {r[k] : k \in 1..n}
      <4>1. PICK i \in stay : x = q[i]  BY Zenon, <3>2
      <4>2. PICK k \in 1..n : r[k] = q[i]  BY Zenon, <2>1, <4>1
      <4> QED  BY Zenon, <4>1, <4>2
    <3> QED  BY Zenon, <3>1, <3>2
  <2> QED  BY Zenon, <2>3, <2>4
<1>18. Distinct(r)  BY Zenon, <1>15, <1>16 DEF Distinct
<1> QED  BY Zenon, <1>5, <1>6, <1>14, <1>17, <1>18

\* What the layers at the bottom hold: b lists the same states in both, and
\* what the batch and the DFS remember is listed.
InSync(b) ==
    /\ Distinct(b.dfs) /\ b.rs = Range(b.dfs)
    /\ b.cur \in State \cup {NoState} /\ (b.dfs # <<>> => b.cur \in Range(b.dfs) \cup {NoState})
    /\ b.last \in Range(b.dfs) \cup {NoState}
    /\ b.bad = FALSE

\* A vector is empty when it holds nothing.
LEMMA NothingListed ==
    ASSUME NEW q, Distinct(q)
    PROVE  /\ Range(q) \subseteq State /\ (q = <<>> <=> Range(q) = {})
           /\ q # <<>> => q[1] \in Range(q) /\ q[Len(q)] \in Range(q)
<1>1. q \in Seq(State) /\ DOMAIN q = 1..Len(q) /\ Len(q) \in Nat  BY DEF Distinct
<1>2. q = <<>> <=> Len(q) = 0  BY <1>1
<1>3. q # <<>> => 1 \in DOMAIN q /\ Len(q) \in DOMAIN q  BY <1>1, <1>2
<1>4. q = <<>> => DOMAIN q = {}  BY <1>1, <1>2
<1>5. \A i \in DOMAIN q : q[i] \in State  BY <1>1
<1> QED  BY Zenon, <1>3, <1>4, <1>5 DEF Range

\* update() of the bottom layers with states that are new and states that they
\* hold.
LEMMA BaseUpdate ==
    ASSUME NEW b, InSync(b), NEW added \in SUBSET State, NEW removed \in SUBSET State,
           added \cap Range(b.dfs) = {}, removed \subseteq Range(b.dfs) \cup added,
           NEW c \in baseUpdate(b, added, removed)
    PROVE  InSync(c) /\ Range(c.dfs) = (Range(b.dfs) \cup added) \ removed
<1>1. PICK p \in Bijection(1..Cardinality(added), added) :
        \E cur \in nextCurrent(b, Remaining(b.dfs \o p, removed), removed) :
            c = [dfs |-> Remaining(b.dfs \o p, removed), cur |-> cur,
                 rs |-> nextRandom(b, added, removed), last |-> nextLast(b, removed),
                 bad |-> b.bad \/ ~(removed \subseteq Range(b.dfs) \cup added)]
  BY Zenon DEF baseUpdate
<1>2. Distinct(p) /\ Range(p) = added  BY AddedInOrder
<1>3. Distinct(b.dfs)  BY DEF InSync
<1>4. Distinct(b.dfs \o p) /\ Range(b.dfs \o p) = Range(b.dfs) \cup added
  <2>1. Range(b.dfs) \cap Range(p) = {}  BY <1>2
  <2> QED  BY <1>2, <1>3, <2>1, AppendAdded
<1>5. PICK left : left = Remaining(b.dfs \o p, removed)  OBVIOUS
<1>6. Distinct(left) /\ Range(left) = (Range(b.dfs) \cup added) \ removed
  BY <1>4, <1>5, RemainingStates
<1>7. /\ c.dfs = left /\ c.cur \in nextCurrent(b, left, removed)
      /\ c.rs = (b.rs \cup added) \ removed
      /\ c.last = IF b.last \in removed THEN NoState ELSE b.last
      /\ c.bad = (b.bad \/ ~(removed \subseteq Range(b.dfs) \cup added))
  BY <1>1, <1>5 DEF nextRandom, nextLast
<1>8. c.bad = FALSE  BY Zenon, <1>7 DEF InSync
<1>9. c.rs = Range(left)  BY <1>6, <1>7 DEF InSync
<1>10. NoState \notin removed /\ c.last \in Range(left) \cup {NoState}
  BY <1>6, <1>7, NoStateAssumption DEF InSync
<1>11. /\ Range(left) \subseteq State /\ (left = <<>> <=> Range(left) = {})
       /\ left # <<>> => left[1] \in Range(left)
  BY <1>6, NothingListed
<1>12. /\ c.cur \in State \cup {NoState}
       /\ left # <<>> => c.cur \in Range(left) \cup {NoState}
  <2>1. CASE b.dfs # <<>>
    <3>1. c.cur = IF b.cur \in removed THEN NoState ELSE b.cur
      BY <1>7, <2>1 DEF nextCurrent
    <3> QED  BY <1>6, <2>1, <3>1 DEF InSync
  <2>2. CASE b.dfs = <<>> /\ left # <<>>
    <3>1. c.cur = left[1]  BY <1>7, <2>2 DEF nextCurrent
    <3> QED  BY <1>11, <2>2, <3>1
  <2>3. CASE b.dfs = <<>> /\ left = <<>>
    BY <1>7, <2>3 DEF nextCurrent
  <2> QED  BY <2>1, <2>2, <2>3
<1> QED  BY Zenon, <1>6, <1>7, <1>8, <1>9, <1>10, <1>12 DEF InSync

\* The layers hold the executor's states, each in one place; a state is paused
\* only by iterative deepening, and only while another one is not.
LayersHold ==
    /\ SearchTypeOK /\ InSync(Base)
    /\ Range(dfsStates) \cup pausedStates = states /\ Range(dfsStates) \cap pausedStates = {}
    /\ dfsStates = <<>> => pausedStates = {}
    /\ ~UseIterativeDeepeningTimeSearch => pausedStates = {}

\* The running state is not paused.
UserInv == LayersHold /\ (pc = "run" => current \notin pausedStates)

\* What SetBase() leaves.
LEMMA SetBaseSync ==
    ASSUME NEW b, InSync(b), SetBase(b)
    PROVE  InSync(Base)' /\ dfsStates' = b.dfs
           /\ dfsStates' \in Seq(State) /\ rsStates' \subseteq State
           /\ currentState' \in State \cup {NoState} /\ lastState' \in State \cup {NoState}
           /\ invalidRemoval' \in BOOLEAN
<1>1. /\ dfsStates' = b.dfs /\ currentState' = b.cur /\ rsStates' = b.rs
      /\ lastState' = b.last /\ invalidRemoval' = b.bad
  BY DEF SetBase
<1>2. InSync(Base)'  BY <1>1 DEF InSync, Base, Distinct
<1>3. Range(b.dfs) \subseteq State  BY NothingListed DEF InSync
<1> QED  BY Zenon, <1>1, <1>2, <1>3 DEF InSync, Distinct

\* update() of the whole stack, when the executor does the same.
LEMMA UpdateLayers ==
    ASSUME LayersHold, NEW added \in SUBSET State, NEW removed \in SUBSET State,
           NEW running, NEW expired \in BOOLEAN,
           expired => UseIterativeDeepeningTimeSearch /\ running \in states \ pausedStates,
           added \cap states = {}, removed \subseteq states,
           update(added, removed, running, expired), states' = (states \cup added) \ removed
    PROVE  LayersHold' /\ pausedStates' \subseteq pausedStates \cup (IF expired THEN {running} ELSE {})
<1> DEFINE D == Range(dfsStates)
<1>1. /\ InSync(Base) /\ D \cup pausedStates = states /\ D \cap pausedStates = {}
      /\ stack \in Stacks /\ index \in {1, 2} /\ pausedStates \subseteq State
      /\ dfsStates = <<>> => pausedStates = {}
  BY DEF LayersHold, SearchTypeOK
<1>2. Base.dfs = dfsStates  BY DEF Base
<1>3. stack' = stack /\ index' = index  BY DEF update
<1>4. ASSUME NEW b, InSync(b), SetBase(b), Range(b.dfs) \cup pausedStates' = states',
             Range(b.dfs) \cap pausedStates' = {}, b.dfs = <<>> => pausedStates' = {},
             ~UseIterativeDeepeningTimeSearch => pausedStates' = {}, pausedStates' \subseteq State
      PROVE  LayersHold'
  <2>1. /\ InSync(Base)' /\ dfsStates' = b.dfs
        /\ dfsStates' \in Seq(State) /\ rsStates' \subseteq State
        /\ currentState' \in State \cup {NoState} /\ lastState' \in State \cup {NoState}
        /\ invalidRemoval' \in BOOLEAN
    BY <1>4, SetBaseSync
  <2>2. SearchTypeOK'  BY <1>1, <1>3, <1>4, <2>1 DEF SearchTypeOK
  <2>3. UseIterativeDeepeningTimeSearch' = UseIterativeDeepeningTimeSearch
    BY <1>3 DEF UseIterativeDeepeningTimeSearch
  <2> QED  BY <1>4, <2>1, <2>2, <2>3 DEF LayersHold
<1>5. CASE ~UseIterativeDeepeningTimeSearch
  <2>1. pausedStates = {} /\ pausedStates' = {}
    BY <1>5 DEF LayersHold, update
  <2>2. PICK b \in baseUpdate(Base, added, removed) : SetBase(b)  BY <1>5 DEF update
  <2>3. InSync(b) /\ Range(b.dfs) = (D \cup added) \ removed
    <3>1. added \cap Range(Base.dfs) = {} /\ removed \subseteq Range(Base.dfs) \cup added
      BY <1>1, <1>2, <2>1
    <3> QED  BY <1>1, <1>2, <3>1, BaseUpdate
  <2>4. Range(b.dfs) \cup pausedStates' = states'  BY <1>1, <2>1, <2>3
  <2> QED  BY <1>4, <2>1, <2>2, <2>3, <2>4
<1>6. CASE UseIterativeDeepeningTimeSearch
  <2> DEFINE left == pausedStates \ removed
             pause == running \notin removed /\ expired
             held == IF pause THEN left \cup {running} ELSE left
  <2>0. pausedUpdate(added, removed, running, expired)  BY <1>6 DEF update
  <2>1. PICK b \in baseUpdate(Base, added, removed \ pausedStates) :
          \E c \in IF pause THEN baseUpdate(b, {}, {running}) ELSE {b} :
             IF c.dfs = <<>>
             THEN (\E d \in baseUpdate(c, held, {}) : SetBase(d)) /\ pausedStates' = {}
             ELSE SetBase(c) /\ pausedStates' = held
    BY Zenon, <2>0 DEF pausedUpdate
  <2>2. PICK c \in IF pause THEN baseUpdate(b, {}, {running}) ELSE {b} :
             IF c.dfs = <<>>
             THEN (\E d \in baseUpdate(c, held, {}) : SetBase(d)) /\ pausedStates' = {}
             ELSE SetBase(c) /\ pausedStates' = held
    BY Zenon, <2>1
  <2>3. InSync(b) /\ Range(b.dfs) = (D \cup added) \ (removed \ pausedStates)
    <3>1. /\ added \cap Range(Base.dfs) = {} /\ removed \ pausedStates \in SUBSET State
          /\ removed \ pausedStates \subseteq Range(Base.dfs) \cup added
      BY <1>1, <1>2
    <3> QED  BY <1>1, <1>2, <3>1, BaseUpdate
  <2>4. pause => running \in Range(b.dfs) /\ running \in State
    <3>1. D \subseteq State  BY <1>1, <1>2, NothingListed DEF InSync
    <3> QED  BY <1>1, <2>3, <3>1
  <2>5. InSync(c) /\ Range(c.dfs) = IF pause THEN Range(b.dfs) \ {running} ELSE Range(b.dfs)
    <3>1. CASE pause
      <4>1. c \in baseUpdate(b, {}, {running})  BY <2>2, <3>1
      <4>2. /\ {} \in SUBSET State /\ {running} \in SUBSET State /\ {} \cap Range(b.dfs) = {}
            /\ {running} \subseteq Range(b.dfs) \cup {}
        BY <2>4, <3>1
      <4>3. InSync(c) /\ Range(c.dfs) = (Range(b.dfs) \cup {}) \ {running}
        BY <2>3, <4>1, <4>2, BaseUpdate
      <4> QED  BY <3>1, <4>3
    <3>2. CASE ~pause
      <4>1. c = b  BY <2>2, <3>2
      <4> QED  BY <2>3, <3>2, <4>1
    <3> QED  BY <3>1, <3>2
  <2>6. /\ Range(c.dfs) \cup held = states' /\ Range(c.dfs) \cap held = {}
        /\ held \subseteq State
        /\ held \subseteq pausedStates \cup (IF expired THEN {running} ELSE {})
    <3>1. CASE pause
      <4>1. held = left \cup {running} /\ expired /\ running \notin removed  BY <3>1
      <4> HIDE DEF held
      <4> QED  BY <1>1, <2>3, <2>4, <2>5, <3>1, <4>1
    <3>2. CASE ~pause
      <4>1. held = left  BY <3>2
      <4> HIDE DEF held
      <4> QED  BY <1>1, <2>3, <2>5, <3>2, <4>1
    <3> QED  BY <3>1, <3>2
  <2> HIDE DEF held
  <2>7. CASE c.dfs # <<>>
    <3>1. SetBase(c) /\ pausedStates' = held  BY <2>2, <2>7
    <3> QED  BY <1>4, <1>6, <2>5, <2>6, <2>7, <3>1
  <2>8. CASE c.dfs = <<>>
    <3>1. PICK d \in baseUpdate(c, held, {}) : SetBase(d)  BY <2>2, <2>8
    <3>2. pausedStates' = {}  BY <2>2, <2>8
    <3>3. Range(c.dfs) = {}  BY <2>5, <2>8, NothingListed DEF InSync
    <3>4. InSync(d) /\ Range(d.dfs) = (Range(c.dfs) \cup held) \ {}
      <4>1. /\ held \in SUBSET State /\ {} \in SUBSET State /\ held \cap Range(c.dfs) = {}
            /\ {} \subseteq Range(c.dfs) \cup held
        BY <2>6, <3>3
      <4> QED  BY <2>5, <3>1, <4>1, BaseUpdate
    <3>5. Range(d.dfs) \cup pausedStates' = states' /\ Range(d.dfs) \cap pausedStates' = {}
      BY <2>6, <3>2, <3>4
    <3> QED  BY <1>4, <3>1, <3>2, <3>4, <3>5
  <2> QED  BY <2>7, <2>8
<1> QED  BY <1>5, <1>6

\* Every layer selects a state that is listed.
LEMMA SelectListed ==
    ASSUME LayersHold, NEW s, ~Empty, selectState(s), states' = states
    PROVE  s \in Range(dfsStates) /\ pausedStates' = pausedStates /\ LayersHold'
<1> DEFINE D == Range(dfsStates)
<1>1. /\ InSync(Base) /\ D \cup pausedStates = states /\ D \cap pausedStates = {}
      /\ dfsStates = <<>> => pausedStates = {}
  BY DEF LayersHold
<1>2. /\ Distinct(dfsStates) /\ rsStates = D /\ invalidRemoval = FALSE
      /\ currentState \in State \cup {NoState} /\ lastState \in D \cup {NoState}
      /\ dfsStates # <<>> => currentState \in D \cup {NoState}
  BY <1>1 DEF InSync, Base
<1>3. dfsStates # <<>>  BY <1>1 DEF Empty
<1>4. D \subseteq State /\ dfsStates[Len(dfsStates)] \in D  BY <1>2, <1>3, NothingListed
<1>5. index \in {1, 2} /\ stack \in Stacks /\ pausedStates \subseteq State
  BY DEF LayersHold, SearchTypeOK
<1>6. /\ s \in D /\ currentState' \in D \cup {NoState} /\ lastState' \in D \cup {NoState}
      /\ UNCHANGED <<stack, dfsStates, rsStates, pausedStates, invalidRemoval>>
      /\ index' \in {1, 2}
  <2>1. CASE bottomSelect(s) /\ lastState' = IF UseBatchingSearch THEN s ELSE NoState
    <3>1. s \in D /\ currentState' \in D \cup {NoState}
      BY <1>2, <1>3, <1>4, <2>1 DEF bottomSelect
    <3>2. UNCHANGED <<stack, dfsStates, rsStates, pausedStates, invalidRemoval>> /\ index' \in {1, 2}
      BY <1>5, <2>1 DEF bottomSelect
    <3> QED  BY <2>1, <3>1, <3>2
  <2>2. CASE lastState # NoState /\ s = lastState /\ UNCHANGED searcherVars
    BY <1>2, <1>3, <1>5, <2>2 DEF searcherVars
  <2> QED  BY Zenon, <2>1, <2>2 DEF selectState
<1>7. InSync(Base)'
  BY <1>2, <1>3, <1>4, <1>6 DEF InSync, Base, Distinct
<1>8. SearchTypeOK'
  BY Zenon, <1>2, <1>4, <1>5, <1>6 DEF SearchTypeOK, Distinct
<1>9. UseIterativeDeepeningTimeSearch' = UseIterativeDeepeningTimeSearch
  BY <1>6 DEF UseIterativeDeepeningTimeSearch
<1> QED  BY <1>1, <1>6, <1>7, <1>8, <1>9 DEF LayersHold

\* Every step with these searchers is one of the executor, and keeps the layers
\* in step with it.
LEMMA UserStep ==
    ASSUME QuietSuccess, LongSlices, IInv, UserInv, [SearchNext]_searchVars
    PROVE  [Next]_vars /\ UserInv'
<1>1. LayersHold /\ (pc = "run" => current \notin pausedStates)  BY DEF UserInv
<1>2. ASSUME UNCHANGED searcherVars, states' = states PROVE LayersHold' /\ pausedStates' = pausedStates
  <2>1. /\ stack' = stack /\ dfsStates' = dfsStates /\ currentState' = currentState
        /\ rsStates' = rsStates /\ index' = index /\ lastState' = lastState
        /\ pausedStates' = pausedStates /\ invalidRemoval' = invalidRemoval
    BY <1>2 DEF searcherVars
  <2>2. InSync(Base)'  BY <1>1, <2>1 DEF LayersHold, InSync, Base, Distinct
  <2> QED  BY <1>1, <1>2, <2>1, <2>2
           DEF LayersHold, SearchTypeOK, UseIterativeDeepeningTimeSearch
<1>3. Expiry = {FALSE}  BY DEF Expiry
<1>4. ASSUME UNCHANGED searcherVars, states' = states, current' = current,
             pc' = pc \/ pc' # "run"
      PROVE  UserInv'
  BY <1>1, <1>2, <1>4 DEF UserInv
<1>5. ASSUME (\E s \in State : fork(s) \/ forkTooDeep(s)) \/ terminateState \/ yieldState,
             UNCHANGED searcherVars
      PROVE  Next /\ UserInv'
  <2>1. Next  BY Zenon, <1>5 DEF Next, Execute
  <2>2. states' = states /\ current' = current /\ pc' = pc
    BY <1>5 DEF fork, forkTooDeep, terminateState, yieldState
  <2> QED  BY <1>4, <1>5, <2>1, <2>2
<1>6. ASSUME NEW added \in SUBSET State, NEW removed \in SUBSET State, NEW running,
             update(added, removed, running, FALSE), added \cap states = {}, removed \subseteq states,
             states' = (states \cup added) \ removed, current' = current, pc' = pc
      PROVE  UserInv'
  <2>1. LayersHold' /\ pausedStates' \subseteq pausedStates \cup {}
    BY Zenon, <1>1, <1>6, UpdateLayers
  <2> QED  BY <1>1, <1>6, <2>1 DEF UserInv
<1>7. ASSUME executeInstruction PROVE UNCHANGED vars /\ UserInv'
  <2>1. UNCHANGED vars /\ update({}, {}, current, FALSE)  BY Zenon, <1>3, <1>7 DEF executeInstruction
  <2>2. /\ states' = (states \cup {}) \ {} /\ current' = current /\ pc' = pc
        /\ {} \in SUBSET State /\ {} \cap states = {} /\ {} \subseteq states
    BY <2>1 DEF vars
  <2>3. UserInv'  BY Zenon, <1>6, <2>1, <2>2
  <2> QED  BY <2>1, <2>3
<1>8. ASSUME searchUpdate PROVE Next /\ UserInv'
  <2>1. Next  BY Zenon, <1>8 DEF searchUpdate, Next
  <2>2. update(addedStates, removedStates, current, FALSE)  BY Zenon, <1>3, <1>8 DEF searchUpdate
  <2>3. /\ states' = (states \cup addedStates) \ removedStates /\ current' = current /\ pc' = pc
    BY <1>8 DEF searchUpdate, updateStates
  <2>4. /\ addedStates \in SUBSET State /\ removedStates \in SUBSET State
        /\ addedStates \cap states = {} /\ removedStates \subseteq states
    BY DEF IInv, TypeOK, Places, Flags
  <2>5. UserInv'  BY Zenon, <1>6, <2>2, <2>3, <2>4
  <2> QED  BY <2>1, <2>5
<1>9. ASSUME searchSucceed PROVE Next /\ UserInv'
  <2>1. Next  BY Zenon, <1>9 DEF searchSucceed, Next, Execute
  <2>2. update({}, {current}, NoState, FALSE)  BY Zenon, <1>9 DEF searchSucceed
  <2>3. /\ states' = (states \cup {}) \ {current} /\ current' = current /\ pc' = pc
        /\ current \in states /\ current \in State
    BY <1>9 DEF searchSucceed, succeedState, IInv, TypeOK
  <2>4. /\ {} \in SUBSET State /\ {current} \in SUBSET State
        /\ {} \cap states = {} /\ {current} \subseteq states
    BY <2>3
  <2>5. UserInv'  BY Zenon, <1>6, <2>2, <2>3, <2>4
  <2> QED  BY <2>1, <2>5
<1>10. ASSUME searchTimer PROVE Next /\ UserInv'
  <2>1. Next  BY Zenon, <1>10 DEF searchTimer, Next, Execute
  <2>2. states' = states /\ current' = current /\ pc' = "select" /\ pc = "run"
    BY <1>10 DEF searchTimer, stateSwitchTimerCallback
  <2>3. CASE removedStates' = {}
    <3>1. PICK e \in BOOLEAN : /\ e => UseIterativeDeepeningTimeSearch /\ (LongSlices => current \in states)
                               /\ update({}, {}, current, e)
      BY Zenon, <1>10, <2>3 DEF searchTimer
    <3>2. /\ states' = (states \cup {}) \ {}
          /\ {} \in SUBSET State /\ {} \cap states = {} /\ {} \subseteq states
          /\ e => UseIterativeDeepeningTimeSearch /\ current \in states \ pausedStates
      BY <1>1, <2>2, <3>1
    <3>3. LayersHold'  BY <1>1, <3>1, <3>2, UpdateLayers
    <3> QED  BY <2>1, <2>2, <3>3 DEF UserInv
  <2>4. CASE removedStates' # {}
    <3>1. UNCHANGED searcherVars  BY <1>10, <2>4 DEF searchTimer
    <3> QED  BY <1>4, <2>1, <2>2, <3>1
  <2> QED  BY <2>3, <2>4
<1>11. ASSUME NEW s \in State, ~Empty, selectState(s), selectNextState(s) \/ terminateSpeculative(s)
       PROVE  Next /\ UserInv'
  <2>1. states' = states  BY <1>11 DEF selectNextState, terminateSpeculative
  <2>2. s \in Range(dfsStates) /\ pausedStates' = pausedStates /\ LayersHold'
    BY <1>1, <1>11, <2>1, SelectListed
  <2>3. s \in states /\ s \notin pausedStates  BY <1>1, <2>2 DEF LayersHold
  <2>4. Next  BY Zenon, <1>11, <2>3 DEF Next
  <2>5. pc' = "run" => current' = s
    BY <1>11 DEF selectNextState, switchTo, terminateSpeculative
  <2> QED  BY <2>2, <2>3, <2>4, <2>5 DEF UserInv
<1>12. ASSUME Empty, allTerminated, UNCHANGED searcherVars PROVE Next /\ UserInv'
  <2>1. Distinct(dfsStates)  BY <1>1 DEF LayersHold, InSync, Base
  <2>2. states = {}  BY <1>1, <1>12, <2>1, NothingListed DEF LayersHold, Empty
  <2>3. Next  BY Zenon, <1>12, <2>2 DEF Next
  <2>4. states' = states /\ current' = current /\ pc' # "run"  BY <1>12 DEF allTerminated
  <2> QED  BY <1>4, <1>12, <2>3, <2>4
<1>13. ASSUME UNCHANGED vars, UNCHANGED searcherVars PROVE UserInv'
  <2>1. states' = states /\ current' = current /\ pc' = pc  BY <1>13 DEF vars
  <2> QED  BY <1>4, <1>13, <2>1
<1>14. UNCHANGED searchVars => UNCHANGED vars /\ UNCHANGED searcherVars  BY DEF searchVars
<1> QED
  BY Zenon, <1>5, <1>7, <1>8, <1>9, <1>10, <1>11, <1>12, <1>13, <1>14 DEF SearchNext, stopped

\* createInitialState() hands the initial state to every layer.
LEMMA UserInitInv == SearchInit => Init /\ UserInv
<1> SUFFICES ASSUME SearchInit PROVE Init /\ UserInv  OBVIOUS
<1>1. /\ dfsStates = <<InitialState>> /\ currentState = InitialState /\ rsStates = {InitialState}
      /\ index = 1 /\ lastState = NoState /\ pausedStates = {} /\ invalidRemoval = FALSE
      /\ stack \in Stacks /\ states = {InitialState} /\ InitialState \in State
  BY StateAssumption DEF SearchInit, Init
<1>2. Distinct(dfsStates)  BY <1>1 DEF Distinct
<1>3. Range(dfsStates) = {InitialState}  BY <1>1 DEF Range
<1>4. InSync(Base)  BY <1>1, <1>2, <1>3 DEF InSync, Base
<1>5. SearchTypeOK  BY Zenon, <1>1, <1>2 DEF SearchTypeOK, Distinct
<1> QED  BY <1>1, <1>3, <1>4, <1>5 DEF SearchInit, UserInv, LayersHold

\* The vector and the random searcher's set have the same size.
LEMMA ListedCount ==
    ASSUME NEW q, Distinct(q) PROVE Len(q) = Cardinality(Range(q))
<1>1. PICK n \in Nat : n = Len(q) /\ q \in [1..n -> State]  BY DEF Distinct
<1>2. DOMAIN q = 1..n /\ IsFiniteSet(1..n) /\ Cardinality(1..n) = n
  <2>1. 1 \in Int /\ n \in Int  OBVIOUS
  <2>2. IsFiniteSet(1..n) /\ Cardinality(1..n) = IF 1 > n THEN 0 ELSE n - 1 + 1
    BY Zenon, <2>1, FS_Interval
  <2> QED  BY <1>1, <2>2
<1>3. PICK S : S = 1..n  OBVIOUS
<1>4. PICK T : T = Range(q)  OBVIOUS
<1>5. /\ q \in [S -> T] /\ \A x, y \in S : q[x] = q[y] => x = y
      /\ \A t \in T : \E x \in S : q[x] = t
  BY <1>1, <1>2, <1>3, <1>4 DEF Range, Distinct
<1>6. q \in Injection(S, T) /\ q \in Surjection(S, T)
  BY <1>5 DEF Injection, Surjection, IsInjective
<1>7. IsFiniteSet(T)
  <2>1. T \subseteq State  BY <1>4, NothingListed
  <2> QED  BY Zenon, <2>1, StateAssumption, FS_Subset
<1>8. Cardinality(S) = Cardinality(T)  BY <1>6, <1>7, FS_Injection
<1> QED  BY <1>1, <1>2, <1>3, <1>4, <1>8

\* KLEE's searchers, stacked by constructUserSearcher() in any combination,
\* choose among the executor's states: selectNextState() knows the selection,
\* and they are empty only when no state is left.
THEOREM UserImplementsExecutor ==
    ASSUME QuietSuccess, LongSlices PROVE SearchSpec => ImplementsExecutor
<1>1. SearchInit => Init /\ IInv /\ UserInv  BY UserInitInv, InitInv
<1>2. IInv /\ UserInv /\ [SearchNext]_searchVars => [Next]_vars /\ IInv' /\ UserInv'
  BY UserStep, NextInv
<1> QED  BY <1>1, <1>2, PTL DEF SearchSpec, Spec, ImplementsExecutor

\* Every layer holds the executor's states, each once, apart from the paused
\* ones, and the batch and the DFS remember none that is gone.
THEOREM SearchersInSyncAlways ==
    ASSUME QuietSuccess, LongSlices PROVE SearchSpec => []SearchersInSync
<1>1. SearchInit => IInv /\ UserInv  BY UserInitInv, InitInv
<1>2. IInv /\ UserInv /\ [SearchNext]_searchVars => IInv' /\ UserInv'
  BY UserStep, NextInv
<1>3. UserInv => SearchersInSync
  <2> SUFFICES ASSUME UserInv PROVE SearchersInSync  OBVIOUS
  <2>1. /\ Distinct(dfsStates) /\ rsStates = Range(dfsStates)
        /\ lastState \in Range(dfsStates) \cup {NoState}
        /\ dfsStates # <<>> => currentState \in Range(dfsStates) \cup {NoState}
    BY DEF UserInv, LayersHold, InSync, Base
  <2>2. Len(dfsStates) = Cardinality(rsStates)  BY <2>1, ListedCount
  <2> QED  BY <2>1, <2>2 DEF UserInv, LayersHold, SearchersInSync
<1> QED  BY <1>1, <1>2, <1>3, PTL DEF SearchSpec

\* No layer is asked to remove a state that it does not hold: DFSSearcher's
\* assertion "invalid state removed" cannot fail.
THEOREM NoInvalidRemovalAlways ==
    ASSUME QuietSuccess, LongSlices PROVE SearchSpec => []NoInvalidRemoval
<1>1. SearchInit => IInv /\ UserInv  BY UserInitInv, InitInv
<1>2. IInv /\ UserInv /\ [SearchNext]_searchVars => IInv' /\ UserInv'
  BY UserStep, NextInv
<1>3. UserInv => NoInvalidRemoval
  BY DEF UserInv, LayersHold, InSync, Base, NoInvalidRemoval
<1> QED  BY <1>1, <1>2, <1>3, PTL DEF SearchSpec
=============================================================================
