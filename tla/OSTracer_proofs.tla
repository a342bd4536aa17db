---------------------------- MODULE OSTracer_proofs ----------------------------
(***************************************************************************)
(* Proofs, for any number of states, thread ids and page tables, that the  *)
(* OS tracer's view of a guest stays consistent.                           *)
(***************************************************************************)
EXTENDS InterpreterAnalyzer, FiniteSetTheorems, TLAPS

ThreadRecord == [tid : Tids \cup {0}, page_table : PageTables \cup {0},
                 kernel_mode : BOOLEAN, running : BOOLEAN]
StateRecord == [objects : [Object -> ThreadRecord],
                address_spaces : [PageTables -> Tids \cup {0}],
                active_thread : Object \cup {0}]

\* An object has the name of its thread, or is the active thread; and the active
\* thread exists.
Named(o) ==
    /\ \A t \in Tids : Exists(o, t) => o.objects[t].tid = t
    /\ Exists(o, Old) => o.active_thread = Old
    /\ o.active_thread # 0 => Exists(o, o.active_thread)

\* The marks are those of the active thread; the others were left in the kernel.
Marked(o, mode) ==
    \A i \in Object : Exists(o, i) =>
        /\ o.objects[i].running = (i = o.active_thread)
        /\ o.objects[i].kernel_mode = (i = o.active_thread => mode)

Owned(o) == \A p \in PageTables : o.address_spaces[p] \in {0} \cup At(o, p)

Consistent(o, mode) == o \in StateRecord /\ Named(o) /\ Marked(o, mode) /\ Owned(o)

\* What is left of ThreadsSchedulable in one state.
Unshared(o) == \A p \in PageTables : At(o, p) \subseteq {o.address_spaces[p]}

\* Thread ids are numbers from 1, and the name of the old thread is not one.
LEMMA Names == Old \in Nat \ {0} /\ Old \notin Tids /\ Tids \subseteq Nat \ {0} /\ 0 \notin Object
<1>1. Cardinality(Tids) \in Nat
  BY OSAssumption, FS_CardinalityType
<1> QED  BY <1>1, OSAssumption DEF Old, Object

\* A set of numbers has a smallest one, which clone() meets first.
LEMMA Smallest ==
    ASSUME NEW S \in SUBSET Nat, S # {}
    PROVE  \E t \in S : \A u \in S : t <= u
<1> DEFINE R == OpToRel(<, Nat)
<1>1. \A x \in Nat, y \in Nat : <<x, y>> \in R <=> x < y
  BY DEF OpToRel
<1>2. IsWellFoundedOn(R, Nat)
  BY Zenon, NatLessThanWellFounded
<1> HIDE DEF R
<1>3. \E t \in S : \A u \in S : ~(<<u, t>> \in R)
  BY Zenon, <1>2, WFMin
<1>4. PICK t \in S : \A u \in S : ~(<<u, t>> \in R)
  BY <1>3
<1>5. ASSUME NEW u \in S PROVE t <= u
  <2>1. ~(u < t)  BY Zenon, <1>1, <1>4
  <2> QED  BY <2>1
<1> QED  BY <1>5

\* A state in which no thread is known is consistent.
LEMMA EmptyConsistent == Consistent(EmptyState, TRUE) /\ Unshared(EmptyState)
BY Zenon, Names DEF Consistent, StateRecord, ThreadRecord, Named, Marked, Owned, Unshared, At, Exists,
   EmptyState, Freed, Object

\* A thread that is erased leaves a consistent state: if it is active it becomes
\* the old thread.
LEMMA ErasedConsistent ==
    ASSUME NEW o, NEW mode \in BOOLEAN, Consistent(o, mode), NEW t \in Tids, Exists(o, t)
    PROVE  /\ Consistent(erased(o, t), mode) /\ ~Exists(erased(o, t), t)
           /\ Unshared(o) => Unshared(erased(o, t))
<1> DEFINE e == erased(o, t)
<1> USE Names DEF Consistent
<1>1. e \in StateRecord
  BY Zenon DEF erased, StateRecord, ThreadRecord, Freed, Object
<1>2. /\ \A u \in Tids \ {t} : e.objects[u] = o.objects[u]
      /\ e.objects[t] = Freed
      /\ e.objects[Old] = IF o.active_thread = t THEN o.objects[t] ELSE o.objects[Old]
      /\ e.active_thread = IF o.active_thread = t THEN Old ELSE o.active_thread
  BY DEF erased, StateRecord, Object
<1>3. \A p \in PageTables : e.address_spaces[p] = IF p = o.objects[t].page_table THEN 0
                                                  ELSE o.address_spaces[p]
  BY DEF erased, StateRecord
<1> HIDE DEF e
<1>4. Named(e)
  <2>1. o.active_thread \in Object \cup {0}  BY DEF StateRecord
  <2>2. CASE o.active_thread = t
    <3>1. e.objects[t].tid = 0 /\ e.objects[Old] = o.objects[t] /\ e.active_thread = Old
      BY <1>2, <2>2 DEF Freed
    <3>2. \A u \in Tids : Exists(e, u) => e.objects[u].tid = u
      BY <1>2, <3>1 DEF Named, Exists
    <3>3. Exists(e, Old)  BY <3>1 DEF Exists
    <3> QED  BY <3>1, <3>2, <3>3 DEF Named
  <2>3. CASE o.active_thread # t
    <3>1. e.objects[t].tid = 0 /\ e.objects[Old] = o.objects[Old]
      BY <1>2, <2>3 DEF Freed
    <3>2. \A u \in Tids : Exists(e, u) => e.objects[u].tid = u
      BY <1>2, <3>1 DEF Named, Exists
    <3>3. e.active_thread = o.active_thread  BY <1>2, <2>3
    <3>4. e.active_thread # 0 => Exists(e, e.active_thread)
      BY Zenon, <1>2, <2>1, <2>3, <3>1, <3>3 DEF Named, Exists, Object
    <3> QED  BY <3>1, <3>2, <3>3, <3>4 DEF Named, Exists
  <2> QED  BY <2>2, <2>3
<1>5. Marked(e, mode)
  BY <1>1, <1>2 DEF Marked, Named, Exists, Freed, Object, StateRecord
<1>6. Owned(e)
  BY <1>1, <1>2, <1>3 DEF Owned, At, Exists, Freed, Object, StateRecord
<1>7. ~Exists(e, t)
  BY <1>2 DEF Exists, Freed
<1>8. Unshared(o) => Unshared(e)
  <2> SUFFICES ASSUME Unshared(o), NEW p \in PageTables, NEW u \in At(e, p)
               PROVE  u = e.address_spaces[p]
    BY DEF Unshared
  <2>1. u \in Tids \ {t} /\ u \in At(o, p)
    BY <1>2 DEF At, Exists, Freed
  <2>2. u = o.address_spaces[p]
    BY <2>1 DEF Unshared
  <2>3. p # o.objects[t].page_table
    BY <2>1, <2>2 DEF Unshared, At
  <2> QED  BY <1>3, <2>2, <2>3
<1> QED  BY <1>1, <1>4, <1>5, <1>6, <1>7, <1>8 DEF e

\* Marking a thread changes its mark.
LEMMA MarkFacts ==
    ASSUME NEW thread \in ThreadRecord, NEW mark \in BOOLEAN
    PROVE  /\ Mark(thread, mark) \in ThreadRecord /\ Mark(thread, mark).running = mark
           /\ Mark(thread, mark).tid = thread.tid
           /\ Mark(thread, mark).page_table = thread.page_table
           /\ Mark(thread, mark).kernel_mode = thread.kernel_mode
BY DEF Mark, ThreadRecord

\* A thread that starts leaves a consistent state, and its entry is its own if
\* no other thread has the page table.
LEMMA StartedConsistent ==
    ASSUME NEW o, NEW mode \in BOOLEAN, Consistent(o, mode), NEW t \in Tids, NEW p \in PageTables
    PROVE  /\ Consistent(started(o, t, p), mode)
           /\ Unshared(o) /\ At(o, p) \subseteq {t} => Unshared(started(o, t, p))
<1> DEFINE e == IF Exists(o, t) THEN erased(o, t) ELSE o
           n == started(o, t, p)
<1> USE Names
<1>1. Consistent(e, mode) /\ ~Exists(e, t) /\ (Unshared(o) => Unshared(e))
  BY ErasedConsistent
<1>2. At(e, p) \subseteq At(o, p)
  BY DEF At, Exists, erased, Freed, Object
<1>3. n = [objects |-> [e.objects EXCEPT ![t] = Thread(t, p)],
           address_spaces |-> [e.address_spaces EXCEPT ![p] = IF @ = 0 THEN t ELSE @],
           active_thread |-> e.active_thread]
  BY DEF started
<1> HIDE DEF e
<1> USE DEF Consistent
<1>4. n \in StateRecord
  <2>1. Thread(t, p) \in ThreadRecord  BY DEF Thread, ThreadRecord
  <2> QED  BY <1>1, <1>3, <2>1 DEF StateRecord, Object
<1>5. /\ \A i \in Object \ {t} : n.objects[i] = e.objects[i]
      /\ n.objects[t] = Thread(t, p)
      /\ n.active_thread = e.active_thread
      /\ \A q \in PageTables \ {p} : n.address_spaces[q] = e.address_spaces[q]
      /\ n.address_spaces[p] = IF e.address_spaces[p] = 0 THEN t ELSE e.address_spaces[p]
  BY <1>1, <1>3 DEF StateRecord, Object
<1>6. /\ n.objects[t].tid = t /\ n.objects[t].page_table = p
      /\ n.objects[t].kernel_mode = TRUE /\ n.objects[t].running = FALSE
  BY <1>5 DEF Thread
<1>7. e.active_thread # t /\ e.active_thread \in Object \cup {0}
  BY <1>1 DEF Named, StateRecord
<1> HIDE DEF n
<1>8. Named(n)
  <2>1. \A u \in Tids : Exists(n, u) => n.objects[u].tid = u
    BY <1>1, <1>5, <1>6 DEF Named, Exists, Object
  <2>2. n.objects[Old] = e.objects[Old]  BY <1>5 DEF Object
  <2>3. n.active_thread # 0 => n.objects[n.active_thread] = e.objects[e.active_thread]
    BY <1>5, <1>7
  <2> QED  BY <1>1, <1>5, <2>1, <2>2, <2>3 DEF Named, Exists
<1>9. Marked(n, mode)
  <2>1. ASSUME NEW i \in Object \ {t}, Exists(n, i)
        PROVE  /\ n.objects[i].running = (i = n.active_thread)
               /\ n.objects[i].kernel_mode = (i = n.active_thread => mode)
    BY <1>1, <1>5, <2>1 DEF Marked, Exists
  <2>2. /\ n.objects[t].running = (t = n.active_thread)
        /\ n.objects[t].kernel_mode = (t = n.active_thread => mode)
    BY Zenon, <1>5, <1>6, <1>7
  <2> QED  BY <2>1, <2>2 DEF Marked
<1>12. \A q \in PageTables : At(e, q) \subseteq At(n, q) /\ At(n, q) \subseteq At(e, q) \cup {t}
  BY Zenon, <1>1, <1>5, <1>6 DEF At, Exists, Object
<1>13. t \in At(n, p) /\ \A q \in PageTables \ {p} : t \notin At(n, q)
  BY <1>6 DEF At, Exists
<1>10. Owned(n)
  BY <1>1, <1>5, <1>12, <1>13 DEF Owned
<1>11. ASSUME Unshared(o), At(o, p) \subseteq {t} PROVE Unshared(n)
  <2>1. t \notin At(e, p)  BY <1>1 DEF At
  <2>2. At(e, p) = {} /\ e.address_spaces[p] = 0
    BY <1>1, <1>2, <1>11, <2>1 DEF Owned
  <2> QED  BY <1>1, <1>5, <1>11, <1>12, <1>13, <2>2 DEF Unshared
<1> QED  BY <1>4, <1>8, <1>9, <1>10, <1>11 DEF n

\* Loading a page table in kernel mode makes its thread the active one.
LEMMA ScheduledConsistent ==
    ASSUME NEW o, Consistent(o, TRUE), NEW p \in PageTables
    PROVE  /\ Consistent(scheduled(o, p), TRUE)
           /\ Unshared(o) => Unshared(scheduled(o, p))
           /\ \A t \in Tids : Exists(scheduled(o, p), t) <=> Exists(o, t)
<1> DEFINE next == Lock(o, p)
           n == scheduled(o, p)
<1> USE Names DEF Consistent
<1>1. CASE next = o.active_thread
  BY Zenon, <1>1 DEF scheduled
<1>2. CASE next # o.active_thread
  <2>1. next \in Tids \cup {0} /\ (next # 0 => Exists(o, next))
    BY DEF Lock, StateRecord
  <2>2. /\ n.active_thread = next /\ n.address_spaces = o.address_spaces
        /\ n.objects = [i \in Object |->
                 IF i = Old THEN Freed
                 ELSE IF i = next THEN Mark(o.objects[i], TRUE)
                 ELSE IF i = o.active_thread THEN Mark(o.objects[i], FALSE)
                 ELSE o.objects[i]]
    BY <1>2 DEF scheduled
  <2>m. \A i \in Object : \A mark \in BOOLEAN :
            /\ Mark(o.objects[i], mark) \in ThreadRecord
            /\ Mark(o.objects[i], mark).running = mark
            /\ Mark(o.objects[i], mark).tid = o.objects[i].tid
            /\ Mark(o.objects[i], mark).page_table = o.objects[i].page_table
            /\ Mark(o.objects[i], mark).kernel_mode = o.objects[i].kernel_mode
    <3>1. \A i \in Object : o.objects[i] \in ThreadRecord  BY DEF StateRecord
    <3> QED  BY <3>1, MarkFacts
  <2>r. n = [objects |-> n.objects, address_spaces |-> o.address_spaces, active_thread |-> next]
    BY <1>2 DEF scheduled
  <2> HIDE DEF n, next
  <2>o. \A i \in Tids : n.objects[i] = IF i = next THEN Mark(o.objects[i], TRUE)
                                       ELSE IF i = o.active_thread THEN Mark(o.objects[i], FALSE)
                                       ELSE o.objects[i]
    BY Zenon, <2>2 DEF Object
  <2>3. n \in StateRecord
    <3>1. Freed \in ThreadRecord  BY DEF Freed, ThreadRecord
    <3>2. \A i \in Object : n.objects[i] \in ThreadRecord
      <4>1. \A i \in Tids : n.objects[i] \in ThreadRecord
        <5> SUFFICES ASSUME NEW i \in Tids PROVE n.objects[i] \in ThreadRecord
          OBVIOUS
        <5>1. CASE i = next  BY Zenon, <2>o, <2>m, <5>1 DEF Object
        <5>2. CASE i # next /\ i = o.active_thread  BY ZenonT(40), <2>o, <2>m, <5>2 DEF Object
        <5>3. CASE i # next /\ i # o.active_thread  BY Zenon, <2>o, <5>3 DEF StateRecord, Object
        <5> QED  BY <5>1, <5>2, <5>3
      <4>2. n.objects[Old] \in ThreadRecord  BY <2>2, <3>1 DEF Object
      <4> QED  BY Zenon, <4>1, <4>2 DEF Object
    <3>3. n.objects \in [Object -> ThreadRecord]
      BY Zenon, <2>2, <3>2
    <3> QED  BY <2>1, <2>r, <3>3 DEF StateRecord, Object
  <2>4. /\ n.objects[Old].tid = 0
        /\ \A i \in Tids : /\ n.objects[i].tid = o.objects[i].tid
                           /\ n.objects[i].page_table = o.objects[i].page_table
                           /\ n.objects[i].kernel_mode = o.objects[i].kernel_mode
    <3>1. n.objects[Old].tid = 0  BY <2>2 DEF Object, Freed
    <3>2. ASSUME NEW i \in Tids
          PROVE  /\ n.objects[i].tid = o.objects[i].tid
                 /\ n.objects[i].page_table = o.objects[i].page_table
                 /\ n.objects[i].kernel_mode = o.objects[i].kernel_mode
      <4>1. CASE i = next  BY Zenon, <2>o, <2>m, <4>1 DEF Object
      <4>2. CASE i # next /\ i = o.active_thread  BY Zenon, <2>o, <2>m, <4>2 DEF Object
      <4>3. CASE i # next /\ i # o.active_thread  BY Zenon, <2>o, <4>3
      <4> QED  BY <4>1, <4>2, <4>3
    <3> QED  BY <3>1, <3>2
  <2>5. ASSUME NEW i \in Tids, Exists(o, i) PROVE n.objects[i].running = (i = next)
    <3>1. CASE i = next
      <4>1. n.objects[i] = Mark(o.objects[i], TRUE)  BY Zenon, <2>o, <3>1
      <4>2. Mark(o.objects[i], TRUE).running = TRUE  BY Zenon, <2>m DEF Object
      <4> QED  BY <3>1, <4>1, <4>2, Zenon
    <3>2. CASE i # next /\ i = o.active_thread
      <4>1. n.objects[i] = Mark(o.objects[i], FALSE)  BY Zenon, <2>o, <3>2
      <4>2. Mark(o.objects[i], FALSE).running = FALSE  BY Zenon, <2>m DEF Object
      <4> QED  BY <3>2, <4>1, <4>2, Zenon
    <3>3. CASE i # next /\ i # o.active_thread
      <4>1. o.objects[i].running = (i = o.active_thread)  BY Zenon, <2>5 DEF Marked, Object
      <4>2. n.objects[i] = o.objects[i]  BY Zenon, <2>o, <3>3
      <4> QED  BY <3>3, <4>1, <4>2
    <3> QED  BY <3>1, <3>2, <3>3
  <2>6. Named(n)
    BY ZenonT(40), <2>1, <2>2, <2>4 DEF Named, Exists
  <2>7. Marked(n, TRUE)
    <3>1. SUFFICES ASSUME NEW i \in Object, Exists(n, i)
                   PROVE  n.objects[i].running = (i = next) /\ n.objects[i].kernel_mode = TRUE
      BY Zenon, <2>2 DEF Marked
    <3>2. i \in Tids /\ Exists(o, i)  BY Zenon, <2>4, <3>1 DEF Exists, Object
    <3>3. o.objects[i].kernel_mode = TRUE  BY Zenon, <3>2 DEF Marked
    <3> QED  BY <2>4, <2>5, <3>2, <3>3
  <2>8. \A q \in PageTables : At(n, q) = At(o, q)
    BY Zenon, <2>4 DEF At, Exists
  <2>9. Owned(n) /\ (Unshared(o) => Unshared(n))
    BY <2>2, <2>8 DEF Owned, Unshared
  <2> QED  BY Zenon, <2>3, <2>4, <2>6, <2>7, <2>9 DEF n, Exists
<1> QED  BY Zenon, <1>1, <1>2

\* A change of mode is that of the active thread.
LEMMA PrivilegedConsistent ==
    ASSUME NEW o, NEW before \in BOOLEAN, NEW mode \in BOOLEAN, Consistent(o, before)
    PROVE  /\ Consistent(privileged(o, mode), mode)
           /\ Unshared(o) => Unshared(privileged(o, mode))
           /\ \A i \in Object : Exists(privileged(o, mode), i) <=> Exists(o, i)
           /\ privileged(o, mode).active_thread = o.active_thread
           /\ ActiveTid(privileged(o, mode)) = ActiveTid(o)
<1> DEFINE a == o.active_thread
           n == privileged(o, mode)
<1> USE Names DEF Consistent
<1>1. CASE a = 0
  <2>1. n = o  BY <1>1 DEF privileged
  <2>2. Marked(o, mode)
    <3>1. \A i \in Object : i # a  BY <1>1
    <3> QED  BY <3>1 DEF Marked
  <2> QED  BY <2>1, <2>2
<1>2. CASE a # 0
  <2>1. a \in Object  BY <1>2 DEF StateRecord
  <2>2. /\ n = [o EXCEPT !.objects = [o.objects EXCEPT ![a] = n.objects[a]]]
        /\ n.objects[a] = [o.objects[a] EXCEPT !.kernel_mode = mode]
    BY <1>2, <2>1 DEF privileged, StateRecord
  <2> HIDE DEF n, a
  <2>3. o.objects[a] \in ThreadRecord  BY <2>1 DEF StateRecord
  <2>4. /\ n.objects[a] \in ThreadRecord /\ n.objects[a].kernel_mode = mode
        /\ n.objects[a].running = o.objects[a].running /\ n.objects[a].tid = o.objects[a].tid
        /\ n.objects[a].page_table = o.objects[a].page_table
    BY <2>2, <2>3 DEF ThreadRecord
  <2>5. n \in StateRecord  BY <2>2, <2>4 DEF StateRecord
  <2>6. /\ n.active_thread = a /\ n.address_spaces = o.address_spaces
        /\ \A i \in Object \ {a} : n.objects[i] = o.objects[i]
    BY <2>2 DEF StateRecord, a
  <2>7. \A i \in Object : /\ n.objects[i].tid = o.objects[i].tid
                          /\ n.objects[i].page_table = o.objects[i].page_table
                          /\ n.objects[i].running = o.objects[i].running
    BY <2>4, <2>6
  <2>8. \A i \in Object : Exists(n, i) <=> Exists(o, i)  BY <2>7 DEF Exists
  <2>9. Named(n)
    BY Zenon, <2>1, <2>6, <2>7, <2>8 DEF Named, Object, a
  <2>10. Marked(n, mode)
    <3>1. SUFFICES ASSUME NEW i \in Object, Exists(n, i)
                   PROVE  /\ n.objects[i].running = (i = a)
                          /\ n.objects[i].kernel_mode = (i = a => mode)
      BY <2>6 DEF Marked
    <3>2. o.objects[i].running = (i = a) /\ o.objects[i].kernel_mode = (i = a => before)
      BY <2>8, <3>1 DEF Marked, a
    <3>3. n.objects[i].running = (i = a)  BY <2>7, <3>2
    <3>4. CASE i = a  BY <2>4, <3>3, <3>4
    <3>5. CASE i # a  BY <2>6, <3>2, <3>3, <3>5
    <3> QED  BY <3>4, <3>5
  <2>11. \A p \in PageTables : At(n, p) = At(o, p)  BY Zenon, <2>7, <2>8 DEF At, Object
  <2> QED  BY <2>1, <2>5, <2>6, <2>7, <2>8, <2>9, <2>10, <2>11 DEF Owned, Unshared, ActiveTid, n, a
<1> QED  BY <1>1, <1>2

\* The copy of a consistent state is consistent.
LEMMA CloneConsistent ==
    ASSUME NEW o, NEW mode \in BOOLEAN, Consistent(o, mode)
    PROVE  /\ Consistent(clone(o), mode)
           /\ Unshared(o) => Unshared(clone(o))
           /\ \A t \in Tids : Exists(clone(o), t) <=> Exists(o, t)
<1> DEFINE n == clone(o)
<1> USE Names DEF Consistent
<1>1. /\ n = [objects |-> [o.objects EXCEPT ![Old] = Freed],
              address_spaces |-> [p \in PageTables |-> FirstAt(o, p)],
              active_thread |-> n.active_thread]
      /\ n.active_thread = IF o.active_thread = Old THEN 0 ELSE o.active_thread
  BY DEF clone
<1> HIDE DEF n
<1>2. \A p \in PageTables : FirstAt(o, p) \in At(o, p) \/ (FirstAt(o, p) = 0 /\ At(o, p) = {})
  <2> SUFFICES ASSUME NEW p \in PageTables, At(o, p) # {} PROVE FirstAt(o, p) \in At(o, p)
    BY DEF FirstAt
  <2>1. At(o, p) \subseteq Nat  BY Zenon DEF At
  <2>2. \E t \in At(o, p) : \A u \in At(o, p) : t <= u
    BY <2>1, Smallest
  <2> QED  BY <2>2 DEF FirstAt
<1>3. /\ \A t \in Tids : n.objects[t] = o.objects[t]
      /\ n.objects[Old].tid = 0
      /\ \A p \in PageTables : n.address_spaces[p] = FirstAt(o, p)
  BY <1>1 DEF StateRecord, Object, Freed
<1>4. n \in StateRecord
  <2>1. Freed \in ThreadRecord  BY DEF Freed, ThreadRecord
  <2>2. \A p \in PageTables : FirstAt(o, p) \in Tids \cup {0}  BY <1>2 DEF At
  <2> QED  BY <1>1, <2>1, <2>2 DEF StateRecord
<1>5. \A t \in Tids : Exists(n, t) <=> Exists(o, t)  BY <1>3 DEF Exists
<1>6. Named(n)
  BY <1>1, <1>3, <1>5 DEF Named, Exists, StateRecord, Object
<1>7. Marked(n, mode)
  <2>1. SUFFICES ASSUME NEW i \in Object, Exists(n, i)
                 PROVE  /\ n.objects[i].running = (i = n.active_thread)
                        /\ n.objects[i].kernel_mode = (i = n.active_thread => mode)
    BY DEF Marked
  <2>2. i \in Tids /\ Exists(o, i)  BY <1>3, <1>5, <2>1 DEF Exists, Object
  <2>3. (i = n.active_thread) = (i = o.active_thread)  BY <1>1, <2>2
  <2>4. /\ o.objects[i].running = (i = o.active_thread)
        /\ o.objects[i].kernel_mode = (i = o.active_thread => mode)
    BY <2>2 DEF Marked
  <2>5. n.objects[i] = o.objects[i]  BY <1>3, <2>2
  <2> QED  BY <2>3, <2>4, <2>5
<1>8. \A p \in PageTables : At(n, p) = At(o, p)  BY Zenon, <1>3, <1>5 DEF At
<1>9. Owned(n) /\ (Unshared(o) => Unshared(n))
  BY <1>2, <1>3, <1>8 DEF Owned, Unshared
<1> QED  BY <1>4, <1>5, <1>6, <1>7, <1>9 DEF n

-----------------------------------------------------------------------------
\* The other threads still exist after a thread is erased; the active one keeps
\* its id.
LEMMA ErasedThreads ==
    ASSUME NEW o, NEW mode \in BOOLEAN, Consistent(o, mode), NEW t \in Tids, Exists(o, t)
    PROVE  /\ \A u \in Tids \ {t} : Exists(o, u) => Exists(erased(o, t), u)
           /\ ActiveTid(erased(o, t)) = ActiveTid(o)
<1> DEFINE e == erased(o, t)
<1> USE Names DEF Consistent
<1>1. /\ \A u \in Tids \ {t} : e.objects[u] = o.objects[u]
      /\ e.objects[Old] = IF o.active_thread = t THEN o.objects[t] ELSE o.objects[Old]
      /\ e.active_thread = IF o.active_thread = t THEN Old ELSE o.active_thread
  BY DEF erased, StateRecord, Object
<1> HIDE DEF e
<1>2. \A u \in Tids \ {t} : Exists(o, u) => Exists(e, u)  BY <1>1 DEF Exists
<1>3. o.active_thread \in Object \cup {0}  BY DEF StateRecord
<1>4. ActiveTid(e) = ActiveTid(o)  BY Zenon, <1>1, <1>3 DEF ActiveTid, Object
<1> QED  BY <1>2, <1>4 DEF e

\* A thread that is started exists, and so do the others; the active one keeps its id.
LEMMA StartedThreads ==
    ASSUME NEW o, NEW mode \in BOOLEAN, Consistent(o, mode), NEW t \in Tids, NEW p \in PageTables
    PROVE  /\ \A u \in Tids : Exists(o, u) => Exists(started(o, t, p), u)
           /\ Exists(started(o, t, p), t)
           /\ ActiveTid(started(o, t, p)) = ActiveTid(o)
<1> DEFINE e == IF Exists(o, t) THEN erased(o, t) ELSE o
           n == started(o, t, p)
<1> USE Names DEF Consistent
<1>1. /\ Consistent(e, mode) /\ ~Exists(e, t) /\ ActiveTid(e) = ActiveTid(o)
      /\ \A u \in Tids \ {t} : Exists(o, u) => Exists(e, u)
  BY ErasedConsistent, ErasedThreads
<1>2. n = [objects |-> [e.objects EXCEPT ![t] = Thread(t, p)],
           address_spaces |-> [e.address_spaces EXCEPT ![p] = IF @ = 0 THEN t ELSE @],
           active_thread |-> e.active_thread]
  BY DEF started
<1> HIDE DEF e, n
<1>3. /\ \A i \in Object \ {t} : n.objects[i] = e.objects[i]
      /\ n.objects[t].tid = t /\ n.active_thread = e.active_thread
  BY <1>1, <1>2 DEF StateRecord, Object, Thread
<1>4. e.active_thread # 0 => e.active_thread \in Object \ {t}
  BY <1>1 DEF StateRecord, Named
<1>5. ActiveTid(n) = ActiveTid(e)  BY <1>3, <1>4 DEF ActiveTid
<1>6. \A u \in Tids \ {t} : Exists(e, u) => Exists(n, u)  BY Zenon, <1>3 DEF Exists, Object
<1>7. Exists(n, t)  BY <1>3 DEF Exists
<1> QED  BY <1>1, <1>5, <1>6, <1>7 DEF n

-----------------------------------------------------------------------------
\* The inductive invariant.  In the OS tracer: every state is consistent with the
\* mode of its CPU, also one that is not alive, as it will be if it is born; and
\* in user mode the active thread is one that has not exited.
KnownInUser(o, mode) == ~mode /\ ActiveTid(o) # 0 => Exists(o, ActiveTid(o))

OSInv ==
    /\ status \in [States -> {"unborn", "alive"}] /\ running \in States
    /\ kernel \in [States -> BOOLEAN] /\ guest \in Guests
    /\ os \in [States -> StateRecord]
    /\ \A l \in States : /\ Consistent(os[l], kernel[l]) /\ KnownInUser(os[l], kernel[l])
                         /\ guest # "shares" => Unshared(os[l])

\* In the analyzer: the states with a call stack have the tracked thread, and
\* there is one state while the structure is to be found.
Pending == detector \in {"idle", "calibrating"}

AInv ==
    /\ tracked \in Tids \cup {0} /\ connected \in BOOLEAN /\ callStacks \subseteq States
    /\ interpParams \in BOOLEAN /\ dangling \in BOOLEAN
    /\ detector \in {"none", "idle", "calibrating", "detected"}
    /\ running \in Alive /\ connected => tracked # 0 /\ ActiveTid(os[running]) = tracked
    /\ \A l \in callStacks : l \in Alive /\ tracked # 0 /\ Exists(os[l], tracked)
    /\ Pending => tracked # 0 /\ ~dangling /\ ~interpParams
    /\ guest # "forksEarly" /\ ~interpParams => Alive \subseteq {running}
    /\ guest # "forksEarly" /\ Pending /\ running \in Alive => Exists(os[running], tracked)

IInv == OSInv /\ AInv

\* The invariant holds when S2E starts.
LEMMA InitInv == AnalyzerInit => IInv
<1> SUFFICES ASSUME AnalyzerInit PROVE IInv
  OBVIOUS
<1>1. Consistent(EmptyState, TRUE) /\ Unshared(EmptyState) /\ EmptyState \in StateRecord
  BY Zenon, EmptyConsistent DEF Consistent
<1>2. KnownInUser(EmptyState, TRUE)  BY DEF KnownInUser
<1>3. OSInv
  BY Zenon, <1>1, <1>2 DEF AnalyzerInit, OSInit, OSInv
<1>4. AInv
  BY Zenon DEF AnalyzerInit, OSInit, AInv, Alive, Pending
<1> QED  BY <1>3, <1>4 DEF IInv

\* An operation that changes what is known of one state.
LEMMA UpdateInv ==
    ASSUME OSInv, NEW l \in States, NEW n, NEW mode \in BOOLEAN,
           os' = [os EXCEPT ![l] = n], kernel' = [kernel EXCEPT ![l] = mode],
           status' \in [States -> {"unborn", "alive"}], running' = running, guest' = guest,
           Consistent(n, mode), KnownInUser(n, mode), guest # "shares" => Unshared(n)
    PROVE  OSInv'
<1>1. n \in StateRecord  BY DEF Consistent
<1>2. os' \in [States -> StateRecord] /\ kernel' \in [States -> BOOLEAN]
  BY <1>1 DEF OSInv
<1>3. \A m \in States : /\ m = l => os'[m] = n /\ kernel'[m] = mode
                        /\ m # l => os'[m] = os[m] /\ kernel'[m] = kernel[m]
  BY DEF OSInv
<1>4. ASSUME NEW m \in States
      PROVE  /\ Consistent(os'[m], kernel'[m]) /\ KnownInUser(os'[m], kernel'[m])
             /\ guest' # "shares" => Unshared(os'[m])
  <2>1. CASE m = l
    <3>1. os'[m] = n /\ kernel'[m] = mode  BY <1>3, <2>1
    <3> QED  BY <3>1
  <2>2. CASE m # l
    <3>1. os'[m] = os[m] /\ kernel'[m] = kernel[m]  BY <1>3, <2>2
    <3> QED  BY <3>1 DEF OSInv
  <2> QED  BY <2>1, <2>2
<1> QED  BY <1>2, <1>4 DEF OSInv

\* S2E_THREAD_START keeps the OS tracer's part of the invariant.
LEMMA StartInv ==
    ASSUME OSInv, NEW t \in Tids, NEW p \in PageTables, threadStart(t, p)
    PROVE  OSInv'
<1> DEFINE o == os[running]
           n == started(o, t, p)
<1>1. running \in States /\ kernel \in [States -> BOOLEAN] /\ kernel[running] = TRUE
      /\ Consistent(o, TRUE) /\ (guest # "shares" => Unshared(o))
  <2>1. kernel[running] = TRUE  BY DEF threadStart, OSInv
  <2> QED  BY Zenon, <2>1 DEF OSInv
<1>2. Consistent(n, TRUE) /\ (guest # "shares" => Unshared(n))
  BY Zenon, <1>1, StartedConsistent DEF threadStart
<1>3. KnownInUser(n, TRUE)  BY DEF KnownInUser
<1>4. /\ os' = [os EXCEPT ![running] = n]
      /\ kernel' = [kernel EXCEPT ![running] = TRUE]
      /\ status' \in [States -> {"unborn", "alive"}] /\ running' = running /\ guest' = guest
  BY <1>1 DEF threadStart, OSInv
<1> HIDE DEF n, o
<1> QED  BY Zenon, <1>1, <1>2, <1>3, <1>4, UpdateInv

\* S2E_THREAD_EXIT keeps the OS tracer's part of the invariant.
LEMMA ExitInv ==
    ASSUME OSInv, NEW t \in Tids, threadExit(t)
    PROVE  OSInv'
<1> DEFINE o == os[running]
           n == erased(o, t)
<1>1. running \in States /\ kernel \in [States -> BOOLEAN] /\ kernel[running] = TRUE
      /\ Consistent(o, TRUE) /\ (guest # "shares" => Unshared(o))
  <2>1. kernel[running] = TRUE  BY DEF threadExit, OSInv
  <2> QED  BY Zenon, <2>1 DEF OSInv
<1>2. Consistent(n, TRUE) /\ (guest # "shares" => Unshared(n))
  BY Zenon, <1>1, ErasedConsistent DEF threadExit
<1>3. KnownInUser(n, TRUE)  BY DEF KnownInUser
<1>4. /\ os' = [os EXCEPT ![running] = n]
      /\ kernel' = [kernel EXCEPT ![running] = TRUE]
      /\ status' \in [States -> {"unborn", "alive"}] /\ running' = running /\ guest' = guest
  BY <1>1 DEF threadExit, OSInv
<1> HIDE DEF n, o
<1> QED  BY Zenon, <1>1, <1>2, <1>3, <1>4, UpdateInv

\* onPrivilegeChange() keeps the OS tracer's part of the invariant.
LEMMA PrivilegeInv ==
    ASSUME OSInv, privilegeChange
    PROVE  OSInv'
<1> DEFINE o == os[running]
           mode == ~kernel[running]
           n == privileged(o, mode)
<1>1. /\ running \in States /\ kernel[running] \in BOOLEAN /\ mode \in BOOLEAN
      /\ Consistent(o, kernel[running]) /\ (guest # "shares" => Unshared(o))
  BY DEF OSInv
<1> HIDE DEF mode
<1>2. /\ Consistent(n, mode) /\ (guest # "shares" => Unshared(n))
      /\ ActiveTid(n) = ActiveTid(o) /\ \A i \in Object : Exists(n, i) <=> Exists(o, i)
  BY <1>1, PrivilegedConsistent
<1>3. KnownInUser(n, mode)
  <2>1. o.active_thread \in Object \cup {0} /\ o.objects \in [Object -> ThreadRecord]
    BY <1>1 DEF Consistent, StateRecord
  <2>2. ActiveTid(o) \in Object \cup {0}
    BY <2>1 DEF ActiveTid, ThreadRecord, Object
  <2>3. ~mode /\ ActiveTid(o) # 0 => Exists(o, ActiveTid(o))
    BY DEF privilegeChange, mode
  <2> HIDE DEF n, o
  <2> QED  BY <1>2, <2>2, <2>3 DEF KnownInUser
<1>4. /\ os' = [os EXCEPT ![running] = n]
      /\ kernel' = [kernel EXCEPT ![running] = mode]
      /\ status' \in [States -> {"unborn", "alive"}] /\ running' = running /\ guest' = guest
  BY <1>1 DEF privilegeChange, OSInv, mode
<1> HIDE DEF n, o
<1> QED  BY Zenon, <1>1, <1>2, <1>3, <1>4, UpdateInv

\* onPageDirectoryChange() keeps the OS tracer's part of the invariant.
LEMMA PageDirectoryInv ==
    ASSUME OSInv, NEW p \in PageTables, pageDirectoryChange(p)
    PROVE  OSInv'
<1> DEFINE o == os[running]
           n == scheduled(o, p)
<1>1. running \in States /\ kernel \in [States -> BOOLEAN] /\ kernel[running] = TRUE
      /\ Consistent(o, TRUE) /\ (guest # "shares" => Unshared(o))
  <2>1. kernel[running] = TRUE  BY DEF pageDirectoryChange, OSInv
  <2> QED  BY Zenon, <2>1 DEF OSInv
<1>2. Consistent(n, TRUE) /\ (guest # "shares" => Unshared(n))
  BY Zenon, <1>1, ScheduledConsistent
<1>3. KnownInUser(n, TRUE)  BY DEF KnownInUser
<1>4. /\ os' = [os EXCEPT ![running] = n]
      /\ kernel' = [kernel EXCEPT ![running] = TRUE]
      /\ status' \in [States -> {"unborn", "alive"}] /\ running' = running /\ guest' = guest
  BY <1>1 DEF pageDirectoryChange, OSInv
<1> HIDE DEF n, o
<1> QED  BY Zenon, <1>1, <1>2, <1>3, <1>4, UpdateInv

\* A copy of the state keeps the OS tracer's part of the invariant.
LEMMA ForkInv ==
    ASSUME OSInv, NEW l \in States, stateFork(l)
    PROVE  OSInv'
<1> DEFINE o == os[running]
           mode == kernel[running]
           n == clone(o)
<1>1. /\ running \in States /\ mode \in BOOLEAN
      /\ Consistent(o, mode) /\ (guest # "shares" => Unshared(o))
  BY DEF OSInv
<1>2. /\ Consistent(n, mode) /\ (guest # "shares" => Unshared(n))
      /\ \A t \in Tids : Exists(n, t) <=> Exists(o, t)
  BY <1>1, CloneConsistent
<1>3. KnownInUser(n, mode)
  <2>1. n.active_thread \in Object \ {Old} \/ n.active_thread = 0
    BY <1>1, <1>2 DEF Consistent, StateRecord, clone
  <2>2. n.active_thread # 0 => Exists(n, n.active_thread)
    BY <1>2 DEF Consistent, Named
  <2>3. n.active_thread # 0 => n.objects[n.active_thread].tid = n.active_thread
    BY <1>2, <2>1, <2>2 DEF Consistent, Named, Object
  <2> HIDE DEF n
  <2> QED  BY Zenon, <2>2, <2>3 DEF KnownInUser, ActiveTid
<1>4. /\ os' = [os EXCEPT ![l] = n]
      /\ kernel' = [kernel EXCEPT ![l] = mode]
      /\ status' \in [States -> {"unborn", "alive"}] /\ running' = running /\ guest' = guest
  BY <1>1 DEF stateFork, OSInv
<1> HIDE DEF n, o, mode
<1> QED  BY Zenon, <1>1, <1>2, <1>3, <1>4, UpdateInv

\* Killing a state keeps the OS tracer's part of the invariant.
LEMMA KillInv ==
    ASSUME OSInv, NEW l \in States, stateKill(l)
    PROVE  OSInv'
<1>1. Consistent(EmptyState, TRUE) /\ Unshared(EmptyState)
  BY Zenon, EmptyConsistent
<1>2. KnownInUser(EmptyState, TRUE)  BY DEF KnownInUser
<1>3. /\ os' = [os EXCEPT ![l] = EmptyState]
      /\ kernel' = [kernel EXCEPT ![l] = TRUE]
      /\ status' \in [States -> {"unborn", "alive"}] /\ running' = running /\ guest' = guest
  BY DEF stateKill, OSInv
<1> QED  BY Zenon, <1>1, <1>2, <1>3, UpdateInv

\* Switching to another state keeps the OS tracer's part of the invariant.
LEMMA SwitchInv ==
    ASSUME OSInv, NEW l \in States, stateSwitch(l)
    PROVE  OSInv'
BY DEF OSInv, stateSwitch

\* Every operation of the analyzer keeps the invariant.
LEMMA NextInv == IInv /\ [AnalyzerNext]_allVars => IInv'
<1> SUFFICES ASSUME IInv, [AnalyzerNext]_allVars PROVE IInv'
  OBVIOUS
<1> USE DEF IInv
<1>a. \A l \in States : Consistent(os[l], kernel[l]) /\ kernel[l] \in BOOLEAN
  BY DEF OSInv
<1>b. 0 \notin Tids /\ running \in States  BY Names DEF OSInv
<1>1. ASSUME NEW t \in Tids, onThreadExit(t) PROVE IInv'
  <2>1. threadExit(t)  BY <1>1 DEF onThreadExit
  <2>2. OSInv'  BY <2>1, ExitInv
  <2>3. /\ \A u \in Tids \ {t} : \A l \in States : Exists(os[l], u) => Exists(os'[l], u)
        /\ ActiveTid(os'[running]) = ActiveTid(os[running])
        /\ running' = running /\ status' = status /\ guest' = guest
    <3>1. os'[running] = erased(os[running], t) /\ \A l \in States \ {running} : os'[l] = os[l]
      BY <1>b, <2>1 DEF threadExit, OSInv
    <3>2. /\ \A u \in Tids \ {t} : Exists(os[running], u) => Exists(os'[running], u)
          /\ ActiveTid(os'[running]) = ActiveTid(os[running])
      BY <1>a, <1>b, <2>1, <3>1, ErasedThreads DEF threadExit
    <3> QED  BY <2>1, <3>1, <3>2 DEF threadExit
  <2>4. CASE tracked = t
    BY Zenon, <1>1, <2>2, <2>3, <2>4 DEF onThreadExit, takeDown, AInv, Pending, Alive
  <2>5. CASE tracked # t
    BY <1>1, <1>b, <2>2, <2>3, <2>5 DEF onThreadExit, analyzerVars, AInv, Pending, Alive
  <2> QED  BY <2>4, <2>5
<1>2. ASSUME NEW t \in Tids, NEW p \in PageTables, NEW interpreter \in BOOLEAN,
             onThreadStart(t, p, interpreter)
      PROVE  IInv'
  <2>1. threadStart(t, p)  BY <1>2 DEF onThreadStart
  <2>2. OSInv'  BY <2>1, StartInv
  <2>3. /\ \A u \in Tids : \A l \in States : Exists(os[l], u) => Exists(os'[l], u)
        /\ ActiveTid(os'[running]) = ActiveTid(os[running]) /\ Exists(os'[running], t)
        /\ running' = running /\ status' = status /\ guest' = guest /\ running \in Alive
    <3>1. os'[running] = started(os[running], t, p) /\ \A l \in States \ {running} : os'[l] = os[l]
      BY <1>b, <2>1 DEF threadStart, OSInv
    <3>2. /\ \A u \in Tids : Exists(os[running], u) => Exists(os'[running], u)
          /\ ActiveTid(os'[running]) = ActiveTid(os[running]) /\ Exists(os'[running], t)
      BY <1>a, <1>b, <3>1, StartedThreads
    <3> QED  BY <2>1, <3>1, <3>2 DEF threadStart
  <2>4. ASSUME NEW left \in {"none", detector}, setUp(t, left) PROVE IInv'
    BY Zenon, <1>b, <2>2, <2>3, <2>4 DEF setUp, AInv, Pending, Alive
  <2>5. CASE takeDown
    BY Zenon, <2>2, <2>3, <2>5 DEF takeDown, AInv, Pending, Alive
  <2>6. CASE UNCHANGED analyzerVars
    BY <1>b, <2>2, <2>3, <2>6 DEF analyzerVars, AInv, Pending, Alive
  <2> QED  BY <1>2, <2>4, <2>5, <2>6 DEF onThreadStart
<1>3. CASE onPrivilegeChange
  <2>1. privilegeChange  BY <1>3 DEF onPrivilegeChange
  <2>2. OSInv'  BY <2>1, PrivilegeInv
  <2>3. /\ \A u \in Tids : \A l \in States : Exists(os[l], u) => Exists(os'[l], u)
        /\ ActiveTid(os'[running]) = ActiveTid(os[running])
        /\ running' = running /\ status' = status /\ guest' = guest
    <3> DEFINE mode == ~kernel[running]
    <3>1. mode \in BOOLEAN  OBVIOUS
    <3>2. os'[running] = privileged(os[running], mode) /\ \A l \in States \ {running} : os'[l] = os[l]
      BY <1>b, <2>1 DEF privilegeChange, OSInv
    <3> HIDE DEF mode
    <3>3. /\ \A u \in Tids : Exists(os[running], u) => Exists(os'[running], u)
          /\ ActiveTid(os'[running]) = ActiveTid(os[running])
      BY <1>a, <1>b, <3>1, <3>2, PrivilegedConsistent DEF Object
    <3> QED  BY <2>1, <3>2, <3>3 DEF privilegeChange
  <2> QED  BY <1>3, <1>b, <2>2, <2>3 DEF onPrivilegeChange, analyzerVars, AInv, Pending, Alive
<1>4. ASSUME NEW p \in PageTables, onPageDirectoryChange(p) PROVE IInv'
  <2>1. pageDirectoryChange(p)  BY <1>4 DEF onPageDirectoryChange
  <2>2. OSInv'  BY <2>1, PageDirectoryInv
  <2>3. /\ \A u \in Tids : \A l \in States : Exists(os[l], u) => Exists(os'[l], u)
        /\ os'[running].active_thread = os[running].active_thread => os'[running] = os[running]
        /\ running' = running /\ status' = status /\ guest' = guest
    <3>1. os'[running] = scheduled(os[running], p) /\ \A l \in States \ {running} : os'[l] = os[l]
      BY <1>b, <2>1 DEF pageDirectoryChange, OSInv
    <3>2. kernel[running] = TRUE  BY <1>a, <1>b, <2>1 DEF pageDirectoryChange
    <3>3. \A u \in Tids : Exists(os[running], u) => Exists(os'[running], u)
      BY Zenon, <1>a, <1>b, <3>1, <3>2, ScheduledConsistent
    <3>4. os'[running].active_thread = os[running].active_thread => os'[running] = os[running]
      BY <3>1 DEF scheduled
    <3> QED  BY <2>1, <3>1, <3>3, <3>4 DEF pageDirectoryChange
  <2>4. CASE os'[running].active_thread = os[running].active_thread
    BY <1>4, <1>b, <2>2, <2>3, <2>4
       DEF onPageDirectoryChange, analyzerVars, AInv, Pending, Alive
  <2>5. CASE os'[running].active_thread # os[running].active_thread
    BY Zenon, <1>4, <1>b, <2>2, <2>3, <2>5
       DEF onPageDirectoryChange, updateConnections, AInv, Pending, Alive
  <2> QED  BY <2>4, <2>5
<1>5. ASSUME NEW l \in States, onStateSwitch(l) PROVE IInv'
  <2>1. stateSwitch(l)  BY <1>5 DEF onStateSwitch
  <2>2. OSInv'  BY <2>1, SwitchInv
  <2>3. running' = l /\ l \in Alive \ {running} /\ UNCHANGED <<status, os, guest>>
    BY <2>1 DEF stateSwitch
  <2> QED  BY Zenon, <1>5, <1>b, <2>2, <2>3 DEF onStateSwitch, updateConnections, AInv, Pending, Alive
<1>6. ASSUME NEW n \in States, onStateFork(n) PROVE IInv'
  <2>1. stateFork(n)  BY <1>6 DEF onStateFork
  <2>2. OSInv'  BY <2>1, ForkInv
  <2>3. /\ \A l \in States \ {n} : os'[l] = os[l]
        /\ \A u \in Tids : Exists(os[running], u) => Exists(os'[n], u)
        /\ n # running /\ n \notin Alive /\ Alive' = Alive \cup {n}
        /\ running' = running /\ guest' = guest
    <3>1. os'[n] = clone(os[running]) /\ \A l \in States \ {n} : os'[l] = os[l]
      BY <2>1 DEF stateFork, OSInv
    <3>2. \A u \in Tids : Exists(os[running], u) => Exists(os'[n], u)
      BY <1>a, <1>b, <3>1, CloneConsistent
    <3>3. n # running /\ n \notin Alive /\ Alive' = Alive \cup {n}
      BY <2>1 DEF stateFork, Alive, OSInv
    <3> QED  BY <2>1, <3>1, <3>2, <3>3 DEF stateFork
  <2> QED  BY <1>6, <1>b, <2>2, <2>3 DEF onStateFork, AInv, Pending
<1>7. ASSUME NEW l \in States, onStateKill(l) PROVE IInv'
  <2>1. stateKill(l)  BY <1>7 DEF onStateKill
  <2>2. OSInv'  BY <2>1, KillInv
  <2>3. /\ \A m \in States \ {l} : os'[m] = os[m]
        /\ Alive' = Alive \ {l} /\ running' = running /\ guest' = guest
    BY <2>1 DEF stateKill, Alive, OSInv
  <2> QED  BY <1>7, <1>b, <2>2, <2>3 DEF onStateKill, AInv, Pending
<1>c. ASSUME running \in Alive, ~kernel[running], getThread(os[running], tracked) # 0
      PROVE  tracked # 0 /\ Exists(os[running], tracked)
  <2>1. CASE ActiveTid(os[running]) = tracked
    <3>1. os[running].active_thread # 0  BY <1>c, <2>1 DEF getThread
    <3>2. Exists(os[running], os[running].active_thread)
      BY <1>a, <1>b, <3>1 DEF Consistent, Named
    <3>3. tracked # 0  BY <2>1, <3>1, <3>2 DEF ActiveTid, Exists
    <3> QED  BY <1>b, <1>c, <2>1, <3>3 DEF OSInv, KnownInUser
  <2>2. CASE ActiveTid(os[running]) # tracked
    BY <1>c, <2>2 DEF getThread, Exists
  <2> QED  BY <2>1, <2>2
<1>8. CASE onTracedInstruction
  <2>1. running \in Alive /\ tracked # 0 /\ Exists(os[running], tracked)
    BY <1>8, <1>b DEF onTracedInstruction, OSInv, AInv, KnownInUser
  <2>2. OSInv'  BY <1>8 DEF onTracedInstruction, osVars, OSInv
  <2> QED  BY <1>8, <1>b, <2>1, <2>2 DEF onTracedInstruction, osVars, AInv, Pending, Alive
<1>9. CASE onDataMemoryAccess
  <2>1. running \in Alive /\ tracked # 0 /\ Exists(os[running], tracked)
    BY <1>9, <1>c DEF onDataMemoryAccess, Calibrates
  <2>2. OSInv'  BY <1>9 DEF onDataMemoryAccess, osVars, OSInv
  <2> QED  BY Zenon, <1>9, <1>b, <2>1, <2>2 DEF onDataMemoryAccess, osVars, AInv, Pending, Alive
<1>10. CASE startCalibration
  <2>1. OSInv'  BY <1>10 DEF startCalibration, osVars, OSInv
  <2> QED  BY <1>10, <2>1 DEF startCalibration, osVars, AInv, Pending, Alive
<1>11. ASSUME NEW found \in BOOLEAN, endCalibration(found) PROVE IInv'
  <2>1. running \in Alive /\ tracked # 0 /\ Exists(os[running], tracked)
    BY <1>11, <1>c DEF endCalibration, Calibrates
  <2>2. OSInv'  BY <1>11 DEF endCalibration, osVars, OSInv
  <2> QED  BY <1>11, <1>b, <2>1, <2>2 DEF endCalibration, osVars, AInv, Pending, Alive
<1>12. CASE UNCHANGED allVars
  BY <1>12 DEF allVars, osVars, analyzerVars, OSInv, AInv, Pending, Alive
<1> QED  BY <1>1, <1>2, <1>3, <1>4, <1>5, <1>6, <1>7, <1>8, <1>9, <1>10, <1>11, <1>12
     DEF AnalyzerNext

-----------------------------------------------------------------------------
\* The inductive invariant holds in every reachable state.
THEOREM Invariant == AnalyzerSpec => []IInv
BY InitInv, NextInv, PTL DEF AnalyzerSpec

\* The fields of the OS tracer and of the analyzer keep their types.
THEOREM TypeCorrect == AnalyzerSpec => []AnalyzerTypeOK
<1>1. IInv => AnalyzerTypeOK
  BY DEF IInv, OSInv, AInv, Consistent, StateRecord, Named, AnalyzerTypeOK, Object
<1> QED  BY <1>1, Invariant, PTL

\* Exactly the active thread is marked as running, in every execution state:
\* the assertions of OSTracer::onPageDirectoryChange() on the mark hold.
THEOREM OneRuns == AnalyzerSpec => []OnlyActiveRuns
<1>1. IInv => OnlyActiveRuns
  BY Zenon DEF IInv, OSInv, Consistent, Marked, OnlyActiveRuns, Alive
<1> QED  BY <1>1, Invariant, PTL

\* The weak reference of an address space has not expired and is to a thread
\* with that page table, also where threads share one.
THEOREM NoneExpired == AnalyzerSpec => []SpacesOwned
<1>1. IInv => SpacesOwned
  BY DEF IInv, OSInv, Consistent, Owned, SpacesOwned, Alive
<1> QED  BY <1>1, Invariant, PTL

\* Without shared page tables, loading that of a known thread finds the thread.
THEOREM AllSchedulable == AnalyzerSpec => []ThreadsSchedulable
<1>1. IInv => ThreadsSchedulable
  BY DEF IInv, OSInv, Unshared, ThreadsSchedulable, Alive
<1> QED  BY <1>1, Invariant, PTL

\* onPrivilegeChange() keeps the mode of the active thread that of the CPU.
THEOREM ModesTracked == AnalyzerSpec => []ModeTracked
<1>1. IInv => ModeTracked
  <2> SUFFICES ASSUME IInv, NEW l \in Alive, os[l].active_thread # 0
               PROVE  os[l].objects[os[l].active_thread].kernel_mode = kernel[l]
    BY DEF ModeTracked
  <2> DEFINE a == os[l].active_thread
  <2>1. l \in States /\ kernel[l] \in BOOLEAN /\ Consistent(os[l], kernel[l])
    BY DEF IInv, OSInv, Alive
  <2>2. a \in Object /\ Exists(os[l], a)  BY <2>1 DEF Consistent, StateRecord, Named
  <2>3. os[l].objects[a].kernel_mode = (a = os[l].active_thread => kernel[l])
    BY <2>1, <2>2 DEF Consistent, Marked
  <2> QED  BY <2>1, <2>3
<1> QED  BY <1>1, Invariant, PTL

\* The call tracer's callbacks find the tracked thread in the running state.
THEOREM ThreadFound == AnalyzerSpec => []CallbacksFindThread
<1>1. IInv => CallbacksFindThread
  <2> SUFFICES ASSUME IInv, running \in Alive, connected
               PROVE  /\ getThread(os[running], tracked) # 0
                      /\ ActiveTid(os[running]) = tracked
    BY DEF CallbacksFindThread
  <2>1. tracked # 0 /\ ActiveTid(os[running]) = tracked  BY DEF IInv, AInv
  <2> QED  BY <2>1 DEF getThread, ActiveTid
<1> QED  BY <1>1, Invariant, PTL

\* CallStack::clone() finds the tracked thread in a state that forks.
THEOREM Clonable == AnalyzerSpec => []CallStacksClonable
<1>1. IInv => CallStacksClonable
  BY DEF IInv, AInv, CallStacksClonable
<1> QED  BY <1>1, Invariant, PTL

\* A detector that can still be used has a live call tracer.
THEOREM DetectorValid == AnalyzerSpec => []DetectorTracks
<1>1. IInv => DetectorTracks
  BY DEF IInv, AInv, Pending, DetectorTracks
<1> QED  BY <1>1, Invariant, PTL

\* The detector finds its thread if states do not fork before it has finished.
THEOREM DetectorThread == AnalyzerSpec => []DetectorFindsThread
<1>1. IInv => DetectorFindsThread
  <2> SUFFICES ASSUME IInv, guest # "forksEarly", running \in Alive, Pending
               PROVE  getThread(os[running], tracked) # 0
    BY DEF DetectorFindsThread, Pending
  <2>1. tracked # 0 /\ Exists(os[running], tracked)  BY DEF IInv, AInv
  <2> QED  BY <2>1 DEF getThread, ActiveTid
<1> QED  BY <1>1, Invariant, PTL

=============================================================================
