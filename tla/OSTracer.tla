------------------------------- MODULE OSTracer -------------------------------
(***************************************************************************)
(* What S2E knows of the guest's threads (qemu/s2e/Chef/OSTracer.cpp), per *)
(* execution state: the guest kernel reports the start and the exit of a   *)
(* thread, the CPU its privilege level and its page directory.  A thread   *)
(* object is held by threads_ and by active_thread_ and dies with the last *)
(* reference; address spaces refer to theirs weakly.                       *)
(***************************************************************************)
EXTENDS Naturals, FiniteSets

CONSTANTS
    States,      \* addresses of S2E execution states, reused after a kill
    Tids,        \* thread ids of the guest
    PageTables,  \* its page directory bases
    Guests       \* the kinds of guest to try

ASSUME OSAssumption ==
    /\ IsFiniteSet(Tids) /\ Tids = 1..Cardinality(Tids)
    /\ Guests \subseteq {"plain", "shares", "forksEarly"}

\* OSThread objects: the one that threads_ has for a thread id has its name.
\* Old is an active thread that is no longer in threads_; 0 is NULL.
Old == Cardinality(Tids) + 1
Object == Tids \cup {Old}
Thread(tid, page_table) ==
    [tid |-> tid, page_table |-> page_table, kernel_mode |-> TRUE, running |-> FALSE]
Freed == [tid |-> 0, page_table |-> 0, kernel_mode |-> TRUE, running |-> FALSE]

VARIABLES
    status,   \* of an S2E state: "unborn" or "alive"
    running,  \* g_s2e_state
    kernel,   \* whether the CPU of each state is in kernel mode
    os,       \* the OSTracerState of each state
    guest     \* "shares" if two threads may have one page table; "forksEarly" if
              \* states fork before the interpreter's structure is known

osVars == <<status, running, kernel, os, guest>>

\* createState(): no thread is known.
EmptyState == [objects |-> [i \in Object |-> Freed],
               address_spaces |-> [p \in PageTables |-> 0], active_thread |-> 0]

Alive == {l \in States : status[l] = "alive"}

OSInit ==
    /\ running \in States /\ guest \in Guests
    /\ status = [l \in States |-> IF l = running THEN "alive" ELSE "unborn"]
    /\ kernel = [l \in States |-> TRUE]
    /\ os = [l \in States |-> EmptyState]

Exists(o, i) == i # 0 /\ o.objects[i].tid # 0
ActiveTid(o) == IF o.active_thread = 0 THEN 0 ELSE o.objects[o.active_thread].tid

\* OSTracerState::getThread().
getThread(o, t) ==
    IF ActiveTid(o) = t THEN o.active_thread ELSE IF Exists(o, t) THEN t ELSE 0

\* A thread that exits or is cleaned up leaves threads_, and the entry of its
\* page table is erased; it lives on while it is active.
erased(o, t) ==
    [objects |-> [i \in Object |-> IF i = t THEN Freed
                                   ELSE IF i = Old /\ o.active_thread = t THEN o.objects[t]
                                   ELSE o.objects[i]],
     address_spaces |-> [o.address_spaces EXCEPT ![o.objects[t].page_table] = 0],
     active_thread |-> IF o.active_thread = t THEN Old ELSE o.active_thread]

\* S2E_THREAD_START; map::insert() keeps an entry that is there.
started(o, t, p) ==
    LET e == IF Exists(o, t) THEN erased(o, t) ELSE o
    IN  [objects |-> [e.objects EXCEPT ![t] = Thread(t, p)],
         address_spaces |-> [e.address_spaces EXCEPT ![p] = IF @ = 0 THEN t ELSE @],
         active_thread |-> e.active_thread]

\* The thread of an address space, which is locked: NULL if it does not exist.
Lock(o, p) == IF Exists(o, o.address_spaces[p]) THEN o.address_spaces[p] ELSE 0

Mark(thread, mark) == [thread EXCEPT !.running = mark]

\* onPageDirectoryChange(); an old thread dies when it is no longer active.
scheduled(o, p) ==
    LET next == Lock(o, p)
    IN  IF next = o.active_thread THEN o
        ELSE [objects |-> [i \in Object |->
                 IF i = Old THEN Freed
                 ELSE IF i = next THEN Mark(o.objects[i], TRUE)
                 ELSE IF i = o.active_thread THEN Mark(o.objects[i], FALSE)
                 ELSE o.objects[i]],
              address_spaces |-> o.address_spaces, active_thread |-> next]

\* onPrivilegeChange().
privileged(o, mode) ==
    IF o.active_thread = 0 THEN o
    ELSE [o EXCEPT !.objects[o.active_thread].kernel_mode = mode]

\* The threads with a page table, and the first of them in threads_, or none.
At(o, p) == {t \in Tids : Exists(o, t) /\ o.objects[t].page_table = p}
FirstAt(o, p) == IF At(o, p) = {} THEN 0 ELSE CHOOSE t \in At(o, p) : \A u \in At(o, p) : t <= u

\* Mutant of clone: the address spaces are not copied.
cloneThreads(o) ==
    [objects |-> [o.objects EXCEPT ![Old] = Freed],
     address_spaces |-> [p \in PageTables |-> 0],
     active_thread |-> IF o.active_thread = Old THEN 0 ELSE o.active_thread]

\* OSTracerState::clone() goes through threads_: an old thread is not copied,
\* and of several with one page table the first has the entry.
clone(o) ==
    [objects |-> [o.objects EXCEPT ![Old] = Freed],
     address_spaces |-> [p \in PageTables |-> FirstAt(o, p)],
     active_thread |-> IF o.active_thread = Old THEN 0 ELSE o.active_thread]

-----------------------------------------------------------------------------
threadStart(t, p) ==
    /\ running \in Alive /\ kernel[running]
    /\ guest = "shares" \/ At(os[running], p) \subseteq {t}
    /\ os' = [os EXCEPT ![running] = started(@, t, p)]
    /\ UNCHANGED <<status, running, kernel, guest>>

\* S2E_THREAD_EXIT of a known thread; that of another is ignored.
threadExit(t) ==
    /\ running \in Alive /\ kernel[running] /\ Exists(os[running], t)
    /\ os' = [os EXCEPT ![running] = erased(@, t)]
    /\ UNCHANGED <<status, running, kernel, guest>>

\* The guest's CPU changes mode; a thread that has exited stays in the kernel.
privilegeChange ==
    /\ running \in Alive
    /\ LET mode == ~kernel[running]
           tid == ActiveTid(os[running])
       IN  /\ ~mode /\ tid # 0 => Exists(os[running], tid)
           /\ kernel' = [kernel EXCEPT ![running] = mode]
           /\ os' = [os EXCEPT ![running] = privileged(@, mode)]
    /\ UNCHANGED <<status, running, guest>>

\* The guest kernel loads CR3.
pageDirectoryChange(p) ==
    /\ running \in Alive /\ kernel[running]
    /\ os' = [os EXCEPT ![running] = scheduled(@, p)]
    /\ UNCHANGED <<status, running, kernel, guest>>

\* onStateFork().
stateFork(n) ==
    /\ running \in Alive /\ status[n] = "unborn"
    /\ status' = [status EXCEPT ![n] = "alive"]
    /\ kernel' = [kernel EXCEPT ![n] = kernel[running]]
    /\ os' = [os EXCEPT ![n] = clone(os[running])]
    /\ UNCHANGED <<running, guest>>

\* onStateKill(); the address may be that of a later state.
stateKill(l) ==
    /\ l \in Alive
    /\ status' = [status EXCEPT ![l] = "unborn"]
    /\ kernel' = [kernel EXCEPT ![l] = TRUE]
    /\ os' = [os EXCEPT ![l] = EmptyState]
    /\ UNCHANGED <<running, guest>>

stateSwitch(l) ==
    /\ l \in Alive \ {running}
    /\ running' = l
    /\ UNCHANGED <<status, kernel, os, guest>>

-----------------------------------------------------------------------------
\* Exactly the active thread is marked as running, so that both assertions of
\* onPageDirectoryChange() on the mark hold, also for a thread that has exited
\* or started again on the CPU, and in a forked state.
OnlyActiveRuns ==
    \A l \in Alive : \A i \in Object :
        Exists(os[l], i) => (os[l].objects[i].running <=> i = os[l].active_thread)

\* Every address space belongs to a thread that is known and has its page
\* table: the weak reference of onPageDirectoryChange() has not expired.
SpacesOwned ==
    \A l \in Alive : \A p \in PageTables :
        os[l].address_spaces[p] \in {0} \cup At(os[l], p)

\* If no two threads share a page table, each known thread is found when its
\* page table is loaded, after any exits, restarts and forks.
ThreadsSchedulable ==
    guest # "shares" => \A l \in Alive : \A p \in PageTables : \A t \in At(os[l], p) :
        os[l].address_spaces[p] = t

\* The mode of the active thread is that of the CPU, though the change of mode
\* is not recorded for threads that are not active.
ModeTracked ==
    \A l \in Alive : os[l].active_thread # 0 =>
        os[l].objects[os[l].active_thread].kernel_mode = kernel[l]
=============================================================================
