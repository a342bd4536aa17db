----------------------------- MODULE UserSearcher -----------------------------
(***************************************************************************)
(* The executor with the searcher that constructUserSearcher() builds      *)
(* (klee/lib/Core/UserSearcher.cpp, Searcher.cpp): a DFSSearcher, which    *)
(* may be interleaved with a RandomSearcher, run in batches, and paused by *)
(* iterative deepening.                                                    *)
(***************************************************************************)
EXTENDS Searcher, Sequences, Functions

CONSTANTS
    Stacks,     \* the sets of searcher options to start S2E with
    LongSlices  \* whether a time slice only ends when the timer fires while
                \* the state is still searched

ASSUME SearcherAssumption ==
    /\ Stacks \subseteq SUBSET {"interleaved", "batching", "deepening"}
    /\ LongSlices \in BOOLEAN

VARIABLES
    stack,         \* the options given, of the three below
    dfsStates,     \* DFSSearcher::states (currentState is DFSSearcher::currentState)
    rsStates,      \* RandomSearcher::states
    index,         \* InterleavedSearcher::index
    lastState,     \* BatchingSearcher::lastState
    pausedStates,  \* IterativeDeepeningTimeSearcher::pausedStates
    invalidRemoval \* a searcher was asked to remove a state it does not hold

searcherVars == <<stack, dfsStates, currentState, rsStates, index, lastState, pausedStates,
                  invalidRemoval>>
searchVars == <<vars, searcherVars>>

UseInterleavedRS == "interleaved" \in stack
UseBatchingSearch == "batching" \in stack
UseIterativeDeepeningTimeSearch == "deepening" \in stack

SearchTypeOK ==
    /\ stack \in Stacks
    /\ dfsStates \in Seq(State) /\ rsStates \subseteq State
    /\ currentState \in State \cup {NoState} /\ lastState \in State \cup {NoState}
    /\ index \in {1, 2} /\ pausedStates \subseteq State
    /\ invalidRemoval \in BOOLEAN

\* createInitialState(): update(0, {InitialState}, {}).
SearchInit ==
    /\ Init /\ stack \in Stacks
    /\ dfsStates = <<InitialState>> /\ currentState = InitialState
    /\ rsStates = {InitialState} /\ index = 1
    /\ lastState = NoState /\ pausedStates = {} /\ invalidRemoval = FALSE

\* The two searchers at the bottom and the batch on top of them, as a record.
Base == [dfs |-> dfsStates, cur |-> currentState, rs |-> rsStates, last |-> lastState,
         bad |-> invalidRemoval]

\* DFSSearcher::update(): currentState once left is what remains.  When the
\* vector was empty and stays so, it is read past its end.
nextCurrent(b, left, removed) ==
    IF b.dfs # <<>> THEN {IF b.cur \in removed THEN NoState ELSE b.cur}
    ELSE IF left # <<>> THEN {left[1]}
    ELSE State \cup {NoState}

\* Mutant of nextLast: the batch keeps a state that is removed.
lastKept(b, removed) == b.last

\* BatchingSearcher::update().
nextLast(b, removed) == IF b.last \in removed THEN NoState ELSE b.last

\* RandomSearcher::update().
nextRandom(b, added, removed) == (b.rs \cup added) \ removed

\* What erasing the removed states leaves of the vector q.
Remaining(q, removed) ==
    LET stay == {i \in DOMAIN q : q[i] \notin removed}
    IN  [n \in 1..Cardinality(stay) |->
            q[CHOOSE i \in stay : Cardinality({j \in stay : j <= i}) = n]]

\* update() of the batching, the interleaved and the two bottom searchers; the
\* added states come in the order of their addresses.
baseUpdate(b, added, removed) ==
    UNION {LET left == Remaining(b.dfs \o p, removed)
           IN  {[dfs |-> left, cur |-> c, rs |-> nextRandom(b, added, removed),
                 last |-> nextLast(b, removed),
                 bad |-> b.bad \/ ~(removed \subseteq Range(b.dfs) \cup added)] :
                c \in nextCurrent(b, left, removed)} :
           p \in Bijection(1..Cardinality(added), added)}

SetBase(b) ==
    /\ dfsStates' = b.dfs /\ currentState' = b.cur /\ rsStates' = b.rs
    /\ lastState' = b.last /\ invalidRemoval' = b.bad

\* Mutant of pausedUpdate: a paused state's removal reaches the searchers.
pausedRemoved(added, removed, running, expired) ==
    \E b \in baseUpdate(Base, added, removed) :
        LET held == (pausedStates \ removed) \cup
                    (IF running \notin removed /\ expired THEN {running} ELSE {})
            c == IF held = pausedStates \ removed THEN {b} ELSE baseUpdate(b, {}, {running})
        IN  \E d \in c : /\ IF d.dfs = <<>> THEN \E e \in baseUpdate(d, held, {}) : SetBase(e)
                                            ELSE SetBase(d)
                         /\ pausedStates' = IF d.dfs = <<>> THEN {} ELSE held

\* IterativeDeepeningTimeSearcher::update(): a state that has used up its time
\* is held back until the others have too.
pausedUpdate(added, removed, running, expired) ==
    \E b \in baseUpdate(Base, added, removed \ pausedStates) :
        LET left == pausedStates \ removed
            pause == running \notin removed /\ expired
            held == IF pause THEN left \cup {running} ELSE left
        IN  \E c \in IF pause THEN baseUpdate(b, {}, {running}) ELSE {b} :
               IF c.dfs = <<>>
               THEN /\ \E d \in baseUpdate(c, held, {}) : SetBase(d)
                    /\ pausedStates' = {}
               ELSE SetBase(c) /\ pausedStates' = held

\* Searcher::update(), with the time slice of running used up or not.
update(added, removed, running, expired) ==
    /\ IF UseIterativeDeepeningTimeSearch
       THEN pausedUpdate(added, removed, running, expired)
       ELSE /\ \E b \in baseUpdate(Base, added, removed) : SetBase(b)
            /\ UNCHANGED pausedStates
    /\ UNCHANGED <<stack, index>>

\* Whether an update at any point may find the slice used up.
Expiry == IF UseIterativeDeepeningTimeSearch /\ ~LongSlices THEN BOOLEAN ELSE {FALSE}

\* An instruction without fork or termination still ends in updateStates().
executeInstruction ==
    /\ Executing /\ UpToDate
    /\ \E e \in Expiry : update({}, {}, current, e)
    /\ UNCHANGED vars

searchUpdate ==
    /\ updateStates
    /\ \E e \in Expiry : update(addedStates, removedStates, current, e)

\* suspendState(): removeState() without a current state.
searchSucceed == succeedState /\ update({}, {current}, NoState, FALSE)

\* The timer's updateStates() may find the slice of the running state used up.
searchTimer ==
    /\ stateSwitchTimerCallback
    /\ IF removedStates' = {}
       THEN \E e \in BOOLEAN :
               /\ e => UseIterativeDeepeningTimeSearch /\ (LongSlices => current \in states)
               /\ update({}, {}, current, e)
       ELSE UNCHANGED searcherVars

\* selectState() of the interleaved searcher and of the two below it.
bottomSelect(s) ==
    /\ IF index = 1
       THEN /\ s = IF currentState = NoState THEN dfsStates[Len(dfsStates)]
                   ELSE currentState
            /\ currentState' = s
       ELSE s \in rsStates /\ UNCHANGED currentState
    /\ index' = IF UseInterleavedRS THEN 3 - index ELSE 1
    /\ UNCHANGED <<stack, dfsStates, rsStates, pausedStates, invalidRemoval>>

\* BatchingSearcher::selectState(): the last state again until its time is up.
selectState(s) ==
    \/ /\ bottomSelect(s)
       /\ lastState' = IF UseBatchingSearch THEN s ELSE NoState
    \/ /\ UseBatchingSearch /\ lastState # NoState /\ s = lastState
       /\ UNCHANGED searcherVars

\* Mutant of Empty: one state left counts as none.
EmptyEarly == Len(dfsStates) <= 1 /\ pausedStates = {}

Empty == dfsStates = <<>> /\ pausedStates = {}

SearchNext ==
    \/ ((\/ \E s \in State : fork(s) \/ forkTooDeep(s)
         \/ terminateState \/ yieldState) /\ UNCHANGED searcherVars)
    \/ executeInstruction
    \/ searchUpdate
    \/ searchSucceed
    \/ searchTimer
    \/ \E s \in State : ~Empty /\ selectState(s) /\ (selectNextState(s) \/ terminateSpeculative(s))
    \/ (Empty /\ allTerminated /\ UNCHANGED searcherVars)
    \/ (stopped /\ UNCHANGED searcherVars)

SearchSpec == SearchInit /\ [][SearchNext]_searchVars

-----------------------------------------------------------------------------
\* Between updates every layer holds the executor's states, each once, apart
\* from the paused ones; what the batch and the DFS remember is among them.
SearchersInSync ==
    /\ SearchTypeOK
    /\ UpToDate /\ pc # "stopped" =>
        /\ Range(dfsStates) \cup pausedStates = states
        /\ Range(dfsStates) \cap pausedStates = {}
        /\ Len(dfsStates) = Cardinality(rsStates) /\ rsStates = Range(dfsStates)
        /\ lastState \in states \cup {NoState}
        /\ dfsStates # <<>> => currentState \in states \cup {NoState}

\* No searcher is asked to remove a state that it does not hold ("invalid state
\* removed", Searcher.cpp:90).
NoInvalidRemoval == ~invalidRemoval

=============================================================================
