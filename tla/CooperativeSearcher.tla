------------------------- MODULE CooperativeSearcher -------------------------
(***************************************************************************)
(* The executor with the CooperativeSearcher plugin                        *)
(* (qemu/s2e/Plugins/Searchers/CooperativeSearcher.cpp): the guest itself  *)
(* says which state runs next, by its id or by yielding.  A state is its   *)
(* id; ids are given out in increasing order from 1.                       *)
(***************************************************************************)
EXTENDS Searcher, FiniteSetsExt

CONSTANTS
    Guests,   \* of "yields", which only yields and then waits to be switched, and
              \* "any", which also schedules by id and goes on in the meantime
    StaleIds  \* whether it may name a state that has ended meanwhile

ASSUME CoopAssumption ==
    Guests \subseteq {"yields", "any"} /\ StaleIds \in BOOLEAN

VARIABLES
    guest,      \* what the guest does, one of Guests
    coopStates  \* m_states

coopOnly == <<guest, coopStates, currentState>>
coopVars == <<vars, coopOnly>>

CoopTypeOK ==
    /\ guest \in Guests /\ coopStates \subseteq State /\ currentState \in State \cup {NoState}

CoopInit ==
    /\ Init /\ guest \in Guests
    /\ coopStates = {InitialState} /\ currentState = InitialState

\* Mutant of CooperativeSearcher_update: the selection is not renewed when its state is removed.
updateNoRenew(added, removed) ==
    /\ coopStates' = (coopStates \ removed) \cup added
    /\ currentState' = IF currentState = NoState THEN Min(coopStates') ELSE currentState
    /\ UNCHANGED guest

\* CooperativeSearcher::CooperativeSearcher_update().
CooperativeSearcher_update(added, removed) ==
    /\ coopStates' = (coopStates \ removed) \cup added
    /\ currentState' = IF currentState \notin removed \cup {NoState} THEN currentState
                       ELSE IF coopStates' # {} THEN Min(coopStates') ELSE NoState
    /\ UNCHANGED guest

\* Whether the running state's guest code does anything.
Acting == guest = "yields" => currentState = current

coopFork(s) == Acting /\ (fork(s) \/ forkTooDeep(s)) /\ UNCHANGED coopOnly
coopUpdate == updateStates /\ CooperativeSearcher_update(addedStates, removedStates)
coopSucceed == Acting /\ succeedState /\ CooperativeSearcher_update({}, {current})

\* onCustomInstruction(), ScheduleNext: an id that is not in the map is
\* reported, and then what lies behind the end of the map is selected.
ScheduleNext(id) ==
    /\ guest = "any" /\ Executing /\ UpToDate
    /\ id \in (IF StaleIds THEN created ELSE coopStates)
    /\ currentState' \in IF id \in coopStates THEN {id} ELSE State \cup {NoState}
    /\ UNCHANGED <<vars, guest, coopStates>>

\* Mutant of Yielded: the lowest id is never left.
YieldedDown(s) ==
    LET lower == {t \in coopStates : t < s} IN IF lower = {} THEN s ELSE Max(lower)

\* The next lower id, or the highest one after the lowest.
Yielded(s) ==
    LET lower == {t \in coopStates : t < s}
    IN  Max(IF lower = {} THEN coopStates ELSE lower)

\* onCustomInstruction(), Yield: it starts from the selection, not from the
\* running state, and with a single state it does nothing.
Yield ==
    /\ Acting /\ Executing /\ UpToDate /\ Cardinality(coopStates) > 1
    /\ currentState' = Yielded(currentState)
    /\ UNCHANGED <<vars, guest, coopStates>>

\* Mutant of CooperativeSearcher_selectState: the running state goes on, whatever was scheduled.
selectRunning(s) == coopStates # {} /\ s = current

\* selectState().
CooperativeSearcher_selectState(s) ==
    coopStates # {} /\ s = IF currentState # NoState THEN currentState ELSE Min(coopStates)

CoopNext ==
    \/ \E s \in State : coopFork(s)
    \/ (Acting /\ (terminateState \/ yieldState) /\ UNCHANGED coopOnly)
    \/ coopSucceed
    \/ \E id \in State : ScheduleNext(id)
    \/ Yield
    \/ (stateSwitchTimerCallback /\ UNCHANGED coopOnly)
    \/ coopUpdate
    \/ \E s \in State : /\ CooperativeSearcher_selectState(s)
                        /\ selectNextState(s) \/ terminateSpeculative(s)
                        /\ UNCHANGED coopOnly
    \/ (coopStates = {} /\ allTerminated /\ UNCHANGED coopOnly)
    \/ (stopped /\ UNCHANGED coopOnly)

CoopSpec == CoopInit /\ [][CoopNext]_coopVars

-----------------------------------------------------------------------------
\* Between updates the searcher knows the executor's states, and what it will
\* select is one of them (asserted by selectNextState(), S2EExecutor.cpp:1514).
SelectionSearched ==
    /\ CoopTypeOK
    /\ UpToDate /\ pc # "stopped" =>
        /\ coopStates = states
        /\ coopStates # {} => currentState \in coopStates

\* The main loop is fair, and every state that runs yields again and again.
CoopFairSpec ==
    /\ CoopSpec
    /\ WF_coopVars(coopUpdate) /\ WF_coopVars(stateSwitchTimerCallback /\ UNCHANGED coopOnly)
    /\ WF_coopVars(\E s \in State : /\ CooperativeSearcher_selectState(s) /\ selectNextState(s)
                                    /\ UNCHANGED coopOnly)
    /\ SF_coopVars(Yield)

\* Yielding goes round: every state that is searched gets to run.
NoStarvation ==
    \A s \in State :
        guest = "yields" /\ s \in coopStates ~> current = s \/ s \notin coopStates
=============================================================================
