--------------------------- MODULE InterpreterTracer ---------------------------
(***************************************************************************)
(* The high-level stacks of the interpreter                                *)
(* (qemu/s2e/Chef/InterpreterTracer.cpp), one per S2E state, kept next to  *)
(* the low-level call stacks: an HL frame is pushed when the interpreter   *)
(* loop function is entered, and when the loop writes the high-level PC of *)
(* another frame without a low-level call.                                 *)
(***************************************************************************)
EXTENDS CallTracer

CONSTANTS
    Addresses,      \* locations of high-level PCs; 0 stands for "not known yet"
    ReuseLocations  \* whether the interpreter uses again the location of an HL
                    \* frame that it left together with its activation

ASSUME AddressesAssumption == Addresses \subseteq Nat \ {0}
ASSUME ReuseLocationsAssumption == ReuseLocations \in BOOLEAN

VARIABLES
    hl,        \* HighLevelStack::frames_, outermost first
    params,    \* interp_params_.interp_loop_function, "none" until detected
    connected  \* on_data_memory_access_.connected()

hlStackVars == <<hl, params, connected>>
interpVars == <<callVars, hlStackVars>>

\* HighLevelFrame: low_level_frame_id and hlpc_ptr.
HighLevelFrame(id, ptr) == [id |-> id, ptr |-> ptr]

InterpInit ==
    /\ CallInit
    /\ hl = [l \in States |-> <<>>]
    /\ params = "none" /\ connected = FALSE

\* The positions of the activations of the loop function in an LL stack.
Activations(stack) == {i \in 1..Len(stack) : stack[i].function = "loop"}

\* The loop of setInterpreterStructureParams(): an HL frame for each of them.
ActivationFrames(stack) ==
    LET upTo[n \in 0..Len(stack)] ==
          IF n = 0 THEN <<>>
          ELSE IF n \in Activations(stack)
               THEN Append(upTo[n-1], HighLevelFrame(stack[n].id, 0))
               ELSE upTo[n-1]
    IN  upTo[Len(stack)]

setInterpreterStructureParams ==
    /\ running \in Alive /\ params = "none"
    /\ params' = "loop"
    /\ hl' = [hl EXCEPT ![running] = ActivationFrames(frames[running])]
    /\ connected' = FALSE
    /\ UNCHANGED callVars

\* updateMemoryTracking(): whether accesses are watched when "function" is innermost.
updateMemoryTracking(function) == function = params

\* onLowLevelStackFramePush(), once the structure is known.
onLowLevelStackFramePush(function, sp) ==
    /\ newFrame(function, sp)
    /\ IF params = "none" THEN UNCHANGED hlStackVars
       ELSE /\ connected' = updateMemoryTracking(function)
            /\ hl' = IF function = "loop"
                     THEN [hl EXCEPT ![running] = Append(@, HighLevelFrame(nextId[running], 0))]
                     ELSE hl
            /\ UNCHANGED params

\* Mutant of Leaving: a return from any function leaves an HL frame.
LeavingAny(old, new) == Len(old) - new

\* How many frames of the loop an unwinding to "new" frames leaves.
Leaving(old, new) == Cardinality({i \in Activations(old) : i > new})

\* onLowLevelStackFramePopping(), for each frame that updateFrame() unwinds.
onLowLevelStackFramePopping(sp) ==
    LET old == frames[running]
        new == unwound(old, sp)
        k == Leaving(old, new)
    IN  /\ updateFrame(sp)
        /\ IF params = "none" \/ new = Len(old) THEN UNCHANGED hlStackVars
           ELSE /\ connected' = updateMemoryTracking(old[new].function)
                /\ hl' = [hl EXCEPT ![running] = SubSeq(@, 1, Len(@) - k)]
                /\ UNCHANGED params

\* The HL stack after a write of the HLPC at ptr in LL frame id: the location
\* of the top frame is learnt, or the write is a return to the innermost frame
\* that has this location, or it enters another frame.
HighLevelStackFor(stack, id, ptr) ==
    IF Top(stack).ptr \in {0, ptr} THEN [stack EXCEPT ![Len(stack)].ptr = ptr]
    ELSE IF \E i \in 1..Len(stack) : stack[i].ptr = ptr
         THEN SubSeq(stack, 1, CHOOSE n \in 1..Len(stack) :
                /\ stack[n].ptr = ptr
                /\ \A m \in n+1..Len(stack) : stack[m].ptr # ptr)
         ELSE Append(stack, HighLevelFrame(id, ptr))

\* The HL frames that an activation that has returned has left on the stack:
\* a return of the loop function pops one HL frame.
LeftOver(stack, ll) ==
    {i \in 1..Len(stack) : \A j \in 1..Len(ll) : ll[j].id # stack[i].id}

\* onDataMemoryAccess() at hlpc_update_pc.  The interpreter does not write the
\* HLPC of an HL frame below those of the current activation of its loop, but
\* for that of a left over frame when locations are reused.
onDataMemoryAccess(ptr) ==
    LET stack == hl[running]
        id == Top(frames[running]).id
    IN  /\ running \in Alive /\ connected /\ params = "loop" /\ stack # <<>>
        /\ \A i \in 1..Len(stack) :
             stack[i].ptr = ptr => \/ \E j \in 1..i : stack[j].id = id
                                   \/ ReuseLocations /\ i \in LeftOver(stack, frames[running])
        /\ hl' = [hl EXCEPT ![running] = HighLevelStackFor(stack, id, ptr)]
        /\ UNCHANGED <<callVars, params, connected>>

\* Mutant of interpClone: the new state starts with an empty HL stack.
interpCloneEmpty(n) ==
    /\ params = "loop"
    /\ clone(n)
    /\ UNCHANGED hlStackVars

\* HighLevelStack::clone(); the structure is set "before the interpreter starts
\* forking" (InterpreterTracer.h).
interpClone(n) ==
    /\ params = "loop"
    /\ clone(n)
    /\ hl' = [hl EXCEPT ![n] = hl[running]]
    /\ UNCHANGED <<params, connected>>

interpKill(l) ==
    /\ kill(l)
    /\ hl' = [hl EXCEPT ![l] = <<>>]
    /\ UNCHANGED <<params, connected>>

\* Mutant of onStateSwitch: the connection is left as it is.
onStateSwitchIgnored(l) == switchTo(l) /\ UNCHANGED hlStackVars

onStateSwitch(l) ==
    /\ switchTo(l)
    /\ connected' = updateMemoryTracking(Top(frames[l]).function)
    /\ UNCHANGED <<hl, params>>

InterpNext ==
    \/ setInterpreterStructureParams
    \/ \E sp \in 0..StackTop :
         \/ onLowLevelStackFramePopping(sp)
         \/ \E function \in Functions : onLowLevelStackFramePush(function, sp)
    \/ \E ptr \in Addresses : onDataMemoryAccess(ptr)
    \/ \E l \in States : interpClone(l) \/ interpKill(l) \/ onStateSwitch(l)

InterpSpec == InterpInit /\ [][InterpNext]_interpVars

-----------------------------------------------------------------------------
\* Type invariant of the stacks.
InterpTypeOK ==
    /\ status \in [States -> {"unborn", "alive", "dead"}]
    /\ running \in States
    /\ \A l \in States : (frames[l] # <<>> <=> l \in Alive) /\ nextId[l] \in 2..MaxId+1
    /\ \A l \in States : \A i \in 1..Len(hl[l]) :
         hl[l][i].id \in 1..MaxId /\ hl[l][i].ptr \in Addresses \cup {0}
    /\ params \in {"none", "loop"} /\ connected \in BOOLEAN

\* The stacks are those of the live states, and memory accesses are only watched
\* while the running one is inside the interpreter loop function, across calls,
\* unwindings and state switches.
TrackingInLoop ==
    /\ InterpTypeOK
    /\ running \in Alive /\ connected => Top(frames[running]).function = params

\* The assertion of onDataMemoryAccess() on the size of the HL stack.
HighLevelStackNotEmpty ==
    running \in Alive /\ connected => hl[running] # <<>>

\* Every live activation of the interpreter loop has an HL frame of its own,
\* and they are in the order of the LL stack, even when an HL frame is entered
\* without a call, several frames are left at once, or HL frames outlive their
\* activation (their locations are not reused); so the assertion in onLowLevelStackFramePopping() holds and the
\* HLPC of an outer activation is not lost to an inner one.
ActivationsOnStack ==
    \A l \in Alive : params = "loop" =>
        \E at \in [Activations(frames[l]) -> 1..Len(hl[l])] :
           \A i \in Activations(frames[l]) :
              /\ hl[l][at[i]].id = frames[l][i].id
              /\ \A j \in Activations(frames[l]) : j < i => at[j] < at[i]
=============================================================================
