------------------------------ MODULE CallTracer ------------------------------
(***************************************************************************)
(* The low-level call stacks of the tracked thread                         *)
(* (qemu/s2e/Chef/CallTracer.cpp), one per S2E state, maintained from the  *)
(* values of the stack pointer.  The stack grows towards 0; its top is     *)
(* StackTop and the root frame covers the word above it.                   *)
(***************************************************************************)
EXTENDS Integers, Sequences, FiniteSets

CONSTANTS
    States,    \* S2E execution states, those not forked yet included
    StackTop,  \* OSThread::stack_top(); a bound on the depth of the stack
    MaxId      \* bound: frames created in one history

ASSUME StackTopAssumption == StackTop \in Nat
ASSUME MaxIdAssumption == MaxId \in Nat \ {0}  \* the root frame has id 1

VARIABLES
    status,   \* of an S2E state: "unborn", "alive" or "dead"
    running,  \* g_s2e_state
    frames,   \* CallStack::frames_, outermost first
    nextId    \* CallStack::next_id_

callVars == <<status, running, frames, nextId>>

\* CallStackFrame; function is "loop" for the interpreter loop function, "none"
\* stands for address 0.
Functions == {"loop", "other"}
Frame(id, function, top, bottom) ==
    [id |-> id, function |-> function, top |-> top, bottom |-> bottom]
RootFrame == Frame(1, "none", StackTop + 1, StackTop)

Top(stack) == stack[Len(stack)]

CallInit ==
    /\ running \in States
    /\ status = [l \in States |-> IF l = running THEN "alive" ELSE "unborn"]
    /\ frames = [l \in States |-> IF l = running THEN <<RootFrame>> ELSE <<>>]
    /\ nextId = [l \in States |-> 2]

Alive == {l \in States : status[l] = "alive"}

\* onStackPointerModification() of a call -> CallStack::newFrame(); the guest
\* keeps to its assertion that the return address is below the caller's frame.
newFrame(function, sp) ==
    /\ running \in Alive /\ nextId[running] <= MaxId
    /\ sp < Top(frames[running]).bottom
    /\ frames' = [frames EXCEPT ![running] =
                    Append(@, Frame(nextId[running], function, Top(@).bottom, sp))]
    /\ nextId' = [nextId EXCEPT ![running] = @ + 1]
    /\ UNCHANGED <<status, running>>

\* Mutant of unwound: a frame whose top the stack pointer has reached is kept.
unwoundBelow(stack, sp) ==
    CHOOSE n \in 1..Len(stack) :
        /\ sp <= stack[n].top
        /\ \A m \in n+1..Len(stack) : sp > stack[m].top

\* The frames left when updateFrame() has popped those at or below sp.
unwound(stack, sp) ==
    CHOOSE n \in 1..Len(stack) :
        /\ sp < stack[n].top
        /\ \A m \in n+1..Len(stack) : sp >= stack[m].top

\* CallStack::updateFrame(): unwind, then resize the innermost frame.  The
\* thread does not leave its root frame.
updateFrame(sp) ==
    LET n == unwound(frames[running], sp)
    IN  /\ running \in Alive /\ sp <= StackTop
        /\ frames' = [frames EXCEPT ![running] =
                        [SubSeq(@, 1, n) EXCEPT ![n].bottom = sp]]
        /\ UNCHANGED <<status, running, nextId>>

cloneNextId(n) == [nextId EXCEPT ![n] = nextId[running]]

\* onStateFork() -> CallStack::clone(): the constructor of the new stack has
\* made a root frame, and the root frame is copied with the others.
clone(n) ==
    /\ running \in Alive /\ status[n] = "unborn"
    /\ status' = [status EXCEPT ![n] = "alive"]
    /\ frames' = [frames EXCEPT ![n] = <<RootFrame>> \o frames[running]]
    /\ nextId' = cloneNextId(n)
    /\ UNCHANGED running

\* onStateKill(): the stack of the state is erased.
kill(l) ==
    /\ l \in Alive
    /\ status' = [status EXCEPT ![l] = "dead"]
    /\ frames' = [frames EXCEPT ![l] = <<>>]
    /\ nextId' = [nextId EXCEPT ![l] = 2]
    /\ UNCHANGED running

\* S2E switches to another state.
switchTo(l) ==
    /\ l \in Alive \ {running}
    /\ running' = l
    /\ UNCHANGED <<status, frames, nextId>>

-----------------------------------------------------------------------------
\* The frames of a call stack tile the thread's stack: each begins where its
\* caller's ends, so that a stack pointer identifies one frame, whatever the
\* calls, returns and unwindings of several frames (longjmp) that led to it.
\* Frame ids grow with the depth, also in a forked state: an id identifies one
\* frame of a stack, as the InterpreterTracer assumes.
FramesTile ==
    \A l \in Alive : \A i \in 1..Len(frames[l]) :
        /\ frames[l][i].bottom < frames[l][i].top
        /\ frames[l][i].function # "none" =>
             /\ frames[l][i].top = frames[l][i-1].bottom
             /\ frames[l][i].id > frames[l][i-1].id /\ frames[l][i].id < nextId[l]
=============================================================================
