--------------------------- MODULE HighLevelSearch ---------------------------
(***************************************************************************)
(* What the high-level executor promises, without path ids, selectors,     *)
(* targets or handlers that run in several iterations: a search over       *)
(* high-level traces.  Every low-level state has a trace, the sequence of  *)
(* high-level PCs behind the name of its root.  The search keeps a         *)
(* frontier of traces; a trace leaves it only when no low-level state is   *)
(* there any more, and exactly its continuations seen so far take its      *)
(* place.                                                                  *)
(***************************************************************************)
EXTENDS Integers, Sequences

CONSTANTS States, HLPC

VARIABLES
    trace,     \* of a low-level state; <<>> while it is not in the search
    visited,   \* the traces seen so far
    frontier   \* the traces the search is at

vars == <<trace, visited, frontier>>

Init ==
    /\ trace = [l \in States |-> <<>>]
    /\ visited = {} /\ frontier = {}

\* A state enters the search at a new root or one step below it.
Start(l) ==
    /\ trace[l] = <<>>
    /\ \E r \in visited' \ visited :
         /\ Len(r) = 1 /\ \A t \in visited : t[1] # r[1]
         /\ trace' = [trace EXCEPT ![l] = trace'[l]]
         /\ trace'[l] \in {r} \cup {Append(r, pc) : pc \in HLPC}
         /\ visited' = visited \cup {r, trace'[l]}
         /\ frontier' = frontier \cup {r}

\* A state executes a high-level instruction.
Move(l, pc) ==
    /\ trace[l] # <<>>
    /\ trace' = [trace EXCEPT ![l] = Append(@, pc)]
    /\ visited' = visited \cup {Append(trace[l], pc)}
    /\ UNCHANGED frontier

\* A state forks.
Clone(l, n) ==
    /\ trace[l] # <<>> /\ trace[n] = <<>>
    /\ trace' = [trace EXCEPT ![n] = trace[l]]
    /\ UNCHANGED <<visited, frontier>>

\* A state terminates.
Finish(l) ==
    /\ trace[l] # <<>>
    /\ trace' = [trace EXCEPT ![l] = <<>>]
    /\ UNCHANGED <<visited, frontier>>

\* The search moves on from f to all continuations of f.
Advance(f) ==
    /\ \A l \in States : trace[l] # f
    /\ frontier' = (frontier \ {f}) \cup
                     {Append(f, pc) : pc \in {d \in HLPC : Append(f, d) \in visited}}
    /\ UNCHANGED <<trace, visited>>

Next ==
    \/ \E l \in States :
         \/ Start(l) \/ Finish(l)
         \/ \E pc \in HLPC : Move(l, pc)
         \/ \E n \in States : Clone(l, n)
    \/ \E f \in frontier : Advance(f)

Spec == Init /\ [][Next]_vars
=============================================================================
