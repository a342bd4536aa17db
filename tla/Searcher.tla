------------------------------ MODULE Searcher ------------------------------
(***************************************************************************)
(* What the searchers of the executor have in common: each is a way of     *)
(* choosing among the executor's states, and remembers the last choice.    *)
(***************************************************************************)
EXTENDS S2EExecutor

CONSTANT NoState  \* a null pointer

ASSUME NoStateAssumption == NoState \notin State

VARIABLE currentState  \* the selection the searcher remembers

-----------------------------------------------------------------------------
\* A searcher is an implementation of the choice among the executor's states:
\* selectNextState()'s assertion that it knows the selection holds
\* (S2EExecutor.cpp:1514), and it is empty only when no state is left.
ImplementsExecutor == Spec
=============================================================================
