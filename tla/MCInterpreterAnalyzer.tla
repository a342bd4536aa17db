------------------------- MODULE MCInterpreterAnalyzer -------------------------
(* Instances of the OS tracer and the analyzer for TLC.                    *)
EXTENDS InterpreterAnalyzer, TLC

\* The states and the page tables are interchangeable; thread ids are ordered.
Symmetry == Permutations(States) \cup Permutations(PageTables)
=============================================================================
