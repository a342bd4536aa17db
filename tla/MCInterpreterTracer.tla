-------------------------- MODULE MCInterpreterTracer --------------------------
(* Instances of the call and interpreter tracers for TLC.                  *)
EXTENDS InterpreterTracer
=============================================================================
