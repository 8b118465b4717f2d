---------------------------- MODULE MCExecution ----------------------------
(* Small instances of Execution for TLC. *)
EXTENDS Execution, TLC

\* The program's policies are interchangeable (sound for invariants only).
Symmetric == Permutations(Ambient)
============================================================================
