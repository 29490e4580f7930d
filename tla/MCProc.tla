------------------------------- MODULE MCProc -------------------------------
(* Instances of the process table and scheduler for TLC. *)
EXTENDS Proc, TLC
Symmetric == Permutations(Slots \ {INITPROC}) \cup Permutations(CPUs)
=============================================================================
