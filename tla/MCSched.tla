------------------------------- MODULE MCSched -------------------------------
(* TLC instances of Sched.                                                 *)
EXTENDS Sched, TLC

\* CPUs are interchangeable: Sched never tells one from another.
Symmetry == Permutations(CPU)
=============================================================================
