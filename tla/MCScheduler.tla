---------------------------- MODULE MCScheduler -----------------------------
(* Values of the constants of Scheduler for model checking.                *)
EXTENDS Scheduler, TLC

CONSTANTS j1, j2, c1, c2

\* The host threads are interchangeable (used by the runs without liveness).
Callers == Permutations(Caller)
=============================================================================
