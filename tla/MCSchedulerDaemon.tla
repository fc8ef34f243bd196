------------------------- MODULE MCSchedulerDaemon -------------------------
(* SchedulerDaemon with a few processes and fewer process numbers. *)
EXTENDS SchedulerDaemon, TLC

Symmetry == Permutations(Procs) \cup Permutations(Pids)
=============================================================================
