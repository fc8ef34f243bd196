------------------------- MODULE MCSchedulerClaims -------------------------
(* SchedulerClaims on small instances. *)
EXTENDS SchedulerClaims, TLC

(* A schedule is its period; its slots are the multiples of it. *)
MCSlotAfter(s, t) == (t \div s + 1) * s

MCSchedules == {2}

Unchanged == [enabled |-> None, paused |-> None, schedule |-> None]

PauseAndResume ==
    {[Unchanged EXCEPT !.paused = TRUE], [Unchanged EXCEPT !.paused = FALSE]}

WorkerSymmetry == Permutations(Runs) \cup Permutations(Workers)
=============================================================================
