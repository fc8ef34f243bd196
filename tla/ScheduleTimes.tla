--------------------------- MODULE ScheduleTimes ---------------------------
(***************************************************************************)
(* When a workflow runs next: compute_next_run_at, in minutes, with the    *)
(* local time of a zone whose offset changes once.  The module needs no    *)
(* state of the scheduler but the time of the scan and the time it stores. *)
(***************************************************************************)
EXTENDS Integers

CONSTANTS
    DayLength,      \* minutes of a local day
    Change,         \* the instant (UTC) at which the offset of the zone changes
    Before, After,  \* the offsets of the zone before and from Change on
    Schedules,      \* schedules a workflow may be given
    Horizon         \* bound: the clock stops here

VARIABLES
    now,        \* UTC
    schedule,   \* of the one workflow, enabled and not paused
    next,       \* scheduler_workflows.next_run_at
    stored      \* history: who stored next last, and when

vars == <<now, schedule, next, stored>>

\* validate_schedule: a weekly schedule is a daily one of a single day; a manual
\* one has no next run and is left out.
Schedule == [time : 0 .. DayLength - 1, days : (SUBSET (0 .. 6)) \ {{}}]

\* What the theorem assumes of the constants: any zone, any schedules.
ZoneTyped ==
    /\ DayLength \in Nat \ {0}
    /\ Change \in Int /\ Before \in Int /\ After \in Int
    /\ Schedules \subseteq Schedule

-----------------------------------------------------------------------------
Larger(a, b) == IF a >= b THEN a ELSE b

\* astimezone(zone)
Wall(utc) == utc + IF utc < Change THEN Before ELSE After

\* astimezone(UTC) of a wall time with fold = 0: the first of two equal wall
\* times, and the offset before the change for a wall time that never was.
ToUTC(wall) == wall - IF wall < Change + Larger(Before, After) THEN Before ELSE After

Day(wall) == wall \div DayLength

\* datetime.combine(date, run_time, tzinfo = zone)
Candidate(s, day) == day * DayLength + s.time

\* The days, from today, on which the schedule runs later than now.  Two times
\* of one zone compare by the wall clock, whatever their offsets.
LaterDays(s, wall) ==
    {day \in Day(wall) .. Day(wall) + 7 :
        day % 7 \in s.days /\ Candidate(s, day) > wall}

First(days) == CHOOSE d \in days : \A e \in days : d <= e

NextRun(s, utc) == ToUTC(Candidate(s, First(LaterDays(s, Wall(utc)))))

-----------------------------------------------------------------------------
Init ==
    /\ now = 0
    /\ schedule \in Schedules
    /\ next = NextRun(schedule, 0)
    /\ stored = [by |-> "configure", at |-> 0]

Tick == now < Horizon /\ now' = now + 1 /\ UNCHANGED <<schedule, next, stored>>

\* A due scan, at any time after the slot: the daemon polls, and may have been down.
Scan ==
    /\ next <= now
    /\ next' = NextRun(schedule, now)
    /\ stored' = [by |-> "scan", at |-> now]
    /\ UNCHANGED <<now, schedule>>

\* configure_workflow
Configure ==
    /\ schedule' \in Schedules
    /\ next' = NextRun(schedule', now)
    /\ stored' = [by |-> "configure", at |-> now]
    /\ UNCHANGED now

Next == Tick \/ Scan \/ Configure

Spec == Init /\ [][Next]_vars

-----------------------------------------------------------------------------
\* A due scan runs a workflow whose next run time has arrived and then advances
\* that time: what it stores lies after the moment of the scan, so the workflow
\* is not due again at once (run_due_workflows_durable, compute_next_run_at).
DueScansAdvance == stored.by = "scan" => next > stored.at

\* The hour that clocks put back show for the second time; no instant where they
\* are put forward.
InRepeatedHour(utc) == Change <= utc /\ utc < Change + (Before - After)

\* The repeated hour is the only exception, for scans and for configurations, and
\* even there what is stored misses the present by less than the clocks were put
\* back (compute_next_run_at).
AheadOutsideRepeatedHour ==
    next > stored.at - IF InRepeatedHour(stored.at) THEN Before - After ELSE 0
=============================================================================
