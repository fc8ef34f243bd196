-------------------------- MODULE MCScheduleTimes --------------------------
(* ScheduleTimes in quarters of an hour over two days, clocks put back by one. *)
EXTENDS ScheduleTimes

EveryDay(t) == [time |-> t, days |-> 0 .. 6]
OnceAWeek(t) == [time |-> t, days |-> {1}]

MCSchedules == {EveryDay(7), EveryDay(30), OnceAWeek(7)}

FourHoursWest == -16
FiveHoursWest == -20
=============================================================================
