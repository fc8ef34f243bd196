\* The clocks go back from 02:00 to 01:00 local time; a quarter of an hour is 1.
CONSTANTS
    DayLength = 96
    Change = 24
    Before <- FourHoursWest
    After <- FiveHoursWest
    Schedules <- MCSchedules
    Horizon = 200
SPECIFICATION Spec
CHECK_DEADLOCK FALSE
INVARIANTS DueScansAdvance
