------------------------ MODULE ScheduleTimesProofs ------------------------
(***************************************************************************)
(* The next run lies ahead, for every zone, length of day and schedule,    *)
(* unless it is computed in the hour that the clocks repeat.  The run      *)
(* schedule_back shows that the exception happens.                         *)
(***************************************************************************)
EXTENDS ScheduleTimes, TLAPS

\* A day number and the minutes of that day make up a wall time.
LEMMA DayBounds ==
    ASSUME NEW wall \in Int, NEW len \in Nat \ {0}
    PROVE  /\ wall \div len \in Int
           /\ (wall \div len) * len <= wall
           /\ wall < (wall \div len) * len + len
<1>1. wall \div len \in Int
  BY SMT
<1>2. wall = (wall \div len) * len + (wall % len) /\ wall % len < len /\ 0 <= wall % len
  BY SMTT(30)
<1>3. (wall \div len) * len \in Int
  BY <1>1
<1> QED
  BY <1>1, <1>2, <1>3

\* Every weekday comes within the seven days that follow.
LEMMA WithinAWeek ==
    ASSUME NEW d \in Int, NEW x \in 0 .. 6
    PROVE  \E e \in d + 1 .. d + 7 : e % 7 = x
<1> DEFINE e == d + 1 + ((x - d - 1) % 7)
<1>1. (x - d - 1) % 7 \in 0 .. 6
  BY SMT
<1>2. e \in d + 1 .. d + 7
  BY <1>1
<1>3. e % 7 = x
  BY SMTT(30)
<1> QED
  BY <1>2, <1>3

\* Of some of eight days one comes first.
LEMMA FirstIsADay ==
    ASSUME NEW d \in Int, NEW S \in SUBSET (d .. d + 7), S # {}
    PROVE  First(S) \in S
<1> SUFFICES \E m \in S : \A e \in S : m <= e
  BY Zenon DEF First
<1>z. \A e \in S : e \in Int /\ \E k \in 0 .. 7 : e = d + k
  <2> SUFFICES ASSUME NEW e \in S PROVE e \in Int /\ \E k \in 0 .. 7 : e = d + k
    OBVIOUS
  <2>1. e \in Int /\ e - d \in 0 .. 7 /\ e = d + (e - d)
    OBVIOUS
  <2> QED
    BY <2>1
<1>1. CASE d + 0 \in S
  BY <1>1, <1>z
<1>2. CASE d + 1 \in S /\ \A j \in 0 .. 0 : d + j \notin S
  BY <1>2, <1>z
<1>3. CASE d + 2 \in S /\ \A j \in 0 .. 1 : d + j \notin S
  BY <1>3, <1>z
<1>4. CASE d + 3 \in S /\ \A j \in 0 .. 2 : d + j \notin S
  BY <1>4, <1>z
<1>5. CASE d + 4 \in S /\ \A j \in 0 .. 3 : d + j \notin S
  BY <1>5, <1>z
<1>6. CASE d + 5 \in S /\ \A j \in 0 .. 4 : d + j \notin S
  BY <1>6, <1>z
<1>7. CASE d + 6 \in S /\ \A j \in 0 .. 5 : d + j \notin S
  BY <1>7, <1>z
<1>8. CASE d + 7 \in S /\ \A j \in 0 .. 6 : d + j \notin S
  BY <1>8, <1>z
<1>9. \E k \in 0 .. 7 : d + k \in S
  BY <1>z
<1> QED
  BY <1>1, <1>2, <1>3, <1>4, <1>5, <1>6, <1>7, <1>8, <1>9

\* The day that is chosen has its candidate later than now, by the wall clock.
LEMMA LaterByTheWall ==
    ASSUME ZoneTyped, NEW s \in Schedule, NEW wall \in Int
    PROVE  /\ Candidate(s, First(LaterDays(s, wall))) \in Int
           /\ Candidate(s, First(LaterDays(s, wall))) > wall
<1>0. s.days \subseteq 0 .. 6 /\ s.days # {}
  BY DEF Schedule
<1>1. PICK x \in 0 .. 6 : x \in s.days
  BY <1>0
<1>2. Day(wall) \in Int /\ wall < Day(wall) * DayLength + DayLength
  BY DayBounds DEF Day, ZoneTyped
<1>3. PICK e \in Day(wall) + 1 .. Day(wall) + 7 : e % 7 = x
  BY <1>1, <1>2, WithinAWeek
<1>4. Candidate(s, e) > wall
  <2>1. e \in Int /\ e >= Day(wall) + 1
    BY <1>2
  <2>2. DayLength \in Nat /\ s.time \in Nat
    BY DEF ZoneTyped, Schedule
  <2>3. e * DayLength >= (Day(wall) + 1) * DayLength
    BY <2>1, <2>2, <1>2
  <2>4. (Day(wall) + 1) * DayLength = Day(wall) * DayLength + DayLength
    BY <2>2, <1>2
  <2>5. e * DayLength \in Int /\ Day(wall) * DayLength \in Int
    BY <2>1, <2>2, <1>2
  <2> QED
    BY <2>2, <2>3, <2>4, <2>5, <1>2 DEF Candidate
<1>5. e \in LaterDays(s, wall)
  BY <1>1, <1>2, <1>3, <1>4 DEF LaterDays
<1>6. LaterDays(s, wall) \in SUBSET (Day(wall) .. Day(wall) + 7)
  BY DEF LaterDays
<1>7. First(LaterDays(s, wall)) \in LaterDays(s, wall)
  BY <1>2, <1>5, <1>6, FirstIsADay
<1>8. Candidate(s, First(LaterDays(s, wall))) \in Int
  <2>1. First(LaterDays(s, wall)) \in Int
    BY <1>2, <1>6, <1>7
  <2>2. DayLength \in Nat /\ s.time \in Nat
    BY DEF ZoneTyped, Schedule
  <2> QED
    BY <2>1, <2>2 DEF Candidate
<1> QED
  BY <1>7, <1>8 DEF LaterDays

\* Back in UTC it is later by as much, but for what the change of the offset
\* takes away in the repeated hour.
LEMMA NextRunIsLater ==
    ASSUME ZoneTyped, NEW s \in Schedule, NEW utc \in Int
    PROVE  NextRun(s, utc) > utc - IF InRepeatedHour(utc) THEN Before - After ELSE 0
<1> DEFINE c == Candidate(s, First(LaterDays(s, Wall(utc))))
<1>1. Wall(utc) \in Int
  BY DEF Wall, ZoneTyped
<1>2. c \in Int /\ c > Wall(utc)
  BY <1>1, LaterByTheWall
<1>3. NextRun(s, utc) = ToUTC(c)
  BY DEF NextRun
<1> HIDE DEF c
<1>4. CASE utc < Change
  <2>1. ToUTC(c) > utc
    BY <1>2, <1>4 DEF ToUTC, Wall, Larger, ZoneTyped
  <2> QED
    BY <1>3, <1>4, <2>1 DEF InRepeatedHour, ZoneTyped
<1>5. CASE utc >= Change
  <2>1. c > utc + After
    BY <1>2, <1>5 DEF Wall, ZoneTyped
  <2>2. CASE c < Change + Larger(Before, After)
    <3>1. Before > After /\ c < Change + Before /\ ToUTC(c) = c - Before
      BY <1>2, <1>5, <2>1, <2>2 DEF Larger, ToUTC, ZoneTyped
    <3>2. InRepeatedHour(utc)
      BY <1>2, <1>5, <2>1, <3>1 DEF InRepeatedHour, ZoneTyped
    <3> QED
      BY <1>2, <1>3, <2>1, <3>1, <3>2 DEF ZoneTyped
  <2>3. CASE ~(c < Change + Larger(Before, After))
    <3>1. ToUTC(c) > utc
      BY <1>2, <2>1, <2>3 DEF ToUTC, ZoneTyped
    <3> QED
      BY <1>2, <1>3, <1>5, <3>1 DEF InRepeatedHour, ToUTC, ZoneTyped
  <2> QED
    BY <2>2, <2>3
<1> QED
  BY <1>4, <1>5 DEF ZoneTyped

-----------------------------------------------------------------------------
Ahead == now \in Int /\ schedule \in Schedule /\ AheadOutsideRepeatedHour

\* Every next run time that a due scan or a configuration stores lies after the
\* moment at which it was computed, unless that moment lies in the hour that the
\* clocks repeat; then it misses it by less than the clocks were put back.
THEOREM NextRunAhead == ASSUME ZoneTyped PROVE Spec => []AheadOutsideRepeatedHour
<1>1. Init => Ahead
  <2> SUFFICES ASSUME Init PROVE Ahead
    OBVIOUS
  <2>1. now = 0 /\ schedule \in Schedule /\ next = NextRun(schedule, 0) /\ stored.at = 0
    BY DEF Init, ZoneTyped
  <2> QED
    BY <2>1, NextRunIsLater DEF Ahead, AheadOutsideRepeatedHour
<1>2. Ahead /\ [Next]_vars => Ahead'
  <2> SUFFICES ASSUME Ahead, [Next]_vars PROVE Ahead'
    OBVIOUS
  <2>1. CASE Tick \/ UNCHANGED vars
    BY <2>1 DEF Tick, vars, Ahead, AheadOutsideRepeatedHour, InRepeatedHour
  <2>2. ASSUME NEW s \in Schedule, schedule' = s, now' = now,
               next' = NextRun(s, now), stored'.at = now
        PROVE  Ahead'
    BY <2>2, NextRunIsLater DEF Ahead, AheadOutsideRepeatedHour, InRepeatedHour
  <2>3. CASE Scan
    BY <2>2, <2>3 DEF Scan, Ahead
  <2>4. CASE Configure
    BY <2>2, <2>4 DEF Configure, ZoneTyped
  <2> QED
    BY <2>1, <2>3, <2>4 DEF Next
<1> QED
  BY <1>1, <1>2, PTL DEF Spec, Ahead
=============================================================================
