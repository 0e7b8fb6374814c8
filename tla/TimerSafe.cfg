\* Three processes, two ticks to the second; the clock overflows after eight ticks.
SPECIFICATION FairSpec
CONSTANTS
  Procs = {p, q, r}
  hz = 2
  Width = 8
  Seconds = {1, 2, 5}
  Awake = Awake
INVARIANTS
  TypeOK
  TimersAhead
PROPERTIES
  IsAlarmClock
  SleepersWake
