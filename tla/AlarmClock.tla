----------------------------- MODULE AlarmClock -----------------------------
(* What Process::sleepUntil and Process::tick promise together: a process  *)
(* sleeps until the clock shows its alarm, to the tick, and all that have  *)
(* the same alarm wake at once.                                            *)
EXTENDS Naturals

CONSTANTS
  Sleepers, \* processes
  Period,    \* the clock shows 0 .. Period-1 and starts again
  Off       \* no alarm

VARIABLES
  now,      \* what the clock shows
  alarm     \* when a process wakes, or Off

AlarmInit == now = 0 /\ alarm = [p \in Sleepers |-> Off]

SetAlarm(p, t) ==
  /\ alarm[p] = Off
  /\ t > now
  /\ alarm' = [alarm EXCEPT ![p] = t]
  /\ UNCHANGED now

Advance ==
  /\ now' = (now + 1) % Period
  /\ alarm' = [p \in Sleepers |-> IF alarm[p] = now' THEN Off ELSE alarm[p]]

AlarmNext == Advance \/ \E p \in Sleepers, t \in 0 .. Period - 1 : SetAlarm(p, t)

AlarmSpec == AlarmInit /\ [][AlarmNext]_<<now, alarm>> /\ WF_<<now, alarm>>(Advance)
=============================================================================
