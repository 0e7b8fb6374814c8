------------------------------- MODULE Timer -------------------------------
(***************************************************************************)
(* Sleeping: Process::sleepUntil and sleepFor, and the tick of the PIT that *)
(* wakes the sleepers (process.cc, pit.cc).                                *)
(*                                                                         *)
(* sleepUntil runs with interrupts disabled until it gives the CPU away and *)
(* so is one action; sleepFor reads the clock before that. How the sleepers *)
(* block and become ready is the subject of Process.                       *)
(*                                                                         *)
(* An operator whose name ends in Mutant is a wrong version of the one that *)
(* follows it; no specification uses it (see README.md).                   *)
(***************************************************************************)
EXTENDS Integers, Sequences, FiniteSets, SequencesExt

CONSTANTS
  Procs,   \* processes
  hz,      \* Pit::hz, ticks per second
  Width,   \* 2^32: jiffies and targets are counted modulo this
  Seconds, \* the arguments of sleepUntil and sleepFor
  Awake    \* no target

ASSUME TimerAssumption ==
  /\ hz \in Nat \ {0} /\ Width \in Nat \ {0}
  /\ Seconds \subseteq Nat
  /\ Awake \notin 0 .. Width - 1

VARIABLES
  jiffies, \* Pit::jiffies
  timers,  \* Process::timers, a list: each Timer has a target and a queue
  until    \* the second that a process in sleepFor computed, or Awake

vars == <<jiffies, timers, until>>

\* The tick of a second, as the 32 bits of target hold it.
TargetMutant(second) == second * hz
Target(second) == (second * hz) % Width

\* Where target is, or belongs, in the list.
PlaceMutant(target) == 1
Place(target) == Cardinality({i \in DOMAIN timers : timers[i].target < target}) + 1

InTimer(p) == {i \in DOMAIN timers : Contains(timers[i].waiting, p)}
Sleeping(p) == InTimer(p) # {}

Init ==
  /\ jiffies = 0
  /\ timers = <<>>
  /\ until = [p \in Procs |-> Awake]

\* Process::sleepUntil: a target that has passed is not waited for; any other gets
\* a Timer, at its place in the list, unless it has one already.
SleepMutant(p, second) ==
  LET target == Target(second)
  IN timers' = IF target >= jiffies
                 THEN InsertAt(timers, Place(target), [target |-> target, waiting |-> <<p>>])
                 ELSE timers
Sleep(p, second) ==
  LET target == Target(second)
      i == Place(target)
  IN timers' =
       IF target <= jiffies THEN timers
       ELSE IF i \in DOMAIN timers /\ timers[i].target = target
         THEN [timers EXCEPT ![i].waiting = Append(@, p)]
       ELSE InsertAt(timers, i, [target |-> target, waiting |-> <<p>>])

SleepUntil(p, second) ==
  /\ ~Sleeping(p) /\ until[p] = Awake
  /\ Sleep(p, second)
  /\ UNCHANGED <<jiffies, until>>

\* Process::sleepFor reads the seconds on the clock and calls sleepUntil.
SleepFor(p, seconds) ==
  /\ ~Sleeping(p) /\ until[p] = Awake
  /\ until' = [until EXCEPT ![p] = jiffies \div hz + seconds]
  /\ UNCHANGED <<jiffies, timers>>

SleepForUntil(p) ==
  /\ until[p] # Awake
  /\ Sleep(p, until[p])
  /\ until' = [until EXCEPT ![p] = Awake]
  /\ UNCHANGED jiffies

\* Process::tick wakes the first Timer when its target is now.
Wake(now) == IF timers # <<>> /\ Head(timers).target = now THEN Tail(timers) ELSE timers

\* Pit::handler
TickMutant ==
  /\ jiffies' = (jiffies + 1) % Width
  /\ timers' = Wake(jiffies)
  /\ UNCHANGED until
Tick ==
  /\ jiffies' = (jiffies + 1) % Width
  /\ timers' = Wake(jiffies')
  /\ UNCHANGED until

Next ==
  \/ Tick
  \/ \E p \in Procs :
       \/ \E s \in Seconds : SleepUntil(p, s) \/ SleepFor(p, s)
       \/ SleepForUntil(p)

Spec == Init /\ [][Next]_vars

\* The timer goes on ticking.
FairSpec == Spec /\ WF_vars(Tick)

-----------------------------------------------------------------------------
TypeOK ==
  /\ jiffies \in 0 .. Width - 1
  /\ timers \in Seq([target : 0 .. Width - 1, waiting : Seq(Procs)])
  /\ until \in [Procs -> Nat \cup {Awake}]

\* The list ascends strictly and nothing in it is due or overdue, so that tick() may
\* look at its head alone and compare with = even when jiffies overflows.
TimersAhead ==
  /\ \A i \in DOMAIN timers : timers[i].target > jiffies /\ timers[i].waiting # <<>>
  /\ \A i, j \in DOMAIN timers : i < j => timers[i].target < timers[j].target

\* sleepUntil and tick together are an alarm clock: nobody oversleeps or is woken
\* before its target (process.cc).
Alarm(p) == IF Sleeping(p) THEN timers[CHOOSE i \in InTimer(p) : TRUE].target ELSE Awake

Clock == INSTANCE AlarmClock WITH
  Sleepers <- Procs, Period <- Width, Off <- Awake,
  now <- jiffies, alarm <- [p \in Procs |-> Alarm(p)]

IsAlarmClock == Clock!AlarmSpec

\* Every sleeper wakes.
SleepersWake == \A p \in Procs : Sleeping(p) ~> ~Sleeping(p)
=============================================================================
