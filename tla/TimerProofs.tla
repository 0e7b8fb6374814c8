---------------------------- MODULE TimerProofs ----------------------------
(***************************************************************************)
(* Theorems about Timer for any processes, frequency, width of the counter *)
(* and arguments of sleepUntil and sleepFor.                               *)
(***************************************************************************)
EXTENDS Timer, FiniteSetTheorems, SequenceTheorems, TLAPS

Timers == [target : 0 .. Width - 1, waiting : Seq(Procs)]

\* What the list has to be besides well typed; TimersAhead, but of any list.
Ahead(list, now) ==
  /\ \A i \in DOMAIN list : list[i].target > now /\ list[i].waiting # <<>>
  /\ \A i, j \in DOMAIN list : i < j => list[i].target < list[j].target

IInv == TypeOK /\ TimersAhead

-----------------------------------------------------------------------------
(* Arithmetic *)

LEMMA TargetType == \A second \in Nat : Target(second) \in 0 .. Width - 1
<1> SUFFICES ASSUME NEW second \in Nat PROVE Target(second) \in 0 .. Width - 1
  OBVIOUS
<1> DEFINE ticks == second * hz
<1>1. ticks \in Nat
  BY TimerAssumption
<1>2. ticks % Width \in 0 .. Width - 1
  <2> HIDE DEF ticks
  <2> QED BY <1>1, TimerAssumption
<1> QED
  BY <1>2 DEF Target

\* A set of numbers that is not empty has a least element.
LEMMA LeastExists ==
  ASSUME NEW T \in SUBSET Nat, T # {}
  PROVE  \E m \in T : \A k \in T : m <= k
<1>1. PICK m \in T : \A k \in T : ~ <<k, m>> \in OpToRel(<, Nat)
  BY NatLessThanWellFounded, WFMin
<1>2. \A k \in T : <<k, m>> \in Nat \X Nat
  OBVIOUS
<1>3. \A k \in T : ~ (k < m)
  BY <1>1, <1>2 DEF OpToRel
<1> QED
  BY <1>3

LEMMA SecondType == \A now \in Nat, s \in Nat : now \div hz + s \in Nat
BY TimerAssumption

-----------------------------------------------------------------------------
(* The list *)

LEMMA Replaced ==
  ASSUME NEW S, NEW s \in Seq(S), NEW e \in S, NEW i \in DOMAIN s
  PROVE  [s EXCEPT ![i] = e] \in Seq(S) /\ Len([s EXCEPT ![i] = e]) = Len(s)
OBVIOUS

LEMMA Joined ==
  ASSUME NEW S, NEW c \in Seq(S), NEW b \in Seq(S)
  PROVE  /\ (c \o b) \in Seq(S)
         /\ Len(c \o b) = Len(c) + Len(b)
         /\ \A k \in 1 .. Len(c) + Len(b) : (c \o b)[k] = IF k <= Len(c) THEN c[k] ELSE b[k - Len(c)]
BY ConcatProperties

\* InsertAt puts e at i and moves what is behind it.
LEMMA Inserted ==
  ASSUME NEW S, NEW s \in Seq(S), NEW e \in S, NEW i \in 1 .. Len(s) + 1
  PROVE  /\ InsertAt(s, i, e) \in Seq(S)
         /\ Len(InsertAt(s, i, e)) = Len(s) + 1
         /\ \A k \in 1 .. Len(s) + 1 :
              InsertAt(s, i, e)[k] = IF k < i THEN s[k] ELSE IF k = i THEN e ELSE s[k - 1]
<1> DEFINE a == SubSeq(s, 1, i - 1)
           b == SubSeq(s, i, Len(s))
           c == a \o <<e>>
<1>1. a \in Seq(S) /\ Len(a) = i - 1 /\ \A k \in 1 .. i - 1 : a[k] = s[k]
  OBVIOUS
<1>2. b \in Seq(S) /\ Len(b) = Len(s) - i + 1 /\ \A k \in 1 .. Len(s) - i + 1 : b[k] = s[k + i - 1]
  OBVIOUS
<1> HIDE DEF a, b
<1>3. c \in Seq(S) /\ Len(c) = i /\ c[i] = e /\ \A k \in 1 .. i - 1 : c[k] = s[k]
  BY <1>1
<1> HIDE DEF c
<1>4. /\ (c \o b) \in Seq(S)
      /\ Len(c \o b) = Len(c) + Len(b)
      /\ \A k \in 1 .. Len(c) + Len(b) : (c \o b)[k] = IF k <= Len(c) THEN c[k] ELSE b[k - Len(c)]
  BY <1>2, <1>3, Joined
<1>5. /\ Len(c \o b) = Len(s) + 1
      /\ \A k \in 1 .. Len(s) + 1 : (c \o b)[k] = IF k < i THEN s[k] ELSE IF k = i THEN e ELSE s[k - 1]
  BY <1>2, <1>3, <1>4
<1>6. InsertAt(s, i, e) = c \o b
  BY DEF InsertAt, a, b, c
<1> QED
  BY <1>4, <1>5, <1>6

\* In an ascending list Place finds where target is or belongs: what is before it is
\* smaller and what is from there on is not.
LEMMA PlaceSplits ==
  ASSUME timers \in Seq(Timers), Ahead(timers, jiffies), jiffies \in Nat, Width \in Nat,
         NEW target \in Nat
  PROVE  /\ Place(target) \in 1 .. Len(timers) + 1
         /\ \A k \in DOMAIN timers : timers[k].target < target <=> k < Place(target)
<1> DEFINE Less == {i \in DOMAIN timers : timers[i].target < target}
<1>1. \A k \in DOMAIN timers : timers[k].target \in Nat
  <2>1. \A k \in DOMAIN timers : timers[k] \in Timers
    OBVIOUS
  <2> QED
    BY <2>1 DEF Timers
<1>2. \A k \in Less, j \in DOMAIN timers : j <= k => j \in Less
  BY <1>1 DEF Ahead
<1>3. PICK n \in 0 .. Len(timers) : Less = 1 .. n
  <2>1. CASE Less = DOMAIN timers
    <3>1. Less = 1 .. Len(timers)
      BY <2>1
    <3> QED
      BY <3>1
  <2>2. CASE Less # DOMAIN timers
    <3> DEFINE Not == {k \in Nat : k \in DOMAIN timers /\ k \notin Less}
    <3>1. Not # {} /\ Not \subseteq Nat
      <4>1. PICK k \in DOMAIN timers : k \notin Less
        BY <2>2
      <4>2. k \in Not
        BY <4>1
      <4> QED
        BY <4>2
    <3>2. PICK m \in Not : \A k \in Not : m <= k
      <4> HIDE DEF Not
      <4> QED
        BY <3>1, LeastExists
    <3>3. m \in 1 .. Len(timers) /\ m \notin Less
      BY <3>2
    <3>4. \A k \in DOMAIN timers : k \in Less <=> k < m
      <4> SUFFICES ASSUME NEW k \in DOMAIN timers PROVE k \in Less <=> k < m
        OBVIOUS
      <4>1. k < m => k \in Less
        BY <3>2, <3>3
      <4>2. k >= m => k \notin Less
        BY <1>2, <3>3
      <4> QED
        BY <3>3, <4>1, <4>2
    <3>5. Less = 1 .. m - 1
      <4> HIDE DEF Not
      <4> QED
        BY <3>3, <3>4
    <3> QED
      BY <3>3, <3>5
  <2> QED
    BY <2>1, <2>2
<1>4. Cardinality(Less) = n
  <2> HIDE DEF Less
  <2> QED
    BY <1>3, FS_Interval
<1>5. Place(target) = n + 1
  BY <1>4 DEF Place
<1> QED
  BY <1>1, <1>3, <1>5

-----------------------------------------------------------------------------
(* The invariant *)

\* sleepUntil keeps the list ascending and ahead of the clock.
LEMMA SleepAhead ==
  ASSUME IInv, NEW p \in Procs, NEW second \in Nat, Sleep(p, second)
  PROVE  timers' \in Seq(Timers) /\ Ahead(timers', jiffies)
<1> DEFINE target == Target(second)
           i == Place(target)
           timer == [target |-> target, waiting |-> <<p>>]
<1>1. timers \in Seq(Timers) /\ Ahead(timers, jiffies) /\ jiffies \in Nat /\ Width \in Nat
  BY TimerAssumption DEF IInv, TypeOK, TimersAhead, Ahead, Timers
<1>2. target \in 0 .. Width - 1 /\ target \in Nat
  BY TargetType, TimerAssumption
<1>3. i \in 1 .. Len(timers) + 1 /\ \A k \in DOMAIN timers : timers[k].target < target <=> k < i
  BY <1>1, <1>2, PlaceSplits
<1>4. \A k \in DOMAIN timers : timers[k] \in Timers /\ timers[k].target \in Nat /\ timers[k].waiting \in Seq(Procs)
  <2>1. \A k \in DOMAIN timers : timers[k] \in Timers
    BY <1>1
  <2> QED
    BY <2>1 DEF Timers
<1>5. timers' = IF target <= jiffies THEN timers
                ELSE IF i \in DOMAIN timers /\ timers[i].target = target
                  THEN [timers EXCEPT ![i].waiting = Append(@, p)]
                ELSE InsertAt(timers, i, timer)
  BY DEF Sleep
<1> HIDE DEF target, i
<1>6. CASE target <= jiffies
  BY <1>1, <1>5, <1>6
<1>7. CASE target > jiffies /\ i \in DOMAIN timers /\ timers[i].target = target
  <2> DEFINE new == [timers[i] EXCEPT !.waiting = Append(@, p)]
  <2>1. new \in Timers /\ new.target = target /\ new.waiting # <<>>
    BY <1>4, <1>7 DEF Timers
  <2>2. timers' = [timers EXCEPT ![i] = new]
    BY <1>1, <1>2, <1>5, <1>7
  <2> HIDE DEF new
  <2>3. timers' \in Seq(Timers) /\ Len(timers') = Len(timers)
    BY <1>1, <1>7, <2>1, <2>2, Replaced
  <2>4. \A k \in DOMAIN timers : timers'[k].target = timers[k].target /\ timers'[k].waiting # <<>>
    BY <1>1, <1>7, <2>1, <2>2 DEF Ahead
  <2> QED
    BY <1>1, <2>3, <2>4 DEF Ahead
<1>8. CASE target > jiffies /\ ~(i \in DOMAIN timers /\ timers[i].target = target)
  <2>1. timer \in Timers /\ timer.target = target /\ timer.waiting # <<>>
    BY <1>2 DEF Timers
  <2>2. timers' = InsertAt(timers, i, timer)
    BY <1>1, <1>2, <1>5, <1>8
  <2> HIDE DEF timer
  <2>3. /\ InsertAt(timers, i, timer) \in Seq(Timers)
        /\ Len(InsertAt(timers, i, timer)) = Len(timers) + 1
        /\ \A k \in 1 .. Len(timers) + 1 : InsertAt(timers, i, timer)[k] =
             IF k < i THEN timers[k] ELSE IF k = i THEN timer ELSE timers[k - 1]
    <3>1. timers \in Seq(Timers) /\ timer \in Timers /\ i \in 1 .. Len(timers) + 1
      BY <1>1, <1>3, <2>1
    <3> QED
      BY <3>1, Inserted
  <2>4. /\ timers' \in Seq(Timers)
        /\ Len(timers') = Len(timers) + 1
        /\ \A k \in 1 .. Len(timers) + 1 :
             timers'[k] = IF k < i THEN timers[k] ELSE IF k = i THEN timer ELSE timers[k - 1]
    BY <2>2, <2>3
  <2>5. \A k \in DOMAIN timers : k >= i => timers[k].target > target
    <3> SUFFICES ASSUME NEW k \in DOMAIN timers, k >= i PROVE timers[k].target > target
      OBVIOUS
    <3>1. i \in DOMAIN timers /\ timers[i].target # target
      BY <1>1, <1>3, <1>8
    <3>2. timers[i].target > target
      BY <1>2, <1>3, <1>4, <3>1
    <3> QED
      BY <1>1, <1>2, <1>3, <1>4, <3>1, <3>2, SMTT(30) DEF Ahead
  <2>6. \A k \in DOMAIN timers : k < i => timers[k].target < target
    BY <1>3
  <2>7. \A k \in DOMAIN timers' : timers'[k].target > jiffies /\ timers'[k].waiting # <<>>
    <3> SUFFICES ASSUME NEW k \in DOMAIN timers'
                 PROVE  timers'[k].target > jiffies /\ timers'[k].waiting # <<>>
      OBVIOUS
    <3>1. k \in 1 .. Len(timers) + 1
      BY <2>4
    <3>2. CASE k < i
      BY <1>1, <1>3, <2>4, <3>1, <3>2 DEF Ahead
    <3>3. CASE k = i
      BY <1>8, <2>1, <2>4, <3>1, <3>3
    <3>4. CASE k > i
      BY <1>1, <1>3, <2>4, <3>1, <3>4, SMTT(30) DEF Ahead
    <3> QED
      BY <1>3, <3>1, <3>2, <3>3, <3>4
  <2>8. \A j, k \in DOMAIN timers' : j < k => timers'[j].target < timers'[k].target
    <3> SUFFICES ASSUME NEW j \in DOMAIN timers', NEW k \in DOMAIN timers', j < k
                 PROVE  timers'[j].target < timers'[k].target
      OBVIOUS
    <3>1. j \in 1 .. Len(timers) + 1 /\ k \in 1 .. Len(timers) + 1
      BY <2>4
    <3>2. CASE k < i
      <4>1. timers'[j] = timers[j] /\ timers'[k] = timers[k] /\ j \in DOMAIN timers /\ k \in DOMAIN timers
        BY <1>1, <1>3, <2>4, <3>1, <3>2
      <4> QED
        BY <1>1, <4>1 DEF Ahead
    <3>3. CASE k = i
      <4>1. timers'[j] = timers[j] /\ timers'[k] = timer /\ j \in DOMAIN timers
        BY <1>1, <1>3, <2>4, <3>1, <3>3
      <4> QED
        BY <2>1, <2>6, <3>3, <4>1
    <3>4. CASE j = i
      <4>1. timers'[j] = timer /\ timers'[k] = timers[k - 1] /\ k - 1 \in DOMAIN timers /\ k - 1 >= i
        BY <1>1, <1>3, <2>4, <3>1, <3>4
      <4> QED
        BY <1>2, <1>4, <2>1, <2>5, <4>1
    <3>5. CASE j < i /\ k > i
      <4>1. timers'[j] = timers[j] /\ timers'[k] = timers[k - 1] /\ j \in DOMAIN timers /\ k - 1 \in DOMAIN timers /\ k - 1 >= i
        BY <1>1, <1>3, <2>4, <3>1, <3>5
      <4>2. timers[j].target < target /\ timers[k - 1].target > target
        BY <2>5, <2>6, <3>5, <4>1
      <4> QED
        BY <1>2, <1>4, <4>1, <4>2
    <3>6. CASE j > i
      <4>1. timers'[j] = timers[j - 1] /\ timers'[k] = timers[k - 1] /\ j - 1 \in DOMAIN timers /\ k - 1 \in DOMAIN timers
        BY <1>1, <1>3, <2>4, <3>1, <3>6
      <4>2. j - 1 < k - 1
        BY <3>1
      <4> QED
        BY <1>1, <4>1, <4>2 DEF Ahead
    <3> QED
      BY <1>3, <3>1, <3>2, <3>3, <3>4, <3>5, <3>6
  <2> QED
    BY <2>4, <2>7, <2>8 DEF Ahead
<1> QED
  BY <1>1, <1>2, <1>6, <1>7, <1>8

\* tick leaves nothing overdue behind: what was not ahead any more is the head of the
\* list, and it is woken.
LEMMA WakeAhead ==
  ASSUME IInv, NEW now \in 0 .. Width - 1, now = jiffies + 1 \/ now = 0
  PROVE  Wake(now) \in Seq(Timers) /\ Ahead(Wake(now), now)
<1>1. timers \in Seq(Timers) /\ Ahead(timers, jiffies) /\ jiffies \in 0 .. Width - 1 /\ Width \in Nat
  BY TimerAssumption DEF IInv, TypeOK, TimersAhead, Ahead, Timers
<1>2. \A k \in DOMAIN timers : timers[k].target \in 0 .. Width - 1
  <2>1. \A k \in DOMAIN timers : timers[k] \in Timers
    BY <1>1
  <2> QED
    BY <2>1 DEF Timers
<1>3. CASE timers = <<>>
  BY <1>1, <1>3 DEF Wake, Ahead
<1>4. CASE timers # <<>> /\ timers[1].target = now
  <2>1. Wake(now) = Tail(timers) /\ Tail(timers) \in Seq(Timers) /\ Len(Tail(timers)) = Len(timers) - 1
    BY <1>1, <1>4 DEF Wake
  <2>2. \A k \in 1 .. Len(timers) - 1 : Tail(timers)[k] = timers[k + 1]
    BY <1>1, <1>4
  <2>3. \A k \in 1 .. Len(timers) - 1 : timers[k + 1].target > now
    BY <1>1, <1>2, <1>4 DEF Ahead
  <2> QED
    BY <1>1, <2>1, <2>2, <2>3, SMTT(30) DEF Ahead
<1>5. CASE timers # <<>> /\ timers[1].target # now
  <2>1. Wake(now) = timers
    BY <1>1, <1>5 DEF Wake
  <2>2. timers[1].target > now
    BY <1>1, <1>2, <1>5 DEF Ahead
  <2>3. \A k \in DOMAIN timers : timers[k].target > now
    <3> SUFFICES ASSUME NEW k \in DOMAIN timers PROVE timers[k].target > now
      OBVIOUS
    <3>1. 1 \in DOMAIN timers /\ (k = 1 \/ timers[1].target < timers[k].target)
      BY <1>1 DEF Ahead
    <3> QED
      BY <1>1, <1>2, <2>2, <3>1
  <2> QED
    BY <1>1, <2>1, <2>3 DEF Ahead
<1> QED
  BY <1>3, <1>4, <1>5

LEMMA InitInv == Init => IInv
<1> SUFFICES ASSUME Init PROVE IInv
  OBVIOUS
<1>1. TypeOK
  BY TimerAssumption DEF Init, TypeOK
<1>2. TimersAhead
  BY DEF Init, TimersAhead
<1> QED
  BY <1>1, <1>2 DEF IInv

LEMMA NextInv == IInv /\ [Next]_vars => IInv'
<1> SUFFICES ASSUME IInv, [Next]_vars PROVE IInv'
  OBVIOUS
<1>1. SUFFICES /\ jiffies' \in 0 .. Width - 1
               /\ until' \in [Procs -> Nat \cup {Awake}]
               /\ timers' \in Seq(Timers)
               /\ Ahead(timers', jiffies')
  BY <1>1 DEF IInv, TypeOK, TimersAhead, Ahead, Timers
<1>2. /\ jiffies \in 0 .. Width - 1 /\ jiffies \in Nat
      /\ until \in [Procs -> Nat \cup {Awake}]
      /\ timers \in Seq(Timers) /\ Ahead(timers, jiffies)
  BY TimerAssumption DEF IInv, TypeOK, TimersAhead, Ahead, Timers
<1>3. CASE Tick
  <2>1. jiffies' \in 0 .. Width - 1 /\ (jiffies' = jiffies + 1 \/ jiffies' = 0)
    BY <1>2, <1>3, TimerAssumption DEF Tick
  <2>2. timers' = Wake(jiffies')
    BY <1>3 DEF Tick
  <2>3. Wake(jiffies') \in Seq(Timers) /\ Ahead(Wake(jiffies'), jiffies')
    BY <2>1, WakeAhead
  <2> QED
    BY <1>2, <1>3, <2>1, <2>2, <2>3 DEF Tick
<1>4. ASSUME NEW p \in Procs, NEW s \in Seconds, SleepUntil(p, s)
      PROVE  jiffies' = jiffies /\ until' = until /\ timers' \in Seq(Timers) /\ Ahead(timers', jiffies)
  BY <1>4, SleepAhead, TimerAssumption DEF SleepUntil
<1>5. ASSUME NEW p \in Procs, NEW s \in Seconds, SleepFor(p, s)
      PROVE  /\ jiffies' = jiffies /\ timers' = timers
             /\ until' \in [Procs -> Nat \cup {Awake}]
  <2>1. jiffies \div hz + s \in Nat
    BY <1>2, SecondType, TimerAssumption
  <2> QED
    BY <1>2, <1>5, <2>1 DEF SleepFor
<1>6. ASSUME NEW p \in Procs, SleepForUntil(p)
      PROVE  /\ jiffies' = jiffies /\ timers' \in Seq(Timers) /\ Ahead(timers', jiffies)
             /\ until' \in [Procs -> Nat \cup {Awake}]
  <2>1. until[p] \in Nat
    BY <1>2, <1>6 DEF SleepForUntil
  <2>2. timers' \in Seq(Timers) /\ Ahead(timers', jiffies)
    BY <1>6, <2>1, SleepAhead DEF SleepForUntil
  <2> QED
    BY <1>2, <1>6, <2>2 DEF SleepForUntil
<1>7. CASE UNCHANGED vars
  BY <1>2, <1>7 DEF vars
<1> QED
  BY <1>2, <1>3, <1>4, <1>5, <1>6, <1>7 DEF Next

\* Type correctness: jiffies and every target stay within the 32 bits of the code, and a
\* Timer in the list has a queue of processes (process.cc, pit.cc).
THEOREM TypeCorrect == Spec => []TypeOK
<1>1. IInv => TypeOK
  BY DEF IInv
<1> QED
  BY <1>1, InitInv, NextInv, PTL DEF Spec

\* However many processes sleep, whatever they ask for, and wherever the counter
\* overflows, the list ascends and nothing in it is due or overdue: tick() may look at
\* the head alone and compare with = (process.cc:399-408).
THEOREM ListAhead == Spec => []TimersAhead
<1>1. IInv => TimersAhead
  BY DEF IInv
<1> QED
  BY <1>1, InitInv, NextInv, PTL DEF Spec

-----------------------------------------------------------------------------
(* The list as an alarm clock *)

\* p sleeps until t.
Has(list, p, t) == \E i \in DOMAIN list : list[i].target = t /\ Contains(list[i].waiting, p)

\* A process sleeps once, and not while it computes a target in sleepFor.
SleepersInv ==
  \A p \in Procs :
    /\ until[p] # Awake => ~Sleeping(p)
    /\ \A t, u : Has(timers, p, t) /\ Has(timers, p, u) => t = u

LEMMA SleepingIs == \A p : Sleeping(p) <=> \E t : Has(timers, p, t)
BY DEF Sleeping, InTimer, Has

\* What an alarm is, without CHOOSE.
AlarmsAre ==
  \A p \in Procs : /\ Alarm(p) # Awake <=> Sleeping(p)
                   /\ \A t : Has(timers, p, t) <=> t # Awake /\ t = Alarm(p)

LEMMA AlarmIs == IInv /\ SleepersInv => AlarmsAre
<1> SUFFICES ASSUME IInv, SleepersInv, NEW p \in Procs
             PROVE  /\ Alarm(p) # Awake <=> Sleeping(p)
                    /\ \A t : Has(timers, p, t) <=> t # Awake /\ t = Alarm(p)
  BY DEF AlarmsAre
<1>1. \A t : Has(timers, p, t) => t # Awake
  <2>1. timers \in Seq(Timers)
    BY DEF IInv, TypeOK, Timers
  <2>2. \A k \in DOMAIN timers : timers[k] \in Timers
    BY <2>1
  <2> QED
    BY <2>2, TimerAssumption DEF Has, Timers
<1>2. CASE Sleeping(p)
  <2>1. Alarm(p) = timers[CHOOSE i \in InTimer(p) : TRUE].target
    BY <1>2 DEF Alarm
  <2>2. (CHOOSE i \in InTimer(p) : TRUE) \in InTimer(p)
    BY <1>2 DEF Sleeping
  <2>3. Has(timers, p, Alarm(p))
    BY <2>1, <2>2 DEF Has, InTimer
  <2> QED
    BY <1>1, <1>2, <2>3 DEF SleepersInv
<1>3. CASE ~Sleeping(p)
  BY <1>1, <1>3, SleepingIs DEF Alarm
<1> QED
  BY <1>2, <1>3

LEMMA ContainsAppended ==
  ASSUME NEW s \in Seq(Procs), NEW p \in Procs, NEW q
  PROVE  Contains(Append(s, p), q) <=> Contains(s, q) \/ q = p
<1> DEFINE a == Append(s, p)
<1>1. /\ Len(s) \in Nat /\ Len(a) = Len(s) + 1 /\ a[Len(s) + 1] = p
      /\ \A i \in 1 .. Len(s) : a[i] = s[i]
  OBVIOUS
<1> HIDE DEF a
<1>2. \A i \in 1 .. Len(a) : i \in 1 .. Len(s) \/ i = Len(s) + 1
  BY <1>1
<1>3. \A i \in 1 .. Len(s) : i \in 1 .. Len(a)
  BY <1>1
<1>4. Len(s) + 1 \in 1 .. Len(a)
  BY <1>1
<1>5. Contains(a, q) <=> Contains(s, q) \/ q = p
  BY <1>1, <1>2, <1>3, <1>4 DEF Contains
<1> QED
  BY <1>5 DEF a

LEMMA ContainsSingle == \A p, q : Contains(<<p>>, q) <=> q = p
BY DEF Contains

\* sleepUntil gives the caller an alarm unless it has passed, and nobody else.
LEMMA SleepAlarm ==
  ASSUME IInv, NEW p \in Procs, NEW second \in Nat, Sleep(p, second)
  PROVE  /\ Target(second) \in 0 .. Width - 1
         /\ Target(second) <= jiffies => timers' = timers
         /\ Target(second) > jiffies =>
              \A q, t : Has(timers', q, t) <=> Has(timers, q, t) \/ (q = p /\ t = Target(second))
<1> DEFINE target == Target(second)
           i == Place(target)
           timer == [target |-> target, waiting |-> <<p>>]
<1>1. timers \in Seq(Timers) /\ Ahead(timers, jiffies) /\ jiffies \in Nat /\ Width \in Nat
  BY TimerAssumption DEF IInv, TypeOK, TimersAhead, Ahead, Timers
<1>2. target \in 0 .. Width - 1 /\ target \in Nat
  BY TargetType, TimerAssumption
<1>3. i \in 1 .. Len(timers) + 1
  BY <1>1, <1>2, PlaceSplits
<1>4. \A k \in DOMAIN timers : timers[k] \in Timers /\ timers[k].waiting \in Seq(Procs)
  <2>1. \A k \in DOMAIN timers : timers[k] \in Timers
    BY <1>1
  <2> QED
    BY <2>1 DEF Timers
<1>5. timers' = IF target <= jiffies THEN timers
                ELSE IF i \in DOMAIN timers /\ timers[i].target = target
                  THEN [timers EXCEPT ![i].waiting = Append(@, p)]
                ELSE InsertAt(timers, i, timer)
  BY DEF Sleep
<1> HIDE DEF target, i
<1>6. CASE target <= jiffies
  BY <1>1, <1>2, <1>5, <1>6 DEF target
<1>7. CASE target > jiffies /\ i \in DOMAIN timers /\ timers[i].target = target
  <2>1. timers' = [timers EXCEPT ![i].waiting = Append(@, p)]
    BY <1>1, <1>2, <1>5, <1>7
  <2>2. \A k \in DOMAIN timers : /\ timers'[k].target = timers[k].target
                                 /\ k # i => timers'[k] = timers[k]
    BY <1>1, <1>4, <1>7, <2>1 DEF Timers
  <2>3. timers'[i].waiting = Append(timers[i].waiting, p) /\ DOMAIN timers' = DOMAIN timers
    BY <1>1, <1>4, <1>7, <2>1 DEF Timers
  <2>4. \A q : Contains(timers'[i].waiting, q) <=> Contains(timers[i].waiting, q) \/ q = p
    BY <1>4, <1>7, <2>3, ContainsAppended
  <2>5. \A q, t : Has(timers', q, t) <=> Has(timers, q, t) \/ (q = p /\ t = target)
    BY <1>7, <2>2, <2>3, <2>4 DEF Has
  <2> QED
    BY <1>1, <1>2, <1>7, <2>5 DEF target
<1>8. CASE target > jiffies /\ ~(i \in DOMAIN timers /\ timers[i].target = target)
  <2>1. timer \in Timers /\ timer.target = target /\ \A q : Contains(timer.waiting, q) <=> q = p
    BY <1>2, ContainsSingle DEF Timers
  <2>2. timers' = InsertAt(timers, i, timer)
    BY <1>1, <1>2, <1>5, <1>8
  <2> HIDE DEF timer
  <2>3. /\ Len(timers') = Len(timers) + 1 /\ timers' \in Seq(Timers)
        /\ \A k \in 1 .. Len(timers) + 1 :
             timers'[k] = IF k < i THEN timers[k] ELSE IF k = i THEN timer ELSE timers[k - 1]
    <3> DEFINE longer == InsertAt(timers, i, timer)
    <3>1. timers \in Seq(Timers) /\ timer \in Timers /\ i \in 1 .. Len(timers) + 1
      BY <1>1, <1>3, <2>1
    <3>2. /\ longer \in Seq(Timers) /\ Len(longer) = Len(timers) + 1
          /\ \A k \in 1 .. Len(timers) + 1 :
               longer[k] = IF k < i THEN timers[k] ELSE IF k = i THEN timer ELSE timers[k - 1]
      BY <3>1, Inserted, SMTT(30)
    <3> HIDE DEF longer
    <3>3. timers' = longer
      BY <2>2 DEF longer
    <3> QED
      BY <3>2, <3>3
  <2>4. ASSUME NEW q, NEW t
        PROVE  Has(timers', q, t) <=> Has(timers, q, t) \/ (q = p /\ t = target)
    <3>1. ASSUME NEW k \in DOMAIN timers', timers'[k].target = t, Contains(timers'[k].waiting, q)
          PROVE  Has(timers, q, t) \/ (q = p /\ t = target)
      <4>1. k \in 1 .. Len(timers) + 1
        BY <2>3
      <4>2. CASE k = i
        BY <2>1, <2>3, <3>1, <4>1, <4>2
      <4>3. CASE k < i
        <5>1. timers'[k] = timers[k] /\ k \in DOMAIN timers
          BY <1>1, <1>3, <2>3, <4>1, <4>3
        <5> QED
          BY <3>1, <5>1 DEF Has
      <4>4. CASE k > i
        <5>1. timers'[k] = timers[k - 1] /\ k - 1 \in DOMAIN timers
          BY <1>1, <1>3, <2>3, <4>1, <4>4
        <5> QED
          BY <3>1, <5>1 DEF Has
      <4> QED
        BY <1>3, <4>1, <4>2, <4>3, <4>4
    <3>2. ASSUME NEW k \in DOMAIN timers, timers[k].target = t, Contains(timers[k].waiting, q)
          PROVE  Has(timers', q, t)
      <4>1. CASE k < i
        <5>1. timers'[k] = timers[k] /\ k \in DOMAIN timers'
          BY <1>1, <1>3, <2>3, <4>1
        <5> QED
          BY <3>2, <5>1 DEF Has
      <4>2. CASE k >= i
        <5>1. timers'[k + 1] = timers[k] /\ k + 1 \in DOMAIN timers'
          BY <1>1, <1>3, <2>3, <4>2
        <5> QED
          BY <3>2, <5>1 DEF Has
      <4> QED
        BY <1>1, <1>3, <4>1, <4>2
    <3>3. timers'[i] = timer /\ i \in DOMAIN timers'
      BY <1>1, <1>3, <2>3
    <3>4. q = p /\ t = target => Has(timers', q, t)
      BY <2>1, <3>3 DEF Has
    <3> QED
      BY <3>1, <3>2, <3>4 DEF Has
  <2> QED
    BY <1>1, <1>2, <1>8, <2>4 DEF target
<1> QED
  BY <1>1, <1>2, <1>6, <1>7, <1>8

\* tick ends the alarms of this moment, of which the head of the list has all.
LEMMA WakeAlarm ==
  ASSUME IInv, NEW now \in 0 .. Width - 1, now = jiffies + 1 \/ now = 0
  PROVE  \A q, t : Has(Wake(now), q, t) <=> Has(timers, q, t) /\ t # now
<1>1. timers \in Seq(Timers) /\ Ahead(timers, jiffies) /\ jiffies \in 0 .. Width - 1 /\ Width \in Nat
  BY TimerAssumption DEF IInv, TypeOK, TimersAhead, Ahead, Timers
<1>2. \A k \in DOMAIN timers : timers[k].target \in 0 .. Width - 1
  <2>1. \A k \in DOMAIN timers : timers[k] \in Timers
    BY <1>1
  <2> QED
    BY <2>1 DEF Timers
<1>3. Ahead(Wake(now), now)
  BY WakeAhead
<1>4. CASE Wake(now) = timers
  <2>1. \A k \in DOMAIN timers : timers[k].target # now
    BY <1>1, <1>2, <1>3, <1>4 DEF Ahead
  <2> QED
    BY <1>4, <2>1 DEF Has
<1>5. CASE timers # <<>> /\ timers[1].target = now /\ Wake(now) = Tail(timers)
  <2>1. /\ DOMAIN Tail(timers) = 1 .. Len(timers) - 1
        /\ \A k \in 1 .. Len(timers) - 1 : Tail(timers)[k] = timers[k + 1]
    BY <1>1, <1>5
  <2>2. \A k \in DOMAIN timers : k # 1 => timers[k].target # now
    BY <1>1, <1>2, <1>5 DEF Ahead
  <2>3. ASSUME NEW q, NEW t PROVE Has(Tail(timers), q, t) <=> Has(timers, q, t) /\ t # now
    <3>1. ASSUME NEW k \in DOMAIN Tail(timers), Tail(timers)[k].target = t,
                 Contains(Tail(timers)[k].waiting, q)
          PROVE  Has(timers, q, t) /\ t # now
      <4>1. k + 1 \in DOMAIN timers /\ k + 1 # 1 /\ Tail(timers)[k] = timers[k + 1]
        BY <1>1, <2>1
      <4> QED
        BY <2>2, <3>1, <4>1 DEF Has
    <3>2. ASSUME NEW k \in DOMAIN timers, timers[k].target = t, Contains(timers[k].waiting, q), t # now
          PROVE  Has(Tail(timers), q, t)
      <4>1. k - 1 \in DOMAIN Tail(timers) /\ Tail(timers)[k - 1] = timers[k]
        BY <1>1, <1>5, <2>1, <3>2
      <4> QED
        BY <3>2, <4>1 DEF Has
    <3> QED
      BY <3>1, <3>2 DEF Has
  <2> QED
    BY <1>5, <2>3
<1> QED
  BY <1>4, <1>5 DEF Wake

\* The counter goes up by one or overflows.
LEMMA TickValue ==
  ASSUME IInv, Tick
  PROVE  /\ jiffies' \in 0 .. Width - 1 /\ (jiffies' = jiffies + 1 \/ jiffies' = 0)
         /\ jiffies' = (jiffies + 1) % Width
<1>1. jiffies \in 0 .. Width - 1 /\ jiffies \in Nat
  BY TimerAssumption DEF IInv, TypeOK
<1> QED
  BY <1>1, TimerAssumption DEF Tick

LEMMA InitSleepers == Init => SleepersInv
BY DEF Init, SleepersInv, Has, Sleeping, InTimer

\* Who calls sleepUntil does not sleep, so that it has one alarm afterwards.
LEMMA SleepOnce ==
  ASSUME IInv, SleepersInv, NEW p \in Procs, NEW second \in Nat, ~Sleeping(p), Sleep(p, second)
  PROVE  /\ \A q \in Procs : \A t, u : Has(timers', q, t) /\ Has(timers', q, u) => t = u
         /\ \A q \in Procs \ {p} : Sleeping(q)' <=> Sleeping(q)
<1>1. \A t : ~Has(timers, p, t)
  BY SleepingIs
<1>2. \A q \in Procs : Sleeping(q)' <=> \E t : Has(timers', q, t)
  BY DEF Sleeping, InTimer, Has
<1>3. timers' = timers \/ \A q, t : Has(timers', q, t) <=> Has(timers, q, t) \/ (q = p /\ t = Target(second))
  <2>1. Target(second) <= jiffies \/ Target(second) > jiffies
    BY SleepAlarm, TimerAssumption DEF IInv, TypeOK
  <2> QED
    BY <2>1, SleepAlarm
<1> QED
  BY <1>1, <1>2, <1>3, SleepingIs DEF SleepersInv

LEMMA NextSleepers == IInv /\ SleepersInv /\ [Next]_vars => SleepersInv'
<1> SUFFICES ASSUME IInv, SleepersInv, [Next]_vars PROVE SleepersInv'
  OBVIOUS
<1>1. \A q \in Procs : Sleeping(q)' <=> \E t : Has(timers', q, t)
  BY DEF Sleeping, InTimer, Has
<1>2. CASE Tick
  <2>1. jiffies' \in 0 .. Width - 1 /\ (jiffies' = jiffies + 1 \/ jiffies' = 0)
    BY <1>2, TickValue
  <2>2. \A q, t : Has(timers', q, t) => Has(timers, q, t)
    BY <1>2, <2>1, WakeAlarm DEF Tick
  <2> QED
    BY <1>1, <1>2, <2>2, SleepingIs DEF Tick, SleepersInv
<1>3. ASSUME NEW p \in Procs, NEW s \in Seconds, SleepUntil(p, s) PROVE SleepersInv'
  BY <1>3, SleepOnce, TimerAssumption DEF SleepUntil, SleepersInv
<1>4. ASSUME NEW p \in Procs, NEW s \in Seconds, SleepFor(p, s) PROVE SleepersInv'
  <2>1. timers' = timers /\ \A q \in Procs \ {p} : until'[q] = until[q]
    BY <1>4 DEF SleepFor, IInv, TypeOK
  <2>2. ~Sleeping(p)
    BY <1>4 DEF SleepFor
  <2> QED
    BY <1>1, <2>1, <2>2, SleepingIs DEF SleepersInv
<1>5. ASSUME NEW p \in Procs, SleepForUntil(p) PROVE SleepersInv'
  <2>1. until[p] \in Nat /\ ~Sleeping(p)
    BY <1>5 DEF SleepForUntil, IInv, TypeOK, SleepersInv
  <2>2. until'[p] = Awake /\ \A q \in Procs \ {p} : until'[q] = until[q]
    BY <1>5 DEF SleepForUntil, IInv, TypeOK
  <2> QED
    BY <1>5, <2>1, <2>2, SleepOnce DEF SleepForUntil, SleepersInv
<1>6. CASE UNCHANGED vars
  BY <1>1, <1>6, SleepingIs DEF vars, SleepersInv
<1> QED
  BY <1>2, <1>3, <1>4, <1>5, <1>6 DEF Next

LEMMA ClockInitially == Init => Clock!AlarmInit
BY DEF Init, Clock!AlarmInit, Alarm, Sleeping, InTimer

\* sleepUntil sets an alarm, or does nothing when the target has passed.
LEMMA ClockSleep ==
  ASSUME IInv, SleepersInv, AlarmsAre, AlarmsAre', jiffies' = jiffies,
         NEW p \in Procs, NEW second \in Nat, ~Sleeping(p), Sleep(p, second)
  PROVE  \/ [q \in Procs |-> Alarm(q)]' = [q \in Procs |-> Alarm(q)]
         \/ \E t \in 0 .. Width - 1 : Clock!SetAlarm(p, t)
<1> DEFINE target == Target(second)
<1>1. target \in 0 .. Width - 1 /\ jiffies \in 0 .. Width - 1 /\ Width \in Nat
  BY SleepAlarm, TimerAssumption DEF IInv, TypeOK
<1>2. CASE target <= jiffies
  <2>1. timers' = timers
    BY <1>2, SleepAlarm
  <2>2. \A q \in Procs : Alarm(q)' = Alarm(q)
    BY <2>1 DEF Alarm, Sleeping, InTimer
  <2> QED
    BY <2>2
<1>3. CASE target > jiffies
  <2>1. \A q, t : Has(timers', q, t) <=> Has(timers, q, t) \/ (q = p /\ t = target)
    BY <1>3, SleepAlarm
  <2>2. Alarm(p) = Awake
    BY DEF AlarmsAre
  <2>3. Alarm(p)' = target
    <3>1. Has(timers', p, target)
      BY <2>1
    <3> QED
      BY <3>1 DEF AlarmsAre
  <2>4. ASSUME NEW q \in Procs \ {p} PROVE Alarm(q)' = Alarm(q)
    <3>1. \A t : Has(timers', q, t) <=> Has(timers, q, t)
      BY <2>1
    <3> QED
      BY <3>1 DEF AlarmsAre
  <2>5. [q \in Procs |-> Alarm(q)]' = [[q \in Procs |-> Alarm(q)] EXCEPT ![p] = target]
    BY <2>3, <2>4
  <2>6. Clock!SetAlarm(p, target)
    BY <1>3, <2>2, <2>5 DEF Clock!SetAlarm
  <2> QED
    BY <1>1, <2>6
<1> QED
  BY <1>1, <1>2, <1>3

LEMMA ClockStep ==
  ASSUME IInv, SleepersInv, AlarmsAre, AlarmsAre', Next
  PROVE  [Clock!AlarmNext]_<<jiffies, [p \in Procs |-> Alarm(p)]>>
<1>1. CASE Tick
  <2>1. /\ jiffies' \in 0 .. Width - 1 /\ (jiffies' = jiffies + 1 \/ jiffies' = 0)
        /\ jiffies' = (jiffies + 1) % Width
    BY <1>1, TickValue
  <2>2. \A q, t : Has(timers', q, t) <=> Has(timers, q, t) /\ t # jiffies'
    BY <1>1, <2>1, WakeAlarm DEF Tick
  <2>3. ASSUME NEW q \in Procs PROVE Alarm(q)' = IF Alarm(q) = jiffies' THEN Awake ELSE Alarm(q)
    BY <2>2 DEF AlarmsAre
  <2>4. Clock!Advance
    BY <2>1, <2>3 DEF Clock!Advance
  <2> QED
    BY <2>4 DEF Clock!AlarmNext
<1>2. ASSUME NEW p \in Procs, NEW second \in Nat, ~Sleeping(p), Sleep(p, second), jiffies' = jiffies
      PROVE  [Clock!AlarmNext]_<<jiffies, [q \in Procs |-> Alarm(q)]>>
  BY <1>2, ClockSleep DEF Clock!AlarmNext
<1>3. ASSUME NEW p \in Procs, NEW s \in Seconds, SleepUntil(p, s)
      PROVE  [Clock!AlarmNext]_<<jiffies, [q \in Procs |-> Alarm(q)]>>
  BY <1>2, <1>3, TimerAssumption DEF SleepUntil
<1>4. ASSUME NEW p \in Procs, NEW s \in Seconds, SleepFor(p, s)
      PROVE  [Clock!AlarmNext]_<<jiffies, [q \in Procs |-> Alarm(q)]>>
  BY <1>4 DEF SleepFor, Alarm, Sleeping, InTimer
<1>5. ASSUME NEW p \in Procs, SleepForUntil(p)
      PROVE  [Clock!AlarmNext]_<<jiffies, [q \in Procs |-> Alarm(q)]>>
  <2>1. until[p] \in Nat /\ ~Sleeping(p)
    BY <1>5 DEF SleepForUntil, IInv, TypeOK, SleepersInv
  <2> QED
    BY <1>2, <1>5, <2>1 DEF SleepForUntil
<1> QED
  BY <1>1, <1>3, <1>4, <1>5 DEF Next

\* sleepUntil, sleepFor and tick take every step that an alarm clock may take, and no
\* other: the safety part of IsAlarmClock. (That the clock goes on is left to TLC.)
THEOREM NobodyOversleeps ==
  Spec => Clock!AlarmInit /\ [][Clock!AlarmNext]_<<jiffies, [p \in Procs |-> Alarm(p)]>>
<1>1. Init => IInv /\ SleepersInv /\ Clock!AlarmInit
  BY InitInv, InitSleepers, ClockInitially
<1>2. IInv /\ SleepersInv /\ [Next]_vars => IInv' /\ SleepersInv'
  BY NextInv, NextSleepers
<1>3. IInv /\ SleepersInv => AlarmsAre
  BY AlarmIs
<1>4. IInv /\ SleepersInv /\ AlarmsAre /\ AlarmsAre' /\ [Next]_vars
        => [Clock!AlarmNext]_<<jiffies, [p \in Procs |-> Alarm(p)]>>
  <2>1. CASE UNCHANGED vars
    BY <2>1 DEF vars, Alarm, Sleeping, InTimer
  <2> QED
    BY <2>1, ClockStep
<1> QED
  BY <1>1, <1>2, <1>3, <1>4, PTL DEF Spec
=============================================================================
