--------------------------- MODULE ProcessProofs ---------------------------
(***************************************************************************)
(* Theorems about Process for any number of processes, mutexes and         *)
(* semaphores: interrupts and kills first, then the queues and the         *)
(* reference counts, which say where a process waits and who keeps its     *)
(* object alive; last the semaphores: mutexes, also as an implementation   *)
(* of FifoLock, and the event that join waits for.                         *)
(***************************************************************************)
EXTENDS ProcessLock, FiniteSetTheorems, TLAPS

Exiting == {"kill", "exit", "closing", "signal", "terminate", "gone"}

\* Where a process is tells what it works on, and a killed process is on its way
\* out.
LocationInv ==
  \A p \in Procs :
    /\ at[p] = "crit" => obj[p] \in Mutexes
    /\ at[p] \in {"forkOpen", "forkInsert", "forkStart", "joinUp", "closeSlot", "emptySlot"}
         => obj[p] \in Procs
    /\ isKilled[p] => at[p] \in Exiting

\* A disable count of 0 leaves no interrupt level open.
DepthInv == \A p \in Procs : disableCount[p] = 0 => iDepth[p] = 0 /\ frame[p] = "none"

IInv == TypeOK /\ InterruptDiscipline /\ LocationInv /\ DepthInv

-----------------------------------------------------------------------------
(* What the operators that the actions share leave behind                  *)

\* The semaphores inside a process object are semaphores.
LEMMA OwnSems == \A p \in Procs : DoneEvent(p) \in Sems /\ TableMutex(p) \in Sems
BY DEF DoneEvent, TableMutex, Sems

\* makeReady adds a process to a queue of processes.
LEMMA EnqueuedType ==
  ASSUME NEW p \in Procs, NEW queue \in Seq(Procs)
  PROVE  Enqueued(p, queue) \in Seq(Procs)
BY DEF Enqueued

\* A context switch leaves a process on the CPU, with the flag its count asks for.
LEMMA SwitchFromType ==
  ASSUME NEW queue \in Seq(Procs), NEW status \in [Procs -> States],
         disableCount' \in [Procs -> Nat], SwitchFrom(queue, status)
  PROVE  /\ readyQueue' \in Seq(Procs)
         /\ state' \in [Procs -> States]
         /\ current' \in Procs
         /\ iflag' = (disableCount'[current'] = 0)
<1> DEFINE next == IF queue = <<>> THEN Idle ELSE Head(queue)
<1>1. next \in Procs
  BY ProcsAssumption
<1>2. (IF queue = <<>> THEN queue ELSE Tail(queue)) \in Seq(Procs)
  OBVIOUS
<1>3. /\ readyQueue' = IF queue = <<>> THEN queue ELSE Tail(queue)
      /\ state' = [status EXCEPT ![next] = "RUNNING"]
      /\ current' = next
      /\ iflag' = (disableCount'[next] = 0)
  BY DEF SwitchFrom
<1>4. "RUNNING" \in States
  BY DEF States
<1> HIDE DEF next
<1> QED
  BY <1>1, <1>2, <1>3, <1>4

\* up() leaves well-typed semaphores and queues.
LEMMA ReleaseType ==
  ASSUME TypeOK, NEW p \in Procs, NEW s \in Sems, Release(p, s)
  PROVE  /\ readyQueue' \in Seq(Procs)
         /\ count' \in [Sems -> Nat]
         /\ waiting' \in [Sems -> Seq(Procs)]
         /\ iflag' = (disableCount[p] = 0)
<1>1. readyQueue \in Seq(Procs) /\ count \in [Sems -> Nat]
      /\ waiting \in [Sems -> Seq(Procs)] /\ waiting[s] \in Seq(Procs)
  BY DEF TypeOK
<1>2. CASE waiting[s] = <<>>
  BY <1>1, <1>2 DEF Release, Enable
<1>3. CASE waiting[s] # <<>>
  <2>1. Head(waiting[s]) \in Procs /\ Tail(waiting[s]) \in Seq(Procs)
    BY <1>1, <1>3
  <2>2. Enqueued(Head(waiting[s]), readyQueue) \in Seq(Procs)
    BY <1>1, <2>1, EnqueuedType
  <2> QED
    BY <1>1, <1>3, <2>1, <2>2 DEF Release, Enable
<1> QED
  BY <1>2, <1>3

\* ... and a status for every process.
LEMMA WokenType ==
  ASSUME TypeOK, NEW s \in Sems
  PROVE  Woken(s) \in [Procs -> States]
<1>1. state \in [Procs -> States] /\ waiting[s] \in Seq(Procs) /\ "READY" \in States
  BY DEF TypeOK, States
<1> QED
  BY <1>1 DEF Woken

\* So does dropping references.
LEMMA UnrefType ==
  ASSUME TypeOK, NEW S, NEW status \in [Procs -> States], Unref(S, status)
  PROVE  refs' \in [Procs -> Int] /\ state' \in [Procs -> States]
<1>1. refs \in [Procs -> Int] /\ "FREE" \in States
  BY DEF TypeOK, States
<1> QED
  BY <1>1 DEF Unref

\* An operation that keeps the CPU keeps the discipline.
LEMMA CpuKept ==
  ASSUME IInv, NEW p \in Procs, Running(p),
         UNCHANGED <<current, disableCount, frame, iDepth, panicked>>,
         iflag' = (disableCount[p] = 0),
         \A q \in Procs : (at[q] = "gone" => at'[q] = "gone")
                          /\ (isKilled[q] => isKilled'[q])
  PROVE  InterruptDiscipline' /\ DepthInv'
<1>1. current = p /\ ~panicked /\ p # None
  BY ProcsAssumption DEF Running
<1> QED
  BY <1>1 DEF IInv, InterruptDiscipline, DepthInv

\* yield() called by the process on the CPU, with d the count that is right for the
\* reason it yields.
LEMMA PreemptInv ==
  ASSUME IInv, NEW p \in Procs, NEW why \in {"irq", "yield"}, NEW d \in Nat,
         current = p, frame[p] = "none", ~panicked, ~panicked',
         disableCount[p] = 0,
         Preempt(p, why, d),
         why = "irq" => d = 2 /\ iDepth' = [iDepth EXCEPT ![p] = @ + 1],
         why = "yield" => d = 1 /\ iDepth' = iDepth,
         UNCHANGED <<at, isKilled>>
  PROVE  /\ readyQueue' \in Seq(Procs)
         /\ state' \in [Procs -> States]
         /\ current' \in Procs
         /\ iflag' \in BOOLEAN
         /\ disableCount' \in [Procs -> Nat]
         /\ iDepth' \in [Procs -> Nat]
         /\ frame' \in [Procs -> Frames]
         /\ InterruptDiscipline'
         /\ DepthInv'
<1>1. /\ disableCount' = [disableCount EXCEPT ![p] = d]
      /\ frame' = [frame EXCEPT ![p] = why]
      /\ SwitchFrom(Enqueued(p, readyQueue), [state EXCEPT ![p] = "READY"])
  BY DEF Preempt
<1>2. /\ disableCount \in [Procs -> Nat] /\ frame \in [Procs -> Frames]
      /\ iDepth \in [Procs -> Nat] /\ iDepth[p] = 0
      /\ state \in [Procs -> States] /\ readyQueue \in Seq(Procs)
  BY DEF IInv, TypeOK, DepthInv
<1>3. /\ disableCount' \in [Procs -> Nat] /\ frame' \in [Procs -> Frames]
      /\ iDepth' \in [Procs -> Nat]
  <2>1. why \in Frames
    BY DEF Frames
  <2>2. disableCount' \in [Procs -> Nat] /\ frame' \in [Procs -> Frames]
    BY <1>1, <1>2, <2>1
  <2>3. [iDepth EXCEPT ![p] = @ + 1] \in [Procs -> Nat]
    BY <1>2
  <2>4. iDepth' \in [Procs -> Nat]
    BY <1>2, <2>3
  <2> QED
    BY <2>2, <2>4
<1>4. Enqueued(p, readyQueue) \in Seq(Procs)
  BY <1>2, EnqueuedType
<1>5. [state EXCEPT ![p] = "READY"] \in [Procs -> States]
  BY <1>2 DEF States
<1>6. /\ readyQueue' \in Seq(Procs)
      /\ state' \in [Procs -> States]
      /\ current' \in Procs
      /\ iflag' = (disableCount'[current'] = 0)
  BY <1>1, <1>3, <1>4, <1>5, SwitchFromType
<1>7. current' # None
  BY <1>6, ProcsAssumption
<1>8. InterruptDiscipline'
  <2>1. CASE why = "irq"
    <3>1. d = 2 /\ iDepth' = [iDepth EXCEPT ![p] = @ + 1]
      BY <2>1
    <3>2. frame'[p] = "irq" /\ disableCount'[p] = 2 /\ iDepth'[p] = 1
      BY <1>1, <1>2, <2>1, <3>1
    <3>3. \A q \in Procs \ {p} : /\ frame'[q] = frame[q] /\ iDepth'[q] = iDepth[q]
                                  /\ disableCount'[q] = disableCount[q]
      BY <1>1, <1>2, <3>1
    <3> QED
      BY <1>6, <1>7, <3>2, <3>3, ZenonT(60) DEF IInv, InterruptDiscipline
  <2>2. CASE why = "yield"
    BY <1>1, <1>2, <1>6, <1>7, <2>2 DEF IInv, InterruptDiscipline
  <2> QED
    BY <2>1, <2>2
<1>9. DepthInv'
  <2>1. disableCount'[p] # 0 /\ \A q \in Procs \ {p} : iDepth'[q] = iDepth[q]
    BY <1>1, <1>2
  <2> QED
    BY <1>1, <1>2, <2>1 DEF IInv, DepthInv
<1> QED
  BY <1>3, <1>6, <1>8, <1>9

\* down() by the running process, whether it gets the semaphore, blocks or panics.
LEMMA DownInv ==
  ASSUME IInv, NEW p \in Procs, NEW s \in Sems, NEW loc \in Locations \ {"gone"},
         Running(p), at[p] # "gone", Down(p, s, loc),
         obj' \in [Procs -> Procs \cup Mutexes \cup {None}]
  PROVE  TypeOK' /\ InterruptDiscipline' /\ DepthInv'
<1>1. /\ TypeOK /\ InterruptDiscipline /\ DepthInv
      /\ current = p /\ frame[p] = "none" /\ ~panicked /\ p # None
  BY ProcsAssumption DEF IInv, Running
<1>2. /\ at' = [at EXCEPT ![p] = loc]
      /\ UNCHANGED <<iDepth, isKilled, reaperQueue, reaping, handles, refs>>
  BY DEF Down
<1>3. CASE count[s] > 0
  <2>1. /\ count' = [count EXCEPT ![s] = @ - 1]
        /\ iflag' = (disableCount[p] = 0)
        /\ UNCHANGED <<current, readyQueue, state, disableCount, frame, waiting, panicked>>
    BY <1>3 DEF Down, Enable
  <2>2. count' \in [Sems -> Nat]
    BY <1>1, <1>3, <2>1 DEF TypeOK
  <2>3. TypeOK'
    BY <1>1, <1>2, <2>1, <2>2 DEF TypeOK
  <2>4. InterruptDiscipline' /\ DepthInv'
    BY <1>1, <1>2, <2>1, CpuKept DEF TypeOK
  <2> QED
    BY <2>3, <2>4
<1>4. CASE ~(count[s] > 0) /\ iDepth[p] = 0
  <2>1. /\ waiting' = [waiting EXCEPT ![s] = Append(@, p)]
        /\ disableCount' = [disableCount EXCEPT ![p] = @ + 2]
        /\ frame' = [frame EXCEPT ![p] = "block"]
        /\ SwitchFrom(readyQueue, [state EXCEPT ![p] = "BLOCKED"])
        /\ UNCHANGED <<count, panicked>>
    BY <1>4 DEF Down
  <2>2. /\ disableCount' \in [Procs -> Nat] /\ frame' \in [Procs -> Frames]
        /\ waiting' \in [Sems -> Seq(Procs)]
    BY <1>1, <2>1 DEF TypeOK, Frames
  <2>3. readyQueue \in Seq(Procs) /\ [state EXCEPT ![p] = "BLOCKED"] \in [Procs -> States]
    BY <1>1 DEF TypeOK, States
  <2>4. /\ readyQueue' \in Seq(Procs)
        /\ state' \in [Procs -> States]
        /\ current' \in Procs
        /\ iflag' = (disableCount'[current'] = 0)
    BY <2>1, <2>2, <2>3, SwitchFromType
  <2>5. TypeOK'
    BY <1>1, <1>2, <2>1, <2>2, <2>4 DEF TypeOK
  <2>6. current' # None
    BY <2>4, ProcsAssumption
  <2>7. InterruptDiscipline'
    BY <1>1, <1>2, <1>4, <2>1, <2>4, <2>6, SMTT(30) DEF TypeOK, InterruptDiscipline
  <2>8. DepthInv'
    BY <1>1, <1>2, <2>1 DEF TypeOK, DepthInv
  <2> QED
    BY <2>5, <2>7, <2>8
<1>5. CASE ~(count[s] > 0) /\ iDepth[p] # 0
  <2>1. /\ panicked' = TRUE
        /\ iflag' = FALSE
        /\ UNCHANGED <<current, readyQueue, state, disableCount, frame, sems>>
    BY <1>5 DEF Down
  <2>2. TypeOK'
    BY <1>1, <1>2, <2>1 DEF TypeOK, sems
  <2>3. InterruptDiscipline' /\ DepthInv'
    BY <1>1, <1>2, <2>1 DEF TypeOK, InterruptDiscipline, DepthInv
  <2> QED
    BY <2>2, <2>3
<1> QED
  BY <1>3, <1>4, <1>5

\* up() by the running process.
LEMMA UpInv ==
  ASSUME IInv, NEW p \in Procs, NEW s \in Sems, NEW loc \in Locations \ {"gone"},
         Running(p), at[p] # "gone", Up(p, s, loc),
         obj' \in [Procs -> Procs \cup Mutexes \cup {None}]
  PROVE  TypeOK' /\ InterruptDiscipline' /\ DepthInv'
<1>1. /\ at' = [at EXCEPT ![p] = loc]
      /\ Release(p, s) /\ state' = Woken(s)
      /\ UNCHANGED <<current, disableCount, frame, iDepth, isKilled, handles, refs,
                     reaperQueue, reaping, panicked>>
  BY DEF Up, objects
<1>2. TypeOK
  BY DEF IInv
<1>3. /\ readyQueue' \in Seq(Procs)
      /\ count' \in [Sems -> Nat]
      /\ waiting' \in [Sems -> Seq(Procs)]
      /\ iflag' = (disableCount[p] = 0)
      /\ state' \in [Procs -> States]
  BY <1>1, <1>2, ReleaseType, WokenType
<1>4. TypeOK'
  BY <1>1, <1>2, <1>3 DEF TypeOK
<1>5. InterruptDiscipline' /\ DepthInv'
  BY <1>1, <1>2, <1>3, CpuKept DEF TypeOK
<1> QED
  BY <1>4, <1>5

-----------------------------------------------------------------------------
(* The inductive invariant                                                 *)

LEMMA InitInv == Init => IInv
<1> SUFFICES ASSUME Init PROVE IInv
  OBVIOUS
<1>1. \A p \in Procs : /\ disableCount[p] = 0 /\ iDepth[p] = 0 /\ frame[p] = "none"
                       /\ at[p] = "entry" /\ ~isKilled[p]
  BY DEF Init
<1>2. current = None /\ iflag = FALSE /\ panicked = FALSE
  BY DEF Init
<1>3. <<Primordial>> \in Seq(Procs)
  BY ProcsAssumption
<1>4. state \in [Procs -> States] /\ refs \in [Procs -> Int]
  BY DEF Init, States
<1>5. count \in [Sems -> Nat]
  <2>1. \A s \in Sems : (CASE s \in UserSems -> InitialCount[s]
                           [] s \in {DoneEvent(p) : p \in Procs} -> 0
                           [] OTHER -> 1) \in Nat
    <3> SUFFICES ASSUME NEW s \in Sems
                 PROVE  (CASE s \in UserSems -> InitialCount[s]
                           [] s \in {DoneEvent(p) : p \in Procs} -> 0
                           [] OTHER -> 1) \in Nat
      OBVIOUS
    <3>1. CASE s \in UserSems
      <4>1. s \notin {DoneEvent(p) : p \in Procs}
        BY <3>1, SemsAssumption DEF DoneEvent
      <4>2. InitialCount[s] \in Nat
        BY <3>1, BoundsAssumption
      <4> QED
        BY <3>1, <4>1, <4>2
    <3>2. CASE s \notin UserSems
      BY <3>2
    <3> QED
      BY <3>1, <3>2
  <2> QED
    BY <2>1 DEF Init
<1>6. TypeOK
  <2>1. /\ frame \in [Procs -> Frames] /\ at \in [Procs -> Locations]
        /\ isKilled \in [Procs -> BOOLEAN]
    BY DEF Init, Frames, Locations
  <2>2. /\ obj \in [Procs -> Procs \cup Mutexes \cup {None}]
        /\ reaping \in [Procs -> Procs \cup {None}]
        /\ handles \in [Procs -> SUBSET Procs]
    BY DEF Init
  <2>3. /\ disableCount \in [Procs -> Nat] /\ iDepth \in [Procs -> Nat]
    BY DEF Init
  <2>4. <<>> \in Seq(Procs) /\ waiting \in [Sems -> Seq(Procs)]
    BY DEF Init
  <2>5. readyQueue \in Seq(Procs) /\ reaperQueue \in Seq(Procs)
    BY <1>3, <2>4 DEF Init
  <2> QED
    BY <1>2, <1>4, <1>5, <2>1, <2>2, <2>3, <2>4, <2>5 DEF TypeOK
<1>7. InterruptDiscipline
  BY <1>1, <1>2 DEF InterruptDiscipline
<1>8. LocationInv /\ DepthInv
  BY <1>1 DEF LocationInv, DepthInv
<1> QED
  BY <1>6, <1>7, <1>8 DEF IInv

\* The steps that only move a process on: what changes is at most the location of p
\* and the object it works on.
LEMMA LocationKept ==
  ASSUME IInv, NEW p \in Procs, NEW loc \in Locations, NEW o,
         at' = [at EXCEPT ![p] = loc], obj' = [obj EXCEPT ![p] = o],
         isKilled' = isKilled, isKilled[p] => loc \in Exiting,
         loc = "crit" => o \in Mutexes,
         loc \in {"forkOpen", "forkInsert", "forkStart", "joinUp", "closeSlot", "emptySlot"}
           => o \in Procs
  PROVE  LocationInv'
BY DEF IInv, TypeOK, LocationInv

\* Every step of the kernel keeps the invariant.
LEMMA NextInv == IInv /\ [Next]_vars => IInv'
<1> SUFFICES ASSUME IInv, [Next]_vars PROVE IInv'
  OBVIOUS
<1> USE DEF IInv
<1>0. TypeOK /\ InterruptDiscipline /\ LocationInv /\ DepthInv
  OBVIOUS
<1>1. CASE UNCHANGED vars
  BY <1>1 DEF vars, TypeOK, InterruptDiscipline, LocationInv, DepthInv
<1>2. CASE Boot
  <2>1. /\ current = None /\ ~panicked
        /\ UNCHANGED <<disableCount, frame, iDepth, isKilled, at, obj, count, waiting,
                       handles, refs, reaperQueue, reaping, panicked>>
        /\ SwitchFrom(readyQueue, state)
    BY <1>2 DEF Boot, sems, objects
  <2>2. /\ readyQueue' \in Seq(Procs) /\ state' \in [Procs -> States]
        /\ current' \in Procs /\ iflag' = (disableCount'[current'] = 0)
    BY <2>1, SwitchFromType DEF TypeOK
  <2>3. TypeOK'
    BY <2>1, <2>2 DEF TypeOK
  <2>4. InterruptDiscipline'
    BY <2>1, <2>2, ProcsAssumption DEF InterruptDiscipline
  <2>5. LocationInv' /\ DepthInv'
    BY <2>1 DEF LocationInv, DepthInv
  <2> QED
    BY <2>3, <2>4, <2>5
<1>3. CASE Interrupt
  <2> DEFINE p == current
  <2>1. /\ iflag /\ ~panicked
        /\ iDepth' = [iDepth EXCEPT ![p] = @ + 1]
        /\ Preempt(p, "irq", 2)
        /\ UNCHANGED <<isKilled, at, obj, count, waiting, handles, refs, reaperQueue,
                       reaping, panicked>>
    BY <1>3 DEF Interrupt, sems, objects
  <2>2. p \in Procs /\ disableCount[p] = 0 /\ frame[p] = "none"
    BY <2>1 DEF TypeOK, InterruptDiscipline, DepthInv
  <2> HIDE DEF p
  <2>3. current = p
    BY DEF p
  <2>4. /\ readyQueue' \in Seq(Procs) /\ state' \in [Procs -> States]
        /\ current' \in Procs /\ iflag' \in BOOLEAN
        /\ disableCount' \in [Procs -> Nat] /\ iDepth' \in [Procs -> Nat]
        /\ frame' \in [Procs -> Frames]
        /\ InterruptDiscipline' /\ DepthInv'
    BY <2>1, <2>2, <2>3, PreemptInv
  <2>5. TypeOK'
    BY <2>1, <2>4 DEF TypeOK
  <2>6. LocationInv'
    BY <2>1 DEF LocationInv
  <2> QED
    BY <2>4, <2>5, <2>6
<1>4. ASSUME NEW p \in Procs, Choice(p) \/ Continue(p)
      PROVE  IInv'
  <2>1. CASE Yield(p)
    <3>1. /\ Running(p) /\ at[p] \in {"run", "crit"}
          /\ Preempt(p, "yield", disableCount[p] + 1)
          /\ UNCHANGED <<iDepth, isKilled, at, obj, count, waiting, handles, refs,
                         reaperQueue, reaping, panicked>>
      BY <2>1 DEF Yield, sems, objects
    <3>2. current = p /\ frame[p] = "none" /\ ~panicked
      BY <3>1 DEF Running
    <3>3. disableCount[p] = 0
      BY <3>1, <3>2 DEF InterruptDiscipline, LocationInv, Exiting
    <3>4. /\ readyQueue' \in Seq(Procs) /\ state' \in [Procs -> States]
          /\ current' \in Procs /\ iflag' \in BOOLEAN
          /\ disableCount' \in [Procs -> Nat] /\ iDepth' \in [Procs -> Nat]
          /\ frame' \in [Procs -> Frames]
          /\ InterruptDiscipline' /\ DepthInv'
      BY <3>1, <3>2, <3>3, PreemptInv
    <3>5. TypeOK'
      BY <3>1, <3>4 DEF TypeOK
    <3>6. LocationInv'
      BY <3>1 DEF LocationInv
    <3> QED
      BY <3>4, <3>5, <3>6
  <2>2. ASSUME NEW s \in UserSems, UserDown(p, s) PROVE IInv'
    <3>1. /\ Running(p) /\ at[p] = "run"
          /\ Down(p, s, "run") /\ obj' = obj
      BY <2>2 DEF UserDown
    <3>2. s \in Sems
      BY DEF Sems
    <3>3. at' = [at EXCEPT ![p] = "run"] /\ isKilled' = isKilled
      BY <3>1 DEF Down
    <3>4. obj' \in [Procs -> Procs \cup Mutexes \cup {None}]
      BY <3>1, <3>2 DEF TypeOK
    <3>5. TypeOK' /\ InterruptDiscipline' /\ DepthInv'
      BY <3>1, <3>2, <3>4, DownInv DEF Locations
    <3>6. LocationInv'
      BY <3>1, <3>2, <3>3 DEF TypeOK, LocationInv, Exiting
    <3> QED
      BY <3>5, <3>6
  <2>3. ASSUME NEW s \in UserSems, UserUp(p, s) PROVE IInv'
    <3>1. /\ Running(p) /\ at[p] = "run"
          /\ Up(p, s, "run") /\ obj' = obj
      BY <2>3 DEF UserUp
    <3>2. s \in Sems
      BY DEF Sems
    <3>3. at' = [at EXCEPT ![p] = "run"] /\ isKilled' = isKilled
      BY <3>1 DEF Up
    <3>4. obj' \in [Procs -> Procs \cup Mutexes \cup {None}]
      BY <3>1 DEF TypeOK
    <3>5. TypeOK' /\ InterruptDiscipline' /\ DepthInv'
      BY <3>1, <3>2, <3>4, UpInv DEF Locations
    <3>6. LocationInv'
      BY <3>1, <3>3 DEF TypeOK, LocationInv, Exiting
    <3> QED
      BY <3>5, <3>6
  <2>4. ASSUME NEW m \in Mutexes, Lock(p, m) PROVE IInv'
    <3>1. /\ Running(p) /\ at[p] = "run"
          /\ Down(p, m, "crit") /\ obj' = [obj EXCEPT ![p] = m]
      BY <2>4 DEF Lock
    <3>2. m \in Sems
      BY DEF Sems
    <3>3. at' = [at EXCEPT ![p] = "crit"] /\ isKilled' = isKilled
      BY <3>1 DEF Down
    <3>4. obj' \in [Procs -> Procs \cup Mutexes \cup {None}]
      BY <3>1, <3>2 DEF TypeOK
    <3>5. TypeOK' /\ InterruptDiscipline' /\ DepthInv'
      BY <3>1, <3>2, <3>4, DownInv DEF Locations
    <3>6. LocationInv'
      BY <3>1, <3>2, <3>3 DEF TypeOK, LocationInv, Exiting
    <3> QED
      BY <3>5, <3>6
  <2>5. CASE Unlock(p)
    <3>1. /\ Running(p) /\ at[p] = "crit"
          /\ Up(p, obj[p], "run") /\ obj' = [obj EXCEPT ![p] = None]
      BY <2>5 DEF Unlock
    <3>2. obj[p] \in Sems
      BY <3>1 DEF LocationInv, Sems
    <3>3. at' = [at EXCEPT ![p] = "run"] /\ isKilled' = isKilled
      BY <3>1 DEF Up
    <3>4. obj' \in [Procs -> Procs \cup Mutexes \cup {None}]
      BY <3>1 DEF TypeOK
    <3>5. TypeOK' /\ InterruptDiscipline' /\ DepthInv'
      BY <3>1, <3>2, <3>4, UpInv DEF Locations
    <3>6. LocationInv'
      BY <3>1, <3>3 DEF TypeOK, LocationInv, Exiting
    <3> QED
      BY <3>5, <3>6
  <2>6. CASE ForkOpen(p)
    <3>1. /\ Running(p) /\ at[p] = "forkOpen"
          /\ Down(p, TableMutex(p), "forkInsert") /\ obj' = obj
      BY <2>6 DEF ForkOpen
    <3>2. TableMutex(p) \in Sems /\ obj[p] \in Procs
      BY <3>1, OwnSems DEF LocationInv
    <3>3. at' = [at EXCEPT ![p] = "forkInsert"] /\ isKilled' = isKilled
      BY <3>1 DEF Down
    <3>4. obj' \in [Procs -> Procs \cup Mutexes \cup {None}]
      BY <3>1, <3>2 DEF TypeOK
    <3>5. TypeOK' /\ InterruptDiscipline' /\ DepthInv'
      BY <3>1, <3>2, <3>4, DownInv DEF Locations
    <3>6. LocationInv'
      BY <3>1, <3>2, <3>3 DEF TypeOK, LocationInv, Exiting
    <3> QED
      BY <3>5, <3>6
  <2>7. ASSUME NEW q \in Procs, Join(p, q) PROVE IInv'
    <3>1. /\ Running(p) /\ at[p] = "run"
          /\ Down(p, DoneEvent(q), "joinUp") /\ obj' = [obj EXCEPT ![p] = q]
      BY <2>7 DEF Join
    <3>2. DoneEvent(q) \in Sems
      BY OwnSems
    <3>3. at' = [at EXCEPT ![p] = "joinUp"] /\ isKilled' = isKilled
      BY <3>1 DEF Down
    <3>4. obj' \in [Procs -> Procs \cup Mutexes \cup {None}]
      BY <3>1, <3>2 DEF TypeOK
    <3>5. TypeOK' /\ InterruptDiscipline' /\ DepthInv'
      BY <3>1, <3>2, <3>4, DownInv DEF Locations
    <3>6. LocationInv'
      BY <3>1, <3>2, <3>3 DEF TypeOK, LocationInv, Exiting
    <3> QED
      BY <3>5, <3>6
  <2>8. CASE JoinUp(p)
    <3>1. /\ Running(p) /\ at[p] = "joinUp"
          /\ Up(p, DoneEvent(obj[p]), "closeSlot") /\ obj' = obj
      BY <2>8 DEF JoinUp
    <3>2. DoneEvent(obj[p]) \in Sems
      BY <3>1, OwnSems DEF LocationInv
    <3>3. at' = [at EXCEPT ![p] = "closeSlot"] /\ isKilled' = isKilled
      BY <3>1 DEF Up
    <3>4. obj' \in [Procs -> Procs \cup Mutexes \cup {None}]
      BY <3>1 DEF TypeOK
    <3>5. TypeOK' /\ InterruptDiscipline' /\ DepthInv'
      BY <3>1, <3>2, <3>4, UpInv DEF Locations
    <3>6. LocationInv'
      BY <3>1, <3>3 DEF TypeOK, LocationInv, Exiting
    <3> QED
      BY <3>5, <3>6
  <2>9. CASE CloseSlot(p)
    <3>1. /\ Running(p) /\ at[p] = "closeSlot"
          /\ Down(p, TableMutex(p), "emptySlot") /\ obj' = obj
      BY <2>9 DEF CloseSlot
    <3>2. TableMutex(p) \in Sems /\ obj[p] \in Procs
      BY <3>1, OwnSems DEF LocationInv
    <3>3. at' = [at EXCEPT ![p] = "emptySlot"] /\ isKilled' = isKilled
      BY <3>1 DEF Down
    <3>4. obj' \in [Procs -> Procs \cup Mutexes \cup {None}]
      BY <3>1, <3>2 DEF TypeOK
    <3>5. TypeOK' /\ InterruptDiscipline' /\ DepthInv'
      BY <3>1, <3>2, <3>4, DownInv DEF Locations
    <3>6. LocationInv'
      BY <3>1, <3>2, <3>3 DEF TypeOK, LocationInv, Exiting
    <3> QED
      BY <3>5, <3>6
  <2>10. CASE Exit(p)
    <3>1. /\ Running(p) /\ at[p] \in {"run", "exit"}
          /\ Down(p, TableMutex(p), "closing") /\ obj' = obj
      BY <2>10 DEF Exit
    <3>2. TableMutex(p) \in Sems
      BY OwnSems
    <3>3. at' = [at EXCEPT ![p] = "closing"] /\ isKilled' = isKilled
      BY <3>1 DEF Down
    <3>4. obj' \in [Procs -> Procs \cup Mutexes \cup {None}]
      BY <3>1, <3>2 DEF TypeOK
    <3>5. TypeOK' /\ InterruptDiscipline' /\ DepthInv'
      BY <3>1, <3>2, <3>4, DownInv DEF Locations
    <3>6. LocationInv'
      BY <3>1, <3>2, <3>3 DEF TypeOK, LocationInv, Exiting
    <3> QED
      BY <3>5, <3>6
  <2>11. CASE Signal(p)
    <3>1. /\ Running(p) /\ at[p] = "signal"
          /\ Up(p, DoneEvent(p), "terminate") /\ obj' = obj
      BY <2>11 DEF Signal
    <3>2. DoneEvent(p) \in Sems
      BY OwnSems
    <3>3. at' = [at EXCEPT ![p] = "terminate"] /\ isKilled' = isKilled
      BY <3>1 DEF Up
    <3>4. obj' \in [Procs -> Procs \cup Mutexes \cup {None}]
      BY <3>1 DEF TypeOK
    <3>5. TypeOK' /\ InterruptDiscipline' /\ DepthInv'
      BY <3>1, <3>2, <3>4, UpInv DEF Locations
    <3>6. LocationInv'
      BY <3>1, <3>3 DEF TypeOK, LocationInv, Exiting
    <3> QED
      BY <3>5, <3>6
  <2>12. CASE Resume(p)
    <3>1. /\ current = p /\ frame[p] # "none" /\ ~panicked
          /\ Unref(Range(reaperQueue), state)
          /\ reaperQueue' = <<>>
          /\ frame' = [frame EXCEPT ![p] = "none"]
          /\ UNCHANGED <<current, readyQueue, isKilled, obj, reaping, count, waiting,
                         handles, panicked>>
      BY <2>12 DEF Resume, sems
    <3>2. refs' \in [Procs -> Int] /\ state' \in [Procs -> States]
      BY <3>1, UnrefType DEF TypeOK
    <3>3. frame' \in [Procs -> Frames] /\ reaperQueue' \in Seq(Procs)
      BY <3>1 DEF TypeOK, Frames
    <3>4. frame[p] \in {"irq", "yield", "block"} /\ p # None
      BY <3>1, ProcsAssumption DEF TypeOK, Frames
    <3>5. CASE isKilled[p]
      <4>1. at' = [at EXCEPT ![p] = "exit"] /\ UNCHANGED <<disableCount, iDepth, iflag>>
        BY <2>12, <3>5 DEF Resume
      <4>2. TypeOK'
        BY <3>1, <3>2, <3>3, <4>1 DEF TypeOK, Locations
      <4>3. disableCount[p] # 0
        BY <3>1 DEF DepthInv
      <4>4. \A q \in Procs : at'[q] = "gone" <=> at[q] = "gone" /\ q # p
        BY <4>1 DEF TypeOK
      <4>5. \A q \in Procs : frame'[q] = IF q = p THEN "none" ELSE frame[q]
        BY <3>1 DEF TypeOK
      <4>6. InterruptDiscipline'
        BY <3>1, <3>4, <3>5, <4>1, <4>3, <4>4, <4>5 DEF InterruptDiscipline
      <4>7. DepthInv'
        BY <4>1, <4>5 DEF DepthInv
      <4>8. LocationInv'
        BY <3>1, <3>5, <4>1 DEF TypeOK, LocationInv, Exiting
      <4> QED
        BY <4>2, <4>6, <4>7, <4>8
    <3>6. CASE ~isKilled[p]
      <4>1. /\ disableCount' = [disableCount EXCEPT ![p] = CountAfter(p)]
            /\ iflag' = (CountAfter(p) = 0)
            /\ iDepth' = [iDepth EXCEPT ![p] = DepthAfter(p)]
            /\ at' = at
        BY <2>12, <3>6 DEF Resume
      <4>2. CountAfter(p) = 0 /\ DepthAfter(p) = 0
        BY <3>4, <3>6 DEF CountAfter, DepthAfter, InterruptDiscipline
      <4>3. disableCount' \in [Procs -> Nat] /\ iDepth' \in [Procs -> Nat]
        BY <4>1, <4>2 DEF TypeOK
      <4>4. TypeOK'
        BY <3>1, <3>2, <3>3, <4>1, <4>3 DEF TypeOK
      <4>5. /\ frame'[p] = "none" /\ disableCount'[p] = 0 /\ iDepth'[p] = 0 /\ iflag' = TRUE
            /\ \A q \in Procs \ {p} : /\ frame'[q] = frame[q] /\ iDepth'[q] = iDepth[q]
                                      /\ disableCount'[q] = disableCount[q]
        BY <3>1, <4>1, <4>2 DEF TypeOK
      <4>6. InterruptDiscipline'
        BY <3>1, <3>4, <4>1, <4>5 DEF InterruptDiscipline
      <4>7. DepthInv'
        BY <4>5 DEF DepthInv
      <4>8. LocationInv'
        BY <3>1, <4>1 DEF LocationInv
      <4> QED
        BY <4>4, <4>6, <4>7, <4>8
    <3> QED
      BY <3>5, <3>6
  <2>13. CASE TakeVictim(p)
    <3>1. /\ Running(p) /\ iflag' = (disableCount[p] = 0)
          /\ UNCHANGED <<current, disableCount, frame, iDepth, panicked>>
          /\ reaperQueue # <<>>
          /\ reaping' = [reaping EXCEPT ![p] = Head(reaperQueue)]
          /\ reaperQueue' = Tail(reaperQueue)
          /\ UNCHANGED <<readyQueue, state, isKilled, at, obj, count, waiting, handles, refs>>
      BY <2>13 DEF TakeVictim, Enable, sems, objects, cpu
    <3>2. Head(reaperQueue) \in Procs /\ Tail(reaperQueue) \in Seq(Procs)
      BY <3>1 DEF TypeOK
    <3>3. TypeOK'
      BY <3>1, <3>2 DEF TypeOK
    <3>4. \A q \in Procs : (at[q] = "gone" => at'[q] = "gone") /\ (isKilled[q] => isKilled'[q])
      BY <3>1 DEF TypeOK
    <3>5. InterruptDiscipline' /\ DepthInv'
      BY <3>1, <3>4, CpuKept
    <3>6. LocationInv'
      BY <3>1 DEF TypeOK, LocationInv, Exiting
    <3> QED
      BY <3>3, <3>5, <3>6
  <2>14. CASE ReleaseVictim(p)
    <3>1. /\ Running(p) /\ Unref({reaping[p]}, state)
          /\ reaping' = [reaping EXCEPT ![p] = None]
          /\ UNCHANGED <<current, iflag, readyQueue, disableCount, frame, iDepth, isKilled,
                         at, obj, count, waiting, handles, reaperQueue, panicked>>
      BY <2>14 DEF ReleaseVictim, sems
    <3>2. refs' \in [Procs -> Int] /\ state' \in [Procs -> States]
      BY <3>1, UnrefType DEF TypeOK
    <3>3. TypeOK'
      BY <3>1, <3>2 DEF TypeOK
    <3>4. InterruptDiscipline' /\ DepthInv' /\ LocationInv'
      BY <3>1 DEF InterruptDiscipline, DepthInv, LocationInv
    <3> QED
      BY <3>3, <3>4
  <2>15. CASE Begin(p)
    <3>1. /\ Running(p) /\ iflag' = (disableCount[p] = 0)
          /\ UNCHANGED <<current, disableCount, frame, iDepth, panicked>>
          /\ at[p] \in {"entry", "kill"}
          /\ at' = [at EXCEPT ![p] = CASE isKilled[p] -> "exit"
                                     [] p = Idle /\ ~isKilled[p] -> "idle"
                                     [] OTHER -> "run"]
          /\ UNCHANGED <<readyQueue, state, isKilled, obj, count, waiting, handles, refs,
                         reaperQueue, reaping>>
      BY <2>15 DEF Begin, Enable, sems, objects, cpu
    <3>2. \E loc \in {"exit", "idle", "run"} :
            at' = [at EXCEPT ![p] = loc] /\ (isKilled[p] => loc = "exit")
      BY <3>1
    <3>3. TypeOK'
      BY <3>1, <3>2 DEF TypeOK, Locations
    <3>4. \A q \in Procs : (at[q] = "gone" => at'[q] = "gone") /\ (isKilled[q] => isKilled'[q])
      BY <3>1, <3>2 DEF TypeOK
    <3>5. InterruptDiscipline' /\ DepthInv'
      BY <3>1, <3>4, CpuKept
    <3>6. LocationInv'
      BY <3>1, <3>2 DEF TypeOK, LocationInv, Exiting
    <3> QED
      BY <3>3, <3>5, <3>6
  <2>16. ASSUME NEW c \in Procs, Fork(p, c) PROVE IInv'
    <3>1. /\ Running(p) /\ at[p] = "run" /\ state[c] = "FREE"
          /\ state' = [state EXCEPT ![c] = "NEW"]
          /\ refs' = [refs EXCEPT ![c] = 1]
          /\ disableCount' = [disableCount EXCEPT ![c] = 0]
          /\ iDepth' = [iDepth EXCEPT ![c] = 0]
          /\ isKilled' = [isKilled EXCEPT ![c] = FALSE]
          /\ frame' = [frame EXCEPT ![c] = "none"]
          /\ at' = [at EXCEPT ![c] = "entry", ![p] = "forkOpen"]
          /\ obj' = [obj EXCEPT ![c] = None, ![p] = c]
          /\ reaping' = [reaping EXCEPT ![c] = None]
          /\ handles' = [handles EXCEPT ![c] = {}]
          /\ count' = [count EXCEPT ![DoneEvent(c)] = 0, ![TableMutex(c)] = 1]
          /\ waiting' = [waiting EXCEPT ![DoneEvent(c)] = <<>>, ![TableMutex(c)] = <<>>]
          /\ UNCHANGED <<current, iflag, readyQueue, reaperQueue, panicked>>
      BY <2>16 DEF Fork
    <3>2. /\ state' \in [Procs -> States] /\ refs' \in [Procs -> Int]
          /\ disableCount' \in [Procs -> Nat] /\ iDepth' \in [Procs -> Nat]
          /\ isKilled' \in [Procs -> BOOLEAN] /\ frame' \in [Procs -> Frames]
      BY <3>1 DEF TypeOK, States, Frames
    <3>3. /\ at' \in [Procs -> Locations]
          /\ obj' \in [Procs -> Procs \cup Mutexes \cup {None}]
          /\ reaping' \in [Procs -> Procs \cup {None}]
          /\ handles' \in [Procs -> SUBSET Procs]
      BY <3>1 DEF TypeOK, Locations
    <3>4. count' \in [Sems -> Nat] /\ waiting' \in [Sems -> Seq(Procs)]
      <4>1. count' \in [Sems -> Nat]
        BY <3>1 DEF TypeOK
      <4>2. <<>> \in Seq(Procs)
        OBVIOUS
      <4>3. waiting' \in [Sems -> Seq(Procs)]
        BY <3>1, <4>2 DEF TypeOK
      <4> QED
        BY <4>1, <4>3
    <3>5. TypeOK'
      BY <3>1, <3>2, <3>3, <3>4 DEF TypeOK
    <3>6. /\ current = p /\ frame[p] = "none" /\ ~panicked /\ ~isKilled[p]
          /\ disableCount[p] = 0 /\ iDepth[p] = 0
      BY <3>1 DEF Running, LocationInv, Exiting, InterruptDiscipline
    <3>7. \A q \in Procs : /\ disableCount'[q] = IF q = c THEN 0 ELSE disableCount[q]
                           /\ iDepth'[q] = IF q = c THEN 0 ELSE iDepth[q]
                           /\ frame'[q] = IF q = c THEN "none" ELSE frame[q]
                           /\ isKilled'[q] = IF q = c THEN FALSE ELSE isKilled[q]
      BY <3>1 DEF TypeOK
    <3>8. \A q \in Procs : /\ at'[q] = IF q = p THEN "forkOpen" ELSE IF q = c THEN "entry" ELSE at[q]
                           /\ obj'[q] = IF q = p THEN c ELSE IF q = c THEN None ELSE obj[q]
      BY <3>1 DEF TypeOK
    <3>9. InterruptDiscipline'
      <4>1. (iflag' => current' # None /\ ~panicked')
            /\ (iflag' <=> disableCount'[current'] = 0)
        BY <3>1, <3>6, <3>7, ProcsAssumption DEF InterruptDiscipline
      <4>2. ASSUME NEW q \in Procs, q # c
            PROVE  /\ frame'[q] = frame[q] /\ disableCount'[q] = disableCount[q]
                   /\ iDepth'[q] = iDepth[q] /\ isKilled'[q] = isKilled[q]
                   /\ at'[q] # "gone" => at[q] # "gone" \/ q = p
        BY <3>7, <3>8, <4>2
      <4>3. frame'[c] = "none" /\ disableCount'[c] = 0 /\ iDepth'[c] = 0
        BY <3>7
      <4>4. frame[p] = "none" /\ disableCount[p] = 0 /\ iDepth[p] = 0
        BY <3>6
      <4> DEFINE Disciplined(q) ==
            /\ frame[q] = "irq"   => disableCount[q] = 2 /\ iDepth[q] = 1
            /\ frame[q] = "yield" => disableCount[q] = 1 /\ iDepth[q] = 0
            /\ frame[q] = "block" => disableCount[q] >= 2 /\ iDepth[q] = 0
            /\ frame[q] = "block" /\ ~isKilled[q] => disableCount[q] = 2
            /\ frame[q] = "none" /\ at[q] # "gone" /\ ~isKilled[q]
                 => disableCount[q] = 0 /\ iDepth[q] = 0
      <4>5. \A q \in Procs : Disciplined(q)
        BY DEF InterruptDiscipline
      <4>6. ASSUME NEW q \in Procs PROVE Disciplined(q)'
        <5>1. CASE q = c
          BY <4>3, <5>1
        <5>2. CASE q # c /\ q = p
          BY <4>2, <4>4, <5>2
        <5>3. CASE q # c /\ q # p
          BY <4>2, <4>5, <5>3
        <5> QED
          BY <5>1, <5>2, <5>3
      <4> QED
        BY <4>1, <4>6 DEF InterruptDiscipline
    <3>10. DepthInv'
      BY <3>7 DEF DepthInv
    <3>11. LocationInv'
      BY <3>6, <3>7, <3>8 DEF LocationInv, Exiting
    <3> QED
      BY <3>5, <3>9, <3>10, <3>11
  <2>17. CASE ForkInsert(p)
    <3>1. /\ Running(p) /\ at[p] = "forkInsert"
          /\ state' = Woken(TableMutex(p)) /\ Release(p, TableMutex(p))
          /\ at' = [at EXCEPT ![p] = "forkStart"] /\ obj' = obj
          /\ UNCHANGED <<current, disableCount, frame, iDepth, isKilled, reaping,
                         reaperQueue, panicked>>
      BY <2>17 DEF ForkInsert
    <3>2. /\ readyQueue' \in Seq(Procs)
          /\ count' \in [Sems -> Nat]
          /\ waiting' \in [Sems -> Seq(Procs)]
          /\ iflag' = (disableCount[p] = 0)
          /\ Woken(TableMutex(p)) \in [Procs -> States]
      BY <3>1, OwnSems, ReleaseType, WokenType
    <3>3. /\ refs' \in [Procs -> Int] /\ handles' \in [Procs -> SUBSET Procs]
          /\ state' \in [Procs -> States]
      <4>1. obj[p] \in Procs
        BY <3>1 DEF LocationInv
      <4>2. CASE Cardinality(handles[p]) < MaxHandles
        <5>1. /\ handles' = [handles EXCEPT ![p] = @ \cup {obj[p]}]
              /\ refs' = [refs EXCEPT ![obj[p]] = @ + 1]
          BY <2>17, <4>2 DEF ForkInsert, Ref
        <5>2. handles' \in [Procs -> SUBSET Procs]
          BY <4>1, <5>1 DEF TypeOK
        <5>3. refs' \in [Procs -> Int]
          BY <4>1, <5>1 DEF TypeOK
        <5> QED
          BY <3>1, <3>2, <5>2, <5>3
      <4>3. CASE ~(Cardinality(handles[p]) < MaxHandles)
        BY <2>17, <3>1, <3>2, <4>3 DEF ForkInsert, TypeOK
      <4> QED
        BY <4>2, <4>3
    <3>4. TypeOK'
      BY <3>1, <3>2, <3>3 DEF TypeOK, Locations
    <3>5. \A q \in Procs : (at[q] = "gone" => at'[q] = "gone") /\ (isKilled[q] => isKilled'[q])
      BY <3>1 DEF TypeOK
    <3>6. InterruptDiscipline' /\ DepthInv'
      BY <3>1, <3>2, <3>5, CpuKept
    <3>7. LocationInv'
      BY <3>1 DEF TypeOK, LocationInv, Exiting
    <3> QED
      BY <3>4, <3>6, <3>7
  <2>18. CASE EmptySlot(p)
    <3>1. /\ Running(p) /\ at[p] = "emptySlot"
          /\ Unref({obj[p]}, Woken(TableMutex(p))) /\ Release(p, TableMutex(p))
          /\ at' = [at EXCEPT ![p] = "run"] /\ obj' = [obj EXCEPT ![p] = None]
          /\ UNCHANGED <<current, disableCount, frame, iDepth, isKilled, reaping,
                         reaperQueue, panicked>>
      BY <2>18 DEF EmptySlot
    <3>2. /\ readyQueue' \in Seq(Procs)
          /\ count' \in [Sems -> Nat]
          /\ waiting' \in [Sems -> Seq(Procs)]
          /\ iflag' = (disableCount[p] = 0)
          /\ Woken(TableMutex(p)) \in [Procs -> States]
      BY <3>1, OwnSems, ReleaseType, WokenType
    <3>3. /\ refs' \in [Procs -> Int] /\ handles' \in [Procs -> SUBSET Procs]
          /\ state' \in [Procs -> States]
      BY <2>18, <3>1, <3>2, UnrefType DEF EmptySlot, TypeOK
    <3>4. TypeOK'
      BY <3>1, <3>2, <3>3 DEF TypeOK, Locations
    <3>5. \A q \in Procs : (at[q] = "gone" => at'[q] = "gone") /\ (isKilled[q] => isKilled'[q])
      BY <3>1 DEF TypeOK
    <3>6. InterruptDiscipline' /\ DepthInv'
      BY <3>1, <3>2, <3>5, CpuKept
    <3>7. LocationInv'
      BY <3>1 DEF TypeOK, LocationInv, Exiting
    <3> QED
      BY <3>4, <3>6, <3>7
  <2>19. CASE CloseAll(p)
    <3>1. /\ Running(p) /\ at[p] = "closing"
          /\ Unref(handles[p], Woken(TableMutex(p))) /\ Release(p, TableMutex(p))
          /\ at' = [at EXCEPT ![p] = "signal"] /\ obj' = obj
          /\ UNCHANGED <<current, disableCount, frame, iDepth, isKilled, reaping,
                         reaperQueue, panicked>>
      BY <2>19 DEF CloseAll
    <3>2. /\ readyQueue' \in Seq(Procs)
          /\ count' \in [Sems -> Nat]
          /\ waiting' \in [Sems -> Seq(Procs)]
          /\ iflag' = (disableCount[p] = 0)
          /\ Woken(TableMutex(p)) \in [Procs -> States]
      BY <3>1, OwnSems, ReleaseType, WokenType
    <3>3. /\ refs' \in [Procs -> Int] /\ handles' \in [Procs -> SUBSET Procs]
          /\ state' \in [Procs -> States]
      BY <2>19, <3>1, <3>2, UnrefType DEF CloseAll, TypeOK
    <3>4. TypeOK'
      BY <3>1, <3>2, <3>3 DEF TypeOK, Locations
    <3>5. \A q \in Procs : (at[q] = "gone" => at'[q] = "gone") /\ (isKilled[q] => isKilled'[q])
      BY <3>1 DEF TypeOK
    <3>6. InterruptDiscipline' /\ DepthInv'
      BY <3>1, <3>2, <3>5, CpuKept
    <3>7. LocationInv'
      BY <3>1 DEF TypeOK, LocationInv, Exiting
    <3> QED
      BY <3>4, <3>6, <3>7
  <2>20. CASE ForkStart(p)
    <3>1. /\ Running(p) /\ iflag' = (disableCount[p] = 0)
          /\ UNCHANGED <<current, disableCount, frame, iDepth, panicked>>
          /\ at[p] = "forkStart"
          /\ state' = [state EXCEPT ![obj[p]] = "READY"]
          /\ readyQueue' = Enqueued(obj[p], readyQueue)
          /\ at' = [at EXCEPT ![p] = "run"] /\ obj' = [obj EXCEPT ![p] = None]
          /\ UNCHANGED <<isKilled, count, waiting, handles, refs, reaperQueue, reaping>>
      BY <2>20 DEF ForkStart, Enable, sems, objects, cpu
    <3>2. state' \in [Procs -> States] /\ readyQueue' \in Seq(Procs)
      <4>1. obj[p] \in Procs
        BY <3>1 DEF LocationInv
      <4> QED
        BY <3>1, <4>1, EnqueuedType DEF TypeOK, States
    <3>3. TypeOK'
      BY <3>1, <3>2 DEF TypeOK, Locations
    <3>4. \A q \in Procs : (at[q] = "gone" => at'[q] = "gone") /\ (isKilled[q] => isKilled'[q])
      BY <3>1 DEF TypeOK
    <3>5. InterruptDiscipline' /\ DepthInv'
      BY <3>1, <3>4, CpuKept
    <3>6. LocationInv'
      BY <3>1 DEF TypeOK, LocationInv, Exiting
    <3> QED
      BY <3>3, <3>5, <3>6
  <2>21. ASSUME NEW q \in Procs, CloseHandle(p, q) PROVE IInv'
    <3>1. /\ Running(p) /\ at[p] = "run"
          /\ at' = [at EXCEPT ![p] = "closeSlot"] /\ obj' = [obj EXCEPT ![p] = q]
          /\ UNCHANGED <<current, iflag, readyQueue, state, disableCount, frame, iDepth,
                         isKilled, count, waiting, handles, refs, reaperQueue, reaping, panicked>>
      BY <2>21 DEF CloseHandle, cpu, sems, objects
    <3>2. TypeOK'
      BY <3>1 DEF TypeOK, Locations
    <3>3. InterruptDiscipline' /\ DepthInv'
      BY <3>1 DEF TypeOK, InterruptDiscipline, DepthInv
    <3>4. LocationInv'
      BY <3>1 DEF TypeOK, LocationInv, Exiting
    <3> QED
      BY <3>2, <3>3, <3>4
  <2>22. CASE Kill(p)
    <3>1. /\ Running(p) /\ iflag' = (disableCount[p] = 0)
          /\ UNCHANGED <<current, disableCount, frame, iDepth, panicked>>
          /\ at[p] = "run"
          /\ isKilled' = [isKilled EXCEPT ![p] = TRUE]
          /\ at' = [at EXCEPT ![p] = "kill"]
          /\ UNCHANGED <<readyQueue, state, obj, count, waiting, handles, refs, reaperQueue,
                         reaping>>
      BY <2>22 DEF Kill, Enable, sems, objects, cpu
    <3>3. TypeOK'
      BY <3>1 DEF TypeOK, Locations
    <3>4. \A q \in Procs : (at[q] = "gone" => at'[q] = "gone") /\ (isKilled[q] => isKilled'[q])
      BY <3>1 DEF TypeOK
    <3>5. InterruptDiscipline' /\ DepthInv'
      BY <3>1, <3>4, CpuKept
    <3>6. LocationInv'
      BY <3>1 DEF TypeOK, LocationInv, Exiting
    <3> QED
      BY <3>3, <3>5, <3>6
  <2>23. CASE Terminate(p)
    <3>1. /\ Running(p) /\ at[p] = "terminate"
          /\ reaperQueue' = Append(reaperQueue, p)
          /\ disableCount' = [disableCount EXCEPT ![p] = @ + 1]
          /\ at' = [at EXCEPT ![p] = "gone"]
          /\ SwitchFrom(readyQueue, [state EXCEPT ![p] = "TERMINATED"])
          /\ UNCHANGED <<frame, iDepth, isKilled, obj, reaping, count, waiting, handles, refs,
                         panicked>>
      BY <2>23 DEF Terminate, sems
    <3>2. disableCount' \in [Procs -> Nat] /\ reaperQueue' \in Seq(Procs)
      BY <3>1 DEF TypeOK
    <3>3. readyQueue \in Seq(Procs) /\ [state EXCEPT ![p] = "TERMINATED"] \in [Procs -> States]
      BY DEF TypeOK, States
    <3>4. /\ readyQueue' \in Seq(Procs) /\ state' \in [Procs -> States]
          /\ current' \in Procs /\ iflag' = (disableCount'[current'] = 0)
      BY <3>1, <3>2, <3>3, SwitchFromType
    <3>5. TypeOK'
      BY <3>1, <3>2, <3>4 DEF TypeOK, Locations
    <3>6. /\ current = p /\ frame[p] = "none" /\ ~panicked /\ current' # None
      BY <3>1, <3>4, ProcsAssumption DEF Running
    <3>7. \A q \in Procs : /\ at'[q] = IF q = p THEN "gone" ELSE at[q]
                           /\ disableCount'[q] = IF q = p THEN disableCount[q] + 1
                                                 ELSE disableCount[q]
      BY <3>1 DEF TypeOK
    <3>8. InterruptDiscipline'
      BY <3>1, <3>4, <3>6, <3>7 DEF InterruptDiscipline
    <3>9. DepthInv'
      BY <3>1, <3>7 DEF TypeOK, DepthInv
    <3>10. LocationInv'
      BY <3>1, <3>7 DEF LocationInv, Exiting
    <3> QED
      BY <3>5, <3>8, <3>9, <3>10
  <2> QED
    BY <1>4, <2>1, <2>2, <2>3, <2>4, <2>5, <2>6, <2>7, <2>8, <2>9, <2>10, <2>11, <2>12,
       <2>13, <2>14, <2>15, <2>16, <2>17, <2>18, <2>19, <2>20, <2>21, <2>22, <2>23 DEF Choice, Continue
<1> QED
  BY <1>1, <1>2, <1>3, <1>4 DEF Next

-----------------------------------------------------------------------------
LEMMA Invariance == Spec => []IInv
<1>1. Init => IInv
  BY InitInv
<1>2. IInv /\ [Next]_vars => IInv'
  BY NextInv
<1> QED
  BY <1>1, <1>2, PTL DEF Spec

\* The kernel's variables keep their types: no dispatch of a null process, no
\* negative disable count or interrupt depth, no semaphore below zero.
THEOREM TypeCorrect == Spec => []TypeOK
<1>1. IInv => TypeOK
  BY DEF IInv
<1> QED
  BY <1>1, Invariance, PTL

\* None of the assertions in startIrq, endIrq and enable can fail, and interrupts
\* are on exactly when the running process has enabled them.
THEOREM InterruptsDisciplined == Spec => []InterruptDiscipline
<1>1. IInv => InterruptDiscipline
  BY DEF IInv
<1> QED
  BY <1>1, Invariance, PTL

-----------------------------------------------------------------------------
(* The panic of a process that blocks inside its interrupt                 *)

\* Only down() can panic, in the process that calls it, which was killed: any other
\* has ended its interrupts when it runs.
LEMMA DownPanics ==
  ASSUME IInv, NEW p \in Procs, NEW s, NEW loc \in Locations,
         Running(p), at[p] # "gone", Down(p, s, loc), panicked'
  PROVE  isKilled[p] /\ isKilled'[p] /\ current' = p /\ at'[p] = loc
<1>1. iDepth[p] # 0 /\ at' = [at EXCEPT ![p] = loc] /\ UNCHANGED <<current, isKilled>>
  BY DEF Down, Running
<1>2. isKilled[p]
  BY <1>1 DEF IInv, InterruptDiscipline, Running
<1> QED
  BY <1>1, <1>2 DEF IInv, TypeOK, Running

\* Whoever blocks inside its interrupt was killed and is giving up its resources: the
\* panic of yield() in process.cc:50 cannot be reached from any other system call, and
\* the machine stops there.
THEOREM PanicOnlyOfTheKilled == Spec => []OnlyTheKilledBlock
<1>1. Init => OnlyTheKilledBlock
  BY DEF Init, OnlyTheKilledBlock
<1>2. IInv /\ OnlyTheKilledBlock /\ [Next]_vars => OnlyTheKilledBlock'
  <2> SUFFICES ASSUME IInv, OnlyTheKilledBlock, [Next]_vars, panicked'
               PROVE  isKilled'[current'] /\ at'[current'] = "closing"
    BY DEF OnlyTheKilledBlock
  <2>1. CASE UNCHANGED vars
    BY <2>1 DEF vars, OnlyTheKilledBlock
  <2>2. CASE Boot \/ Interrupt
    BY <2>2 DEF Boot, Interrupt
  <2>3. ASSUME NEW p \in Procs, Choice(p) \/ Continue(p)
        PROVE  isKilled'[current'] /\ at'[current'] = "closing"
    <3>1. CASE \/ \E s \in UserSems : UserDown(p, s)
               \/ \E m \in Mutexes : Lock(p, m)
               \/ \E c \in Procs : Join(p, c)
               \/ ForkOpen(p) \/ CloseSlot(p)
      <4>1. \E s \in Sems, loc \in {"run", "crit", "forkInsert", "joinUp", "emptySlot"} :
              /\ Running(p) /\ at[p] \in {"run", "forkOpen", "closeSlot"}
              /\ Down(p, s, loc)
        BY <3>1, OwnSems DEF UserDown, Lock, Join, ForkOpen, CloseSlot, Sems
      <4>2. isKilled[p] /\ at[p] \in {"run", "forkOpen", "closeSlot"}
        BY <4>1, DownPanics DEF Locations
      <4> QED
        BY <4>2 DEF IInv, LocationInv, Exiting
    <3>2. CASE Exit(p)
      <4>1. Running(p) /\ at[p] # "gone" /\ Down(p, TableMutex(p), "closing")
        BY <3>2 DEF Exit
      <4>2. "closing" \in Locations
        BY DEF Locations
      <4> QED
        BY <4>1, <4>2, DownPanics
    <3>3. CASE \/ Yield(p) \/ \E s \in UserSems : UserUp(p, s)
               \/ \E c \in Procs : Fork(p, c) \/ CloseHandle(p, c)
               \/ Kill(p) \/ Resume(p) \/ TakeVictim(p) \/ ReleaseVictim(p) \/ Begin(p)
               \/ Unlock(p) \/ ForkInsert(p) \/ ForkStart(p) \/ JoinUp(p) \/ EmptySlot(p)
               \/ CloseAll(p) \/ Signal(p) \/ Terminate(p)
      <4>1. ~panicked'
        BY <3>3 DEF Yield, UserUp, Fork, CloseHandle, Kill, Resume, TakeVictim, ReleaseVictim,
           Begin, Unlock, ForkInsert, ForkStart, JoinUp, EmptySlot, CloseAll, Signal, Terminate,
           Up, Running
      <4> QED
        BY <4>1
    <3> QED
      BY <2>3, <3>1, <3>2, <3>3 DEF Choice, Continue
  <2> QED
    BY <2>1, <2>2, <2>3 DEF Next
<1> QED
  BY <1>1, <1>2, Invariance, PTL DEF Spec

----------------------------------------------------------------------------
(* Queues and reference counts.                                            *)

\* QueuesExclusive, process by process and for any value of its variables.
Queued(ready, reaper, wait, status, cur) ==
  /\ IsInjective(ready) /\ IsInjective(reaper) /\ \A s \in Sems : IsInjective(wait[s])
  /\ \A p \in Procs :
       /\ p \in Range(ready) <=> p # Idle /\ status[p] = "READY"
       /\ p \in Range(reaper) => status[p] = "TERMINATED"
       /\ status[p] = "RUNNING" <=> cur = p
       /\ status[p] = "BLOCKED" <=> \E s \in Sems : p \in Range(wait[s])
       /\ \A s, t \in Sems : p \in Range(wait[s]) /\ p \in Range(wait[t]) => s = t

QueueInv == Queued(readyQueue, reaperQueue, waiting, state, current)

\* A process that waits for a semaphore is where the code calls down() on it.
Wants(p, s) ==
  \/ s \in UserSems /\ at[p] = "run"
  \/ s \in Mutexes /\ at[p] = "crit" /\ obj[p] = s
  \/ s = TableMutex(p) /\ at[p] \in {"forkInsert", "emptySlot", "closing"}
  \/ s = DoneEvent(obj[p]) /\ at[p] = "joinUp"

WaitInv == \A s \in Sems, p \in Procs : p \in Range(waiting[s]) => Wants(p, s)

Forking == {"forkOpen", "forkInsert", "forkStart"}
Closing == {"joinUp", "closeSlot", "emptySlot"}

\* The life of a process object: where its process can be while it is in a state, and
\* what a process that forks or closes a handle knows of the object it works on.
LifeOf(p) ==
  /\ state[p] = "FREE" => at[p] \in {"entry", "gone"}
  /\ state[p] = "NEW" => at[p] = "entry"
  /\ state[p] = "TERMINATED" => at[p] = "gone"
  /\ at[p] = "gone" => state[p] \in {"TERMINATED", "FREE"}
  /\ state[p] \in {"NEW", "READY", "BLOCKED"} /\ frame[p] = "none" => at[p] = "entry"
  /\ at[p] \in {"entry", "idle", "signal", "terminate", "gone"} => handles[p] = {}
  /\ at[p] \in Forking => state[obj[p]] = "NEW"
  /\ at[p] \in Forking \ {"forkStart"} => \A q \in Procs : obj[p] \notin handles[q]
  /\ at[p] \in Closing => obj[p] \in handles[p]
  /\ \A q \in Procs : at[p] \in Forking /\ at[q] \in Forking /\ obj[p] = obj[q] => p = q

LifeInv ==
  /\ state[Idle] \in {"READY", "RUNNING"} /\ at[Idle] \in {"entry", "idle"}
  /\ \A p \in Procs : LifeOf(p)

\* A terminated process is on the reaper queue or in the hands of one process at most,
\* and only one that has not begun yet; every other finds the queue empty.
ReaperInv ==
  /\ \A p \in Procs : reaping[p] # None =>
       /\ at[p] = "entry" /\ state[p] \notin {"FREE", "NEW"}
       /\ state[reaping[p]] = "TERMINATED" /\ reaping[p] \notin Range(reaperQueue)
       /\ \A q \in Procs : reaping[q] = reaping[p] => q = p
  /\ current # None /\ frame[current] = "none" /\ at[current] # "entry" => reaperQueue = <<>>

Owners(q) == {p \in Procs : q \in handles[p]}

\* A reference for each owner, and an object exactly as long as there is one.
RefInv ==
  \A q \in Procs :
    /\ refs[q] = SelfReference(q) + Cardinality(Owners(q))
    /\ state[q] = "FREE" <=> refs[q] = 0

LInv == QueueInv /\ WaitInv /\ LifeInv /\ ReaperInv /\ RefInv

-----------------------------------------------------------------------------
(* Queues: sequences without repetition                                    *)

\* Joining a queue at its end.
LEMMA Joined ==
  ASSUME NEW S, NEW queue \in Seq(S), NEW p \in S
  PROVE  /\ Range(Append(queue, p)) = Range(queue) \cup {p}
         /\ IsInjective(queue) /\ p \notin Range(queue) => IsInjective(Append(queue, p))
<1> DEFINE longer == Append(queue, p)
<1>1. DOMAIN queue = 1 .. Len(queue) /\ DOMAIN longer = 1 .. Len(queue) + 1 /\ Len(queue) \in Nat
  OBVIOUS
<1>2. longer[Len(queue) + 1] = p /\ \A i \in 1 .. Len(queue) : longer[i] = queue[i]
  OBVIOUS
<1> HIDE DEF longer
<1>3. Range(longer) = Range(queue) \cup {p}
  BY <1>1, <1>2 DEF Range
<1>4. ASSUME IsInjective(queue), p \notin Range(queue) PROVE IsInjective(longer)
  BY <1>1, <1>2, <1>4 DEF Range, IsInjective
<1> QED
  BY <1>3, <1>4 DEF longer

\* Leaving a queue at its head.
LEMMA Left ==
  ASSUME NEW S, NEW queue \in Seq(S), queue # <<>>, IsInjective(queue)
  PROVE  /\ Head(queue) \in S /\ Head(queue) \in Range(queue)
         /\ Tail(queue) \in Seq(S)
         /\ Range(Tail(queue)) = Range(queue) \ {Head(queue)}
         /\ IsInjective(Tail(queue))
<1> DEFINE shorter == Tail(queue)
<1>1. /\ DOMAIN queue = 1 .. Len(queue) /\ Len(queue) \in Nat /\ Len(queue) > 0
      /\ DOMAIN shorter = 1 .. Len(queue) - 1
      /\ shorter \in Seq(S) /\ Head(queue) = queue[1] /\ queue[1] \in S
  OBVIOUS
<1>2. \A i \in 1 .. Len(queue) - 1 : shorter[i] = queue[i + 1]
  OBVIOUS
<1> HIDE DEF shorter
<1>3. Range(shorter) = Range(queue) \ {queue[1]}
  <2>1. ASSUME NEW i \in 1 .. Len(queue) - 1 PROVE shorter[i] \in Range(queue) \ {queue[1]}
    <3>1. i + 1 \in DOMAIN queue /\ 1 \in DOMAIN queue /\ i + 1 # 1
      BY <1>1
    <3> QED
      BY <1>2, <3>1 DEF Range, IsInjective
  <2>2. ASSUME NEW j \in DOMAIN queue, queue[j] # queue[1] PROVE queue[j] \in Range(shorter)
    <3>1. j - 1 \in 1 .. Len(queue) - 1 /\ (j - 1) + 1 = j
      BY <1>1, <2>2
    <3>2. shorter[j - 1] = queue[j]
      BY <1>2, <3>1
    <3> QED
      BY <1>1, <3>1, <3>2 DEF Range
  <2> QED
    BY <1>1, <2>1, <2>2 DEF Range
<1>4. IsInjective(shorter)
  <2> SUFFICES ASSUME NEW i \in 1 .. Len(queue) - 1, NEW j \in 1 .. Len(queue) - 1,
                      shorter[i] = shorter[j]
               PROVE  i = j
    BY <1>1 DEF IsInjective
  <2>1. i + 1 \in DOMAIN queue /\ j + 1 \in DOMAIN queue /\ queue[i + 1] = queue[j + 1]
    BY <1>1, <1>2
  <2>2. i + 1 = j + 1
    BY <2>1 DEF IsInjective
  <2> QED
    BY <2>2
<1>5. queue[1] \in Range(queue)
  BY <1>1 DEF Range
<1> QED
  BY <1>1, <1>3, <1>4, <1>5 DEF shorter

\* The empty queue.
LEMMA Empty == Range(<<>>) = {} /\ IsInjective(<<>>)
BY DEF Range, IsInjective

\* makeReady adds to the ready queue a process that is not in it, the idle one excepted.
LEMMA Readied ==
  ASSUME NEW queue \in Seq(Procs), NEW p \in Procs, IsInjective(queue), p \notin Range(queue)
  PROVE  /\ Enqueued(p, queue) \in Seq(Procs)
         /\ IsInjective(Enqueued(p, queue))
         /\ Range(Enqueued(p, queue)) = Range(queue) \cup ({p} \ {Idle})
<1>1. Append(queue, p) \in Seq(Procs)
  OBVIOUS
<1> QED
  BY <1>1, Joined DEF Enqueued

-----------------------------------------------------------------------------
(* What the operations do to the queues                                    *)

\* A context switch: the first process that is ready, or the idle process, goes from
\* the ready queue to the CPU.
LEMMA Switched ==
  ASSUME NEW queue \in Seq(Procs), NEW status \in [Procs -> States],
         IsInjective(queue), SwitchFrom(queue, status),
         \A p \in Procs : p \in Range(queue) <=> p # Idle /\ status[p] = "READY",
         \A p \in Procs : status[p] # "RUNNING",
         status[Idle] = "READY"
  PROVE  /\ IsInjective(readyQueue')
         /\ current' \in Procs /\ status[current'] = "READY"
         /\ state' = [status EXCEPT ![current'] = "RUNNING"]
         /\ \A p \in Procs : p \in Range(readyQueue') <=> p # Idle /\ state'[p] = "READY"
         /\ \A p \in Procs : state'[p] = "RUNNING" <=> current' = p
<1> DEFINE next == IF queue = <<>> THEN Idle ELSE Head(queue)
<1>1. /\ readyQueue' = IF queue = <<>> THEN queue ELSE Tail(queue)
      /\ state' = [status EXCEPT ![next] = "RUNNING"]
      /\ current' = next
  BY DEF SwitchFrom
<1>2. /\ next \in Procs /\ status[next] = "READY"
      /\ IsInjective(readyQueue') /\ Range(readyQueue') = Range(queue) \ {next}
  <2>1. CASE queue = <<>>
    <3>1. Idle \notin Range(queue)
      BY ProcsAssumption
    <3> QED
      BY <1>1, <2>1, <3>1, ProcsAssumption
  <2>2. CASE queue # <<>>
    <3>1. next = Head(queue) /\ readyQueue' = Tail(queue)
      BY <1>1, <2>2
    <3> HIDE DEF next
    <3>2. /\ next \in Procs /\ next \in Range(queue) /\ IsInjective(readyQueue')
          /\ Range(readyQueue') = Range(queue) \ {next}
      BY <2>2, <3>1, Left
    <3> QED
      BY <3>2
  <2> QED
    BY <2>1, <2>2
<1> HIDE DEF next
<1>3. \A p \in Procs : state'[p] = IF p = next THEN "RUNNING" ELSE status[p]
  BY <1>1
<1> QED
  BY <1>1, <1>2, <1>3

\* Processes that go on: no operation but exit and fork changes who does.
Live == {"READY", "RUNNING", "BLOCKED"}

\* p gives the CPU away and becomes READY or BLOCKED, or wakes others; nothing else
\* happens to a state.
Shifted(before, after, p) ==
  \A q \in Procs :
    \/ after[q] = before[q]
    \/ /\ before[q] \in Live /\ after[q] \in Live
       /\ after[q] # "RUNNING" => q = p \/ before[q] # "RUNNING"

\* yield(nullptr): the process on the CPU is queued before the next one is chosen.
LEMMA Preempted ==
  ASSUME IInv, QueueInv, LifeInv, NEW p \in Procs, NEW why, NEW d,
         current = p, Preempt(p, why, d), UNCHANGED <<waiting, reaperQueue>>
  PROVE  /\ QueueInv' /\ Shifted(state, state', p)
         /\ state'[Idle] \in {"READY", "RUNNING"}
         /\ current' \in Procs /\ (current' = p \/ state[current'] = "READY")
<1> DEFINE status == [state EXCEPT ![p] = "READY"]
<1>1. /\ state \in [Procs -> States] /\ readyQueue \in Seq(Procs)
      /\ status \in [Procs -> States]
      /\ \A q \in Procs : status[q] = IF q = p THEN "READY" ELSE state[q]
  BY DEF IInv, TypeOK, States
<1>2. /\ state[p] = "RUNNING" /\ p \notin Range(readyQueue) /\ IsInjective(readyQueue)
      /\ \A q \in Procs : q \in Range(readyQueue) <=> q # Idle /\ state[q] = "READY"
      /\ \A q \in Procs : state[q] = "RUNNING" <=> q = p
  BY DEF QueueInv, Queued
<1>3. SwitchFrom(Enqueued(p, readyQueue), status)
  BY DEF Preempt
<1> HIDE DEF status
<1>4. /\ Enqueued(p, readyQueue) \in Seq(Procs) /\ IsInjective(Enqueued(p, readyQueue))
      /\ Range(Enqueued(p, readyQueue)) = Range(readyQueue) \cup ({p} \ {Idle})
  BY <1>1, <1>2, Readied
<1>5. /\ \A q \in Procs : q \in Range(Enqueued(p, readyQueue)) <=> q # Idle /\ status[q] = "READY"
      /\ \A q \in Procs : status[q] # "RUNNING"
      /\ status[Idle] = "READY"
  BY <1>1, <1>2, <1>4, ProcsAssumption DEF LifeInv
<1>6. /\ IsInjective(readyQueue')
      /\ current' \in Procs /\ status[current'] = "READY"
      /\ state' = [status EXCEPT ![current'] = "RUNNING"]
      /\ \A q \in Procs : q \in Range(readyQueue') <=> q # Idle /\ state'[q] = "READY"
      /\ \A q \in Procs : state'[q] = "RUNNING" <=> current' = q
  BY <1>1, <1>3, <1>4, <1>5, Switched
<1>7. \A q \in Procs : state'[q] = IF q = current' THEN "RUNNING"
                                   ELSE IF q = p THEN "READY" ELSE state[q]
  BY <1>1, <1>6
<1>8. QueueInv'
  BY <1>1, <1>2, <1>6, <1>7 DEF QueueInv, Queued
<1>9. Shifted(state, state', p) /\ state'[Idle] \in {"READY", "RUNNING"}
  BY <1>1, <1>2, <1>6, <1>7, ProcsAssumption DEF Shifted, Live, LifeInv
<1> QED
  BY <1>1, <1>6, <1>8, <1>9

\* yield(queue) in down(): the process on the CPU joins the waiters.
LEMMA BlockedOn ==
  ASSUME IInv, QueueInv, LifeInv, NEW p \in Procs, NEW s \in Sems,
         current = p, p # Idle,
         waiting' = [waiting EXCEPT ![s] = Append(@, p)],
         SwitchFrom(readyQueue, [state EXCEPT ![p] = "BLOCKED"]),
         reaperQueue' = reaperQueue
  PROVE  /\ QueueInv' /\ Shifted(state, state', p)
         /\ state'[Idle] \in {"READY", "RUNNING"}
         /\ current' \in Procs /\ state[current'] = "READY"
         /\ \A t \in Sems, q \in Procs :
              q \in Range(waiting'[t]) <=> q \in Range(waiting[t]) \/ (t = s /\ q = p)
<1> DEFINE status == [state EXCEPT ![p] = "BLOCKED"]
<1>1. /\ state \in [Procs -> States] /\ readyQueue \in Seq(Procs)
      /\ waiting \in [Sems -> Seq(Procs)] /\ waiting[s] \in Seq(Procs)
      /\ status \in [Procs -> States]
      /\ \A q \in Procs : status[q] = IF q = p THEN "BLOCKED" ELSE state[q]
  BY DEF IInv, TypeOK, States
<1>2. /\ state[p] = "RUNNING" /\ IsInjective(readyQueue)
      /\ \A q \in Procs : q \in Range(readyQueue) <=> q # Idle /\ state[q] = "READY"
      /\ \A q \in Procs : state[q] = "RUNNING" <=> q = p
      /\ \A t \in Sems : p \notin Range(waiting[t]) /\ IsInjective(waiting[t])
  BY DEF QueueInv, Queued
<1>3. SwitchFrom(readyQueue, status)
  OBVIOUS
<1> HIDE DEF status
<1>4. /\ \A q \in Procs : q \in Range(readyQueue) <=> q # Idle /\ status[q] = "READY"
      /\ \A q \in Procs : status[q] # "RUNNING"
      /\ status[Idle] = "READY"
  BY <1>1, <1>2, ProcsAssumption DEF LifeInv
<1>5. /\ IsInjective(readyQueue')
      /\ current' \in Procs /\ status[current'] = "READY"
      /\ state' = [status EXCEPT ![current'] = "RUNNING"]
      /\ \A q \in Procs : q \in Range(readyQueue') <=> q # Idle /\ state'[q] = "READY"
      /\ \A q \in Procs : state'[q] = "RUNNING" <=> current' = q
  BY <1>1, <1>2, <1>3, <1>4, Switched
<1>6. \A q \in Procs : state'[q] = IF q = current' THEN "RUNNING"
                                   ELSE IF q = p THEN "BLOCKED" ELSE state[q]
  BY <1>1, <1>5
<1>7. current' # p /\ state[current'] = "READY"
  BY <1>1, <1>5
<1>8. /\ Range(Append(waiting[s], p)) = Range(waiting[s]) \cup {p}
      /\ IsInjective(Append(waiting[s], p))
  BY <1>1, <1>2, Joined
<1>9. \A t \in Sems : waiting'[t] = IF t = s THEN Append(waiting[s], p) ELSE waiting[t]
  BY <1>1
<1>10. ASSUME NEW t \in Sems
       PROVE  /\ IsInjective(waiting'[t])
              /\ \A q \in Procs : q \in Range(waiting'[t]) <=> q \in Range(waiting[t]) \/ (t = s /\ q = p)
  <2>1. CASE t = s
    BY <1>8, <1>9, <2>1
  <2>2. CASE t # s
    BY <1>2, <1>9, <2>2
  <2> QED
    BY <2>1, <2>2
<1>11. QueueInv'
  <2>1. ASSUME NEW q \in Procs
        PROVE  /\ q \in Range(reaperQueue') => state'[q] = "TERMINATED"
               /\ state'[q] = "BLOCKED" <=> \E t \in Sems : q \in Range(waiting'[t])
               /\ \A t, u \in Sems : q \in Range(waiting'[t]) /\ q \in Range(waiting'[u]) => t = u
    <3>0. /\ q \in Range(reaperQueue') => state[q] = "TERMINATED"
          /\ state[q] = "BLOCKED" <=> \E t \in Sems : q \in Range(waiting[t])
          /\ \A t, u \in Sems : q \in Range(waiting[t]) /\ q \in Range(waiting[u]) => t = u
      BY DEF QueueInv, Queued
    <3>1. CASE q = p
      <4>1. \A t \in Sems : q \in Range(waiting'[t]) <=> t = s
        BY <1>2, <1>10, <3>1
      <4>2. state[q] = "RUNNING" /\ state'[q] = "BLOCKED"
        BY <1>2, <1>6, <1>7, <3>1
      <4> QED
        BY <3>0, <4>1, <4>2
    <3>2. CASE q # p
      <4>1. \A t \in Sems : q \in Range(waiting'[t]) <=> q \in Range(waiting[t])
        BY <1>10, <3>2
      <4>2. state'[q] = state[q] \/ (state[q] = "READY" /\ state'[q] = "RUNNING")
        BY <1>6, <1>7, <3>2
      <4> QED
        BY <3>0, <4>1, <4>2
    <3> QED
      BY <3>1, <3>2
  <2>2. IsInjective(reaperQueue')
    BY DEF QueueInv, Queued
  <2> QED
    BY <1>5, <1>10, <2>1, <2>2 DEF QueueInv, Queued
<1>12. Shifted(state, state', p) /\ state'[Idle] \in {"READY", "RUNNING"}
  BY <1>1, <1>2, <1>5, <1>6, <1>7, ProcsAssumption DEF Shifted, Live, LifeInv
<1> QED
  BY <1>5, <1>7, <1>10, <1>11, <1>12

\* The end of up(): the first waiter becomes ready, if there is one. (Unref comes later.)
LEMMA Released ==
  ASSUME IInv, QueueInv, LifeInv, NEW p \in Procs, NEW s \in Sems, Release(p, s)
  PROVE  /\ Queued(readyQueue', reaperQueue, waiting', Woken(s), current)
         /\ Shifted(state, Woken(s), p)
         /\ Woken(s)[Idle] \in {"READY", "RUNNING"}
         /\ \A t \in Sems : Range(waiting'[t]) \subseteq Range(waiting[t])
<1>1. /\ state \in [Procs -> States] /\ readyQueue \in Seq(Procs)
      /\ waiting \in [Sems -> Seq(Procs)] /\ waiting[s] \in Seq(Procs)
  BY DEF IInv, TypeOK
<1>2. CASE waiting[s] = <<>>
  <2>1. readyQueue' = readyQueue /\ waiting' = waiting /\ Woken(s) = state
    BY <1>2 DEF Release, Woken
  <2> QED
    BY <2>1 DEF QueueInv, Shifted, LifeInv
<1>3. CASE waiting[s] # <<>>
  <2> DEFINE h == Head(waiting[s])
  <2>1. /\ waiting' = [waiting EXCEPT ![s] = Tail(@)]
        /\ readyQueue' = Enqueued(h, readyQueue)
        /\ Woken(s) = [state EXCEPT ![h] = "READY"]
    BY <1>3 DEF Release, Woken
  <2>2. /\ h \in Procs /\ h \in Range(waiting[s])
        /\ Range(Tail(waiting[s])) = Range(waiting[s]) \ {h} /\ IsInjective(Tail(waiting[s]))
    <3>1. IsInjective(waiting[s])
      BY DEF QueueInv, Queued
    <3> QED
      BY <1>1, <1>3, <3>1, Left
  <2> HIDE DEF h
  <2>3. state[h] = "BLOCKED" /\ h \notin Range(readyQueue) /\ h # Idle /\ IsInjective(readyQueue)
    BY <2>2, ProcsAssumption DEF QueueInv, Queued, LifeInv
  <2>4. /\ IsInjective(readyQueue') /\ Range(readyQueue') = Range(readyQueue) \cup {h}
    BY <1>1, <2>1, <2>2, <2>3, Readied
  <2>5. \A t \in Sems : /\ waiting'[t] = IF t = s THEN Tail(waiting[s]) ELSE waiting[t]
                        /\ Range(waiting'[t]) = IF t = s THEN Range(waiting[s]) \ {h}
                                                ELSE Range(waiting[t])
    BY <1>1, <2>1, <2>2
  <2>6. \A q \in Procs : Woken(s)[q] = IF q = h THEN "READY" ELSE state[q]
    BY <1>1, <2>1
  <2>7. \A t \in Sems : IsInjective(waiting'[t]) /\ h \notin Range(waiting'[t])
    BY <2>2, <2>5 DEF QueueInv, Queued
  <2>8. Queued(readyQueue', reaperQueue, waiting', Woken(s), current)
    <3>1. ASSUME NEW q \in Procs
          PROVE  /\ q \in Range(readyQueue') <=> q # Idle /\ Woken(s)[q] = "READY"
                 /\ q \in Range(reaperQueue) => Woken(s)[q] = "TERMINATED"
                 /\ Woken(s)[q] = "RUNNING" <=> current = q
                 /\ Woken(s)[q] = "BLOCKED" <=> \E t \in Sems : q \in Range(waiting'[t])
                 /\ \A t, u \in Sems : q \in Range(waiting'[t]) /\ q \in Range(waiting'[u]) => t = u
      <4>1. CASE q = h
        BY <2>3, <2>4, <2>6, <2>7, <4>1 DEF QueueInv, Queued
      <4>2. CASE q # h
        <5>1. \A t \in Sems : q \in Range(waiting'[t]) <=> q \in Range(waiting[t])
          BY <2>5, <4>2
        <5> QED
          BY <2>4, <2>6, <4>2, <5>1 DEF QueueInv, Queued
      <4> QED
        BY <4>1, <4>2
    <3>2. IsInjective(reaperQueue)
      BY DEF QueueInv, Queued
    <3> QED
      BY <2>4, <2>7, <3>1, <3>2 DEF Queued
  <2>9. Shifted(state, Woken(s), p)
    BY <2>3, <2>6 DEF Shifted, Live
  <2> QED
    BY <2>3, <2>5, <2>6, <2>8, <2>9, ProcsAssumption DEF LifeInv
<1> QED
  BY <1>2, <1>3

\* A terminated process that is in no queue may be deleted.
LEMMA Deleted ==
  ASSUME NEW ready, NEW reaper, NEW wait, NEW status, NEW after, NEW cur,
         Queued(ready, reaper, wait, status, cur),
         \A q \in Procs : \/ after[q] = status[q]
                          \/ /\ status[q] = "TERMINATED" /\ after[q] = "FREE"
                             /\ q \notin Range(reaper)
  PROVE  Queued(ready, reaper, wait, after, cur)
BY DEF Queued

-----------------------------------------------------------------------------
(* What the other parts of the invariant say after a step of p             *)

LEMMA WaitKept ==
  ASSUME WaitInv, NEW p \in Procs,
         \A q \in Procs \ {p} : at'[q] = at[q] /\ obj'[q] = obj[q],
         \A t \in Sems, q \in Procs \ {p} : q \in Range(waiting'[t]) => q \in Range(waiting[t]),
         \A t \in Sems : p \in Range(waiting'[t]) => Wants(p, t)'
  PROVE  WaitInv'
<1> SUFFICES ASSUME NEW t \in Sems, NEW q \in Procs, q \in Range(waiting'[t])
             PROVE  Wants(q, t)'
  BY DEF WaitInv
<1>1. CASE q = p
  BY <1>1
<1>2. CASE q # p
  <2>1. Wants(q, t) /\ at'[q] = at[q] /\ obj'[q] = obj[q]
    BY <1>2 DEF WaitInv
  <2> QED
    BY <2>1 DEF Wants
<1> QED
  BY <1>1, <1>2

LEMMA LifeKept ==
  ASSUME TypeOK, LocationInv, LifeInv, NEW p \in Procs,
         state'[Idle] \in {"READY", "RUNNING"}, at'[Idle] \in {"entry", "idle"},
         \A q \in Procs \ {p} :
           /\ at'[q] = at[q] /\ obj'[q] = obj[q] /\ frame'[q] = frame[q] /\ handles'[q] = handles[q]
           /\ at[q] \in Forking \ {"forkStart"} => obj[q] \notin handles'[p],
         \A q \in Procs \ {p} :
           \/ state'[q] = state[q]
           \/ /\ state[q] \in Live /\ state'[q] \in Live
              /\ state'[q] = "RUNNING" \/ state[q] # "RUNNING"
           \/ state[q] = "TERMINATED" /\ state'[q] = "FREE"
           \/ state[q] = "NEW" /\ state'[q] = "READY" /\ at[p] = "forkStart" /\ obj[p] = q,
         state[p] # "NEW", LifeOf(p)'
  PROVE  LifeInv'
<1> SUFFICES ASSUME NEW q \in Procs, q # p
             PROVE  LifeOf(q)'
  BY DEF LifeInv
<1>1. LifeOf(q)
  BY DEF LifeInv
<1>2. /\ at'[q] = at[q] /\ obj'[q] = obj[q] /\ frame'[q] = frame[q] /\ handles'[q] = handles[q]
      /\ state[q] \in States /\ state'[q] \in States \cup {state[q]}
  BY DEF TypeOK, Live, States
<1>3. /\ state'[q] = "FREE" => at'[q] \in {"entry", "gone"}
      /\ state'[q] = "NEW" => at'[q] = "entry"
      /\ state'[q] = "TERMINATED" => at'[q] = "gone"
      /\ at'[q] = "gone" => state'[q] \in {"TERMINATED", "FREE"}
      /\ state'[q] \in {"NEW", "READY", "BLOCKED"} /\ frame'[q] = "none" => at'[q] = "entry"
  BY <1>1, <1>2 DEF LifeOf, Live
<1>4. /\ at'[q] \in {"entry", "idle", "signal", "terminate", "gone"} => handles'[q] = {}
      /\ at'[q] \in Closing => obj'[q] \in handles'[q]
  BY <1>1, <1>2 DEF LifeOf
<1>5. ASSUME at[q] \in Forking
      PROVE  /\ obj[q] \in Procs /\ state[obj[q]] = "NEW" /\ obj[q] # p
             /\ at[p] \in Forking => obj[p] # obj[q]
             /\ state'[obj[q]] = "NEW"
  <2>1. obj[q] \in Procs /\ state[obj[q]] = "NEW"
    BY <1>1, <1>5 DEF LocationInv, LifeOf, Forking
  <2>2. at[p] \in Forking => obj[p] # obj[q]
    BY <1>1, <1>5 DEF LifeOf
  <2>3. obj[q] # p
    BY <2>1
  <2>4. ~(at[p] = "forkStart" /\ obj[p] = obj[q])
    BY <2>2 DEF Forking
  <2>5. state'[obj[q]] = "NEW"
    BY <2>1, <2>3, <2>4 DEF Live
  <2> QED
    BY <2>1, <2>2, <2>3, <2>5
<1>6. at'[q] \in Forking => state'[obj'[q]] = "NEW"
  BY <1>2, <1>5
<1>7. at'[q] \in Forking \ {"forkStart"} => \A r \in Procs : obj'[q] \notin handles'[r]
  BY <1>1, <1>2 DEF LifeOf
<1>8. \A r \in Procs : at'[q] \in Forking /\ at'[r] \in Forking /\ obj'[q] = obj'[r] => q = r
  <2> SUFFICES ASSUME NEW r \in Procs, at'[q] \in Forking, at'[r] \in Forking, obj'[q] = obj'[r]
               PROVE  q = r
    OBVIOUS
  <2>1. \A u \in Procs : at'[p] \in Forking /\ at'[u] \in Forking /\ obj'[p] = obj'[u] => p = u
    BY DEF LifeOf
  <2>2. \A u \in Procs : at[q] \in Forking /\ at[u] \in Forking /\ obj[q] = obj[u] => q = u
    BY <1>1 DEF LifeOf
  <2>3. CASE r = p
    BY <2>1, <2>3
  <2>4. CASE r # p
    BY <1>2, <2>2, <2>4
  <2> QED
    BY <2>3, <2>4
<1> QED
  BY <1>3, <1>4, <1>6, <1>7, <1>8 DEF LifeOf

LEMMA ReaperKept ==
  ASSUME ReaperInv, UNCHANGED <<reaping, reaperQueue>>,
         \A q \in Procs : state[q] = "TERMINATED" => \/ state'[q] = "TERMINATED"
                                                     \/ q \notin Range(reaping),
         \A q \in Procs : reaping[q] # None =>
           at'[q] = "entry" /\ state'[q] \notin {"FREE", "NEW"} /\ reaping[q] \in Procs,
         \/ ~(current' # None /\ frame'[current'] = "none" /\ at'[current'] # "entry")
         \/ reaperQueue = <<>>,
         DOMAIN reaping = Procs
  PROVE  ReaperInv'
BY DEF ReaperInv, Range

LEMMA RefKept ==
  ASSUME RefInv, UNCHANGED <<refs, handles, reaping, reaperQueue>>,
         \A q \in Procs : \/ state'[q] = state[q]
                          \/ state[q] \in Live \cup {"NEW"} /\ state'[q] \in Live
  PROVE  RefInv'
<1> SUFFICES ASSUME NEW q \in Procs
             PROVE  /\ refs[q] = SelfReference(q)' + Cardinality(Owners(q)')
                    /\ state'[q] = "FREE" <=> refs[q] = 0
  BY DEF RefInv
<1>1. SelfReference(q)' = SelfReference(q) /\ Owners(q)' = Owners(q)
  BY DEF SelfReference, Live, Owners
<1>2. state'[q] = "FREE" <=> state[q] = "FREE"
  BY DEF Live
<1> QED
  BY <1>1, <1>2 DEF RefInv

\* A step in which p moves on to loc, where it works on o, keeps, gives away or wakes,
\* but touches no reference.
LEMMA Moved ==
  ASSUME IInv, IInv', LInv, NEW p \in Procs, NEW loc \in Locations, NEW o,
         current = p,
         at' = [at EXCEPT ![p] = loc], obj' = [obj EXCEPT ![p] = o],
         UNCHANGED <<handles, refs, reaping, reaperQueue>>,
         \A q \in Procs \ {p} : frame'[q] = frame[q],
         \* the queues
         QueueInv', Shifted(state, state', p), state'[Idle] \in {"READY", "RUNNING"},
         current' = p \/ (state[current'] = "READY" /\ frame'[p] # "none"),
         current' = p /\ frame'[p] = "none" /\ loc # "entry" => reaperQueue = <<>>,
         \A t \in Sems, q \in Procs \ {p} : q \in Range(waiting'[t]) => q \in Range(waiting[t]),
         \A t \in Sems : p \in Range(waiting'[t]) => Wants(p, t)',
         \* the new location
         p = Idle => loc \in {"entry", "idle"},
         loc # "gone", reaping[p] # None => loc = "entry",
         loc \in {"entry", "idle", "signal", "terminate"} => handles[p] = {},
         loc \in Forking => /\ o \in Procs /\ state[o] = "NEW"
                            /\ \A q \in Procs \ {p} : at[q] \in Forking => obj[q] # o,
         loc \in Forking \ {"forkStart"} => \A q \in Procs : o \notin handles[q],
         loc \in Closing => o \in handles[p]
  PROVE  LInv'
<1>1. /\ TypeOK /\ LocationInv /\ QueueInv /\ WaitInv /\ LifeInv /\ ReaperInv /\ RefInv
      /\ p # None
  BY ProcsAssumption DEF IInv, LInv
<1>2. /\ at'[p] = loc /\ obj'[p] = o
      /\ \A q \in Procs \ {p} : at'[q] = at[q] /\ obj'[q] = obj[q]
  BY <1>1 DEF TypeOK
<1>3. state[p] = "RUNNING" /\ \A q \in Procs : state[q] = "RUNNING" <=> q = p
  BY <1>1 DEF QueueInv, Queued
<1>4. WaitInv'
  BY <1>1, <1>2, WaitKept
<1>5. \A q \in Procs : \/ state'[q] = state[q]
                       \/ state[q] \in Live \cup {"NEW"} /\ state'[q] \in Live
  BY DEF Shifted
<1>6. RefInv'
  BY <1>1, <1>5, RefKept
<1>7. LifeInv'
  <2>1. state'[p] \in Live /\ (state'[p] # "RUNNING" => frame'[p] # "none")
    <3>1. state'[p] \in Live
      BY <1>3 DEF Shifted, Live
    <3>2. state'[p] = "RUNNING" <=> current' = p
      BY DEF QueueInv, Queued
    <3> QED
      BY <3>1, <3>2
  <2>2. LifeOf(p)'
    <3>1. loc \in Forking => state'[o] = "NEW"
      BY DEF Shifted, Live
    <3>2. /\ state'[p] = "FREE" => at'[p] \in {"entry", "gone"}
          /\ state'[p] = "NEW" => at'[p] = "entry"
          /\ state'[p] = "TERMINATED" => at'[p] = "gone"
          /\ at'[p] = "gone" => state'[p] \in {"TERMINATED", "FREE"}
          /\ state'[p] \in {"NEW", "READY", "BLOCKED"} /\ frame'[p] = "none" => at'[p] = "entry"
      BY <1>2, <2>1 DEF Live
    <3>3. /\ at'[p] \in {"entry", "idle", "signal", "terminate", "gone"} => handles'[p] = {}
          /\ at'[p] \in Forking => state'[obj'[p]] = "NEW"
          /\ at'[p] \in Forking \ {"forkStart"} => \A q \in Procs : obj'[p] \notin handles'[q]
          /\ at'[p] \in Closing => obj'[p] \in handles'[p]
      BY <1>2, <3>1
    <3>4. \A q \in Procs : at'[p] \in Forking /\ at'[q] \in Forking /\ obj'[p] = obj'[q] => p = q
      BY <1>2
    <3> QED
      BY <3>2, <3>3, <3>4 DEF LifeOf
  <2>3. at'[Idle] \in {"entry", "idle"}
    BY <1>1, <1>2, ProcsAssumption DEF LifeInv
  <2>4. \A q \in Procs \ {p} :
          /\ at'[q] = at[q] /\ obj'[q] = obj[q] /\ frame'[q] = frame[q] /\ handles'[q] = handles[q]
          /\ at[q] \in Forking \ {"forkStart"} => obj[q] \notin handles'[p]
    BY <1>1, <1>2 DEF LifeInv, LifeOf
  <2>5. \A q \in Procs \ {p} :
          \/ state'[q] = state[q]
          \/ /\ state[q] \in Live /\ state'[q] \in Live
             /\ state'[q] = "RUNNING" \/ state[q] # "RUNNING"
    BY DEF Shifted
  <2> QED
    BY <1>1, <1>3, <2>2, <2>3, <2>4, <2>5, LifeKept
<1>8. ReaperInv'
  <2>1. \A q \in Procs : state[q] = "TERMINATED" => state'[q] = "TERMINATED"
    BY DEF Shifted, Live
  <2>2. \A q \in Procs : reaping[q] # None =>
          at'[q] = "entry" /\ state'[q] \notin {"FREE", "NEW"} /\ reaping[q] \in Procs
    <3> SUFFICES ASSUME NEW q \in Procs, reaping[q] # None
                 PROVE  at'[q] = "entry" /\ state'[q] \notin {"FREE", "NEW"} /\ reaping[q] \in Procs
      OBVIOUS
    <3>1. at[q] = "entry" /\ state[q] \notin {"FREE", "NEW"} /\ reaping[q] \in Procs
      BY <1>1 DEF ReaperInv, TypeOK
    <3>2. at'[q] = "entry"
      BY <1>2, <3>1
    <3> QED
      BY <1>5, <3>1, <3>2 DEF Live
  <2>3. \/ ~(current' # None /\ frame'[current'] = "none" /\ at'[current'] # "entry")
        \/ reaperQueue = <<>>
    <3>1. CASE current' = p
      BY <1>2, <3>1
    <3>2. CASE current' # p
      <4>1. current' \in Procs \cup {None}
        BY DEF IInv, TypeOK
      <4>2. ASSUME current' \in Procs, frame'[current'] = "none" PROVE at'[current'] = "entry"
        BY <1>1, <1>2, <3>2, <4>2 DEF LifeInv, LifeOf
      <4> QED
        BY <4>1, <4>2
    <3> QED
      BY <3>1, <3>2
  <2>4. DOMAIN reaping = Procs /\ UNCHANGED <<reaping, reaperQueue>>
    BY <1>1 DEF TypeOK
  <2> QED
    BY <1>1, <2>1, <2>2, <2>3, <2>4, ReaperKept
<1> QED
  BY <1>4, <1>6, <1>7, <1>8 DEF LInv

-----------------------------------------------------------------------------
(* References                                                              *)

\* The owners of an object are finitely many.
LEMMA OwnersFinite ==
  ASSUME NEW q \in Procs
  PROVE  /\ IsFiniteSet(Owners(q)) /\ Cardinality(Owners(q)) \in Nat
         /\ Cardinality(Owners(q)) = 0 <=> Owners(q) = {}
<1>1. IsFiniteSet(Owners(q))
  BY ProcsAssumption, FS_Subset DEF Owners
<1> QED
  BY <1>1, FS_CardinalityType, FS_EmptySet

LEMMA SelfCounts == \A q \in Procs : SelfReference(q) \in {0, 1}
BY DEF SelfReference

\* An object that somebody has a handle to, or that lives, is not deleted.
LEMMA Referenced ==
  ASSUME RefInv, NEW q \in Procs
  PROVE  /\ \A p \in Procs : q \in handles[p] => state[q] # "FREE"
         /\ state[q] = "FREE" => \A p \in Procs : q \notin handles[p]
<1>1. refs[q] = SelfReference(q) + Cardinality(Owners(q)) /\ (state[q] = "FREE" <=> refs[q] = 0)
  BY DEF RefInv
<1>2. Cardinality(Owners(q)) \in Nat /\ (Cardinality(Owners(q)) = 0 <=> Owners(q) = {})
  BY OwnersFinite
<1>3. SelfReference(q) \in {0, 1}
  BY SelfCounts
<1>4. state[q] = "FREE" => Owners(q) = {}
  BY <1>1, <1>2, <1>3
<1> QED
  BY <1>4 DEF Owners

\* p gives up handles of its table: the processes of S.
LEMMA HandlesDropped ==
  ASSUME TypeOK, RefInv, NEW p \in Procs, NEW S \in SUBSET handles[p],
         NEW status \in [Procs -> States], Shifted(state, status, p),
         Unref(S, status), handles' = [handles EXCEPT ![p] = @ \ S],
         UNCHANGED <<reaping, reaperQueue>>
  PROVE  /\ RefInv'
         /\ \A q \in Procs : \/ state'[q] = status[q]
                             \/ /\ state[q] = "TERMINATED" /\ status[q] = "TERMINATED"
                                /\ state'[q] = "FREE"
                                /\ q \notin Range(reaping) /\ q \notin Range(reaperQueue)
<1> SUFFICES ASSUME NEW q \in Procs
             PROVE  /\ refs'[q] = SelfReference(q)' + Cardinality(Owners(q)')
                    /\ state'[q] = "FREE" <=> refs'[q] = 0
                    /\ \/ state'[q] = status[q]
                       \/ /\ state[q] = "TERMINATED" /\ status[q] = "TERMINATED"
                          /\ state'[q] = "FREE"
                          /\ q \notin Range(reaping) /\ q \notin Range(reaperQueue)
  BY DEF RefInv
<1>1. /\ refs'[q] = IF q \in S THEN refs[q] - 1 ELSE refs[q]
      /\ state'[q] = IF q \in S /\ refs[q] = 1 THEN "FREE" ELSE status[q]
  BY DEF Unref
<1>2. /\ refs[q] = SelfReference(q) + Cardinality(Owners(q))
      /\ state[q] = "FREE" <=> refs[q] = 0
      /\ IsFiniteSet(Owners(q)) /\ Cardinality(Owners(q)) \in Nat
      /\ SelfReference(q) \in {0, 1}
  BY OwnersFinite, SelfCounts DEF RefInv
<1>3. \/ status[q] = state[q]
      \/ state[q] \in Live /\ status[q] \in Live
  BY DEF Shifted
<1>4. \A r \in Procs : handles'[r] = IF r = p THEN handles[p] \ S ELSE handles[r]
  BY DEF TypeOK
<1>5. state'[q] = status[q] => SelfReference(q)' = SelfReference(q)
  BY <1>3 DEF SelfReference, Live
<1>6. CASE q \in S
  <2>1. p \in Owners(q) /\ Owners(q)' = Owners(q) \ {p}
    BY <1>4, <1>6 DEF Owners
  <2>2. Cardinality(Owners(q)') = Cardinality(Owners(q)) - 1 /\ Cardinality(Owners(q)') \in Nat
    <3>1. IsFiniteSet(Owners(q) \ {p})
      BY <1>2, FS_RemoveElement
    <3> QED
      BY <1>2, <2>1, <3>1, FS_RemoveElement, FS_CardinalityType
  <2>3. refs[q] \in Nat /\ refs[q] >= 1 /\ state[q] # "FREE"
    BY <1>2, <2>2
  <2>4. CASE refs[q] = 1
    <3>1. SelfReference(q) = 0 /\ Cardinality(Owners(q)') = 0
      BY <1>2, <2>2, <2>4
    <3>2. state[q] = "TERMINATED" /\ q \notin Range(reaping) /\ q \notin Range(reaperQueue)
      BY <2>3, <3>1 DEF SelfReference, TypeOK, States
    <3>3. status[q] = "TERMINATED" /\ state'[q] = "FREE"
      BY <1>1, <1>3, <1>6, <2>4, <3>2 DEF Live
    <3>4. SelfReference(q)' = 0
      BY <3>2, <3>3 DEF SelfReference
    <3> QED
      BY <1>1, <1>6, <2>4, <3>1, <3>2, <3>3, <3>4
  <2>5. CASE refs[q] # 1
    <3>1. state'[q] = status[q] /\ state'[q] # "FREE" /\ refs'[q] = refs[q] - 1
      BY <1>1, <1>3, <1>6, <2>3, <2>5 DEF Live
    <3> QED
      BY <1>2, <1>5, <2>2, <2>3, <2>5, <3>1
  <2> QED
    BY <2>4, <2>5
<1>7. CASE q \notin S
  <2>1. Owners(q)' = Owners(q)
    BY <1>4, <1>7 DEF Owners
  <2>2. state'[q] = status[q] /\ refs'[q] = refs[q]
    BY <1>1, <1>7
  <2>3. state'[q] = "FREE" <=> state[q] = "FREE"
    BY <1>3, <2>2 DEF Live
  <2> QED
    BY <1>2, <1>5, <2>1, <2>2, <2>3
<1> QED
  BY <1>6, <1>7

\* The reaper drops the reference that the processes of S had to themselves.
LEMMA SelfDropped ==
  ASSUME TypeOK, RefInv, NEW S \in SUBSET Procs,
         Unref(S, state), handles' = handles,
         \A q \in S : /\ state[q] = "TERMINATED"
                      /\ q \in Range(reaperQueue) \cup Range(reaping)
                      /\ q \notin Range(reaperQueue') \cup Range(reaping'),
         \A q \in Procs \ S : q \in Range(reaperQueue') \cup Range(reaping')
                                <=> q \in Range(reaperQueue) \cup Range(reaping)
  PROVE  /\ RefInv'
         /\ \A q \in Procs : \/ state'[q] = state[q]
                             \/ q \in S /\ state[q] = "TERMINATED" /\ state'[q] = "FREE"
<1> SUFFICES ASSUME NEW q \in Procs
             PROVE  /\ refs'[q] = SelfReference(q)' + Cardinality(Owners(q)')
                    /\ state'[q] = "FREE" <=> refs'[q] = 0
                    /\ \/ state'[q] = state[q]
                       \/ q \in S /\ state[q] = "TERMINATED" /\ state'[q] = "FREE"
  BY DEF RefInv
<1>1. /\ refs'[q] = IF q \in S THEN refs[q] - 1 ELSE refs[q]
      /\ state'[q] = IF q \in S /\ refs[q] = 1 THEN "FREE" ELSE state[q]
  BY DEF Unref
<1>2. /\ refs[q] = SelfReference(q) + Cardinality(Owners(q))
      /\ state[q] = "FREE" <=> refs[q] = 0
      /\ Cardinality(Owners(q)) \in Nat /\ Owners(q)' = Owners(q)
  BY OwnersFinite DEF RefInv, Owners
<1>3. CASE q \in S
  <2>1. SelfReference(q) = 1 /\ state[q] = "TERMINATED"
    BY <1>3 DEF SelfReference
  <2>2. state'[q] \in {"TERMINATED", "FREE"} /\ SelfReference(q)' = 0
    BY <1>1, <1>3, <2>1 DEF SelfReference
  <2> QED
    BY <1>1, <1>2, <1>3, <2>1, <2>2
<1>4. CASE q \notin S
  <2>1. SelfReference(q)' = SelfReference(q)
    BY <1>1, <1>4 DEF SelfReference
  <2> QED
    BY <1>1, <1>2, <1>4, <2>1
<1> QED
  BY <1>3, <1>4

-----------------------------------------------------------------------------
(* The inductive invariant                                                 *)

\* What is known of a process that executes kernel code outside checkReaper.
LEMMA Busy ==
  ASSUME IInv, LInv, NEW p \in Procs, Running(p), at[p] \notin {"entry", "idle"}
  PROVE  /\ current = p /\ frame[p] = "none" /\ ~panicked /\ p # Idle
         /\ state[p] = "RUNNING" /\ reaping[p] = None /\ reaperQueue = <<>>
         /\ \A t \in Sems : p \notin Range(waiting[t])
<1>1. current = p /\ frame[p] = "none" /\ ~panicked /\ p # Idle /\ p # None
  BY ProcsAssumption DEF Running, LInv, LifeInv
<1>2. state[p] = "RUNNING" /\ \A t \in Sems : p \notin Range(waiting[t])
  BY <1>1 DEF LInv, QueueInv, Queued
<1>3. reaping[p] = None /\ reaperQueue = <<>>
  BY <1>1 DEF LInv, ReaperInv
<1> QED
  BY <1>1, <1>2, <1>3

\* down(), which gets the semaphore, blocks or panics.
LEMMA DownKept ==
  ASSUME IInv, IInv', LInv, NEW p \in Procs, NEW s \in Sems, NEW o,
         NEW loc \in {"run", "crit", "forkInsert", "joinUp", "emptySlot", "closing"},
         Running(p), at[p] \notin {"entry", "idle", "gone"},
         Down(p, s, loc), obj' = [obj EXCEPT ![p] = o],
         \/ s \in UserSems /\ loc = "run"
         \/ s \in Mutexes /\ loc = "crit" /\ o = s
         \/ s = TableMutex(p) /\ loc \in {"forkInsert", "emptySlot", "closing"}
         \/ s = DoneEvent(o) /\ loc = "joinUp",
         loc = "forkInsert" => /\ o \in Procs /\ state[o] = "NEW"
                               /\ \A q \in Procs \ {p} : at[q] \in Forking => obj[q] # o
                               /\ \A q \in Procs : o \notin handles[q],
         loc \in {"joinUp", "emptySlot"} => o \in handles[p]
  PROVE  LInv'
<1>1. /\ current = p /\ frame[p] = "none" /\ ~panicked /\ p # Idle
      /\ state[p] = "RUNNING" /\ reaping[p] = None /\ reaperQueue = <<>>
      /\ \A t \in Sems : p \notin Range(waiting[t])
  BY Busy
<1>2. /\ at' = [at EXCEPT ![p] = loc] /\ UNCHANGED <<reaperQueue, reaping, handles, refs>>
      /\ TypeOK /\ QueueInv /\ LifeInv
  BY DEF Down, LInv, IInv
<1>3. at'[p] = loc /\ obj'[p] = o
  BY <1>2 DEF TypeOK
<1>4. Wants(p, s)'
  BY <1>3 DEF Wants
<1>5. /\ QueueInv' /\ Shifted(state, state', p) /\ state'[Idle] \in {"READY", "RUNNING"}
      /\ \A q \in Procs \ {p} : frame'[q] = frame[q]
      /\ current' = p \/ (state[current'] = "READY" /\ frame'[p] # "none")
      /\ \A t \in Sems, q \in Procs \ {p} : q \in Range(waiting'[t]) => q \in Range(waiting[t])
      /\ \A t \in Sems : p \in Range(waiting'[t]) => t = s
  <2>1. CASE count[s] > 0 \/ iDepth[p] # 0
    <3>1. UNCHANGED <<current, readyQueue, state, frame, waiting, reaperQueue>>
      BY <2>1 DEF Down, sems
    <3> QED
      BY <1>1, <1>2, <3>1 DEF QueueInv, Shifted, LifeInv
  <2>2. CASE ~(count[s] > 0) /\ iDepth[p] = 0
    <3>1. /\ waiting' = [waiting EXCEPT ![s] = Append(@, p)]
          /\ frame' = [frame EXCEPT ![p] = "block"]
          /\ SwitchFrom(readyQueue, [state EXCEPT ![p] = "BLOCKED"])
          /\ reaperQueue' = reaperQueue
      BY <2>2 DEF Down
    <3>2. /\ QueueInv' /\ Shifted(state, state', p) /\ state'[Idle] \in {"READY", "RUNNING"}
          /\ state[current'] = "READY"
          /\ \A t \in Sems, q \in Procs :
               q \in Range(waiting'[t]) <=> q \in Range(waiting[t]) \/ (t = s /\ q = p)
      BY <1>1, <1>2, <3>1, BlockedOn
    <3>3. frame'[p] = "block" /\ \A q \in Procs \ {p} : frame'[q] = frame[q]
      BY <1>2, <3>1 DEF TypeOK
    <3> QED
      BY <1>1, <3>2, <3>3
  <2> QED
    BY <2>1, <2>2
<1>6. loc \in Locations /\ loc \notin {"gone", "entry", "idle", "signal", "terminate", "forkStart", "forkOpen", "closeSlot"}
  BY DEF Locations
<1> QED
  BY <1>1, <1>2, <1>4, <1>5, <1>6, Moved DEF Forking, Closing

\* up().
LEMMA UpKept ==
  ASSUME IInv, IInv', LInv, NEW p \in Procs, NEW s \in Sems, NEW o,
         NEW loc \in {"run", "closeSlot", "terminate"},
         Running(p), at[p] \notin {"entry", "idle", "gone"},
         Up(p, s, loc), obj' = [obj EXCEPT ![p] = o],
         loc = "terminate" => handles[p] = {}, loc = "closeSlot" => o \in handles[p]
  PROVE  LInv'
<1>1. /\ current = p /\ frame[p] = "none" /\ p # Idle
      /\ reaping[p] = None /\ reaperQueue = <<>>
      /\ \A t \in Sems : p \notin Range(waiting[t])
  BY Busy
<1>2. /\ at' = [at EXCEPT ![p] = loc] /\ Release(p, s) /\ state' = Woken(s)
      /\ UNCHANGED <<current, frame, reaperQueue, reaping, handles, refs>>
      /\ QueueInv /\ LifeInv
  BY DEF Up, objects, LInv
<1>3. /\ Queued(readyQueue', reaperQueue, waiting', Woken(s), current)
      /\ Shifted(state, state', p) /\ state'[Idle] \in {"READY", "RUNNING"}
      /\ \A t \in Sems : Range(waiting'[t]) \subseteq Range(waiting[t])
  BY <1>2, Released
<1>4. QueueInv'
  BY <1>2, <1>3 DEF QueueInv
<1>5. loc \in Locations /\ loc \notin {"gone", "entry", "idle", "signal"} \cup Forking
  BY DEF Locations, Forking
<1> QED
  BY <1>1, <1>2, <1>3, <1>4, <1>5, Moved DEF Closing

\* The first dispatch.
LEMMA BootKept ==
  ASSUME IInv, IInv', LInv, Boot
  PROVE  LInv'
<1>1. /\ current = None /\ SwitchFrom(readyQueue, state)
      /\ UNCHANGED <<frame, at, obj, waiting, handles, refs, reaperQueue, reaping>>
  BY DEF Boot, sems, objects
<1>2. /\ TypeOK /\ LocationInv /\ QueueInv /\ WaitInv /\ LifeInv /\ ReaperInv /\ RefInv
      /\ \A q \in Procs : q # None
  BY ProcsAssumption DEF IInv, LInv
<1>3. /\ readyQueue \in Seq(Procs) /\ state \in [Procs -> States] /\ IsInjective(readyQueue)
      /\ \A q \in Procs : q \in Range(readyQueue) <=> q # Idle /\ state[q] = "READY"
      /\ \A q \in Procs : state[q] # "RUNNING"
      /\ state[Idle] = "READY"
  BY <1>1, <1>2, ProcsAssumption DEF TypeOK, QueueInv, Queued, LifeInv
<1>4. /\ IsInjective(readyQueue')
      /\ current' \in Procs /\ state[current'] = "READY"
      /\ state' = [state EXCEPT ![current'] = "RUNNING"]
      /\ \A q \in Procs : q \in Range(readyQueue') <=> q # Idle /\ state'[q] = "READY"
      /\ \A q \in Procs : state'[q] = "RUNNING" <=> current' = q
  BY <1>1, <1>3, Switched
<1>5. \A q \in Procs : state'[q] = IF q = current' THEN "RUNNING" ELSE state[q]
  BY <1>3, <1>4
<1>6. QueueInv'
  BY <1>1, <1>2, <1>4, <1>5 DEF QueueInv, Queued
<1>7. WaitInv'
  BY <1>1, <1>2 DEF WaitInv, Wants
<1>8. RefInv'
  BY <1>1, <1>2, <1>4, <1>5, RefKept DEF Live
<1>9. ReaperInv'
  <2>1. \A q \in Procs : reaping[q] # None =>
          at'[q] = "entry" /\ state'[q] \notin {"FREE", "NEW"} /\ reaping[q] \in Procs
    BY <1>1, <1>2, <1>5 DEF ReaperInv, TypeOK
  <2>2. frame'[current'] = "none" => at'[current'] = "entry"
    BY <1>1, <1>2, <1>4 DEF LifeInv, LifeOf
  <2>3. \A q \in Procs : state[q] = "TERMINATED" => state'[q] = "TERMINATED"
    BY <1>4, <1>5
  <2> QED
    BY <1>1, <1>2, <2>1, <2>2, <2>3, ReaperKept DEF TypeOK
<1>10. LifeInv'
  <2>1. LifeOf(current')
    BY <1>2, <1>4 DEF LifeInv
  <2>2. ASSUME NEW q \in Procs PROVE LifeOf(q)'
    <3>1. /\ LifeOf(q) /\ (at[q] \in Forking => obj[q] \in Procs)
          /\ state'[q] = state[q] \/ (state[q] = "READY" /\ state'[q] = "RUNNING")
      BY <1>2, <1>4, <1>5 DEF LifeInv, LocationInv, Forking
    <3>2. at[q] \in Forking => state'[obj[q]] = "NEW"
      BY <1>4, <1>5, <3>1 DEF LifeOf
    <3> QED
      BY <1>1, <3>1, <3>2 DEF LifeOf
  <2> QED
    BY <1>1, <1>2, <1>5, <2>2, ProcsAssumption DEF LifeInv
<1> QED
  BY <1>6, <1>7, <1>8, <1>9, <1>10 DEF LInv

\* The process on the CPU yields, of its own accord or interrupted.
LEMMA YieldKept ==
  ASSUME IInv, IInv', LInv, NEW p \in Procs, NEW why \in {"irq", "yield"}, NEW d,
         current = p, Preempt(p, why, d),
         UNCHANGED <<at, obj, waiting, handles, refs, reaperQueue, reaping>>
  PROVE  LInv'
<1>1. /\ TypeOK /\ LocationInv /\ QueueInv /\ WaitInv /\ LifeInv /\ ReaperInv
  BY DEF IInv, LInv
<1>2. /\ QueueInv' /\ Shifted(state, state', p)
      /\ state'[Idle] \in {"READY", "RUNNING"}
      /\ current' \in Procs /\ (current' = p \/ state[current'] = "READY")
  BY <1>1, Preempted
<1>3. /\ at' = [at EXCEPT ![p] = at[p]] /\ obj' = [obj EXCEPT ![p] = obj[p]]
      /\ at[p] \in Locations
      /\ frame'[p] # "none" /\ \A q \in Procs \ {p} : frame'[q] = frame[q]
  BY <1>1 DEF TypeOK, Preempt
<1>4. state[p] = "RUNNING" /\ \A t \in Sems : p \notin Range(waiting[t])
  BY <1>1 DEF QueueInv, Queued
<1>5. /\ LifeOf(p) /\ (at[p] \in Forking => obj[p] \in Procs)
      /\ p = Idle => at[p] \in {"entry", "idle"}
      /\ reaping[p] # None => at[p] = "entry"
  BY <1>1 DEF LifeInv, LocationInv, Forking, ReaperInv
<1>6. /\ at[p] # "gone"
      /\ at[p] \in {"entry", "idle", "signal", "terminate"} => handles[p] = {}
      /\ at[p] \in Forking \ {"forkStart"} => \A q \in Procs : obj[p] \notin handles[q]
      /\ at[p] \in Closing => obj[p] \in handles[p]
      /\ at[p] \in Forking => state[obj[p]] = "NEW"
                              /\ \A q \in Procs \ {p} : at[q] \in Forking => obj[q] # obj[p]
  BY <1>4, <1>5 DEF LifeOf
<1> QED
  BY <1>2, <1>3, <1>4, <1>5, <1>6, Moved

\* yield() comes back: the reaper queue is emptied.
LEMMA ResumeKept ==
  ASSUME IInv, IInv', LInv, NEW p \in Procs, Resume(p)
  PROVE  LInv'
<1>1. /\ current = p /\ Unref(Range(reaperQueue), state) /\ reaperQueue' = <<>>
      /\ UNCHANGED <<current, readyQueue, isKilled, obj, reaping, waiting, handles>>
      /\ frame' = [frame EXCEPT ![p] = "none"]
      /\ at' = IF isKilled[p] THEN [at EXCEPT ![p] = "exit"] ELSE at
  BY DEF Resume, sems
<1>2. /\ TypeOK /\ LocationInv /\ QueueInv /\ WaitInv /\ LifeInv /\ ReaperInv /\ RefInv
      /\ p # None
  BY ProcsAssumption DEF IInv, LInv
<1>3. /\ Range(reaperQueue) \in SUBSET Procs /\ Range(reaperQueue') = {}
      /\ \A q \in Range(reaperQueue) : state[q] = "TERMINATED" /\ q \notin Range(reaping)
  <2>1. Range(reaperQueue) \in SUBSET Procs
    BY <1>2 DEF TypeOK, Range
  <2>2. \A q \in Range(reaperQueue) : state[q] = "TERMINATED"
    BY <1>2, <2>1 DEF QueueInv, Queued
  <2>3. \A q \in Range(reaperQueue) : q \notin Range(reaping)
    BY <1>2, <2>1, ProcsAssumption DEF ReaperInv, Range, TypeOK
  <2> QED
    BY <1>1, <2>1, <2>2, <2>3, Empty
<1>4. /\ RefInv'
      /\ \A q \in Procs :
           \/ state'[q] = state[q]
           \/ q \in Range(reaperQueue) /\ state[q] = "TERMINATED" /\ state'[q] = "FREE"
  BY <1>1, <1>2, <1>3, SelfDropped
<1>5. QueueInv'
  <2>1. Queued(readyQueue, <<>>, waiting, state, current)
    BY <1>2, Empty DEF QueueInv, Queued
  <2>2. Queued(readyQueue, <<>>, waiting, state', current)
    BY <1>4, <2>1, Empty, Deleted
  <2> QED
    BY <1>1, <2>2 DEF QueueInv
<1>6. state[p] = "RUNNING" /\ (\A t \in Sems : p \notin Range(waiting[t])) /\ state'[p] = "RUNNING"
  BY <1>1, <1>2, <1>4 DEF QueueInv, Queued
<1>7. /\ at'[p] \in {at[p], "exit"} /\ \A q \in Procs \ {p} : at'[q] = at[q]
      /\ at'[p] # at[p] => isKilled[p]
  BY <1>1, <1>2 DEF TypeOK
<1>8. WaitInv'
  BY <1>1, <1>2, <1>6, <1>7, WaitKept
<1>9. LifeInv'
  <2>1. LifeOf(p) /\ (at[p] \in Forking => obj[p] \in Procs)
    BY <1>2 DEF LifeInv, LocationInv, Forking
  <2>2. at[p] \in Forking => state'[obj[p]] = "NEW"
    BY <1>4, <2>1 DEF LifeOf
  <2>3. LifeOf(p)'
    <3>1. CASE at'[p] = "exit"
      BY <1>6, <3>1 DEF LifeOf, Forking, Closing
    <3>2. CASE at'[p] # "exit"
      <4>1. at'[p] = at[p] /\ at' = at
        BY <1>1, <1>2, <1>7, <3>2 DEF TypeOK
      <4> QED
        BY <1>1, <1>6, <2>1, <2>2, <4>1 DEF LifeOf
    <3> QED
      BY <3>1, <3>2
  <2>4. isKilled[p] => p # Idle
    BY <1>2 DEF LifeInv, LocationInv, Exiting
  <2>5. at'[Idle] \in {"entry", "idle"} /\ state'[Idle] \in {"READY", "RUNNING"}
    BY <1>2, <1>4, <1>7, <2>4, ProcsAssumption DEF LifeInv
  <2>6. \A q \in Procs \ {p} :
           /\ at'[q] = at[q] /\ obj'[q] = obj[q] /\ frame'[q] = frame[q] /\ handles'[q] = handles[q]
           /\ at[q] \in Forking \ {"forkStart"} => obj[q] \notin handles'[p]
    BY <1>1, <1>2, <1>7 DEF LifeInv, LifeOf, TypeOK
  <2> QED
    BY <1>2, <1>4, <1>6, <2>3, <2>5, <2>6, LifeKept
<1>10. ReaperInv'
  <2>1. \A q \in Procs : reaping[q] # None =>
          /\ at'[q] = "entry" /\ state'[q] \notin {"FREE", "NEW"}
          /\ state'[reaping[q]] = "TERMINATED"
    <3> SUFFICES ASSUME NEW q \in Procs, reaping[q] # None
                 PROVE  /\ at'[q] = "entry" /\ state'[q] \notin {"FREE", "NEW"}
                        /\ state'[reaping[q]] = "TERMINATED"
      OBVIOUS
    <3>1. /\ at[q] = "entry" /\ state[q] \notin {"FREE", "NEW"}
          /\ state[reaping[q]] = "TERMINATED" /\ reaping[q] \in Procs
          /\ reaping[q] \notin Range(reaperQueue)
      BY <1>2 DEF ReaperInv, TypeOK
    <3>2. ~isKilled[q] /\ state[q] # "TERMINATED"
      BY <1>2, <3>1 DEF LocationInv, LifeInv, LifeOf, Exiting
    <3> QED
      BY <1>4, <1>7, <3>1, <3>2
  <2>2. \A q \in Procs : reaping[q] \notin Range(reaperQueue')
    BY <1>3
  <2> QED
    BY <1>1, <1>2, <2>1, <2>2 DEF ReaperInv
<1> QED
  BY <1>4, <1>5, <1>8, <1>9, <1>10 DEF LInv

\* checkReaper takes a process from the queue, ...
LEMMA TakeKept ==
  ASSUME IInv, IInv', LInv, NEW p \in Procs, TakeVictim(p)
  PROVE  LInv'
<1> DEFINE x == Head(reaperQueue)
<1>1. /\ Running(p) /\ reaping[p] = None /\ reaperQueue # <<>>
      /\ reaping' = [reaping EXCEPT ![p] = x] /\ reaperQueue' = Tail(reaperQueue)
      /\ UNCHANGED <<current, readyQueue, state, frame, at, obj, waiting, handles, refs>>
  BY DEF TakeVictim, sems
<1>2. /\ TypeOK /\ QueueInv /\ WaitInv /\ LifeInv /\ ReaperInv /\ RefInv
      /\ current = p /\ frame[p] = "none" /\ p # None /\ None \notin Procs
      /\ reaperQueue \in Seq(Procs) /\ IsInjective(reaperQueue) /\ state[p] = "RUNNING"
  BY <1>1, ProcsAssumption DEF IInv, LInv, TypeOK, Running, QueueInv, Queued
<1>3. /\ x \in Procs /\ x \in Range(reaperQueue)
      /\ Range(reaperQueue') = Range(reaperQueue) \ {x} /\ IsInjective(reaperQueue')
  BY <1>1, <1>2, Left
<1> HIDE DEF x
<1>4. at[p] = "entry" /\ state[x] = "TERMINATED"
  BY <1>1, <1>2, <1>3 DEF ReaperInv, QueueInv, Queued
<1>5. \A q \in Procs : reaping'[q] = IF q = p THEN x ELSE reaping[q]
  BY <1>1, <1>2 DEF TypeOK
<1>6. QueueInv'
  BY <1>1, <1>2, <1>3 DEF QueueInv, Queued
<1>7. WaitInv' /\ LifeInv'
  BY <1>1, <1>2 DEF WaitInv, Wants, LifeInv, LifeOf
<1>8. ReaperInv'
  <2>1. ASSUME NEW q \in Procs, reaping'[q] # None
        PROVE  /\ at[q] = "entry" /\ state[q] \notin {"FREE", "NEW"}
               /\ state[reaping'[q]] = "TERMINATED" /\ reaping'[q] \notin Range(reaperQueue')
               /\ \A r \in Procs : reaping'[r] = reaping'[q] => r = q
    <3>1. ASSUME NEW r \in Procs, r # p PROVE reaping[r] # x
      BY <1>2, <1>3, <3>1 DEF ReaperInv
    <3>2. CASE q = p
      BY <1>2, <1>3, <1>4, <1>5, <3>1, <3>2
    <3>3. CASE q # p
      <4>1. /\ reaping'[q] = reaping[q] /\ reaping[q] # None
            /\ at[q] = "entry" /\ state[q] \notin {"FREE", "NEW"}
            /\ state[reaping[q]] = "TERMINATED" /\ reaping[q] \notin Range(reaperQueue)
            /\ \A r \in Procs : reaping[r] = reaping[q] => r = q
        BY <1>2, <1>5, <2>1, <3>3 DEF ReaperInv
      <4>2. \A r \in Procs : reaping'[r] = reaping[q] => r = q
        BY <1>5, <3>1, <3>3, <4>1
      <4> QED
        BY <1>3, <4>1, <4>2
    <3> QED
      BY <3>2, <3>3
  <2> QED
    BY <1>1, <1>2, <1>4, <2>1 DEF ReaperInv
<1>9. RefInv'
  <2>1. ASSUME NEW q \in Procs
        PROVE  q \in Range(reaperQueue') \cup Range(reaping')
                 <=> q \in Range(reaperQueue) \cup Range(reaping)
    <3>1. q \in Range(reaping) <=> \E r \in Procs : reaping[r] = q
      BY <1>2 DEF TypeOK, Range
    <3>2. q \in Range(reaping') <=> \E r \in Procs : reaping'[r] = q
      BY <1>1, <1>2 DEF TypeOK, Range
    <3>3. reaping[p] # q
      BY <1>1, <1>2
    <3>4. q \in Range(reaping') <=> q \in Range(reaping) \/ q = x
      BY <1>5, <3>1, <3>2, <3>3
    <3> QED
      BY <1>3, <3>4
  <2>2. \A q \in Procs : SelfReference(q)' = SelfReference(q) /\ Owners(q)' = Owners(q)
    BY <1>1, <2>1 DEF SelfReference, Owners
  <2> QED
    BY <1>1, <1>2, <2>2 DEF RefInv
<1> QED
  BY <1>6, <1>7, <1>8, <1>9 DEF LInv

\* ... and drops its reference.
LEMMA ReleaseVictimKept ==
  ASSUME IInv, IInv', LInv, NEW p \in Procs, ReleaseVictim(p)
  PROVE  LInv'
<1> DEFINE x == reaping[p]
<1>1. /\ Running(p) /\ x # None /\ Unref({x}, state)
      /\ reaping' = [reaping EXCEPT ![p] = None]
      /\ UNCHANGED <<current, readyQueue, frame, at, obj, waiting, handles, reaperQueue>>
  BY DEF ReleaseVictim, sems
<1>2. /\ TypeOK /\ LocationInv /\ QueueInv /\ WaitInv /\ LifeInv /\ ReaperInv /\ RefInv
      /\ current = p /\ frame[p] = "none" /\ None \notin Procs /\ state[p] = "RUNNING"
      /\ x \in Procs
  BY <1>1, ProcsAssumption DEF IInv, LInv, TypeOK, Running, QueueInv, Queued
<1>3. /\ at[p] = "entry" /\ state[x] = "TERMINATED" /\ x \notin Range(reaperQueue)
      /\ \A q \in Procs : reaping[q] = x => q = p
  BY <1>1, <1>2 DEF ReaperInv
<1>4. \A q \in Procs : reaping'[q] = IF q = p THEN None ELSE reaping[q]
  BY <1>1, <1>2 DEF TypeOK
<1>5. \A q \in Procs : /\ q \in Range(reaping) <=> \E r \in Procs : reaping[r] = q
                       /\ q \in Range(reaping') <=> \E r \in Procs : reaping'[r] = q
  BY <1>1, <1>2 DEF TypeOK, Range
<1>6. /\ x \in Range(reaping) /\ x \notin Range(reaping')
      /\ \A q \in Procs \ {x} : q \in Range(reaping') <=> q \in Range(reaping)
  <2>1. x \in Range(reaping)
    BY <1>2, <1>5
  <2>2. x \notin Range(reaping')
    BY <1>2, <1>3, <1>4, <1>5
  <2>3. ASSUME NEW q \in Procs \ {x} PROVE q \in Range(reaping') <=> q \in Range(reaping)
    BY <1>2, <1>4, <1>5
  <2> QED
    BY <2>1, <2>2, <2>3
<1> HIDE DEF x
<1>7. /\ RefInv'
      /\ \A q \in Procs : \/ state'[q] = state[q]
                          \/ q = x /\ state[q] = "TERMINATED" /\ state'[q] = "FREE"
  <2>1. {x} \in SUBSET Procs
    BY <1>2
  <2>2. \A q \in {x} : /\ state[q] = "TERMINATED"
                       /\ q \in Range(reaperQueue) \cup Range(reaping)
                       /\ q \notin Range(reaperQueue') \cup Range(reaping')
    BY <1>1, <1>3, <1>6
  <2>3. \A q \in Procs \ {x} : q \in Range(reaperQueue') \cup Range(reaping')
                                 <=> q \in Range(reaperQueue) \cup Range(reaping)
    BY <1>1, <1>6
  <2>4. /\ RefInv'
        /\ \A q \in Procs : \/ state'[q] = state[q]
                            \/ q \in {x} /\ state[q] = "TERMINATED" /\ state'[q] = "FREE"
    BY <1>1, <1>2, <2>1, <2>2, <2>3, SelfDropped
  <2> QED
    BY <2>4
<1>8. QueueInv'
  <2>1. Queued(readyQueue, reaperQueue, waiting, state', current)
    BY <1>2, <1>3, <1>7, Deleted DEF QueueInv
  <2> QED
    BY <1>1, <2>1 DEF QueueInv
<1>9. WaitInv'
  BY <1>1, <1>2 DEF WaitInv, Wants
<1>10. state'[p] = "RUNNING"
  BY <1>2, <1>7
<1>11. LifeInv'
  <2>1. LifeOf(p)'
    BY <1>1, <1>2, <1>3, <1>10 DEF LifeInv, LifeOf, Forking, Closing
  <2>2. at'[Idle] \in {"entry", "idle"} /\ state'[Idle] \in {"READY", "RUNNING"}
    BY <1>1, <1>2, <1>7, ProcsAssumption DEF LifeInv
  <2>3. \A q \in Procs \ {p} :
           /\ at'[q] = at[q] /\ obj'[q] = obj[q] /\ frame'[q] = frame[q] /\ handles'[q] = handles[q]
           /\ at[q] \in Forking \ {"forkStart"} => obj[q] \notin handles'[p]
    BY <1>1, <1>2 DEF LifeInv, LifeOf
  <2> QED
    BY <1>2, <1>7, <2>1, <2>2, <2>3, LifeKept
<1>12. ReaperInv'
  <2>1. ASSUME NEW q \in Procs, reaping'[q] # None
        PROVE  /\ at'[q] = "entry" /\ state'[q] \notin {"FREE", "NEW"}
               /\ state'[reaping'[q]] = "TERMINATED" /\ reaping'[q] \notin Range(reaperQueue')
               /\ \A r \in Procs : reaping'[r] = reaping'[q] => r = q
    <3>1. /\ q # p /\ reaping'[q] = reaping[q] /\ reaping[q] # None /\ reaping[q] \in Procs
          /\ reaping[q] # x
      BY <1>2, <1>3, <1>4, <2>1 DEF TypeOK
    <3>2. /\ at[q] = "entry" /\ state[q] \notin {"FREE", "NEW"}
          /\ state[reaping[q]] = "TERMINATED" /\ reaping[q] \notin Range(reaperQueue)
          /\ \A r \in Procs : reaping[r] = reaping[q] => r = q
      BY <1>2, <3>1 DEF ReaperInv
    <3>3. state'[q] = state[q]
      BY <1>2, <1>7, <3>2 DEF LifeInv, LifeOf
    <3>4. \A r \in Procs : reaping'[r] = reaping[q] => r = q
      BY <1>4, <3>1, <3>2
    <3> QED
      BY <1>1, <1>7, <3>1, <3>2, <3>3, <3>4
  <2> QED
    BY <1>1, <1>2, <1>3, <2>1 DEF ReaperInv
<1> QED
  BY <1>7, <1>8, <1>9, <1>11, <1>12 DEF LInv

\* The semaphores inside a process object belong to it alone.
LEMMA SemsApart ==
  ASSUME NEW p \in Procs, NEW q, NEW s \in Mutexes \cup UserSems
  PROVE  /\ s # DoneEvent(p) /\ s # TableMutex(p)
         /\ DoneEvent(p) # TableMutex(q)
         /\ DoneEvent(p) = DoneEvent(q) => p = q
         /\ TableMutex(p) = TableMutex(q) => p = q
BY SemsAssumption DEF DoneEvent, TableMutex

LEMMA OwnSemsApart ==
  ASSUME NEW p \in Procs, NEW q
  PROVE  /\ DoneEvent(p) # TableMutex(q) /\ TableMutex(p) # DoneEvent(q)
         /\ DoneEvent(p) = DoneEvent(q) => p = q
         /\ TableMutex(p) = TableMutex(q) => p = q
BY DEF DoneEvent, TableMutex

\* A process object that is free is in no queue, and nobody waits for it.
LEMMA FreeIsForgotten ==
  ASSUME IInv, LInv, NEW c \in Procs, state[c] = "FREE"
  PROVE  /\ \A q \in Procs : c \notin handles[q] /\ (at[q] \in Forking => obj[q] # c)
         /\ Range(waiting[DoneEvent(c)]) = {} /\ Range(waiting[TableMutex(c)]) = {}
         /\ reaping[c] = None /\ handles[c] = {} /\ refs[c] = 0 /\ c # Idle
         /\ c \notin Range(reaping) /\ c \notin Range(reaperQueue)
<1>1. /\ TypeOK /\ QueueInv /\ WaitInv /\ LifeInv /\ ReaperInv /\ RefInv
  BY DEF IInv, LInv
<1>2. \A q \in Procs : c \notin handles[q] /\ (at[q] \in Forking => obj[q] # c)
  BY <1>1, Referenced DEF LifeInv, LifeOf
<1>3. \A s \in Sems : Range(waiting[s]) \subseteq Procs
  BY <1>1 DEF TypeOK, Range
<1>4. Range(waiting[DoneEvent(c)]) = {}
  <2> SUFFICES ASSUME NEW q \in Procs, q \in Range(waiting[DoneEvent(c)]) PROVE FALSE
    BY <1>3, OwnSems
  <2>1. Wants(q, DoneEvent(c))
    BY <1>1, OwnSems DEF WaitInv
  <2>2. at[q] = "joinUp" /\ obj[q] = c
    BY <2>1, SemsApart, OwnSemsApart DEF Wants
  <2>3. c \in handles[q]
    BY <1>1, <2>2 DEF LifeInv, LifeOf, Closing
  <2> QED
    BY <1>2, <2>3
<1>5. Range(waiting[TableMutex(c)]) = {}
  <2> SUFFICES ASSUME NEW q \in Procs, q \in Range(waiting[TableMutex(c)]) PROVE FALSE
    BY <1>3, OwnSems
  <2>1. Wants(q, TableMutex(c))
    BY <1>1, OwnSems DEF WaitInv
  <2>2. q = c
    BY <2>1, SemsApart, OwnSemsApart DEF Wants
  <2>3. state[q] = "BLOCKED"
    BY <1>1, OwnSems DEF QueueInv, Queued
  <2> QED
    BY <2>2, <2>3
<1>6. c \notin Range(reaping) /\ reaping[c] = None
  <2>1. \A q \in Procs : reaping[q] # c
    BY <1>1, ProcsAssumption DEF ReaperInv
  <2>2. DOMAIN reaping = Procs
    BY <1>1 DEF TypeOK
  <2>3. reaping[c] = None
    BY <1>1 DEF ReaperInv
  <2> QED
    BY <2>1, <2>2, <2>3 DEF Range
<1>7. refs[c] = 0 /\ c # Idle /\ c \notin Range(reaperQueue) /\ handles[c] = {}
  BY <1>1 DEF RefInv, LifeInv, LifeOf, QueueInv, Queued
<1> QED
  BY <1>2, <1>4, <1>5, <1>6, <1>7

\* fork makes a free object a new process.
LEMMA ForkKept ==
  ASSUME IInv, IInv', LInv, NEW p \in Procs, NEW c \in Procs, Fork(p, c)
  PROVE  LInv'
<1>1. /\ Running(p) /\ at[p] = "run" /\ state[c] = "FREE"
      /\ state' = [state EXCEPT ![c] = "NEW"]
      /\ refs' = [refs EXCEPT ![c] = 1]
      /\ frame' = [frame EXCEPT ![c] = "none"]
      /\ at' = [at EXCEPT ![c] = "entry", ![p] = "forkOpen"]
      /\ obj' = [obj EXCEPT ![c] = None, ![p] = c]
      /\ reaping' = [reaping EXCEPT ![c] = None]
      /\ handles' = [handles EXCEPT ![c] = {}]
      /\ waiting' = [waiting EXCEPT ![DoneEvent(c)] = <<>>, ![TableMutex(c)] = <<>>]
      /\ UNCHANGED <<current, readyQueue, reaperQueue>>
  BY DEF Fork
<1>2. /\ TypeOK /\ LocationInv /\ QueueInv /\ WaitInv /\ LifeInv /\ ReaperInv /\ RefInv
  BY DEF IInv, LInv
<1>3. /\ current = p /\ frame[p] = "none" /\ p # Idle /\ state[p] = "RUNNING"
      /\ reaping[p] = None /\ reaperQueue = <<>>
      /\ \A t \in Sems : p \notin Range(waiting[t])
  BY <1>1, Busy
<1>4. /\ \A q \in Procs : c \notin handles[q] /\ (at[q] \in Forking => obj[q] # c)
      /\ Range(waiting[DoneEvent(c)]) = {} /\ Range(waiting[TableMutex(c)]) = {}
      /\ reaping[c] = None /\ handles[c] = {} /\ refs[c] = 0 /\ c # Idle
      /\ c \notin Range(reaping) /\ c \notin Range(reaperQueue)
  BY <1>1, FreeIsForgotten
<1>5. c # p /\ reaping' = reaping /\ handles' = handles
  BY <1>1, <1>2, <1>3, <1>4 DEF TypeOK
<1>6. \A q \in Procs : /\ state'[q] = IF q = c THEN "NEW" ELSE state[q]
                       /\ refs'[q] = IF q = c THEN 1 ELSE refs[q]
                       /\ frame'[q] = IF q = c THEN "none" ELSE frame[q]
                       /\ at'[q] = IF q = p THEN "forkOpen" ELSE IF q = c THEN "entry" ELSE at[q]
                       /\ obj'[q] = IF q = p THEN c ELSE IF q = c THEN None ELSE obj[q]
  BY <1>1, <1>2 DEF TypeOK
<1>7. \A t \in Sems : Range(waiting'[t]) = Range(waiting[t]) /\ IsInjective(waiting'[t])
  <2> SUFFICES ASSUME NEW t \in Sems
               PROVE  Range(waiting'[t]) = Range(waiting[t]) /\ IsInjective(waiting'[t])
    OBVIOUS
  <2>1. CASE t \in {DoneEvent(c), TableMutex(c)}
    <3>1. waiting'[t] = <<>>
      BY <1>1, <1>2, <2>1 DEF TypeOK
    <3> QED
      BY <1>4, <2>1, <3>1, Empty
  <2>2. CASE t \notin {DoneEvent(c), TableMutex(c)}
    <3>1. waiting'[t] = waiting[t]
      BY <1>1, <1>2, <2>2 DEF TypeOK
    <3> QED
      BY <1>2, <3>1 DEF QueueInv, Queued
  <2> QED
    BY <2>1, <2>2
<1>8. QueueInv'
  <2>1. ASSUME NEW q \in Procs
        PROVE  /\ q \in Range(readyQueue') <=> q # Idle /\ state'[q] = "READY"
               /\ q \in Range(reaperQueue') => state'[q] = "TERMINATED"
               /\ state'[q] = "RUNNING" <=> current' = q
               /\ state'[q] = "BLOCKED" <=> \E t \in Sems : q \in Range(waiting'[t])
               /\ \A t, u \in Sems : q \in Range(waiting'[t]) /\ q \in Range(waiting'[u]) => t = u
    <3>1. /\ q \in Range(readyQueue) <=> q # Idle /\ state[q] = "READY"
          /\ q \in Range(reaperQueue) => state[q] = "TERMINATED"
          /\ state[q] = "RUNNING" <=> current = q
          /\ state[q] = "BLOCKED" <=> \E t \in Sems : q \in Range(waiting[t])
          /\ \A t, u \in Sems : q \in Range(waiting[t]) /\ q \in Range(waiting[u]) => t = u
      BY <1>2 DEF QueueInv, Queued
    <3>2. state'[q] = state[q] \/ (q = c /\ state[q] = "FREE" /\ state'[q] = "NEW")
      BY <1>1, <1>6
    <3> QED
      BY <1>1, <1>7, <3>1, <3>2
  <2>2. IsInjective(readyQueue') /\ IsInjective(reaperQueue')
    BY <1>1, <1>2 DEF QueueInv, Queued
  <2> QED
    BY <1>7, <2>1, <2>2 DEF QueueInv, Queued
<1>9. WaitInv'
  <2> SUFFICES ASSUME NEW t \in Sems, NEW q \in Procs, q \in Range(waiting[t])
               PROVE  Wants(q, t)'
    BY <1>7 DEF WaitInv
  <2>1. q # p /\ q # c /\ Wants(q, t)
    <3>1. state[q] = "BLOCKED"
      BY <1>2 DEF QueueInv, Queued
    <3> QED
      BY <1>1, <1>2, <1>3, <3>1 DEF WaitInv
  <2>2. at'[q] = at[q] /\ obj'[q] = obj[q]
    BY <1>6, <2>1
  <2> QED
    BY <2>1, <2>2 DEF Wants
<1>10. RefInv'
  <2> SUFFICES ASSUME NEW q \in Procs
               PROVE  /\ refs'[q] = SelfReference(q)' + Cardinality(Owners(q)')
                      /\ state'[q] = "FREE" <=> refs'[q] = 0
    BY DEF RefInv
  <2>1. Owners(q)' = Owners(q)
    BY <1>5 DEF Owners
  <2>2. CASE q = c
    <3>1. SelfReference(q)' = 1 /\ Owners(q) = {}
      BY <1>4, <1>6, <2>2 DEF SelfReference, Owners
    <3>2. Cardinality(Owners(q)) = 0
      BY <3>1, FS_EmptySet
    <3> QED
      BY <1>6, <2>1, <2>2, <3>1, <3>2
  <2>3. CASE q # c
    <3>1. SelfReference(q)' = SelfReference(q)
      BY <1>1, <1>5, <1>6, <2>3 DEF SelfReference
    <3> QED
      BY <1>2, <1>6, <2>1, <2>3, <3>1 DEF RefInv
  <2> QED
    BY <2>2, <2>3
<1>11. ReaperInv'
  <2>1. ASSUME NEW q \in Procs, reaping[q] # None
        PROVE  /\ at'[q] = "entry" /\ state'[q] \notin {"FREE", "NEW"}
               /\ state'[reaping[q]] = "TERMINATED" /\ reaping[q] \notin Range(reaperQueue)
               /\ \A r \in Procs : reaping[r] = reaping[q] => r = q
    <3>1. q # p /\ q # c /\ reaping[q] \in Procs
      BY <1>2, <1>3, <1>4, <2>1 DEF TypeOK
    <3>2. /\ at[q] = "entry" /\ state[q] \notin {"FREE", "NEW"}
          /\ state[reaping[q]] = "TERMINATED" /\ reaping[q] \notin Range(reaperQueue)
          /\ \A r \in Procs : reaping[r] = reaping[q] => r = q
      BY <1>2, <2>1 DEF ReaperInv
    <3>3. reaping[q] # c
      BY <1>1, <3>2
    <3> QED
      BY <1>6, <3>1, <3>2, <3>3
  <2>2. reaping' = reaping /\ reaperQueue' = reaperQueue /\ reaperQueue = <<>>
    BY <1>1, <1>3, <1>5
  <2> QED
    BY <2>1, <2>2 DEF ReaperInv
<1>12. LifeInv'
  <2>1. LifeOf(c)'
    BY <1>4, <1>5, <1>6 DEF LifeOf, Forking, Closing
  <2>2. LifeOf(p)'
    <3>1. at'[p] = "forkOpen" /\ obj'[p] = c /\ state'[p] = "RUNNING" /\ state'[c] = "NEW"
      BY <1>3, <1>5, <1>6
    <3>2. \A q \in Procs : obj'[p] \notin handles'[q]
      BY <1>4, <1>5, <3>1
    <3>3. \A q \in Procs : at'[p] \in Forking /\ at'[q] \in Forking /\ obj'[p] = obj'[q] => p = q
      <4> SUFFICES ASSUME NEW q \in Procs, q # p, at'[q] \in Forking PROVE obj'[q] # c
        BY <3>1
      <4>1. q # c
        BY <1>6, <1>5 DEF Forking
      <4> QED
        BY <1>4, <1>6, <4>1
    <3> QED
      BY <3>1, <3>2, <3>3 DEF LifeOf, Closing
  <2>3. ASSUME NEW q \in Procs \ {p, c} PROVE LifeOf(q)'
    <3>1. /\ LifeOf(q) /\ (at[q] \in Forking => obj[q] \in Procs)
          /\ (at[q] \in Forking => obj[q] # c)
      BY <1>2, <1>4 DEF LifeInv, LocationInv, Forking
    <3>2. /\ at'[q] = at[q] /\ obj'[q] = obj[q] /\ state'[q] = state[q] /\ frame'[q] = frame[q]
          /\ at[q] \in Forking => state'[obj[q]] = state[obj[q]]
      BY <1>6, <3>1
    <3>3. \A r \in Procs : at'[q] \in Forking /\ at'[r] \in Forking /\ obj'[q] = obj'[r] => q = r
      <4> SUFFICES ASSUME NEW r \in Procs, at[q] \in Forking, at'[r] \in Forking, obj[q] = obj'[r]
                   PROVE  q = r
        BY <3>2
      <4>1. r # c /\ r # p
        BY <1>5, <1>6, <3>1 DEF Forking
      <4> QED
        BY <1>6, <3>1, <4>1 DEF LifeOf
    <3> QED
      BY <1>5, <3>1, <3>2, <3>3 DEF LifeOf
  <2>4. state'[Idle] \in {"READY", "RUNNING"} /\ at'[Idle] \in {"entry", "idle"}
    BY <1>2, <1>3, <1>4, <1>6, ProcsAssumption DEF LifeInv
  <2> QED
    BY <2>1, <2>2, <2>3, <2>4 DEF LifeInv
<1> QED
  BY <1>8, <1>9, <1>10, <1>11, <1>12 DEF LInv

\* ... and starts it.
LEMMA StartKept ==
  ASSUME IInv, IInv', LInv, NEW p \in Procs, ForkStart(p)
  PROVE  LInv'
<1> DEFINE c == obj[p]
<1>1. /\ Running(p) /\ at[p] = "forkStart"
      /\ state' = [state EXCEPT ![c] = "READY"]
      /\ readyQueue' = Enqueued(c, readyQueue)
      /\ at' = [at EXCEPT ![p] = "run"]
      /\ obj' = [obj EXCEPT ![p] = None]
      /\ UNCHANGED <<current, frame, waiting, handles, refs, reaperQueue, reaping>>
  BY DEF ForkStart, sems, objects
<1>2. /\ TypeOK /\ LocationInv /\ QueueInv /\ WaitInv /\ LifeInv /\ ReaperInv /\ RefInv
  BY DEF IInv, LInv
<1>3. /\ current = p /\ frame[p] = "none" /\ p # Idle /\ state[p] = "RUNNING"
      /\ reaping[p] = None /\ reaperQueue = <<>>
      /\ \A t \in Sems : p \notin Range(waiting[t])
  BY <1>1, Busy
<1>4. c \in Procs /\ state[c] = "NEW"
  BY <1>1, <1>2 DEF LocationInv, LifeInv, LifeOf, Forking
<1>5. \A q \in Procs : (at[q] \in Forking /\ obj[q] = c) => q = p
  BY <1>1, <1>2 DEF LifeInv, LifeOf, Forking
<1> HIDE DEF c
<1>6. c # p /\ c # Idle /\ c \notin Range(readyQueue) /\ IsInjective(readyQueue)
      /\ readyQueue \in Seq(Procs)
  BY <1>2, <1>3, <1>4, ProcsAssumption DEF LifeInv, QueueInv, Queued, TypeOK
<1>7. IsInjective(readyQueue') /\ Range(readyQueue') = Range(readyQueue) \cup {c}
  BY <1>1, <1>4, <1>6, Readied
<1>8. \A q \in Procs : /\ state'[q] = IF q = c THEN "READY" ELSE state[q]
                       /\ at'[q] = IF q = p THEN "run" ELSE at[q]
                       /\ obj'[q] = IF q = p THEN None ELSE obj[q]
  BY <1>1, <1>2 DEF TypeOK
<1>9. QueueInv'
  BY <1>1, <1>2, <1>4, <1>6, <1>7, <1>8 DEF QueueInv, Queued
<1>10. WaitInv'
  BY <1>1, <1>2, <1>3, <1>8, WaitKept
<1>11. \A q \in Procs : \/ state'[q] = state[q]
                        \/ state[q] \in Live \cup {"NEW"} /\ state'[q] \in Live
  BY <1>4, <1>8 DEF Live
<1>12. RefInv'
  BY <1>1, <1>2, <1>11, RefKept
<1>13. ReaperInv'
  <2>1. \A q \in Procs : reaping[q] # None =>
          at'[q] = "entry" /\ state'[q] \notin {"FREE", "NEW"} /\ reaping[q] \in Procs
    BY <1>2, <1>3, <1>8 DEF ReaperInv, TypeOK
  <2>2. \A q \in Procs : state[q] = "TERMINATED" => state'[q] = "TERMINATED"
    BY <1>4, <1>8
  <2> QED
    BY <1>1, <1>2, <1>3, <2>1, <2>2, ReaperKept DEF TypeOK
<1>14. LifeInv'
  <2>1. LifeOf(p)'
    <3>1. at'[p] = "run" /\ state'[p] = "RUNNING"
      BY <1>3, <1>6, <1>8
    <3> QED
      BY <3>1 DEF LifeOf, Forking, Closing
  <2>2. at'[Idle] \in {"entry", "idle"} /\ state'[Idle] \in {"READY", "RUNNING"}
    BY <1>2, <1>3, <1>6, <1>8, ProcsAssumption DEF LifeInv
  <2>3. \A q \in Procs \ {p} :
           /\ at'[q] = at[q] /\ obj'[q] = obj[q] /\ frame'[q] = frame[q] /\ handles'[q] = handles[q]
           /\ at[q] \in Forking \ {"forkStart"} => obj[q] \notin handles'[p]
    BY <1>1, <1>2, <1>8 DEF LifeInv, LifeOf
  <2>4. \A q \in Procs \ {p} :
          \/ state'[q] = state[q]
          \/ state[q] = "NEW" /\ state'[q] = "READY" /\ at[p] = "forkStart" /\ obj[p] = q
    BY <1>1, <1>4, <1>8 DEF c
  <2> QED
    BY <1>2, <1>3, <2>1, <2>2, <2>3, <2>4, LifeKept
<1> QED
  BY <1>9, <1>10, <1>12, <1>13, <1>14 DEF LInv

\* In between it has put the child into the table, if a slot was free.
LEMMA InsertKept ==
  ASSUME IInv, IInv', LInv, NEW p \in Procs, ForkInsert(p)
  PROVE  LInv'
<1> DEFINE c == obj[p]
           s == TableMutex(p)
           full == ~(Cardinality(handles[p]) < MaxHandles)
<1>1. /\ Running(p) /\ at[p] = "forkInsert"
      /\ ~full => /\ handles' = [handles EXCEPT ![p] = @ \cup {c}]
                  /\ refs' = [refs EXCEPT ![c] = @ + 1]
      /\ full => UNCHANGED <<handles, refs>>
      /\ Release(p, s) /\ state' = Woken(s)
      /\ at' = [at EXCEPT ![p] = "forkStart"]
      /\ UNCHANGED <<current, frame, obj, reaping, reaperQueue>>
  BY DEF ForkInsert, Ref
<1>2. /\ TypeOK /\ LocationInv /\ QueueInv /\ WaitInv /\ LifeInv /\ ReaperInv /\ RefInv
      /\ s \in Sems
  BY OwnSems DEF IInv, LInv
<1>3. /\ current = p /\ frame[p] = "none" /\ p # Idle /\ state[p] = "RUNNING"
      /\ reaping[p] = None /\ reaperQueue = <<>>
      /\ \A t \in Sems : p \notin Range(waiting[t])
  BY <1>1, Busy
<1>4. /\ c \in Procs /\ state[c] = "NEW" /\ \A q \in Procs : c \notin handles[q]
      /\ \A q \in Procs : (at[q] \in Forking /\ obj[q] = c) => q = p
  BY <1>1, <1>2 DEF LocationInv, LifeInv, LifeOf, Forking
<1> HIDE DEF c, s, full
<1>5. /\ Queued(readyQueue', reaperQueue, waiting', Woken(s), current)
      /\ Shifted(state, state', p) /\ state'[Idle] \in {"READY", "RUNNING"}
      /\ \A t \in Sems : Range(waiting'[t]) \subseteq Range(waiting[t])
  BY <1>1, <1>2, Released
<1>6. QueueInv'
  BY <1>1, <1>5 DEF QueueInv
<1>7. \A q \in Procs : at'[q] = IF q = p THEN "forkStart" ELSE at[q]
  BY <1>1, <1>2 DEF TypeOK
<1>8. WaitInv'
  BY <1>1, <1>2, <1>3, <1>5, <1>7, WaitKept
<1>9. /\ \A q \in Procs : state[q] = "TERMINATED" => state'[q] = "TERMINATED"
      /\ \A q \in Procs : state[q] \in {"NEW", "FREE"} => state'[q] = state[q]
      /\ \A q \in Procs : state[q] \notin {"NEW", "FREE"} => state'[q] \notin {"NEW", "FREE"}
      /\ state'[p] = "RUNNING"
  <2>1. state'[p] = "RUNNING"
    BY <1>1, <1>3, <1>6 DEF QueueInv, Queued
  <2> QED
    BY <1>5, <2>1 DEF Shifted, Live
<1>10. ReaperInv'
  <2>1. \A q \in Procs : reaping[q] # None =>
          at'[q] = "entry" /\ state'[q] \notin {"FREE", "NEW"} /\ reaping[q] \in Procs
    BY <1>2, <1>3, <1>7, <1>9 DEF ReaperInv, TypeOK
  <2> QED
    BY <1>1, <1>2, <1>3, <1>9, <2>1, ReaperKept DEF TypeOK
<1>11. /\ \A r \in Procs : handles'[r] \subseteq handles[r] \cup (IF r = p THEN {c} ELSE {})
       /\ \A r \in Procs : r # p => handles'[r] = handles[r]
  <2>1. DOMAIN handles = Procs
    BY <1>2 DEF TypeOK
  <2>2. handles' = [handles EXCEPT ![p] = @ \cup {c}] \/ handles' = handles
    BY <1>1
  <2> QED
    BY <2>1, <2>2
<1>12. LifeInv'
  <2>1. LifeOf(p)'
    <3>1. at'[p] = "forkStart" /\ obj'[p] = c /\ state'[c] = "NEW" /\ state'[p] = "RUNNING"
      BY <1>1, <1>4, <1>7, <1>9 DEF c
    <3>2. \A q \in Procs : at'[q] \in Forking /\ obj'[q] = c => p = q
      BY <1>1, <1>4, <1>7
    <3> QED
      BY <3>1, <3>2 DEF LifeOf, Closing
  <2>2. at'[Idle] \in {"entry", "idle"}
    BY <1>2, <1>3, <1>7, ProcsAssumption DEF LifeInv
  <2>3. ASSUME NEW q \in Procs \ {p}
        PROVE  /\ at'[q] = at[q] /\ obj'[q] = obj[q] /\ frame'[q] = frame[q]
               /\ handles'[q] = handles[q]
               /\ at[q] \in Forking \ {"forkStart"} => obj[q] \notin handles'[p]
    <3>1. at[q] \in Forking \ {"forkStart"} => obj[q] \notin handles[p] /\ obj[q] # c
      BY <1>2, <1>4 DEF LifeInv, LifeOf
    <3> QED
      BY <1>1, <1>7, <1>11, <3>1
  <2>4. \A q \in Procs \ {p} :
          \/ state'[q] = state[q]
          \/ /\ state[q] \in Live /\ state'[q] \in Live
             /\ state'[q] = "RUNNING" \/ state[q] # "RUNNING"
    BY <1>5 DEF Shifted
  <2> QED
    BY <1>2, <1>3, <1>5, <2>1, <2>2, <2>3, <2>4, LifeKept
<1>13. RefInv'
  <2> SUFFICES ASSUME NEW q \in Procs
               PROVE  /\ refs'[q] = SelfReference(q)' + Cardinality(Owners(q)')
                      /\ state'[q] = "FREE" <=> refs'[q] = 0
    BY DEF RefInv
  <2>1. /\ refs[q] = SelfReference(q) + Cardinality(Owners(q))
        /\ state[q] = "FREE" <=> refs[q] = 0
        /\ IsFiniteSet(Owners(q)) /\ Cardinality(Owners(q)) \in Nat
        /\ SelfReference(q) \in {0, 1}
    BY <1>2, OwnersFinite, SelfCounts DEF RefInv
  <2>2. state'[q] = state[q] \/ (state[q] \in Live /\ state'[q] \in Live)
    BY <1>5 DEF Shifted
  <2>3. SelfReference(q)' = SelfReference(q) /\ (state'[q] = "FREE" <=> state[q] = "FREE")
    BY <1>1, <2>2 DEF SelfReference, Live
  <2>4. CASE full \/ q # c
    <3>1. \A r \in Procs : q \in handles'[r] <=> q \in handles[r]
      <4>1. CASE full
        BY <1>1, <4>1
      <4>2. CASE ~full
        <5>1. \A r \in Procs : handles'[r] = IF r = p THEN handles[p] \cup {c} ELSE handles[r]
          BY <1>1, <1>2, <4>2 DEF TypeOK
        <5> QED
          BY <2>4, <4>2, <5>1
      <4> QED
        BY <4>1, <4>2
    <3>2. Owners(q)' = Owners(q)
      BY <3>1 DEF Owners
    <3>3. refs'[q] = refs[q]
      BY <1>1, <1>2, <1>4, <2>4 DEF TypeOK
    <3> QED
      BY <2>1, <2>3, <3>2, <3>3
  <2>5. CASE ~full /\ q = c
    <3>1. Owners(q)' = Owners(q) \cup {p} /\ p \notin Owners(q)
      BY <1>1, <1>2, <1>4, <2>5 DEF Owners, TypeOK
    <3>2. Cardinality(Owners(q)') = Cardinality(Owners(q)) + 1
      BY <2>1, <3>1, FS_AddElement
    <3>3. refs'[q] = refs[q] + 1
      BY <1>1, <1>2, <2>5 DEF TypeOK
    <3>4. state[q] # "FREE"
      BY <1>4, <2>5
    <3> QED
      BY <2>1, <2>3, <3>2, <3>3, <3>4
  <2> QED
    BY <2>4, <2>5
<1> QED
  BY <1>6, <1>8, <1>10, <1>12, <1>13 DEF LInv

\* close and closeAll: p gives up the handles to S, releases its table and goes on at loc.
LEMMA DropKept ==
  ASSUME IInv, IInv', LInv, NEW p \in Procs, NEW S \in SUBSET handles[p], NEW o,
         NEW loc \in {"run", "signal"}, NEW s \in Sems,
         Running(p), at[p] \in {"emptySlot", "closing"},
         Unref(S, Woken(s)), handles' = [handles EXCEPT ![p] = @ \ S], Release(p, s),
         at' = [at EXCEPT ![p] = loc], obj' = [obj EXCEPT ![p] = o],
         UNCHANGED <<current, frame, reaping, reaperQueue>>,
         loc = "signal" => S = handles[p]
  PROVE  LInv'
<1>1. /\ TypeOK /\ LocationInv /\ QueueInv /\ WaitInv /\ LifeInv /\ ReaperInv /\ RefInv
      /\ Woken(s) \in [Procs -> States]
  BY WokenType DEF IInv, LInv
<1>2. /\ current = p /\ frame[p] = "none" /\ p # Idle /\ state[p] = "RUNNING"
      /\ reaping[p] = None /\ reaperQueue = <<>>
      /\ \A t \in Sems : p \notin Range(waiting[t])
  BY Busy
<1>3. /\ Queued(readyQueue', reaperQueue, waiting', Woken(s), current)
      /\ Shifted(state, Woken(s), p) /\ Woken(s)[Idle] \in {"READY", "RUNNING"}
      /\ \A t \in Sems : Range(waiting'[t]) \subseteq Range(waiting[t])
  BY <1>1, Released
<1>4. /\ RefInv'
      /\ \A q \in Procs : \/ state'[q] = Woken(s)[q]
                          \/ /\ state[q] = "TERMINATED" /\ Woken(s)[q] = "TERMINATED"
                             /\ state'[q] = "FREE"
                             /\ q \notin Range(reaping) /\ q \notin Range(reaperQueue)
  BY <1>1, <1>3, HandlesDropped
<1>5. Queued(readyQueue', reaperQueue, waiting', state', current)
  BY <1>3, <1>4, Deleted
<1>6. QueueInv'
  BY <1>5 DEF QueueInv
<1>7. state'[p] = "RUNNING"
  BY <1>2, <1>5 DEF Queued
<1>8. \A q \in Procs : /\ at'[q] = IF q = p THEN loc ELSE at[q]
                       /\ obj'[q] = IF q = p THEN o ELSE obj[q]
                       /\ handles'[q] = IF q = p THEN handles[p] \ S ELSE handles[q]
  BY <1>1 DEF TypeOK
<1>9. WaitInv'
  BY <1>1, <1>2, <1>3, <1>8, WaitKept
<1>10. \A q \in Procs : \/ state'[q] = state[q]
                        \/ /\ state[q] \in Live /\ state'[q] \in Live
                           /\ q # p => state'[q] = "RUNNING" \/ state[q] # "RUNNING"
                        \/ /\ state[q] = "TERMINATED" /\ state'[q] = "FREE"
                           /\ q \notin Range(reaping)
  BY <1>3, <1>4 DEF Shifted
<1>11. ReaperInv'
  <2>1. ASSUME NEW q \in Procs, reaping[q] # None
        PROVE  at'[q] = "entry" /\ state'[q] \notin {"FREE", "NEW"} /\ reaping[q] \in Procs
    <3>1. /\ q # p /\ at[q] = "entry" /\ state[q] \notin {"FREE", "NEW"} /\ reaping[q] \in Procs
      BY <1>1, <1>2, <2>1 DEF ReaperInv, TypeOK
    <3>2. state[q] # "TERMINATED"
      BY <1>1, <3>1 DEF LifeInv, LifeOf
    <3> QED
      BY <1>8, <1>10, <3>1, <3>2 DEF Live
  <2>2. \A q \in Procs : state[q] = "TERMINATED" => \/ state'[q] = "TERMINATED"
                                                    \/ q \notin Range(reaping)
    BY <1>10 DEF Live
  <2> QED
    BY <1>1, <1>2, <2>1, <2>2, ReaperKept DEF TypeOK
<1>12. LifeInv'
  <2>1. LifeOf(p)'
    BY <1>7, <1>8 DEF LifeOf, Forking, Closing
  <2>2. at'[Idle] \in {"entry", "idle"} /\ state'[Idle] \in {"READY", "RUNNING"}
    BY <1>1, <1>2, <1>3, <1>4, <1>8, ProcsAssumption DEF LifeInv
  <2>3. \A q \in Procs \ {p} :
           /\ at'[q] = at[q] /\ obj'[q] = obj[q] /\ frame'[q] = frame[q] /\ handles'[q] = handles[q]
           /\ at[q] \in Forking \ {"forkStart"} => obj[q] \notin handles'[p]
    BY <1>1, <1>8 DEF LifeInv, LifeOf
  <2>4. state[p] # "NEW"
    BY <1>2
  <2> QED
    BY <1>1, <1>10, <2>1, <2>2, <2>3, <2>4, LifeKept
<1> QED
  BY <1>4, <1>6, <1>9, <1>11, <1>12 DEF LInv

\* The end of exit(): p is queued for the reaper and never runs again.
LEMMA TerminateKept ==
  ASSUME IInv, IInv', LInv, NEW p \in Procs, Terminate(p)
  PROVE  LInv'
<1> DEFINE status == [state EXCEPT ![p] = "TERMINATED"]
<1>1. /\ Running(p) /\ at[p] = "terminate"
      /\ reaperQueue' = Append(reaperQueue, p)
      /\ at' = [at EXCEPT ![p] = "gone"]
      /\ SwitchFrom(readyQueue, status)
      /\ UNCHANGED <<frame, obj, reaping, waiting, handles, refs>>
  BY DEF Terminate, sems
<1>2. /\ TypeOK /\ LocationInv /\ QueueInv /\ WaitInv /\ LifeInv /\ ReaperInv /\ RefInv
      /\ None \notin Procs
  BY ProcsAssumption DEF IInv, LInv
<1>3. /\ current = p /\ frame[p] = "none" /\ p # Idle /\ state[p] = "RUNNING"
      /\ reaping[p] = None /\ reaperQueue = <<>>
      /\ \A t \in Sems : p \notin Range(waiting[t])
  BY <1>1, Busy
<1>4. /\ status \in [Procs -> States]
      /\ \A q \in Procs : status[q] = IF q = p THEN "TERMINATED" ELSE state[q]
  BY <1>2 DEF TypeOK, States
<1> HIDE DEF status
<1>5. /\ readyQueue \in Seq(Procs) /\ IsInjective(readyQueue)
      /\ \A q \in Procs : q \in Range(readyQueue) <=> q # Idle /\ status[q] = "READY"
      /\ \A q \in Procs : status[q] # "RUNNING"
      /\ status[Idle] = "READY"
  BY <1>2, <1>3, <1>4, ProcsAssumption DEF TypeOK, QueueInv, Queued, LifeInv
<1>6. /\ IsInjective(readyQueue')
      /\ current' \in Procs /\ status[current'] = "READY"
      /\ state' = [status EXCEPT ![current'] = "RUNNING"]
      /\ \A q \in Procs : q \in Range(readyQueue') <=> q # Idle /\ state'[q] = "READY"
      /\ \A q \in Procs : state'[q] = "RUNNING" <=> current' = q
  BY <1>1, <1>4, <1>5, Switched
<1>7. /\ current' # p /\ state[current'] = "READY"
      /\ \A q \in Procs : state'[q] = IF q = current' THEN "RUNNING"
                                      ELSE IF q = p THEN "TERMINATED" ELSE state[q]
  BY <1>4, <1>6
<1>8. Range(reaperQueue') = {p} /\ IsInjective(reaperQueue') /\ Range(reaperQueue) = {}
  <2>1. Range(reaperQueue) = {} /\ IsInjective(reaperQueue) /\ reaperQueue \in Seq(Procs)
    BY <1>3, Empty
  <2>2. /\ Range(Append(reaperQueue, p)) = Range(reaperQueue) \cup {p}
        /\ IsInjective(Append(reaperQueue, p))
    BY <2>1, Joined
  <2> QED
    BY <1>1, <2>1, <2>2
<1>9. \A q \in Procs : at'[q] = IF q = p THEN "gone" ELSE at[q]
  BY <1>1, <1>2 DEF TypeOK
<1>10. QueueInv'
  BY <1>1, <1>2, <1>3, <1>6, <1>7, <1>8 DEF QueueInv, Queued
<1>11. WaitInv'
  BY <1>1, <1>2, <1>3, <1>9, WaitKept
<1>12. p \notin Range(reaping)
  <2>1. \A q \in Procs : reaping[q] # p
    BY <1>2, <1>3 DEF ReaperInv
  <2> QED
    BY <1>2, <2>1 DEF TypeOK, Range
<1>13. RefInv'
  <2> SUFFICES ASSUME NEW q \in Procs
               PROVE  /\ refs'[q] = SelfReference(q)' + Cardinality(Owners(q)')
                      /\ state'[q] = "FREE" <=> refs'[q] = 0
    BY DEF RefInv
  <2>1. Owners(q)' = Owners(q)
    BY <1>1 DEF Owners
  <2>2. SelfReference(q)' = SelfReference(q) /\ (state'[q] = "FREE" <=> state[q] = "FREE")
    <3>1. CASE q = p
      BY <1>3, <1>7, <1>8, <3>1 DEF SelfReference
    <3>2. CASE q # p
      BY <1>1, <1>7, <1>8, <3>2 DEF SelfReference
    <3> QED
      BY <3>1, <3>2
  <2>3. refs'[q] = refs[q]
    BY <1>1
  <2> QED
    BY <1>2, <2>1, <2>2, <2>3 DEF RefInv
<1>14. ReaperInv'
  <2>1. ASSUME NEW q \in Procs, reaping[q] # None
        PROVE  /\ at'[q] = "entry" /\ state'[q] \notin {"FREE", "NEW"}
               /\ state'[reaping[q]] = "TERMINATED" /\ reaping[q] \notin Range(reaperQueue')
               /\ \A r \in Procs : reaping[r] = reaping[q] => r = q
    <3>1. /\ q # p /\ reaping[q] # p /\ reaping[q] \in Procs
          /\ at[q] = "entry" /\ state[q] \notin {"FREE", "NEW"}
          /\ state[reaping[q]] = "TERMINATED"
          /\ \A r \in Procs : reaping[r] = reaping[q] => r = q
      BY <1>2, <1>3, <2>1 DEF ReaperInv, TypeOK
    <3> QED
      BY <1>7, <1>8, <1>9, <3>1
  <2>2. frame'[current'] = "none" => at'[current'] = "entry"
    BY <1>1, <1>2, <1>6, <1>7, <1>9 DEF LifeInv, LifeOf
  <2> QED
    BY <1>1, <2>1, <2>2 DEF ReaperInv
<1>15. LifeInv'
  <2>1. handles[p] = {}
    BY <1>1, <1>2 DEF LifeInv, LifeOf
  <2>2. LifeOf(p)'
    BY <1>1, <1>7, <1>9, <2>1 DEF LifeOf, Forking, Closing
  <2>3. at'[Idle] \in {"entry", "idle"} /\ state'[Idle] \in {"READY", "RUNNING"}
    BY <1>2, <1>3, <1>7, <1>9, ProcsAssumption DEF LifeInv
  <2>4. \A q \in Procs \ {p} :
           /\ at'[q] = at[q] /\ obj'[q] = obj[q] /\ frame'[q] = frame[q] /\ handles'[q] = handles[q]
           /\ at[q] \in Forking \ {"forkStart"} => obj[q] \notin handles'[p]
    BY <1>1, <1>9, <2>1
  <2>5. \A q \in Procs \ {p} :
          \/ state'[q] = state[q]
          \/ /\ state[q] \in Live /\ state'[q] \in Live
             /\ state'[q] = "RUNNING" \/ state[q] # "RUNNING"
    BY <1>7 DEF Live
  <2>6. state[p] # "NEW"
    BY <1>3
  <2> QED
    BY <1>2, <2>2, <2>3, <2>4, <2>5, <2>6, LifeKept
<1> QED
  BY <1>10, <1>11, <1>13, <1>14, <1>15 DEF LInv

\* The steps in which the process on the CPU goes on without calling down() or up().
LEMMA PlainKept ==
  ASSUME IInv, IInv', LInv, NEW p \in Procs,
         Begin(p) \/ Kill(p) \/ \E q \in Procs : CloseHandle(p, q)
  PROVE  LInv'
<1>1. /\ Running(p) /\ at[p] \in {"entry", "kill", "run"}
      /\ UNCHANGED <<current, readyQueue, state, frame, waiting, handles, refs,
                     reaperQueue, reaping>>
  BY DEF Begin, Kill, CloseHandle, cpu, sems, objects
<1>2. /\ TypeOK /\ LocationInv /\ QueueInv /\ LifeInv /\ ReaperInv
      /\ current = p /\ frame[p] = "none" /\ state[p] = "RUNNING"
      /\ \A t \in Sems : p \notin Range(waiting[t])
  BY <1>1 DEF IInv, LInv, Running, QueueInv, Queued
<1>3. /\ QueueInv' /\ Shifted(state, state', p) /\ state'[Idle] \in {"READY", "RUNNING"}
      /\ \A t \in Sems : waiting'[t] = waiting[t]
      /\ \A q \in Procs : frame'[q] = frame[q]
      /\ reaping[p] # None => at[p] = "entry"
      /\ p = Idle => at[p] = "entry" /\ ~isKilled[p]
  BY <1>1, <1>2 DEF QueueInv, Shifted, LifeInv, LocationInv, Exiting, ReaperInv
<1>4. CASE Begin(p)
  <2> DEFINE loc == CASE isKilled[p] -> "exit"
                      [] p = Idle /\ ~isKilled[p] -> "idle"
                      [] OTHER -> "run"
  <2>1. /\ at' = [at EXCEPT ![p] = loc] /\ obj' = [obj EXCEPT ![p] = obj[p]]
        /\ reaping[p] = None /\ reaperQueue = <<>> /\ at[p] \in {"entry", "kill"}
    BY <1>2, <1>4 DEF Begin, TypeOK
  <2>2. /\ loc \in {"exit", "idle", "run"} /\ (p = Idle => loc = "idle")
        /\ loc = "idle" => p = Idle
    BY <1>3
  <2> HIDE DEF loc
  <2>3. loc = "idle" => handles[p] = {}
    BY <1>2, <1>3, <2>2 DEF LifeInv, LifeOf
  <2>4. loc \in Locations /\ loc \notin {"gone", "entry"} \cup Forking \cup Closing
    BY <2>2 DEF Locations, Forking, Closing
  <2> QED
    BY <1>1, <1>2, <1>3, <2>1, <2>2, <2>3, <2>4, Moved
<1>5. CASE Kill(p)
  <2>1. /\ at' = [at EXCEPT ![p] = "kill"] /\ obj' = [obj EXCEPT ![p] = obj[p]]
        /\ at[p] = "run"
    BY <1>2, <1>5 DEF Kill, TypeOK
  <2>2. p # Idle /\ reaperQueue = <<>> /\ reaping[p] = None
    BY <1>1, <2>1, Busy
  <2>3. "kill" \in Locations /\ "kill" \notin Forking \cup Closing
    BY DEF Locations, Forking, Closing
  <2> QED
    BY <1>1, <1>2, <1>3, <2>1, <2>2, <2>3, Moved
<1>6. ASSUME NEW q \in Procs, CloseHandle(p, q) PROVE LInv'
  <2>1. /\ at' = [at EXCEPT ![p] = "closeSlot"] /\ obj' = [obj EXCEPT ![p] = q]
        /\ at[p] = "run" /\ q \in handles[p]
    BY <1>6 DEF CloseHandle
  <2>2. p # Idle /\ reaperQueue = <<>> /\ reaping[p] = None
    BY <1>1, <2>1, Busy
  <2>3. "closeSlot" \in Locations /\ "closeSlot" \notin Forking
    BY DEF Locations, Forking
  <2> QED
    BY <1>1, <1>2, <1>3, <2>1, <2>2, <2>3, Moved
<1> QED
  BY <1>4, <1>5, <1>6

\* The system calls that call down().
LEMMA CallsDownKept ==
  ASSUME IInv, IInv', LInv, NEW p \in Procs,
         \/ \E s \in UserSems : UserDown(p, s)
         \/ \E m \in Mutexes : Lock(p, m)
         \/ \E q \in Procs : Join(p, q)
         \/ ForkOpen(p) \/ CloseSlot(p) \/ Exit(p)
  PROVE  LInv'
<1>1. /\ TypeOK /\ LocationInv /\ LifeInv
      /\ \A o : o = obj[p] => (obj' = obj => obj' = [obj EXCEPT ![p] = o])
  BY DEF IInv, LInv, TypeOK
<1>2. ASSUME NEW s \in UserSems, UserDown(p, s) PROVE LInv'
  <2>1. s \in Sems /\ Running(p) /\ at[p] = "run" /\ Down(p, s, "run") /\ obj' = obj
    BY <1>2 DEF UserDown, Sems
  <2> QED
    BY <1>1, <2>1, DownKept
<1>3. ASSUME NEW m \in Mutexes, Lock(p, m) PROVE LInv'
  <2>1. /\ m \in Sems /\ Running(p) /\ at[p] = "run" /\ Down(p, m, "crit")
        /\ obj' = [obj EXCEPT ![p] = m]
    BY <1>3 DEF Lock, Sems
  <2> QED
    BY <2>1, DownKept
<1>4. ASSUME NEW q \in Procs, Join(p, q) PROVE LInv'
  <2>1. /\ DoneEvent(q) \in Sems /\ Running(p) /\ at[p] = "run" /\ q \in handles[p]
        /\ Down(p, DoneEvent(q), "joinUp") /\ obj' = [obj EXCEPT ![p] = q]
    BY <1>4, OwnSems DEF Join
  <2> QED
    BY <2>1, DownKept
<1>5. CASE ForkOpen(p)
  <2>1. /\ TableMutex(p) \in Sems /\ Running(p) /\ at[p] = "forkOpen"
        /\ Down(p, TableMutex(p), "forkInsert") /\ obj' = obj
    BY <1>5, OwnSems DEF ForkOpen
  <2>2. /\ obj[p] \in Procs /\ state[obj[p]] = "NEW"
        /\ \A q \in Procs \ {p} : at[q] \in Forking => obj[q] # obj[p]
        /\ \A q \in Procs : obj[p] \notin handles[q]
    BY <1>1, <2>1 DEF LocationInv, LifeInv, LifeOf, Forking
  <2> QED
    BY <1>1, <2>1, <2>2, DownKept
<1>6. CASE CloseSlot(p)
  <2>1. /\ TableMutex(p) \in Sems /\ Running(p) /\ at[p] = "closeSlot"
        /\ Down(p, TableMutex(p), "emptySlot") /\ obj' = obj
    BY <1>6, OwnSems DEF CloseSlot
  <2>2. obj[p] \in handles[p]
    BY <1>1, <2>1 DEF LifeInv, LifeOf, Closing
  <2> QED
    BY <1>1, <2>1, <2>2, DownKept
<1>7. CASE Exit(p)
  <2>1. /\ TableMutex(p) \in Sems /\ Running(p) /\ at[p] \in {"run", "exit"}
        /\ Down(p, TableMutex(p), "closing") /\ obj' = obj
    BY <1>7, OwnSems DEF Exit
  <2> QED
    BY <1>1, <2>1, DownKept
<1> QED
  BY <1>2, <1>3, <1>4, <1>5, <1>6, <1>7

\* The system calls that call up().
LEMMA CallsUpKept ==
  ASSUME IInv, IInv', LInv, NEW p \in Procs,
         \/ \E s \in UserSems : UserUp(p, s)
         \/ Unlock(p) \/ JoinUp(p) \/ Signal(p) \/ EmptySlot(p) \/ CloseAll(p)
  PROVE  LInv'
<1>1. /\ TypeOK /\ LocationInv /\ LifeInv
      /\ \A o : o = obj[p] => (obj' = obj => obj' = [obj EXCEPT ![p] = o])
  BY DEF IInv, LInv, TypeOK
<1>2. ASSUME NEW s \in UserSems, UserUp(p, s) PROVE LInv'
  <2>1. s \in Sems /\ Running(p) /\ at[p] = "run" /\ Up(p, s, "run") /\ obj' = obj
    BY <1>2 DEF UserUp, Sems
  <2> QED
    BY <1>1, <2>1, UpKept
<1>3. CASE Unlock(p)
  <2>1. /\ Running(p) /\ at[p] = "crit" /\ Up(p, obj[p], "run")
        /\ obj' = [obj EXCEPT ![p] = None]
    BY <1>3 DEF Unlock
  <2>2. obj[p] \in Sems
    BY <1>1, <2>1 DEF LocationInv, Sems
  <2> QED
    BY <2>1, <2>2, UpKept
<1>4. CASE JoinUp(p)
  <2>1. /\ Running(p) /\ at[p] = "joinUp" /\ Up(p, DoneEvent(obj[p]), "closeSlot")
        /\ obj' = obj
    BY <1>4 DEF JoinUp
  <2>2. obj[p] \in handles[p] /\ DoneEvent(obj[p]) \in Sems
    BY <1>1, <2>1, OwnSems DEF LocationInv, LifeInv, LifeOf, Closing
  <2> QED
    BY <1>1, <2>1, <2>2, UpKept
<1>5. CASE Signal(p)
  <2>1. /\ Running(p) /\ at[p] = "signal" /\ Up(p, DoneEvent(p), "terminate")
        /\ obj' = obj /\ DoneEvent(p) \in Sems
    BY <1>5, OwnSems DEF Signal
  <2>2. handles[p] = {}
    BY <1>1, <2>1 DEF LifeInv, LifeOf
  <2> QED
    BY <1>1, <2>1, <2>2, UpKept
<1>6. CASE EmptySlot(p)
  <2>1. /\ Running(p) /\ at[p] = "emptySlot" /\ TableMutex(p) \in Sems
        /\ Unref({obj[p]}, Woken(TableMutex(p)))
        /\ handles' = [handles EXCEPT ![p] = @ \ {obj[p]}]
        /\ Release(p, TableMutex(p)) /\ at' = [at EXCEPT ![p] = "run"]
        /\ obj' = [obj EXCEPT ![p] = None]
        /\ UNCHANGED <<current, frame, reaping, reaperQueue>>
    BY <1>6, OwnSems DEF EmptySlot
  <2>2. {obj[p]} \in SUBSET handles[p]
    BY <1>1, <2>1 DEF LifeInv, LifeOf, Closing
  <2> QED
    BY <2>1, <2>2, DropKept
<1>7. CASE CloseAll(p)
  <2>1. /\ Running(p) /\ at[p] = "closing" /\ TableMutex(p) \in Sems
        /\ Unref(handles[p], Woken(TableMutex(p)))
        /\ handles' = [handles EXCEPT ![p] = {}]
        /\ Release(p, TableMutex(p)) /\ at' = [at EXCEPT ![p] = "signal"] /\ obj' = obj
        /\ UNCHANGED <<current, frame, reaping, reaperQueue>>
    BY <1>7, OwnSems DEF CloseAll
  <2>2. /\ handles[p] \in SUBSET handles[p]
        /\ handles' = [handles EXCEPT ![p] = @ \ handles[p]]
    BY <2>1
  <2> QED
    BY <1>1, <2>1, <2>2, DropKept
<1> QED
  BY <1>2, <1>3, <1>4, <1>5, <1>6, <1>7

LEMMA InitLInv == Init => LInv
<1> SUFFICES ASSUME Init PROVE LInv
  OBVIOUS
<1>1. /\ current = None /\ readyQueue = <<Primordial>> /\ reaperQueue = <<>>
      /\ \A p \in Procs :
           /\ state[p] = IF p \in {Idle, Primordial} THEN "READY" ELSE "FREE"
           /\ refs[p] = IF p \in {Idle, Primordial} THEN 1 ELSE 0
           /\ at[p] = "entry" /\ reaping[p] = None /\ handles[p] = {}
      /\ \A s \in Sems : waiting[s] = <<>>
      /\ reaping = [p \in Procs |-> None]
  BY DEF Init
<1>2. Range(readyQueue) = {Primordial} /\ IsInjective(readyQueue)
  BY <1>1 DEF Range, IsInjective
<1>3. /\ Range(reaperQueue) = {} /\ IsInjective(reaperQueue)
      /\ \A s \in Sems : Range(waiting[s]) = {} /\ IsInjective(waiting[s])
  BY <1>1, Empty
<1>4. QueueInv
  BY <1>1, <1>2, <1>3, ProcsAssumption DEF QueueInv, Queued
<1>5. WaitInv
  BY <1>3 DEF WaitInv
<1>6. LifeInv
  BY <1>1, ProcsAssumption DEF LifeInv, LifeOf, Forking, Closing
<1>7. ReaperInv
  BY <1>1 DEF ReaperInv
<1>8. RefInv
  <2> SUFFICES ASSUME NEW q \in Procs
               PROVE  /\ refs[q] = SelfReference(q) + Cardinality(Owners(q))
                      /\ state[q] = "FREE" <=> refs[q] = 0
    BY DEF RefInv
  <2>1. Owners(q) = {}
    BY <1>1 DEF Owners
  <2>2. Cardinality(Owners(q)) = 0
    BY <2>1, FS_EmptySet
  <2>3. q \notin Range(reaperQueue) /\ q \notin Range(reaping)
    BY <1>1, <1>3, ProcsAssumption DEF Range
  <2>4. SelfReference(q) = IF q \in {Idle, Primordial} THEN 1 ELSE 0
    BY <1>1, <2>3 DEF SelfReference
  <2> QED
    BY <1>1, <2>2, <2>4
<1> QED
  BY <1>4, <1>5, <1>6, <1>7, <1>8 DEF LInv

\* Every step of the kernel keeps the queues, the lives and the references in order.
LEMMA NextLInv == IInv /\ LInv /\ [Next]_vars => LInv'
<1> SUFFICES ASSUME IInv, LInv, [Next]_vars PROVE LInv'
  OBVIOUS
<1>0. IInv'
  BY NextInv
<1>1. CASE UNCHANGED vars
  BY <1>1 DEF vars, LInv, QueueInv, WaitInv, Wants, LifeInv, LifeOf, ReaperInv, RefInv,
              SelfReference, Owners
<1>2. CASE Boot
  BY <1>0, <1>2, BootKept
<1>3. CASE Interrupt
  <2>1. /\ current \in Procs /\ Preempt(current, "irq", 2)
        /\ UNCHANGED <<at, obj, waiting, handles, refs, reaperQueue, reaping>>
    BY <1>3 DEF Interrupt, sems, objects, IInv, TypeOK, InterruptDiscipline
  <2> QED
    BY <1>0, <2>1, YieldKept
<1>4. ASSUME NEW p \in Procs, Choice(p) \/ Continue(p)
      PROVE  LInv'
  <2>1. CASE Yield(p)
    <3>1. /\ current = p /\ Preempt(p, "yield", disableCount[p] + 1)
          /\ UNCHANGED <<at, obj, waiting, handles, refs, reaperQueue, reaping>>
      BY <2>1 DEF Yield, Running, sems, objects
    <3> QED
      BY <1>0, <3>1, YieldKept
  <2>2. CASE \/ \E s \in UserSems : UserDown(p, s)
             \/ \E m \in Mutexes : Lock(p, m)
             \/ \E q \in Procs : Join(p, q)
             \/ ForkOpen(p) \/ CloseSlot(p) \/ Exit(p)
    BY <1>0, <2>2, CallsDownKept
  <2>3. CASE \/ \E s \in UserSems : UserUp(p, s)
             \/ Unlock(p) \/ JoinUp(p) \/ Signal(p) \/ EmptySlot(p) \/ CloseAll(p)
    BY <1>0, <2>3, CallsUpKept
  <2>4. CASE Begin(p) \/ Kill(p) \/ \E q \in Procs : CloseHandle(p, q)
    BY <1>0, <2>4, PlainKept
  <2>5. CASE \E c \in Procs : Fork(p, c)
    BY <1>0, <2>5, ForkKept
  <2>6. CASE ForkInsert(p) \/ ForkStart(p)
    BY <1>0, <2>6, InsertKept, StartKept
  <2>7. CASE Resume(p) \/ TakeVictim(p) \/ ReleaseVictim(p)
    BY <1>0, <2>7, ResumeKept, TakeKept, ReleaseVictimKept
  <2>8. CASE Terminate(p)
    BY <1>0, <2>8, TerminateKept
  <2> QED
    BY <1>4, <2>1, <2>2, <2>3, <2>4, <2>5, <2>6, <2>7, <2>8 DEF Choice, Continue
<1> QED
  BY <1>1, <1>2, <1>3, <1>4 DEF Next

LEMMA LifeInvariance == Spec => [](IInv /\ LInv)
<1>1. Init => IInv /\ LInv
  BY InitInv, InitLInv
<1>2. (IInv /\ LInv) /\ [Next]_vars => (IInv /\ LInv)'
  BY NextInv, NextLInv
<1> QED
  BY <1>1, <1>2, PTL DEF Spec

-----------------------------------------------------------------------------
\* makeReady, down(), up(), yield(), exit and checkReaper keep every process in exactly
\* the queue its state names, once, whatever the interrupts do: no process is lost and
\* none is dispatched twice.
THEOREM NoProcessLost == Spec => []QueuesExclusive
<1>1. IInv /\ LInv => QueuesExclusive
  <2> SUFFICES ASSUME IInv, LInv PROVE QueuesExclusive
    OBVIOUS
  <2>1. TypeOK /\ QueueInv
    BY DEF IInv, LInv
  <2>2. /\ Range(readyQueue) \subseteq Procs /\ Range(reaperQueue) \subseteq Procs
        /\ \A s \in Sems : Range(waiting[s]) \subseteq Procs
    BY <2>1 DEF TypeOK, Range
  <2>3. /\ IsInjective(readyQueue) /\ IsInjective(reaperQueue)
        /\ \A s \in Sems : IsInjective(waiting[s])
    BY <2>1 DEF QueueInv, Queued
  <2>4. \A q \in {readyQueue, reaperQueue} \cup {waiting[s] : s \in Sems} : IsInjective(q)
    BY <2>3
  <2>5. \A s, t \in Sems : s # t => Range(waiting[s]) \cap Range(waiting[t]) = {}
    BY <2>1, <2>2 DEF QueueInv, Queued
  <2>6. Range(readyQueue) = {p \in Procs \ {Idle} : state[p] = "READY"}
    BY <2>1, <2>2 DEF QueueInv, Queued
  <2>7. UNION {Range(waiting[s]) : s \in Sems} = {p \in Procs : state[p] = "BLOCKED"}
    BY <2>1, <2>2 DEF QueueInv, Queued
  <2>8. Range(reaperQueue) \subseteq {p \in Procs : state[p] = "TERMINATED"}
    BY <2>1, <2>2 DEF QueueInv, Queued
  <2>9. {p \in Procs : state[p] = "RUNNING"} = {current} \ {None}
    BY <2>1, ProcsAssumption DEF QueueInv, Queued, TypeOK
  <2> QED
    BY <2>4, <2>5, <2>6, <2>7, <2>8, <2>9 DEF QueuesExclusive
<1> QED
  BY <1>1, LifeInvariance, PTL

\* The reference count of a process object is the number of its owners through fork,
\* close, closeAll, exit and the reaper: it is deleted when the last one lets go, never
\* before, and join and close work on an object that still exists.
THEOREM DeletedWithLastReference == Spec => []ReferencesExact
<1>1. IInv /\ LInv => ReferencesExact
  <2> SUFFICES ASSUME IInv, LInv, NEW q \in Procs
               PROVE  /\ refs[q] = SelfReference(q) + Cardinality({p \in Procs : q \in handles[p]})
                      /\ state[q] = "FREE" <=> refs[q] = 0
                      /\ \A p \in Procs : (at[p] \in {"joinUp", "closeSlot", "emptySlot"} /\ obj[p] = q)
                                            => state[q] # "FREE"
    BY DEF ReferencesExact
  <2>1. /\ refs[q] = SelfReference(q) + Cardinality({p \in Procs : q \in handles[p]})
        /\ state[q] = "FREE" <=> refs[q] = 0
    BY DEF LInv, RefInv, Owners
  <2>2. ASSUME NEW p \in Procs, at[p] \in {"joinUp", "closeSlot", "emptySlot"}, obj[p] = q
        PROVE  state[q] # "FREE"
    <3>1. q \in handles[p]
      BY <2>2 DEF LInv, LifeInv, LifeOf, Closing
    <3> QED
      BY <3>1, Referenced DEF LInv
  <2> QED
    BY <2>1, <2>2
<1> QED
  BY <1>1, LifeInvariance, PTL

-----------------------------------------------------------------------------
(* Mutexes, and the event that join waits for                              *)

KernelSems == Sems \ UserSems

\* The processes that have come through down(s) and not called up(s) yet. One that
\* up() has handed the semaphore to is through from then on.
Through(s) == {p \in Procs : Wants(p, s) /\ p \notin Range(waiting[s])}

\* The three conditions of a semaphore that has one unit, or none yet.
Free(s) == count[s] = 1 /\ waiting[s] = <<>> /\ Through(s) = {}
Taken(s) == count[s] = 0 /\ \E h \in Procs : Through(s) = {h}
Unset(s) == count[s] = 0 /\ Through(s) = {}

Alive == {q \in Procs : ~isKilled[q]}
LocksInv == \A m \in Mutexes \cup {TableMutex(q) : q \in Alive} : Free(m) \/ Taken(m)

Signalled(q) == at[q] \in {"terminate", "gone"}

\* A killed process that an interrupt sent back to exit() from its end is never
\* interrupted again.
Marked(q) == Signalled(q) \/ (current = q /\ frame[q] = "none" /\ iDepth[q] # 0)

EventInv ==
  \A q \in Procs :
    /\ at[q] = "terminate" => frame[q] \in {"none", "irq"}
    /\ ~isKilled[q] => IF Signalled(q) THEN Free(DoneEvent(q)) \/ Taken(DoneEvent(q))
                                       ELSE Unset(DoneEvent(q))
    /\ isKilled[q] => Unset(DoneEvent(q)) \/ Marked(q)

KInv == LocksInv /\ EventInv

-----------------------------------------------------------------------------
(* What a step may do to a semaphore of the kernel                         *)

Same(s) == UNCHANGED <<count[s], waiting[s], Through(s)>>

Takes(p, s) ==
  /\ count[s] > 0 /\ count'[s] = count[s] - 1
  /\ p \notin Through(s) /\ Through(s)' = Through(s) \cup {p}
  /\ waiting'[s] = waiting[s]

Waits(p, s) ==
  /\ count[s] = 0 /\ count'[s] = 0
  /\ p \notin Through(s) /\ Through(s)' = Through(s)
  /\ p \notin Range(waiting[s]) /\ waiting'[s] = Append(waiting[s], p)

Gives(p, s) ==
  IF waiting[s] = <<>>
    THEN /\ count'[s] = count[s] + 1 /\ waiting'[s] = <<>>
         /\ Through(s)' = Through(s) \ {p}
    ELSE /\ count'[s] = count[s] /\ waiting'[s] = Tail(waiting[s])
         /\ Head(waiting[s]) \in Procs
         /\ Through(s)' = (Through(s) \ {p}) \cup {Head(waiting[s])}

\* What is to be known of a semaphore before a step.
LEMMA KernelSem ==
  ASSUME IInv, LInv, NEW s \in KernelSems
  PROVE  /\ s \in Sems /\ count[s] \in Nat /\ waiting[s] \in Seq(Procs)
         /\ IsInjective(waiting[s]) /\ Range(waiting[s]) \subseteq Procs
         /\ \A p \in Range(waiting[s]) : Wants(p, s)
<1>1. /\ s \in Sems /\ TypeOK /\ QueueInv /\ WaitInv
  BY DEF KernelSems, IInv, LInv
<1>2. count[s] \in Nat /\ waiting[s] \in Seq(Procs)
  BY <1>1 DEF TypeOK
<1>3. IsInjective(waiting[s]) /\ Range(waiting[s]) \subseteq Procs
  BY <1>1, <1>2 DEF QueueInv, Queued, Range
<1> QED
  BY <1>1, <1>2, <1>3 DEF WaitInv

\* A step that does not touch a semaphore.
LEMMA Untouched ==
  ASSUME NEW s \in KernelSems, count'[s] = count[s], waiting'[s] = waiting[s],
         \A q \in Procs : Wants(q, s)' <=> Wants(q, s)
  PROVE  Same(s)
BY DEF Same, Through

\* The locations at which a process is through down() or waits in it.
Inside == {"crit", "forkInsert", "emptySlot", "closing", "joinUp"}

LEMMA Outside ==
  ASSUME NEW q, NEW s \in KernelSems, at[q] \notin Inside
  PROVE  ~Wants(q, s)
BY DEF Wants, Inside, KernelSems

LEMMA Elsewhere ==
  ASSUME NEW q, NEW s \in KernelSems,
         \/ at'[q] = at[q] /\ obj'[q] = obj[q]
         \/ at[q] \notin Inside /\ at'[q] \notin Inside
  PROVE  Wants(q, s)' <=> Wants(q, s)
BY DEF Wants, Inside, KernelSems

\* down() that does not panic.
LEMMA DownStep ==
  ASSUME IInv, LInv, NEW p \in Procs, NEW s \in Sems, NEW loc \in Locations, NEW o,
         Running(p), at[p] \notin Inside \cup {"entry", "idle"},
         Down(p, s, loc), obj' = [obj EXCEPT ![p] = o], ~panicked',
         \A t \in KernelSems : Wants(p, t)' <=> t = s,
         NEW t \in KernelSems
  PROVE  Same(t) \/ (t = s /\ (Takes(p, t) \/ Waits(p, t)))
<1>1. /\ count \in [Sems -> Nat] /\ waiting \in [Sems -> Seq(Procs)] /\ t \in Sems
      /\ at \in [Procs -> Locations] /\ obj \in [Procs -> Procs \cup Mutexes \cup {None}]
      /\ count[s] \in Nat
  BY DEF IInv, TypeOK, KernelSems
<1>2. \A q \in Procs \ {p} : Wants(q, t)' <=> Wants(q, t)
  BY <1>1, Elsewhere DEF Down
<1>3. ~Wants(p, t) /\ p \notin Range(waiting[t]) /\ p \notin Through(t)
  BY <1>1, Outside, Busy DEF Through
<1>4. CASE t # s
  <2>1. count'[t] = count[t] /\ waiting'[t] = waiting[t]
    BY <1>1, <1>4 DEF Down, sems
  <2>2. ~Wants(p, t)'
    BY <1>4
  <2> QED
    BY <1>2, <1>3, <2>1, <2>2, Untouched
<1>5. CASE t = s /\ count[s] > 0
  <2>1. count' = [count EXCEPT ![s] = @ - 1] /\ waiting' = waiting
    BY <1>5 DEF Down
  <2>2. count'[t] = count[t] - 1 /\ waiting'[t] = waiting[t] /\ Wants(p, t)'
    BY <1>1, <1>5, <2>1
  <2>3. Through(t)' = Through(t) \cup {p}
    BY <1>2, <1>3, <2>2 DEF Through
  <2> QED
    BY <1>3, <1>5, <2>2, <2>3 DEF Takes
<1>6. CASE t = s /\ ~(count[s] > 0)
  <2>1. waiting' = [waiting EXCEPT ![s] = Append(@, p)] /\ count' = count
    BY <1>6 DEF Down
  <2>2. count[t] = 0 /\ count'[t] = 0 /\ waiting'[t] = Append(waiting[t], p)
    BY <1>1, <1>6, <2>1
  <2>3. Range(waiting'[t]) = Range(waiting[t]) \cup {p}
    BY <1>1, <2>2, Joined
  <2>4. Through(t)' = Through(t)
    BY <1>2, <1>3, <2>3 DEF Through
  <2> QED
    BY <1>3, <1>6, <2>2, <2>4 DEF Waits
<1> QED
  BY <1>4, <1>5, <1>6

\* up().
LEMMA UpStep ==
  ASSUME IInv, LInv, NEW p \in Procs, NEW s \in Sems, NEW loc \in Locations \ Inside, NEW o,
         Running(p), at[p] \notin {"entry", "idle"},
         Release(p, s), at' = [at EXCEPT ![p] = loc], obj' = [obj EXCEPT ![p] = o],
         \A t \in KernelSems : Wants(p, t) => t = s,
         NEW t \in KernelSems
  PROVE  IF t = s THEN Gives(p, t) ELSE Same(t)
<1>1. /\ count \in [Sems -> Nat] /\ waiting \in [Sems -> Seq(Procs)] /\ t \in Sems
      /\ at \in [Procs -> Locations] /\ obj \in [Procs -> Procs \cup Mutexes \cup {None}]
      /\ count[s] \in Nat
  BY DEF IInv, TypeOK, KernelSems
<1>2. \A q \in Procs \ {p} : Wants(q, t)' <=> Wants(q, t)
  BY <1>1, Elsewhere
<1>3. p \notin Range(waiting[t])
  BY <1>1, Busy
<1>4. at'[p] = loc
  BY <1>1
<1>5. ~Wants(p, t)'
  BY <1>4 DEF Wants, Inside, KernelSems
<1>6. CASE t # s
  <2>1. count'[t] = count[t] /\ waiting'[t] = waiting[t]
    BY <1>1, <1>6 DEF Release
  <2>2. ~Wants(p, t)
    BY <1>6
  <2> QED
    BY <1>2, <1>5, <1>6, <2>1, <2>2, Untouched
<1>7. CASE t = s /\ waiting[s] = <<>>
  <2>1. count' = [count EXCEPT ![s] = @ + 1] /\ waiting' = waiting
    BY <1>7 DEF Release
  <2>2. count'[t] = count[t] + 1 /\ waiting'[t] = <<>> /\ waiting[t] = <<>>
    BY <1>1, <1>7, <2>1
  <2>3. Through(t)' = Through(t) \ {p}
    BY <1>2, <1>5, <2>2 DEF Through
  <2> QED
    BY <1>7, <2>2, <2>3 DEF Gives
<1>8. CASE t = s /\ waiting[s] # <<>>
  <2> DEFINE h == Head(waiting[s])
  <2>1. count' = count /\ waiting' = [waiting EXCEPT ![s] = Tail(@)]
    BY <1>8 DEF Release
  <2>2. count'[t] = count[t] /\ waiting'[t] = Tail(waiting[t])
    BY <1>1, <1>8, <2>1
  <2>3. /\ h \in Procs /\ h \in Range(waiting[t])
        /\ Range(waiting'[t]) = Range(waiting[t]) \ {h}
    BY <1>1, <1>8, <2>2, KernelSem, Left
  <2> HIDE DEF h
  <2>4. Wants(h, t) /\ h # p
    BY <1>3, <2>3, KernelSem
  <2>5. Through(t)' = (Through(t) \ {p}) \cup {h}
    BY <1>2, <1>5, <2>3, <2>4 DEF Through
  <2>6. h = Head(waiting[t])
    BY <1>8 DEF h
  <2> QED
    BY <1>8, <2>2, <2>3, <2>5, <2>6 DEF Gives
<1> QED
  BY <1>6, <1>7, <1>8

\* A semaphore of a new process: fork() creates it.
Reset(c, s) ==
  /\ \E p \in Procs : Fork(p, c)
  /\ s \in {DoneEvent(c), TableMutex(c)}
  /\ count'[s] = IF s = TableMutex(c) THEN 1 ELSE 0
  /\ waiting'[s] = <<>> /\ Through(s)' = {}

\* The mutex of the table of a killed process, which nobody else uses.
Abandoned(s) == \E q \in Procs : s = TableMutex(q) /\ isKilled[q] /\ isKilled'[q]

Handed(p, s) ==
  /\ Running(p) /\ Gives(p, s)
  /\ p \in Through(s) \/ (Signal(p) /\ s = DoneEvent(p))

SemStep(s) ==
  \/ Same(s) \/ Abandoned(s)
  \/ \E p \in Procs : Takes(p, s) \/ Waits(p, s) \/ Handed(p, s)
  \/ \E c \in Procs : Reset(c, s)

\* The semaphores by their owners.
LEMMA WantsOf ==
  ASSUME NEW p \in Procs, NEW s \in KernelSems
  PROVE  /\ at[p] = "crit" /\ obj[p] \in Mutexes => (Wants(p, s) <=> s = obj[p])
         /\ at[p] \in {"forkInsert", "emptySlot", "closing"} => (Wants(p, s) <=> s = TableMutex(p))
         /\ at[p] = "joinUp" => (Wants(p, s) <=> s = DoneEvent(obj[p]))
BY DEF Wants, KernelSems

LEMMA WantsThen ==
  ASSUME NEW p \in Procs, NEW s \in KernelSems
  PROVE  /\ at'[p] = "crit" /\ obj'[p] \in Mutexes => (Wants(p, s)' <=> s = obj'[p])
         /\ at'[p] \in {"forkInsert", "emptySlot", "closing"} => (Wants(p, s)' <=> s = TableMutex(p))
         /\ at'[p] = "joinUp" => (Wants(p, s)' <=> s = DoneEvent(obj'[p]))
         /\ at'[p] \notin Inside => ~Wants(p, s)'
BY DEF Wants, KernelSems, Inside

LEMMA CallsDownStep ==
  ASSUME IInv, LInv, NEW p \in Procs,
         \/ \E s \in UserSems : UserDown(p, s)
         \/ \E m \in Mutexes : Lock(p, m)
         \/ \E q \in Procs : Join(p, q)
         \/ ForkOpen(p) \/ CloseSlot(p) \/ (Exit(p) /\ ~isKilled[p]),
         NEW t \in KernelSems
  PROVE  Same(t) \/ Takes(p, t) \/ Waits(p, t)
<1>1. PICK s \in Sems, loc \in {"run", "crit", "forkInsert", "joinUp", "emptySlot", "closing"},
              o \in Procs \cup Mutexes \cup {None} :
        /\ Running(p) /\ at[p] \in {"run", "exit", "forkOpen", "closeSlot"}
        /\ at[p] = "exit" => ~isKilled[p]
        /\ loc = "closing" => ~isKilled[p]
        /\ Down(p, s, loc) /\ obj' = [obj EXCEPT ![p] = o]
        /\ \/ s \in UserSems /\ loc = "run"
           \/ s \in Mutexes /\ loc = "crit" /\ o = s
           \/ s = TableMutex(p) /\ loc \in {"forkInsert", "emptySlot", "closing"}
           \/ s = DoneEvent(o) /\ loc = "joinUp"
  <2>1. /\ obj' = obj => obj' = [obj EXCEPT ![p] = obj[p]]
        /\ obj[p] \in Procs \cup Mutexes \cup {None}
    BY DEF IInv, TypeOK
  <2>2. ASSUME NEW s \in UserSems, UserDown(p, s)
        PROVE  /\ s \in Sems /\ Running(p) /\ at[p] = "run" /\ Down(p, s, "run")
               /\ obj' = [obj EXCEPT ![p] = obj[p]]
    BY <2>1, <2>2 DEF UserDown, Sems
  <2>3. ASSUME NEW m \in Mutexes, Lock(p, m)
        PROVE  /\ m \in Sems /\ Running(p) /\ at[p] = "run" /\ Down(p, m, "crit")
               /\ obj' = [obj EXCEPT ![p] = m]
    BY <2>3 DEF Lock, Sems
  <2>4. ASSUME NEW q \in Procs, Join(p, q)
        PROVE  /\ DoneEvent(q) \in Sems /\ Running(p) /\ at[p] = "run"
               /\ Down(p, DoneEvent(q), "joinUp") /\ obj' = [obj EXCEPT ![p] = q]
    BY <2>4, OwnSems DEF Join
  <2>5. CASE ForkOpen(p)
    <3>1. /\ TableMutex(p) \in Sems /\ Running(p) /\ at[p] = "forkOpen"
          /\ Down(p, TableMutex(p), "forkInsert") /\ obj' = [obj EXCEPT ![p] = obj[p]]
      BY <2>1, <2>5, OwnSems DEF ForkOpen
    <3> QED
      BY <2>1, <3>1
  <2>6. CASE CloseSlot(p)
    <3>1. /\ TableMutex(p) \in Sems /\ Running(p) /\ at[p] = "closeSlot"
          /\ Down(p, TableMutex(p), "emptySlot") /\ obj' = [obj EXCEPT ![p] = obj[p]]
      BY <2>1, <2>6, OwnSems DEF CloseSlot
    <3> QED
      BY <2>1, <3>1
  <2>7. CASE Exit(p) /\ ~isKilled[p]
    <3>1. /\ TableMutex(p) \in Sems /\ Running(p) /\ at[p] \in {"run", "exit"}
          /\ Down(p, TableMutex(p), "closing") /\ obj' = [obj EXCEPT ![p] = obj[p]]
      BY <2>1, <2>7, OwnSems DEF Exit
    <3> QED
      BY <2>1, <2>7, <3>1
  <2>8. CASE \E s \in UserSems : UserDown(p, s)
    BY <2>1, <2>2, <2>8
  <2>9. CASE \E m \in Mutexes : Lock(p, m)
    BY <2>3, <2>9
  <2>10. CASE \E q \in Procs : Join(p, q)
    BY <2>4, <2>10
  <2> QED
    BY <2>5, <2>6, <2>7, <2>8, <2>9, <2>10
<1>2. loc \in Locations /\ at[p] \notin Inside \cup {"entry", "idle", "gone"}
  BY <1>1 DEF Locations, Inside
<1>3. ~isKilled[p]
  BY <1>1 DEF IInv, LocationInv, Exiting
<1>4. ~panicked'
  BY <1>1, <1>2, <1>3, DownPanics
<1>5. at'[p] = loc /\ obj'[p] = o
  BY <1>1 DEF Down, IInv, TypeOK
<1>6. ASSUME NEW u \in KernelSems PROVE Wants(p, u)' <=> u = s
  <2>1. CASE loc = "run"
    BY <1>1, <1>5, <2>1, WantsThen DEF KernelSems, Inside
  <2>2. CASE loc # "run"
    BY <1>1, <1>5, <2>2, WantsThen
  <2> QED
    BY <2>1, <2>2
<1> QED
  BY <1>1, <1>2, <1>4, <1>6, DownStep

LEMMA CallsUpStep ==
  ASSUME IInv, LInv, NEW p \in Procs,
         \/ \E s \in UserSems : UserUp(p, s)
         \/ Unlock(p) \/ JoinUp(p) \/ Signal(p) \/ ForkInsert(p) \/ EmptySlot(p) \/ CloseAll(p),
         NEW t \in KernelSems
  PROVE  Same(t) \/ Handed(p, t)
<1>0. /\ TypeOK /\ LocationInv /\ obj[p] \in Procs \cup Mutexes \cup {None}
      /\ obj' = obj => obj' = [obj EXCEPT ![p] = obj[p]]
  BY DEF IInv, TypeOK
<1>1. ASSUME NEW s \in Sems, NEW loc \in Locations \ Inside, NEW o,
             Running(p), at[p] \notin {"entry", "idle"},
             Release(p, s), at' = [at EXCEPT ![p] = loc], obj' = [obj EXCEPT ![p] = o],
             \A u \in KernelSems : Wants(p, u) => u = s,
             s \in UserSems \/ Wants(p, s) \/ (Signal(p) /\ s = DoneEvent(p))
      PROVE  Same(t) \/ Handed(p, t)
  <2>1. Same(t) \/ (t = s /\ Gives(p, t))
    BY <1>1, UpStep
  <2>2. ASSUME t = s, Wants(p, s) PROVE p \in Through(t)
    <3>1. p \notin Range(waiting[t])
      BY <1>1, <2>2, Busy
    <3> QED
      BY <2>2, <3>1 DEF Through
  <2> QED
    BY <1>1, <2>1, <2>2 DEF Handed, KernelSems
<1>2. ASSUME NEW s \in UserSems, UserUp(p, s) PROVE Same(t) \/ Handed(p, t)
  <2>1. /\ s \in Sems /\ Running(p) /\ at[p] = "run" /\ Release(p, s)
        /\ at' = [at EXCEPT ![p] = "run"] /\ obj' = [obj EXCEPT ![p] = obj[p]]
    BY <1>0, <1>2 DEF UserUp, Up, Sems
  <2>2. "run" \in Locations \ Inside /\ \A u \in KernelSems : ~Wants(p, u)
    BY <2>1, Outside DEF Locations, Inside
  <2> QED
    BY <1>1, <2>1, <2>2
<1>3. CASE Unlock(p)
  <2>1. /\ Running(p) /\ at[p] = "crit" /\ Release(p, obj[p])
        /\ at' = [at EXCEPT ![p] = "run"] /\ obj' = [obj EXCEPT ![p] = None]
    BY <1>3 DEF Unlock, Up
  <2>2. obj[p] \in Mutexes /\ obj[p] \in Sems /\ obj[p] \in KernelSems
    BY <1>0, <2>1, SemsAssumption DEF LocationInv, Sems, KernelSems
  <2>3. "run" \in Locations \ Inside /\ \A u \in KernelSems : Wants(p, u) <=> u = obj[p]
    BY <2>1, <2>2, WantsOf DEF Locations, Inside
  <2> QED
    BY <1>1, <2>1, <2>2, <2>3
<1>4. CASE JoinUp(p)
  <2>1. /\ Running(p) /\ at[p] = "joinUp" /\ Release(p, DoneEvent(obj[p]))
        /\ at' = [at EXCEPT ![p] = "closeSlot"] /\ obj' = [obj EXCEPT ![p] = obj[p]]
    BY <1>0, <1>4 DEF JoinUp, Up
  <2>2. DoneEvent(obj[p]) \in KernelSems /\ DoneEvent(obj[p]) \in Sems
    <3>1. obj[p] \in Procs
      BY <1>0, <2>1 DEF LocationInv
    <3> QED
      BY <3>1, OwnSems, SemsApart DEF KernelSems
  <2>3. "closeSlot" \in Locations \ Inside /\ \A u \in KernelSems : Wants(p, u) <=> u = DoneEvent(obj[p])
    BY <2>1, WantsOf DEF Locations, Inside
  <2> QED
    BY <1>1, <2>1, <2>2, <2>3
<1>5. CASE Signal(p)
  <2>1. /\ Running(p) /\ at[p] = "signal" /\ Release(p, DoneEvent(p))
        /\ at' = [at EXCEPT ![p] = "terminate"] /\ obj' = [obj EXCEPT ![p] = obj[p]]
        /\ DoneEvent(p) \in Sems
    BY <1>0, <1>5, OwnSems DEF Signal, Up
  <2>2. "terminate" \in Locations \ Inside /\ \A u \in KernelSems : ~Wants(p, u)
    BY <2>1, Outside DEF Locations, Inside
  <2> QED
    BY <1>1, <1>5, <2>1, <2>2
<1>6. CASE ForkInsert(p) \/ EmptySlot(p) \/ CloseAll(p)
  <2>1. \E loc \in {"forkStart", "run", "signal"}, o \in Procs \cup Mutexes \cup {None} :
          /\ Running(p) /\ at[p] \in {"forkInsert", "emptySlot", "closing"}
          /\ Release(p, TableMutex(p))
          /\ at' = [at EXCEPT ![p] = loc] /\ obj' = [obj EXCEPT ![p] = o]
    BY <1>0, <1>6 DEF ForkInsert, EmptySlot, CloseAll
  <2>2. TableMutex(p) \in KernelSems /\ TableMutex(p) \in Sems
    BY OwnSems, SemsApart DEF KernelSems
  <2>3. /\ {"forkStart", "run", "signal"} \subseteq Locations \ Inside
        /\ \A u \in KernelSems : Wants(p, u) <=> u = TableMutex(p)
    BY <2>1, WantsOf DEF Locations, Inside
  <2> QED
    BY <1>1, <2>1, <2>2, <2>3
<1> QED
  BY <1>2, <1>3, <1>4, <1>5, <1>6

\* The steps that leave every semaphore alone.
LEMMA QuietStep ==
  ASSUME IInv, LInv, NEW p \in Procs,
         \/ Boot \/ Interrupt \/ Yield(p) \/ Kill(p) \/ \E q \in Procs : CloseHandle(p, q)
         \/ TakeVictim(p) \/ ReleaseVictim(p) \/ Begin(p) \/ ForkStart(p) \/ Terminate(p),
         NEW t \in KernelSems
  PROVE  Same(t)
<1>1. count' = count /\ waiting' = waiting
  BY DEF Boot, Interrupt, Yield, Kill, CloseHandle, TakeVictim, ReleaseVictim, Begin, ForkStart,
         Terminate, sems
<1>2. \A q \in Procs : \/ at'[q] = at[q] /\ obj'[q] = obj[q]
                       \/ at[q] \notin Inside /\ at'[q] \notin Inside
  <2>1. at \in [Procs -> Locations] /\ obj \in [Procs -> Procs \cup Mutexes \cup {None}]
    BY DEF IInv, TypeOK
  <2>2. CASE Boot \/ Interrupt \/ Yield(p) \/ TakeVictim(p) \/ ReleaseVictim(p)
    BY <2>2 DEF Boot, Interrupt, Yield, TakeVictim, ReleaseVictim
  <2>3. CASE Kill(p) \/ Begin(p) \/ ForkStart(p) \/ Terminate(p) \/ \E q \in Procs : CloseHandle(p, q)
    <3>1. /\ at[p] \notin Inside /\ at'[p] \notin Inside
          /\ \A q \in Procs \ {p} : at'[q] = at[q] /\ obj'[q] = obj[q]
      BY <2>1, <2>3 DEF Kill, Begin, ForkStart, Terminate, CloseHandle, Inside
    <3> QED
      BY <3>1
  <2> QED
    BY <2>2, <2>3
<1> QED
  BY <1>1, <1>2, Elsewhere, Untouched

\* A killed process may go back to exit() with the mutex of its table in its hands, and
\* find itself locked out.
LEMMA KilledStep ==
  ASSUME IInv, LInv, NEW p \in Procs, Resume(p) \/ (Exit(p) /\ isKilled[p]),
         NEW t \in KernelSems
  PROVE  Same(t) \/ Abandoned(t)
<1>1. at \in [Procs -> Locations] /\ waiting \in [Sems -> Seq(Procs)] /\ count \in [Sems -> Nat]
      /\ isKilled' = isKilled /\ t \in Sems
  BY DEF IInv, TypeOK, Resume, Exit, Down, KernelSems
<1>2. CASE isKilled[p] /\ t = TableMutex(p)
  BY <1>1, <1>2 DEF Abandoned
<1>3. CASE Resume(p) /\ ~(isKilled[p] /\ t = TableMutex(p))
  <2>1. /\ count' = count /\ waiting' = waiting /\ obj' = obj
        /\ at' = IF isKilled[p] THEN [at EXCEPT ![p] = "exit"] ELSE at
    BY <1>3 DEF Resume, sems
  <2>2. \A q \in Procs \ {p} : at'[q] = at[q] /\ obj'[q] = obj[q]
    BY <1>1, <2>1
  <2>3. Wants(p, t)' <=> Wants(p, t)
    <3>1. CASE ~isKilled[p]
      BY <2>1, <3>1 DEF Wants
    <3>2. CASE isKilled[p]
      <4>1. ~Wants(p, t)'
        BY <1>1, <2>1, <3>2, WantsThen DEF Inside
      <4>2. at[p] \in Exiting
        BY <3>2 DEF IInv, LocationInv
      <4>3. ~Wants(p, t)
        BY <1>3, <3>2, <4>2, WantsOf, Outside DEF Exiting, Inside
      <4> QED
        BY <4>1, <4>3
    <3> QED
      BY <3>1, <3>2
  <2> QED
    BY <2>1, <2>2, <2>3, Elsewhere, Untouched
<1>4. CASE Exit(p) /\ t # TableMutex(p)
  <2>1. /\ at[p] \in {"run", "exit"} /\ Down(p, TableMutex(p), "closing") /\ obj' = obj
    BY <1>4 DEF Exit
  <2>2. at' = [at EXCEPT ![p] = "closing"] /\ count'[t] = count[t] /\ waiting'[t] = waiting[t]
    BY <1>1, <1>4, <2>1 DEF Down, sems
  <2>3. ~Wants(p, t) /\ ~Wants(p, t)'
    BY <1>1, <1>4, <2>1, <2>2, Outside, WantsThen DEF Inside
  <2>4. \A q \in Procs \ {p} : Wants(q, t)' <=> Wants(q, t)
    BY <1>1, <2>1, <2>2, Elsewhere
  <2> QED
    BY <2>2, <2>3, <2>4, Untouched
<1> QED
  BY <1>2, <1>3, <1>4

\* fork() creates the semaphores of the child and leaves all others alone.
LEMMA ForkStep ==
  ASSUME IInv, LInv, NEW p \in Procs, NEW c \in Procs, Fork(p, c), NEW t \in KernelSems
  PROVE  IF t \in {DoneEvent(c), TableMutex(c)} THEN Reset(c, t) ELSE Same(t)
<1>1. /\ Running(p) /\ at[p] = "run" /\ state[c] = "FREE"
      /\ at' = [at EXCEPT ![c] = "entry", ![p] = "forkOpen"]
      /\ obj' = [obj EXCEPT ![c] = None, ![p] = c]
      /\ count' = [count EXCEPT ![DoneEvent(c)] = 0, ![TableMutex(c)] = 1]
      /\ waiting' = [waiting EXCEPT ![DoneEvent(c)] = <<>>, ![TableMutex(c)] = <<>>]
  BY DEF Fork
<1>2. /\ at \in [Procs -> Locations] /\ obj \in [Procs -> Procs \cup Mutexes \cup {None}]
      /\ count \in [Sems -> Nat] /\ waiting \in [Sems -> Seq(Procs)] /\ t \in Sems
      /\ LifeInv /\ LocationInv
  BY DEF IInv, LInv, TypeOK, KernelSems
<1>3. at[c] \in {"entry", "gone"}
  BY <1>1, <1>2 DEF LifeInv, LifeOf
<1>4. \A q \in Procs : \/ at'[q] = at[q] /\ obj'[q] = obj[q]
                       \/ at[q] \notin Inside /\ at'[q] \notin Inside
  BY <1>1, <1>2, <1>3 DEF Inside
<1>5. \A q \in Procs : Wants(q, t)' <=> Wants(q, t)
  BY <1>4, Elsewhere
<1>6. CASE t \notin {DoneEvent(c), TableMutex(c)}
  <2>1. count'[t] = count[t] /\ waiting'[t] = waiting[t]
    BY <1>1, <1>2, <1>6
  <2> QED
    BY <1>5, <1>6, <2>1, Untouched
<1>7. CASE t \in {DoneEvent(c), TableMutex(c)}
  <2>1. /\ count'[t] = IF t = TableMutex(c) THEN 1 ELSE 0
        /\ waiting'[t] = <<>>
    BY <1>1, <1>2, <1>7, OwnSemsApart
  <2>2. ASSUME NEW q \in Procs, Wants(q, t) PROVE FALSE
    <3>1. at[q] \in Inside
      BY <2>2, Outside
    <3>2. q # c
      BY <1>3, <3>1 DEF Inside
    <3>3. at[q] = "joinUp" /\ obj[q] = c
      <4>1. t \notin Mutexes /\ t \notin UserSems /\ t # TableMutex(q)
        BY <1>7, <3>2, SemsApart, OwnSemsApart DEF KernelSems
      <4>2. at[q] = "joinUp" /\ t = DoneEvent(obj[q])
        BY <2>2, <4>1 DEF Wants
      <4> QED
        BY <1>7, <4>2, OwnSemsApart
    <3>4. c \in handles[q]
      BY <1>2, <3>3 DEF LifeInv, LifeOf, Closing
    <3> QED
      BY <1>1, <3>4, FreeIsForgotten
  <2>3. Through(t)' = {}
    BY <1>5, <2>2 DEF Through
  <2> QED
    BY <1>7, <2>1, <2>3 DEF Reset
<1> QED
  BY <1>6, <1>7

LEMMA SemSteps ==
  ASSUME IInv, LInv, Next, NEW t \in KernelSems
  PROVE  SemStep(t)
<1>1. CASE Boot \/ Interrupt
  BY <1>1, QuietStep, ProcsAssumption DEF SemStep
<1>2. ASSUME NEW p \in Procs, Choice(p) \/ Continue(p) PROVE SemStep(t)
  <2>1. CASE \/ Yield(p) \/ Kill(p) \/ \E q \in Procs : CloseHandle(p, q)
             \/ TakeVictim(p) \/ ReleaseVictim(p) \/ Begin(p) \/ ForkStart(p) \/ Terminate(p)
    <3>1. Same(t)
      BY <2>1, QuietStep
    <3> QED
      BY <3>1 DEF SemStep
  <2>2. CASE \/ \E s \in UserSems : UserDown(p, s)
             \/ \E m \in Mutexes : Lock(p, m)
             \/ \E q \in Procs : Join(p, q)
             \/ ForkOpen(p) \/ CloseSlot(p) \/ (Exit(p) /\ ~isKilled[p])
    <3>1. Same(t) \/ Takes(p, t) \/ Waits(p, t)
      BY <2>2, CallsDownStep
    <3> QED
      BY <3>1 DEF SemStep
  <2>3. CASE \/ \E s \in UserSems : UserUp(p, s)
             \/ Unlock(p) \/ JoinUp(p) \/ Signal(p) \/ ForkInsert(p) \/ EmptySlot(p) \/ CloseAll(p)
    <3>1. Same(t) \/ Handed(p, t)
      BY <2>3, CallsUpStep
    <3> QED
      BY <3>1 DEF SemStep
  <2>4. CASE Resume(p) \/ (Exit(p) /\ isKilled[p])
    <3>1. Same(t) \/ Abandoned(t)
      BY <2>4, KilledStep
    <3> QED
      BY <3>1 DEF SemStep
  <2>5. ASSUME NEW c \in Procs, Fork(p, c) PROVE SemStep(t)
    <3>1. Same(t) \/ Reset(c, t)
      BY <2>5, ForkStep
    <3> QED
      BY <3>1 DEF SemStep
  <2> QED
    BY <1>2, <2>1, <2>2, <2>3, <2>4, <2>5 DEF Choice, Continue
<1> QED
  BY <1>1, <1>2 DEF Next

-----------------------------------------------------------------------------
(* What a unit does in such a step                                         *)

\* A semaphore with one unit: it is there, or one process has it.
LEMMA UnitKept ==
  ASSUME IInv, LInv, NEW s \in KernelSems, Free(s) \/ Taken(s),
         \/ Same(s)
         \/ \E p \in Procs : Takes(p, s) \/ Waits(p, s) \/ (Gives(p, s) /\ p \in Through(s))
  PROVE  (Free(s) \/ Taken(s))'
<1>1. CASE Same(s)
  BY <1>1 DEF Same, Free, Taken
<1>2. ASSUME NEW p \in Procs, Takes(p, s) PROVE Taken(s)'
  <2>1. Free(s)
    BY <1>2 DEF Takes, Taken
  <2>2. count'[s] = 0 /\ Through(s)' = {p}
    BY <1>2, <2>1 DEF Takes, Free
  <2> QED
    BY <2>2 DEF Taken
<1>3. ASSUME NEW p \in Procs, Waits(p, s) PROVE Taken(s)'
  BY <1>3 DEF Waits, Free, Taken
<1>4. ASSUME NEW p \in Procs, Gives(p, s), p \in Through(s) PROVE (Free(s) \/ Taken(s))'
  <2>1. count[s] = 0 /\ Through(s) = {p}
    BY <1>4 DEF Free, Taken
  <2>2. CASE waiting[s] = <<>>
    <3>1. count'[s] = 1 /\ waiting'[s] = <<>> /\ Through(s)' = {}
      BY <1>4, <2>1, <2>2 DEF Gives
    <3> QED
      BY <3>1 DEF Free
  <2>3. CASE waiting[s] # <<>>
    <3>1. count'[s] = 0 /\ Head(waiting[s]) \in Procs /\ Through(s)' = {Head(waiting[s])}
      BY <1>4, <2>1, <2>3 DEF Gives
    <3> QED
      BY <3>1 DEF Taken
  <2> QED
    BY <2>2, <2>3
<1> QED
  BY <1>1, <1>2, <1>3, <1>4

\* A semaphore without a unit: nobody gets through before somebody calls up().
LEMMA UnsetKept ==
  ASSUME NEW s \in KernelSems, Unset(s),
         Same(s) \/ \E p \in Procs : Takes(p, s) \/ Waits(p, s) \/ (Gives(p, s) /\ p \in Through(s))
  PROVE  Unset(s)'
<1>1. CASE Same(s)
  BY <1>1 DEF Same, Unset
<1>2. ASSUME NEW p \in Procs, Takes(p, s) \/ Waits(p, s) \/ (Gives(p, s) /\ p \in Through(s))
      PROVE  Unset(s)'
  BY <1>2 DEF Takes, Waits, Unset
<1> QED
  BY <1>1, <1>2

LEMMA UnitGiven ==
  ASSUME NEW s \in KernelSems, Unset(s), NEW p \in Procs, Gives(p, s)
  PROVE  (Free(s) \/ Taken(s))'
<1>1. count[s] = 0 /\ Through(s) = {}
  BY DEF Unset
<1>2. CASE waiting[s] = <<>>
  <2>1. count'[s] = 1 /\ waiting'[s] = <<>> /\ Through(s)' = {}
    BY <1>1, <1>2 DEF Gives
  <2> QED
    BY <2>1 DEF Free
<1>3. CASE waiting[s] # <<>>
  <2>1. count'[s] = 0 /\ Head(waiting[s]) \in Procs /\ Through(s)' = {Head(waiting[s])}
    BY <1>1, <1>3 DEF Gives
  <2> QED
    BY <2>1 DEF Taken
<1> QED
  BY <1>2, <1>3

\* The end of a process, as the others see it.
LEMMA SignalStep ==
  ASSUME IInv, LInv, NEW p \in Procs, Signal(p)
  PROVE  Gives(p, DoneEvent(p))
<1>1. /\ Running(p) /\ at[p] = "signal" /\ Release(p, DoneEvent(p))
      /\ at' = [at EXCEPT ![p] = "terminate"] /\ obj' = [obj EXCEPT ![p] = obj[p]]
      /\ DoneEvent(p) \in Sems
  BY OwnSems DEF Signal, Up, IInv, TypeOK
<1>2. /\ "terminate" \in Locations \ Inside /\ \A u \in KernelSems : ~Wants(p, u)
      /\ DoneEvent(p) \in KernelSems
  BY <1>1, Outside, SemsApart DEF Locations, Inside, KernelSems
<1> QED
  BY <1>1, <1>2, UpStep

Onward(q) ==
  /\ at'[q] = "terminate" => frame'[q] \in {"none", "irq"}
  /\ isKilled[q] => isKilled'[q]
  /\ ~isKilled[q] /\ isKilled'[q] => ~Signalled(q)
  /\ ~isKilled[q] /\ ~isKilled'[q] => (Signalled(q)' <=> Signalled(q))
  /\ isKilled[q] /\ Marked(q) => Marked(q)'

\* A step of p as another process q, which p does not create, sees it.
LEMMA OthersEnd ==
  ASSUME IInv, EventInv, NEW p \in Procs, NEW q \in Procs \ {p},
         Choice(p) \/ Continue(p), ~Fork(p, q)
  PROVE  Onward(q)
<1>1. /\ frame \in [Procs -> Frames] /\ at \in [Procs -> Locations]
      /\ isKilled \in [Procs -> BOOLEAN] /\ iDepth \in [Procs -> Nat]
  BY DEF IInv, TypeOK
<1>2. current = p
  BY DEF Choice, Continue, Yield, UserDown, UserUp, Lock, Fork, Join, CloseHandle, Kill, Exit,
         Resume, TakeVictim, ReleaseVictim, Begin, Unlock, ForkOpen, ForkInsert, ForkStart,
         JoinUp, CloseSlot, EmptySlot, CloseAll, Signal, Terminate, Running
<1>3. at'[q] = at[q] /\ frame'[q] = frame[q] /\ isKilled'[q] = isKilled[q]
  <2>1. CASE Choice(p)
    <3>1. CASE \/ \E s \in UserSems : UserDown(p, s)
               \/ \E m \in Mutexes : Lock(p, m)
               \/ \E c \in Procs : Join(p, c)
               \/ Exit(p)
      BY <1>1, <3>1 DEF UserDown, Lock, Join, Exit, Down
    <3>2. CASE Yield(p) \/ Kill(p)
      BY <1>1, <3>2 DEF Yield, Kill, Preempt
    <3>3. ASSUME NEW c \in Procs, Fork(p, c)
          PROVE  at'[q] = at[q] /\ frame'[q] = frame[q] /\ isKilled'[q] = isKilled[q]
      BY <1>1, <3>3 DEF Fork
    <3>4. CASE \/ \E s \in UserSems : UserUp(p, s)
               \/ \E c \in Procs : CloseHandle(p, c)
      BY <1>1, <3>4 DEF UserUp, Up, CloseHandle, cpu
    <3> QED
      BY <2>1, <3>1, <3>2, <3>3, <3>4 DEF Choice
  <2>2. CASE Continue(p)
    <3>1. CASE ForkOpen(p) \/ CloseSlot(p)
      BY <1>1, <3>1 DEF ForkOpen, CloseSlot, Down
    <3>2. CASE Unlock(p) \/ JoinUp(p) \/ Signal(p)
      BY <1>1, <3>2 DEF Unlock, JoinUp, Signal, Up
    <3>3. CASE ForkInsert(p) \/ EmptySlot(p) \/ CloseAll(p)
      BY <1>1, <3>3 DEF ForkInsert, EmptySlot, CloseAll
    <3>4. CASE Resume(p) \/ TakeVictim(p) \/ ReleaseVictim(p) \/ Begin(p)
      BY <1>1, <3>4 DEF Resume, TakeVictim, ReleaseVictim, Begin
    <3>5. CASE ForkStart(p) \/ Terminate(p)
      BY <1>1, <3>5 DEF ForkStart, Terminate
    <3> QED
      BY <2>2, <3>1, <3>2, <3>3, <3>4, <3>5 DEF Continue
  <2> QED
    BY <2>1, <2>2
<1>4. at[q] = "terminate" => frame[q] \in {"none", "irq"}
  BY DEF EventInv
<1> QED
  BY <1>2, <1>3, <1>4 DEF Onward, Marked, Signalled

\* A step of q itself, except its signal.
LEMMA OwnEnd ==
  ASSUME IInv, LInv, EventInv, NEW q \in Procs, Choice(q) \/ Continue(q),
         ~Fork(q, q), ~Signal(q)
  PROVE  Onward(q)
<1>1. /\ frame \in [Procs -> Frames] /\ at \in [Procs -> Locations]
      /\ isKilled \in [Procs -> BOOLEAN] /\ iDepth \in [Procs -> Nat]
      /\ isKilled[q] => at[q] \in Exiting
      /\ at[q] = "terminate" => frame[q] \in {"none", "irq"}
      /\ frame[q] = "irq" => iDepth[q] = 1
  BY DEF IInv, TypeOK, LocationInv, EventInv, InterruptDiscipline
<1>2. ASSUME ~isKilled[q], isKilled'[q] = isKilled[q],
             at[q] \notin {"terminate", "gone"}, at'[q] \notin {"terminate", "gone"}
      PROVE  Onward(q)
  BY <1>2 DEF Onward, Signalled
<1>3. CASE \/ \E s \in UserSems : UserDown(q, s)
           \/ \E m \in Mutexes : Lock(q, m)
           \/ \E c \in Procs : Join(q, c)
           \/ ForkOpen(q) \/ CloseSlot(q)
  <2>1. /\ isKilled' = isKilled /\ at[q] \in {"run", "forkOpen", "closeSlot"}
        /\ at'[q] \in {"run", "crit", "joinUp", "forkInsert", "emptySlot"}
    BY <1>1, <1>3 DEF UserDown, Lock, Join, ForkOpen, CloseSlot, Down
  <2> QED
    BY <1>1, <1>2, <2>1 DEF Exiting
<1>4. CASE \/ \E s \in UserSems : UserUp(q, s)
           \/ \E c \in Procs : CloseHandle(q, c)
           \/ Yield(q) \/ Unlock(q) \/ JoinUp(q) \/ ForkInsert(q) \/ ForkStart(q) \/ EmptySlot(q)
  <2>1. /\ isKilled' = isKilled
        /\ at[q] \in {"run", "crit", "joinUp", "forkInsert", "forkStart", "emptySlot"}
        /\ at'[q] \in {"run", "crit", "closeSlot", "forkStart"}
    BY <1>1, <1>4 DEF UserUp, CloseHandle, Yield, Unlock, JoinUp, ForkInsert, ForkStart, EmptySlot,
                      Up
  <2> QED
    BY <1>1, <1>2, <2>1 DEF Exiting
<1>5. ASSUME NEW c \in Procs, Fork(q, c) PROVE Onward(q)
  <2>1. /\ isKilled'[q] = isKilled[q] /\ at[q] = "run" /\ at'[q] = "forkOpen"
    BY <1>1, <1>5 DEF Fork
  <2> QED
    BY <1>1, <1>2, <2>1 DEF Exiting
<1>6. CASE Kill(q)
  <2>1. at[q] = "run" /\ at'[q] = "kill" /\ isKilled'[q]
    BY <1>1, <1>6 DEF Kill
  <2> QED
    BY <1>1, <2>1 DEF Onward, Signalled, Exiting
<1>7. CASE Exit(q) \/ CloseAll(q) \/ Begin(q) \/ TakeVictim(q) \/ ReleaseVictim(q)
  <2>1. /\ isKilled' = isKilled /\ iDepth' = iDepth
        /\ at[q] \in {"run", "exit", "closing", "kill", "entry"} \/ at' = at
        /\ at'[q] \in {"closing", "signal", "exit", "idle", "run"} \/ at' = at
    BY <1>1, <1>7 DEF Exit, CloseAll, Begin, TakeVictim, ReleaseVictim, Down
  <2>2. (current = q /\ frame[q] = "none" /\ iDepth[q] # 0) => current' = q /\ frame'[q] = "none"
    BY <1>7 DEF Exit, CloseAll, Begin, TakeVictim, ReleaseVictim, Down
  <2>3. at' = at => frame' = frame
    <3>1. CASE Exit(q)
      BY <1>1, <3>1 DEF Exit, Down
    <3>2. CASE ~Exit(q)
      BY <1>7, <3>2 DEF CloseAll, Begin, TakeVictim, ReleaseVictim
    <3> QED
      BY <3>1, <3>2
  <2> QED
    BY <1>1, <2>1, <2>2, <2>3 DEF Onward, Marked, Signalled
<1>8. CASE Terminate(q)
  <2>1. at[q] = "terminate" /\ at'[q] = "gone" /\ isKilled' = isKilled
    BY <1>1, <1>8 DEF Terminate
  <2> QED
    BY <2>1 DEF Onward, Marked, Signalled
<1>9. CASE Resume(q)
  <2>1. /\ current = q /\ current' = q /\ frame[q] # "none" /\ frame'[q] = "none"
        /\ isKilled' = isKilled /\ (isKilled[q] => iDepth' = iDepth)
        /\ ~isKilled[q] => at' = at
    BY <1>1, <1>9 DEF Resume
  <2>2. at[q] # "gone"
    BY <2>1 DEF LInv, LifeInv, LifeOf, QueueInv, Queued
  <2> QED
    BY <1>1, <2>1, <2>2 DEF Onward, Marked, Signalled
<1> QED
  BY <1>3, <1>4, <1>5, <1>6, <1>7, <1>8, <1>9 DEF Choice, Continue

LEMMA EndSteps ==
  ASSUME IInv, LInv, EventInv, Next, NEW q \in Procs
  PROVE  Onward(q) \/ Signal(q) \/ \E p \in Procs : Fork(p, q)
<1>1. /\ frame \in [Procs -> Frames] /\ iDepth \in [Procs -> Nat] /\ q # None
      /\ at[q] = "terminate" => frame[q] \in {"none", "irq"}
  BY ProcsAssumption DEF IInv, TypeOK, EventInv
<1>2. CASE Boot
  <2>1. current = None /\ UNCHANGED <<frame, at, isKilled>>
    BY <1>2 DEF Boot
  <2> QED
    BY <1>1, <2>1 DEF Onward, Marked, Signalled
<1>3. CASE Interrupt
  <2>1. iflag /\ frame' = [frame EXCEPT ![current] = "irq"] /\ UNCHANGED <<at, isKilled>>
    BY <1>3 DEF Interrupt, Preempt
  <2>2. current = q => iDepth[q] = 0
    BY <2>1 DEF IInv, InterruptDiscipline, DepthInv
  <2> QED
    BY <1>1, <2>1, <2>2 DEF Onward, Marked, Signalled
<1>4. ASSUME NEW p \in Procs, Choice(p) \/ Continue(p)
      PROVE  Onward(q) \/ Signal(q) \/ \E r \in Procs : Fork(r, q)
  <2>1. CASE p = q
    BY <1>4, <2>1, OwnEnd
  <2>2. CASE p # q
    BY <1>4, <2>2, OthersEnd
  <2> QED
    BY <2>1, <2>2
<1> QED
  BY <1>2, <1>3, <1>4 DEF Next

-----------------------------------------------------------------------------
(* The inductive invariant                                                 *)

LEMMA InitKInv == Init => KInv
<1> SUFFICES ASSUME Init PROVE KInv
  OBVIOUS
<1>1. /\ \A q \in Procs : at[q] = "entry" /\ frame[q] = "none" /\ ~isKilled[q]
      /\ \A t \in Sems : waiting[t] = <<>>
  BY DEF Init
<1>2. \A t \in KernelSems : Through(t) = {}
  BY <1>1, Outside DEF Through, Inside
<1>3. ASSUME NEW q \in Procs
      PROVE  /\ DoneEvent(q) \in KernelSems /\ TableMutex(q) \in KernelSems
             /\ count[DoneEvent(q)] = 0 /\ count[TableMutex(q)] = 1
  <2>1. /\ DoneEvent(q) \in Sems /\ TableMutex(q) \in Sems
        /\ DoneEvent(q) \notin UserSems /\ TableMutex(q) \notin UserSems
        /\ DoneEvent(q) \in {DoneEvent(p) : p \in Procs}
        /\ TableMutex(q) \notin {DoneEvent(p) : p \in Procs}
    BY OwnSems, SemsApart, OwnSemsApart
  <2>2. \A t \in Sems : count[t] = CASE t \in UserSems -> InitialCount[t]
                                     [] t \in {DoneEvent(p) : p \in Procs} -> 0
                                     [] OTHER -> 1
    BY DEF Init
  <2> QED
    BY <2>1, <2>2 DEF KernelSems
<1>4. ASSUME NEW m \in Mutexes PROVE m \in KernelSems /\ count[m] = 1
  <2>1. m \in Sems /\ m \notin UserSems /\ m \notin {DoneEvent(p) : p \in Procs}
    BY SemsApart, SemsAssumption DEF Sems
  <2>2. \A t \in Sems : count[t] = CASE t \in UserSems -> InitialCount[t]
                                     [] t \in {DoneEvent(p) : p \in Procs} -> 0
                                     [] OTHER -> 1
    BY DEF Init
  <2> QED
    BY <2>1, <2>2 DEF KernelSems
<1>5. LocksInv
  BY <1>1, <1>2, <1>3, <1>4 DEF LocksInv, Free, Alive, KernelSems
<1>6. EventInv
  BY <1>1, <1>2, <1>3 DEF EventInv, Unset, Signalled
<1> QED
  BY <1>5, <1>6 DEF KInv

\* A mutex that no killed process has to itself is never lost.
LEMMA LockKept ==
  ASSUME IInv, LInv, KInv, Next,
         NEW m \in KernelSems, m \in Mutexes \/ \E q \in Procs : m = TableMutex(q) /\ ~isKilled'[q]
  PROVE  (Free(m) \/ Taken(m))'
<1>1. /\ \A c \in Procs : m # DoneEvent(c)
      /\ ~Abandoned(m)
  BY SemsApart, OwnSemsApart DEF Abandoned
<1>2. ASSUME NEW c \in Procs, Reset(c, m) PROVE Free(m)'
  BY <1>1, <1>2 DEF Reset, Free
<1>3. ASSUME NEW q \in Procs, m = TableMutex(q), isKilled[q], ~isKilled'[q]
      PROVE  \E p \in Procs : Fork(p, q)
  <2>1. ~Onward(q)
    BY <1>3 DEF Onward
  <2>2. ~Signal(q)
    BY <1>3 DEF Signal, Up
  <2> QED
    BY <2>1, <2>2, EndSteps DEF KInv
<1>4. ASSUME NEW p \in Procs, NEW c \in Procs, Fork(p, c), m = TableMutex(c)
      PROVE  Free(m)'
  BY <1>2, <1>4, ForkStep
<1>5. CASE m \in Mutexes \cup {TableMutex(q) : q \in Alive}
  <2>1. Free(m) \/ Taken(m)
    BY <1>5 DEF KInv, LocksInv
  <2>2. SemStep(m)
    BY SemSteps
  <2>3. \/ Same(m)
        \/ \E p \in Procs : Takes(p, m) \/ Waits(p, m) \/ (Gives(p, m) /\ p \in Through(m))
        \/ \E c \in Procs : Reset(c, m)
    BY <1>1, <2>2 DEF SemStep, Handed
  <2>4. CASE \E c \in Procs : Reset(c, m)
    <3>1. Free(m)'
      BY <1>2, <2>4
    <3> QED
      BY <3>1
  <2> QED
    BY <2>1, <2>3, <2>4, UnitKept
<1>6. CASE m \notin Mutexes \cup {TableMutex(q) : q \in Alive}
  <2>1. PICK q \in Procs : m = TableMutex(q) /\ isKilled[q] /\ ~isKilled'[q]
    BY <1>6 DEF Alive
  <2>2. Free(m)'
    BY <1>3, <1>4, <2>1
  <2> QED
    BY <2>2
<1> QED
  BY <1>5, <1>6

\* The event of q has a unit from the signal on, and not before.
LEMMA EventKept ==
  ASSUME IInv, LInv, KInv, Next, NEW q \in Procs
  PROVE  /\ at'[q] = "terminate" => frame'[q] \in {"none", "irq"}
         /\ ~isKilled'[q] => IF Signalled(q)' THEN (Free(DoneEvent(q)) \/ Taken(DoneEvent(q)))'
                                              ELSE Unset(DoneEvent(q))'
         /\ isKilled'[q] => Unset(DoneEvent(q))' \/ Marked(q)'
<1> DEFINE d == DoneEvent(q)
<1>1. /\ d \in KernelSems /\ EventInv
      /\ ~isKilled[q] => IF Signalled(q) THEN Free(d) \/ Taken(d) ELSE Unset(d)
      /\ isKilled[q] => Unset(d) \/ Marked(q)
  BY OwnSems, SemsApart DEF KInv, EventInv, KernelSems
<1>2. ASSUME NEW p \in Procs, Fork(p, q)
      PROVE  Unset(d)' /\ ~isKilled'[q] /\ at'[q] = "entry"
  <2>1. Reset(q, d)
    BY <1>1, <1>2, ForkStep
  <2>2. count'[d] = 0 /\ Through(d)' = {}
    BY <2>1, OwnSemsApart DEF Reset
  <2>3. p # q
    BY <1>2 DEF Fork, Running, LInv, QueueInv, Queued
  <2>4. ~isKilled'[q] /\ at'[q] = "entry"
    BY <1>2, <2>3 DEF Fork, IInv, TypeOK
  <2> QED
    BY <2>2, <2>4 DEF Unset
<1>3. ASSUME Signal(q)
      PROVE  /\ isKilled' = isKilled /\ at'[q] = "terminate" /\ frame'[q] = "none"
             /\ ~isKilled[q] => (Free(d) \/ Taken(d))'
  <2>1. /\ isKilled' = isKilled /\ at'[q] = "terminate" /\ frame'[q] = "none"
        /\ at[q] = "signal"
    BY <1>3 DEF Signal, Up, Running, IInv, TypeOK
  <2>2. Gives(q, d)
    BY <1>3, SignalStep
  <2>3. ~isKilled[q] => Unset(d)
    BY <1>1, <2>1 DEF Signalled
  <2> HIDE DEF d
  <2>4. ~isKilled[q] => (Free(d) \/ Taken(d))'
    BY <1>1, <2>2, <2>3, UnitGiven
  <2> QED
    BY <2>1, <2>4
<1>4. ASSUME Onward(q), ~Signal(q), ~ \E p \in Procs : Fork(p, q)
      PROVE  /\ at'[q] = "terminate" => frame'[q] \in {"none", "irq"}
             /\ ~isKilled'[q] => IF Signalled(q)' THEN (Free(d) \/ Taken(d))' ELSE Unset(d)'
             /\ isKilled'[q] => Unset(d)' \/ Marked(q)'
  <2>1. ~Abandoned(d) /\ \A c \in Procs : ~Reset(c, d)
    BY <1>4, OwnSemsApart DEF Abandoned, Reset
  <2>2. \A p \in Procs : Handed(p, d) => Gives(p, d) /\ p \in Through(d)
    BY <1>4, OwnSemsApart DEF Handed
  <2>3. SemStep(d)
    BY <1>1, SemSteps
  <2> HIDE DEF d
  <2>4. \/ Same(d)
        \/ \E p \in Procs : Takes(p, d) \/ Waits(p, d) \/ (Gives(p, d) /\ p \in Through(d))
    BY <2>1, <2>2, <2>3 DEF SemStep
  <2>5. Unset(d) => Unset(d)'
    BY <1>1, <2>4, UnsetKept
  <2>6. Free(d) \/ Taken(d) => (Free(d) \/ Taken(d))'
    BY <1>1, <2>4, UnitKept
  <2> QED
    BY <1>1, <1>4, <2>5, <2>6 DEF Onward
<1>5. CASE \E p \in Procs : Fork(p, q)
  BY <1>2, <1>5 DEF Signalled
<1>6. CASE Signal(q)
  BY <1>3, <1>6 DEF Signalled, Marked
<1> QED
  BY <1>1, <1>4, <1>5, <1>6, EndSteps

LEMMA NextKInv == IInv /\ LInv /\ KInv /\ [Next]_vars => KInv'
<1> SUFFICES ASSUME IInv, LInv, KInv, [Next]_vars PROVE KInv'
  OBVIOUS
<1>1. CASE Next
  <2>1. ASSUME NEW m \in Mutexes PROVE (Free(m) \/ Taken(m))'
    <3>1. m \in KernelSems
      BY SemsApart, SemsAssumption DEF KernelSems, Sems
    <3> QED
      BY <1>1, <3>1, LockKept
  <2>2. ASSUME NEW q \in Procs, ~isKilled'[q]
        PROVE  (Free(TableMutex(q)) \/ Taken(TableMutex(q)))'
    <3>1. TableMutex(q) \in KernelSems
      BY OwnSems, SemsApart DEF KernelSems
    <3> QED
      BY <1>1, <2>2, <3>1, LockKept
  <2>3. LocksInv'
    BY <2>1, <2>2 DEF LocksInv, Alive
  <2>4. EventInv'
    BY <1>1, EventKept DEF EventInv
  <2> QED
    BY <2>3, <2>4 DEF KInv
<1>2. CASE UNCHANGED vars
  BY <1>2 DEF vars, KInv, LocksInv, EventInv, Alive, Free, Taken, Unset, Through, Wants, Marked,
              Signalled
<1> QED
  BY <1>1, <1>2

LEMMA SemInvariance == Spec => [](IInv /\ LInv /\ KInv)
<1>1. Init => IInv /\ LInv /\ KInv
  BY InitInv, InitLInv, InitKInv
<1>2. (IInv /\ LInv /\ KInv) /\ [Next]_vars => (IInv /\ LInv /\ KInv)'
  BY NextInv, NextLInv, NextKInv
<1> QED
  BY <1>1, <1>2, PTL DEF Spec

-----------------------------------------------------------------------------
LEMMA HoldersThrough ==
  ASSUME IInv, LInv, NEW m, m \in Mutexes \/ \E q \in Procs : m = TableMutex(q)
  PROVE  Holders(m) = Through(m) /\ m \in KernelSems
<1>1. m \in KernelSems
  BY SemsApart, SemsAssumption, OwnSems DEF KernelSems, Sems
<1>2. \A c \in Procs : m # DoneEvent(c)
  BY SemsApart, OwnSemsApart
<1>3. m \notin UserSems
  BY <1>1 DEF KernelSems
<1>4. \A p \in Procs : /\ at[p] = "crit" => obj[p] \in Mutexes
                       /\ at[p] = "joinUp" => obj[p] \in Procs
  BY DEF IInv, LInv, LocationInv, LifeInv, LifeOf, Closing, TypeOK
<1>5. \A p \in Procs : (at[p] = "joinUp" => m # DoneEvent(obj[p]))
                       /\ (at[p] = "crit" /\ obj[p] = m => m \in Mutexes)
  BY <1>2, <1>4
<1>6. \A p \in Procs :
        Wants(p, m) <=> \/ at[p] = "crit" /\ obj[p] = m
                        \/ at[p] \in {"forkInsert", "emptySlot", "closing"} /\ m = TableMutex(p)
  BY <1>3, <1>5 DEF Wants
<1> QED
  BY <1>1, <1>6 DEF Holders, Through

\* lock() and unlock() keep a mutex safe through every down(), up(), context switch and
\* kill: it is free or exactly one process holds it, and only a held mutex is waited for.
THEOREM MutexNeverLost == Spec => []MutexConserved
<1>1. IInv /\ LInv /\ KInv => MutexConserved
  <2> SUFFICES ASSUME IInv, LInv, KInv,
                      NEW m \in Mutexes \cup {TableMutex(p) : p \in {q \in Procs : ~isKilled[q]}}
               PROVE  /\ count[m] + Cardinality(Holders(m)) = 1
                      /\ waiting[m] # <<>> => count[m] = 0
    BY DEF MutexConserved
  <2>1. Holders(m) = Through(m)
    BY HoldersThrough
  <2>2. Free(m) \/ Taken(m)
    BY DEF KInv, LocksInv, Alive
  <2>3. CASE Free(m)
    <3>1. count[m] = 1 /\ waiting[m] = <<>> /\ Holders(m) = {}
      BY <2>1, <2>3 DEF Free
    <3>2. Cardinality(Holders(m)) = 0
      BY <3>1, FS_EmptySet
    <3> QED
      BY <3>1, <3>2
  <2>4. CASE Taken(m)
    <3>1. count[m] = 0
      BY <2>4 DEF Taken
    <3>2. PICK h \in Procs : Holders(m) = {h}
      BY <2>1, <2>4 DEF Taken
    <3>3. Cardinality(Holders(m)) = 1
      BY <3>2, FS_Singleton
    <3> QED
      BY <3>1, <3>3
  <2> QED
    BY <2>2, <2>3, <2>4
<1> QED
  BY <1>1, SemInvariance, PTL

\* exit() signals doneEvent once for a process that is not killed, and no join misses it;
\* whoever comes back from join() finds that the other has closed all its handles, also
\* when that one was killed on its way out.
THEOREM JoinNotBeforeExit == Spec => []JoinAfterExit
<1>1. IInv /\ LInv /\ KInv => JoinAfterExit
  <2> SUFFICES ASSUME IInv, LInv, KInv, NEW q \in Procs
               PROVE  LET joined == {p \in Procs : /\ at[p] = "joinUp" /\ obj[p] = q
                                                   /\ p \notin Range(waiting[DoneEvent(q)])}
                      IN /\ state[q] # "FREE" /\ ~isKilled[q]
                              => count[DoneEvent(q)] + Cardinality(joined)
                                   = IF at[q] \in {"terminate", "gone"} THEN 1 ELSE 0
                         /\ \A p \in joined : Running(p) => /\ at[q] \in {"terminate", "gone"}
                                                            /\ handles[q] = {}
    BY DEF JoinAfterExit
  <2> DEFINE d == DoneEvent(q)
             joined == {p \in Procs : /\ at[p] = "joinUp" /\ obj[p] = q
                                      /\ p \notin Range(waiting[DoneEvent(q)])}
  <2>1. d \in KernelSems
    BY OwnSems, SemsApart DEF KernelSems
  <2>2. joined = Through(d)
    <3>1. ASSUME NEW p \in Procs PROVE Wants(p, d) <=> at[p] = "joinUp" /\ obj[p] = q
      <4>1. d \notin UserSems /\ d \notin Mutexes /\ d # TableMutex(p)
        BY <2>1, SemsApart, OwnSemsApart
      <4>2. d = DoneEvent(obj[p]) <=> obj[p] = q
        BY OwnSemsApart
      <4> QED
        BY <4>1, <4>2 DEF Wants
    <3> QED
      BY <3>1 DEF Through
  <2>3. /\ ~isKilled[q] => IF Signalled(q) THEN Free(d) \/ Taken(d) ELSE Unset(d)
        /\ isKilled[q] => Unset(d) \/ Marked(q)
    BY DEF KInv, EventInv
  <2> HIDE DEF d, joined
  <2>4. ASSUME ~isKilled[q]
        PROVE  count[d] + Cardinality(joined) = IF Signalled(q) THEN 1 ELSE 0
    <3>1. CASE Free(d)
      <4>1. count[d] = 1 /\ joined = {} /\ Signalled(q)
        BY <2>2, <2>3, <2>4, <3>1 DEF Free, Unset
      <4> QED
        BY <4>1, FS_EmptySet
    <3>2. CASE Taken(d)
      <4>1. count[d] = 0 /\ Signalled(q)
        BY <2>3, <2>4, <3>2 DEF Taken, Unset
      <4>2. PICK h \in Procs : joined = {h}
        BY <2>2, <3>2 DEF Taken
      <4> QED
        BY <4>1, <4>2, FS_Singleton, SMTT(30)
    <3>3. CASE Unset(d)
      <4>1. count[d] = 0 /\ joined = {} /\ ~Signalled(q)
        BY <2>2, <2>3, <2>4, <3>3 DEF Free, Taken, Unset
      <4> QED
        BY <4>1, FS_EmptySet
    <3> QED
      BY <2>3, <2>4, <3>1, <3>2, <3>3
  <2>5. ASSUME NEW p \in joined, Running(p) PROVE Signalled(q) /\ handles[q] = {}
    <3>1. p # q \/ ~isKilled[q]
      BY <2>5 DEF joined, IInv, LocationInv, Exiting
    <3>2. ~Unset(d)
      BY <2>2, <2>5 DEF Unset
    <3>3. Signalled(q)
      BY <2>3, <2>5, <3>1, <3>2 DEF Marked, Running
    <3>4. LifeOf(q)
      BY DEF LInv, LifeInv
    <3> QED
      BY <3>3, <3>4 DEF LifeOf, Signalled
  <2> QED
    BY <2>4, <2>5 DEF d, joined, Signalled
<1> QED
  BY <1>1, SemInvariance, PTL

-----------------------------------------------------------------------------
(* The mutex as a lock                                                     *)

LockUnit == Free(SharedMutex) \/ Taken(SharedMutex)

\* The owner is the one process that is through lock(), and there is none when the mutex
\* is free.
OwnerIs ==
  /\ Free(SharedMutex) => Owner = None
  /\ \A h \in Procs : Through(SharedMutex) = {h} => Owner = h

LEMMA OwnerThrough == IInv /\ LInv /\ KInv => LockUnit /\ OwnerIs
<1> SUFFICES ASSUME IInv, LInv, KInv PROVE LockUnit /\ OwnerIs
  OBVIOUS
<1>1. Holders(SharedMutex) = Through(SharedMutex) /\ LockUnit
  BY HoldersThrough, SharedMutexAssumption DEF KInv, LocksInv, LockUnit
<1> QED
  BY <1>1 DEF OwnerIs, Owner, Free

LEMMA LockInitially == Init => FifoLock!LockInit
<1> SUFFICES ASSUME Init PROVE FifoLock!LockInit
  OBVIOUS
<1>1. SharedMutex \in Sems /\ waiting[SharedMutex] = <<>>
  BY SharedMutexAssumption DEF Init, Sems
<1>2. Holders(SharedMutex) = {}
  BY DEF Holders, Init
<1> QED
  BY <1>1, <1>2 DEF FifoLock!LockInit, Owner

\* What a step of the kernel does to the mutex is a step of the lock.
LEMMA LockStep ==
  ASSUME IInv, LInv, Next, LockUnit, OwnerIs, LockUnit', OwnerIs'
  PROVE  [FifoLock!LockNext]_(FifoLock!lockVars)
<1> DEFINE m == SharedMutex
<1>1. /\ m \in KernelSems /\ None \notin Procs
      /\ \A c \in Procs : m # TableMutex(c) /\ m # DoneEvent(c)
  BY SharedMutexAssumption, SemsAssumption, ProcsAssumption, SemsApart DEF KernelSems, Sems
<1>2. /\ \/ Same(m)
         \/ \E p \in Procs : Takes(p, m) \/ Waits(p, m) \/ (Gives(p, m) /\ p \in Through(m))
      /\ waiting[m] \in Seq(Procs)
  BY <1>1, SemSteps, KernelSem DEF SemStep, Abandoned, Reset, Handed
<1>3. \A p : p \in Through(m) => p \in Procs /\ p \notin Range(waiting[m])
  BY DEF Through
<1>4. CASE Same(m)
  <2>1. Owner' = Owner
    <3>1. Free(m)' <=> Free(m)
      BY <1>4 DEF Same, Free
    <3>2. \A h : (Through(m) = {h})' <=> Through(m) = {h}
      BY <1>4 DEF Same
    <3>3. CASE Free(m)
      BY <3>1, <3>3 DEF OwnerIs
    <3>4. CASE Taken(m)
      <4>1. PICK h \in Procs : Through(m) = {h}
        BY <3>4 DEF Taken
      <4> QED
        BY <3>2, <4>1 DEF OwnerIs
    <3> QED
      BY <3>3, <3>4 DEF LockUnit
  <2> QED
    BY <1>4, <2>1 DEF Same, FifoLock!lockVars
<1>5. ASSUME NEW p \in Procs, Takes(p, m) PROVE FifoLock!Acquire(p)
  <2>1. Free(m) /\ Through(m)' = {p} /\ waiting'[m] = waiting[m]
    BY <1>5 DEF Takes, LockUnit, Free, Taken
  <2> QED
    BY <2>1 DEF FifoLock!Acquire, OwnerIs
<1>6. ASSUME NEW p \in Procs, Waits(p, m) PROVE FifoLock!Wait(p)
  <2>1. PICK h \in Procs : Through(m) = {h}
    BY <1>6 DEF Waits, LockUnit, Free, Taken
  <2>2. Through(m)' = {h} /\ p # h /\ waiting'[m] = Append(waiting[m], p)
    BY <1>6, <2>1 DEF Waits
  <2>3. Owner = h /\ Owner' = h
    BY <2>1, <2>2 DEF OwnerIs
  <2>4. p \notin Range(waiting[m])
    BY <1>6 DEF Waits
  <2> QED
    BY <1>1, <2>2, <2>3, <2>4 DEF FifoLock!Wait, FifoLock!Range, Range
<1>7. ASSUME NEW p \in Procs, Gives(p, m), p \in Through(m) PROVE FifoLock!PassOn
  <2>1. count[m] = 0 /\ Through(m) = {p}
    BY <1>7 DEF LockUnit, Free, Taken
  <2>2. Owner = p
    BY <2>1 DEF OwnerIs
  <2>3. CASE waiting[m] = <<>>
    <3>1. count'[m] = 1 /\ waiting'[m] = <<>> /\ Through(m)' = {}
      BY <1>7, <2>1, <2>3 DEF Gives
    <3>2. Owner' = None
      BY <3>1 DEF OwnerIs, Free
    <3> QED
      BY <1>1, <2>2, <2>3, <3>1, <3>2 DEF FifoLock!PassOn
  <2>4. CASE waiting[m] # <<>>
    <3>1. /\ Head(waiting[m]) \in Procs /\ waiting'[m] = Tail(waiting[m])
          /\ Through(m)' = {Head(waiting[m])}
      BY <1>7, <2>1, <2>4 DEF Gives
    <3>2. Owner' = Head(waiting[m])
      BY <3>1 DEF OwnerIs
    <3> QED
      BY <1>1, <2>2, <2>4, <3>1, <3>2 DEF FifoLock!PassOn
  <2> QED
    BY <2>3, <2>4
<1> QED
  BY <1>2, <1>4, <1>5, <1>6, <1>7 DEF FifoLock!LockNext

\* Semaphore::down and up, with yield and dispatch, take every step that a lock which
\* passes from hand to hand in the order of the requests may take, and no other: the
\* safety part of MutexIsFifoLock. (That every owner gives it up is left to TLC.)
THEOREM MutexPassesInOrder ==
  Spec => FifoLock!LockInit /\ [][FifoLock!LockNext]_(FifoLock!lockVars)
<1>1. (IInv /\ LInv) /\ (LockUnit /\ OwnerIs) /\ (LockUnit /\ OwnerIs)' /\ [Next]_vars
        => [FifoLock!LockNext]_(FifoLock!lockVars)
  <2>1. CASE UNCHANGED vars
    BY <2>1 DEF vars, FifoLock!lockVars, Owner, Holders
  <2> QED
    BY <2>1, LockStep
<1>2. Init => FifoLock!LockInit
  BY LockInitially
<1>3. IInv /\ LInv /\ KInv => LockUnit /\ OwnerIs
  BY OwnerThrough
<1> QED
  BY <1>1, <1>2, <1>3, SemInvariance, PTL DEF Spec

=============================================================================
