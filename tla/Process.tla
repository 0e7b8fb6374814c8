------------------------------ MODULE Process ------------------------------
(***************************************************************************)
(* Processes of the K439 kernel on its single CPU: process.cc,             *)
(* semaphore.cc, the interrupt path of pic.cc and machine.S, and the       *)
(* process part of the resource tables and of the system calls.            *)
(*                                                                         *)
(* Everything the kernel does with the interrupt flag off is atomic, so an *)
(* action is the code between two points at which an interrupt can arrive. *)
(* The code between disable() and the matching enable() is one action,     *)
(* unless it gives the CPU away: then the action ends with the context     *)
(* switch, and the process that gets the CPU goes on with Resume.          *)
(*                                                                         *)
(* An operator whose name ends in Mutant is a wrong version of the one that *)
(* follows it; no specification uses it (see README.md).                   *)
(***************************************************************************)
EXTENDS Integers, Sequences, FiniteSets, Functions

CONSTANTS
  Procs,        \* Process objects; a freed one may be allocated again
  Idle,         \* Process::idleProcess
  Primordial,   \* the Init process that kernelMain starts
  None,         \* the null pointer
  Mutexes,      \* mutexes that processes share (openFilesMutex, IDE::mutex, ...)
  UserSems,     \* semaphores that user programs created
  InitialCount, \* the count each of UserSems was created with
  MaxCount,     \* bound: no up() on a user semaphore beyond this count
  MaxHandles,   \* slots of a resource table (n-1 in table.cc)
  CanKill       \* whether a process may fault on page zero and be killed

ASSUME ProcsAssumption ==
  /\ Idle \in Procs /\ Primordial \in Procs /\ Idle # Primordial
  /\ None \notin Procs \cup Mutexes
  /\ IsFiniteSet(Procs)
ASSUME BoundsAssumption ==
  /\ InitialCount \in [UserSems -> Nat]
  /\ MaxCount \in Nat /\ MaxHandles \in Nat /\ CanKill \in BOOLEAN

\* Process::doneEvent, an Event: a semaphore that starts at 0.
DoneEvent(p) == <<"done", p>>
\* Table::mutex of the table that p owns.
TableMutex(p) == <<"table", p>>
Sems == Mutexes \cup UserSems \cup ({"done", "table"} \X Procs)

ASSUME SemsAssumption ==
  /\ Mutexes \cap UserSems = {}
  /\ (Mutexes \cup UserSems) \cap ({"done", "table"} \X Procs) = {}

VARIABLES
  current,      \* Process::current
  iflag,        \* the interrupt flag of the CPU
  readyQueue,   \* Process::readyQueue
  reaperQueue,  \* Process::reaperQueue
  state,        \* Process::state; "NEW" before start(), "FREE" when no object
  disableCount, \* Process::disableCount
  iDepth,       \* Process::iDepth
  isKilled,     \* Process::isKilled
  frame,        \* which call of yield() holds p inside the kernel
  at,           \* what p does next once it is out of yield()
  obj,          \* the mutex or process p is working on
  reaping,      \* checkReaper's local variable kill, when it can be interrupted
  count,        \* Semaphore::count
  waiting,      \* Semaphore::waiting
  handles,      \* processes that p's resource table refers to
  refs,         \* Resource::count of the process objects
  panicked      \* Debug::panic was called: the machine stops

cpu == <<current, iflag, readyQueue, state, disableCount, frame>>
sems == <<count, waiting>>
objects == <<handles, refs, reaperQueue, reaping>>
vars == <<current, iflag, readyQueue, reaperQueue, state, disableCount, iDepth,
          isKilled, frame, at, obj, reaping, count, waiting, handles, refs,
          panicked>>

States == {"FREE", "NEW", "READY", "RUNNING", "BLOCKED", "TERMINATED"}
Frames == {"none", "irq", "yield", "block"}
Locations == {"entry", "idle", "run", "crit", "forkOpen", "forkInsert",
              "forkStart", "joinUp", "closeSlot", "emptySlot", "kill",
              "exit", "closing", "signal", "terminate", "gone"}

TypeOK ==
  /\ current \in Procs \cup {None}
  /\ iflag \in BOOLEAN
  /\ readyQueue \in Seq(Procs)
  /\ reaperQueue \in Seq(Procs)
  /\ state \in [Procs -> States]
  /\ disableCount \in [Procs -> Nat]
  /\ iDepth \in [Procs -> Nat]
  /\ isKilled \in [Procs -> BOOLEAN]
  /\ frame \in [Procs -> Frames]
  /\ at \in [Procs -> Locations]
  /\ obj \in [Procs -> Procs \cup Mutexes \cup {None}]
  /\ reaping \in [Procs -> Procs \cup {None}]
  /\ count \in [Sems -> Nat]
  /\ waiting \in [Sems -> Seq(Procs)]
  /\ handles \in [Procs -> SUBSET Procs]
  /\ refs \in [Procs -> Int]
  /\ panicked \in BOOLEAN

-----------------------------------------------------------------------------
(* kernelMain creates and starts the idle and the first process with       *)
(* interrupts off and no current process.                                  *)
Init ==
  /\ current = None
  /\ iflag = FALSE
  /\ readyQueue = <<Primordial>>
  /\ reaperQueue = <<>>
  /\ state = [p \in Procs |-> IF p \in {Idle, Primordial} THEN "READY" ELSE "FREE"]
  /\ disableCount = [p \in Procs |-> 0]
  /\ iDepth = [p \in Procs |-> 0]
  /\ isKilled = [p \in Procs |-> FALSE]
  /\ frame = [p \in Procs |-> "none"]
  /\ at = [p \in Procs |-> "entry"]
  /\ obj = [p \in Procs |-> None]
  /\ reaping = [p \in Procs |-> None]
  /\ count = [s \in Sems |-> CASE s \in UserSems -> InitialCount[s]
                               [] s \in {DoneEvent(p) : p \in Procs} -> 0
                               [] OTHER -> 1]
  /\ waiting = [s \in Sems |-> <<>>]
  /\ handles = [p \in Procs |-> {}]
  /\ refs = [p \in Procs |-> IF p \in {Idle, Primordial} THEN 1 ELSE 0]
  /\ panicked = FALSE

-----------------------------------------------------------------------------
(* Giving the CPU away                                                     *)

\* p executes its own code, outside yield().
Running(p) == current = p /\ frame[p] = "none" /\ ~panicked

\* disable() ... enable() around an operation that keeps the CPU: interrupts
\* come back only when the count returns to zero.
EnableMutant(p) == iflag' = TRUE
Enable(p) == iflag' = (disableCount[p] = 0)

\* makeReady: the idle process never enters the ready queue.
Enqueued(p, queue) == IF p = Idle THEN queue ELSE Append(queue, p)

\* The end of yield() and dispatch(): queue and status are what they are once the
\* process that gives the CPU away is queued. contextSwitch loads an interrupt
\* flag that is set only for a process whose disableCount is 0.
SwitchFromMutant(queue, status) ==
  LET next == IF queue = <<>> THEN Idle ELSE queue[Len(queue)] IN
  /\ readyQueue' = IF queue = <<>> THEN queue ELSE SubSeq(queue, 1, Len(queue) - 1)
  /\ state' = [status EXCEPT ![next] = "RUNNING"]
  /\ current' = next
  /\ iflag' = (disableCount'[next] = 0)
SwitchFrom(queue, status) ==
  LET next == IF queue = <<>> THEN Idle ELSE Head(queue) IN
  /\ readyQueue' = IF queue = <<>> THEN queue ELSE Tail(queue)
  /\ state' = [status EXCEPT ![next] = "RUNNING"]
  /\ current' = next
  /\ iflag' = (disableCount'[next] = 0)

\* yield(nullptr) called by p with its disable count at d after the call's disable().
Preempt(p, why, d) ==
  /\ disableCount' = [disableCount EXCEPT ![p] = d]
  /\ frame' = [frame EXCEPT ![p] = why]
  /\ SwitchFrom(Enqueued(p, readyQueue), [state EXCEPT ![p] = "READY"])

\* The first yield() of kernelMain: there is no current process to queue.
Boot ==
  /\ current = None
  /\ ~panicked
  /\ UNCHANGED disableCount
  /\ SwitchFrom(readyQueue, state)
  /\ UNCHANGED <<frame, iDepth, isKilled, at, obj, sems, objects, panicked>>

\* pic_irq up to its call of yield(): startIrq sets disableCount to 1.
Interrupt ==
  /\ iflag
  /\ ~panicked
  /\ iDepth' = [iDepth EXCEPT ![current] = @ + 1]
  /\ Preempt(current, "irq", 2)
  /\ UNCHANGED <<isKilled, at, obj, sems, objects, panicked>>

\* A poll loop (waitForDrive, U8250::get) yields, possibly with a mutex held.
Yield(p) ==
  /\ Running(p)
  /\ at[p] \in {"run", "crit"}
  /\ Preempt(p, "yield", disableCount[p] + 1)
  /\ UNCHANGED <<iDepth, isKilled, at, obj, sems, objects, panicked>>

\* Resource::unref once on every process of S: the last reference frees it.
Unref(S, status) ==
  /\ refs' = [q \in Procs |-> IF q \in S THEN refs[q] - 1 ELSE refs[q]]
  /\ state' = [q \in Procs |-> IF q \in S /\ refs[q] = 1 THEN "FREE" ELSE status[q]]

\* The enable() of yield() and that of down(), or endIrq, give the count back.
CountAfterMutant(p) == disableCount[p] - 1
CountAfterMutant2(p) == disableCount[p] - 3
CountAfter(p) == disableCount[p] - (IF frame[p] = "yield" THEN 1 ELSE 2)

\* endIrq leaves the interrupt level.
DepthAfterMutant(p) == iDepth[p]
DepthAfter(p) == IF frame[p] = "irq" THEN iDepth[p] - 1 ELSE iDepth[p]

\* What is left of yield() when it gets the CPU back: checkReaper empties the
\* reaper queue, with interrupts off; a killed process turns to exit() and never
\* comes back; any other undoes its disable()s, and an interrupted one its iDepth.
Resume(p) ==
  /\ current = p
  /\ frame[p] # "none"
  /\ ~panicked
  /\ Unref(Range(reaperQueue), state)
  /\ reaperQueue' = <<>>
  /\ frame' = [frame EXCEPT ![p] = "none"]
  /\ IF isKilled[p]
       THEN /\ at' = [at EXCEPT ![p] = "exit"]
            /\ UNCHANGED <<disableCount, iDepth, iflag>>
       ELSE /\ disableCount' = [disableCount EXCEPT ![p] = CountAfter(p)]
            /\ iflag' = (CountAfter(p) = 0)
            /\ iDepth' = [iDepth EXCEPT ![p] = DepthAfter(p)]
            /\ UNCHANGED at
  /\ UNCHANGED <<current, readyQueue, isKilled, obj, reaping, sems, handles, panicked>>

-----------------------------------------------------------------------------
(* Semaphores                                                              *)

\* Semaphore::down by p, which then goes on at loc. An up() hands the semaphore
\* to the first waiter without raising the count. Blocking inside an interrupt
\* is a panic.
Down(p, s, loc) ==
  /\ at' = [at EXCEPT ![p] = loc]
  /\ IF count[s] > 0
       THEN /\ count' = [count EXCEPT ![s] = @ - 1]
            /\ Enable(p)
            /\ UNCHANGED <<current, readyQueue, state, disableCount, frame, waiting, panicked>>
     ELSE IF iDepth[p] = 0
       THEN /\ waiting' = [waiting EXCEPT ![s] = Append(@, p)]
            /\ disableCount' = [disableCount EXCEPT ![p] = @ + 2]
            /\ frame' = [frame EXCEPT ![p] = "block"]
            /\ SwitchFrom(readyQueue, [state EXCEPT ![p] = "BLOCKED"])
            /\ UNCHANGED <<count, panicked>>
     ELSE /\ panicked' = TRUE
          /\ iflag' = FALSE
          /\ UNCHANGED <<current, readyQueue, state, disableCount, frame, sems>>
  /\ UNCHANGED <<iDepth, isKilled, reaperQueue, reaping, handles, refs>>

\* Semaphore::up by p: the first waiter becomes ready, or the count goes up.
ReleaseMutant(p, s) ==
  /\ count' = [count EXCEPT ![s] = @ + 1]
  /\ waiting' = [waiting EXCEPT ![s] = IF @ = <<>> THEN @ ELSE Tail(@)]
  /\ readyQueue' = IF waiting[s] = <<>> THEN readyQueue
                   ELSE Enqueued(Head(waiting[s]), readyQueue)
  /\ Enable(p)
Release(p, s) ==
  /\ IF waiting[s] = <<>>
       THEN /\ count' = [count EXCEPT ![s] = @ + 1]
            /\ UNCHANGED <<waiting, readyQueue>>
       ELSE /\ waiting' = [waiting EXCEPT ![s] = Tail(@)]
            /\ readyQueue' = Enqueued(Head(waiting[s]), readyQueue)
            /\ UNCHANGED count
  /\ Enable(p)

\* The status of every process once up(s) has made its first waiter ready.
WokenMutant(s) == state
Woken(s) ==
  IF waiting[s] = <<>> THEN state ELSE [state EXCEPT ![Head(waiting[s])] = "READY"]

Up(p, s, loc) ==
  /\ at' = [at EXCEPT ![p] = loc]
  /\ Release(p, s)
  /\ state' = Woken(s)
  /\ UNCHANGED <<current, disableCount, frame, iDepth, isKilled, objects, panicked>>

UserDown(p, s) == Running(p) /\ at[p] = "run" /\ Down(p, s, "run") /\ UNCHANGED obj

UserUp(p, s) ==
  /\ Running(p) /\ at[p] = "run"
  /\ count[s] < MaxCount
  /\ Up(p, s, "run") /\ UNCHANGED obj

\* Kernel code that brackets a critical section with lock() and unlock().
Lock(p, m) ==
  /\ Running(p) /\ at[p] = "run"
  /\ Down(p, m, "crit")
  /\ obj' = [obj EXCEPT ![p] = m]

Unlock(p) ==
  /\ Running(p) /\ at[p] = "crit"
  /\ Up(p, obj[p], "run")
  /\ obj' = [obj EXCEPT ![p] = None]

-----------------------------------------------------------------------------
(* The life of a process                                                   *)

\* One iteration of checkReaper where interrupts may be on: entry(), the idle
\* loop, and kill(). The victim is out of the queue before it is released.
TakeVictim(p) ==
  /\ Running(p)
  /\ at[p] \in {"entry", "idle", "kill"}
  /\ reaping[p] = None
  /\ reaperQueue # <<>>
  /\ reaping' = [reaping EXCEPT ![p] = Head(reaperQueue)]
  /\ reaperQueue' = Tail(reaperQueue)
  /\ Enable(p)
  /\ UNCHANGED <<current, readyQueue, state, disableCount, frame, iDepth, isKilled,
                 at, obj, sems, handles, refs, panicked>>

ReleaseVictim(p) ==
  /\ Running(p)
  /\ reaping[p] # None
  /\ Unref({reaping[p]}, state)
  /\ reaping' = [reaping EXCEPT ![p] = None]
  /\ UNCHANGED <<current, iflag, readyQueue, disableCount, frame, iDepth, isKilled,
                 at, obj, sems, handles, reaperQueue, panicked>>

\* checkReaper found the queue empty. The idle process stays in its loop and halts.
Begin(p) ==
  /\ Running(p)
  /\ at[p] \in {"entry", "kill"}
  /\ reaping[p] = None
  /\ reaperQueue = <<>>
  /\ at' = [at EXCEPT ![p] = CASE isKilled[p] -> "exit"
                             [] p = Idle /\ ~isKilled[p] -> "idle"
                             [] OTHER -> "run"]
  /\ Enable(p)
  /\ UNCHANGED <<current, readyQueue, state, disableCount, frame, iDepth, isKilled,
                 obj, sems, objects, panicked>>

\* Resource::ref
RefMutant(q) == refs
Ref(q) == [refs EXCEPT ![q] = @ + 1]

\* The fork system call: construct the child, put it in a slot of the caller's
\* table if one is free, and start it.
Fork(p, c) ==
  /\ Running(p) /\ at[p] = "run"
  /\ state[c] = "FREE"
  /\ state' = [state EXCEPT ![c] = "NEW"]
  /\ refs' = [refs EXCEPT ![c] = 1]
  /\ disableCount' = [disableCount EXCEPT ![c] = 0]
  /\ iDepth' = [iDepth EXCEPT ![c] = 0]
  /\ isKilled' = [isKilled EXCEPT ![c] = FALSE]
  /\ frame' = [frame EXCEPT ![c] = "none"]
  /\ at' = [at EXCEPT ![c] = "entry", ![p] = "forkOpen"]
  /\ obj' = [obj EXCEPT ![c] = None, ![p] = c]
  /\ reaping' = [reaping EXCEPT ![c] = None]
  /\ handles' = [handles EXCEPT ![c] = {}]
  /\ count' = [count EXCEPT ![DoneEvent(c)] = 0, ![TableMutex(c)] = 1]
  /\ waiting' = [waiting EXCEPT ![DoneEvent(c)] = <<>>, ![TableMutex(c)] = <<>>]
  /\ UNCHANGED <<current, iflag, readyQueue, reaperQueue, panicked>>

ForkOpen(p) ==
  /\ Running(p) /\ at[p] = "forkOpen"
  /\ Down(p, TableMutex(p), "forkInsert")
  /\ UNCHANGED obj

\* A full table gives no handle to the child, which is started all the same.
ForkInsert(p) ==
  /\ Running(p) /\ at[p] = "forkInsert"
  /\ IF Cardinality(handles[p]) < MaxHandles
       THEN /\ handles' = [handles EXCEPT ![p] = @ \cup {obj[p]}]
            /\ refs' = Ref(obj[p])
       ELSE UNCHANGED <<handles, refs>>
  /\ Release(p, TableMutex(p))
  /\ state' = Woken(TableMutex(p))
  /\ at' = [at EXCEPT ![p] = "forkStart"]
  /\ UNCHANGED <<current, disableCount, frame, iDepth, isKilled, obj, reaping,
                 reaperQueue, panicked>>

ForkStart(p) ==
  /\ Running(p) /\ at[p] = "forkStart"
  /\ state' = [state EXCEPT ![obj[p]] = "READY"]
  /\ readyQueue' = Enqueued(obj[p], readyQueue)
  /\ Enable(p)
  /\ at' = [at EXCEPT ![p] = "run"]
  /\ obj' = [obj EXCEPT ![p] = None]
  /\ UNCHANGED <<current, disableCount, frame, iDepth, isKilled, sems, objects, panicked>>

\* The join system call: Event::wait (a down and an up), then the handle is closed.
Join(p, q) ==
  /\ Running(p) /\ at[p] = "run"
  /\ q \in handles[p]
  /\ Down(p, DoneEvent(q), "joinUp")
  /\ obj' = [obj EXCEPT ![p] = q]

JoinUpMutant(p) ==
  /\ Running(p) /\ at[p] = "joinUp"
  /\ at' = [at EXCEPT ![p] = "closeSlot"]
  /\ UNCHANGED <<cpu, sems, iDepth, isKilled, obj, objects, panicked>>
JoinUp(p) ==
  /\ Running(p) /\ at[p] = "joinUp"
  /\ Up(p, DoneEvent(obj[p]), "closeSlot")
  /\ UNCHANGED obj

\* Table::close, called by join and by the close system call.
CloseHandle(p, q) ==
  /\ Running(p) /\ at[p] = "run"
  /\ q \in handles[p]
  /\ at' = [at EXCEPT ![p] = "closeSlot"]
  /\ obj' = [obj EXCEPT ![p] = q]
  /\ UNCHANGED <<cpu, iDepth, isKilled, sems, objects, panicked>>

CloseSlot(p) ==
  /\ Running(p) /\ at[p] = "closeSlot"
  /\ Down(p, TableMutex(p), "emptySlot")
  /\ UNCHANGED obj

EmptySlot(p) ==
  /\ Running(p) /\ at[p] = "emptySlot"
  /\ Unref({obj[p]}, Woken(TableMutex(p)))
  /\ handles' = [handles EXCEPT ![p] = @ \ {obj[p]}]
  /\ Release(p, TableMutex(p))
  /\ at' = [at EXCEPT ![p] = "run"]
  /\ obj' = [obj EXCEPT ![p] = None]
  /\ UNCHANGED <<current, disableCount, frame, iDepth, isKilled, reaping,
                 reaperQueue, panicked>>

\* A fault on page zero: handlePageFault kills the process that faulted.
Kill(p) ==
  /\ CanKill
  /\ Running(p) /\ at[p] = "run"
  /\ isKilled' = [isKilled EXCEPT ![p] = TRUE]
  /\ Enable(p)
  /\ at' = [at EXCEPT ![p] = "kill"]
  /\ UNCHANGED <<current, readyQueue, state, disableCount, frame, iDepth, obj,
                 sems, objects, panicked>>

\* Process::exit, called by the process or by checkKilled: Table::closeAll ...
Exit(p) ==
  /\ Running(p) /\ at[p] \in {"run", "exit"}
  /\ Down(p, TableMutex(p), "closing")
  /\ UNCHANGED obj

CloseAll(p) ==
  /\ Running(p) /\ at[p] = "closing"
  /\ Unref(handles[p], Woken(TableMutex(p)))
  /\ handles' = [handles EXCEPT ![p] = {}]
  /\ Release(p, TableMutex(p))
  /\ at' = [at EXCEPT ![p] = "signal"]
  /\ UNCHANGED <<current, disableCount, frame, iDepth, isKilled, obj, reaping,
                 reaperQueue, panicked>>

\* ... then doneEvent.signal() ...
SignalMutant(p) ==
  /\ Running(p) /\ at[p] = "signal"
  /\ at' = [at EXCEPT ![p] = "terminate"]
  /\ UNCHANGED <<cpu, sems, iDepth, isKilled, obj, objects, panicked>>
Signal(p) ==
  /\ Running(p) /\ at[p] = "signal"
  /\ Up(p, DoneEvent(p), "terminate")
  /\ UNCHANGED obj

\* ... and the process leaves the CPU for ever, on the reaper queue.
TerminateMutant(p) ==
  /\ Running(p) /\ at[p] = "terminate"
  /\ disableCount' = [disableCount EXCEPT ![p] = @ + 1]
  /\ at' = [at EXCEPT ![p] = "gone"]
  /\ SwitchFrom(readyQueue, [state EXCEPT ![p] = "TERMINATED"])
  /\ UNCHANGED <<frame, iDepth, isKilled, obj, reaping, reaperQueue, sems, handles,
                 refs, panicked>>
Terminate(p) ==
  /\ Running(p) /\ at[p] = "terminate"
  /\ reaperQueue' = Append(reaperQueue, p)
  /\ disableCount' = [disableCount EXCEPT ![p] = @ + 1]
  /\ at' = [at EXCEPT ![p] = "gone"]
  /\ SwitchFrom(readyQueue, [state EXCEPT ![p] = "TERMINATED"])
  /\ UNCHANGED <<frame, iDepth, isKilled, obj, reaping, sems, handles, refs, panicked>>

-----------------------------------------------------------------------------
\* What p does of its own choice: user code and the kernel code it calls.
Choice(p) ==
  \/ Yield(p)
  \/ \E s \in UserSems : UserDown(p, s) \/ UserUp(p, s)
  \/ \E m \in Mutexes : Lock(p, m)
  \/ \E c \in Procs : Fork(p, c) \/ Join(p, c) \/ CloseHandle(p, c)
  \/ Kill(p)
  \/ Exit(p)

\* What the kernel does next for p once it is in the middle of an operation.
Continue(p) ==
  \/ Resume(p)
  \/ TakeVictim(p) \/ ReleaseVictim(p) \/ Begin(p)
  \/ Unlock(p)
  \/ ForkOpen(p) \/ ForkInsert(p) \/ ForkStart(p)
  \/ JoinUp(p) \/ CloseSlot(p) \/ EmptySlot(p)
  \/ CloseAll(p) \/ Signal(p) \/ Terminate(p)

Next ==
  \/ Boot
  \/ Interrupt
  \/ \E p \in Procs : Choice(p) \/ Continue(p)

Spec == Init /\ [][Next]_vars

-----------------------------------------------------------------------------
(* Safety                                                                  *)

\* The interrupt flag agrees with the disable count of the process that has the
\* CPU, so startIrq finds a process with a count of 0 and interrupts are never left
\* off; a process that yield() holds has the count from which the pending enable()
\* calls and endIrq come out even: none of their panics can happen.
InterruptDiscipline ==
  /\ iflag => current # None /\ ~panicked
  /\ current # None /\ ~panicked => (iflag <=> disableCount[current] = 0)
  /\ \A p \in Procs :
       /\ frame[p] = "irq"   => disableCount[p] = 2 /\ iDepth[p] = 1
       /\ frame[p] = "yield" => disableCount[p] = 1 /\ iDepth[p] = 0
       /\ frame[p] = "block" => disableCount[p] >= 2 /\ iDepth[p] = 0
       /\ frame[p] = "block" /\ ~isKilled[p] => disableCount[p] = 2
       /\ frame[p] = "none" /\ at[p] # "gone" /\ ~isKilled[p]
            => disableCount[p] = 0 /\ iDepth[p] = 0

\* A process is in exactly the queue its state names: makeReady, up(), yield(q),
\* exit and checkReaper never leave it in two queues, twice in one, or in none
\* while it waits. The idle process is in no queue.
QueuesExclusive ==
  /\ \A q \in {readyQueue, reaperQueue} \cup {waiting[s] : s \in Sems} : IsInjective(q)
  /\ \A s, t \in Sems : s # t => Range(waiting[s]) \cap Range(waiting[t]) = {}
  /\ Range(readyQueue) = {p \in Procs \ {Idle} : state[p] = "READY"}
  /\ UNION {Range(waiting[s]) : s \in Sems} = {p \in Procs : state[p] = "BLOCKED"}
  /\ Range(reaperQueue) \subseteq {p \in Procs : state[p] = "TERMINATED"}
  /\ {p \in Procs : state[p] = "RUNNING"} = {current} \ {None}

\* The first reference of a process is the one its constructor makes; the reaper
\* drops it after the process has terminated.
SelfReference(q) ==
  IF \/ state[q] \in {"NEW", "READY", "RUNNING", "BLOCKED"}
     \/ q \in Range(reaperQueue) \cup Range(reaping)
  THEN 1 ELSE 0

\* A process object is deleted exactly when its reference count reaches zero, the
\* count is the number of pointers that own it, and no pointer the kernel will
\* still follow leads to a deleted object.
ReferencesExact ==
  \A q \in Procs :
    /\ refs[q] = SelfReference(q) + Cardinality({p \in Procs : q \in handles[p]})
    /\ state[q] = "FREE" <=> refs[q] = 0
    /\ \A p \in Procs : at[p] \in {"joinUp", "closeSlot", "emptySlot"} /\ obj[p] = q
                          => state[q] # "FREE"

\* The processes inside the critical section of semaphore m. One that up() has
\* handed the semaphore to holds it from then on, before it runs again.
Holders(m) ==
  {p \in Procs :
     /\ p \notin Range(waiting[m])
     /\ \/ at[p] = "crit" /\ obj[p] = m
        \/ at[p] \in {"forkInsert", "emptySlot", "closing"} /\ m = TableMutex(p)}

\* lock() and unlock() give mutual exclusion and never lose the mutex: it is free,
\* or exactly one process holds it, also between the up() that hands it over and
\* the moment the waiter runs. Waiters only wait for a mutex that is held. (A killed
\* process may abandon the mutex of its own table, see NeverBlocksInInterrupt.)
MutexConserved ==
  \A m \in Mutexes \cup {TableMutex(p) : p \in {q \in Procs : ~isKilled[q]}} :
    /\ count[m] + Cardinality(Holders(m)) = 1
    /\ waiting[m] # <<>> => count[m] = 0

\* doneEvent is signalled once by a process that exits on its own, the signal is
\* never lost between exit() and the processes in join, and a process that comes
\* back from the wait finds that the other has given up all its resources.
JoinAfterExit ==
  \A q \in Procs :
    LET joined == {p \in Procs : /\ at[p] = "joinUp" /\ obj[p] = q
                                 /\ p \notin Range(waiting[DoneEvent(q)])}
    IN /\ state[q] # "FREE" /\ ~isKilled[q]
            => count[DoneEvent(q)] + Cardinality(joined)
                 = IF at[q] \in {"terminate", "gone"} THEN 1 ELSE 0
       /\ \A p \in joined : Running(p) => /\ at[q] \in {"terminate", "gone"}
                                          /\ handles[q] = {}

\* yield(q) asserts that no process blocks before its interrupt handler has ended.
NeverBlocksInInterrupt == ~panicked

\* And it holds for everybody else: whoever blocks inside its interrupt was killed, and
\* was on its way out already when the interrupt came (process.cc:50, table.cc:46).
OnlyTheKilledBlock == panicked => isKilled[current] /\ at[current] = "closing"

-----------------------------------------------------------------------------
(* Liveness                                                                *)

\* p goes on with the kernel operation it is in.
Step(p) == frame[p] = "none" /\ Continue(p)

\* The CPU never stops. The PIC keeps an interrupt that arrives while interrupts
\* are off, so the timer gets through when they are on again and again; a time
\* slice is long enough for the running process to make a step, and a poll loop
\* ends. User code may loop for ever.
Fairness ==
  /\ WF_vars(Boot)
  /\ SF_vars(Interrupt)
  /\ \A p \in Procs : WF_vars(Resume(p)) /\ SF_vars(Step(p))

FairSpec == Spec /\ Fairness

\* Every process in the ready queue gets the CPU, whatever the others do.
ReadyRuns ==
  \A p \in Procs \ {Idle} : state[p] = "READY" ~> state[p] = "RUNNING"

\* A process that joins one that has exited gets its answer.
JoinReturns ==
  \A p, q \in Procs :
    at[p] = "joinUp" /\ obj[p] = q /\ at[q] = "gone" ~> at[p] = "run"

\* A terminated process that nobody has a handle to is deleted.
EventuallyDeleted ==
  \A q \in Procs :
    state[q] = "TERMINATED" /\ (\A p \in Procs : q \notin handles[p]) ~> state[q] = "FREE"
=============================================================================
