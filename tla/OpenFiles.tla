----------------------------- MODULE OpenFiles -----------------------------
(***************************************************************************)
(* Open files of the Fat439 file system (fs.cc, syscall.cc, table.cc): the *)
(* OpenFile objects that the system shares, the File objects in the        *)
(* resource tables, and the writer mutex that is to keep writers apart.    *)
(*                                                                         *)
(* A process can be preempted between any two actions. openFile() and the  *)
(* first half of closeFile() hold openFilesMutex throughout and are one    *)
(* action each; what a kernel Mutex promises is checked in Process.        *)
(*                                                                         *)
(* Permissions are reduced to the outcome of checkPermissions, for processes *)
(* that own the file or are in its group, and to the bit 02 (others may      *)
(* write), which setPermissions looks at to decide about the mutex.          *)
(*                                                                         *)
(* An operator whose name ends in Mutant is a wrong version of the one that *)
(* follows it; no specification uses it (see README.md).                   *)
(***************************************************************************)
EXTENDS Integers, Sequences, FiniteSets, Functions

CONSTANTS
  Procs,         \* processes
  First,         \* those that run from the start; fork starts the others
  Files,         \* files, named by their first block
  Granted,       \* the <<process, file, right>> that checkPermissions and chmod let through
  WritableByAll, \* the files whose bit 02 is set on the disk
  MaxFds,        \* slots for files in a resource table
  MaxLost,       \* bound: a file is opened only while fewer File objects on it are lost
  Calls          \* the system calls that processes make besides open and close

Modes == {"read", "write"}
Rights == Modes \cup {"execute", "own"}

ASSUME OpenFilesAssumption ==
  /\ IsFiniteSet(Procs) /\ First \subseteq Procs
  /\ IsFiniteSet(Files) /\ Files # {}
  /\ Granted \subseteq Procs \X Files \X Rights
  /\ WritableByAll \subseteq Files
  /\ MaxFds \in Nat /\ MaxLost \in Nat
  /\ Calls \subseteq {"fork", "chmod", "execv"}

VARIABLES
  opens,     \* OpenFile::count, 0 when openFiles[f] is null
  count,     \* the count of OpenFile::writerMutex
  waiting,   \* the waiting queue of OpenFile::writerMutex
  bit,       \* bit 02 of OpenFile::metaData.permissions
  fds,       \* how many File objects on a file a process has, by open mode
  lost,      \* File objects that nothing refers to any more and nobody deletes
  at,        \* where a process is
  job,       \* what p works on: a file, a mode, Fat439File::permissions & 02, and
             \* where it goes on after closeFile()
  stale,     \* processes whose pointer `after` leads to a deleted OpenFile
  crashed    \* a process has used a deleted OpenFile: anything may follow

vars == <<opens, count, waiting, bit, fds, lost, at, job, stale, crashed>>

Locations == {"absent", "run", "permission", "insert", "unref", "look", "check",
              "blocked", "wake", "chmodLock", "chmod", "execvLookup",
              "execv", "exit"}

Descriptors == Files \X Modes

Jobs == [file : Files, mode : Modes, bit : BOOLEAN, then : {"run", "execv", "exit"}]

\* As many elements as n counts, each one of those that n counts for an x in S.
Units(S, n) == UNION {{x} \X (1 .. n[x]) : x \in S}

\* The slots of p's table that are in use.
InUse(p) == Cardinality(Units(Descriptors, fds[p]))

Blocked(p) == \E f \in Files : p \in Range(waiting[f])

Ready(p, loc) == at[p] = loc /\ ~Blocked(p) /\ ~crashed

-----------------------------------------------------------------------------
Init ==
  /\ opens = [f \in Files |-> 0]
  /\ count = [f \in Files |-> 1]
  /\ waiting = [f \in Files |-> <<>>]
  /\ bit = [f \in Files |-> f \in WritableByAll]
  /\ fds = [p \in Procs |-> [d \in Descriptors |-> 0]]
  /\ lost = [f \in Files |-> 0]
  /\ at = [p \in Procs |-> IF p \in First THEN "run" ELSE "absent"]
  /\ job = [p \in Procs |-> [file |-> CHOOSE f \in Files : TRUE, mode |-> "read",
                          bit |-> FALSE, then |-> "run"]]
  /\ stale = {}
  /\ crashed = FALSE

\* Fat439::openFile: a file that is not open gets a new OpenFile, with a free
\* writerMutex and the permissions that are on the disk; a reference is added.
OpenFileMutant(f) == lost[f] < MaxLost /\ UNCHANGED <<opens, count, bit>>
OpenFile(f) ==
  /\ lost[f] < MaxLost
  /\ opens' = [opens EXCEPT ![f] = @ + 1]
  /\ IF opens[f] = 0
       THEN /\ count' = [count EXCEPT ![f] = 1]
            /\ bit' = [bit EXCEPT ![f] = f \in WritableByAll]
       ELSE UNCHANGED <<count, bit>>

\* writerMutex.lock() and unlock() of f by p: the semaphore of semaphore.cc.
LockWriter(p, f) ==
  IF count[f] > 0
    THEN count' = [count EXCEPT ![f] = @ - 1] /\ UNCHANGED waiting
    ELSE waiting' = [waiting EXCEPT ![f] = Append(@, p)] /\ UNCHANGED count

UnlockWriterMutant(f) == count' = [count EXCEPT ![f] = @ + 1] /\ UNCHANGED waiting
UnlockWriter(f) ==
  IF waiting[f] = <<>>
    THEN count' = [count EXCEPT ![f] = @ + 1] /\ UNCHANGED waiting
    ELSE waiting' = [waiting EXCEPT ![f] = Tail(@)] /\ UNCHANGED count

Goto(p, loc) == at' = [at EXCEPT ![p] = loc]

\* The open system call: lookupFile makes a File object ...
Open(p, f, m) ==
  /\ Ready(p, "run")
  /\ OpenFile(f)
  /\ job' = [job EXCEPT ![p] = [file |-> f, mode |-> m, bit |-> bit'[f], then |-> "run"]]
  /\ Goto(p, "permission")
  /\ UNCHANGED <<waiting, fds, lost, stale, crashed>>

\* ... setPermissions checks the access and, whatever the mode, takes the writer
\* mutex of a file that others may write ...
SetPermissions(p) ==
  /\ Ready(p, "permission")
  /\ IF <<p, job[p].file, job[p].mode>> \in Granted
       THEN /\ Goto(p, "insert")
            /\ IF job[p].bit THEN LockWriter(p, job[p].file) ELSE UNCHANGED <<count, waiting>>
       ELSE Goto(p, "unref") /\ UNCHANGED <<count, waiting>>
  /\ UNCHANGED <<opens, bit, fds, lost, job, stale, crashed>>

\* ... and Table::open finds a slot. Without one the File object is forgotten.
Insert(p) ==
  /\ Ready(p, "insert")
  /\ IF InUse(p) < MaxFds
       THEN fds' = [fds EXCEPT ![p][<<job[p].file, job[p].mode>>] = @ + 1] /\ UNCHANGED lost
       ELSE lost' = [lost EXCEPT ![job[p].file] = @ + 1] /\ UNCHANGED fds
  /\ Goto(p, "run")
  /\ UNCHANGED <<opens, count, waiting, bit, job, stale, crashed>>

\* Table::close deletes a File object, whose destructor calls closeFile();
\* closeAll, in execv and exit, does so for every File object in the table.
Close(p, f, m) ==
  /\ at[p] \in {"run", "execv", "exit"} /\ Ready(p, at[p])
  /\ fds[p][<<f, m>>] > 0
  /\ fds' = [fds EXCEPT ![p][<<f, m>>] = @ - 1]
  /\ job' = [job EXCEPT ![p].file = f, ![p].then = at[p]]
  /\ Goto(p, "unref")
  /\ UNCHANGED <<opens, count, waiting, bit, lost, stale, crashed>>

Exit(p) ==
  /\ Ready(p, "run")
  /\ Goto(p, "exit")
  /\ UNCHANGED <<opens, count, waiting, bit, fds, lost, job, stale, crashed>>

\* The table is empty: the new program runs, or the process is gone.
ClosedAll(p) ==
  /\ at[p] \in {"execv", "exit"} /\ Ready(p, at[p])
  /\ InUse(p) = 0
  /\ Goto(p, IF at[p] = "execv" THEN "run" ELSE "absent")
  /\ UNCHANGED <<opens, count, waiting, bit, fds, lost, job, stale, crashed>>

\* The places where closeFile reads through `after`.
Dereferencing == {"check", "blocked", "wake"}

\* closeFile, under openFilesMutex: drop a reference; the last one deletes the
\* OpenFile, under the feet of whoever still has a pointer to it ...
UnrefMutant(p) ==
  /\ Ready(p, "unref")
  /\ opens' = [opens EXCEPT ![job[p].file] = @ - 2]
  /\ Goto(p, "look")
  /\ UNCHANGED <<count, waiting, bit, fds, lost, job, stale, crashed>>
Unref(p) ==
  LET f == job[p].file IN
  /\ Ready(p, "unref")
  /\ opens' = [opens EXCEPT ![f] = @ - 1]
  /\ stale' = IF opens[f] > 1 THEN stale
              ELSE stale \cup {q \in Procs : at[q] \in Dereferencing /\ job[q].file = f}
  /\ Goto(p, "look")
  /\ UNCHANGED <<count, waiting, bit, fds, lost, job, crashed>>

\* ... then, with the mutex released: is the file still open,
Look(p) ==
  /\ Ready(p, "look")
  /\ Goto(p, IF opens[job[p].file] = 0 THEN job[p].then ELSE "check")
  /\ UNCHANGED <<opens, count, waiting, bit, fds, lost, job, stale, crashed>>

\* is there a single reference left ...
Check(p) ==
  /\ Ready(p, "check")
  /\ p \notin stale
  /\ Goto(p, IF opens[job[p].file] = 1 THEN "blocked" ELSE job[p].then)
  /\ UNCHANGED <<opens, count, waiting, bit, fds, lost, job, stale, crashed>>

\* ... and is the writer mutex taken? ...
IsBlocked(p) ==
  /\ Ready(p, "blocked")
  /\ p \notin stale
  /\ Goto(p, IF count[job[p].file] = 0 THEN "wake" ELSE job[p].then)
  /\ UNCHANGED <<opens, count, waiting, bit, fds, lost, job, stale, crashed>>

\* ... Then it is unlocked.
Wake(p) ==
  /\ Ready(p, "wake")
  /\ p \notin stale
  /\ UnlockWriter(job[p].file)
  /\ Goto(p, job[p].then)
  /\ UNCHANGED <<opens, bit, fds, lost, job, stale, crashed>>

\* The pointer `after` outlived the OpenFile: reading it is undefined.
UseDeleted(p) ==
  /\ at[p] \in Dereferencing /\ ~crashed
  /\ p \in stale
  /\ crashed' = TRUE
  /\ UNCHANGED <<opens, count, waiting, bit, fds, lost, at, job, stale>>

\* fork: Fat439File::forkMe copies every File object of the parent for the child.
Fork(p, c) ==
  /\ "fork" \in Calls
  /\ Ready(p, "run")
  /\ at[c] = "absent"
  /\ at' = [at EXCEPT ![c] = "run"]
  /\ fds' = [fds EXCEPT ![c] = fds[p]]
  /\ opens' = [f \in Files |-> opens[f] + fds[p][<<f, "read">>] + fds[p][<<f, "write">>]]
  /\ UNCHANGED <<count, waiting, bit, lost, job, stale, crashed>>

\* The chmod system call: a File object and, for root or the owner, the writer
\* mutex and the permissions in memory; then the File object is never deleted. (The
\* sector it writes is not that of the file: the disk keeps the old permissions.)
Chmod(p, f, b) ==
  /\ "chmod" \in Calls
  /\ Ready(p, "run")
  /\ OpenFile(f)
  /\ job' = [job EXCEPT ![p] = [file |-> f, mode |-> "write", bit |-> b, then |-> "run"]]
  /\ Goto(p, IF <<p, f, "own">> \in Granted THEN "chmodLock" ELSE "unref")
  /\ UNCHANGED <<waiting, fds, lost, stale, crashed>>

\* The execv system call makes two File objects of a program that may be executed,
\* deletes neither, and closes what the process had open.
Execv(p, f) ==
  /\ "execv" \in Calls
  /\ Ready(p, "run")
  /\ job' = [job EXCEPT ![p].file = f, ![p].then = "run"]
  /\ OpenFile(f)
  /\ IF <<p, f, "execute">> \in Granted
       THEN lost' = [lost EXCEPT ![f] = @ + 1] /\ Goto(p, "execvLookup")
       ELSE Goto(p, "unref") /\ UNCHANGED lost
  /\ UNCHANGED <<waiting, fds, stale, crashed>>

ExecvLookup(p) ==
  LET f == job[p].file IN
  /\ Ready(p, "execvLookup")
  /\ opens' = [opens EXCEPT ![f] = @ + 1]
  /\ lost' = [lost EXCEPT ![f] = @ + 1]
  /\ Goto(p, "execv")
  /\ UNCHANGED <<count, waiting, bit, fds, job, stale, crashed>>

ChmodLock(p) ==
  /\ Ready(p, "chmodLock")
  /\ LockWriter(p, job[p].file)
  /\ Goto(p, "chmod")
  /\ UNCHANGED <<opens, bit, fds, lost, job, stale, crashed>>

ChmodSet(p) ==
  /\ Ready(p, "chmod")
  /\ bit' = [bit EXCEPT ![job[p].file] = job[p].bit]
  /\ UnlockWriter(job[p].file)
  /\ lost' = [lost EXCEPT ![job[p].file] = @ + 1]
  /\ Goto(p, "run")
  /\ UNCHANGED <<opens, fds, job, stale, crashed>>

-----------------------------------------------------------------------------
\* A system call that has begun goes on.
Continue(p) ==
  \/ SetPermissions(p) \/ Insert(p)
  \/ Unref(p) \/ Look(p) \/ Check(p) \/ IsBlocked(p) \/ Wake(p) \/ UseDeleted(p)
  \/ ChmodLock(p) \/ ChmodSet(p) \/ ExecvLookup(p) \/ ClosedAll(p)

Next ==
  \E p \in Procs :
    \/ \E f \in Files, m \in Modes : Open(p, f, m) \/ Close(p, f, m)
    \/ \E f \in Files, b \in BOOLEAN : Chmod(p, f, b)
    \/ \E f \in Files : Execv(p, f)
    \/ \E c \in Procs : Fork(p, c)
    \/ Exit(p)
    \/ Continue(p)

Spec == Init /\ [][Next]_vars

\* The scheduler runs every process that is ready (Process, ReadyRuns).
FairSpec == Spec /\ \A p \in Procs : WF_vars(Continue(p))

-----------------------------------------------------------------------------
(* Safety                                                                  *)

TypeOK ==
  /\ opens \in [Files -> Nat]
  /\ count \in [Files -> Nat]
  /\ waiting \in [Files -> Seq(Procs)]
  /\ bit \in [Files -> BOOLEAN]
  /\ fds \in [Procs -> [Descriptors -> Nat]]
  /\ lost \in [Files -> Nat]
  /\ at \in [Procs -> Locations]
  /\ job \in [Procs -> Jobs]
  /\ stale \subseteq Procs
  /\ crashed \in BOOLEAN

\* The File objects on f: in the tables, in the hands of a system call, lost.
OpenedBy(f) == [x \in Procs \X Modes |-> fds[x[1]][<<f, x[2]>>]]
InTables(f) == Units(Procs \X Modes, OpenedBy(f))
InCalls(f) ==
  {p \in Procs : job[p].file = f /\ at[p] \in {"permission", "insert", "unref", "chmodLock", "chmod"}}
FileObjects(f) == Cardinality(InTables(f)) + Cardinality(InCalls(f)) + lost[f]

\* The reference count of an OpenFile is the number of File objects on it, so it is
\* deleted with the last one, and never while a process waits for its writer mutex.
CountsFileObjects ==
  \A f \in Files :
    /\ opens[f] = FileObjects(f)
    /\ Len(waiting[f]) <= opens[f]

\* Whoever waits for a writer mutex waits behind a locked one, once, and in front
\* of setPermissions or chmod: no up() is lost on it.
WaitersBehindLock ==
  \A f \in Files :
    /\ waiting[f] # <<>> => count[f] = 0
    /\ IsInjective(waiting[f])
    /\ \A p \in Range(waiting[f]) : job[p].file = f /\ at[p] \in {"insert", "chmod"}

\* The File objects opened for writing that are past setPermissions.
Writers(f) ==
  Cardinality({o \in InTables(f) : o[1][2] = "write"})
    + Cardinality({p \in Procs : at[p] = "insert" /\ ~Blocked(p)
                                 /\ job[p].file = f /\ job[p].mode = "write"})

\* setPermissions "allows concurrent reads, but not concurrent writes" (fs.cc).
NoConcurrentWriters == \A f \in Files : Writers(f) <= 1

\* The File objects whose owner does not wait: they can still be closed.
Holding(f) == FileObjects(f) - Len(waiting[f]) - lost[f]

\* A process that "ask[s] for write permission, therefore block[s]" goes on once
\* all that have the file open are waiting like itself. With three that open a file it
\* does not (README.md, observations): no run checks it.
WaiterGoesOn ==
  \A p \in Procs, f \in Files :
    p \in Range(waiting[f]) /\ Holding(f) = 0 ~> p \notin Range(waiting[f])
=============================================================================
