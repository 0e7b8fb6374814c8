------------------------------- MODULE Disk -------------------------------
(***************************************************************************)
(* The disk: BlockDevice::readFully and writeFully, which go through calls  *)
(* in pieces of at most a sector (block.cc), and the IDE driver, which polls *)
(* the drive under a mutex (ide.cc).                                       *)
(*                                                                         *)
(* The mutex is the queue of those who have asked for it, its head holds it *)
(* (see MutexIsFifoLock in ProcessLock). The drive is hardware: a command    *)
(* makes it busy, for a while. A byte on the disk shows who wrote it.       *)
(*                                                                         *)
(* An operator whose name ends in Mutant is a wrong version of the one that *)
(* follows it; no specification uses it (see README.md).                   *)
(***************************************************************************)
EXTENDS Integers, Sequences, FiniteSets, FiniteSetsExt

CONSTANTS
  Procs,     \* processes
  nSectors,  \* sectors of the drive
  blockSize, \* bytes in a sector
  Nobody,    \* the author of a byte that was never written
  Requests   \* the calls that are made: operation, offset and length

ASSUME DiskAssumption ==
  /\ nSectors \in Nat \ {0} /\ blockSize \in Nat \ {0} /\ Nobody \notin Procs
  /\ \A r \in Requests : r.op \in {"read", "write"} /\ r.offset \in Nat /\ r.n \in Nat \ {0}
  /\ \A r \in Requests : r.offset + r.n <= nSectors * blockSize

Bytes == 0 .. blockSize - 1
NoCall == [op |-> "read", offset |-> 0, togo |-> 0, got |-> <<>>]
Blank == [b \in Bytes |-> Nobody]

VARIABLES
  disk,   \* the bytes of each sector
  drive,  \* the drive is busy; the sector that the last command was about
  mutex,  \* IDE::mutex
  at,     \* where a process is
  step,   \* whether it is in readBlock or in writeBlock
  call,   \* what it reads or writes, as far as it has not come to it
  data    \* its buffer for a sector

vars == <<disk, drive, mutex, at, step, call, data>>

Init ==
  /\ disk = [s \in 0 .. nSectors - 1 |-> Blank]
  /\ drive = [busy |-> FALSE, sector |-> 0]
  /\ mutex = <<>>
  /\ at = [p \in Procs |-> "idle"]
  /\ step = [p \in Procs |-> "readBlock"]
  /\ call = [p \in Procs |-> NoCall]
  /\ data = [p \in Procs |-> Blank]

Goto(p, loc) == at' = [at EXCEPT ![p] = loc]

Sector(c) == c.offset \div blockSize
DataOffset(c) == c.offset - Sector(c) * blockSize

\* How much of c one read() or write() does, and the bytes of the sector it is about.
Piece(c) == Min({c.togo, blockSize - DataOffset(c)})
Touched(c) == DataOffset(c) .. DataOffset(c) + Piece(c) - 1

\* readFully and writeFully. The callers that write a sector keep
\* each other out with a mutex of their own: the file's, or the directory's.
Sectors(c) == {s \in 0 .. nSectors - 1 : \E a \in c.offset .. c.offset + c.togo - 1 : a \div blockSize = s}
Busy(q, s) == call[q].op = "write" /\ s \in Sectors(call[q])

Begin(p, r) ==
  LET c == [op |-> r.op, offset |-> r.offset, togo |-> r.n, got |-> <<>>]
  IN /\ at[p] = "idle"
     /\ c.op = "write" => \A q \in Procs, s \in Sectors(c) : ~Busy(q, s)
     /\ call' = [call EXCEPT ![p] = c]
     /\ Goto(p, "lock")
     /\ UNCHANGED <<disk, drive, mutex, step, data>>

\* readBlock and writeBlock
Lock(p) ==
  /\ at[p] = "lock"
  /\ mutex' = Append(mutex, p)
  /\ Goto(p, "command")
  /\ UNCHANGED <<disk, drive, step, call, data>>

HoldsMutant(p) == TRUE
Holds(p) == Head(mutex) = p

\* waitForDrive
Ready == ~drive.busy

Command(p) ==
  /\ at[p] = "command" /\ Holds(p) /\ Ready
  /\ drive' = [busy |-> TRUE, sector |-> Sector(call[p])]
  /\ Goto(p, "transfer")
  /\ UNCHANGED <<disk, mutex, step, call, data>>

\* The drive has found the sector, or stored what it was sent.
Done ==
  /\ drive.busy
  /\ drive' = [drive EXCEPT !.busy = FALSE]
  /\ UNCHANGED <<disk, mutex, at, step, call, data>>

Transfer(p) ==
  /\ at[p] = "transfer" /\ Ready
  /\ IF step[p] = "readBlock"
       THEN /\ data' = [data EXCEPT ![p] = disk[drive.sector]]
            /\ UNCHANGED <<disk, drive>>
       ELSE /\ disk' = [disk EXCEPT ![drive.sector] = data[p]]
            /\ drive' = [drive EXCEPT !.busy = TRUE]
            /\ UNCHANGED data
  /\ Goto(p, "unlock")
  /\ UNCHANGED <<mutex, step, call>>

UnlockedMutant(m) == m
Unlocked(m) == Tail(m)

\* The loops of readFully and writeFully: what is left after one piece.
Got(c, d) ==
  LET base == Sector(c) * blockSize
  IN [a \in DOMAIN c.got \cup {base + b : b \in Touched(c)} |->
        IF a \in DOMAIN c.got THEN c.got[a] ELSE d[a - base]]
Rest(c, d) ==
  [op |-> c.op, offset |-> c.offset + Piece(c), togo |-> c.togo - Piece(c),
   got |-> IF c.op = "read" THEN Got(c, d) ELSE c.got]

Unlock(p) ==
  /\ at[p] = "unlock"
  /\ mutex' = Unlocked(mutex)
  /\ UNCHANGED <<disk, drive>>

\* The buffer is deleted; the call goes on with its next piece or is over.
Continue(p) ==
  /\ Unlock(p)
  /\ data' = [data EXCEPT ![p] = Blank]
  /\ IF call[p].togo = Piece(call[p])
       THEN call' = [call EXCEPT ![p] = NoCall] /\ Goto(p, "idle")
       ELSE call' = [call EXCEPT ![p] = Rest(@, data[p])] /\ Goto(p, "lock")

\* BlockDevice::read: the piece is copied from the sector.
ReadBlock(p) == call[p].op = "read" /\ Continue(p) /\ UNCHANGED step

\* BlockDevice::write: the piece is changed in the sector that was read, ...
Overwrite(p) ==
  /\ call[p].op = "write" /\ step[p] = "readBlock" /\ Unlock(p)
  /\ data' = [data EXCEPT ![p] = [b \in Bytes |-> IF b \in Touched(call[p]) THEN p ELSE @[b]]]
  /\ step' = [step EXCEPT ![p] = "writeBlock"]
  /\ Goto(p, "lock")
  /\ UNCHANGED call

\* ... and the sector written back.
WriteBlock(p) ==
  /\ call[p].op = "write" /\ step[p] = "writeBlock" /\ Continue(p)
  /\ step' = [step EXCEPT ![p] = "readBlock"]

Go(p) ==
  Lock(p) \/ Command(p) \/ Transfer(p) \/ ReadBlock(p) \/ Overwrite(p) \/ WriteBlock(p)

Next ==
  \/ Done
  \/ \E p \in Procs :
       \/ Go(p)
       \/ \E r \in Requests : Begin(p, r)

Spec == Init /\ [][Next]_vars

\* Processes that poll get the CPU (see ReadyRuns in Process), and the drive answers.
FairSpec == Spec /\ WF_vars(Done) /\ \A p \in Procs : WF_vars(Go(p))

-----------------------------------------------------------------------------
TypeOK ==
  /\ disk \in [0 .. nSectors - 1 -> [Bytes -> Procs \cup {Nobody}]]
  /\ drive \in [busy : BOOLEAN, sector : 0 .. nSectors - 1]
  /\ mutex \in Seq(Procs)
  /\ at \in [Procs -> {"idle", "lock", "command", "transfer", "unlock"}]
  /\ step \in [Procs -> {"readBlock", "writeBlock"}]
  /\ data \in [Procs -> [Bytes -> Procs \cup {Nobody}]]
  /\ \A p \in Procs : at[p] = "idle" <=> call[p].togo = 0

\* Two halves of a write under two holds of the mutex, and calls that cross sectors: as
\* long as the writers of a sector are kept apart, no byte is lost, and every part of a
\* call that lies in one sector is done at once (block.cc:37, ide.cc).
Moved(p) ==
  /\ at[p] = "unlock"
  /\ call[p].op = "read" \/ step[p] = "writeBlock"

Store == INSTANCE Sectors WITH
  Callers <- Procs, Size <- blockSize, Undefined <- Nobody,
  content <- [a \in 0 .. nSectors * blockSize - 1 |-> disk[a \div blockSize][a % blockSize]],
  calls <- [p \in Procs |-> IF Moved(p) THEN Rest(call[p], data[p]) ELSE call[p]]

IsSectorStore == Store!SectorsSpec

\* Every call comes back.
CallsReturn == \A p \in Procs : at[p] # "idle" ~> at[p] = "idle"
=============================================================================
