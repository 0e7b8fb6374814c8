----------------------------- MODULE MCDevices -----------------------------
(***************************************************************************)
(* The two devices that processes poll. The disk and the serial line share  *)
(* nothing, not even a process while a call lasts, so that a behaviour is   *)
(* either one of the disk or one of the console.                           *)
(***************************************************************************)
EXTENDS Disk

CONSTANTS Letters, Grow, MaxTyped

VARIABLES
  device,                                                   \* which of the two it is
  rbr, lineMutex, lineAt, char, buf, sz, typed, taken, heard \* Console

lineVars == <<rbr, lineMutex, lineAt, char, buf, sz, typed, taken, heard>>
allVars == <<device, vars, lineVars>>

Line == INSTANCE Console WITH mutex <- lineMutex, at <- lineAt

ASSUME LineAssumption == Line!ConsoleAssumption

\* All of the disk, less than a sector, bytes of two sectors, and the last byte.
Request(op, offset, n) == [op |-> op, offset |-> offset, n |-> n]
MCRequests ==
  { Request("read", 0, nSectors * blockSize), Request("write", 0, 1),
    Request("write", blockSize - 1, 2), Request("write", nSectors * blockSize - 1, 1) }

DevicesInit ==
  /\ device \in {"disk", "console"}
  /\ Init /\ Line!Init

OnDisk(Action) == device = "disk" /\ Action /\ UNCHANGED <<device, lineVars>>

DevicesNext ==
  \/ OnDisk(Next)
  \/ device = "console" /\ Line!Next /\ UNCHANGED <<device, vars>>

\* The fairness of FairSpec in Disk.
DevicesSpec ==
  /\ DevicesInit /\ [][DevicesNext]_allVars
  /\ WF_allVars(OnDisk(Done))
  /\ \A p \in Procs : WF_allVars(OnDisk(Go(p)))

-----------------------------------------------------------------------------
\* The state of both is well typed, and gets() stays inside its buffer (libc.c:12-60).
DevicesTypeOK == TypeOK /\ Line!TypeOK

\* Every character goes to one of the readers, once and in order (u8250.cc:14-22).
EachCharacterOnce == Line!EachCharacterOnce

\* The shell cuts a line into its words (libc.c:112-168, shell.c:73-91).
ArgsAreWords == Line!ArgsAreWords
=============================================================================
