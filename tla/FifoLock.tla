------------------------------ MODULE FifoLock ------------------------------
(***************************************************************************)
(* What a kernel Mutex promises the code that brackets a critical section  *)
(* with lock() and unlock(): one owner at a time, the lock passes to the   *)
(* process that asked first, and nobody who asks is forgotten.             *)
(***************************************************************************)
EXTENDS Sequences, Functions

CONSTANTS
  Clients,  \* the processes that may ask for the lock
  Nobody    \* the owner of a lock that is free

VARIABLES
  owner,    \* the client in the critical section, or Nobody
  queue     \* the clients that wait, first come first

lockVars == <<owner, queue>>

LockInit == owner = Nobody /\ queue = <<>>

Acquire(p) ==
  /\ owner = Nobody
  /\ owner' = p
  /\ UNCHANGED queue

Wait(p) ==
  /\ owner # Nobody
  /\ p # owner
  /\ p \notin Range(queue)
  /\ queue' = Append(queue, p)
  /\ UNCHANGED owner

PassOn ==
  /\ owner # Nobody
  /\ IF queue = <<>>
       THEN owner' = Nobody /\ UNCHANGED queue
       ELSE owner' = Head(queue) /\ queue' = Tail(queue)

LockNext ==
  \/ \E p \in Clients : Acquire(p) \/ Wait(p)
  \/ PassOn

\* An owner leaves its critical section.
LockSpec == LockInit /\ [][LockNext]_lockVars /\ WF_lockVars(PassOn)
=============================================================================
