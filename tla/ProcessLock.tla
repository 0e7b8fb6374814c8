---------------------------- MODULE ProcessLock ----------------------------
(* A mutex that processes share implements FifoLock: what down(), up() and  *)
(* the context switches do to it is what a lock that passes from hand to    *)
(* hand in order does.                                                      *)
EXTENDS Process

CONSTANT SharedMutex  \* the mutex of Mutexes that the refinement is about

ASSUME SharedMutexAssumption == SharedMutex \in Mutexes

\* The process in the critical section, from the up() that hands it the mutex.
Owner ==
  IF Holders(SharedMutex) = {} THEN None ELSE CHOOSE p \in Holders(SharedMutex) : TRUE

FifoLock == INSTANCE FifoLock
  WITH Clients <- Procs, Nobody <- None, owner <- Owner, queue <- waiting[SharedMutex]

\* Semaphore::down and up, with yield and dispatch, implement a lock that has one
\* owner, passes to the process that asked first, and is given up by every owner.
MutexIsFifoLock == FifoLock!LockSpec
=============================================================================
