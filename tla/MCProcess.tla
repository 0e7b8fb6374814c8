----------------------------- MODULE MCProcess -----------------------------
(* Instances of Process for TLC: the created counts of the user semaphores. *)
EXTENDS ProcessLock

MCInitialCount == [s \in UserSems |-> 0]
=============================================================================
