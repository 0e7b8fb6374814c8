--------------------------- MODULE PrivateMemory ---------------------------
(* What the address spaces promise to the processes: each has a memory of   *)
(* its own, which starts as zeros or as a copy of its parent's, and that    *)
(* nobody else changes.                                                     *)
EXTENDS Naturals

CONSTANTS Procs, Pages, Values, Gone

VARIABLE memory \* the memory of each process, or Gone

Store(p, g, v) == memory[p] # Gone /\ memory' = [memory EXCEPT ![p][g] = v]
ForkMemory(p, c) == memory[p] # Gone /\ memory[c] = Gone /\ memory' = [memory EXCEPT ![c] = memory[p]]
End(p) == memory' = [memory EXCEPT ![p] = Gone]

MemoryNext ==
  \E p \in Procs :
    \/ \E g \in Pages, v \in Values : Store(p, g, v)
    \/ \E c \in Procs : ForkMemory(p, c)
    \/ End(p)

MemorySpec ==
  memory \in [Procs -> {Gone, [g \in Pages |-> 0]}] /\ [][MemoryNext]_memory
=============================================================================
