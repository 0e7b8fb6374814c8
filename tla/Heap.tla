-------------------------------- MODULE Heap --------------------------------
(***************************************************************************)
(* The first-fit heap with boundary tags, which the kernel (heap.cc) and    *)
(* each user program (user/heap.c) have. The kernel runs malloc and free    *)
(* with interrupts disabled and a user program has one thread, so a call is *)
(* one action. The two differ when the heap is full, which is a panic in    *)
(* the kernel and a null pointer in a program, and only the latter has      *)
(* realloc.                                                                 *)
(*                                                                         *)
(* A pointer is the index of the word it points to. Programs write a stamp  *)
(* to each whole word they asked for.                                       *)
(*                                                                         *)
(* An operator whose name ends in Mutant is a wrong version of the one that *)
(* follows it; no specification uses it (see README.md).                   *)
(***************************************************************************)
EXTENDS Integers, Sequences, FiniteSets

CONSTANTS
  len,      \* the words of the heap
  Requests, \* the sizes asked for, in bytes
  Stamps,   \* what programs write
  Panic     \* the result of a kernel malloc that does not return

Null == -1
Base == 0 \* what malloc(0) returns: the array itself

ASSUME HeapAssumption ==
  /\ len \in Nat /\ len >= 8
  /\ Requests \subseteq Nat /\ Stamps \subseteq Nat
  /\ Panic \notin Int

VARIABLES
  kernel,   \* whether this is the heap of the kernel
  array, avail,
  live,     \* the bytes asked for, for each pointer that is in use
  result    \* what the last malloc or realloc returned

vars == <<kernel, array, avail, live, result>>

\* The heap as the operations pass it on: the words and the head of the list.
heap == [array |-> array, avail |-> avail]

----------------------------------------------------------------------------
(* Tags and the list of available blocks: next is the second word of a      *)
(* block, prev the third, and index 0 ends the list.                        *)

Size(h, i) == IF h.array[i] < 0 THEN -h.array[i] ELSE h.array[i]
Footer(h, i) == i + Size(h, i) - 1
LeftOf(h, i) == i - 1 - Size(h, i - 1) + 1
RightOf(h, i) == i + Size(h, i)
IsAvail(h, i) == h.array[i] > 0
NextOf(h, i) == h.array[i + 1]
PrevOf(h, i) == h.array[i + 2]

SetWord(h, i, x) == [h EXCEPT !.array[i] = x]

\* Both ends of a block get its tag. Nobody may read what is between them before
\* writing there: it is abstracted to 0.
Tagged(h, i, ints, tag) ==
  [h EXCEPT !.array = [k \in 0 .. len - 1 |->
     IF k \in {i, i + ints - 1} THEN tag ELSE IF k \in i .. i + ints - 1 THEN 0 ELSE h.array[k]]]

MakeTaken(h, i, ints) == Tagged(h, i, ints, -ints)

\* A block becomes available, at the head of the list.
MakeAvailMutant(h, i, ints) == [SetWord(Tagged(h, i, ints, ints), i + 1, h.avail) EXCEPT !.avail = i]
MakeAvail(h, i, ints) ==
  LET linked == SetWord(Tagged(h, i, ints, ints), i + 1, h.avail)
  IN [IF h.avail = 0 THEN linked ELSE SetWord(linked, h.avail + 2, i) EXCEPT !.avail = i]

\* remove: an available block leaves the list.
Unlinked(h, i) ==
  LET prev == PrevOf(h, i)
      next == NextOf(h, i)
      skipped == IF prev = 0 THEN [h EXCEPT !.avail = next] ELSE SetWord(h, prev + 1, next)
  IN IF next = 0 THEN skipped ELSE SetWord(skipped, next + 2, prev)

\* Heap::init and heap_init: two taken blocks are the ends of the heap.
Initial ==
  LET blank == [array |-> [i \in 0 .. len - 1 |-> 0], avail |-> 0]
  IN MakeTaken(MakeAvail(MakeTaken(blank, 0, 2), 2, len - 4), len - 2, 2)

----------------------------------------------------------------------------
(* malloc and free *)

\* The words that a block for so many bytes needs, with its tags.
Ints(bytes) == IF (bytes + 3) \div 4 + 2 < 4 THEN 4 ELSE (bytes + 3) \div 4 + 2

\* The first block in the list that is large enough, or 0.
FirstFit(h, ints) ==
  LET nth[n \in 0 .. len] ==
        IF n = 0 THEN h.avail
        ELSE LET i == nth[n - 1] IN IF i = 0 \/ Size(h, i) >= ints THEN i ELSE NextOf(h, i)
  IN nth[len]

\* An available block is taken; what is left over becomes a block if it can hold one.
Carve(h, p, ints) ==
  LET extra == Size(h, p) - ints
      without == Unlinked(h, p)
  IN IF extra >= 4 THEN MakeAvail(MakeTaken(without, p, ints), p + ints, extra)
                   ELSE MakeTaken(without, p, Size(h, p))

\* A block is given back, merged with its neighbours if they are available.
FreedMutant2(h, i) ==
  LET l == LeftOf(h, i)
      r == RightOf(h, i)
      h1 == IF IsAvail(h, l) THEN Unlinked(h, l) ELSE h
      h2 == IF IsAvail(h, r) THEN Unlinked(h1, r) ELSE h1
      all == Size(h, i) + (IF IsAvail(h, l) THEN Size(h, l) ELSE 0)
  IN MakeAvail(h2, IF IsAvail(h, l) THEN l ELSE i, IF IsAvail(h, r) THEN all + 2 * Size(h, r) ELSE all)
FreedMutant(h, i) ==
  LET l == LeftOf(h, i)
      r == RightOf(h, i)
      h1 == IF IsAvail(h, l) THEN Unlinked(h, l) ELSE h
      h2 == IF IsAvail(h, r) THEN Unlinked(h1, r) ELSE h1
  IN MakeAvail(h2, IF IsAvail(h, l) THEN l ELSE i,
               Size(h, i) + (IF IsAvail(h, r) THEN Size(h, r) ELSE 0))
Freed(h, i) ==
  LET l == LeftOf(h, i)
      r == RightOf(h, i)
      h1 == IF IsAvail(h, l) THEN Unlinked(h, l) ELSE h
      h2 == IF IsAvail(h, r) THEN Unlinked(h1, r) ELSE h1
  IN MakeAvail(h2, IF IsAvail(h, l) THEN l ELSE i,
               Size(h, i) + (IF IsAvail(h, l) THEN Size(h, l) ELSE 0)
                          + (IF IsAvail(h, r) THEN Size(h, r) ELSE 0))

\* What free does with a pointer: nothing with null, with the base and with the
\* pointer to a block that is free already (a panic in the kernel).
GiveBack(h, p) == IF p \in {Null, Base} \/ IsAvail(h, p - 1) THEN h ELSE Freed(h, p - 1)

\* The program writes to the words it asked for, from the one after skip.
Stamped(h, p, skip, bytes, v) ==
  [h EXCEPT !.array = [i \in 0 .. len - 1 |->
     IF i \in p + skip .. p + bytes \div 4 - 1 THEN v ELSE h.array[i]]]

Become(h) == array' = h.array /\ avail' = h.avail

Without(p) == [q \in DOMAIN live \ {p} |-> live[q]]
With(f, p, bytes) == [q \in DOMAIN f \cup {p} |-> IF q = p THEN bytes ELSE f[q]]

----------------------------------------------------------------------------
Init ==
  /\ kernel \in BOOLEAN
  /\ array = Initial.array /\ avail = Initial.avail
  /\ live = [p \in {} |-> 0]
  /\ result = Null

\* A malloc that finds a block, or returns what it does when there is none.
Allocate(bytes, v, none) ==
  LET p == FirstFit(heap, Ints(bytes))
  IN IF bytes = 0 THEN result' = Base /\ UNCHANGED <<array, avail, live>>
     ELSE IF p = 0 THEN result' = none /\ UNCHANGED <<array, avail, live>>
     ELSE /\ Become(Stamped(Carve(heap, p, Ints(bytes)), p + 1, 0, bytes, v))
          /\ live' = With(live, p + 1, bytes)
          /\ result' = p + 1

Malloc(bytes, v) == kernel /\ Allocate(bytes, v, Panic) /\ UNCHANGED kernel

UserMalloc(bytes, v) == ~kernel /\ Allocate(bytes, v, Null) /\ UNCHANGED kernel

\* Programs free what they have, null, and the base; in the kernel, freeing twice
\* is a panic, in a program it has no effect if the block is still there.
Release(p) ==
  /\ Become(GiveBack(heap, p))
  /\ live' = Without(p)
  /\ UNCHANGED <<kernel, result>>

Free(p) == kernel /\ p \in DOMAIN live \cup {Null, Base} /\ Release(p)

UserFree(p) ==
  /\ ~kernel
  /\ p \in DOMAIN live \cup {Null, Base} \cup {i + 1 : i \in {avail} \ {0}}
  /\ Release(p)

\* realloc: what is copied is counted with the tags of the block, so it may reach
\* into the next one; the old block is freed also when there is no new one.
ReallocMutant(p, bytes, v) ==
  LET freed == Freed(heap, p - 1)
      q == FirstFit(freed, Ints(bytes)) + 1
      got == Carve(freed, q - 1, Ints(bytes))
      copy == IF bytes < 4 * Size(heap, p - 1) THEN bytes \div 4 ELSE Size(heap, p - 1)
      moved == [got EXCEPT !.array = [i \in 0 .. len - 1 |->
                  IF i \in q .. q + copy - 1 THEN got.array[p + i - q] ELSE got.array[i]]]
  IN /\ ~kernel /\ p \in DOMAIN live /\ bytes # 0 /\ q # 1
     /\ Become(Stamped(moved, q, live[p] \div 4, bytes, v))
     /\ live' = With(Without(p), q, bytes)
     /\ result' = q
     /\ UNCHANGED kernel
Realloc(p, bytes, v) ==
  LET q == FirstFit(heap, Ints(bytes)) + 1
      got == Carve(heap, q - 1, Ints(bytes))
      copy == IF bytes < 4 * Size(heap, p - 1) THEN bytes \div 4 ELSE Size(heap, p - 1)
      moved == [got EXCEPT !.array = [i \in 0 .. len - 1 |->
                  IF i \in q .. q + copy - 1 THEN heap.array[p + i - q] ELSE got.array[i]]]
  IN /\ ~kernel /\ p \in DOMAIN live
     /\ IF bytes = 0
          THEN Become(Freed(heap, p - 1)) /\ live' = Without(p) /\ result' = Null
        ELSE IF q = 1
          THEN Become(Freed(heap, p - 1)) /\ live' = Without(p) /\ result' = Null
        ELSE /\ Become(Stamped(Freed(moved, p - 1), q, live[p] \div 4, bytes, v))
             /\ live' = With(Without(p), q, bytes)
             /\ result' = q
     /\ UNCHANGED kernel

Next ==
  /\ result # Panic
  /\ \/ \E bytes \in Requests, v \in Stamps : Malloc(bytes, v) \/ UserMalloc(bytes, v)
     \/ \E p \in {Null} \cup 0 .. len - 1 : Free(p) \/ UserFree(p)
     \/ \E p \in DOMAIN live, bytes \in Requests, v \in Stamps : Realloc(p, bytes, v)

Spec == Init /\ [][Next]_vars

----------------------------------------------------------------------------
TypeOK ==
  /\ kernel \in BOOLEAN
  /\ array \in [0 .. len - 1 -> -len .. len \cup Stamps]
  /\ avail \in 0 .. len - 1
  /\ DOMAIN live \subseteq 0 .. len - 1 /\ \A p \in DOMAIN live : live[p] \in Requests
  /\ result \in {Null, Panic} \cup 0 .. len - 1

\* The blocks, found by their headers from the left end, and the list, from its head.
Blocks ==
  LET from[i \in Nat] == IF i >= len \/ Size(heap, i) = 0 THEN {} ELSE {i} \cup from[RightOf(heap, i)]
  IN from[0]
AvailBlocks == {i \in Blocks : IsAvail(heap, i)}

\* The blocks fill the heap between its ends; both tags of each agree, so that the
\* walk over the neighbours in free meets blocks from either side; the taken ones
\* are those in use; and no two available ones are neighbours (free, heap.cc:185-196).
BlocksTile ==
  /\ {0, len - 2} \subseteq Blocks
  /\ \A i \in Blocks : array[Footer(heap, i)] = array[i]
  /\ Blocks \ AvailBlocks = {0, len - 2} \cup {p - 1 : p \in DOMAIN live}
  /\ \A i \in AvailBlocks : RightOf(heap, i) \notin AvailBlocks

\* The list has exactly the available blocks, and leads back the way it leads on:
\* remove takes a block out of the middle by both links (heap.cc:87-101).
ListExact ==
  /\ avail = 0 <=> AvailBlocks = {}
  /\ avail # 0 => avail \in AvailBlocks /\ PrevOf(heap, avail) = 0
  /\ \A i \in AvailBlocks :
       /\ NextOf(heap, i) # 0 => NextOf(heap, i) \in AvailBlocks /\ PrevOf(heap, NextOf(heap, i)) = i
       /\ i # avail => PrevOf(heap, i) \in AvailBlocks /\ NextOf(heap, PrevOf(heap, i)) = i

----------------------------------------------------------------------------
(* The heap is an allocator: a request is refused only if there is no gap,  *)
(* blocks do not overlap, and what a program wrote stays there until it     *)
(* frees the block, also while realloc moves it (heap.cc, user/heap.c).     *)

InUse == {[start |-> p - 1, size |-> Size(heap, p - 1),
           data |-> [w \in 1 .. live[p] \div 4 |-> array[p + w - 1]]] : p \in DOMAIN live}

Abstract == INSTANCE Allocator WITH
  First <- 2, Last <- len - 3, Unit <- Ints, Slack <- 3,
  blocks <- InUse, result <- IF result = Panic THEN Null ELSE result

IsAllocator == Abstract!AllocatorSpec
=============================================================================
