----------------------------- MODULE Allocator -----------------------------
(* What a heap promises: blocks in use do not overlap and keep what was     *)
(* written to them, and a request is refused only when no gap between them  *)
(* is large enough.                                                         *)
EXTENDS Integers, Sequences

CONSTANTS
  First, Last, \* the words that can be handed out
  Null,        \* the null pointer
  Unit(_),     \* the words that a block for so many bytes needs
  Slack,       \* the words that a block may have more than it needs
  Requests,    \* sizes in bytes
  Stamps       \* what programs write

VARIABLES
  blocks,      \* the blocks in use: where they start, their size and what is in them
  result       \* what the last request returned

Words(b) == b.start .. b.start + b.size - 1

Fill(data, bytes, v) ==
  [w \in 1 .. bytes \div 4 |-> IF w <= Len(data) THEN data[w] ELSE v]

Gap(n) ==
  \E s \in First .. Last - n + 1 : \A b \in blocks : Words(b) \cap s .. s + n - 1 = {}

\* b is a block for so many bytes beside those in use.
Fits(b, bytes) ==
  /\ b.size \in Unit(bytes) .. Unit(bytes) + Slack
  /\ Words(b) \subseteq First .. Last
  /\ \A c \in blocks : Words(b) \cap Words(c) = {}

AllocatorInit == blocks = {} /\ result = Null

\* A request is met, with the rest of the old block gone, or there is no gap.
Request(old, bytes, data) ==
  \/ \E b \in blocks' :
       /\ b.data = data /\ Fits(b, bytes)
       /\ blocks' = (blocks \ old) \cup {b} /\ result' = b.start + 1
  \/ ~Gap(Unit(bytes)) /\ blocks' = blocks \ old /\ result' = Null

Release(b) == blocks' = blocks \ {b} /\ result' \in {result, Null}

AllocatorNext ==
  \/ \E bytes \in Requests, v \in Stamps :
       \/ Request({}, bytes, Fill(<<>>, bytes, v))
       \/ \E b \in blocks : Request({b}, bytes, Fill(b.data, bytes, v))
  \/ \E b \in blocks : Release(b)
  \/ result' = 0 /\ UNCHANGED blocks \* a request for nothing

AllocatorSpec == AllocatorInit /\ [][AllocatorNext]_<<blocks, result>>
=============================================================================
