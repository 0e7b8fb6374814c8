------------------------------ MODULE Sectors ------------------------------
(***************************************************************************)
(* What a block device promises its callers: bytes that are read and        *)
(* written, and the part of a call that lies in one sector is done at once. *)
(***************************************************************************)
EXTENDS Integers

CONSTANTS
  Callers,   \* processes
  Size,      \* bytes of a sector
  Undefined  \* what is on the disk at first

VARIABLES
  content,   \* the byte at each address
  calls      \* for each caller: read or write, the address reached, how many bytes are
             \* left, and what was read so far, by address

Address == DOMAIN content

NoCall == [op |-> "read", offset |-> 0, togo |-> 0, got |-> <<>>]

\* The part of what is left of c that lies in one sector.
Part(c) == {a \in Address : a \in c.offset .. c.offset + c.togo - 1 /\ a \div Size = c.offset \div Size}

SectorsInit ==
  /\ content = [a \in Address |-> Undefined]
  /\ calls = [p \in Callers |-> NoCall]

Call(p) ==
  /\ calls[p] = NoCall
  /\ calls'[p].togo > 0 /\ calls'[p].got = <<>>
  /\ calls' = [calls EXCEPT ![p] = calls'[p]]
  /\ UNCHANGED content

\* One part, and where the call is then.
After(c, got) ==
  LET last == CHOOSE a \in Part(c) : \A b \in Part(c) : b <= a
      n == last - c.offset + 1
  IN [op |-> c.op, offset |-> c.offset + n, togo |-> c.togo - n, got |-> got]

ReadPart(p) ==
  LET c == calls[p]
  IN /\ c.togo > 0 /\ c.op = "read"
     /\ calls' = [calls EXCEPT ![p] =
          After(c, [a \in DOMAIN c.got \cup Part(c) |-> IF a \in Part(c) THEN content[a] ELSE c.got[a]])]
     /\ UNCHANGED content

\* A caller writes its own mark.
WritePart(p) ==
  LET c == calls[p]
  IN /\ c.togo > 0 /\ c.op = "write"
     /\ calls' = [calls EXCEPT ![p] = After(c, c.got)]
     /\ content' = [a \in Address |-> IF a \in Part(c) THEN p ELSE content[a]]

Return(p) ==
  /\ calls[p].togo = 0
  /\ calls' = [calls EXCEPT ![p] = NoCall]
  /\ UNCHANGED content

SectorsNext == \E p \in Callers : Call(p) \/ ReadPart(p) \/ WritePart(p) \/ Return(p)

SectorsSpec == SectorsInit /\ [][SectorsNext]_<<content, calls>>
=============================================================================
