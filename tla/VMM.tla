-------------------------------- MODULE VMM --------------------------------
(***************************************************************************)
(* Virtual memory (vmm.cc): the frames, the page tables of each process,    *)
(* page faults, fork, exec and the end of an address space.                 *)
(*                                                                         *)
(* PhysMem::alloc, free, pmap and punmap run with interrupts disabled. fork *)
(* and exec work page by page and can lose the CPU after each page; the     *)
(* steps inside one page concern only frames that nobody else knows.        *)
(*                                                                         *)
(* The CPU reads the page tables through its translation buffer tlb, which  *)
(* keeps what it has read until invlpg or until activate loads another      *)
(* directory. Only the user part of an address space is data: the rest maps *)
(* each kernel address to itself, with one page table, the one of directory *)
(* entry 0. The content of a frame is one value, 0 when bzero has been      *)
(* over it.                                                                 *)
(*                                                                         *)
(* An operator whose name ends in Mutant is a wrong version of the one that *)
(* follows it; no specification uses it (see README.md).                   *)
(***************************************************************************)
EXTENDS Integers, Sequences, SequencesExt, FiniteSets

CONSTANTS
  Procs,    \* processes
  First,    \* those that run after boot; the others are forked
  limit,    \* PhysMem::limit, in frames
  Pages,    \* user pages
  Dir(_),   \* the entry of the page directory that a page belongs to
  Values,   \* what programs write
  Link,     \* what PhysMem::free leaves in a frame: the pointer to the next
  None

ASSUME VMMAssumption ==
  /\ First \subseteq Procs /\ limit \in Nat /\ Values \subseteq Nat /\ Link \notin Values \cup {0}
  /\ IsFiniteSet(First) /\ First # {} /\ 2 * Cardinality(First) <= limit
  /\ \A g \in Pages : Dir(g) # 0

Frames == 0 .. limit - 1

\* AddressSpace: the frame of the page directory, of the page tables by directory entry
\* and of the user pages.
SpaceType ==
  [pd : Frames, tables : UNION {[D -> Frames] : D \in SUBSET ({0} \cup {Dir(g) : g \in Pages})},
   pages : UNION {[G -> Frames] : G \in SUBSET Pages}]

ASSUME NoneAssumption == None \notin SpaceType \cup [Pages -> Values \cup {0, Link}]

VARIABLES
  phys,     \* PhysMem: the list of free frames and avail, the first that was never used
  content,  \* what is in each frame
  space,    \* AddressSpace of each process
  at,       \* where a process is: "unborn", "user", "fork", "exec", "ended"
  child,    \* the process that a process in fork creates
  running,  \* the process that has the CPU
  tlb,      \* the translations that the CPU holds
  panicked  \* PhysMem::alloc found no frame

vars == <<phys, content, space, at, child, running, tlb, panicked>>

NoPages == [g \in {} |-> 0]
Put(f, x, y) == [z \in DOMAIN f \cup {x} |-> IF z = x THEN y ELSE f[z]]
Drop(f, x) == [z \in DOMAIN f \ {x} |-> f[z]]

----------------------------------------------------------------------------
(* PhysMem: freed frames are used before the others. Which one comes first   *)
(* depends on the order of the list, on which nothing else does: any does.   *)

CanAllocMutant(ph, n) == TRUE
CanAlloc(ph, n) == n <= Cardinality(ph.free) + limit - ph.avail
NextFrame(ph) == IF ph.free # {} THEN CHOOSE f \in ph.free : TRUE ELSE ph.avail
Alloced(ph) ==
  IF ph.free # {} THEN [ph EXCEPT !.free = @ \ {NextFrame(ph)}] ELSE [ph EXCEPT !.avail = @ + 1]

Freed(ph, fs) == [ph EXCEPT !.free = @ \cup fs]
Linked(fs) == [f \in Frames |-> IF f \in fs THEN Link ELSE content[f]]

\* PhysMem::alloc ends with bzero.
ClearedMutant(f) == content
Cleared(f) == [content EXCEPT ![f] = 0]

\* AddressSpace::pmap and getPTE: a frame becomes the page; the page table is allocated
\* when it is the first page there.
TablesNeeded(s, g) == IF Dir(g) \in DOMAIN s.tables THEN 0 ELSE 1
Mapped(s, ph, g, f) ==
  [s EXCEPT !.pages = Put(s.pages, g, f),
            !.tables = IF TablesNeeded(s, g) = 0 THEN @ ELSE Put(@, Dir(g), NextFrame(ph))]
AfterMap(s, ph, g) == IF TablesNeeded(s, g) = 0 THEN ph ELSE Alloced(ph)

\* AddressSpace::AddressSpace: a directory, and the page table of the kernel's part.
NewSpace(ph) ==
  [pd |-> NextFrame(ph), tables |-> Put(NoPages, 0, NextFrame(Alloced(ph))), pages |-> NoPages]

\* ~AddressSpace: the pages, unless the kernel's, then the tables and the directory.
OwnedMutant(s) == {s.pd} \cup {s.pages[g] : g \in DOMAIN s.pages}
                   \cup {s.tables[d] : d \in {Dir(g) : g \in DOMAIN s.pages}}
Owned(s) == {s.pd} \cup {s.tables[d] : d \in DOMAIN s.tables}
             \cup {s.pages[g] : g \in DOMAIN s.pages}

----------------------------------------------------------------------------
Init ==
  \E order \in {SetToSeq(First)} :
    /\ phys = [free |-> {}, avail |-> 2 * Len(order)]
    /\ content = [f \in Frames |-> 0]
    /\ space = [p \in Procs |-> IF p \in First
                  THEN LET i == CHOOSE i \in DOMAIN order : order[i] = p
                       IN NewSpace([free |-> {}, avail |-> 2 * (i - 1)])
                  ELSE None]
    /\ at = [p \in Procs |-> IF p \in First THEN "user" ELSE "unborn"]
    /\ child = [p \in Procs |-> None]
    /\ running = order[1]
    /\ tlb = NoPages
    /\ panicked = FALSE

\* Process::dispatch activates the address space of the process that gets the CPU,
\* which empties the translation buffer.
Switch(p) ==
  /\ p # running /\ at[p] \in {"user", "fork", "exec"}
  /\ running' = p /\ tlb' = NoPages
  /\ UNCHANGED <<phys, content, space, at, child, panicked>>

\* No frame is left for what the running process does.
Panic ==
  /\ panicked' = TRUE
  /\ UNCHANGED <<phys, content, space, at, child, running, tlb>>

\* A program, or the kernel for it, accesses a page that the CPU can translate.
Access(p, g, v) ==
  LET f == IF g \in DOMAIN tlb THEN tlb[g] ELSE space[p].pages[g]
  IN /\ running = p /\ at[p] = "user"
     /\ g \in DOMAIN tlb \cup DOMAIN space[p].pages
     /\ tlb' = Put(tlb, g, f)
     /\ content' \in {content, [content EXCEPT ![f] = v]}
     /\ UNCHANGED <<phys, space, at, child, running, panicked>>

\* handlePageFault: the user page gets a frame.
PageFault(p, g) ==
  LET f == NextFrame(phys)
      ph == Alloced(phys)
  IN /\ running = p /\ at[p] = "user"
     /\ g \notin DOMAIN tlb \cup DOMAIN space[p].pages
     /\ IF ~CanAlloc(phys, 1 + TablesNeeded(space[p], g)) THEN Panic
        ELSE /\ space' = [space EXCEPT ![p] = Mapped(@, ph, g, f)]
             /\ phys' = AfterMap(space[p], ph, g)
             /\ content' = Cleared(f)
             /\ tlb' = Drop(tlb, g)
             /\ UNCHANGED <<at, child, running, panicked>>

\* The fork system call creates the address space of the child, Process::Process.
Fork(p, c) ==
  /\ running = p /\ at[p] = "user" /\ at[c] = "unborn"
  /\ IF ~CanAlloc(phys, 2) THEN Panic
     ELSE /\ space' = [space EXCEPT ![c] = NewSpace(phys)]
          /\ phys' = Alloced(Alloced(phys))
          /\ at' = [at EXCEPT ![p] = "fork", ![c] = "created"]
          /\ child' = [child EXCEPT ![p] = c]
          /\ UNCHANGED <<content, running, tlb, panicked>>

\* AddressSpace::fork copies one page.
ForkPage(p, g) ==
  LET c == child[p]
      f == NextFrame(phys)
      ph == Alloced(phys)
  IN /\ running = p /\ at[p] = "fork"
     /\ g \in DOMAIN space[p].pages \ DOMAIN space[c].pages
     /\ IF ~CanAlloc(phys, 1 + TablesNeeded(space[c], g)) THEN Panic
        ELSE /\ space' = [space EXCEPT ![c] = Mapped(@, ph, g, f)]
             /\ phys' = AfterMap(space[c], ph, g)
             /\ content' = [content EXCEPT ![f] = content[space[p].pages[g]]]
             /\ tlb' = Drop(tlb, g)
             /\ UNCHANGED <<at, child, running, panicked>>

\* Process::start: the child may run.
ForkDone(p) ==
  /\ running = p /\ at[p] = "fork"
  /\ DOMAIN space[p].pages = DOMAIN space[child[p]].pages
  /\ at' = [at EXCEPT ![p] = "user", ![child[p]] = "user"]
  /\ child' = [child EXCEPT ![p] = None]
  /\ UNCHANGED <<phys, content, space, running, tlb, panicked>>

\* AddressSpace::exec gives the user pages back, one by one; the page tables stay.
Exec(p) ==
  /\ running = p /\ at[p] = "user"
  /\ at' = [at EXCEPT ![p] = "exec"]
  /\ UNCHANGED <<phys, content, space, child, running, tlb, panicked>>

ExecPageMutant(p, g) ==
  /\ running = p /\ at[p] = "exec" /\ g \in DOMAIN space[p].pages
  /\ space' = [space EXCEPT ![p].pages = Drop(@, g)]
  /\ phys' = Freed(phys, {space[p].pages[g]})
  /\ content' = Linked({space[p].pages[g]})
  /\ UNCHANGED <<tlb, at, child, running, panicked>>
ExecPage(p, g) ==
  /\ running = p /\ at[p] = "exec" /\ g \in DOMAIN space[p].pages
  /\ space' = [space EXCEPT ![p].pages = Drop(@, g)]
  /\ tlb' = Drop(tlb, g)
  /\ phys' = Freed(phys, {space[p].pages[g]})
  /\ content' = Linked({space[p].pages[g]})
  /\ UNCHANGED <<at, child, running, panicked>>

ExecDone(p) ==
  /\ running = p /\ at[p] = "exec" /\ space[p].pages = NoPages
  /\ at' = [at EXCEPT ![p] = "user"]
  /\ UNCHANGED <<phys, content, space, child, running, tlb, panicked>>

\* Process::exit: another process gets the CPU, and its address space is activated.
Exit(p, next) ==
  /\ running = p /\ at[p] = "user"
  /\ next # p /\ at[next] \in {"user", "fork", "exec"}
  /\ at' = [at EXCEPT ![p] = "ended"]
  /\ running' = next /\ tlb' = NoPages
  /\ UNCHANGED <<phys, content, space, child, panicked>>

\* The last reference to a process is gone: ~Process and ~AddressSpace.
Destroy(p) ==
  /\ at[p] = "ended" /\ space[p] # None
  /\ phys' = Freed(phys, Owned(space[p]))
  /\ content' = Linked(Owned(space[p]))
  /\ space' = [space EXCEPT ![p] = None]
  /\ UNCHANGED <<at, child, running, tlb, panicked>>

Next ==
  /\ ~panicked
  /\ \E p \in Procs :
       \/ Switch(p) \/ ForkDone(p) \/ Exec(p) \/ ExecDone(p) \/ Destroy(p)
       \/ \E c \in Procs : Fork(p, c) \/ Exit(p, c)
       \/ \E g \in Pages : PageFault(p, g) \/ ForkPage(p, g) \/ ExecPage(p, g)
       \/ \E g \in Pages, v \in Values : Access(p, g, v)

Spec == Init /\ [][Next]_vars

----------------------------------------------------------------------------
TypeOK ==
  /\ phys \in [free : SUBSET Frames, avail : 0 .. limit]
  /\ content \in [Frames -> Values \cup {0, Link}]
  /\ space \in [Procs -> SpaceType \cup {None}]
  /\ at \in [Procs -> {"user", "fork", "exec", "unborn", "created", "ended"}]
  /\ child \in [Procs -> Procs \cup {None}]
  /\ running \in Procs /\ panicked \in BOOLEAN

FramesOf(s) == {s.pd} \cup {s.tables[d] : d \in DOMAIN s.tables} \cup {s.pages[g] : g \in DOMAIN s.pages}

\* The frames of one address space are all different: its directory, its page tables
\* and its pages.
OwnsApart(s) ==
  /\ \A d \in DOMAIN s.tables : s.tables[d] # s.pd /\ \A e \in DOMAIN s.tables \ {d} : s.tables[d] # s.tables[e]
  /\ \A g \in DOMAIN s.pages :
       /\ s.pages[g] # s.pd /\ s.pages[g] \notin {s.tables[d] : d \in DOMAIN s.tables}
       /\ \A h \in DOMAIN s.pages \ {g} : s.pages[g] # s.pages[h]

\* Each frame that was ever allocated is owned once: by the free list, or as directory,
\* table or page of one process. fork, exec and the destructor neither leak a frame nor
\* hand one back twice (vmm.cc:66-84, 148-186).
FramesConserved ==
  LET Live == {p \in Procs : space[p] # None}
  IN /\ \A p \in Live : OwnsApart(space[p]) /\ FramesOf(space[p]) \cap phys.free = {}
     /\ \A p, q \in Live : p # q => FramesOf(space[p]) \cap FramesOf(space[q]) = {}
     /\ phys.free \cup UNION {FramesOf(space[p]) : p \in Live} = 0 .. phys.avail - 1

\* What the CPU translates is what the page tables of the running process say now:
\* exec invalidates each page it takes away, and a switch everything (vmm.cc:128, 180).
TlbCoherent ==
  \A g \in DOMAIN tlb : g \in DOMAIN space[running].pages /\ tlb[g] = space[running].pages[g]

----------------------------------------------------------------------------
(* Each process has a memory of its own, although frames go from one to the *)
(* other, the CPU may hold translations of pages that are gone, and others  *)
(* run while one is being copied (vmm.cc:134-186).                          *)

Memory(p) ==
  IF at[p] \in {"unborn", "created", "ended"} THEN None
  ELSE [g \in Pages |-> IF g \in DOMAIN space[p].pages THEN content[space[p].pages[g]] ELSE 0]

Abstract == INSTANCE PrivateMemory WITH
  Gone <- None, Values <- Values \cup {0}, memory <- [p \in Procs |-> Memory(p)]

IsPrivateMemory == Abstract!MemorySpec
=============================================================================
