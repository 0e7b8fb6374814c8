------------------------------ MODULE VMMProofs ------------------------------
(***************************************************************************)
(* Theorems about VMM for any memory, processes and pages: no frame is     *)
(* lost or owned twice, the translation buffer is coherent, and each       *)
(* process has a memory of its own.                                        *)
(***************************************************************************)
EXTENDS VMM, FiniteSetTheorems, TLAPS

PhysType == [free : SUBSET Frames, avail : 0 .. limit]

\* The frames that are allocated.
Used(ph) == (0 .. ph.avail - 1) \ ph.free

\* The frames of a process.
FramesFor(s) == IF s = None THEN {} ELSE FramesOf(s)

\* FramesConserved, by what is used.
FramesInv ==
  /\ phys.free \subseteq 0 .. phys.avail - 1
  /\ \A p \in Procs : space[p] # None => OwnsApart(space[p])
  /\ \A p, q \in Procs : p # q => FramesFor(space[p]) \cap FramesFor(space[q]) = {}
  /\ UNION {FramesFor(space[p]) : p \in Procs} = Used(phys)

\* Who runs has an address space, also while it is copied or emptied, and an unborn
\* process has none yet.
ProcInv ==
  /\ at[running] \in {"user", "fork", "exec"}
  /\ \A p \in Procs :
       /\ at[p] \in {"user", "fork", "exec", "created"} => space[p] # None
       /\ at[p] = "unborn" => space[p] = None

\* A fork has one child of its own, which so far is a copy.
ForkInv ==
  \A p \in Procs : at[p] = "fork" =>
    /\ child[p] \in Procs /\ at[child[p]] = "created"
    /\ \A q \in Procs : at[q] = "fork" /\ child[q] = child[p] => q = p
    /\ \A g \in DOMAIN space[child[p]].pages :
         /\ g \in DOMAIN space[p].pages
         /\ content[space[child[p]].pages[g]] = content[space[p].pages[g]]

IInv == TypeOK /\ FramesInv /\ TlbCoherent /\ ProcInv /\ ForkInv

----------------------------------------------------------------------------
(* Page tables as partial functions.                                        *)

Partial(S, V) == UNION {[D -> V] : D \in SUBSET S}

\* A partial function is a function that is defined on a part.
LEMMA PartialDef ==
  ASSUME NEW S, NEW V, NEW f
  PROVE f \in Partial(S, V) <=> (f \in [DOMAIN f -> V] /\ DOMAIN f \subseteq S)
BY DEF Partial

\* What Put does.
LEMMA PutLemma ==
  ASSUME NEW S, NEW V, NEW f \in Partial(S, V), NEW x \in S, NEW y \in V
  PROVE /\ Put(f, x, y) \in Partial(S, V)
        /\ DOMAIN Put(f, x, y) = DOMAIN f \cup {x}
        /\ Put(f, x, y)[x] = y
        /\ \A z \in DOMAIN f \ {x} : Put(f, x, y)[z] = f[z]
<1>1. f \in [DOMAIN f -> V] /\ DOMAIN f \subseteq S
  BY PartialDef
<1>2. Put(f, x, y) \in [DOMAIN f \cup {x} -> V]
  BY <1>1 DEF Put
<1>3. DOMAIN Put(f, x, y) = DOMAIN f \cup {x}
  BY DEF Put
<1>4. Put(f, x, y) \in Partial(S, V)
  BY <1>1, <1>2, <1>3, PartialDef
<1> QED
  BY <1>3, <1>4 DEF Put

\* What Drop does.
LEMMA DropLemma ==
  ASSUME NEW S, NEW V, NEW f \in Partial(S, V), NEW x \in S
  PROVE /\ Drop(f, x) \in Partial(S, V)
        /\ DOMAIN Drop(f, x) = DOMAIN f \ {x}
        /\ \A z \in DOMAIN f \ {x} : Drop(f, x)[z] = f[z]
<1>1. f \in [DOMAIN f -> V] /\ DOMAIN f \subseteq S
  BY PartialDef
<1>2. Drop(f, x) \in [DOMAIN f \ {x} -> V]
  BY <1>1 DEF Drop
<1>3. DOMAIN Drop(f, x) = DOMAIN f \ {x}
  BY DEF Drop
<1>4. Drop(f, x) \in Partial(S, V)
  BY <1>1, <1>2, <1>3, PartialDef
<1> QED
  BY <1>3, <1>4 DEF Drop

----------------------------------------------------------------------------
(* PhysMem.                                                                 *)

\* The free list holds frames that were used before.
FreeOK(ph) == ph \in PhysType /\ ph.free \subseteq 0 .. ph.avail - 1

LEMMA FreeFinite ==
  ASSUME NEW ph, FreeOK(ph)
  PROVE IsFiniteSet(ph.free) /\ Cardinality(ph.free) \in Nat
<1>1. limit \in Nat /\ ph.avail \in 0 .. limit /\ ph.free \subseteq 0 .. ph.avail - 1
  BY VMMAssumption DEF FreeOK, PhysType
<1>2. ph.avail - 1 \in Int
  BY <1>1
<1>3. IsFiniteSet(0 .. ph.avail - 1)
  BY <1>2, FS_Interval
<1>4. IsFiniteSet(ph.free)
  BY <1>1, <1>3, FS_Subset
<1> QED
  BY <1>4, FS_CardinalityType

\* PhysMem::alloc hands out a frame that is not used, and nothing else changes; when
\* there are n + 1 frames there are n more (vmm.cc:23-42).
LEMMA AllocLemma ==
  ASSUME NEW ph, FreeOK(ph), CanAlloc(ph, 1)
  PROVE /\ NextFrame(ph) \in Frames /\ NextFrame(ph) \notin Used(ph)
        /\ FreeOK(Alloced(ph))
        /\ Used(Alloced(ph)) = Used(ph) \cup {NextFrame(ph)}
        /\ (CanAlloc(ph, 2) => CanAlloc(Alloced(ph), 1))
<1>1. limit \in Nat /\ ph.avail \in 0 .. limit /\ ph.free \subseteq 0 .. ph.avail - 1
  BY VMMAssumption DEF FreeOK, PhysType
<1>2. ph = [free |-> ph.free, avail |-> ph.avail]
  BY DEF FreeOK, PhysType
<1>3. IsFiniteSet(ph.free)
  BY FreeFinite
<1>4. Cardinality(ph.free) \in Nat
  BY FreeFinite
<1>5. CASE ph.free = {}
  <2>1. Cardinality(ph.free) = 0
    BY <1>5, FS_EmptySet
  <2>2. ph.avail < limit
    BY <1>1, <2>1 DEF CanAlloc
  <2>3. NextFrame(ph) = ph.avail /\ Alloced(ph) = [free |-> ph.free, avail |-> ph.avail + 1]
    BY <1>2, <1>5 DEF NextFrame, Alloced
  <2>4. FreeOK(Alloced(ph))
    BY <1>1, <1>5, <2>2, <2>3 DEF FreeOK, PhysType, Frames
  <2>5. Used(ph) = 0 .. ph.avail - 1 /\ Used(Alloced(ph)) = 0 .. ph.avail
    <3>1. Alloced(ph).free = {} /\ Alloced(ph).avail = ph.avail + 1
      BY <1>5, <2>3
    <3>2. ph.avail + 1 - 1 = ph.avail
      BY <1>1
    <3> QED
      BY <1>1, <1>5, <3>1, <3>2 DEF Used
  <2>6. Used(Alloced(ph)) = Used(ph) \cup {ph.avail}
    BY <1>1, <2>5
  <2>7. CanAlloc(ph, 2) => CanAlloc(Alloced(ph), 1)
    BY <1>1, <2>1, <2>3 DEF CanAlloc
  <2> QED
    BY <1>1, <2>2, <2>3, <2>4, <2>5, <2>6, <2>7 DEF Frames
<1>6. CASE ph.free # {}
  <2> DEFINE f == NextFrame(ph)
  <2>1. f \in ph.free /\ Alloced(ph) = [free |-> ph.free \ {f}, avail |-> ph.avail]
    BY <1>2, <1>6 DEF NextFrame, Alloced
  <2>2. f \in Frames /\ f \notin Used(ph)
    BY <1>1, <2>1 DEF Frames, Used
  <2>3. FreeOK(Alloced(ph))
    BY <1>1, <2>1 DEF FreeOK, PhysType, Frames
  <2>4. Used(Alloced(ph)) = Used(ph) \cup {f}
    BY <1>1, <2>1 DEF Used
  <2>5. Cardinality(ph.free \ {f}) = Cardinality(ph.free) - 1
    BY <1>3, <2>1, FS_RemoveElement
  <2>6. CanAlloc(ph, 2) => CanAlloc(Alloced(ph), 1)
    BY <1>1, <1>4, <2>1, <2>5 DEF CanAlloc
  <2> QED
    BY <2>2, <2>3, <2>4, <2>6
<1> QED
  BY <1>5, <1>6

\* PhysMem::free puts used frames on the list (vmm.cc:44-52).
LEMMA FreeLemma ==
  ASSUME NEW ph, FreeOK(ph), NEW fs, fs \subseteq Used(ph)
  PROVE FreeOK(Freed(ph, fs)) /\ Used(Freed(ph, fs)) = Used(ph) \ fs
<1>1. Freed(ph, fs) = [free |-> ph.free \cup fs, avail |-> ph.avail]
  BY DEF Freed, FreeOK, PhysType
<1>2. limit \in Nat /\ ph.avail \in 0 .. limit
  BY VMMAssumption DEF FreeOK, PhysType
<1>3. fs \subseteq 0 .. ph.avail - 1 /\ 0 .. ph.avail - 1 \subseteq Frames
  BY <1>2 DEF Used, Frames
<1>4. ph.free \cup fs \subseteq 0 .. ph.avail - 1
  BY <1>3 DEF FreeOK
<1>5. FreeOK(Freed(ph, fs))
  BY <1>1, <1>2, <1>3, <1>4 DEF FreeOK, PhysType
<1> QED
  BY <1>1, <1>5 DEF Used

----------------------------------------------------------------------------
(* AddressSpace.                                                            *)

DirEntries == {0} \cup {Dir(g) : g \in Pages}

LEMMA SpaceDef ==
  ASSUME NEW s
  PROVE s \in SpaceType <=> s \in [pd : Frames, tables : Partial(DirEntries, Frames), pages : Partial(Pages, Frames)]
BY DEF SpaceType, Partial, DirEntries

LEMMA NoPagesType == ASSUME NEW S, NEW V PROVE NoPages \in Partial(S, V) /\ DOMAIN NoPages = {}
BY PartialDef DEF NoPages

\* The frames of an address space are frames, and no address space is None.
LEMMA SpaceLemma ==
  ASSUME NEW s \in SpaceType
  PROVE /\ s # None /\ FramesFor(s) = FramesOf(s) /\ FramesOf(s) \subseteq Frames
        /\ Owned(s) = FramesOf(s)
<1>1. s.pd \in Frames /\ s.tables \in Partial(DirEntries, Frames) /\ s.pages \in Partial(Pages, Frames)
  BY SpaceDef
<1>2. s.tables \in [DOMAIN s.tables -> Frames] /\ s.pages \in [DOMAIN s.pages -> Frames]
  BY <1>1, PartialDef
<1>3. s # None
  BY NoneAssumption
<1> QED
  BY <1>1, <1>2, <1>3 DEF FramesFor, FramesOf, Owned

\* A new address space has two new frames (vmm.cc:55-64).
LEMMA NewSpaceLemma ==
  ASSUME NEW ph, FreeOK(ph), CanAlloc(ph, 2)
  PROVE /\ NewSpace(ph) \in SpaceType /\ OwnsApart(NewSpace(ph)) /\ DOMAIN NewSpace(ph).pages = {}
        /\ FreeOK(Alloced(Alloced(ph)))
        /\ FramesOf(NewSpace(ph)) \cap Used(ph) = {}
        /\ Used(Alloced(Alloced(ph))) = Used(ph) \cup FramesOf(NewSpace(ph))
<1> DEFINE f == NextFrame(ph)
           h == NextFrame(Alloced(ph))
           s == NewSpace(ph)
<1>0. CanAlloc(ph, 1)
  <2>1. ph.free \subseteq 0 .. ph.avail - 1 /\ ph.avail \in 0 .. limit /\ limit \in Nat
    BY VMMAssumption DEF FreeOK, PhysType
  <2>2. Cardinality(ph.free) \in Nat
    BY FreeFinite
  <2> QED
    BY <2>1, <2>2 DEF CanAlloc
<1>1. /\ f \in Frames /\ f \notin Used(ph) /\ FreeOK(Alloced(ph))
      /\ Used(Alloced(ph)) = Used(ph) \cup {f} /\ CanAlloc(Alloced(ph), 1)
  BY <1>0, AllocLemma
<1>2. /\ h \in Frames /\ h \notin Used(Alloced(ph)) /\ FreeOK(Alloced(Alloced(ph)))
      /\ Used(Alloced(Alloced(ph))) = Used(Alloced(ph)) \cup {h}
  BY <1>1, AllocLemma
<1>3. s.pd = f /\ s.tables = Put(NoPages, 0, h) /\ s.pages = NoPages
  BY DEF NewSpace
<1>4. s.tables \in Partial(DirEntries, Frames) /\ DOMAIN s.tables = {0} /\ s.tables[0] = h
  <2>1. NoPages \in Partial(DirEntries, Frames) /\ DOMAIN NoPages = {} /\ 0 \in DirEntries
    BY NoPagesType DEF DirEntries
  <2>2. /\ Put(NoPages, 0, h) \in Partial(DirEntries, Frames)
        /\ DOMAIN Put(NoPages, 0, h) = DOMAIN NoPages \cup {0} /\ Put(NoPages, 0, h)[0] = h
    <3> HIDE DEF h, s, f
    <3> QED
      BY <1>2, <2>1, PutLemma
  <2>3. s.tables = Put(NoPages, 0, h)
    BY <1>3
  <2> HIDE DEF s, h
  <2> QED
    BY <2>1, <2>2, <2>3
<1>5. s.pages \in Partial(Pages, Frames) /\ DOMAIN s.pages = {}
  BY <1>3, NoPagesType
<1>6. s \in SpaceType
  BY <1>1, <1>3, <1>4, <1>5, SpaceDef DEF NewSpace
<1>7. FramesOf(s) = {f, h}
  BY <1>3, <1>4, <1>5 DEF FramesOf
<1>8. OwnsApart(s)
  BY <1>1, <1>2, <1>3, <1>4, <1>5 DEF OwnsApart
<1> QED
  BY <1>1, <1>2, <1>5, <1>6, <1>7, <1>8
\* Which tables a mapping needs is 0 or 1, so that one frame is there for the page.
LEMMA RoomLemma ==
  ASSUME NEW ph, FreeOK(ph), NEW s, NEW g, CanAlloc(ph, 1 + TablesNeeded(s, g))
  PROVE CanAlloc(ph, 1) /\ (TablesNeeded(s, g) = 1 => CanAlloc(ph, 2)) /\ TablesNeeded(s, g) \in {0, 1}
<1>1. ph.avail \in Int /\ limit \in Int
  BY VMMAssumption DEF FreeOK, PhysType
<1>2. Cardinality(ph.free) \in Nat
  BY FreeFinite
<1>3. TablesNeeded(s, g) \in {0, 1}
  BY DEF TablesNeeded
<1> QED
  BY <1>1, <1>2, <1>3 DEF CanAlloc

\* A page is mapped to a frame that nobody has and that its address space did not have
\* before (vmm.cc:104-126).
LEMMA MapLemma ==
  ASSUME NEW ph, FreeOK(ph), NEW s \in SpaceType, OwnsApart(s), FramesOf(s) \subseteq Used(ph),
         NEW g \in Pages, g \notin DOMAIN s.pages, CanAlloc(ph, 1 + TablesNeeded(s, g)),
         NEW f, f = NextFrame(ph), NEW t, t = Mapped(s, Alloced(ph), g, f),
         NEW end, end = AfterMap(s, Alloced(ph), g)
  PROVE /\ t \in SpaceType /\ OwnsApart(t) /\ t.pages = Put(s.pages, g, f)
        /\ f \in Frames /\ f \notin Used(ph) /\ f \in FramesOf(t)
        /\ FreeOK(end) /\ Used(ph) \subseteq Used(end)
        /\ FramesOf(t) = FramesOf(s) \cup (Used(end) \ Used(ph))
<1> DEFINE h == NextFrame(Alloced(ph))
<1>0. CanAlloc(ph, 1) /\ (TablesNeeded(s, g) = 1 => CanAlloc(ph, 2)) /\ TablesNeeded(s, g) \in {0, 1}
  BY RoomLemma
<1>1. /\ f \in Frames /\ f \notin Used(ph) /\ FreeOK(Alloced(ph))
      /\ Used(Alloced(ph)) = Used(ph) \cup {f}
      /\ (TablesNeeded(s, g) = 1 => CanAlloc(Alloced(ph), 1))
  BY <1>0, AllocLemma
<1>2. s.pd \in Frames /\ s.tables \in Partial(DirEntries, Frames) /\ s.pages \in Partial(Pages, Frames)
  BY SpaceDef
<1>3. s = [pd |-> s.pd, tables |-> s.tables, pages |-> s.pages]
  BY DEF SpaceType
<1>4. /\ Put(s.pages, g, f) \in Partial(Pages, Frames)
      /\ DOMAIN Put(s.pages, g, f) = DOMAIN s.pages \cup {g} /\ Put(s.pages, g, f)[g] = f
      /\ \A z \in DOMAIN s.pages \ {g} : Put(s.pages, g, f)[z] = s.pages[z]
  <2> DEFINE pages == s.pages
  <2>1. pages \in Partial(Pages, Frames) /\ f \in Frames /\ g \in Pages
    BY <1>1, <1>2
  <2> HIDE DEF pages
  <2>2. /\ Put(pages, g, f) \in Partial(Pages, Frames)
        /\ DOMAIN Put(pages, g, f) = DOMAIN pages \cup {g} /\ Put(pages, g, f)[g] = f
        /\ \A z \in DOMAIN pages \ {g} : Put(pages, g, f)[z] = pages[z]
    BY <2>1, PutLemma, SMTT(30)
  <2> QED
    BY <2>2 DEF pages
<1>5. /\ t.pd = s.pd /\ t.pages = Put(s.pages, g, f)
      /\ t.tables = (IF TablesNeeded(s, g) = 0 THEN s.tables ELSE Put(s.tables, Dir(g), h))
      /\ t = [pd |-> t.pd, tables |-> t.tables, pages |-> t.pages]
  BY <1>3 DEF Mapped
<1>6. DOMAIN t.pages = DOMAIN s.pages \cup {g} /\ t.pages[g] = f
      /\ \A z \in DOMAIN s.pages : t.pages[z] = s.pages[z]
  BY <1>4, <1>5
<1>7. s.pd # f /\ (\A d \in DOMAIN s.tables : s.tables[d] # f) /\ (\A z \in DOMAIN s.pages : s.pages[z] # f)
  BY <1>1 DEF FramesOf
<1>8. CASE TablesNeeded(s, g) = 0
  <2>1. t.tables = s.tables /\ end = Alloced(ph)
    BY <1>5, <1>8 DEF AfterMap
  <2>2. t \in SpaceType
    BY <1>2, <1>4, <1>5, <2>1, SpaceDef
  <2>3. OwnsApart(t)
    BY <1>5, <1>6, <1>7, <2>1 DEF OwnsApart
  <2>4. FramesOf(t) = FramesOf(s) \cup {f}
    BY <1>5, <1>6, <2>1 DEF FramesOf
  <2>5. Used(end) \ Used(ph) = {f} /\ Used(ph) \subseteq Used(end)
    BY <1>1, <2>1
  <2> QED
    BY <1>1, <1>5, <2>1, <2>2, <2>3, <2>4, <2>5
<1>9. CASE TablesNeeded(s, g) = 1
  <2>1. t.tables = Put(s.tables, Dir(g), h) /\ end = Alloced(Alloced(ph)) /\ Dir(g) \notin DOMAIN s.tables
    BY <1>5, <1>9 DEF AfterMap, TablesNeeded
  <2>2. /\ h \in Frames /\ h \notin Used(Alloced(ph)) /\ FreeOK(end)
        /\ Used(end) = Used(Alloced(ph)) \cup {h}
    BY <1>1, <1>9, <2>1, AllocLemma
  <2>3. Dir(g) \in DirEntries
    BY DEF DirEntries
  <2>4. /\ t.tables \in Partial(DirEntries, Frames)
        /\ DOMAIN t.tables = DOMAIN s.tables \cup {Dir(g)} /\ t.tables[Dir(g)] = h
        /\ \A z \in DOMAIN s.tables : t.tables[z] = s.tables[z]
    <3> DEFINE d == Dir(g)
    <3>1. d \in DirEntries /\ t.tables = Put(s.tables, d, h) /\ d \notin DOMAIN s.tables
      BY <2>1, <2>3
    <3> HIDE DEF d, h
    <3>2. /\ Put(s.tables, d, h) \in Partial(DirEntries, Frames)
          /\ DOMAIN Put(s.tables, d, h) = DOMAIN s.tables \cup {d} /\ Put(s.tables, d, h)[d] = h
          /\ \A z \in DOMAIN s.tables \ {d} : Put(s.tables, d, h)[z] = s.tables[z]
      <4> DEFINE tables == s.tables
      <4>1. tables \in Partial(DirEntries, Frames) /\ h \in Frames /\ d \in DirEntries
        BY <1>2, <2>2, <3>1
      <4> HIDE DEF tables
      <4>2. /\ Put(tables, d, h) \in Partial(DirEntries, Frames)
            /\ DOMAIN Put(tables, d, h) = DOMAIN tables \cup {d} /\ Put(tables, d, h)[d] = h
            /\ \A z \in DOMAIN tables \ {d} : Put(tables, d, h)[z] = tables[z]
        BY <4>1, PutLemma, SMTT(30)
      <4> QED
        BY <4>2 DEF tables
    <3>3. /\ t.tables \in Partial(DirEntries, Frames)
          /\ DOMAIN t.tables = DOMAIN s.tables \cup {d} /\ t.tables[d] = h
          /\ \A z \in DOMAIN s.tables : t.tables[z] = s.tables[z]
      BY <3>1, <3>2
    <3> QED
      BY <3>3 DEF d
  <2>5. t \in SpaceType
    BY <1>2, <1>4, <1>5, <2>4, SpaceDef
  <2>6. h # f /\ s.pd # h /\ (\A d \in DOMAIN s.tables : s.tables[d] # h) /\ (\A z \in DOMAIN s.pages : s.pages[z] # h)
    BY <1>1, <2>2 DEF FramesOf
  <2>7. OwnsApart(t)
    <3> DEFINE d == Dir(g)
    <3>1. DOMAIN t.tables = DOMAIN s.tables \cup {d} /\ t.tables[d] = h /\ d \notin DOMAIN s.tables
      BY <2>1, <2>4
    <3> HIDE DEF d, h
    <3> QED
      BY <1>5, <1>6, <1>7, <2>4, <2>6, <3>1 DEF OwnsApart
  <2>8. FramesOf(t) = FramesOf(s) \cup {f, h}
    <3> DEFINE d == Dir(g)
    <3>1. DOMAIN t.tables = DOMAIN s.tables \cup {d} /\ t.tables[d] = h
      BY <2>4
    <3> HIDE DEF d, h
    <3> QED
      BY <1>5, <1>6, <2>4, <3>1 DEF FramesOf
  <2>9. Used(end) \ Used(ph) = {f, h} /\ Used(ph) \subseteq Used(end)
    BY <1>1, <2>2
  <2> QED
    BY <1>1, <1>5, <2>2, <2>5, <2>7, <2>8, <2>9
<1> QED
  BY <1>0, <1>8, <1>9

----------------------------------------------------------------------------
(* One process gives frames back or gets frames that nobody has.            *)

LEMMA ExchangeLemma ==
  ASSUME FramesInv, DOMAIN space = Procs, NEW p \in Procs, NEW s, space' = [space EXCEPT ![p] = s],
         s # None => OwnsApart(s), phys'.free \subseteq 0 .. phys'.avail - 1,
         NEW u, u = Used(phys) \ FramesFor(space[p]), u \cap FramesFor(s) = {},
         Used(phys') = u \cup FramesFor(s)
  PROVE FramesInv'
<1>1. space'[p] = s /\ \A q \in Procs \ {p} : space'[q] = space[q]
  OBVIOUS
<1>2. \A q \in Procs : FramesFor(space[q]) \subseteq Used(phys)
  BY DEF FramesInv
<1>3. \A q \in Procs \ {p} : FramesFor(space[q]) \subseteq u
  BY <1>2 DEF FramesInv
<1>4. \A q \in Procs : space'[q] # None => OwnsApart(space'[q])
  BY <1>1 DEF FramesInv
<1>5. \A q, r \in Procs : q # r => FramesFor(space'[q]) \cap FramesFor(space'[r]) = {}
  <2> SUFFICES ASSUME NEW q \in Procs, NEW r \in Procs, q # r
               PROVE FramesFor(space'[q]) \cap FramesFor(space'[r]) = {}
    OBVIOUS
  <2>1. CASE q = p
    BY <1>1, <1>3, <2>1
  <2>2. CASE r = p
    BY <1>1, <1>3, <2>2
  <2>3. CASE q # p /\ r # p
    BY <1>1, <2>3 DEF FramesInv
  <2> QED
    BY <2>1, <2>2, <2>3
<1>6. UNION {FramesFor(space'[q]) : q \in Procs} = Used(phys')
  <2>1. UNION {FramesFor(space'[q]) : q \in Procs} \subseteq Used(phys')
    BY <1>1, <1>3
  <2>2. ASSUME NEW x \in u
        PROVE \E q \in Procs : x \in FramesFor(space'[q])
    <3>1. PICK q \in Procs : x \in FramesFor(space[q])
      BY DEF FramesInv
    <3>2. q # p
      BY <3>1
    <3> QED
      BY <1>1, <3>1, <3>2
  <2>3. Used(phys') \subseteq UNION {FramesFor(space'[q]) : q \in Procs}
    BY <1>1, <2>2
  <2> QED
    BY <2>1, <2>3
<1> QED
  BY <1>4, <1>5, <1>6 DEF FramesInv
----------------------------------------------------------------------------
(* Two pages never share a frame.                                           *)

LEMMA PagesLemma ==
  ASSUME TypeOK, FramesInv
  PROVE /\ FreeOK(phys)
        /\ \A q \in Procs : space[q] # None =>
             /\ space[q] \in SpaceType /\ OwnsApart(space[q])
             /\ FramesOf(space[q]) \subseteq Used(phys)
             /\ \A g \in DOMAIN space[q].pages :
                  g \in Pages /\ space[q].pages[g] \in Used(phys) \cap Frames
        /\ \A q, r \in Procs : (space[q] # None /\ space[r] # None) =>
             \A g \in DOMAIN space[q].pages, h \in DOMAIN space[r].pages :
               space[q].pages[g] = space[r].pages[h] => (q = r /\ g = h)
<1>1. FreeOK(phys)
  BY DEF TypeOK, FramesInv, FreeOK, PhysType
<1>2. ASSUME NEW q \in Procs, space[q] # None
      PROVE /\ space[q] \in SpaceType /\ OwnsApart(space[q])
            /\ FramesOf(space[q]) \subseteq Used(phys)
            /\ \A g \in DOMAIN space[q].pages :
                 /\ g \in Pages /\ space[q].pages[g] \in Used(phys) \cap Frames
                 /\ space[q].pages[g] \in FramesFor(space[q])
  <2>1. space[q] \in SpaceType
    BY <1>2 DEF TypeOK
  <2>2. FramesFor(space[q]) = FramesOf(space[q]) /\ FramesOf(space[q]) \subseteq Frames
    BY <2>1, SpaceLemma
  <2>3. OwnsApart(space[q]) /\ FramesFor(space[q]) \subseteq Used(phys)
    BY <1>2 DEF FramesInv
  <2>4. DOMAIN space[q].pages \subseteq Pages
    BY <2>1, SpaceDef, PartialDef
  <2>5. \A g \in DOMAIN space[q].pages : space[q].pages[g] \in FramesOf(space[q])
    BY DEF FramesOf
  <2> QED
    BY <2>1, <2>2, <2>3, <2>4, <2>5
<1>3. ASSUME NEW q \in Procs, NEW r \in Procs, space[q] # None, space[r] # None,
             NEW g \in DOMAIN space[q].pages, NEW h \in DOMAIN space[r].pages,
             space[q].pages[g] = space[r].pages[h]
      PROVE q = r /\ g = h
  <2>1. q = r
    <3>1. /\ space[q].pages[g] \in FramesFor(space[q])
          /\ space[q].pages[g] \in FramesFor(space[r])
      BY <1>2, <1>3
    <3> QED
      BY <3>1 DEF FramesInv
  <2>2. OwnsApart(space[q])
    BY <1>2, <1>3
  <2> QED
    BY <1>3, <2>1, <2>2 DEF OwnsApart
<1> QED
  BY <1>1, <1>2, <1>3

\* A process that runs, copies or is copied has a memory.
LEMMA MemoryLemma ==
  ASSUME TypeOK, FramesInv, ProcInv, NEW p \in Procs, at[p] \in {"user", "fork", "exec"}
  PROVE /\ space[p] # None
        /\ Memory(p) = [g \in Pages |-> IF g \in DOMAIN space[p].pages THEN content[space[p].pages[g]] ELSE 0]
        /\ Memory(p) \in [Pages -> Values \cup {0, Link}] /\ Memory(p) # None
<1>1. space[p] # None
  BY DEF ProcInv
<1>2. Memory(p) = [g \in Pages |-> IF g \in DOMAIN space[p].pages THEN content[space[p].pages[g]] ELSE 0]
  BY DEF Memory
<1>3. \A g \in DOMAIN space[p].pages : content[space[p].pages[g]] \in Values \cup {0, Link}
  BY <1>1, PagesLemma DEF TypeOK
<1>4. Memory(p) \in [Pages -> Values \cup {0, Link}]
  BY <1>2, <1>3
<1>5. Memory(p) # None
  BY <1>4, NoneAssumption
<1> QED
  BY <1>1, <1>2, <1>4, <1>5

----------------------------------------------------------------------------
(* The steps. Each keeps the invariant; most change nobody's memory.        *)

\* Who has the CPU next (process.cc, Process::dispatch).
LEMMA SwitchLemma ==
  ASSUME IInv, NEW p \in Procs, Switch(p)
  PROVE IInv' /\ \A q \in Procs : Memory(q)' = Memory(q)
<1> USE DEF IInv, Switch
<1>1. TypeOK'
  BY DEF TypeOK
<1>2. FramesInv'
  BY DEF FramesInv
<1>3. TlbCoherent'
  BY DEF TlbCoherent, NoPages
<1>4. ProcInv' /\ ForkInv'
  BY DEF ProcInv, ForkInv
<1> QED
  BY <1>1, <1>2, <1>3, <1>4 DEF Memory

LEMMA PanicLemma ==
  ASSUME IInv, Panic
  PROVE IInv' /\ \A q \in Procs : Memory(q)' = Memory(q)
BY DEF IInv, Panic, TypeOK, FramesInv, TlbCoherent, ProcInv, ForkInv, Memory

\* A page fault gives the process a frame of zeros that nobody has (vmm.cc:134-146).
LEMMA PageFaultLemma ==
  ASSUME IInv, NEW p \in Procs, NEW g \in Pages, PageFault(p, g)
  PROVE IInv' /\ \A q \in Procs : Memory(q)' = Memory(q)
<1> DEFINE f == NextFrame(phys)
           s == space[p]
           t == Mapped(s, Alloced(phys), g, f)
           end == AfterMap(s, Alloced(phys), g)
<1> USE DEF IInv
<1>1. CASE ~CanAlloc(phys, 1 + TablesNeeded(space[p], g))
  BY <1>1, PanicLemma DEF PageFault
<1>2. CASE CanAlloc(phys, 1 + TablesNeeded(space[p], g))
  <2>1. /\ running = p /\ at[p] = "user" /\ g \notin DOMAIN tlb /\ g \notin DOMAIN s.pages
        /\ space' = [space EXCEPT ![p] = t] /\ phys' = end /\ content' = [content EXCEPT ![f] = 0]
        /\ tlb' = Drop(tlb, g) /\ UNCHANGED <<at, child, running, panicked>>
    BY <1>2 DEF PageFault, Cleared, TypeOK
  <2>2. s # None
    BY <2>1 DEF ProcInv
  <2>3. FreeOK(phys) /\ s \in SpaceType /\ OwnsApart(s) /\ FramesOf(s) \subseteq Used(phys)
    BY <2>2, PagesLemma
  <2>4. /\ t \in SpaceType /\ OwnsApart(t) /\ t.pages = Put(s.pages, g, f)
        /\ f \in Frames /\ f \notin Used(phys)
        /\ FreeOK(end) /\ Used(phys) \subseteq Used(end)
        /\ FramesOf(t) = FramesOf(s) \cup (Used(end) \ Used(phys))
    <3> HIDE DEF f, s, t, end
    <3>1. f = NextFrame(phys) /\ t = Mapped(s, Alloced(phys), g, f) /\ end = AfterMap(s, Alloced(phys), g)
      BY DEF f, s, t, end
    <3>2. CanAlloc(phys, 1 + TablesNeeded(s, g))
      BY <1>2 DEF s
    <3>3. g \notin DOMAIN s.pages
      BY <2>1
    <3> HIDE DEF IInv
    <3> QED
      BY <2>3, <3>1, <3>2, <3>3, MapLemma
  <2>5. FramesFor(s) = FramesOf(s) /\ FramesFor(t) = FramesOf(t)
    BY <2>3, <2>4, SpaceLemma
  <2> HIDE DEF f, t, end
  <2>6. DOMAIN t.pages = DOMAIN s.pages \cup {g} /\ t.pages[g] = f
        /\ \A z \in DOMAIN s.pages : t.pages[z] = s.pages[z]
    BY <2>1, <2>4 DEF Put
  <2>7. FramesInv'
    <3>1. /\ (Used(phys) \ FramesFor(space[p])) \cap FramesFor(t) = {}
          /\ Used(phys') = (Used(phys) \ FramesFor(space[p])) \cup FramesFor(t)
      BY <2>1, <2>3, <2>4, <2>5
    <3>2. DOMAIN space = Procs /\ phys'.free \subseteq 0 .. phys'.avail - 1
      BY <2>1, <2>4 DEF TypeOK, FreeOK
    <3> QED
      BY <2>1, <2>4, <3>1, <3>2, ExchangeLemma
  <2>8. \A x \in Used(phys) : content'[x] = content[x]
    BY <2>1, <2>4 DEF TypeOK
  <2>9. content'[f] = 0
    BY <2>1, <2>4 DEF TypeOK
  <2>10. space'[p] = t /\ \A q \in Procs \ {p} : space'[q] = space[q]
    BY <2>1 DEF TypeOK
  <2>11. TypeOK'
    <3>1. phys' \in [free : SUBSET Frames, avail : 0 .. limit]
      BY <2>1, <2>4 DEF FreeOK, PhysType
    <3>2. space' \in [Procs -> SpaceType \cup {None}]
      BY <2>1, <2>4 DEF TypeOK
    <3>3. content' \in [Frames -> Values \cup {0, Link}]
      BY <2>1, <2>4 DEF TypeOK
    <3> QED
      BY <2>1, <3>1, <3>2, <3>3 DEF TypeOK
  <2>12. TlbCoherent'
    BY <2>1, <2>6, <2>10 DEF TlbCoherent, Drop
  <2>13. ProcInv'
    BY <2>1, <2>2, <2>4, <2>10, SpaceLemma DEF ProcInv
  <2>14. ForkInv'
    <3> SUFFICES ASSUME NEW q \in Procs, at'[q] = "fork"
                 PROVE /\ child'[q] \in Procs /\ at'[child'[q]] = "created"
                       /\ \A r \in Procs : at'[r] = "fork" /\ child'[r] = child'[q] => r = q
                       /\ \A h \in DOMAIN space'[child'[q]].pages :
                            /\ h \in DOMAIN space'[q].pages
                            /\ content'[space'[child'[q]].pages[h]] = content'[space'[q].pages[h]]
      BY DEF ForkInv
    <3>1. q # p /\ child[q] \in Procs \ {p} /\ at[q] = "fork" /\ at[child[q]] = "created"
      BY <2>1 DEF ForkInv
    <3>2. space[q] # None /\ space[child[q]] # None
      BY <3>1 DEF ProcInv
    <3>3. /\ \A h \in DOMAIN space[q].pages : space[q].pages[h] \in Used(phys)
          /\ \A h \in DOMAIN space[child[q]].pages : space[child[q]].pages[h] \in Used(phys)
      BY <3>1, <3>2, PagesLemma
    <3> QED
      BY <2>1, <2>8, <2>10, <3>1, <3>3 DEF ForkInv
  <2>15. ASSUME NEW q \in Procs PROVE Memory(q)' = Memory(q)
    <3>1. CASE at[q] \in {"unborn", "created", "ended"}
      BY <2>1, <3>1 DEF Memory
    <3>2. CASE at[q] \notin {"unborn", "created", "ended"}
      <4>1. space[q] # None
        BY <3>2 DEF TypeOK, ProcInv
      <4>2. \A h \in DOMAIN space[q].pages : space[q].pages[h] \in Used(phys)
        BY <4>1, PagesLemma
      <4>3. CASE q = p
        BY <2>1, <2>6, <2>8, <2>9, <2>10, <3>2, <4>2, <4>3 DEF Memory
      <4>4. CASE q # p
        BY <2>1, <2>8, <2>10, <3>2, <4>2, <4>4 DEF Memory
      <4> QED
        BY <4>3, <4>4
    <3> QED
      BY <3>1, <3>2
  <2> QED
    BY <2>7, <2>11, <2>12, <2>13, <2>14, <2>15
<1> QED
  BY <1>1, <1>2
\* A process that a step leaves alone keeps its memory.
LEMMA KeptLemma ==
  ASSUME IInv, NEW q \in Procs, at'[q] = at[q], space'[q] = space[q],
         at[q] \notin {"unborn", "created", "ended"} =>
           \A h \in DOMAIN space[q].pages : content'[space[q].pages[h]] = content[space[q].pages[h]]
  PROVE Memory(q)' = Memory(q)
BY DEF Memory

\* What PagesLemma says of a process that has not ended.
LEMMA AliveLemma ==
  ASSUME IInv, NEW q \in Procs, at[q] \notin {"unborn", "ended"}
  PROVE space[q] # None /\ \A h \in DOMAIN space[q].pages : space[q].pages[h] \in Used(phys)
<1>1. space[q] # None
  BY DEF IInv, TypeOK, ProcInv
<1> QED
  BY <1>1, PagesLemma DEF IInv

\* The child of a fork has an address space without pages (vmm.cc:55-64).
LEMMA ForkLemma ==
  ASSUME IInv, NEW p \in Procs, NEW c \in Procs, Fork(p, c)
  PROVE IInv' /\ \A q \in Procs : Memory(q)' = Memory(q)
<1> USE DEF IInv
<1>1. CASE ~CanAlloc(phys, 2)
  BY <1>1, PanicLemma DEF Fork
<1>2. CASE CanAlloc(phys, 2)
  <2> DEFINE t == NewSpace(phys)
             end == Alloced(Alloced(phys))
  <2>1. /\ running = p /\ at[p] = "user" /\ at[c] = "unborn" /\ c # p
        /\ space' = [space EXCEPT ![c] = t] /\ phys' = end
        /\ at' = [at EXCEPT ![p] = "fork", ![c] = "created"]
        /\ child' = [child EXCEPT ![p] = c] /\ UNCHANGED <<content, running, tlb, panicked>>
    BY <1>2 DEF Fork
  <2>2. FreeOK(phys)
    BY PagesLemma
  <2>3. /\ t \in SpaceType /\ OwnsApart(t) /\ DOMAIN t.pages = {} /\ FreeOK(end)
        /\ FramesOf(t) \cap Used(phys) = {} /\ Used(end) = Used(phys) \cup FramesOf(t)
    BY <1>2, <2>2, NewSpaceLemma
  <2>4. FramesFor(t) = FramesOf(t) /\ t # None
    BY <2>3, SpaceLemma
  <2>5. space[c] = None /\ FramesFor(space[c]) = {}
    BY <2>1 DEF ProcInv, FramesFor
  <2> HIDE DEF t, end
  <2>6. FramesInv'
    <3>1. /\ (Used(phys) \ FramesFor(space[c])) \cap FramesFor(t) = {}
          /\ Used(phys') = (Used(phys) \ FramesFor(space[c])) \cup FramesFor(t)
      BY <2>1, <2>3, <2>4, <2>5
    <3>2. DOMAIN space = Procs /\ phys'.free \subseteq 0 .. phys'.avail - 1
      BY <2>1, <2>3 DEF TypeOK, FreeOK
    <3> QED
      BY <2>1, <2>3, <3>1, <3>2, ExchangeLemma
  <2>7. space'[c] = t /\ \A q \in Procs \ {c} : space'[q] = space[q]
    BY <2>1 DEF TypeOK
  <2>8. /\ at'[p] = "fork" /\ at'[c] = "created" /\ child'[p] = c
        /\ \A q \in Procs \ {p, c} : at'[q] = at[q]
        /\ \A q \in Procs \ {p} : child'[q] = child[q]
    BY <2>1 DEF TypeOK
  <2>9. TypeOK'
    <3>1. phys' \in [free : SUBSET Frames, avail : 0 .. limit]
      BY <2>1, <2>3 DEF FreeOK, PhysType
    <3>2. space' \in [Procs -> SpaceType \cup {None}]
      BY <2>1, <2>3 DEF TypeOK
    <3> QED
      BY <2>1, <3>1, <3>2 DEF TypeOK
  <2>10. TlbCoherent'
    BY <2>1, <2>7 DEF TlbCoherent
  <2>11. ProcInv'
    BY <2>1, <2>4, <2>7, <2>8 DEF ProcInv
  <2>12. ForkInv'
    <3> SUFFICES ASSUME NEW q \in Procs, at'[q] = "fork"
                 PROVE /\ child'[q] \in Procs /\ at'[child'[q]] = "created"
                       /\ \A r \in Procs : (at'[r] = "fork" /\ child'[r] = child'[q]) => r = q
                       /\ \A h \in DOMAIN space'[child'[q]].pages :
                            /\ h \in DOMAIN space'[q].pages
                            /\ content'[space'[child'[q]].pages[h]] = content'[space'[q].pages[h]]
      BY DEF ForkInv
    <3>1. \A r \in Procs \ {p} : at'[r] = "fork" => (r # c /\ at[r] = "fork" /\ child[r] \in Procs \ {p, c} /\ child'[r] = child[r])
      BY <2>1, <2>8 DEF ForkInv
    <3>2. CASE q = p
      BY <2>3, <2>7, <2>8, <3>1, <3>2
    <3>3. CASE q # p
      <4>1. q # c /\ at[q] = "fork" /\ child[q] \in Procs \ {p, c} /\ child'[q] = child[q]
        BY <3>1, <3>3
      <4>2. space'[q] = space[q] /\ space'[child[q]] = space[child[q]] /\ at'[child[q]] = at[child[q]]
        BY <2>7, <2>8, <3>3, <4>1
      <4>3. \A r \in Procs : (at'[r] = "fork" /\ child'[r] = child'[q]) => r = q
        BY <2>8, <3>1, <4>1 DEF ForkInv
      <4>4. /\ at[child[q]] = "created"
            /\ \A h \in DOMAIN space[child[q]].pages :
                 /\ h \in DOMAIN space[q].pages
                 /\ content[space[child[q]].pages[h]] = content[space[q].pages[h]]
        BY <4>1 DEF ForkInv
      <4>5. content' = content
        BY <2>1
      <4> QED
        BY <4>1, <4>2, <4>3, <4>4, <4>5
    <3> QED
      BY <3>2, <3>3
  <2>13. ASSUME NEW q \in Procs PROVE Memory(q)' = Memory(q)
    <3>1. CASE q = c
      BY <2>1, <2>8, <3>1 DEF Memory
    <3>2. CASE q = p
      <4>1. space'[p] = space[p] /\ at'[p] = "fork" /\ at[p] = "user" /\ content' = content
        BY <2>1, <2>7, <2>8
      <4> QED
        BY <3>2, <4>1 DEF Memory
    <3>3. CASE q \notin {p, c}
      <4>1. space'[q] = space[q] /\ at'[q] = at[q] /\ content' = content
        BY <2>1, <2>7, <2>8, <3>3
      <4> QED
        BY <4>1 DEF Memory
    <3> QED
      BY <3>1, <3>2, <3>3
  <2> QED
    BY <2>6, <2>9, <2>10, <2>11, <2>12, <2>13
<1> QED
  BY <1>1, <1>2

\* The child gets a copy of one page, in a frame that nobody has (vmm.cc:148-166).
LEMMA ForkPageLemma ==
  ASSUME IInv, NEW p \in Procs, NEW g \in Pages, ForkPage(p, g)
  PROVE IInv' /\ \A q \in Procs : Memory(q)' = Memory(q)
<1> DEFINE c == child[p]
           f == NextFrame(phys)
           s == space[c]
           t == Mapped(s, Alloced(phys), g, f)
           end == AfterMap(s, Alloced(phys), g)
           x == content[space[p].pages[g]]
<1> USE DEF IInv
<1>1. CASE ~CanAlloc(phys, 1 + TablesNeeded(space[c], g))
  BY <1>1, PanicLemma DEF ForkPage
<1>2. CASE CanAlloc(phys, 1 + TablesNeeded(space[c], g))
  <2>1. /\ running = p /\ at[p] = "fork" /\ g \in DOMAIN space[p].pages /\ g \notin DOMAIN s.pages
        /\ space' = [space EXCEPT ![c] = t] /\ phys' = end /\ content' = [content EXCEPT ![f] = x]
        /\ tlb' = Drop(tlb, g) /\ UNCHANGED <<at, child, running, panicked>>
    BY <1>2 DEF ForkPage, TypeOK
  <2>2. c \in Procs /\ at[c] = "created" /\ c # p /\ s # None /\ space[p] # None
    BY <2>1 DEF ProcInv, ForkInv
  <2>3. FreeOK(phys) /\ s \in SpaceType /\ OwnsApart(s) /\ FramesOf(s) \subseteq Used(phys)
    BY <2>2, PagesLemma
  <2>4. /\ t \in SpaceType /\ OwnsApart(t) /\ t.pages = Put(s.pages, g, f)
        /\ f \in Frames /\ f \notin Used(phys)
        /\ FreeOK(end) /\ Used(phys) \subseteq Used(end)
        /\ FramesOf(t) = FramesOf(s) \cup (Used(end) \ Used(phys))
    <3> HIDE DEF f, s, t, end
    <3>1. f = NextFrame(phys) /\ t = Mapped(s, Alloced(phys), g, f) /\ end = AfterMap(s, Alloced(phys), g)
      BY DEF f, s, t, end
    <3>2. CanAlloc(phys, 1 + TablesNeeded(s, g))
      BY <1>2 DEF s
    <3>3. g \notin DOMAIN s.pages
      BY <2>1
    <3> HIDE DEF IInv
    <3> QED
      BY <2>3, <3>1, <3>2, <3>3, MapLemma
  <2>5. FramesFor(s) = FramesOf(s) /\ FramesFor(t) = FramesOf(t) /\ t # None
    BY <2>3, <2>4, SpaceLemma
  <2>6. x \in Values \cup {0, Link} /\ space[p].pages[g] \in Used(phys)
    BY <2>1, <2>2, PagesLemma DEF TypeOK
  <2> HIDE DEF f, t, end, c, x
  <2>7. DOMAIN t.pages = DOMAIN s.pages \cup {g} /\ t.pages[g] = f
        /\ \A z \in DOMAIN s.pages : t.pages[z] = s.pages[z]
    BY <2>1, <2>4 DEF Put
  <2>8. FramesInv'
    <3>1. /\ (Used(phys) \ FramesFor(space[c])) \cap FramesFor(t) = {}
          /\ Used(phys') = (Used(phys) \ FramesFor(space[c])) \cup FramesFor(t)
      BY <2>1, <2>3, <2>4, <2>5
    <3>2. DOMAIN space = Procs /\ phys'.free \subseteq 0 .. phys'.avail - 1
      BY <2>1, <2>4 DEF TypeOK, FreeOK
    <3> QED
      BY <2>1, <2>2, <2>4, <3>1, <3>2, ExchangeLemma
  <2>9. \A y \in Used(phys) : content'[y] = content[y]
    BY <2>1, <2>4 DEF TypeOK
  <2>10. content'[f] = x
    BY <2>1, <2>4 DEF TypeOK
  <2>11. space'[c] = t /\ \A q \in Procs \ {c} : space'[q] = space[q]
    BY <2>1, <2>2 DEF TypeOK
  <2>12. TypeOK'
    <3>1. phys' \in [free : SUBSET Frames, avail : 0 .. limit]
      BY <2>1, <2>4 DEF FreeOK, PhysType
    <3>2. space' \in [Procs -> SpaceType \cup {None}]
      BY <2>1, <2>4 DEF TypeOK
    <3>3. content' \in [Frames -> Values \cup {0, Link}]
      BY <2>1, <2>4, <2>6 DEF TypeOK
    <3> QED
      BY <2>1, <3>1, <3>2, <3>3 DEF TypeOK
  <2>13. TlbCoherent'
    BY <2>1, <2>2, <2>11 DEF TlbCoherent, Drop
  <2>14. ProcInv'
    BY <2>1, <2>2, <2>5, <2>11 DEF ProcInv
  <2>15. ForkInv'
    <3> SUFFICES ASSUME NEW q \in Procs, at[q] = "fork"
                 PROVE \A h \in DOMAIN space'[child[q]].pages :
                         /\ h \in DOMAIN space'[q].pages
                         /\ content'[space'[child[q]].pages[h]] = content'[space'[q].pages[h]]
      BY <2>1 DEF ForkInv
    <3>1. /\ child[q] \in Procs /\ at[child[q]] = "created" /\ q # c
          /\ \A h \in DOMAIN space[child[q]].pages :
               /\ h \in DOMAIN space[q].pages
               /\ content[space[child[q]].pages[h]] = content[space[q].pages[h]]
      BY <2>2 DEF ForkInv
    <3>2. space'[q] = space[q] /\ \A h \in DOMAIN space[q].pages : space[q].pages[h] \in Used(phys)
      BY <2>11, <3>1, AliveLemma
    <3>3. \A h \in DOMAIN space[child[q]].pages : space[child[q]].pages[h] \in Used(phys)
      BY <3>1, AliveLemma
    <3>4. CASE q = p
      <4>1. child[q] = c
        BY <3>4 DEF c
      <4>2. content'[space[p].pages[g]] = x
        BY <2>6, <2>9 DEF x
      <4> QED
        BY <2>1, <2>7, <2>9, <2>10, <2>11, <3>1, <3>2, <3>3, <3>4, <4>1, <4>2
    <3>5. CASE q # p
      <4>1. child[q] # c
        BY <2>1, <3>5 DEF ForkInv, c
      <4>2. space'[child[q]] = space[child[q]]
        BY <2>11, <3>1, <4>1
      <4> QED
        BY <2>9, <3>1, <3>2, <3>3, <4>2
    <3> QED
      BY <3>4, <3>5
  <2>16. ASSUME NEW q \in Procs PROVE Memory(q)' = Memory(q)
    <3>1. CASE at[q] \in {"unborn", "created", "ended"}
      BY <2>1, <3>1 DEF Memory
    <3>2. CASE at[q] \notin {"unborn", "created", "ended"}
      <4>1. \A h \in DOMAIN space[q].pages : content'[space[q].pages[h]] = content[space[q].pages[h]]
        BY <2>9, <3>2, AliveLemma
      <4>2. at'[q] = at[q] /\ space'[q] = space[q]
        BY <2>1, <2>2, <2>11, <3>2
      <4> QED
        BY <4>1, <4>2, KeptLemma
    <3> QED
      BY <3>1, <3>2
  <2> QED
    BY <2>8, <2>12, <2>13, <2>14, <2>15, <2>16
<1> QED
  BY <1>1, <1>2
\* A process accesses its own page, also when the CPU finds the frame in its buffer.
LEMMA AccessLemma ==
  ASSUME IInv, NEW p \in Procs, NEW g \in Pages, NEW v \in Values, Access(p, g, v)
  PROVE IInv' /\ (Abstract!Store(p, g, v) \/ \A q \in Procs : Memory(q)' = Memory(q))
<1> DEFINE f == space[p].pages[g]
<1> USE DEF IInv
<1>1. running = p /\ at[p] = "user" /\ UNCHANGED <<phys, space, at, child, running, panicked>>
  BY DEF Access
<1>2. space[p] # None
  BY <1>1 DEF ProcInv
<1>3. /\ g \in DOMAIN space[p].pages /\ tlb' = Put(tlb, g, f)
      /\ content' \in {content, [content EXCEPT ![f] = v]}
  BY <1>1 DEF Access, TlbCoherent
<1>4. f \in Frames /\ f \in Used(phys)
  BY <1>2, <1>3, PagesLemma
<1>5. TypeOK'
  BY <1>1, <1>3, <1>4 DEF TypeOK
<1>6. FramesInv' /\ ProcInv'
  BY <1>1 DEF FramesInv, ProcInv, Used
<1>7. TlbCoherent'
  BY <1>1, <1>3 DEF TlbCoherent, Put
<1>8. \A q \in Procs : space[q] # None =>
        \A h \in DOMAIN space[q].pages : (q # p \/ h # g) => content'[space[q].pages[h]] = content[space[q].pages[h]]
  <2> SUFFICES ASSUME NEW q \in Procs, space[q] # None, NEW h \in DOMAIN space[q].pages, q # p \/ h # g
               PROVE content'[space[q].pages[h]] = content[space[q].pages[h]]
    OBVIOUS
  <2>1. space[q].pages[h] # f /\ space[q].pages[h] \in Frames
    BY <1>2, <1>3, PagesLemma
  <2> HIDE DEF f
  <2> QED
    BY <1>3, <1>4, <2>1 DEF TypeOK
<1>9. ForkInv'
  <2> SUFFICES ASSUME NEW q \in Procs, at[q] = "fork"
               PROVE \A h \in DOMAIN space[child[q]].pages : content'[space[child[q]].pages[h]] = content'[space[q].pages[h]]
    BY <1>1 DEF ForkInv
  <2>1. q # p /\ child[q] \in Procs \ {p} /\ at[child[q]] = "created"
    BY <1>1 DEF ForkInv
  <2>2. space[q] # None /\ space[child[q]] # None
    BY <2>1 DEF ProcInv
  <2> QED
    BY <1>8, <2>1, <2>2 DEF ForkInv
<1>10. ASSUME NEW q \in Procs \ {p} PROVE Memory(q)' = Memory(q)
  <2>1. at[q] \notin {"unborn", "created", "ended"} =>
          \A h \in DOMAIN space[q].pages : content'[space[q].pages[h]] = content[space[q].pages[h]]
    BY <1>8, AliveLemma
  <2> QED
    BY <1>1, <2>1, KeptLemma
<1>11. CASE content' = content
  <2>1. Memory(p)' = Memory(p)
    BY <1>1, <1>11, KeptLemma
  <2> QED
    BY <1>5, <1>6, <1>7, <1>9, <1>10, <2>1
<1>12. CASE content' = [content EXCEPT ![f] = v]
  <2>1. Memory(p) = [h \in Pages |-> IF h \in DOMAIN space[p].pages THEN content[space[p].pages[h]] ELSE 0] /\ Memory(p) # None
    BY <1>1, MemoryLemma
  <2>2. Memory(p)' = [h \in Pages |-> IF h \in DOMAIN space[p].pages THEN content'[space[p].pages[h]] ELSE 0]
    BY <1>1 DEF Memory
  <2>3. content'[f] = v
    BY <1>4, <1>12 DEF TypeOK
  <2>4. Memory(p)' = [Memory(p) EXCEPT ![g] = v]
    BY <1>2, <1>3, <1>8, <2>1, <2>2, <2>3
  <2>5. Abstract!Store(p, g, v)
    BY <1>10, <2>1, <2>4 DEF Abstract!Store
  <2> QED
    BY <1>5, <1>6, <1>7, <1>9, <2>5
<1> QED
  BY <1>3, <1>11, <1>12

\* The copy is complete: the child starts with the memory of its parent.
LEMMA ForkDoneLemma ==
  ASSUME IInv, NEW p \in Procs, ForkDone(p), NEW c, c = child[p]
  PROVE IInv' /\ c \in Procs /\ Abstract!ForkMemory(p, c)
<1> USE DEF IInv
<1>1. /\ running = p /\ at[p] = "fork" /\ DOMAIN space[p].pages = DOMAIN space[c].pages
      /\ at' = [at EXCEPT ![p] = "user", ![c] = "user"] /\ child' = [child EXCEPT ![p] = None]
      /\ UNCHANGED <<phys, content, space, running, tlb, panicked>>
  BY DEF ForkDone
<1>2. /\ c \in Procs /\ at[c] = "created" /\ c # p /\ space[c] # None
      /\ \A q \in Procs \ {p} : at[q] = "fork" => child[q] # c
      /\ \A g \in DOMAIN space[c].pages : content[space[c].pages[g]] = content[space[p].pages[g]]
  BY <1>1 DEF ForkInv, ProcInv
<1>0. space' = space /\ content' = content
  BY <1>1
<1>3. /\ at'[p] = "user" /\ at'[c] = "user" /\ \A q \in Procs \ {p, c} : at'[q] = at[q]
      /\ \A q \in Procs \ {p} : child'[q] = child[q]
  BY <1>1, <1>2 DEF TypeOK
<1>4. TypeOK' /\ FramesInv' /\ TlbCoherent'
  BY <1>1, <1>2 DEF TypeOK, FramesInv, TlbCoherent, Used
<1>5. ProcInv'
  BY <1>1, <1>2, <1>3 DEF ProcInv
<1>6. ForkInv'
  <2> SUFFICES ASSUME NEW q \in Procs, at'[q] = "fork"
               PROVE /\ child'[q] \in Procs /\ at'[child'[q]] = "created"
                     /\ \A r \in Procs : (at'[r] = "fork" /\ child'[r] = child'[q]) => r = q
                     /\ \A h \in DOMAIN space'[child'[q]].pages :
                          /\ h \in DOMAIN space'[q].pages
                          /\ content'[space'[child'[q]].pages[h]] = content'[space'[q].pages[h]]
    BY DEF ForkInv
  <2>1. \A r \in Procs : at'[r] = "fork" => (r \notin {p, c} /\ at[r] = "fork" /\ child'[r] = child[r])
    BY <1>3
  <2>2. child[q] \in Procs \ {p, c} /\ at[child[q]] = "created"
    BY <1>1, <1>2, <2>1 DEF ForkInv
  <2>3. \A h \in DOMAIN space[child[q]].pages :
          h \in DOMAIN space[q].pages /\ content[space[child[q]].pages[h]] = content[space[q].pages[h]]
    BY <2>1 DEF ForkInv
  <2>4. \A r \in Procs : (at'[r] = "fork" /\ child'[r] = child'[q]) => r = q
    BY <2>1 DEF ForkInv
  <2>5. child'[q] = child[q] /\ at'[child[q]] = "created"
    BY <1>3, <2>1, <2>2
  <2> QED
    BY <1>0, <2>2, <2>3, <2>4, <2>5
<1>7. ASSUME NEW q \in Procs \ {p, c} PROVE Memory(q)' = Memory(q)
  BY <1>0, <1>3, KeptLemma
<1>8. Memory(p)' = Memory(p)
  BY <1>0, <1>1, <1>3 DEF Memory
<1>9. Memory(c)' = Memory(p)
  <2>1. Memory(c)' = [g \in Pages |-> IF g \in DOMAIN space[c].pages THEN content[space[c].pages[g]] ELSE 0]
    BY <1>0, <1>3 DEF Memory
  <2>2. Memory(p) = [g \in Pages |-> IF g \in DOMAIN space[p].pages THEN content[space[p].pages[g]] ELSE 0]
    BY <1>1, MemoryLemma
  <2> QED
    BY <1>1, <1>2, <2>1, <2>2
<1>10. Memory(c) = None
  BY <1>2 DEF Memory
<1>11. Memory(p) # None
  BY <1>1, MemoryLemma
<1>12. Abstract!ForkMemory(p, c)
  BY <1>2, <1>7, <1>8, <1>9, <1>10, <1>11 DEF Abstract!ForkMemory
<1> QED
  BY <1>2, <1>4, <1>5, <1>6, <1>12

\* exec begins and ends (vmm.cc:168-186).
LEMMA ExecLemma ==
  ASSUME IInv, NEW p \in Procs, Exec(p) \/ ExecDone(p)
  PROVE IInv' /\ \A q \in Procs : Memory(q)' = Memory(q)
<1> USE DEF IInv
<1>1. /\ at[p] \in {"user", "exec"} /\ at'[p] \in {"user", "exec"} /\ \A q \in Procs \ {p} : at'[q] = at[q]
      /\ UNCHANGED <<phys, content, space, child, running, tlb, panicked>>
  BY DEF Exec, ExecDone, TypeOK
<1>2. TypeOK'
  BY <1>1 DEF Exec, ExecDone, TypeOK
<1>3. FramesInv' /\ TlbCoherent'
  <2>1. space' = space /\ phys' = phys /\ tlb' = tlb /\ running' = running
    BY <1>1
  <2>2. FramesInv'
    BY <2>1 DEF FramesInv
  <2>3. TlbCoherent'
    BY <2>1 DEF TlbCoherent
  <2> QED
    BY <2>2, <2>3
<1>4. ProcInv'
  <2>1. space' = space /\ running' = running
    BY <1>1
  <2>2. \A q \in Procs : at'[q] = at[q] \/ (at[q] \in {"user", "exec"} /\ at'[q] \in {"user", "exec"})
    BY <1>1
  <2> QED
    BY <2>1, <2>2 DEF ProcInv, TypeOK
<1>5. ForkInv'
  <2>1. \A q \in Procs : at'[q] = "fork" => (q # p /\ at[q] = "fork")
    BY <1>1
  <2>2. \A q \in Procs : at[q] = "created" => at'[q] = "created"
    BY <1>1
  <2>3. child' = child /\ space' = space /\ content' = content
    BY <1>1
  <2> QED
    BY <2>1, <2>2, <2>3 DEF ForkInv
<1>6. ASSUME NEW q \in Procs PROVE Memory(q)' = Memory(q)
  BY <1>1 DEF Memory
<1> QED
  BY <1>2, <1>3, <1>4, <1>5, <1>6

\* A page that exec takes away reads as zero from now on: neither the page tables nor
\* the buffer know it (vmm.cc:178-182).
LEMMA ExecPageLemma ==
  ASSUME IInv, NEW p \in Procs, NEW g \in Pages, ExecPage(p, g)
  PROVE IInv' /\ Abstract!Store(p, g, 0)
<1> DEFINE s == space[p]
           f == s.pages[g]
           t == [s EXCEPT !.pages = Drop(s.pages, g)]
<1> USE DEF IInv
<1>1. /\ running = p /\ at[p] = "exec" /\ g \in DOMAIN s.pages /\ tlb' = Drop(tlb, g)
      /\ space' = [space EXCEPT ![p] = t] /\ phys' = Freed(phys, {f})
      /\ content' = Linked({f}) /\ UNCHANGED <<at, child, running, panicked>>
  BY DEF ExecPage
<1>2. s # None
  BY <1>1 DEF ProcInv
<1>3. /\ FreeOK(phys) /\ s \in SpaceType /\ OwnsApart(s) /\ FramesOf(s) \subseteq Used(phys)
      /\ f \in Used(phys) /\ f \in Frames /\ f \in FramesOf(s)
  BY <1>1, <1>2, PagesLemma DEF FramesOf
<1>4. FreeOK(phys') /\ Used(phys') = Used(phys) \ {f}
  BY <1>1, <1>3, FreeLemma
<1>5. /\ s.pd \in Frames /\ s.tables \in Partial(DirEntries, Frames) /\ s.pages \in Partial(Pages, Frames)
      /\ s = [pd |-> s.pd, tables |-> s.tables, pages |-> s.pages]
  BY <1>3, SpaceDef DEF SpaceType
<1>6. t = [pd |-> s.pd, tables |-> s.tables, pages |-> Drop(s.pages, g)]
  BY <1>5
<1>7. /\ Drop(s.pages, g) \in Partial(Pages, Frames) /\ DOMAIN Drop(s.pages, g) = DOMAIN s.pages \ {g}
      /\ \A z \in DOMAIN s.pages \ {g} : Drop(s.pages, g)[z] = s.pages[z]
  <2> DEFINE pages == s.pages
  <2>1. pages \in Partial(Pages, Frames)
    BY <1>5
  <2> HIDE DEF pages
  <2>2. /\ Drop(pages, g) \in Partial(Pages, Frames) /\ DOMAIN Drop(pages, g) = DOMAIN pages \ {g}
        /\ \A z \in DOMAIN pages \ {g} : Drop(pages, g)[z] = pages[z]
    BY <2>1, DropLemma, SMTT(30)
  <2> QED
    BY <2>2 DEF pages
<1> HIDE DEF t
<1>8. t.pd = s.pd /\ t.tables = s.tables /\ DOMAIN t.pages = DOMAIN s.pages \ {g}
      /\ \A z \in DOMAIN s.pages \ {g} : t.pages[z] = s.pages[z]
  BY <1>6, <1>7
<1>9. t \in SpaceType
  BY <1>5, <1>6, <1>7, SpaceDef
<1>10. FramesFor(s) = FramesOf(s) /\ FramesFor(t) = FramesOf(t) /\ t # None
  BY <1>3, <1>9, SpaceLemma
<1>11. OwnsApart(t)
  BY <1>3, <1>8 DEF OwnsApart
<1>12. FramesOf(t) = FramesOf(s) \ {f}
  <2>1. \A x \in FramesOf(t) : x \in FramesOf(s)
    BY <1>8 DEF FramesOf
  <2>2. f # s.pd /\ (\A d \in DOMAIN s.tables : s.tables[d] # f) /\ (\A z \in DOMAIN s.pages \ {g} : s.pages[z] # f)
    BY <1>1, <1>3 DEF OwnsApart
  <2>3. f \notin FramesOf(t)
    <3> HIDE DEF f
    <3> QED
      BY <1>8, <2>2 DEF FramesOf
  <2>4. \A x \in FramesOf(s) \ {f} : x \in FramesOf(t)
    BY <1>8 DEF FramesOf
  <2> QED
    BY <2>1, <2>3, <2>4
<1>13. FramesInv'
  <2>1. /\ (Used(phys) \ FramesFor(space[p])) \cap FramesFor(t) = {}
        /\ Used(phys') = (Used(phys) \ FramesFor(space[p])) \cup FramesFor(t)
    BY <1>3, <1>4, <1>10, <1>12
  <2>2. DOMAIN space = Procs /\ phys'.free \subseteq 0 .. phys'.avail - 1
    BY <1>4 DEF TypeOK, FreeOK
  <2>3. space' = [space EXCEPT ![p] = t]
    BY <1>1
  <2> QED
    BY <1>11, <2>1, <2>2, <2>3, ExchangeLemma
<1>14. space'[p] = t /\ \A q \in Procs \ {p} : space'[q] = space[q]
  BY <1>1 DEF TypeOK
<1>15. /\ \A x \in Frames \ {f} : content'[x] = content[x]
       /\ content' \in [Frames -> Values \cup {0, Link}]
  BY <1>1 DEF Linked, TypeOK
<1>16. TypeOK'
  <2>1. phys' \in [free : SUBSET Frames, avail : 0 .. limit]
    BY <1>4 DEF FreeOK, PhysType
  <2>2. space' \in [Procs -> SpaceType \cup {None}]
    BY <1>1, <1>9 DEF TypeOK
  <2> QED
    BY <1>1, <1>15, <2>1, <2>2 DEF TypeOK
<1>17. TlbCoherent'
  BY <1>1, <1>8, <1>14 DEF TlbCoherent, Drop
<1>18. ProcInv'
  BY <1>1, <1>2, <1>10, <1>14 DEF ProcInv
<1>19. \A q \in Procs \ {p} : space[q] # None =>
         \A h \in DOMAIN space[q].pages : content'[space[q].pages[h]] = content[space[q].pages[h]]
  <2> SUFFICES ASSUME NEW q \in Procs \ {p}, space[q] # None, NEW h \in DOMAIN space[q].pages
               PROVE content'[space[q].pages[h]] = content[space[q].pages[h]]
    OBVIOUS
  <2>1. space[q].pages[h] # f /\ space[q].pages[h] \in Frames
    BY <1>1, <1>2, PagesLemma
  <2> QED
    BY <1>15, <2>1
<1>20. ForkInv'
  <2>0. at' = at /\ child' = child
    BY <1>1
  <2> SUFFICES ASSUME NEW q \in Procs, at[q] = "fork"
               PROVE \A h \in DOMAIN space'[child[q]].pages :
                       /\ h \in DOMAIN space'[q].pages
                       /\ content'[space'[child[q]].pages[h]] = content'[space'[q].pages[h]]
    BY <2>0 DEF ForkInv
  <2>1. q # p /\ child[q] \in Procs \ {p} /\ at[child[q]] = "created"
    BY <1>1 DEF ForkInv
  <2>2. space[q] # None /\ space[child[q]] # None /\ space'[q] = space[q] /\ space'[child[q]] = space[child[q]]
    BY <1>14, <2>1 DEF ProcInv
  <2> QED
    BY <1>19, <2>1, <2>2 DEF ForkInv
<1>21. ASSUME NEW q \in Procs \ {p} PROVE Memory(q)' = Memory(q)
  <2>1. at[q] \notin {"unborn", "created", "ended"} =>
          \A h \in DOMAIN space[q].pages : content'[space[q].pages[h]] = content[space[q].pages[h]]
    BY <1>19, AliveLemma
  <2> QED
    BY <1>1, <1>14, <2>1, KeptLemma
<1>22. Memory(p) = [h \in Pages |-> IF h \in DOMAIN s.pages THEN content[s.pages[h]] ELSE 0] /\ Memory(p) # None
  BY <1>1, MemoryLemma
<1>23. Memory(p)' = [h \in Pages |-> IF h \in DOMAIN t.pages THEN content'[t.pages[h]] ELSE 0]
  BY <1>1, <1>14, SMTT(30) DEF Memory
<1>24. \A h \in DOMAIN s.pages \ {g} : content'[t.pages[h]] = content[s.pages[h]]
  <2> SUFFICES ASSUME NEW h \in DOMAIN s.pages \ {g}
               PROVE content'[t.pages[h]] = content[s.pages[h]]
    OBVIOUS
  <2>1. s.pages[h] # f /\ s.pages[h] \in Frames
    BY <1>1, <1>2, PagesLemma
  <2> QED
    BY <1>8, <1>15, <2>1
<1>25. Memory(p)' = [Memory(p) EXCEPT ![g] = 0]
  BY <1>8, <1>22, <1>23, <1>24
<1>26. Abstract!Store(p, g, 0)
  BY <1>21, <1>22, <1>25 DEF Abstract!Store
<1> QED
  BY <1>13, <1>16, <1>17, <1>18, <1>20, <1>26

\* The memory of a process ends with it; its frames are still its own.
LEMMA ExitLemma ==
  ASSUME IInv, NEW p \in Procs, NEW next \in Procs, Exit(p, next)
  PROVE IInv' /\ Abstract!End(p)
<1> USE DEF IInv
<1>1. /\ at[p] = "user" /\ next # p /\ at[next] \in {"user", "fork", "exec"}
      /\ at' = [at EXCEPT ![p] = "ended"] /\ running' = next /\ tlb' = NoPages
      /\ UNCHANGED <<phys, content, space, child, panicked>>
  BY DEF Exit
<1>2. at'[p] = "ended" /\ \A q \in Procs \ {p} : at'[q] = at[q]
  BY <1>1 DEF TypeOK
<1>3. TypeOK' /\ FramesInv'
  BY <1>1 DEF TypeOK, FramesInv, Used
<1>4. TlbCoherent'
  BY <1>1 DEF TlbCoherent, NoPages
<1>5. ProcInv' /\ ForkInv'
  BY <1>1, <1>2 DEF ProcInv, ForkInv
<1>6. ASSUME NEW q \in Procs \ {p} PROVE Memory(q)' = Memory(q)
  BY <1>1, <1>2, KeptLemma
<1>7. Memory(p)' = None
  BY <1>2 DEF Memory
<1>8. Abstract!End(p)
  BY <1>6, <1>7 DEF Abstract!End
<1> QED
  BY <1>3, <1>4, <1>5, <1>8

\* The destructor gives back every frame of the process and no other (vmm.cc:66-84).
LEMMA DestroyLemma ==
  ASSUME IInv, NEW p \in Procs, Destroy(p)
  PROVE IInv' /\ \A q \in Procs : Memory(q)' = Memory(q)
<1> DEFINE s == space[p]
<1> USE DEF IInv
<1>1. /\ at[p] = "ended" /\ s # None /\ phys' = Freed(phys, Owned(s)) /\ content' = Linked(Owned(s))
      /\ space' = [space EXCEPT ![p] = None] /\ UNCHANGED <<at, child, running, tlb, panicked>>
  BY DEF Destroy
<1>2. FreeOK(phys) /\ s \in SpaceType /\ FramesOf(s) \subseteq Used(phys)
  BY <1>1, PagesLemma
<1>3. FramesFor(s) = FramesOf(s) /\ Owned(s) = FramesOf(s)
  BY <1>2, SpaceLemma
<1>4. FreeOK(phys') /\ Used(phys') = Used(phys) \ FramesOf(s)
  BY <1>1, <1>2, <1>3, FreeLemma
<1>5. FramesInv'
  <2>1. /\ (Used(phys) \ FramesFor(space[p])) \cap FramesFor(None) = {}
        /\ Used(phys') = (Used(phys) \ FramesFor(space[p])) \cup FramesFor(None)
    BY <1>3, <1>4 DEF FramesFor
  <2>2. DOMAIN space = Procs /\ phys'.free \subseteq 0 .. phys'.avail - 1
    BY <1>4 DEF TypeOK, FreeOK
  <2>3. space' = [space EXCEPT ![p] = None]
    BY <1>1
  <2> QED
    BY <2>1, <2>2, <2>3, ExchangeLemma
<1>6. space'[p] = None /\ \A q \in Procs \ {p} : space'[q] = space[q]
  BY <1>1 DEF TypeOK
<1>7. /\ \A x \in Frames \ FramesOf(s) : content'[x] = content[x]
      /\ content' \in [Frames -> Values \cup {0, Link}]
  BY <1>1, <1>3 DEF Linked, TypeOK
<1>8. TypeOK'
  <2>1. phys' \in [free : SUBSET Frames, avail : 0 .. limit]
    BY <1>4 DEF FreeOK, PhysType
  <2> QED
    BY <1>1, <1>7, <2>1 DEF TypeOK
<1>9. running # p
  BY <1>1 DEF ProcInv
<1>10. TlbCoherent' /\ ProcInv'
  BY <1>1, <1>6, <1>9 DEF TlbCoherent, ProcInv, TypeOK
<1>11. \A q \in Procs \ {p} : space[q] # None =>
         \A h \in DOMAIN space[q].pages : content'[space[q].pages[h]] = content[space[q].pages[h]]
  <2> SUFFICES ASSUME NEW q \in Procs \ {p}, space[q] # None, NEW h \in DOMAIN space[q].pages
               PROVE content'[space[q].pages[h]] = content[space[q].pages[h]]
    OBVIOUS
  <2>1. space[q].pages[h] \in Frames /\ space[q].pages[h] \in FramesOf(space[q]) /\ FramesFor(space[q]) = FramesOf(space[q])
    BY PagesLemma, SpaceLemma DEF FramesOf
  <2>2. space[q].pages[h] \notin FramesOf(s)
    BY <1>3, <2>1 DEF FramesInv
  <2> QED
    BY <1>7, <2>1, <2>2
<1>12. ForkInv'
  <2> SUFFICES ASSUME NEW q \in Procs, at[q] = "fork"
               PROVE \A h \in DOMAIN space'[child[q]].pages :
                       /\ h \in DOMAIN space'[q].pages
                       /\ content'[space'[child[q]].pages[h]] = content'[space'[q].pages[h]]
    BY <1>1 DEF ForkInv
  <2>1. q # p /\ child[q] \in Procs \ {p} /\ at[child[q]] = "created"
    BY <1>1 DEF ForkInv
  <2>2. space[q] # None /\ space[child[q]] # None /\ space'[q] = space[q] /\ space'[child[q]] = space[child[q]]
    BY <1>6, <2>1 DEF ProcInv
  <2> QED
    BY <1>11, <2>1, <2>2 DEF ForkInv
<1>13. ASSUME NEW q \in Procs PROVE Memory(q)' = Memory(q)
  <2>1. CASE q = p
    BY <1>1, <2>1 DEF Memory
  <2>2. CASE q # p
    <3>1. at[q] \notin {"unborn", "created", "ended"} =>
            \A h \in DOMAIN space[q].pages : content'[space[q].pages[h]] = content[space[q].pages[h]]
      BY <1>11, <2>2, AliveLemma
    <3> QED
      BY <1>1, <1>6, <2>2, <3>1, KeptLemma
  <2> QED
    BY <2>1, <2>2
<1> QED
  BY <1>5, <1>8, <1>10, <1>12, <1>13
----------------------------------------------------------------------------
(* Boot: each of the first processes gets the next two frames.              *)

LEMMA FirstSpaceLemma ==
  ASSUME NEW i \in 1 .. Cardinality(First), NEW ph, ph = [free |-> {}, avail |-> 2 * (i - 1)]
  PROVE /\ NewSpace(ph) \in SpaceType /\ OwnsApart(NewSpace(ph)) /\ DOMAIN NewSpace(ph).pages = {}
        /\ FramesFor(NewSpace(ph)) = {2 * i - 2, 2 * i - 1}
<1>1. Cardinality(First) \in Nat /\ limit \in Nat /\ 2 * Cardinality(First) <= limit /\ i \in Int
  BY VMMAssumption, FS_CardinalityType
<1>2. 2 * (i - 1) \in 0 .. limit /\ 2 <= limit - 2 * (i - 1)
  BY <1>1
<1>3. FreeOK(ph)
  BY <1>2 DEF FreeOK, PhysType
<1>4. CanAlloc(ph, 2)
  <2>1. Cardinality({}) = 0
    BY FS_EmptySet
  <2> QED
    BY <1>1, <1>2, <2>1 DEF CanAlloc
<1>5. /\ NewSpace(ph) \in SpaceType /\ OwnsApart(NewSpace(ph)) /\ DOMAIN NewSpace(ph).pages = {}
      /\ FramesOf(NewSpace(ph)) \cap Used(ph) = {}
      /\ Used(Alloced(Alloced(ph))) = Used(ph) \cup FramesOf(NewSpace(ph))
  BY <1>3, <1>4, NewSpaceLemma
<1>6. Alloced(Alloced(ph)) = [free |-> {}, avail |-> 2 * i]
  <2>1. Alloced(ph) = [free |-> {}, avail |-> 2 * (i - 1) + 1]
    BY DEF Alloced
  <2>2. Alloced(Alloced(ph)) = [free |-> {}, avail |-> 2 * (i - 1) + 1 + 1]
    BY <2>1 DEF Alloced
  <2>3. 2 * (i - 1) + 1 + 1 = 2 * i
    BY <1>1
  <2> QED
    BY <2>2, <2>3
<1>7. Used(ph) = 0 .. 2 * (i - 1) - 1 /\ Used(Alloced(Alloced(ph))) = 0 .. 2 * i - 1
  BY <1>6 DEF Used
<1>8. FramesOf(NewSpace(ph)) = (0 .. 2 * i - 1) \ (0 .. 2 * (i - 1) - 1)
  BY <1>5, <1>7
<1>9. FramesOf(NewSpace(ph)) = {2 * i - 2, 2 * i - 1}
  <2>1. i \in Int /\ i >= 1
    BY <1>1
  <2>2. (0 .. 2 * i - 1) \ (0 .. 2 * (i - 1) - 1) = {2 * i - 2, 2 * i - 1}
    BY <2>1
  <2> QED
    BY <1>8, <2>2
<1> QED
  BY <1>5, <1>9, SpaceLemma

\* The order in which the first processes start has each of them once.
LEMMA OrderLemma ==
  ASSUME NEW order, order = SetToSeq(First), NEW n, n = Cardinality(First)
  PROVE /\ n \in Nat /\ n > 0 /\ order \in [1 .. n -> First] /\ DOMAIN order = 1 .. n /\ Len(order) = n
        /\ \A i, j \in 1 .. n : order[i] = order[j] => i = j
        /\ \A p \in First : \E i \in 1 .. n : order[i] = p
<1>1. n \in Nat /\ ExistsBijection(1 .. n, First) /\ IsFiniteSet(First)
  BY VMMAssumption, FS_CardinalityType
<1>2. n > 0
  BY <1>1, VMMAssumption, FS_EmptySet
<1>3. \E f \in [1 .. n -> First] : IsInjective(f)
  BY <1>1 DEF ExistsBijection, Bijection, Injection
<1>4. order \in [1 .. n -> First] /\ IsInjective(order)
  <2>1. order = CHOOSE f \in [1 .. n -> First] : IsInjective(f)
    BY DEF SetToSeq
  <2> QED
    BY <1>3, <2>1
<1>5. \A i, j \in 1 .. n : order[i] = order[j] => i = j
  BY <1>4 DEF IsInjective
<1>6. order \in Injection(1 .. n, First)
  BY <1>4 DEF Injection
<1>7. Cardinality(1 .. n) = n
  BY <1>1, FS_Interval
<1>8. order \in Surjection(1 .. n, First)
  BY <1>1, <1>6, <1>7, FS_Injection
<1>9. \A p \in First : \E i \in 1 .. n : order[i] = p
  BY <1>8 DEF Surjection
<1>10. DOMAIN order = 1 .. n /\ order \in Seq(First)
  BY <1>1, <1>4
<1>11. Len(order) = n
  BY <1>1, <1>10
<1> QED
  BY <1>1, <1>2, <1>4, <1>5, <1>9, <1>10, <1>11

\* Before the first process runs, the frames below avail belong to the first processes,
\* two to each (vmm.cc:55-64).
LEMMA InitLemma == Init => IInv /\ [p \in Procs |-> Memory(p)] \in [Procs -> {None, [g \in Pages |-> 0]}]
<1> SUFFICES ASSUME Init
             PROVE IInv /\ [p \in Procs |-> Memory(p)] \in [Procs -> {None, [g \in Pages |-> 0]}]
  OBVIOUS
<1> DEFINE n == Cardinality(First)
<1>1. PICK order : /\ order = SetToSeq(First)
                   /\ phys = [free |-> {}, avail |-> 2 * Len(order)]
                   /\ space = [p \in Procs |-> IF p \in First
                        THEN LET i == CHOOSE i \in DOMAIN order : order[i] = p
                             IN NewSpace([free |-> {}, avail |-> 2 * (i - 1)])
                        ELSE None]
                   /\ running = order[1]
  BY DEF Init
<1>2. /\ content = [f \in Frames |-> 0] /\ at = [p \in Procs |-> IF p \in First THEN "user" ELSE "unborn"]
      /\ child = [p \in Procs |-> None] /\ tlb = NoPages /\ panicked = FALSE
  BY DEF Init
<1>3. /\ n \in Nat /\ n > 0 /\ order \in [1 .. n -> First] /\ DOMAIN order = 1 .. n /\ Len(order) = n
      /\ \A i, j \in 1 .. n : order[i] = order[j] => i = j
      /\ \A p \in First : \E i \in 1 .. n : order[i] = p
  BY <1>1, OrderLemma
<1> HIDE DEF n
<1> DEFINE Ix(p) == CHOOSE i \in 1 .. n : order[i] = p
<1>4. ASSUME NEW p \in First PROVE Ix(p) \in 1 .. n /\ order[Ix(p)] = p
  BY <1>3
<1>5. First \subseteq Procs
  BY VMMAssumption
<1>6. ASSUME NEW p \in First
      PROVE /\ space[p] \in SpaceType /\ OwnsApart(space[p]) /\ DOMAIN space[p].pages = {}
            /\ FramesFor(space[p]) = {2 * Ix(p) - 2, 2 * Ix(p) - 1}
  <2>1. PICK i : i = Ix(p)
    OBVIOUS
  <2>2. space[p] = NewSpace([free |-> {}, avail |-> 2 * (Ix(p) - 1)])
    BY <1>1, <1>3, <1>5
  <2>3. PICK ph : ph = [free |-> {}, avail |-> 2 * (i - 1)]
    OBVIOUS
  <2>4. i \in 1 .. Cardinality(First) /\ space[p] = NewSpace(ph)
    BY <1>4, <2>1, <2>2, <2>3 DEF n
  <2> HIDE DEF Ix
  <2> QED
    BY <2>1, <2>3, <2>4, FirstSpaceLemma
<1>7. \A p \in Procs \ First : space[p] = None /\ FramesFor(space[p]) = {}
  BY <1>1 DEF FramesFor
<1>8. n \in Nat /\ 2 * n \in 0 .. limit
  BY <1>3, VMMAssumption DEF n
<1> HIDE DEF Ix
<1>9. FramesInv
  <2>1. phys.free = {} /\ phys.avail = 2 * n /\ Used(phys) = 0 .. 2 * n - 1
    BY <1>1, <1>3 DEF Used
  <2>2. \A p \in Procs : space[p] # None => OwnsApart(space[p])
    BY <1>6, <1>7
  <2>3. \A p, q \in Procs : p # q => FramesFor(space[p]) \cap FramesFor(space[q]) = {}
    <3> SUFFICES ASSUME NEW p \in First, NEW q \in First, p # q
                 PROVE FramesFor(space[p]) \cap FramesFor(space[q]) = {}
      BY <1>7
    <3>1. Ix(p) # Ix(q) /\ Ix(p) \in Int /\ Ix(q) \in Int
      BY <1>3, <1>4
    <3>2. {2 * Ix(p) - 2, 2 * Ix(p) - 1} \cap {2 * Ix(q) - 2, 2 * Ix(q) - 1} = {}
      BY <3>1
    <3> QED
      BY <1>6, <3>2
  <2>4. UNION {FramesFor(space[p]) : p \in Procs} \subseteq Used(phys)
    <3> SUFFICES ASSUME NEW p \in First
                 PROVE FramesFor(space[p]) \subseteq Used(phys)
      BY <1>7
    <3>1. Ix(p) \in 1 .. n
      BY <1>4
    <3>2. 2 * Ix(p) - 2 \in 0 .. 2 * n - 1 /\ 2 * Ix(p) - 1 \in 0 .. 2 * n - 1
      BY <1>8, <3>1
    <3> QED
      BY <1>6, <2>1, <3>2
  <2>5. Used(phys) \subseteq UNION {FramesFor(space[p]) : p \in Procs}
    <3> SUFFICES ASSUME NEW x \in 0 .. 2 * n - 1
                 PROVE \E p \in Procs : x \in FramesFor(space[p])
      BY <2>1
    <3>1. PICK i \in 1 .. n : x = 2 * i - 2 \/ x = 2 * i - 1
      <4>1. (x \div 2) + 1 \in 1 .. n /\ (x = 2 * ((x \div 2) + 1) - 2 \/ x = 2 * ((x \div 2) + 1) - 1)
        BY <1>8
      <4> QED
        BY <4>1
    <3>2. order[i] \in First
      BY <1>3
    <3>3. Ix(order[i]) = i
      BY <1>3, <1>4, <3>2
    <3> QED
      BY <1>5, <1>6, <3>1, <3>2, <3>3
  <2> QED
    BY <2>1, <2>2, <2>3, <2>4, <2>5 DEF FramesInv
<1>10. TypeOK
  <2>1. phys \in [free : SUBSET Frames, avail : 0 .. limit]
    BY <1>1, <1>3, <1>8
  <2>2. space \in [Procs -> SpaceType \cup {None}]
    BY <1>1, <1>6, <1>7
  <2>3. running \in Procs
    BY <1>1, <1>3, <1>5
  <2> QED
    BY <1>2, <2>1, <2>2, <2>3 DEF TypeOK
<1>11. TlbCoherent
  BY <1>2 DEF TlbCoherent, NoPages
<1>12. ProcInv
  <2>1. running \in First
    BY <1>1, <1>3
  <2>2. \A p \in First : space[p] # None
    BY <1>6, SpaceLemma
  <2> QED
    BY <1>2, <1>5, <1>7, <2>1, <2>2 DEF ProcInv
<1>13. ForkInv
  BY <1>2 DEF ForkInv
<1>14. ASSUME NEW p \in Procs PROVE Memory(p) \in {None, [g \in Pages |-> 0]}
  BY <1>2, <1>6 DEF Memory
<1> QED
  BY <1>9, <1>10, <1>11, <1>12, <1>13, <1>14 DEF IInv

----------------------------------------------------------------------------
\* Each step keeps the invariant, and is a step of the abstract specification or changes
\* nobody's memory.
LEMMA StepLemma ==
  ASSUME IInv, [Next]_vars
  PROVE /\ IInv'
        /\ \/ Abstract!MemoryNext
           \/ \A q \in Procs : Memory(q)' = Memory(q)
<1>1. CASE UNCHANGED vars
  <2>1. \A q \in Procs : Memory(q)' = Memory(q)
    BY <1>1 DEF vars, Memory
  <2>2. TypeOK' /\ FramesInv'
    BY <1>1 DEF vars, IInv, TypeOK, FramesInv, Used
  <2>3. TlbCoherent' /\ ProcInv'
    BY <1>1 DEF vars, IInv, TlbCoherent, ProcInv
  <2>4. ForkInv'
    BY <1>1 DEF vars, IInv, ForkInv
  <2> QED
    BY <2>1, <2>2, <2>3, <2>4 DEF IInv
<1>2. CASE \E p \in Procs : Switch(p) \/ Exec(p) \/ ExecDone(p) \/ Destroy(p)
  BY <1>2, SwitchLemma, ExecLemma, DestroyLemma
<1>3. CASE \E p \in Procs : ForkDone(p)
  <2>1. PICK p \in Procs : ForkDone(p)
    BY <1>3
  <2>2. PICK c : c = child[p]
    OBVIOUS
  <2>3. IInv' /\ c \in Procs /\ Abstract!ForkMemory(p, c)
    BY <2>1, <2>2, ForkDoneLemma
  <2> QED
    BY <2>3 DEF Abstract!MemoryNext
<1>4. CASE \E p \in Procs, c \in Procs : Fork(p, c)
  BY <1>4, ForkLemma
<1>5. CASE \E p \in Procs, c \in Procs : Exit(p, c)
  <2>1. PICK p \in Procs, c \in Procs : Exit(p, c)
    BY <1>5
  <2>2. IInv' /\ Abstract!End(p)
    BY <2>1, ExitLemma
  <2> QED
    BY <2>2 DEF Abstract!MemoryNext
<1>6. CASE \E p \in Procs, g \in Pages : PageFault(p, g) \/ ForkPage(p, g)
  BY <1>6, PageFaultLemma, ForkPageLemma
<1>7. CASE \E p \in Procs, g \in Pages : ExecPage(p, g)
  <2>1. PICK p \in Procs, g \in Pages : ExecPage(p, g)
    BY <1>7
  <2>2. IInv' /\ Abstract!Store(p, g, 0)
    BY <2>1, ExecPageLemma
  <2> QED
    BY <2>2 DEF Abstract!MemoryNext
<1>8. CASE \E p \in Procs, g \in Pages, v \in Values : Access(p, g, v)
  <2>1. PICK p \in Procs, g \in Pages, v \in Values : Access(p, g, v)
    BY <1>8
  <2>2. IInv' /\ (Abstract!Store(p, g, v) \/ \A q \in Procs : Memory(q)' = Memory(q))
    BY <2>1, AccessLemma
  <2> QED
    BY <2>2 DEF Abstract!MemoryNext
<1> QED
  BY <1>1, <1>2, <1>3, <1>4, <1>5, <1>6, <1>7, <1>8 DEF Next

\* The inductive invariant.
LEMMA Invariant == Spec => []IInv
<1>1. Init => IInv
  BY InitLemma
<1>2. IInv /\ [Next]_vars => IInv'
  BY StepLemma
<1> QED
  BY <1>1, <1>2, PTL DEF Spec

\* Type correctness: a page table holds frames of the memory that PhysMem manages, and
\* avail stays within limit (vmm.cc).
THEOREM TypeCorrect == Spec => []TypeOK
<1>1. IInv => TypeOK
  BY DEF IInv
<1> QED
  BY <1>1, Invariant, PTL

\* Whatever fork, exec, page faults and destructors do, each frame that was ever handed
\* out has exactly one owner: the free list or one place in one address space (vmm.cc).
THEOREM FramesOwnedOnce == Spec => []FramesConserved
<1>1. IInv => FramesConserved
  <2> SUFFICES ASSUME IInv PROVE FramesConserved
    OBVIOUS
  <2> DEFINE Live == {p \in Procs : space[p] # None}
  <2>1. \A p \in Live : FramesFor(space[p]) = FramesOf(space[p]) /\ OwnsApart(space[p])
    BY DEF FramesFor, IInv, FramesInv
  <2>2. \A p \in Procs \ Live : FramesFor(space[p]) = {}
    BY DEF FramesFor
  <2>3. \A p \in Live : FramesOf(space[p]) \subseteq Used(phys)
    BY <2>1 DEF IInv, FramesInv
  <2>4. \A p \in Live : FramesOf(space[p]) \cap phys.free = {}
    BY <2>3 DEF Used
  <2>5. \A p, q \in Live : p # q => FramesOf(space[p]) \cap FramesOf(space[q]) = {}
    BY <2>1 DEF IInv, FramesInv
  <2>6. UNION {FramesOf(space[p]) : p \in Live} = Used(phys)
    <3>1. UNION {FramesOf(space[p]) : p \in Live} \subseteq Used(phys)
      BY <2>3
    <3>2. ASSUME NEW x \in Used(phys) PROVE \E p \in Live : x \in FramesOf(space[p])
      <4>1. PICK p \in Procs : x \in FramesFor(space[p])
        BY DEF IInv, FramesInv
      <4> QED
        BY <2>1, <2>2, <4>1
    <3> QED
      BY <3>1, <3>2
  <2>7. phys.free \cup Used(phys) = 0 .. phys.avail - 1
    BY DEF IInv, FramesInv, Used
  <2> QED
    BY <2>1, <2>4, <2>5, <2>6, <2>7 DEF FramesConserved
<1> QED
  BY <1>1, Invariant, PTL

\* The CPU never translates a page to a frame that the page tables of the running process
\* do not give it (vmm.cc:128-132, 168-186).
THEOREM BufferCoherent == Spec => []TlbCoherent
<1>1. IInv => TlbCoherent
  BY DEF IInv
<1> QED
  BY <1>1, Invariant, PTL

\* Each process has a memory of its own: page faults, copies, exec and destructors of
\* others never show in it, and a child starts with what its parent had when the copy was
\* complete (vmm.cc).
THEOREM MemoryIsPrivate == Spec => IsPrivateMemory
<1>1. Init => [p \in Procs |-> Memory(p)] \in [Procs -> {None, [g \in Pages |-> 0]}]
  BY InitLemma
<1>2. IInv /\ [Next]_vars => [Abstract!MemoryNext]_([p \in Procs |-> Memory(p)])
  BY StepLemma
<1> QED
  BY <1>1, <1>2, Invariant, PTL DEF Spec, IsPrivateMemory, Abstract!MemorySpec
=============================================================================
