--------------------------- MODULE OpenFilesProofs ---------------------------
(***************************************************************************)
(* Theorems about OpenFiles for any finite number of processes and files,  *)
(* any permissions and tables of any size: an OpenFile counts the File     *)
(* objects on it, and whoever waits for a writer mutex waits behind one    *)
(* that is locked.                                                         *)
(***************************************************************************)
EXTENDS OpenFiles, FiniteSetTheorems, TLAPS

\* Where a system call, on behalf of its process, has a File object in its hands.
CallPlaces == {"permission", "insert", "unref", "chmodLock", "chmod"}

CountInv == \A f \in Files : opens[f] = FileObjects(f)

\* A process that fork can create has an empty table.
AbsentInv == \A p \in Procs : at[p] = "absent" => \A d \in Descriptors : fds[p][d] = 0

IInv == TypeOK /\ CountInv /\ WaitersBehindLock /\ AbsentInv

----------------------------------------------------------------------------
(* Finite sets.                                                             *)

\* One more, one less.
LEMMA OneMore ==
  ASSUME NEW S, IsFiniteSet(S), NEW x, x \notin S, NEW T, T = S \cup {x}
  PROVE IsFiniteSet(T) /\ Cardinality(T) = Cardinality(S) + 1
BY FS_AddElement

\* What a finite family of finite sets covers is finite.
LEMMA FiniteCover ==
  ASSUME NEW I, IsFiniteSet(I), NEW T, NEW F \in [I -> SUBSET T], \A i \in I : IsFiniteSet(F[i]),
         NEW U, \A u \in U : \E i \in I : u \in F[i]
  PROVE IsFiniteSet(U)
<1> DEFINE R == {F[i] : i \in I}
<1>1. F \in Surjection(I, R)
  <2>1. F \in [I -> R]
    OBVIOUS
  <2>2. \A r \in R : \E i \in I : F[i] = r
    OBVIOUS
  <2> HIDE DEF R
  <2> QED
    BY <2>1, <2>2 DEF Surjection
<1>2. IsFiniteSet(R)
  BY <1>1, FS_Surjection
<1>3. \A r \in R : IsFiniteSet(r)
  OBVIOUS
<1>4. IsFiniteSet(UNION R)
  BY <1>2, <1>3, FS_UNION
<1>5. U \subseteq UNION R
  OBVIOUS
<1> QED
  BY <1>4, <1>5, FS_Subset

----------------------------------------------------------------------------
(* Units.                                                                   *)

\* What a unit is.
LEMMA UnitIs ==
  ASSUME NEW S, NEW n \in [S -> Nat], NEW u
  PROVE u \in Units(S, n) <=> \E x \in S : \E i \in 1 .. n[x] : u = <<x, i>>
<1>1. ASSUME u \in Units(S, n) PROVE \E x \in S : \E i \in 1 .. n[x] : u = <<x, i>>
  <2>1. PICK x \in S : u \in {x} \X (1 .. n[x])
    BY <1>1 DEF Units
  <2> QED
    BY <2>1
<1>2. ASSUME NEW x \in S, NEW i \in 1 .. n[x], u = <<x, i>> PROVE u \in Units(S, n)
  <2>1. u \in {x} \X (1 .. n[x])
    BY <1>2
  <2> QED
    BY <2>1 DEF Units
<1> QED
  BY <1>1, <1>2

\* A finite number of counters counts finitely many.
LEMMA UnitsFinite ==
  ASSUME NEW S, IsFiniteSet(S), NEW n \in [S -> Nat]
  PROVE IsFiniteSet(Units(S, n)) /\ Cardinality(Units(S, n)) \in Nat
<1> DEFINE F == [x \in S |-> {x} \X (1 .. n[x])]
<1>1. ASSUME NEW x \in S PROVE IsFiniteSet(F[x])
  <2>1. n[x] \in Int /\ 1 \in Int
    OBVIOUS
  <2>2. IsFiniteSet({x}) /\ IsFiniteSet(1 .. n[x])
    BY <2>1, FS_Singleton, FS_Interval
  <2> QED
    BY <2>2, FS_Product
<1>2. F \in [S -> SUBSET (S \X Nat)]
  OBVIOUS
<1>3. \A u \in Units(S, n) : \E x \in S : u \in F[x]
  BY DEF Units
<1> HIDE DEF F
<1>4. IsFiniteSet(Units(S, n))
  BY <1>1, <1>2, <1>3, FiniteCover
<1> QED
  BY <1>4, FS_CardinalityType

\* Counting one more adds a unit.
LEMMA OneMoreUnit ==
  ASSUME NEW S, IsFiniteSet(S), NEW n \in [S -> Nat], NEW x \in S,
         NEW m \in [S -> Nat], m[x] = n[x] + 1, \A y \in S \ {x} : m[y] = n[y]
  PROVE Cardinality(Units(S, m)) = Cardinality(Units(S, n)) + 1
<1> DEFINE u == <<x, n[x] + 1>>
<1>2. u \notin Units(S, n)
  BY UnitIs
<1>3. Units(S, m) = Units(S, n) \cup {u}
  <2>1. ASSUME NEW v \in Units(S, m) PROVE v \in Units(S, n) \cup {u}
    <3>1. PICK y \in S : \E i \in 1 .. m[y] : v = <<y, i>>
      BY UnitIs
    <3>2. CASE y = x
      BY <3>1, <3>2, UnitIs
    <3>3. CASE y # x
      BY <3>1, <3>3, UnitIs
    <3> QED
      BY <3>2, <3>3
  <2>2. ASSUME NEW v \in Units(S, n) PROVE v \in Units(S, m)
    <3>1. PICK y \in S : \E i \in 1 .. n[y] : v = <<y, i>>
      BY UnitIs
    <3>2. \E i \in 1 .. m[y] : v = <<y, i>>
      BY <3>1
    <3> QED
      BY <3>2, UnitIs
  <2>3. u \in Units(S, m)
    <3>1. n[x] + 1 \in 1 .. m[x]
      OBVIOUS
    <3> QED
      BY <3>1, UnitIs
  <2> HIDE DEF u
  <2> QED
    BY <2>1, <2>2, <2>3
<1> HIDE DEF u
<1> QED
  BY <1>2, <1>3, UnitsFinite, OneMore

\* Counting one less takes one away.
LEMMA OneLessUnit ==
  ASSUME NEW S, IsFiniteSet(S), NEW n \in [S -> Nat], NEW x \in S, n[x] > 0,
         NEW m \in [S -> Nat], m[x] = n[x] - 1, \A y \in S \ {x} : m[y] = n[y]
  PROVE Cardinality(Units(S, m)) = Cardinality(Units(S, n)) - 1
<1>1. n[x] = m[x] + 1 /\ \A y \in S \ {x} : n[y] = m[y]
  OBVIOUS
<1>2. Cardinality(Units(S, n)) = Cardinality(Units(S, m)) + 1
  BY <1>1, OneMoreUnit
<1>3. Cardinality(Units(S, n)) \in Nat /\ Cardinality(Units(S, m)) \in Nat
  BY UnitsFinite
<1> QED
  BY <1>2, <1>3

\* A counter that stood at zero adds what it is set to.
LEMMA CounterSet ==
  ASSUME NEW S, IsFiniteSet(S), NEW n \in [S -> Nat], NEW x \in S, n[x] = 0, NEW k \in Nat,
         NEW m \in [S -> Nat], m[x] = k, \A y \in S \ {x} : m[y] = n[y]
  PROVE Cardinality(Units(S, m)) = Cardinality(Units(S, n)) + k
<1> DEFINE A == {x} \X (1 .. k)
<1>2. IsFiniteSet(A) /\ Cardinality(A) = k
  <2>1. IsFiniteSet({x}) /\ Cardinality({x}) = 1
    BY FS_Singleton
  <2>2. IsFiniteSet(1 .. k) /\ Cardinality(1 .. k) = k
    BY FS_Interval
  <2>3. IsFiniteSet(A) /\ Cardinality(A) = Cardinality({x}) * Cardinality(1 .. k)
    BY <2>1, <2>2, FS_Product
  <2> QED
    BY <2>1, <2>2, <2>3
<1>3. Units(S, m) = Units(S, n) \cup A
  <2>1. ASSUME NEW v \in Units(S, m) PROVE v \in Units(S, n) \cup A
    <3>1. PICK y \in S : \E i \in 1 .. m[y] : v = <<y, i>>
      BY UnitIs
    <3>2. CASE y = x
      BY <3>1, <3>2
    <3>3. CASE y # x
      BY <3>1, <3>3, UnitIs
    <3> QED
      BY <3>2, <3>3
  <2>2. ASSUME NEW v \in Units(S, n) PROVE v \in Units(S, m)
    <3>1. PICK y \in S : \E i \in 1 .. n[y] : v = <<y, i>>
      BY UnitIs
    <3>2. y # x
      BY <3>1
    <3> QED
      BY <3>1, <3>2, UnitIs
  <2>3. ASSUME NEW v \in A PROVE v \in Units(S, m)
    <3>1. \E i \in 1 .. m[x] : v = <<x, i>>
      OBVIOUS
    <3> QED
      BY <3>1, UnitIs
  <2> HIDE DEF A
  <2> QED
    BY <2>1, <2>2, <2>3
<1>4. Units(S, n) \cap A = {}
  <2> SUFFICES ASSUME NEW v \in Units(S, n), v \in A PROVE FALSE
    OBVIOUS
  <2>1. PICK y \in S : \E i \in 1 .. n[y] : v = <<y, i>>
    BY UnitIs
  <2> QED
    BY <2>1
<1> HIDE DEF A
<1>5. IsFiniteSet(Units(S, n)) /\ Cardinality(Units(S, n)) \in Nat
  BY UnitsFinite
<1>6. Cardinality(Units(S, n) \cap A) = 0
  BY <1>4, FS_EmptySet
<1>7. Cardinality(Units(S, m)) = Cardinality(Units(S, n)) + k
  <2>1. Cardinality(Units(S, n) \cup A)
          = Cardinality(Units(S, n)) + Cardinality(A) - Cardinality(Units(S, n) \cap A)
    BY <1>2, <1>5, FS_Union
  <2> QED
    BY <1>2, <1>3, <1>5, <1>6, <2>1
<1> QED
  BY <1>7

\* Where nothing is counted no counter is above zero.
LEMMA NoUnits ==
  ASSUME NEW S, IsFiniteSet(S), NEW n \in [S -> Nat], Cardinality(Units(S, n)) = 0
  PROVE \A x \in S : n[x] = 0
<1>1. Units(S, n) = {}
  BY UnitsFinite, FS_EmptySet
<1> SUFFICES ASSUME NEW x \in S, n[x] # 0 PROVE FALSE
  OBVIOUS
<1>2. 1 \in 1 .. n[x]
  OBVIOUS
<1>3. <<x, 1>> \in Units(S, n)
  BY <1>2, UnitIs
<1> QED
  BY <1>1, <1>3

----------------------------------------------------------------------------
(* The File objects on a file.                                              *)

\* There are finitely many.
LEMMA Finite ==
  ASSUME TypeOK, NEW f \in Files
  PROVE /\ IsFiniteSet(Procs \X Modes) /\ OpenedBy(f) \in [Procs \X Modes -> Nat]
        /\ Cardinality(InTables(f)) \in Nat
        /\ IsFiniteSet(InCalls(f)) /\ Cardinality(InCalls(f)) \in Nat
        /\ opens[f] \in Nat /\ lost[f] \in Nat
<1>1. IsFiniteSet(Procs \X Modes)
  <2>1. IsFiniteSet(Modes)
    <3>1. IsFiniteSet({"read"}) /\ Modes = {"read"} \cup {"write"}
      BY FS_Singleton DEF Modes
    <3> QED
      BY <3>1, FS_AddElement
  <2> QED
    BY <2>1, OpenFilesAssumption, FS_Product
<1>2. OpenedBy(f) \in [Procs \X Modes -> Nat]
  BY DEF TypeOK, OpenedBy, Descriptors
<1>3. Cardinality(InTables(f)) \in Nat
  BY <1>1, <1>2, UnitsFinite DEF InTables
<1>4. IsFiniteSet(InCalls(f))
  <2>1. InCalls(f) \subseteq Procs
    BY DEF InCalls
  <2> QED
    BY <2>1, OpenFilesAssumption, FS_Subset
<1>5. Cardinality(InCalls(f)) \in Nat
  BY <1>4, FS_CardinalityType
<1>6. opens[f] \in Nat /\ lost[f] \in Nat
  BY DEF TypeOK
<1> QED
  BY <1>1, <1>2, <1>3, <1>4, <1>5, <1>6

\* Nobody opens or closes a descriptor.
LEMMA TablesKept ==
  ASSUME fds' = fds, NEW f \in Files
  PROVE Cardinality(InTables(f))' = Cardinality(InTables(f))
BY DEF InTables, OpenedBy

\* Table::open puts a File object into a table (table.cc:19-32).
LEMMA TableOpened ==
  ASSUME TypeOK, NEW p \in Procs, NEW f \in Files, NEW m \in Modes,
         fds' = [fds EXCEPT ![p][<<f, m>>] = @ + 1]
  PROVE /\ fds' \in [Procs -> [Descriptors -> Nat]]
        /\ \A q \in Procs \ {p} : fds'[q] = fds[q]
        /\ \A g \in Files : Cardinality(InTables(g))' = Cardinality(InTables(g)) + IF g = f THEN 1 ELSE 0
<1>1. <<f, m>> \in Descriptors /\ fds[p] \in [Descriptors -> Nat]
  BY DEF TypeOK, Descriptors
<1>2. fds' \in [Procs -> [Descriptors -> Nat]] /\ \A q \in Procs \ {p} : fds'[q] = fds[q]
  BY <1>1 DEF TypeOK, Jobs
<1>3. ASSUME NEW g \in Files
      PROVE /\ OpenedBy(g)' \in [Procs \X Modes -> Nat]
            /\ \A x \in (Procs \X Modes) \ {<<p, m>>} : OpenedBy(g)'[x] = OpenedBy(g)[x]
            /\ OpenedBy(g)'[<<p, m>>] = OpenedBy(g)[<<p, m>>] + IF g = f THEN 1 ELSE 0
  <2>1. OpenedBy(g)' \in [Procs \X Modes -> Nat]
    BY <1>2 DEF OpenedBy, Descriptors
  <2>2. \A q \in Procs, k \in Modes :
          fds'[q][<<g, k>>] = fds[q][<<g, k>>] + IF q = p /\ k = m /\ g = f THEN 1 ELSE 0
    <3> SUFFICES ASSUME NEW q \in Procs, NEW k \in Modes
                 PROVE fds'[q][<<g, k>>] = fds[q][<<g, k>>] + IF q = p /\ k = m /\ g = f THEN 1 ELSE 0
      OBVIOUS
    <3>1. <<g, k>> \in Descriptors /\ fds[q][<<g, k>>] \in Nat
      BY DEF TypeOK, Descriptors
    <3>2. CASE q = p
      <4>1. fds'[p] = [fds[p] EXCEPT ![<<f, m>>] = @ + 1]
        BY DEF TypeOK
      <4> QED
        BY <1>1, <3>1, <3>2, <4>1
    <3>3. CASE q # p
      BY <1>2, <3>1, <3>3
    <3> QED
      BY <3>2, <3>3
  <2>3. \A x \in Procs \X Modes :
          OpenedBy(g)'[x] = OpenedBy(g)[x] + IF x = <<p, m>> /\ g = f THEN 1 ELSE 0
    BY <2>2 DEF OpenedBy
  <2>4. \A x \in Procs \X Modes : OpenedBy(g)[x] \in Nat
    BY Finite
  <2> QED
    BY <2>1, <2>3, <2>4
<1>4. ASSUME NEW g \in Files
      PROVE Cardinality(InTables(g))' = Cardinality(InTables(g)) + IF g = f THEN 1 ELSE 0
  <2>1. IsFiniteSet(Procs \X Modes) /\ OpenedBy(g) \in [Procs \X Modes -> Nat] /\ <<p, m>> \in Procs \X Modes
    BY Finite
  <2>2. CASE g = f
    BY <1>3, <2>1, <2>2, OneMoreUnit DEF InTables
  <2>3. CASE g # f
    <3>1. \A x \in Procs \X Modes : OpenedBy(g)'[x] = OpenedBy(g)[x]
      BY <1>3, <2>1, <2>3
    <3>2. OpenedBy(g)' = OpenedBy(g)
      BY <1>3, <2>1, <3>1
    <3>3. Cardinality(InTables(g)) \in Nat
      BY Finite
    <3> QED
      BY <2>3, <3>2, <3>3 DEF InTables
  <2> QED
    BY <2>2, <2>3
<1> QED
  BY <1>2, <1>4

\* Table::close takes one out (table.cc:34-43).
LEMMA TableClosed ==
  ASSUME TypeOK, NEW p \in Procs, NEW f \in Files, NEW m \in Modes, fds[p][<<f, m>>] > 0,
         fds' = [fds EXCEPT ![p][<<f, m>>] = @ - 1]
  PROVE /\ fds' \in [Procs -> [Descriptors -> Nat]]
        /\ \A q \in Procs \ {p} : fds'[q] = fds[q]
        /\ \A g \in Files : Cardinality(InTables(g))' = Cardinality(InTables(g)) - IF g = f THEN 1 ELSE 0
<1>1. <<f, m>> \in Descriptors /\ fds[p] \in [Descriptors -> Nat]
  BY DEF TypeOK, Descriptors
<1>2. fds' \in [Procs -> [Descriptors -> Nat]] /\ \A q \in Procs \ {p} : fds'[q] = fds[q]
  BY <1>1 DEF TypeOK, Jobs
<1>3. ASSUME NEW g \in Files
      PROVE /\ OpenedBy(g)' \in [Procs \X Modes -> Nat]
            /\ \A x \in (Procs \X Modes) \ {<<p, m>>} : OpenedBy(g)'[x] = OpenedBy(g)[x]
            /\ OpenedBy(g)'[<<p, m>>] = OpenedBy(g)[<<p, m>>] - IF g = f THEN 1 ELSE 0
            /\ g = f => OpenedBy(g)[<<p, m>>] > 0
  <2>1. OpenedBy(g)' \in [Procs \X Modes -> Nat]
    BY <1>2 DEF OpenedBy, Descriptors
  <2>2. \A q \in Procs, k \in Modes :
          fds'[q][<<g, k>>] = fds[q][<<g, k>>] - IF q = p /\ k = m /\ g = f THEN 1 ELSE 0
    <3> SUFFICES ASSUME NEW q \in Procs, NEW k \in Modes
                 PROVE fds'[q][<<g, k>>] = fds[q][<<g, k>>] - IF q = p /\ k = m /\ g = f THEN 1 ELSE 0
      OBVIOUS
    <3>1. <<g, k>> \in Descriptors /\ fds[q][<<g, k>>] \in Nat
      BY DEF TypeOK, Descriptors
    <3>2. CASE q = p
      <4>1. fds'[p] = [fds[p] EXCEPT ![<<f, m>>] = @ - 1]
        BY DEF TypeOK
      <4> QED
        BY <1>1, <3>1, <3>2, <4>1
    <3>3. CASE q # p
      BY <1>2, <3>1, <3>3
    <3> QED
      BY <3>2, <3>3
  <2>3. \A x \in Procs \X Modes :
          OpenedBy(g)'[x] = OpenedBy(g)[x] - IF x = <<p, m>> /\ g = f THEN 1 ELSE 0
    BY <2>2 DEF OpenedBy
  <2>4. \A x \in Procs \X Modes : OpenedBy(g)[x] \in Nat
    BY Finite
  <2>5. g = f => OpenedBy(g)[<<p, m>>] > 0
    BY DEF OpenedBy
  <2> QED
    BY <2>1, <2>3, <2>4, <2>5
<1>4. ASSUME NEW g \in Files
      PROVE Cardinality(InTables(g))' = Cardinality(InTables(g)) - IF g = f THEN 1 ELSE 0
  <2>1. IsFiniteSet(Procs \X Modes) /\ OpenedBy(g) \in [Procs \X Modes -> Nat] /\ <<p, m>> \in Procs \X Modes
    BY Finite
  <2>2. CASE g = f
    BY <1>3, <2>1, <2>2, OneLessUnit DEF InTables
  <2>3. CASE g # f
    <3>1. \A x \in Procs \X Modes : OpenedBy(g)'[x] = OpenedBy(g)[x]
      BY <1>3, <2>1, <2>3
    <3>2. OpenedBy(g)' = OpenedBy(g)
      BY <1>3, <2>1, <3>1
    <3>3. Cardinality(InTables(g)) \in Nat
      BY Finite
    <3> QED
      BY <2>3, <3>2, <3>3 DEF InTables
  <2> QED
    BY <2>2, <2>3
<1> QED
  BY <1>2, <1>4

\* fork gives the child a copy of each File object (fs.cc:198-204).
LEMMA TableCopied ==
  ASSUME TypeOK, NEW p \in Procs, NEW c \in Procs, p # c, \A d \in Descriptors : fds[c][d] = 0,
         fds' = [fds EXCEPT ![c] = fds[p]], NEW f \in Files
  PROVE Cardinality(InTables(f))' = Cardinality(InTables(f)) + fds[p][<<f, "read">>] + fds[p][<<f, "write">>]
<1> DEFINE r == fds[p][<<f, "read">>]
           w == fds[p][<<f, "write">>]
           half == [OpenedBy(f) EXCEPT ![<<c, "read">>] = r]
<1>1. r \in Nat /\ w \in Nat /\ <<f, "read">> \in Descriptors /\ <<f, "write">> \in Descriptors
  BY DEF TypeOK, Descriptors, Modes
<1>2. /\ IsFiniteSet(Procs \X Modes) /\ OpenedBy(f) \in [Procs \X Modes -> Nat]
      /\ <<c, "read">> \in Procs \X Modes /\ <<c, "write">> \in Procs \X Modes /\ <<c, "read">> # <<c, "write">>
  BY Finite DEF Modes
<1>3. OpenedBy(f)[<<c, "read">>] = 0 /\ OpenedBy(f)[<<c, "write">>] = 0
  BY <1>1, <1>2 DEF OpenedBy
<1>4. /\ half \in [Procs \X Modes -> Nat] /\ half[<<c, "read">>] = r /\ half[<<c, "write">>] = 0
      /\ \A x \in (Procs \X Modes) \ {<<c, "read">>} : half[x] = OpenedBy(f)[x]
  BY <1>1, <1>2, <1>3
<1>5. /\ OpenedBy(f)' \in [Procs \X Modes -> Nat]
      /\ OpenedBy(f)'[<<c, "read">>] = r /\ OpenedBy(f)'[<<c, "write">>] = w
      /\ \A x \in (Procs \X Modes) \ {<<c, "read">>, <<c, "write">>} : OpenedBy(f)'[x] = OpenedBy(f)[x]
  <2>1. fds'[c] = fds[p] /\ \A q \in Procs \ {c} : fds'[q] = fds[q]
    BY DEF TypeOK
  <2>2. fds' \in [Procs -> [Descriptors -> Nat]]
    BY DEF TypeOK
  <2>3. OpenedBy(f)' \in [Procs \X Modes -> Nat]
    BY <2>2 DEF OpenedBy, Descriptors
  <2>4. OpenedBy(f)'[<<c, "read">>] = r /\ OpenedBy(f)'[<<c, "write">>] = w
    BY <1>2, <2>1 DEF OpenedBy
  <2>5. \A x \in (Procs \X Modes) \ {<<c, "read">>, <<c, "write">>} : x[1] \in Procs \ {c}
    BY DEF Modes
  <2>6. \A x \in (Procs \X Modes) \ {<<c, "read">>, <<c, "write">>} : OpenedBy(f)'[x] = OpenedBy(f)[x]
    BY <2>1, <2>5 DEF OpenedBy
  <2> QED
    BY <2>3, <2>4, <2>6
<1> HIDE DEF half, r, w
<1>6. Cardinality(Units(Procs \X Modes, half)) = Cardinality(InTables(f)) + r
  BY <1>1, <1>2, <1>3, <1>4, CounterSet DEF InTables
<1>7. Cardinality(InTables(f))' = Cardinality(Units(Procs \X Modes, half)) + w
  <2>1. \A x \in (Procs \X Modes) \ {<<c, "write">>} : OpenedBy(f)'[x] = half[x]
    BY <1>2, <1>4, <1>5
  <2>2. OpenedBy(f)' \in [Procs \X Modes -> Nat] /\ OpenedBy(f)'[<<c, "write">>] = w
    BY <1>5
  <2>3. half \in [Procs \X Modes -> Nat] /\ half[<<c, "write">>] = 0
    BY <1>4
  <2>4. Cardinality(Units(Procs \X Modes, OpenedBy(f)')) = Cardinality(Units(Procs \X Modes, half)) + w
    BY <1>1, <1>2, <2>1, <2>2, <2>3, CounterSet
  <2> QED
    BY <2>4 DEF InTables
<1> QED
  BY <1>6, <1>7 DEF r, w

\* Only one process moves.
OneMoves(p) == \A q \in Procs \ {p} : job'[q] = job[q] /\ at'[q] = at[q]

\* A system call takes a File object in its hands, keeps it, or lets go of it.
LEMMA HandsChange ==
  ASSUME TypeOK, NEW p \in Procs, OneMoves(p), NEW f \in Files
  PROVE /\ (p \in InCalls(f) <=> p \in InCalls(f)') => Cardinality(InCalls(f))' = Cardinality(InCalls(f))
        /\ p \notin InCalls(f) /\ p \in InCalls(f)' => Cardinality(InCalls(f))' = Cardinality(InCalls(f)) + 1
        /\ p \in InCalls(f) /\ p \notin InCalls(f)' => Cardinality(InCalls(f))' = Cardinality(InCalls(f)) - 1
<1>1. \A q \in Procs \ {p} : q \in InCalls(f) <=> q \in InCalls(f)'
  BY DEF OneMoves, InCalls
<1>2. InCalls(f) \subseteq Procs /\ InCalls(f)' \subseteq Procs
  BY DEF InCalls
<1>3. IsFiniteSet(InCalls(f)) /\ IsFiniteSet(InCalls(f)') /\ Cardinality(InCalls(f)') \in Nat
  <2>1. IsFiniteSet(InCalls(f)) /\ IsFiniteSet(InCalls(f)')
    BY <1>2, OpenFilesAssumption, FS_Subset
  <2> QED
    BY <2>1, FS_CardinalityType
<1>4. CASE p \in InCalls(f) <=> p \in InCalls(f)'
  <2>1. InCalls(f)' = InCalls(f)
    BY <1>1, <1>2, <1>4
  <2> QED
    BY <1>4, <2>1
<1>5. CASE p \notin InCalls(f) /\ p \in InCalls(f)'
  <2>1. InCalls(f)' = InCalls(f) \cup {p}
    BY <1>1, <1>2, <1>5
  <2> QED
    BY <1>3, <1>5, <2>1, OneMore
<1>6. CASE p \in InCalls(f) /\ p \notin InCalls(f)'
  <2>1. InCalls(f) = InCalls(f)' \cup {p}
    BY <1>1, <1>2, <1>6
  <2>2. Cardinality(InCalls(f)) = Cardinality(InCalls(f)') + 1
    BY <1>3, <1>6, <2>1, OneMore
  <2> QED
    BY <1>3, <1>6, <2>2
<1> QED
  BY <1>4, <1>5, <1>6

----------------------------------------------------------------------------
(* The queues of the writer mutexes.                                        *)

\* Who waits has a File object in its hands, and waits once.
LEMMA WaitersCounted ==
  ASSUME TypeOK, WaitersBehindLock, NEW f \in Files
  PROVE Len(waiting[f]) \in Nat /\ Len(waiting[f]) <= Cardinality(InCalls(f))
<1> DEFINE w == waiting[f]
           n == Len(w)
<1>1. w \in Seq(Procs) /\ n \in Nat /\ DOMAIN w = 1 .. n
  BY DEF TypeOK
<1>2. IsInjective(w) /\ \A p \in Range(w) : p \in InCalls(f)
  <2>1. \A p \in Range(w) : p \in Procs
    BY <1>1 DEF Range
  <2> QED
    BY <2>1 DEF WaitersBehindLock, InCalls
<1>3. w \in Injection(1 .. n, InCalls(f))
  <2>1. w \in [1 .. n -> InCalls(f)]
    BY <1>1, <1>2 DEF Range
  <2> QED
    BY <1>1, <1>2, <2>1 DEF Injection, IsInjective
<1> HIDE DEF n, w
<1>4. IsFiniteSet(InCalls(f)) /\ IsFiniteSet(1 .. n) /\ Cardinality(1 .. n) = n
  <2>1. IsFiniteSet(InCalls(f))
    BY Finite
  <2>2. 1 \in Int /\ n \in Int /\ n >= 0
    BY <1>1
  <2> QED
    BY <2>1, <2>2, FS_Interval
<1>5. Cardinality(1 .. n) <= Cardinality(InCalls(f))
  BY <1>3, <1>4, FS_Injection
<1> QED
  BY <1>1, <1>4, <1>5 DEF n, w

\* Semaphore::down() appends to a queue that the process is not in ...
LEMMA Appended ==
  ASSUME NEW w \in Seq(Procs), IsInjective(w), NEW p \in Procs, p \notin Range(w)
  PROVE /\ Append(w, p) \in Seq(Procs) /\ IsInjective(Append(w, p))
        /\ \A q \in Range(Append(w, p)) : q \in Range(w) \/ q = p
<1> DEFINE v == Append(w, p)
<1>1. /\ v \in Seq(Procs) /\ DOMAIN v = 1 .. Len(w) + 1 /\ v[Len(w) + 1] = p /\ Len(w) \in Nat
      /\ DOMAIN w = 1 .. Len(w) /\ \A i \in 1 .. Len(w) : v[i] = w[i]
  OBVIOUS
<1>2. \A i \in 1 .. Len(w) : w[i] # p
  BY <1>1 DEF Range
<1>3. \A i, j \in 1 .. Len(w) : w[i] = w[j] => i = j
  BY <1>1 DEF IsInjective
<1> HIDE DEF v
<1>4. \A i \in DOMAIN v : i \in 1 .. Len(w) \/ i = Len(w) + 1
  BY <1>1
<1>5. ASSUME NEW i \in DOMAIN v, NEW j \in DOMAIN v, v[i] = v[j] PROVE i = j
  BY <1>1, <1>2, <1>3, <1>4, <1>5
<1>6. IsInjective(v)
  BY <1>5 DEF IsInjective
<1>7. \A q \in Range(v) : q \in Range(w) \/ q = p
  <2> SUFFICES ASSUME NEW i \in DOMAIN v PROVE v[i] \in Range(w) \/ v[i] = p
    BY DEF Range
  <2>1. CASE i \in 1 .. Len(w)
    BY <1>1, <2>1 DEF Range
  <2>2. CASE i = Len(w) + 1
    BY <1>1, <2>2
  <2> QED
    BY <1>4, <2>1, <2>2
<1> QED
  BY <1>1, <1>6, <1>7 DEF v

\* ... and up() takes the head off.
LEMMA TakenOff ==
  ASSUME NEW w \in Seq(Procs), w # <<>>, IsInjective(w)
  PROVE Tail(w) \in Seq(Procs) /\ IsInjective(Tail(w)) /\ \A q \in Range(Tail(w)) : q \in Range(w)
<1> DEFINE v == Tail(w)
           n == Len(w) - 1
<1>1. /\ v \in Seq(Procs) /\ n \in Nat /\ DOMAIN v = 1 .. n /\ DOMAIN w = 1 .. n + 1
      /\ \A i \in 1 .. n : v[i] = w[i + 1]
  OBVIOUS
<1> HIDE DEF v, n
<1>2. \A i \in 1 .. n : i \in Int /\ i + 1 \in DOMAIN w
  BY <1>1
<1>3. \A i, j \in DOMAIN w : w[i] = w[j] => i = j
  BY DEF IsInjective
<1>4. ASSUME NEW i \in DOMAIN v, NEW j \in DOMAIN v, v[i] = v[j] PROVE i = j
  <2>1. i + 1 = j + 1
    BY <1>1, <1>2, <1>3, <1>4
  <2> QED
    BY <1>1, <1>2, <2>1
<1>5. IsInjective(v)
  BY <1>4 DEF IsInjective
<1>6. \A q \in Range(v) : q \in Range(w)
  <2> SUFFICES ASSUME NEW i \in DOMAIN v PROVE v[i] \in Range(w)
    BY DEF Range
  <2> QED
    BY <1>1, <1>2 DEF Range
<1> QED
  BY <1>1, <1>5, <1>6 DEF v

LEMMA DescriptorsFinite == IsFiniteSet(Descriptors)
<1>1. IsFiniteSet({"read"}) /\ Modes = {"read"} \cup {"write"}
  BY FS_Singleton DEF Modes
<1>2. IsFiniteSet(Modes)
  BY <1>1, FS_AddElement
<1> QED
  BY <1>2, OpenFilesAssumption, FS_Product DEF Descriptors

\* What a step of p may do to the queues.
QueuesFine(p) ==
  /\ count' \in [Files -> Nat] /\ waiting' \in [Files -> Seq(Procs)]
  /\ \A g \in Files :
       /\ waiting'[g] # <<>> => count'[g] = 0
       /\ IsInjective(waiting'[g])
       /\ \A q \in Range(waiting'[g]) :
            q \in Range(waiting[g]) \/ (q = p /\ job'[p].file = g /\ at'[p] \in {"insert", "chmod"})

LEMMA QueuesKept ==
  ASSUME TypeOK, WaitersBehindLock, UNCHANGED <<count, waiting>>, NEW p
  PROVE QueuesFine(p)
BY DEF TypeOK, WaitersBehindLock, QueuesFine

\* A lock of a writer mutex ...
LEMMA QueuesLocked ==
  ASSUME TypeOK, WaitersBehindLock, NEW p \in Procs, NEW f \in Files, ~Blocked(p), LockWriter(p, f),
         job'[p].file = f, at'[p] \in {"insert", "chmod"}
  PROVE QueuesFine(p)
<1>1. /\ count \in [Files -> Nat] /\ waiting \in [Files -> Seq(Procs)]
      /\ \A g \in Files : IsInjective(waiting[g]) /\ (waiting[g] # <<>> => count[g] = 0)
  BY DEF TypeOK, WaitersBehindLock
<1>2. CASE count[f] > 0
  <2>1. waiting[f] = <<>> /\ waiting' = waiting /\ count' = [count EXCEPT ![f] = @ - 1]
    BY <1>1, <1>2 DEF LockWriter
  <2> QED
    BY <1>1, <1>2, <2>1 DEF QueuesFine
<1>3. CASE ~(count[f] > 0)
  <2> DEFINE w == Append(waiting[f], p)
  <2>1. waiting' = [waiting EXCEPT ![f] = w] /\ count' = count
    BY <1>3 DEF LockWriter
  <2>2. p \notin Range(waiting[f])
    BY DEF Blocked
  <2>3. w \in Seq(Procs) /\ IsInjective(w) /\ \A q \in Range(w) : q \in Range(waiting[f]) \/ q = p
    BY <1>1, <2>2, Appended
  <2>4. count[f] = 0
    BY <1>1, <1>3
  <2> HIDE DEF w
  <2>5. waiting' \in [Files -> Seq(Procs)] /\ waiting'[f] = w /\ \A g \in Files \ {f} : waiting'[g] = waiting[g]
    BY <1>1, <2>1, <2>3
  <2>6. ASSUME NEW g \in Files
        PROVE /\ waiting'[g] # <<>> => count'[g] = 0
              /\ IsInjective(waiting'[g])
              /\ \A q \in Range(waiting'[g]) :
                   q \in Range(waiting[g]) \/ (q = p /\ job'[p].file = g /\ at'[p] \in {"insert", "chmod"})
    <3>1. CASE g = f
      BY <2>1, <2>3, <2>4, <2>5, <3>1
    <3>2. CASE g # f
      BY <1>1, <2>1, <2>5, <3>2
    <3> QED
      BY <3>1, <3>2
  <2> QED
    BY <1>1, <2>1, <2>5, <2>6 DEF QueuesFine
<1> QED
  BY <1>2, <1>3

\* ... and an unlock.
LEMMA QueuesUnlocked ==
  ASSUME TypeOK, WaitersBehindLock, NEW p, NEW f \in Files, UnlockWriter(f)
  PROVE QueuesFine(p)
<1>1. /\ count \in [Files -> Nat] /\ waiting \in [Files -> Seq(Procs)]
      /\ \A g \in Files : IsInjective(waiting[g]) /\ (waiting[g] # <<>> => count[g] = 0)
  BY DEF TypeOK, WaitersBehindLock
<1>2. CASE waiting[f] = <<>>
  <2>1. waiting' = waiting /\ count' = [count EXCEPT ![f] = @ + 1]
    BY <1>2 DEF UnlockWriter
  <2> QED
    BY <1>1, <1>2, <2>1 DEF QueuesFine
<1>3. CASE waiting[f] # <<>>
  <2> DEFINE w == Tail(waiting[f])
  <2>1. waiting' = [waiting EXCEPT ![f] = w] /\ count' = count
    BY <1>3 DEF UnlockWriter
  <2>2. w \in Seq(Procs) /\ IsInjective(w) /\ \A q \in Range(w) : q \in Range(waiting[f])
    BY <1>1, <1>3, TakenOff
  <2>3. count[f] = 0
    BY <1>1, <1>3
  <2> HIDE DEF w
  <2>4. waiting' \in [Files -> Seq(Procs)] /\ waiting'[f] = w /\ \A g \in Files \ {f} : waiting'[g] = waiting[g]
    BY <1>1, <2>1, <2>2
  <2>5. ASSUME NEW g \in Files
        PROVE /\ waiting'[g] # <<>> => count'[g] = 0
              /\ IsInjective(waiting'[g])
              /\ \A q \in Range(waiting'[g]) : q \in Range(waiting[g])
    <3>1. CASE g = f
      BY <2>1, <2>2, <2>3, <2>4, <3>1
    <3>2. CASE g # f
      BY <1>1, <2>1, <2>4, <3>2
    <3> QED
      BY <3>1, <3>2
  <2> QED
    BY <1>1, <2>1, <2>4, <2>5 DEF QueuesFine
<1> QED
  BY <1>2, <1>3

\* An open of a file that has no OpenFile gives it a free mutex: nobody can wait for it.
LEMMA Opened ==
  ASSUME IInv, NEW f \in Files, OpenFile(f)
  PROVE /\ opens' \in [Files -> Nat] /\ count' \in [Files -> Nat] /\ bit' \in [Files -> BOOLEAN]
        /\ \A g \in Files : opens'[g] = opens[g] + IF g = f THEN 1 ELSE 0
        /\ \A g \in Files : waiting[g] # <<>> => count'[g] = count[g]
<1>1. opens \in [Files -> Nat] /\ count \in [Files -> Nat] /\ bit \in [Files -> BOOLEAN]
  BY DEF IInv, TypeOK
<1>2. opens' = [opens EXCEPT ![f] = @ + 1]
  BY DEF OpenFile
<1>3. opens[f] = 0 => waiting[f] = <<>>
  <2> SUFFICES ASSUME opens[f] = 0 PROVE waiting[f] = <<>>
    OBVIOUS
  <2>1. Len(waiting[f]) \in Nat /\ Len(waiting[f]) <= Cardinality(InCalls(f))
    BY WaitersCounted DEF IInv
  <2>2. Cardinality(InTables(f)) \in Nat /\ Cardinality(InCalls(f)) \in Nat /\ lost[f] \in Nat
    BY Finite DEF IInv
  <2>3. Len(waiting[f]) = 0
    BY <2>1, <2>2 DEF IInv, CountInv, FileObjects
  <2>4. waiting[f] \in Seq(Procs)
    BY DEF IInv, TypeOK
  <2> QED
    BY <2>3, <2>4
<1>4. CASE opens[f] = 0
  <2>1. count' = [count EXCEPT ![f] = 1] /\ bit' = [bit EXCEPT ![f] = f \in WritableByAll]
    BY <1>4 DEF OpenFile
  <2>2. bit' \in [Files -> BOOLEAN]
    BY <1>1, <2>1
  <2> QED
    BY <1>1, <1>2, <1>3, <1>4, <2>1, <2>2
<1>5. CASE opens[f] # 0
  <2>1. count' = count /\ bit' = bit
    BY <1>5 DEF OpenFile
  <2> QED
    BY <1>1, <1>2, <2>1
<1> QED
  BY <1>4, <1>5

LEMMA QueuesOpened ==
  ASSUME IInv, NEW f \in Files, OpenFile(f), waiting' = waiting, NEW p
  PROVE QueuesFine(p)
<1>1. count' \in [Files -> Nat] /\ \A g \in Files : waiting[g] # <<>> => count'[g] = count[g]
  BY Opened
<1> QED
  BY <1>1 DEF IInv, TypeOK, WaitersBehindLock, QueuesFine

\* A step of a process that does not wait leaves the waiters where they are.
LEMMA WaitersKept ==
  ASSUME WaitersBehindLock, NEW p \in Procs, ~Blocked(p), OneMoves(p), QueuesFine(p), waiting \in [Files -> Seq(Procs)]
  PROVE WaitersBehindLock'
<1> SUFFICES ASSUME NEW g \in Files, NEW q \in Range(waiting'[g])
             PROVE job'[q].file = g /\ at'[q] \in {"insert", "chmod"}
  BY DEF WaitersBehindLock, QueuesFine
<1>1. q \in Range(waiting[g]) \/ (q = p /\ job'[p].file = g /\ at'[p] \in {"insert", "chmod"})
  BY DEF QueuesFine
<1>2. CASE q \in Range(waiting[g])
  <2>1. q \in Procs
    BY <1>2 DEF Range
  <2>2. q # p
    BY <1>2 DEF Blocked
  <2> QED
    BY <1>2, <2>1, <2>2 DEF WaitersBehindLock, OneMoves
<1> QED
  BY <1>1, <1>2

----------------------------------------------------------------------------
(* The inductive invariant.                                                 *)

LEMMA Start == Init => IInv
<1> SUFFICES ASSUME Init PROVE IInv
  OBVIOUS
<1>1. TypeOK
  <2>1. (CHOOSE f \in Files : TRUE) \in Files
    BY OpenFilesAssumption
  <2>2. job \in [Procs -> Jobs]
    BY <2>1 DEF Init, Modes, Jobs
  <2>3. at \in [Procs -> Locations]
    BY DEF Init, Locations
  <2>4. bit \in [Files -> BOOLEAN]
    BY DEF Init
  <2>5. /\ opens \in [Files -> Nat] /\ count \in [Files -> Nat] /\ lost \in [Files -> Nat]
        /\ fds \in [Procs -> [Descriptors -> Nat]] /\ stale \subseteq Procs /\ crashed \in BOOLEAN
    BY DEF Init
  <2>6. waiting \in [Files -> Seq(Procs)]
    BY DEF Init
  <2> QED
    BY <2>2, <2>3, <2>4, <2>5, <2>6 DEF TypeOK
<1>2. CountInv
  <2> SUFFICES ASSUME NEW f \in Files PROVE opens[f] = FileObjects(f)
    BY DEF CountInv
  <2>1. InCalls(f) = {}
    BY DEF Init, InCalls
  <2>2. InTables(f) = {}
    <3> SUFFICES ASSUME NEW u \in InTables(f) PROVE FALSE
      OBVIOUS
    <3>1. OpenedBy(f) \in [Procs \X Modes -> Nat]
      BY <1>1, Finite
    <3>2. PICK x \in Procs \X Modes : \E i \in 1 .. OpenedBy(f)[x] : u = <<x, i>>
      BY <3>1, UnitIs DEF InTables
    <3>3. OpenedBy(f)[x] = 0
      BY DEF OpenedBy, Init, Descriptors
    <3> QED
      BY <3>2, <3>3
  <2>3. Cardinality(InCalls(f)) = 0 /\ Cardinality(InTables(f)) = 0
    BY <2>1, <2>2, FS_EmptySet
  <2> QED
    BY <2>3 DEF Init, FileObjects
<1>3. WaitersBehindLock
  BY DEF Init, WaitersBehindLock, Range, IsInjective
<1>4. AbsentInv
  BY DEF Init, AbsentInv
<1> QED
  BY <1>1, <1>2, <1>3, <1>4 DEF IInv

\* What remains to be shown of a step of p.
LEMMA Stepped ==
  ASSUME IInv, NEW p \in Procs, ~Blocked(p), OneMoves(p), QueuesFine(p),
         opens' \in [Files -> Nat], bit' \in [Files -> BOOLEAN], lost' \in [Files -> Nat],
         fds' \in [Procs -> [Descriptors -> Nat]], \A q \in Procs \ {p} : fds'[q] = fds[q],
         at' \in [Procs -> Locations],
         at'[p] = "absent" => \A d \in Descriptors : fds'[p][d] = 0,
         job' \in [Procs -> Jobs],
         stale' \subseteq Procs, crashed' \in BOOLEAN,
         \A f \in Files : opens'[f] = FileObjects(f)'
  PROVE IInv'
<1>1. TypeOK'
  BY DEF TypeOK, QueuesFine
<1>2. CountInv'
  BY DEF CountInv
<1>3. WaitersBehindLock'
  BY WaitersKept DEF IInv, TypeOK
<1>4. AbsentInv'
  BY DEF IInv, AbsentInv, OneMoves
<1> QED
  BY <1>1, <1>2, <1>3, <1>4 DEF IInv

\* Where p is when a step begins and where it goes.
LEMMA Went ==
  ASSUME TypeOK, NEW p \in Procs, NEW loc \in Locations, Goto(p, loc)
  PROVE /\ at' \in [Procs -> Locations] /\ at'[p] = loc
        /\ \A q \in Procs \ {p} : at'[q] = at[q]
BY DEF TypeOK, Goto

\* A step between places where p has no File object in its hands changes no count.
LEMMA HandsEmpty ==
  ASSUME IInv, NEW p \in Procs, OneMoves(p), at[p] \notin CallPlaces, at'[p] \notin CallPlaces,
         opens' = opens, fds' = fds, lost' = lost, NEW f \in Files
  PROVE opens'[f] = FileObjects(f)'
<1>1. p \notin InCalls(f) /\ p \notin InCalls(f)'
  BY DEF InCalls, CallPlaces
<1>2. Cardinality(InCalls(f))' = Cardinality(InCalls(f))
  BY <1>1, HandsChange DEF IInv
<1>3. Cardinality(InTables(f))' = Cardinality(InTables(f))
  BY TablesKept
<1> QED
  BY <1>2, <1>3 DEF IInv, CountInv, FileObjects

LEMMA StepQuiet ==
  ASSUME IInv, NEW p \in Procs,
         Exit(p) \/ ClosedAll(p) \/ Look(p) \/ Check(p) \/ IsBlocked(p) \/ Wake(p)
  PROVE IInv'
<1>1. TypeOK /\ WaitersBehindLock
  BY DEF IInv
<1>2. /\ ~Blocked(p) /\ at[p] \notin CallPlaces
      /\ opens' = opens /\ fds' = fds /\ lost' = lost /\ bit' = bit /\ job' = job
      /\ stale' = stale /\ crashed' = crashed
  BY DEF Exit, ClosedAll, Look, Check, IsBlocked, Wake, Ready, CallPlaces
<1>3. job[p].file \in Files /\ job[p].then \in {"run", "execv", "exit"}
  BY <1>1 DEF TypeOK, Jobs
<1>4. PICK loc \in {"exit", "run", "execv", "absent", "check", "blocked", "wake"} :
        Goto(p, loc) /\ (loc = "absent" => InUse(p) = 0)
  BY <1>3 DEF Exit, ClosedAll, Look, Check, IsBlocked, Wake
<1>5. loc \in Locations /\ loc \notin CallPlaces
  BY DEF Locations, CallPlaces
<1>6. /\ at' \in [Procs -> Locations] /\ at'[p] = loc
      /\ \A q \in Procs \ {p} : at'[q] = at[q]
  BY <1>1, <1>4, <1>5, Went
<1>7. OneMoves(p)
  BY <1>2, <1>6 DEF OneMoves
<1>8. QueuesFine(p)
  <2>1. UnlockWriter(job[p].file) \/ UNCHANGED <<count, waiting>>
    BY DEF Exit, ClosedAll, Look, Check, IsBlocked, Wake
  <2> QED
    BY <1>1, <1>3, <2>1, QueuesKept, QueuesUnlocked
<1>9. loc = "absent" => \A d \in Descriptors : fds[p][d] = 0
  <2> SUFFICES ASSUME loc = "absent" PROVE \A d \in Descriptors : fds[p][d] = 0
    OBVIOUS
  <2>1. Cardinality(Units(Descriptors, fds[p])) = 0
    BY <1>4 DEF InUse
  <2>2. fds[p] \in [Descriptors -> Nat]
    BY <1>1 DEF TypeOK, Jobs
  <2> QED
    BY <2>1, <2>2, DescriptorsFinite, NoUnits
<1>10. \A f \in Files : opens'[f] = FileObjects(f)'
  BY <1>2, <1>5, <1>6, <1>7, HandsEmpty
<1>11. /\ opens' \in [Files -> Nat] /\ bit' \in [Files -> BOOLEAN] /\ lost' \in [Files -> Nat]
       /\ fds' \in [Procs -> [Descriptors -> Nat]] /\ \A q \in Procs \ {p} : fds'[q] = fds[q]
       /\ job' \in [Procs -> Jobs]
       /\ stale' \subseteq Procs /\ crashed' \in BOOLEAN
  BY <1>1, <1>2 DEF TypeOK
<1>12. at'[p] = "absent" => \A d \in Descriptors : fds'[p][d] = 0
  BY <1>2, <1>6, <1>9
<1> QED
  BY <1>2, <1>6, <1>7, <1>8, <1>10, <1>11, <1>12, Stepped

LEMMA StepOpen ==
  ASSUME IInv, NEW p \in Procs, NEW f \in Files, NEW m \in Modes, Open(p, f, m)
  PROVE IInv'
<1>1. TypeOK /\ WaitersBehindLock
  BY DEF IInv
<1>2. /\ ~Blocked(p) /\ at[p] = "run" /\ OpenFile(f) /\ Goto(p, "permission")
      /\ job' = [job EXCEPT ![p] = [file |-> f, mode |-> m, bit |-> bit'[f], then |-> "run"]]
      /\ waiting' = waiting /\ fds' = fds /\ lost' = lost /\ stale' = stale /\ crashed' = crashed
  BY DEF Open, Ready
<1>3. /\ opens' \in [Files -> Nat] /\ bit' \in [Files -> BOOLEAN]
      /\ \A g \in Files : opens'[g] = opens[g] + IF g = f THEN 1 ELSE 0
  BY <1>2, Opened
<1>4. /\ at' \in [Procs -> Locations] /\ at'[p] = "permission"
      /\ \A q \in Procs \ {p} : at'[q] = at[q]
  <2>1. "permission" \in Locations
    BY DEF Locations
  <2> QED
    BY <1>1, <1>2, <2>1, Went
<1>5. /\ job' \in [Procs -> Jobs]
      /\ job'[p].file = f /\ \A q \in Procs \ {p} : job'[q] = job[q]
  BY <1>1, <1>2, <1>3 DEF TypeOK, Jobs
<1>6. OneMoves(p)
  BY <1>4, <1>5 DEF OneMoves
<1>7. QueuesFine(p)
  BY <1>2, QueuesOpened
<1>8. ASSUME NEW g \in Files PROVE opens'[g] = FileObjects(g)'
  <2>1. Cardinality(InTables(g))' = Cardinality(InTables(g))
    BY <1>2, TablesKept
  <2>2. p \notin InCalls(g) /\ (p \in InCalls(g)' <=> g = f)
    BY <1>2, <1>4, <1>5 DEF InCalls
  <2>3. Cardinality(InCalls(g))' = Cardinality(InCalls(g)) + IF g = f THEN 1 ELSE 0
    <3>1. Cardinality(InCalls(g)) \in Nat
      BY <1>1, Finite
    <3> QED
      BY <1>1, <1>6, <2>2, <3>1, HandsChange
  <2>4. Cardinality(InTables(g)) \in Nat /\ Cardinality(InCalls(g)) \in Nat /\ lost[g] \in Nat
    BY <1>1, Finite
  <2> QED
    BY <1>2, <1>3, <2>1, <2>3, <2>4 DEF IInv, CountInv, FileObjects
<1>9. /\ lost' \in [Files -> Nat]
      /\ fds' \in [Procs -> [Descriptors -> Nat]] /\ \A q \in Procs \ {p} : fds'[q] = fds[q]
      /\ stale' \subseteq Procs /\ crashed' \in BOOLEAN /\ at'[p] # "absent"
  BY <1>1, <1>2, <1>4 DEF TypeOK
<1> QED
  BY <1>2, <1>3, <1>4, <1>5, <1>6, <1>7, <1>8, <1>9, Stepped

\* setPermissions and chmod lock the writer mutex with their File object in hand.
LEMMA StepLock ==
  ASSUME IInv, NEW p \in Procs, SetPermissions(p) \/ ChmodLock(p)
  PROVE IInv'
<1>1. TypeOK /\ WaitersBehindLock
  BY DEF IInv
<1>2. /\ ~Blocked(p) /\ at[p] \in CallPlaces
      /\ opens' = opens /\ bit' = bit /\ fds' = fds /\ lost' = lost /\ job' = job
      /\ stale' = stale /\ crashed' = crashed
  BY DEF SetPermissions, ChmodLock, Ready, CallPlaces
<1>3. PICK loc \in {"insert", "unref", "chmod"} :
        /\ Goto(p, loc)
        /\ UNCHANGED <<count, waiting>> \/ (loc # "unref" /\ LockWriter(p, job[p].file))
  BY DEF SetPermissions, ChmodLock
<1>4. loc \in Locations /\ loc \in CallPlaces /\ loc # "absent"
  BY DEF Locations, CallPlaces
<1>5. /\ at' \in [Procs -> Locations] /\ at'[p] = loc
      /\ \A q \in Procs \ {p} : at'[q] = at[q]
  BY <1>1, <1>3, <1>4, Went
<1>6. OneMoves(p)
  BY <1>2, <1>5 DEF OneMoves
<1>7. QueuesFine(p)
  <2>1. job[p].file \in Files
    BY <1>1 DEF TypeOK, Jobs
  <2> QED
    BY <1>1, <1>2, <1>3, <1>5, <2>1, QueuesKept, QueuesLocked
<1>8. ASSUME NEW f \in Files PROVE opens'[f] = FileObjects(f)'
  <2>1. Cardinality(InTables(f))' = Cardinality(InTables(f))
    BY <1>2, TablesKept
  <2>2. p \in InCalls(f) <=> p \in InCalls(f)'
    BY <1>2, <1>4, <1>5 DEF InCalls, CallPlaces
  <2>3. Cardinality(InCalls(f))' = Cardinality(InCalls(f))
    BY <1>1, <1>6, <2>2, HandsChange
  <2> QED
    BY <1>2, <2>1, <2>3 DEF IInv, CountInv, FileObjects
<1>9. /\ opens' \in [Files -> Nat] /\ bit' \in [Files -> BOOLEAN] /\ lost' \in [Files -> Nat]
      /\ fds' \in [Procs -> [Descriptors -> Nat]] /\ \A q \in Procs \ {p} : fds'[q] = fds[q]
      /\ job' \in [Procs -> Jobs]
      /\ stale' \subseteq Procs /\ crashed' \in BOOLEAN
  BY <1>1, <1>2 DEF TypeOK
<1> QED
  BY <1>2, <1>4, <1>5, <1>6, <1>7, <1>8, <1>9, Stepped

\* Table::open keeps the File object in the table or loses it.
LEMMA StepInsert ==
  ASSUME IInv, NEW p \in Procs, Insert(p)
  PROVE IInv'
<1> DEFINE f == job[p].file
           m == job[p].mode
<1>1. TypeOK /\ WaitersBehindLock
  BY DEF IInv
<1>2. /\ ~Blocked(p) /\ at[p] = "insert" /\ Goto(p, "run")
      /\ opens' = opens /\ bit' = bit /\ job' = job /\ stale' = stale /\ crashed' = crashed
      /\ UNCHANGED <<count, waiting>>
  BY DEF Insert, Ready
<1>3. \/ fds' = [fds EXCEPT ![p][<<f, m>>] = @ + 1] /\ lost' = lost
      \/ lost' = [lost EXCEPT ![f] = @ + 1] /\ fds' = fds
  BY DEF Insert
<1>4. f \in Files /\ m \in Modes
  BY <1>1 DEF TypeOK, Jobs
<1>5. /\ at' \in [Procs -> Locations] /\ at'[p] = "run"
      /\ \A q \in Procs \ {p} : at'[q] = at[q]
  <2>1. "run" \in Locations
    BY DEF Locations
  <2> QED
    BY <1>1, <1>2, <2>1, Went
<1>6. OneMoves(p)
  BY <1>2, <1>5 DEF OneMoves
<1>7. QueuesFine(p)
  BY <1>1, <1>2, QueuesKept
<1>8. ASSUME NEW g \in Files
      PROVE /\ Cardinality(InCalls(g)) \in Nat /\ Cardinality(InTables(g)) \in Nat /\ lost[g] \in Nat
            /\ g = f => Cardinality(InCalls(g))' = Cardinality(InCalls(g)) - 1
            /\ g # f => Cardinality(InCalls(g))' = Cardinality(InCalls(g))
            /\ opens'[g] = Cardinality(InTables(g)) + Cardinality(InCalls(g)) + lost[g]
  <2>1. p \notin InCalls(g)' /\ (p \in InCalls(g) <=> g = f)
    BY <1>2, <1>5 DEF InCalls
  <2>2. /\ Cardinality(InCalls(g)) \in Nat /\ Cardinality(InTables(g)) \in Nat /\ lost[g] \in Nat
    BY <1>1, Finite
  <2>3. opens'[g] = Cardinality(InTables(g)) + Cardinality(InCalls(g)) + lost[g]
    BY <1>2 DEF IInv, CountInv, FileObjects
  <2> QED
    BY <1>1, <1>6, <2>1, <2>2, <2>3, HandsChange
<1> HIDE DEF f, m
<1>9. CASE fds' = [fds EXCEPT ![p][<<f, m>>] = @ + 1] /\ lost' = lost
  <2>1. /\ fds' \in [Procs -> [Descriptors -> Nat]]
        /\ \A q \in Procs \ {p} : fds'[q] = fds[q]
        /\ \A g \in Files : Cardinality(InTables(g))' = Cardinality(InTables(g)) + IF g = f THEN 1 ELSE 0
    BY <1>1, <1>4, <1>9, TableOpened
  <2>2. \A g \in Files : opens'[g] = FileObjects(g)'
    BY <1>8, <1>9, <2>1 DEF FileObjects
  <2>3. /\ opens' \in [Files -> Nat] /\ bit' \in [Files -> BOOLEAN] /\ lost' \in [Files -> Nat]
        /\ job' \in [Procs -> Jobs]
        /\ stale' \subseteq Procs /\ crashed' \in BOOLEAN /\ at'[p] # "absent"
    BY <1>1, <1>2, <1>5, <1>9 DEF TypeOK
  <2> QED
    BY <1>2, <1>5, <1>6, <1>7, <2>1, <2>2, <2>3, Stepped
<1>10. CASE lost' = [lost EXCEPT ![f] = @ + 1] /\ fds' = fds
  <2>1. \A g \in Files : lost'[g] = lost[g] + IF g = f THEN 1 ELSE 0
    BY <1>1, <1>8, <1>10 DEF TypeOK
  <2>2. \A g \in Files : Cardinality(InTables(g))' = Cardinality(InTables(g))
    BY <1>10, TablesKept
  <2>3. \A g \in Files : opens'[g] = FileObjects(g)'
    BY <1>8, <2>1, <2>2 DEF FileObjects
  <2>4. /\ opens' \in [Files -> Nat] /\ bit' \in [Files -> BOOLEAN] /\ lost' \in [Files -> Nat]
        /\ fds' \in [Procs -> [Descriptors -> Nat]] /\ \A q \in Procs \ {p} : fds'[q] = fds[q]
        /\ job' \in [Procs -> Jobs]
        /\ stale' \subseteq Procs /\ crashed' \in BOOLEAN /\ at'[p] # "absent"
    BY <1>1, <1>2, <1>4, <1>5, <1>10 DEF TypeOK
  <2> QED
    BY <1>2, <1>5, <1>6, <1>7, <2>3, <2>4, Stepped
<1> QED
  BY <1>3, <1>9, <1>10 DEF f, m

\* Table::close hands the File object to closeFile().
LEMMA StepClose ==
  ASSUME IInv, NEW p \in Procs, NEW f \in Files, NEW m \in Modes, Close(p, f, m)
  PROVE IInv'
<1>1. TypeOK /\ WaitersBehindLock
  BY DEF IInv
<1>2. /\ ~Blocked(p) /\ at[p] \in {"run", "execv", "exit"} /\ Goto(p, "unref")
      /\ job' = [job EXCEPT ![p].file = f, ![p].then = at[p]]
      /\ fds[p][<<f, m>>] > 0 /\ fds' = [fds EXCEPT ![p][<<f, m>>] = @ - 1]
      /\ opens' = opens /\ bit' = bit /\ lost' = lost /\ stale' = stale /\ crashed' = crashed
      /\ UNCHANGED <<count, waiting>>
  BY DEF Close, Ready
<1>3. /\ at' \in [Procs -> Locations] /\ at'[p] = "unref"
      /\ \A q \in Procs \ {p} : at'[q] = at[q]
  <2>1. "unref" \in Locations
    BY DEF Locations
  <2> QED
    BY <1>1, <1>2, <2>1, Went
<1>4. /\ job' \in [Procs -> Jobs]
      /\ job'[p].file = f /\ \A q \in Procs \ {p} : job'[q] = job[q]
  BY <1>1, <1>2 DEF TypeOK, Jobs
<1>5. OneMoves(p)
  BY <1>3, <1>4 DEF OneMoves
<1>6. QueuesFine(p)
  BY <1>1, <1>2, QueuesKept
<1>7. /\ fds' \in [Procs -> [Descriptors -> Nat]]
      /\ \A q \in Procs \ {p} : fds'[q] = fds[q]
      /\ \A g \in Files : Cardinality(InTables(g))' = Cardinality(InTables(g)) - IF g = f THEN 1 ELSE 0
  BY <1>1, <1>2, TableClosed
<1>8. ASSUME NEW g \in Files PROVE opens'[g] = FileObjects(g)'
  <2>1. p \notin InCalls(g) /\ (p \in InCalls(g)' <=> g = f)
    BY <1>2, <1>3, <1>4 DEF InCalls
  <2>2. /\ g = f => Cardinality(InCalls(g))' = Cardinality(InCalls(g)) + 1
        /\ g # f => Cardinality(InCalls(g))' = Cardinality(InCalls(g))
    BY <1>1, <1>5, <2>1, HandsChange
  <2>3. Cardinality(InTables(g)) \in Nat /\ Cardinality(InCalls(g)) \in Nat /\ lost[g] \in Nat
    BY <1>1, Finite
  <2> QED
    BY <1>2, <1>7, <2>2, <2>3 DEF IInv, CountInv, FileObjects
<1>9. /\ opens' \in [Files -> Nat] /\ bit' \in [Files -> BOOLEAN] /\ lost' \in [Files -> Nat]
      /\ stale' \subseteq Procs /\ crashed' \in BOOLEAN /\ at'[p] # "absent"
  BY <1>1, <1>2, <1>3 DEF TypeOK
<1> QED
  BY <1>2, <1>3, <1>4, <1>5, <1>6, <1>7, <1>8, <1>9, Stepped

\* closeFile() drops the reference that the File object in hand has.
LEMMA StepUnref ==
  ASSUME IInv, NEW p \in Procs, Unref(p)
  PROVE IInv'
<1> DEFINE f == job[p].file
<1>1. TypeOK /\ WaitersBehindLock
  BY DEF IInv
<1>2. /\ ~Blocked(p) /\ at[p] = "unref" /\ Goto(p, "look") /\ opens' = [opens EXCEPT ![f] = @ - 1]
      /\ bit' = bit /\ job' = job /\ fds' = fds /\ lost' = lost /\ crashed' = crashed
      /\ UNCHANGED <<count, waiting>>
  BY DEF Unref, Ready
<1>3. f \in Files
  BY <1>1 DEF TypeOK, Jobs
<1>4. /\ at' \in [Procs -> Locations] /\ at'[p] = "look"
      /\ \A q \in Procs \ {p} : at'[q] = at[q]
  <2>1. "look" \in Locations
    BY DEF Locations
  <2> QED
    BY <1>1, <1>2, <2>1, Went
<1>5. OneMoves(p)
  BY <1>2, <1>4 DEF OneMoves
<1>6. QueuesFine(p)
  BY <1>1, <1>2, QueuesKept
<1>7. ASSUME NEW g \in Files
      PROVE /\ Cardinality(InTables(g))' = Cardinality(InTables(g))
            /\ g = f => Cardinality(InCalls(g))' = Cardinality(InCalls(g)) - 1 /\ Cardinality(InCalls(g)) # 0
            /\ g # f => Cardinality(InCalls(g))' = Cardinality(InCalls(g))
  <2>1. p \notin InCalls(g)' /\ (p \in InCalls(g) <=> g = f)
    BY <1>2, <1>4 DEF InCalls
  <2>2. Cardinality(InTables(g))' = Cardinality(InTables(g))
    BY <1>2, TablesKept
  <2>3. IsFiniteSet(InCalls(g))
    BY <1>1, Finite
  <2>4. g = f => Cardinality(InCalls(g)) # 0
    BY <2>1, <2>3, FS_EmptySet
  <2> QED
    BY <1>1, <1>5, <2>1, <2>2, <2>4, HandsChange
<1>8. ASSUME NEW g \in Files
      PROVE /\ Cardinality(InTables(g)) \in Nat /\ Cardinality(InCalls(g)) \in Nat /\ lost[g] \in Nat
            /\ opens[g] = Cardinality(InTables(g)) + Cardinality(InCalls(g)) + lost[g]
            /\ opens'[g] = opens[g] - IF g = f THEN 1 ELSE 0
  <2>1. Cardinality(InTables(g)) \in Nat /\ Cardinality(InCalls(g)) \in Nat /\ lost[g] \in Nat
    BY <1>1, Finite
  <2>2. opens[g] = Cardinality(InTables(g)) + Cardinality(InCalls(g)) + lost[g]
    BY DEF IInv, CountInv, FileObjects
  <2>3. opens'[g] = opens[g] - IF g = f THEN 1 ELSE 0
    BY <1>1, <1>2 DEF TypeOK
  <2> QED
    BY <2>1, <2>2, <2>3
<1> HIDE DEF f
<1>9. \A g \in Files : opens'[g] = FileObjects(g)'
  BY <1>2, <1>7, <1>8 DEF FileObjects
<1>10. opens' \in [Files -> Nat]
  <2>1. opens \in [Files -> Nat]
    BY <1>1 DEF TypeOK, Jobs
  <2>2. ASSUME NEW g \in Files PROVE opens'[g] \in Nat
    <3>1. opens[g] \in Nat
      BY <2>1
    <3>2. g = f => opens[g] # 0
      BY <1>7, <1>8
    <3>3. opens'[g] = opens[g] - IF g = f THEN 1 ELSE 0
      BY <1>8
    <3> QED
      BY <3>1, <3>2, <3>3
  <2> QED
    BY <1>2, <2>1, <2>2
<1>11. stale' \subseteq Procs
  BY <1>1 DEF TypeOK, Unref
<1>12. /\ bit' \in [Files -> BOOLEAN] /\ lost' \in [Files -> Nat]
       /\ fds' \in [Procs -> [Descriptors -> Nat]] /\ \A q \in Procs \ {p} : fds'[q] = fds[q]
       /\ job' \in [Procs -> Jobs]
       /\ crashed' \in BOOLEAN /\ at'[p] # "absent"
  BY <1>1, <1>2, <1>4 DEF TypeOK
<1> QED
  BY <1>2, <1>4, <1>5, <1>6, <1>9, <1>10, <1>11, <1>12, Stepped

\* fork moves the child: it was absent, with an empty table.
LEMMA StepFork ==
  ASSUME IInv, NEW p \in Procs, NEW c \in Procs, Fork(p, c)
  PROVE IInv'
<1>1. TypeOK /\ WaitersBehindLock
  BY DEF IInv
<1>2. /\ at[p] = "run" /\ at[c] = "absent" /\ at' = [at EXCEPT ![c] = "run"] /\ fds' = [fds EXCEPT ![c] = fds[p]]
      /\ opens' = [f \in Files |-> opens[f] + fds[p][<<f, "read">>] + fds[p][<<f, "write">>]]
      /\ bit' = bit /\ lost' = lost /\ job' = job /\ stale' = stale /\ crashed' = crashed
      /\ UNCHANGED <<count, waiting>>
  BY DEF Fork, Ready
<1>3. p # c /\ ~Blocked(c)
  BY <1>1, <1>2 DEF WaitersBehindLock, Blocked
<1>4. /\ at' \in [Procs -> Locations] /\ at'[c] = "run"
      /\ \A q \in Procs \ {c} : at'[q] = at[q]
  BY <1>1, <1>2 DEF TypeOK, Locations
<1>5. OneMoves(c)
  BY <1>2, <1>4 DEF OneMoves
<1>6. QueuesFine(c)
  BY <1>1, <1>2, QueuesKept
<1>7. \A d \in Descriptors : fds[c][d] = 0
  BY <1>2 DEF IInv, AbsentInv
<1>8. ASSUME NEW f \in Files PROVE opens'[f] = FileObjects(f)' /\ opens'[f] \in Nat
  <2>1. Cardinality(InTables(f))' = Cardinality(InTables(f)) + fds[p][<<f, "read">>] + fds[p][<<f, "write">>]
    BY <1>1, <1>2, <1>3, <1>7, TableCopied
  <2>2. c \notin InCalls(f) /\ c \notin InCalls(f)'
    BY <1>2, <1>4 DEF InCalls
  <2>3. Cardinality(InCalls(f))' = Cardinality(InCalls(f))
    BY <1>1, <1>5, <2>2, HandsChange
  <2>4. /\ Cardinality(InTables(f)) \in Nat /\ Cardinality(InCalls(f)) \in Nat
        /\ opens[f] \in Nat /\ lost[f] \in Nat
    BY <1>1, Finite
  <2>5. fds[p][<<f, "read">>] \in Nat /\ fds[p][<<f, "write">>] \in Nat
    BY <1>1 DEF TypeOK, Descriptors, Modes
  <2>6. opens[f] = Cardinality(InTables(f)) + Cardinality(InCalls(f)) + lost[f]
    BY DEF IInv, CountInv, FileObjects
  <2>7. opens'[f] = opens[f] + fds[p][<<f, "read">>] + fds[p][<<f, "write">>]
    BY <1>2
  <2> QED
    BY <1>2, <2>1, <2>3, <2>4, <2>5, <2>6, <2>7 DEF FileObjects
<1>9. opens' \in [Files -> Nat]
  BY <1>2, <1>8
<1>10. /\ bit' \in [Files -> BOOLEAN] /\ lost' \in [Files -> Nat]
       /\ fds' \in [Procs -> [Descriptors -> Nat]] /\ \A q \in Procs \ {c} : fds'[q] = fds[q]
       /\ job' \in [Procs -> Jobs]
       /\ stale' \subseteq Procs /\ crashed' \in BOOLEAN /\ at'[c] # "absent"
  BY <1>1, <1>2, <1>4 DEF TypeOK
<1> QED
  BY <1>3, <1>4, <1>5, <1>6, <1>8, <1>9, <1>10, Stepped

\* chmod and execv look the file up; execv at once loses the first File object.
LEMMA StepLookup ==
  ASSUME IInv, NEW p \in Procs, NEW f \in Files, (\E b \in BOOLEAN : Chmod(p, f, b)) \/ Execv(p, f)
  PROVE IInv'
<1>1. TypeOK /\ WaitersBehindLock
  BY DEF IInv
<1>2. /\ ~Blocked(p) /\ at[p] = "run" /\ OpenFile(f) /\ waiting' = waiting
      /\ fds' = fds /\ stale' = stale /\ crashed' = crashed
  BY DEF Chmod, Execv, Ready
<1>3. /\ opens' \in [Files -> Nat] /\ bit' \in [Files -> BOOLEAN]
      /\ \A g \in Files : opens'[g] = opens[g] + IF g = f THEN 1 ELSE 0
  BY <1>2, Opened
<1>4. /\ job' \in [Procs -> Jobs]
      /\ job'[p].file = f /\ \A q \in Procs \ {p} : job'[q] = job[q]
  <2>1. job \in [Procs -> Jobs]
    BY <1>1 DEF TypeOK, Jobs
  <2>2. CASE \E b \in BOOLEAN : Chmod(p, f, b)
    <3>1. PICK b \in BOOLEAN : job' = [job EXCEPT ![p] = [file |-> f, mode |-> "write", bit |-> b, then |-> "run"]]
      BY <2>2 DEF Chmod
    <3> QED
      BY <2>1, <3>1 DEF Modes, Jobs
  <2>3. CASE Execv(p, f)
    <3>1. job' = [job EXCEPT ![p].file = f, ![p].then = "run"]
      BY <2>3 DEF Execv
    <3> QED
      BY <1>1, <3>1 DEF TypeOK, Jobs
  <2> QED
    BY <2>2, <2>3
<1>5. PICK loc \in {"chmodLock", "unref", "execvLookup"} :
        /\ Goto(p, loc)
        /\ lost' = IF loc = "execvLookup" THEN [lost EXCEPT ![f] = @ + 1] ELSE lost
  BY DEF Chmod, Execv
<1>6. loc \in Locations /\ loc # "absent" /\ (loc \in CallPlaces <=> loc # "execvLookup")
  BY DEF Locations, CallPlaces
<1>7. /\ at' \in [Procs -> Locations] /\ at'[p] = loc
      /\ \A q \in Procs \ {p} : at'[q] = at[q]
  BY <1>1, <1>5, <1>6, Went
<1>8. OneMoves(p)
  BY <1>4, <1>7 DEF OneMoves
<1>9. QueuesFine(p)
  BY <1>2, QueuesOpened
<1>10. lost' \in [Files -> Nat] /\ \A g \in Files : lost'[g] = lost[g] + IF loc = "execvLookup" /\ g = f THEN 1 ELSE 0
  <2>1. lost \in [Files -> Nat]
    BY <1>1 DEF TypeOK, Jobs
  <2>2. CASE loc = "execvLookup"
    BY <1>5, <2>1, <2>2
  <2>3. CASE loc # "execvLookup"
    BY <1>5, <2>1, <2>3
  <2> QED
    BY <2>2, <2>3
<1>11. ASSUME NEW g \in Files PROVE opens'[g] = FileObjects(g)'
  <2>1. Cardinality(InTables(g))' = Cardinality(InTables(g))
    BY <1>2, TablesKept
  <2>2. p \notin InCalls(g) /\ (p \in InCalls(g)' <=> g = f /\ loc # "execvLookup")
    BY <1>2, <1>4, <1>6, <1>7 DEF InCalls, CallPlaces
  <2>3. Cardinality(InTables(g)) \in Nat /\ Cardinality(InCalls(g)) \in Nat /\ lost[g] \in Nat
    BY <1>1, Finite
  <2>4. Cardinality(InCalls(g))' = Cardinality(InCalls(g)) + IF g = f /\ loc # "execvLookup" THEN 1 ELSE 0
    BY <1>1, <1>8, <2>2, <2>3, HandsChange
  <2>5. opens[g] = Cardinality(InTables(g)) + Cardinality(InCalls(g)) + lost[g]
    BY DEF IInv, CountInv, FileObjects
  <2> QED
    BY <1>3, <1>10, <2>1, <2>3, <2>4, <2>5 DEF FileObjects
<1>12. /\ fds' \in [Procs -> [Descriptors -> Nat]] /\ \A q \in Procs \ {p} : fds'[q] = fds[q]
       /\ stale' \subseteq Procs /\ crashed' \in BOOLEAN /\ at'[p] # "absent"
  BY <1>1, <1>2, <1>6, <1>7 DEF TypeOK
<1> QED
  BY <1>2, <1>3, <1>4, <1>7, <1>8, <1>9, <1>10, <1>11, <1>12, Stepped

\* The second lookup of execv: one more File object, and one more lost.
LEMMA StepExecvLookup ==
  ASSUME IInv, NEW p \in Procs, ExecvLookup(p)
  PROVE IInv'
<1> DEFINE f == job[p].file
<1>1. TypeOK /\ WaitersBehindLock
  BY DEF IInv
<1>2. /\ ~Blocked(p) /\ at[p] = "execvLookup" /\ Goto(p, "execv")
      /\ opens' = [opens EXCEPT ![f] = @ + 1] /\ lost' = [lost EXCEPT ![f] = @ + 1]
      /\ bit' = bit /\ job' = job /\ fds' = fds /\ stale' = stale /\ crashed' = crashed
      /\ UNCHANGED <<count, waiting>>
  BY DEF ExecvLookup, Ready
<1>3. f \in Files
  BY <1>1 DEF TypeOK, Jobs
<1>4. /\ at' \in [Procs -> Locations] /\ at'[p] = "execv"
      /\ \A q \in Procs \ {p} : at'[q] = at[q]
  <2>1. "execv" \in Locations
    BY DEF Locations
  <2> QED
    BY <1>1, <1>2, <2>1, Went
<1>5. OneMoves(p)
  BY <1>2, <1>4 DEF OneMoves
<1>6. QueuesFine(p)
  BY <1>1, <1>2, QueuesKept
<1> HIDE DEF f
<1>7. /\ opens' \in [Files -> Nat] /\ lost' \in [Files -> Nat]
      /\ \A g \in Files : /\ opens'[g] = opens[g] + IF g = f THEN 1 ELSE 0
                          /\ lost'[g] = lost[g] + IF g = f THEN 1 ELSE 0
  BY <1>1, <1>2, <1>3 DEF TypeOK
<1>8. ASSUME NEW g \in Files PROVE opens'[g] = FileObjects(g)'
  <2>1. Cardinality(InTables(g))' = Cardinality(InTables(g))
    BY <1>2, TablesKept
  <2>2. p \notin InCalls(g) /\ p \notin InCalls(g)'
    BY <1>2, <1>4 DEF InCalls
  <2>3. Cardinality(InCalls(g))' = Cardinality(InCalls(g))
    BY <1>1, <1>5, <2>2, HandsChange
  <2>4. Cardinality(InTables(g)) \in Nat /\ Cardinality(InCalls(g)) \in Nat /\ lost[g] \in Nat
    BY <1>1, Finite
  <2>5. opens[g] = Cardinality(InTables(g)) + Cardinality(InCalls(g)) + lost[g]
    BY DEF IInv, CountInv, FileObjects
  <2> QED
    BY <1>7, <2>1, <2>3, <2>4, <2>5 DEF FileObjects
<1>9. /\ bit' \in [Files -> BOOLEAN] /\ fds' \in [Procs -> [Descriptors -> Nat]]
      /\ \A q \in Procs \ {p} : fds'[q] = fds[q]
      /\ job' \in [Procs -> Jobs]
      /\ stale' \subseteq Procs /\ crashed' \in BOOLEAN /\ at'[p] # "absent"
  BY <1>1, <1>2, <1>4 DEF TypeOK
<1> QED
  BY <1>2, <1>4, <1>5, <1>6, <1>7, <1>8, <1>9, Stepped

\* The end of chmod: the File object in hand is lost.
LEMMA StepChmodSet ==
  ASSUME IInv, NEW p \in Procs, ChmodSet(p)
  PROVE IInv'
<1> DEFINE f == job[p].file
<1>1. TypeOK /\ WaitersBehindLock
  BY DEF IInv
<1>2. /\ ~Blocked(p) /\ at[p] = "chmod" /\ Goto(p, "run") /\ UnlockWriter(f)
      /\ lost' = [lost EXCEPT ![f] = @ + 1] /\ bit' = [bit EXCEPT ![f] = job[p].bit]
      /\ opens' = opens /\ job' = job /\ fds' = fds /\ stale' = stale /\ crashed' = crashed
  BY DEF ChmodSet, Ready
<1>3. f \in Files /\ bit' \in [Files -> BOOLEAN]
  BY <1>1, <1>2 DEF TypeOK, Jobs
<1>4. /\ at' \in [Procs -> Locations] /\ at'[p] = "run"
      /\ \A q \in Procs \ {p} : at'[q] = at[q]
  <2>1. "run" \in Locations
    BY DEF Locations
  <2> QED
    BY <1>1, <1>2, <2>1, Went
<1>5. OneMoves(p)
  BY <1>2, <1>4 DEF OneMoves
<1>6. QueuesFine(p)
  BY <1>1, <1>2, <1>3, QueuesUnlocked
<1>7. \A g \in Files : p \notin InCalls(g)' /\ (p \in InCalls(g) <=> g = f)
  BY <1>2, <1>4 DEF InCalls
<1> HIDE DEF f
<1>8. lost' \in [Files -> Nat] /\ \A g \in Files : lost'[g] = lost[g] + IF g = f THEN 1 ELSE 0
  BY <1>1, <1>2, <1>3 DEF TypeOK
<1>9. ASSUME NEW g \in Files PROVE opens'[g] = FileObjects(g)'
  <2>1. Cardinality(InTables(g))' = Cardinality(InTables(g))
    BY <1>2, TablesKept
  <2>2. Cardinality(InTables(g)) \in Nat /\ Cardinality(InCalls(g)) \in Nat /\ lost[g] \in Nat
    BY <1>1, Finite
  <2>3. Cardinality(InCalls(g))' = Cardinality(InCalls(g)) - IF g = f THEN 1 ELSE 0
    BY <1>1, <1>5, <1>7, <2>2, HandsChange
  <2>4. opens[g] = Cardinality(InTables(g)) + Cardinality(InCalls(g)) + lost[g]
    BY DEF IInv, CountInv, FileObjects
  <2> QED
    BY <1>2, <1>8, <2>1, <2>2, <2>3, <2>4 DEF FileObjects
<1>10. /\ opens' \in [Files -> Nat] /\ fds' \in [Procs -> [Descriptors -> Nat]]
       /\ \A q \in Procs \ {p} : fds'[q] = fds[q]
       /\ job' \in [Procs -> Jobs]
       /\ stale' \subseteq Procs /\ crashed' \in BOOLEAN /\ at'[p] # "absent"
  BY <1>1, <1>2, <1>4 DEF TypeOK
<1> QED
  BY <1>2, <1>3, <1>4, <1>5, <1>6, <1>8, <1>9, <1>10, Stepped

LEMMA Unmoved ==
  ASSUME IInv, UNCHANGED <<opens, count, waiting, bit, fds, lost, at, job, stale>>, crashed' \in BOOLEAN
  PROVE IInv'
<1>1. TypeOK' /\ WaitersBehindLock' /\ AbsentInv'
  BY DEF IInv, TypeOK, WaitersBehindLock, AbsentInv
<1>2. CountInv'
  BY DEF IInv, CountInv, FileObjects, InTables, OpenedBy, InCalls
<1> QED
  BY <1>1, <1>2 DEF IInv

LEMMA Step == IInv /\ [Next]_vars => IInv'
<1> SUFFICES ASSUME IInv, [Next]_vars PROVE IInv'
  OBVIOUS
<1>1. CASE UNCHANGED vars
  <2>1. crashed \in BOOLEAN
    BY DEF IInv, TypeOK
  <2> QED
    BY <1>1, <2>1, Unmoved DEF vars
<1>2. CASE Next
  <2>1. PICK p \in Procs :
          \/ \E f \in Files, m \in Modes : Open(p, f, m) \/ Close(p, f, m)
          \/ \E f \in Files, b \in BOOLEAN : Chmod(p, f, b)
          \/ \E f \in Files : Execv(p, f)
          \/ \E c \in Procs : Fork(p, c)
          \/ Exit(p)
          \/ Continue(p)
    BY <1>2 DEF Next
  <2>2. CASE \E f \in Files, m \in Modes : Open(p, f, m) \/ Close(p, f, m)
    BY <2>2, StepOpen, StepClose
  <2>3. CASE (\E f \in Files, b \in BOOLEAN : Chmod(p, f, b)) \/ (\E f \in Files : Execv(p, f))
    BY <2>3, StepLookup
  <2>4. CASE \E c \in Procs : Fork(p, c)
    BY <2>4, StepFork
  <2>5. CASE Exit(p)
    BY <2>5, StepQuiet
  <2>6. CASE Continue(p)
    <3>1. CASE UseDeleted(p)
      BY <3>1, Unmoved DEF UseDeleted
    <3>2. CASE ~UseDeleted(p)
      BY <2>6, <3>2, StepLock, StepInsert, StepUnref, StepQuiet, StepExecvLookup, StepChmodSet DEF Continue
    <3> QED
      BY <3>1, <3>2
  <2> QED
    BY <2>1, <2>2, <2>3, <2>4, <2>5, <2>6
<1> QED
  BY <1>1, <1>2

LEMMA Always == Spec => []IInv
<1>1. IInv /\ [Next]_vars => IInv'
  BY Step
<1> QED
  BY <1>1, Start, PTL DEF Spec

----------------------------------------------------------------------------
(* The theorems.                                                            *)

\* The variables keep their types: in particular a reference count never goes below
\* zero in closeFile() (fs.cc:378-390), nor a slot count in Table::close.
THEOREM TypeCorrect == Spec => []TypeOK
<1>1. IInv => TypeOK
  BY DEF IInv
<1> QED
  BY <1>1, Always, PTL

\* Whatever processes do, and after execv and chmod have lost File objects, an OpenFile
\* counts the File objects on it, and is not deleted while a process waits for its
\* writer mutex (fs.cc:366-390).
THEOREM CountsItsObjects == Spec => []CountsFileObjects
<1>1. IInv => CountsFileObjects
  <2> SUFFICES ASSUME IInv, NEW f \in Files
               PROVE opens[f] = FileObjects(f) /\ Len(waiting[f]) <= opens[f]
    BY DEF CountsFileObjects
  <2>1. opens[f] = FileObjects(f)
    BY DEF IInv, CountInv
  <2>2. Len(waiting[f]) \in Nat /\ Len(waiting[f]) <= Cardinality(InCalls(f))
    BY WaitersCounted DEF IInv
  <2>3. Cardinality(InTables(f)) \in Nat /\ Cardinality(InCalls(f)) \in Nat /\ lost[f] \in Nat
    BY Finite DEF IInv
  <2> QED
    BY <2>1, <2>2, <2>3 DEF FileObjects
<1> QED
  BY <1>1, Always, PTL

\* Whoever waits for a writer mutex waits behind a locked one, once, and in front of
\* setPermissions or chmod (semaphore.cc, fs.cc): no unlock passes it by.
THEOREM WaitsBehindLock == Spec => []WaitersBehindLock
<1>1. IInv => WaitersBehindLock
  BY DEF IInv
<1> QED
  BY <1>1, Always, PTL
=============================================================================
