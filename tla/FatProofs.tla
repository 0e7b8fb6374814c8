----------------------------- MODULE FatProofs -----------------------------
(***************************************************************************)
(* Theorems about the blocks of a Fat439 disk, for any size of the disk and *)
(* of its blocks, any image and any names. The types hold whatever the     *)
(* processes do. The rest is for the one kind of use that the allocator of  *)
(* fs.cc is right for (OneWriter): one process, which writes in the last   *)
(* block of its files, on a machine that restarts only before it allocates. *)
(***************************************************************************)
EXTENDS Fat, WellFoundedInduction, TLAPS

----------------------------------------------------------------------------
(* Numbers.                                                                *)

\* A set of numbers that is not empty has a least element.
LEMMA LeastExists ==
  ASSUME NEW T \in SUBSET Nat, T # {}
  PROVE  \E m \in T : \A k \in T : m <= k
<1>1. PICK m \in T : \A k \in T : ~ <<k, m>> \in OpToRel(<, Nat)
  BY NatLessThanWellFounded, WFMin
<1>2. \A k \in T : <<k, m>> \in Nat \X Nat
  OBVIOUS
<1>3. \A k \in T : ~ (k < m)
  BY <1>1, <1>2 DEF OpToRel
<1> QED
  BY <1>3

\* Induction up to N.
LEMMA Upward ==
  ASSUME NEW N \in Nat, NEW P, 0 \in P, \A k \in 1 .. N : k - 1 \in P => k \in P
  PROVE 0 .. N \subseteq P
<1> DEFINE T == (0 .. N) \ P
<1> SUFFICES ASSUME T # {} PROVE FALSE
  OBVIOUS
<1>0. T \in SUBSET Nat
  OBVIOUS
<1> HIDE DEF T
<1>1. PICK k \in T : \A j \in T : k <= j
  BY <1>0, LeastExists
<1> USE DEF T
<1>2. k \in 1 .. N /\ k - 1 \in 0 .. N /\ ~(k <= k - 1)
  BY <1>1
<1>3. k - 1 \in P
  BY <1>1, <1>2
<1> QED
  BY <1>2, <1>3

\* The last step of a climb: what holds at 0 and not at N stops somewhere.
LEMMA Stops ==
  ASSUME NEW N \in Nat, NEW P, 0 \in P, N \notin P
  PROVE \E k \in 1 .. N : k - 1 \in P /\ k \notin P
BY Upward

LEMMA DivIs ==
  ASSUME NEW B \in Nat \ {0}, NEW a \in Nat
  PROVE /\ a \div B \in Nat /\ a % B \in 0 .. B - 1
        /\ a = B * (a \div B) + (a % B)
<1>1. a \div B \in Int /\ a \div B >= 0
  OBVIOUS
<1>2. a % B \in 0 .. B - 1
  OBVIOUS
<1>3. a = B * (a \div B) + (a % B)
  BY Z3
<1> QED
  BY <1>1, <1>2, <1>3

\* More bytes, more blocks.
LEMMA DivMonotone ==
  ASSUME NEW B \in Nat \ {0}, NEW a \in Nat, NEW b \in Nat, a <= b
  PROVE a \div B <= b \div B
<1> DEFINE q == a \div B
           r == b \div B
<1>1. q \in Nat /\ r \in Nat /\ a >= B * q /\ b < B * r + B
  BY DivIs
<1> HIDE DEF q, r
<1>2. CASE q <= r
  BY <1>2 DEF q, r
<1>3. CASE q >= r + 1
  <2>1. B * q >= B * (r + 1)
    BY <1>1, <1>3
  <2>2. B * (r + 1) = B * r + B
    BY <1>1
  <2> QED
    BY <1>1, <2>1, <2>2
<1> QED
  BY <1>1, <1>2, <1>3

\* Within what is left of a block.
LEMMA DivWithin ==
  ASSUME NEW B \in Nat \ {0}, NEW a \in Nat, NEW n \in Nat, n < B - (a % B)
  PROVE (a + n) \div B = a \div B
<1> DEFINE q == a \div B
           r == a % B
<1>1. q \in Nat /\ r \in 0 .. B - 1 /\ a = B * q + r
  BY DivIs
<1>2. n < B - r
  OBVIOUS
<1> HIDE DEF q, r
<1>3. r + n \in 0 .. B - 1 /\ a + n = B * q + (r + n)
  BY <1>1, <1>2
<1>4. (B * q + (r + n)) \div B = q
  BY <1>1, <1>3
<1> QED
  BY <1>3, <1>4 DEF q

\* One more byte, at most one more block.
LEMMA DivNext ==
  ASSUME NEW B \in Nat \ {0}, NEW a \in Nat
  PROVE (a + 1) \div B <= (a \div B) + 1
<1>1. a + 1 <= a + B /\ a + B \in Nat /\ a + 1 \in Nat
  OBVIOUS
<1>2. (a + 1) \div B <= (a + B) \div B
  BY <1>1, DivMonotone
<1> DEFINE q == a \div B
           s == a % B
<1>3. q \in Nat /\ s \in 0 .. B - 1 /\ a = B * q + s
  BY DivIs
<1> HIDE DEF q, s
<1>4. B * q + s + B = B * (q + 1) + s
  BY <1>3
<1>5. (B * (q + 1) + s) \div B = q + 1
  BY <1>3
<1> QED
  BY <1>2, <1>3, <1>4, <1>5 DEF q

\* Steps can be taken one after the other.
Steps(s, g, a, N) == s[0] = a /\ \A k \in 1 .. N : s[k] = g[k][s[k - 1]]

LEMMA Repeated ==
  ASSUME NEW S, NEW a \in S, NEW N \in Nat, NEW g \in [1 .. N -> [S -> S]]
  PROVE \E s \in [0 .. N -> S] : Steps(s, g, a, N)
<1> DEFINE P == {n \in 0 .. N : \E s \in [0 .. n -> S] : s[0] = a /\ \A k \in 1 .. n : s[k] = g[k][s[k - 1]]}
<1>1. 0 \in P
  <2> DEFINE s == [k \in 0 .. 0 |-> a]
  <2>1. s \in [0 .. 0 -> S] /\ s[0] = a
    OBVIOUS
  <2>2. \A k \in 1 .. 0 : s[k] = g[k][s[k - 1]]
    OBVIOUS
  <2> HIDE DEF s
  <2> QED
    BY <2>1, <2>2
<1>2. ASSUME NEW n \in 1 .. N, n - 1 \in P PROVE n \in P
  <2>1. PICK s \in [0 .. n - 1 -> S] : s[0] = a /\ \A k \in 1 .. n - 1 : s[k] = g[k][s[k - 1]]
    BY <1>2
  <2> DEFINE t == [k \in 0 .. n |-> IF k = n THEN g[n][s[n - 1]] ELSE s[k]]
  <2>2. s[n - 1] \in S /\ g[n] \in [S -> S]
    BY <2>1
  <2>3. t \in [0 .. n -> S] /\ t[0] = a
    BY <2>1, <2>2
  <2>4. \A k \in 1 .. n : t[k] = g[k][t[k - 1]]
    BY <2>1
  <2> HIDE DEF t
  <2> QED
    BY <2>3, <2>4
<1>3. N \in P
  <2>1. 0 .. N \subseteq P
    BY <1>1, <1>2, Upward
  <2> QED
    BY <2>1
<1> QED
  BY <1>3 DEF Steps

----------------------------------------------------------------------------
(* Blocks.                                                                 *)

\* What an entry of fat[] can be: a block of data, or the end of a chain.
Links == DataBlocks \cup {0}

LEMMA BlocksAre ==
  /\ DataBlocks \subseteq Blocks /\ Links \subseteq Blocks /\ 0 \in Blocks
  /\ \A b \in Blocks : b \in Nat /\ b < nBlocks
  /\ \A b \in DataBlocks : b \in Nat /\ b >= fatBlocks + 1 /\ b <= nBlocks - 1 /\ b # 0
  /\ fatBlocks \in Nat /\ nBlocks \in Nat
  /\ Root \in DataBlocks /\ fatBlocks + 1 \in DataBlocks
  /\ 0 \notin DataBlocks
<1>1. fatBlocks \in Nat /\ nBlocks \in Nat /\ fatBlocks + 1 < nBlocks
  BY DiskAssumption
<1> QED
  BY <1>1 DEF DataBlocks, Blocks, Links, Root

\* Metadata and data of a file, in blocks.
LEMMA BlockInFileIs ==
  /\ \A o \in Nat : BlockInFile(o) \in Nat
  /\ \A o, n \in Nat : o <= n => BlockInFile(o) <= BlockInFile(n)
  /\ \A o \in Nat : BlockInFile(o + 1) <= BlockInFile(o) + 1
<1>1. MetaSize \in Nat /\ BlockSize \in Nat \ {0}
  BY DiskAssumption
<1>2. \A o \in Nat : BlockInFile(o) \in Nat
  <2> SUFFICES ASSUME NEW o \in Nat PROVE (o + MetaSize) \div BlockSize \in Nat
    BY DEF BlockInFile
  <2>1. o + MetaSize \in Nat
    BY <1>1
  <2> QED
    BY <1>1, <2>1, DivIs
<1>3. \A o, n \in Nat : o <= n => BlockInFile(o) <= BlockInFile(n)
  <2> SUFFICES ASSUME NEW o \in Nat, NEW n \in Nat, o <= n
               PROVE (o + MetaSize) \div BlockSize <= (n + MetaSize) \div BlockSize
    BY DEF BlockInFile
  <2>1. o + MetaSize \in Nat /\ n + MetaSize \in Nat /\ o + MetaSize <= n + MetaSize
    BY <1>1
  <2> QED
    BY <1>1, <2>1, DivMonotone
<1>4. \A o \in Nat : BlockInFile(o + 1) <= BlockInFile(o) + 1
  <2> SUFFICES ASSUME NEW o \in Nat
               PROVE ((o + 1) + MetaSize) \div BlockSize <= ((o + MetaSize) \div BlockSize) + 1
    BY DEF BlockInFile
  <2>1. o + MetaSize \in Nat /\ (o + 1) + MetaSize = (o + MetaSize) + 1
    BY <1>1
  <2>2. ((o + MetaSize) + 1) \div BlockSize <= ((o + MetaSize) \div BlockSize) + 1
    BY <1>1, <2>1, DivNext
  <2> QED
    BY <2>1, <2>2
<1> QED
  BY <1>2, <1>3, <1>4

\* Not more is written than what is left of the block, and of the call.
LEMMA WrittenIs ==
  ASSUME NEW p \in Procs, job[p].offset \in Nat, job[p].togo \in Nat
  PROVE /\ Written(p) \in Nat /\ job[p].togo - Written(p) \in Nat
        /\ Written(p) > 0 => BlockInFile(job[p].offset + Written(p) - 1) = BlockInFile(job[p].offset)
<1> DEFINE o == job[p].offset
           a == o + MetaSize
           left == BlockSize - (a % BlockSize)
           w == Written(p)
<1>1. MetaSize \in Nat /\ BlockSize \in Nat \ {0} /\ a \in Nat /\ o \in Nat
  <2>1. o \in Nat /\ MetaSize \in Nat /\ BlockSize \in Nat \ {0}
    BY DiskAssumption
  <2> HIDE DEF o
  <2> QED
    BY <2>1
<1>2. a % BlockSize \in 0 .. BlockSize - 1
  BY <1>1, DivIs
<1>3. left \in Nat /\ left > 0
  BY <1>1, <1>2
<1>4. w = IF job[p].togo < left THEN job[p].togo ELSE left
  BY DEF Written
<1> HIDE DEF left, w
<1>5. w \in Nat /\ job[p].togo - w \in Nat /\ w <= left
  BY <1>3, <1>4
<1>6. ASSUME w > 0 PROVE BlockInFile(o + w - 1) = BlockInFile(o)
  <2> HIDE DEF a, o
  <2>1. w - 1 \in Nat /\ w - 1 < BlockSize - (a % BlockSize)
    BY <1>3, <1>5, <1>6 DEF left
  <2>2. (a + (w - 1)) \div BlockSize = a \div BlockSize
    BY <1>1, <2>1, DivWithin
  <2>3. (o + w - 1) + MetaSize = a + (w - 1)
    BY <1>1, <1>5 DEF a
  <2> QED
    BY <2>2, <2>3 DEF BlockInFile, a
<1> QED
  BY <1>5, <1>6 DEF w

\* After(b, table) is the walk from b along the table.
LEMMA AfterIs ==
  ASSUME NEW table \in [Blocks -> Links], NEW b \in Links
  PROVE /\ After(b, table) \in [0 .. nBlocks -> Links]
        /\ After(b, table)[0] = b
        /\ \A k \in 1 .. nBlocks :
             After(b, table)[k] = IF After(b, table)[k - 1] = 0 THEN 0 ELSE table[After(b, table)[k - 1]]
<1> DEFINE next == [l \in Links |-> IF l = 0 THEN 0 ELSE table[l]]
           g == [k \in 1 .. nBlocks |-> next]
           Walks(s) == s = [n \in 0 .. nBlocks |->
                              IF n = 0 THEN b ELSE IF s[n - 1] = 0 THEN 0 ELSE table[s[n - 1]]]
           nth == CHOOSE s : Walks(s)
<1>1. nBlocks \in Nat /\ next \in [Links -> Links]
  BY BlocksAre DEF Links
<1>2. g \in [1 .. nBlocks -> [Links -> Links]]
  BY <1>1
<1>3. \E s \in [0 .. nBlocks -> Links] : Steps(s, g, b, nBlocks)
  <2> HIDE DEF g
  <2> QED
    BY <1>1, <1>2, Repeated
<1>4. PICK s \in [0 .. nBlocks -> Links] : Steps(s, g, b, nBlocks)
  BY <1>3
<1>5. \A k \in 1 .. nBlocks : s[k] = IF s[k - 1] = 0 THEN 0 ELSE table[s[k - 1]]
  <2> SUFFICES ASSUME NEW k \in 1 .. nBlocks PROVE s[k] = IF s[k - 1] = 0 THEN 0 ELSE table[s[k - 1]]
    OBVIOUS
  <2>1. k - 1 \in 0 .. nBlocks
    BY <1>1
  <2>2. s[k] = next[s[k - 1]] /\ s[k - 1] \in Links
    BY <1>4, <2>1 DEF Steps
  <2> QED
    BY <2>2
<1>6. Walks(s)
  BY <1>1, <1>4, <1>5 DEF Steps
<1>7. After(b, table) = nth
  BY DEF After
<1>8. Walks(nth)
  BY <1>6
<1> HIDE DEF nth, g, next
<1>9. /\ DOMAIN nth = 0 .. nBlocks /\ nth[0] = b
      /\ \A k \in 1 .. nBlocks : nth[k] = IF nth[k - 1] = 0 THEN 0 ELSE table[nth[k - 1]]
  BY <1>1, <1>8
<1>10. nth = [k \in 0 .. nBlocks |-> nth[k]]
  BY <1>8
<1> HIDE DEF Walks
<1> DEFINE P == {k \in 0 .. nBlocks : nth[k] \in Links}
<1>11. 0 \in P
  BY <1>1, <1>9
<1>12. ASSUME NEW k \in 1 .. nBlocks, k - 1 \in P PROVE k \in P
  <2>1. nth[k - 1] \in Links /\ nth[k] = IF nth[k - 1] = 0 THEN 0 ELSE table[nth[k - 1]]
    BY <1>9, <1>12
  <2>2. nth[k] \in Links
    BY <2>1, BlocksAre DEF Links
  <2> QED
    BY <2>2
<1>13. 0 .. nBlocks \subseteq P
  <2> HIDE DEF P
  <2> QED
    BY <1>1, <1>11, <1>12, Upward
<1>14. nth \in [0 .. nBlocks -> Links]
  BY <1>10, <1>13
<1> QED
  BY <1>7, <1>9, <1>14

----------------------------------------------------------------------------
(* The image.                                                              *)

LEMMA ImageLengths ==
  /\ Len(Image) \in Nat /\ DOMAIN Image = 1 .. Len(Image)
  /\ \A i \in 1 .. Len(Image) : Image[i] \in Nat /\ BlockInFile(Image[i]) \in Nat
<1>1. Image \in Seq(Nat)
  BY DiskAssumption
<1>2. Len(Image) \in Nat /\ DOMAIN Image = 1 .. Len(Image) /\ \A i \in 1 .. Len(Image) : Image[i] \in Nat
  BY <1>1
<1> QED
  BY <1>2, BlockInFileIs

\* What getBlock() has given away grows from file to file.
LEMMA TakenIs ==
  /\ TakenBefore \in [1 .. Len(Image) + 1 -> Nat]
  /\ TakenBefore[1] = 1
  /\ \A i \in 1 .. Len(Image) : TakenBefore[i + 1] = TakenBefore[i] + BlockInFile(Image[i]) + 1
<1> DEFINE L == Len(Image)
           g == [k \in 1 .. L |-> [x \in Nat |-> x + BlockInFile(Image[k]) + 1]]
           Takes(s) == s = [i \in 1 .. L + 1 |->
                              IF i = 1 THEN 1 ELSE s[i - 1] + BlockInFile(Image[i - 1]) + 1]
           taken == CHOOSE s : Takes(s)
<1>1. L \in Nat
  BY ImageLengths
<1>2. \A i \in 1 .. L : BlockInFile(Image[i]) \in Nat
  BY ImageLengths
<1>3. g \in [1 .. L -> [Nat -> Nat]]
  BY <1>2
<1>4. PICK s \in [0 .. L -> Nat] : Steps(s, g, 1, L)
  <2> HIDE DEF g, L
  <2> QED
    BY <1>1, <1>3, Repeated
<1>5. s[0] = 1 /\ \A k \in 1 .. L : s[k] = s[k - 1] + BlockInFile(Image[k]) + 1
  <2>1. s[0] = 1
    BY <1>4 DEF Steps
  <2> SUFFICES ASSUME NEW k \in 1 .. L PROVE s[k] = s[k - 1] + BlockInFile(Image[k]) + 1
    BY <2>1
  <2>2. k - 1 \in 0 .. L
    BY <1>1
  <2>3. s[k - 1] \in Nat /\ s[k] = g[k][s[k - 1]]
    BY <1>4, <2>2 DEF Steps
  <2> QED
    BY <2>3
<1> DEFINE t == [i \in 1 .. L + 1 |-> s[i - 1]]
<1> HIDE DEF g
<1>6. t \in [1 .. L + 1 -> Nat] /\ t[1] = 1
  BY <1>1, <1>5
<1>7. \A i \in 1 .. L + 1 : t[i] = IF i = 1 THEN 1 ELSE t[i - 1] + BlockInFile(Image[i - 1]) + 1
  <2> SUFFICES ASSUME NEW i \in 1 .. L + 1, i # 1 PROVE t[i] = t[i - 1] + BlockInFile(Image[i - 1]) + 1
    BY <1>6
  <2>1. i - 1 \in 1 .. L /\ i - 1 \in 1 .. L + 1
    BY <1>1
  <2>2. t[i] = s[i - 1] /\ t[i - 1] = s[(i - 1) - 1]
    BY <2>1
  <2> QED
    BY <1>5, <2>1, <2>2
<1>8. Takes(t)
  <2> HIDE DEF t
  <2> QED
    BY <1>6, <1>7
<1>9. Takes(taken)
  BY <1>8
<1>10. TakenBefore = taken
  BY DEF TakenBefore
<1> HIDE DEF taken, t
<1>11. /\ taken = [i \in 1 .. L + 1 |-> taken[i]] /\ taken[1] = 1
       /\ \A i \in 1 .. L + 1 : i # 1 => taken[i] = taken[i - 1] + BlockInFile(Image[i - 1]) + 1
  <2>1. taken = [i \in 1 .. L + 1 |-> IF i = 1 THEN 1 ELSE taken[i - 1] + BlockInFile(Image[i - 1]) + 1]
    BY <1>9
  <2>2. DOMAIN taken = 1 .. L + 1
    BY <2>1, Zenon
  <2>3. \A i \in 1 .. L + 1 : taken[i] = IF i = 1 THEN 1 ELSE taken[i - 1] + BlockInFile(Image[i - 1]) + 1
    BY <2>1, Zenon
  <2>4. taken = [i \in 1 .. L + 1 |-> taken[i]]
    BY <2>1, <2>3
  <2>5. 1 \in 1 .. L + 1
    BY <1>1
  <2> HIDE DEF L
  <2> QED
    BY <2>3, <2>4, <2>5
<1> HIDE DEF Takes
<1>12. \A i \in 1 .. L : taken[i + 1] = taken[i] + BlockInFile(Image[i]) + 1
  <2> SUFFICES ASSUME NEW i \in 1 .. L PROVE taken[i + 1] = taken[i] + BlockInFile(Image[i]) + 1
    OBVIOUS
  <2>1. i + 1 \in 1 .. L + 1 /\ i + 1 # 1 /\ (i + 1) - 1 = i
    BY <1>1
  <2> QED
    BY <1>11, <2>1
<1> DEFINE P == {k \in 0 .. L : taken[k + 1] \in Nat}
<1>13. 0 \in P
  BY <1>1, <1>11
<1>14. ASSUME NEW k \in 1 .. L, k - 1 \in P PROVE k \in P
  <2>1. (k - 1) + 1 = k /\ taken[k] \in Nat
    BY <1>14
  <2>2. taken[k + 1] \in Nat
    BY <1>2, <1>12, <2>1
  <2> QED
    BY <2>2
<1>15. 0 .. L \subseteq P
  <2> HIDE DEF P
  <2> QED
    BY <1>1, <1>13, <1>14, Upward
<1>16. \A i \in 1 .. L + 1 : taken[i] \in Nat
  <2> SUFFICES ASSUME NEW i \in 1 .. L + 1 PROVE taken[i] \in Nat
    OBVIOUS
  <2>1. i - 1 \in P /\ (i - 1) + 1 = i
    BY <1>1, <1>15
  <2> QED
    BY <2>1
<1> QED
  BY <1>10, <1>11, <1>12, <1>16

LEMMA TakenGrows ==
  ASSUME NEW i \in 1 .. Len(Image) + 1, NEW j \in 1 .. Len(Image) + 1, i <= j
  PROVE TakenBefore[i] <= TakenBefore[j]
<1> DEFINE L == Len(Image)
           P == {k \in 0 .. L : k + 1 >= i => TakenBefore[i] <= TakenBefore[k + 1]}
<1>1. L \in Nat
  BY ImageLengths
<1>2. \A k \in 1 .. L : BlockInFile(Image[k]) \in Nat
  BY ImageLengths
<1>3. 0 \in P
  <2>1. 0 + 1 >= i => i = 0 + 1
    BY <1>1
  <2>2. TakenBefore[i] <= TakenBefore[i]
    BY TakenIs
  <2> QED
    BY <1>1, <2>1, <2>2
<1>4. ASSUME NEW k \in 1 .. L, k - 1 \in P PROVE k \in P
  <2>1. (k - 1) + 1 = k /\ k \in 1 .. L + 1 /\ k + 1 \in 1 .. L + 1
    BY <1>1
  <2>2. k >= i => TakenBefore[i] <= TakenBefore[k]
    BY <1>4, <2>1
  <2>3. TakenBefore[k] <= TakenBefore[k + 1] /\ TakenBefore[i] \in Nat /\ TakenBefore[k] \in Nat
        /\ TakenBefore[k + 1] \in Nat
    <3>1. TakenBefore[k + 1] = TakenBefore[k] + BlockInFile(Image[k]) + 1 /\ BlockInFile(Image[k]) \in Nat
      BY <1>2, TakenIs
    <3>2. TakenBefore[i] \in Nat /\ TakenBefore[k] \in Nat /\ TakenBefore[k + 1] \in Nat
      BY <2>1, TakenIs
    <3> QED
      BY <3>1, <3>2
  <2>4. CASE k + 1 = i
    BY <2>3, <2>4
  <2>5. CASE k >= i
    BY <2>2, <2>3, <2>5
  <2>6. CASE k + 1 < i
    BY <2>6
  <2>7. k + 1 = i \/ k >= i \/ k + 1 < i
    BY <1>1
  <2> QED
    BY <2>4, <2>5, <2>6, <2>7
<1>5. 0 .. L \subseteq P
  <2> HIDE DEF P
  <2> QED
    BY <1>1, <1>3, <1>4, Upward
<1>6. j - 1 \in P /\ (j - 1) + 1 = j
  <2>1. j - 1 \in 0 .. L /\ (j - 1) + 1 = j
    BY <1>1
  <2> HIDE DEF P
  <2> QED
    BY <1>5, <2>1
<1> QED
  BY <1>6

\* The files of the image are intervals of blocks, one below the other, and all that
\* lies between the root directory and the first free block.
ImageIntervals ==
  /\ FirstFree \in DataBlocks /\ FirstFree < Root
  /\ \A i \in 1 .. Len(Image) :
       /\ ImageStart(i) \in DataBlocks /\ ImageStart(i) < Root
       /\ ImageLast(i) \in DataBlocks /\ FirstFree < ImageLast(i)
       /\ ImageStart(i) - ImageLast(i) = BlockInFile(Image[i])
       /\ ImageLast(i) <= ImageStart(i)
  /\ \A i, j \in 1 .. Len(Image) : i < j => ImageStart(j) < ImageLast(i)
  /\ \A b \in DataBlocks : b > FirstFree /\ b # Root =>
       \E i \in 1 .. Len(Image) : b \in ImageLast(i) .. ImageStart(i)

LEMMA ImageIs == ImageIntervals
<1> DEFINE L == Len(Image)
           T(i) == TakenBefore[i]
           B(i) == BlockInFile(Image[i])
<1>1. L \in Nat
  BY ImageLengths
<1>2. \A k \in 1 .. L : B(k) \in Nat
  BY ImageLengths
<1>3. /\ \A i \in 1 .. L + 1 : T(i) \in Nat
      /\ T(1) = 1
      /\ \A i \in 1 .. L : i + 1 \in 1 .. L + 1 /\ i \in 1 .. L + 1 /\ T(i + 1) = T(i) + B(i) + 1
  <2>1. \A i \in 1 .. L : i + 1 \in 1 .. L + 1 /\ i \in 1 .. L + 1
    BY <1>1
  <2>2. \A i \in 1 .. L + 1 : T(i) \in Nat
    BY TakenIs
  <2>3. T(1) = 1 /\ \A i \in 1 .. L : T(i + 1) = T(i) + B(i) + 1
    BY TakenIs
  <2> QED
    BY <2>1, <2>2, <2>3
<1>4. /\ \A i \in 1 .. L + 1 : T(i) >= 1 /\ T(i) <= T(L + 1)
      /\ L + 1 \in 1 .. L + 1 /\ 1 \in 1 .. L + 1
  <2>1. L + 1 \in 1 .. L + 1 /\ 1 \in 1 .. L + 1
    BY <1>1
  <2>2. \A i \in 1 .. L + 1 : 1 <= i /\ i <= L + 1
    BY <1>1
  <2>3. \A i \in 1 .. L + 1 : T(1) <= T(i) /\ T(i) <= T(L + 1)
    BY <2>1, <2>2, TakenGrows
  <2> QED
    BY <1>3, <2>1, <2>3
<1>5. /\ FirstFree = nBlocks - 1 - T(L + 1) /\ FirstFree >= fatBlocks + 1
      /\ \A i \in 1 .. L : ImageStart(i) = nBlocks - 1 - T(i) /\ ImageLast(i) = nBlocks - 1 - T(i) - B(i)
  BY ImageAssumption DEF FirstFree, ImageStart, ImageLast
<1> HIDE DEF T, B, L
<1>6. nBlocks \in Nat /\ fatBlocks \in Nat
  BY DiskAssumption
<1>7. FirstFree \in DataBlocks /\ FirstFree < Root
  BY <1>3, <1>4, <1>5, <1>6 DEF DataBlocks, Root
<1>8. ASSUME NEW i \in 1 .. L
      PROVE /\ ImageStart(i) \in DataBlocks /\ ImageStart(i) < Root
            /\ ImageLast(i) \in DataBlocks /\ FirstFree < ImageLast(i)
            /\ ImageStart(i) - ImageLast(i) = B(i)
            /\ ImageLast(i) <= ImageStart(i)
  <2>1. /\ T(i) \in Nat /\ T(i) >= 1 /\ B(i) \in Nat /\ T(L + 1) \in Nat /\ T(i + 1) <= T(L + 1)
        /\ T(i + 1) = T(i) + B(i) + 1
    BY <1>2, <1>3, <1>4
  <2>2. ImageStart(i) = nBlocks - 1 - T(i) /\ ImageLast(i) = nBlocks - 1 - T(i) - B(i)
    BY <1>5
  <2> QED
    BY <1>5, <1>6, <2>1, <2>2 DEF DataBlocks, Root
<1>9. ASSUME NEW i \in 1 .. L, NEW j \in 1 .. L, i < j PROVE ImageStart(j) < ImageLast(i)
  <2>1. i + 1 <= j /\ i + 1 \in 1 .. L + 1 /\ j \in 1 .. L + 1
    BY <1>1, <1>9
  <2>2. T(i + 1) <= T(j)
    BY <2>1, TakenGrows DEF T, L
  <2>3. T(i + 1) = T(i) + B(i) + 1 /\ T(i) \in Nat /\ T(j) \in Nat /\ B(i) \in Nat
    BY <1>2, <1>3, <2>1
  <2> QED
    BY <1>5, <1>6, <2>2, <2>3
<1>10. ASSUME NEW b \in DataBlocks, b > FirstFree, b # Root
       PROVE \E i \in 1 .. L : b \in ImageLast(i) .. ImageStart(i)
  <2> DEFINE P == {k \in 0 .. L : T(k + 1) <= nBlocks - 1 - b}
  <2>1. b \in Nat /\ b <= nBlocks - 1 /\ b # nBlocks - 1
    BY <1>10, BlocksAre DEF Root
  <2>2. 0 \in P
    BY <1>1, <1>3, <1>6, <2>1
  <2>3. L \notin P
    BY <1>3, <1>4, <1>5, <1>6, <1>10, <2>1
  <2>4. PICK k \in 1 .. L : k - 1 \in P /\ k \notin P
    <3> HIDE DEF P
    <3> QED
      BY <1>1, <2>2, <2>3, Stops
  <2>5. (k - 1) + 1 = k /\ k \in 0 .. L
    BY <1>1
  <2>6. T(k) <= nBlocks - 1 - b /\ ~(T(k + 1) <= nBlocks - 1 - b)
    BY <2>4, <2>5
  <2>7. T(k) \in Nat /\ B(k) \in Nat /\ T(k + 1) = T(k) + B(k) + 1
    BY <1>2, <1>3
  <2>8. ImageStart(k) = nBlocks - 1 - T(k) /\ ImageLast(k) = nBlocks - 1 - T(k) - B(k)
    BY <1>5
  <2>9. b \in ImageLast(k) .. ImageStart(k)
    BY <1>6, <2>1, <2>6, <2>7, <2>8
  <2> QED
    BY <2>9
<1> QED
  BY <1>7, <1>8, <1>9, <1>10 DEF ImageIntervals, B, L

\* Who owns the blocks of the image, and how long its files are.
OwnersOfImage ==
  /\ MkfsOwner(Root) = Root
  /\ \A b \in Blocks : MkfsOwner(b) \in DataBlocks
  /\ \A i \in 1 .. Len(Image) : \A b \in ImageLast(i) .. ImageStart(i) : MkfsOwner(b) = ImageStart(i)
  /\ \A i, j \in 1 .. Len(Image) : ImageStart(i) = ImageStart(j) => i = j

LEMMA OwnersOfImageAre == OwnersOfImage
<1>1. DOMAIN Image = 1 .. Len(Image) /\ ImageFiles = {ImageStart(i) : i \in 1 .. Len(Image)} /\ Len(Image) \in Nat
  BY ImageLengths DEF ImageFiles
<1>2. ASSUME NEW i \in 1 .. Len(Image)
      PROVE /\ ImageStart(i) \in Nat /\ ImageLast(i) \in Nat /\ Root \in Nat /\ ImageStart(i) < Root
            /\ ImageLast(i) <= ImageStart(i) /\ ImageStart(i) \in DataBlocks
  BY ImageIs, BlocksAre DEF ImageIntervals
<1>3. ASSUME NEW i \in 1 .. Len(Image), NEW j \in 1 .. Len(Image), NEW b \in Int,
             b \in ImageLast(i) .. ImageStart(i), b \in ImageLast(j) .. ImageStart(j)
      PROVE i = j
  <2>1. i < j => ImageStart(j) < ImageLast(i)
    BY ImageIs DEF ImageIntervals
  <2>2. j < i => ImageStart(i) < ImageLast(j)
    BY ImageIs DEF ImageIntervals
  <2>3. i < j \/ j < i \/ i = j
    BY <1>1
  <2> QED
    BY <1>2, <1>3, <2>1, <2>2, <2>3
<1>4. MkfsOwner(Root) = Root
  BY <1>1, <1>2 DEF MkfsOwner
<1>5. ASSUME NEW i \in 1 .. Len(Image), NEW b \in ImageLast(i) .. ImageStart(i)
      PROVE MkfsOwner(b) = ImageStart(i)
  <2> DEFINE Holds(f) == \E j \in 1 .. Len(Image) : f = ImageStart(j) /\ b \in ImageLast(j) .. ImageStart(j)
  <2>1. MkfsOwner(b) = CHOOSE f \in ImageFiles : Holds(f)
    BY <1>1, <1>5 DEF MkfsOwner
  <2>2. ImageStart(i) \in ImageFiles /\ Holds(ImageStart(i))
    BY <1>1
  <2>3. Holds(CHOOSE f \in ImageFiles : Holds(f))
    BY <2>2
  <2>4. PICK j \in 1 .. Len(Image) : MkfsOwner(b) = ImageStart(j) /\ b \in ImageLast(j) .. ImageStart(j)
    BY <2>1, <2>3
  <2>5. i = j
    BY <1>2, <1>3, <2>4
  <2> QED
    BY <2>4, <2>5
<1>6. ASSUME NEW b \in Blocks PROVE MkfsOwner(b) \in DataBlocks
  <2>1. CASE \E i \in 1 .. Len(Image) : b \in ImageLast(i) .. ImageStart(i)
    BY <1>2, <1>5, <2>1
  <2>2. CASE ~ \E i \in 1 .. Len(Image) : b \in ImageLast(i) .. ImageStart(i)
    BY <1>1, <2>2, BlocksAre DEF MkfsOwner
  <2> QED
    BY <2>1, <2>2
<1>7. ASSUME NEW i \in 1 .. Len(Image), NEW j \in 1 .. Len(Image), ImageStart(i) = ImageStart(j) PROVE i = j
  <2>1. ImageStart(i) \in ImageLast(i) .. ImageStart(i) /\ ImageStart(i) \in ImageLast(j) .. ImageStart(j)
    BY <1>2, <1>7
  <2> QED
    BY <1>2, <1>3, <2>1
<1> QED
  BY <1>4, <1>5, <1>6, <1>7 DEF OwnersOfImage

\* The state that mkfs and the boot leave.
ImageState ==
  /\ fat \in [Blocks -> Links] /\ length \in [Blocks -> Nat] /\ content \in [Blocks -> DataBlocks]
  /\ length[Root] = EntrySize * Len(Image)
  /\ \A i \in 1 .. Len(Image) : length[ImageStart(i)] = Image[i]
  /\ \A b \in Blocks : content[b] = MkfsOwner(b)
  /\ directory \in Seq([name : Names \cup {None}, start : DataBlocks])
  /\ Files = {Root} \cup ImageFiles

LEMMA InitIs == Init => ImageState
<1> SUFFICES ASSUME Init PROVE ImageState
  OBVIOUS
<1>1. DOMAIN Image = 1 .. Len(Image) /\ ImageFiles = {ImageStart(i) : i \in 1 .. Len(Image)} /\ Len(Image) \in Nat
  BY ImageLengths DEF ImageFiles
<1>2. fat \in [Blocks -> Links]
  <2>1. \A b \in DataBlocks : b # fatBlocks + 1 => b - 1 \in DataBlocks
    BY BlocksAre DEF DataBlocks
  <2> QED
    BY <2>1, BlocksAre DEF Init, MkfsFat, Links
<1>3. \A i \in 1 .. Len(Image) : ImageStart(i) \in DataBlocks /\ ImageStart(i) # Root /\ Image[i] \in Nat
  BY ImageIs, ImageLengths, BlocksAre DEF ImageIntervals
<1>4. EntrySize * Len(Image) \in Nat
  <2>1. EntrySize \in Nat
    BY DiskAssumption
  <2> QED
    BY <1>1, <2>1
<1> DEFINE At(b) == CHOOSE i \in 1 .. Len(Image) : ImageStart(i) = b
<1>5. \A b \in ImageFiles : At(b) \in 1 .. Len(Image) /\ ImageStart(At(b)) = b
  BY <1>1
<1>6. length = [b \in Blocks |-> IF b = Root THEN EntrySize * Len(Image)
                                 ELSE IF b \in ImageFiles THEN Image[At(b)] ELSE 0]
  BY <1>1 DEF Init
<1> HIDE DEF At
<1>7. length \in [Blocks -> Nat]
  BY <1>3, <1>4, <1>5, <1>6
<1>8. length[Root] = EntrySize * Len(Image)
  BY <1>6, BlocksAre
<1>9. ASSUME NEW i \in 1 .. Len(Image) PROVE length[ImageStart(i)] = Image[i]
  <2>1. ImageStart(i) \in Blocks /\ ImageStart(i) # Root /\ ImageStart(i) \in ImageFiles
    BY <1>1, <1>3, BlocksAre
  <2>2. At(ImageStart(i)) = i
    BY <1>5, <2>1, OwnersOfImageAre DEF OwnersOfImage
  <2> QED
    BY <1>6, <2>1, <2>2
<1>10. content \in [Blocks -> DataBlocks] /\ \A b \in Blocks : content[b] = MkfsOwner(b)
  BY OwnersOfImageAre DEF Init, OwnersOfImage
<1>11. directory \in Seq([name : Names \cup {None}, start : DataBlocks])
  <2>1. directory = [i \in 1 .. Len(Image) |-> [name |-> None, start |-> ImageStart(i)]]
    BY <1>1 DEF Init
  <2>2. \A i \in 1 .. Len(Image) : [name |-> None, start |-> ImageStart(i)] \in [name : Names \cup {None}, start : DataBlocks]
    BY <1>3
  <2> DEFINE E == [name : Names \cup {None}, start : DataBlocks]
  <2>3. directory \in [1 .. Len(Image) -> E]
    BY <2>1, <2>2
  <2> HIDE DEF E
  <2>4. directory \in Seq(E)
    BY <1>1, <2>3
  <2> QED
    BY <2>4 DEF E
<1>12. Files = {Root} \cup ImageFiles
  <2>1. directory = [i \in 1 .. Len(Image) |-> [name |-> None, start |-> ImageStart(i)]]
    BY <1>1 DEF Init
  <2>2. Len(directory) = Len(Image)
    BY <1>1, <2>1
  <2>3. ToSet(directory) = {directory[i] : i \in 1 .. Len(Image)}
    BY <2>1 DEF ToSet
  <2>4. {e.start : e \in ToSet(directory)} = ImageFiles
    <3>1. \A i \in 1 .. Len(Image) : directory[i].start = ImageStart(i)
      BY <2>1
    <3>2. {e.start : e \in ToSet(directory)} = {directory[i].start : i \in 1 .. Len(Image)}
      BY <2>3
    <3> QED
      BY <1>1, <3>1, <3>2
  <2> QED
    BY <2>4 DEF Files
<1> QED
  BY <1>2, <1>7, <1>8, <1>9, <1>10, <1>11, <1>12 DEF ImageState

----------------------------------------------------------------------------
(* Types.                                                                  *)

Busy == {"walk", "link", "meta"}
Locations == {"run", "walk", "link", "meta", "create", "pop"}
Jobs == [file : DataBlocks, offset : Nat, togo : Nat, block : Blocks,
         steps : Nat, next : Blocks, name : Names \cup {None}, start : Blocks]

\* The blocks that a process is about to change are blocks of data.
JobTyped(j, l) ==
  /\ l \in Busy => j.block \in DataBlocks
  /\ l = "link" => j.next \in DataBlocks /\ j.steps > 0
  /\ l = "pop" \/ (l \in Busy /\ j.name # None) => j.start \in DataBlocks

TypeInv ==
  /\ TypeOK
  /\ fat \in [Blocks -> Links] /\ diskFat \in [Blocks -> Links]
  /\ avail \in Links /\ diskAvail \in Links
  /\ \A p \in Procs : JobTyped(job[p], at[p])

LEMMA TypeStart == Init => TypeInv
<1> SUFFICES ASSUME Init PROVE TypeInv
  OBVIOUS
<1>1. ImageState
  BY InitIs
<1>2. Idle \in Jobs
  BY BlocksAre DEF Idle, Jobs
<1>3. FirstFree \in Links /\ Links \subseteq Blocks
  BY ImageIs, BlocksAre DEF ImageIntervals, Links
<1>4. fat \in [Blocks -> Blocks] /\ content \in [Blocks -> Blocks]
  BY <1>1, BlocksAre DEF ImageState
<1>5. diskFat = fat /\ avail = FirstFree /\ diskAvail = FirstFree /\ dirMutex = None /\ panicked = FALSE
      /\ at = [p \in Procs |-> "run"] /\ job = [p \in Procs |-> Idle]
  BY DEF Init
<1>6. job \in [Procs -> Jobs]
  BY <1>2, <1>5
<1>7. \A p \in Procs : JobTyped(job[p], at[p])
  BY <1>5 DEF JobTyped, Busy
<1> QED
  BY <1>1, <1>3, <1>4, <1>5, <1>6, <1>7 DEF TypeInv, TypeOK, ImageState, Jobs

Entries == [name : Names \cup {None}, start : DataBlocks]

\* What a process finds.
Typed(p) ==
  /\ job[p] \in Jobs /\ at[p] \in Locations /\ JobTyped(job[p], at[p])
  /\ fat \in [Blocks -> Links] /\ avail \in Links
  /\ length \in [Blocks -> Nat] /\ content \in [Blocks -> Blocks]
  /\ directory \in Seq(Entries) /\ dirMutex \in Procs \cup {None} /\ panicked \in BOOLEAN
  /\ \A f \in Files : f \in DataBlocks

LEMMA TypedIs ==
  ASSUME TypeInv, NEW p \in Procs
  PROVE Typed(p)
<1>1. directory \in Seq(Entries)
  BY DEF TypeInv, TypeOK, Entries
<1>2. \A f \in Files : f \in DataBlocks
  <2>1. \A e \in ToSet(directory) : e \in Entries
    BY <1>1 DEF ToSet
  <2>2. \A e \in Entries : e.start \in DataBlocks
    BY DEF Entries
  <2> QED
    BY <2>1, <2>2, BlocksAre DEF Files
<1>3. job[p] \in Jobs /\ at[p] \in Locations /\ JobTyped(job[p], at[p])
  BY DEF TypeInv, TypeOK, Jobs, Locations
<1> QED
  BY <1>1, <1>2, <1>3 DEF Typed, TypeInv, TypeOK

\* What it leaves, when it goes on to l with the job j.
LEMMA TypesKept ==
  ASSUME TypeInv, NEW p \in Procs, NEW j \in Jobs, NEW l \in Locations, JobTyped(j, l),
         job' = [job EXCEPT ![p] = j], at' = [at EXCEPT ![p] = l],
         fat' \in [Blocks -> Links], avail' \in Links, UNCHANGED fixed,
         length' \in [Blocks -> Nat], content' \in [Blocks -> Blocks],
         directory' \in Seq(Entries), dirMutex' \in Procs \cup {None}, panicked' \in BOOLEAN
  PROVE TypeInv'
<1>1. job \in [Procs -> Jobs] /\ at \in [Procs -> Locations]
  BY DEF TypeInv, TypeOK, Jobs, Locations
<1>2. job' \in [Procs -> Jobs] /\ at' \in [Procs -> Locations]
  BY <1>1
<1>3. \A q \in Procs : JobTyped(job'[q], at'[q])
  <2> SUFFICES ASSUME NEW q \in Procs PROVE JobTyped(job'[q], at'[q])
    OBVIOUS
  <2>1. CASE q = p
    BY <1>1, <2>1
  <2>2. CASE q # p
    <3>1. job'[q] = job[q] /\ at'[q] = at[q]
      BY <1>1, <2>2
    <3> QED
      BY <3>1 DEF TypeInv
  <2> QED
    BY <2>1, <2>2
<1>4. diskFat' \in [Blocks -> Links] /\ diskAvail' \in Links
  BY DEF TypeInv, fixed
<1>5. /\ fat' \in [Blocks -> Blocks] /\ diskFat' \in [Blocks -> Blocks]
      /\ avail' \in Blocks /\ diskAvail' \in Blocks
  BY <1>4, BlocksAre
<1> QED
  BY <1>2, <1>3, <1>4, <1>5 DEF TypeInv, TypeOK, Jobs, Locations, Entries

LEMMA OffsetsAre ==
  ASSUME NEW f, length[f] \in Nat, NEW o \in Offsets(f)
  PROVE /\ o \in Nat
        /\ Seeks # "anywhere" => BlockInFile(o) = BlockInFile(length[f])
<1>1. Seeks \in {"end", "last block", "anywhere"}
  BY DiskAssumption
<1>2. CASE Seeks = "end"
  BY <1>2 DEF Offsets
<1>3. CASE Seeks = "last block"
  <2>1. Offsets(f) = {n \in 0 .. length[f] : BlockInFile(n) = BlockInFile(length[f])}
    BY <1>3 DEF Offsets
  <2> QED
    BY <2>1
<1>4. CASE Seeks = "anywhere"
  BY <1>4 DEF Offsets
<1> QED
  BY <1>1, <1>2, <1>3, <1>4

LEMMA WritingIs ==
  ASSUME NEW f \in DataBlocks, NEW o \in Nat, NEW n \in Nat, NEW a \in Names \cup {None}, NEW s \in Blocks,
         a # None => s \in DataBlocks
  PROVE Writing(f, o, n, a, s) \in Jobs /\ JobTyped(Writing(f, o, n, a, s), "walk")
<1>1. BlockInFile(o) \in Nat
  BY BlockInFileIs
<1> QED
  BY <1>1, BlocksAre DEF Writing, Jobs, JobTyped, Busy

LEMMA WriteTypes ==
  ASSUME TypeInv, NEW p \in Procs, NEW f \in Files, NEW o \in Offsets(f), NEW n \in 0 .. BlockSize + 1,
         Write(p, f, o, n)
  PROVE TypeInv'
<1>1. Typed(p) /\ n \in Nat
  BY TypedIs
<1>2. f \in DataBlocks /\ o \in Nat
  BY <1>1, OffsetsAre, BlocksAre DEF Typed
<1> DEFINE j == Writing(f, o, n, None, 0)
<1>3. j \in Jobs /\ JobTyped(j, "walk") /\ "walk" \in Locations
  BY <1>1, <1>2, WritingIs, BlocksAre DEF Locations
<1>4. job' = [job EXCEPT ![p] = j] /\ at' = [at EXCEPT ![p] = "walk"]
      /\ UNCHANGED <<fat, avail, length, content, directory, dirMutex, fixed, panicked>>
  BY DEF Write, Goto
<1> HIDE DEF j
<1> QED
  BY <1>1, <1>3, <1>4, TypesKept DEF Typed

LEMMA WalkTypes ==
  ASSUME TypeInv, NEW p \in Procs, Walk(p)
  PROVE TypeInv'
<1>1. Typed(p)
  BY TypedIs
<1> DEFINE j == [job[p] EXCEPT !.block = fat[job[p].block], !.steps = job[p].steps - 1]
<1>2. /\ at[p] = "walk" /\ job[p].steps > 0 /\ fat[job[p].block] # 0
      /\ job' = [job EXCEPT ![p] = j]
      /\ UNCHANGED <<fat, avail, length, content, directory, dirMutex, at, fixed, panicked>>
  BY DEF Walk, Running
<1>3. fat[job[p].block] \in DataBlocks
  BY <1>1, <1>2 DEF Typed, Jobs, Links
<1>4. job[p] \in Jobs /\ job[p].steps - 1 \in Nat
  BY <1>1, <1>2 DEF Typed, Jobs
<1>5. j \in Jobs /\ JobTyped(j, "walk") /\ "walk" \in Locations
  BY <1>1, <1>2, <1>3, <1>4, BlocksAre DEF Typed, JobTyped, Jobs, Busy, Locations
<1>6. at' = [at EXCEPT ![p] = "walk"]
  BY <1>2 DEF TypeInv, TypeOK
<1> HIDE DEF j
<1> QED
  BY <1>1, <1>2, <1>5, <1>6, TypesKept DEF Typed

LEMMA TakeTypes ==
  ASSUME TypeInv, NEW p \in Procs, Take(p)
  PROVE TypeInv'
<1>1. Typed(p)
  BY TypedIs
<1>2. at[p] = "walk" /\ job[p].steps > 0
      /\ UNCHANGED <<fat, avail, length, content, directory, dirMutex, fixed>>
  BY DEF Take, Running
<1>3. CASE avail = 0
  <2>1. panicked' = TRUE /\ job' = job /\ at' = at
    BY <1>3 DEF Take
  <2>2. job' = [job EXCEPT ![p] = job[p]] /\ at' = [at EXCEPT ![p] = at[p]]
    BY <2>1 DEF TypeInv, TypeOK
  <2> QED
    BY <1>1, <1>2, <2>1, <2>2, TypesKept DEF Typed
<1>4. CASE avail # 0
  <2> DEFINE j == [job[p] EXCEPT !.next = avail]
  <2>1. job' = [job EXCEPT ![p] = j] /\ at' = [at EXCEPT ![p] = "link"] /\ panicked' = panicked
    BY <1>4 DEF Take, Goto
  <2>2. j \in Jobs /\ JobTyped(j, "link") /\ "link" \in Locations
    BY <1>1, <1>2, <1>4, BlocksAre DEF Typed, JobTyped, Jobs, Busy, Locations, Links
  <2> HIDE DEF j
  <2> QED
    BY <1>1, <1>2, <2>1, <2>2, TypesKept DEF Typed
<1> QED
  BY <1>3, <1>4

LEMMA LinkTypes ==
  ASSUME TypeInv, NEW p \in Procs, Link(p)
  PROVE TypeInv'
<1>1. Typed(p)
  BY TypedIs
<1> DEFINE next == job[p].next
           j == [job[p] EXCEPT !.block = next, !.steps = job[p].steps - 1, !.next = 0]
<1>2. /\ at[p] = "link" /\ avail' = fat[next]
      /\ fat' = [fat EXCEPT ![next] = 0, ![job[p].block] = next]
      /\ job' = [job EXCEPT ![p] = j] /\ at' = [at EXCEPT ![p] = "walk"]
      /\ UNCHANGED <<length, content, directory, dirMutex, fixed, panicked>>
  BY DEF Link, Running, Goto
<1>3. next \in DataBlocks /\ next \in Blocks /\ job[p].steps > 0
  BY <1>1, <1>2, BlocksAre DEF Typed, JobTyped
<1>4. job[p] \in Jobs /\ job[p].steps - 1 \in Nat /\ 0 \in Blocks
  <2>1. job[p] \in Jobs /\ job[p].steps \in Nat
    BY <1>1 DEF Typed, Jobs
  <2> QED
    BY <1>3, <2>1, BlocksAre
<1>5. j \in Jobs /\ JobTyped(j, "walk") /\ "walk" \in Locations
  BY <1>1, <1>2, <1>3, <1>4 DEF Typed, JobTyped, Jobs, Busy, Locations
<1> HIDE DEF j, next
<1>6. fat' \in [Blocks -> Links] /\ avail' \in Links
  BY <1>1, <1>2, <1>3 DEF Typed, Links
<1> QED
  BY <1>1, <1>2, <1>5, <1>6, TypesKept DEF Typed

LEMMA WriteDataTypes ==
  ASSUME TypeInv, NEW p \in Procs, WriteData(p)
  PROVE TypeInv'
<1>1. Typed(p)
  BY TypedIs
<1>2. /\ at[p] = "walk" /\ content' = [content EXCEPT ![job[p].block] = job[p].file]
      /\ at' = [at EXCEPT ![p] = "meta"] /\ job' = job
      /\ UNCHANGED <<fat, avail, length, directory, dirMutex, fixed, panicked>>
  BY DEF WriteData, Running, Goto
<1>3. job' = [job EXCEPT ![p] = job[p]]
  BY <1>2 DEF TypeInv, TypeOK
<1>4. job[p].file \in Blocks
  BY <1>1, BlocksAre DEF Typed, Jobs
<1>5. content' \in [Blocks -> Blocks]
  BY <1>1, <1>2, <1>4 DEF Typed
<1>6. JobTyped(job[p], "meta") /\ "meta" \in Locations
  BY <1>1, <1>2 DEF Typed, JobTyped, Busy, Locations
<1> QED
  BY <1>1, <1>2, <1>3, <1>5, <1>6, TypesKept DEF Typed

LEMMA WriteMetaTypes ==
  ASSUME TypeInv, NEW p \in Procs, WriteMeta(p)
  PROVE TypeInv'
<1> DEFINE f == job[p].file
           newLength == job[p].offset + Written(p)
           togo == job[p].togo - Written(p)
           shrinks == newLength < length[f]
           creates == job[p].name # None
           next == Writing(f, newLength, togo, job[p].name, job[p].start)
<1>1. Typed(p) /\ at[p] = "meta"
  BY TypedIs DEF WriteMeta, Running
<1>2. job[p] \in Jobs /\ job[p].offset \in Nat /\ job[p].togo \in Nat
  BY <1>1 DEF Typed, Jobs
<1>3. newLength \in Nat /\ togo \in Nat
  BY <1>2, WrittenIs
<1>4. /\ IF shrinks THEN Truncate(p) ELSE UNCHANGED <<fat, avail>>
      /\ length' = [length EXCEPT ![f] = newLength]
      /\ UNCHANGED <<content, fixed, panicked>>
  BY DEF WriteMeta
<1>5. fat' \in [Blocks -> Links] /\ avail' \in Links
  BY <1>1, <1>2, <1>4 DEF Typed, Truncate, Jobs, JobTyped, Links
<1>6. IF creates /\ togo > 0
        THEN job' = [job EXCEPT ![p] = next] /\ at' = [at EXCEPT ![p] = "walk"]
        ELSE job' = [job EXCEPT ![p] = Idle] /\ at' = [at EXCEPT ![p] = "run"]
  BY DEF WriteMeta, Goto
<1>7. IF creates /\ togo = 0
        THEN directory' = Append(directory, [name |-> job[p].name, start |-> job[p].start]) /\ dirMutex' = None
        ELSE directory' = directory /\ dirMutex' = dirMutex
  BY DEF WriteMeta
<1>8. creates => job[p].start \in DataBlocks
  BY <1>1 DEF Typed, JobTyped, Busy
<1>9. job[p].name \in Names \cup {None} /\ job[p].start \in Blocks /\ f \in DataBlocks
  BY <1>2 DEF Jobs
<1>10. next \in Jobs /\ JobTyped(next, "walk") /\ "walk" \in Locations
  <2> HIDE DEF newLength, togo, f
  <2> QED
    BY <1>3, <1>8, <1>9, WritingIs, BlocksAre DEF Locations
<1>11. Idle \in Jobs /\ JobTyped(Idle, "run") /\ "run" \in Locations
  BY BlocksAre DEF Idle, Jobs, JobTyped, Busy, Locations
<1>12. length' \in [Blocks -> Nat]
  <2> HIDE DEF newLength, f
  <2> QED
    BY <1>1, <1>3, <1>4 DEF Typed
<1>13. directory' \in Seq(Entries) /\ dirMutex' \in Procs \cup {None}
  <2>1. creates => [name |-> job[p].name, start |-> job[p].start] \in Entries
    BY <1>8, <1>9 DEF Entries
  <2> HIDE DEF togo
  <2>2. CASE creates /\ togo = 0
    <3> DEFINE e == [name |-> job[p].name, start |-> job[p].start]
    <3>1. e \in Entries /\ directory' = Append(directory, e) /\ directory \in Seq(Entries) /\ dirMutex' = None
      BY <1>1, <1>7, <2>1, <2>2 DEF Typed
    <3> HIDE DEF e
    <3> QED
      BY <3>1
  <2>3. CASE ~(creates /\ togo = 0)
    BY <1>1, <1>7, <2>3 DEF Typed
  <2> QED
    BY <2>2, <2>3
<1>14. content' \in [Blocks -> Blocks] /\ panicked' \in BOOLEAN /\ UNCHANGED fixed
  BY <1>1, <1>4 DEF Typed
<1> HIDE DEF next, newLength, togo, f, shrinks
<1>15. CASE creates /\ togo > 0
  BY <1>5, <1>6, <1>10, <1>12, <1>13, <1>14, <1>15, TypesKept
<1>16. CASE ~(creates /\ togo > 0)
  BY <1>5, <1>6, <1>11, <1>12, <1>13, <1>14, <1>16, TypesKept
<1> QED
  BY <1>15, <1>16

LEMMA LookupTypes ==
  ASSUME TypeInv, NEW p \in Procs, NEW n \in Names, Lookup(p, n)
  PROVE TypeInv'
<1>1. Typed(p)
  BY TypedIs
<1> DEFINE j == [job[p] EXCEPT !.name = n]
<1>2. job' = [job EXCEPT ![p] = j] /\ at' = [at EXCEPT ![p] = "create"]
      /\ UNCHANGED <<fat, avail, length, content, directory, dirMutex, fixed, panicked>>
  BY DEF Lookup, Goto
<1>3. j \in Jobs /\ JobTyped(j, "create") /\ "create" \in Locations
  BY <1>1 DEF Typed, JobTyped, Jobs, Busy, Locations
<1> HIDE DEF j
<1> QED
  BY <1>1, <1>2, <1>3, TypesKept DEF Typed

LEMMA NewFileTypes ==
  ASSUME TypeInv, NEW p \in Procs, NewFile(p)
  PROVE TypeInv'
<1>1. Typed(p)
  BY TypedIs
<1>2. dirMutex' = p /\ UNCHANGED <<fat, avail, length, content, directory, fixed>>
  BY DEF NewFile
<1>3. CASE avail = 0
  <2>1. panicked' = TRUE /\ job' = job /\ at' = at
    BY <1>3 DEF NewFile
  <2>2. job' = [job EXCEPT ![p] = job[p]] /\ at' = [at EXCEPT ![p] = at[p]]
    BY <2>1 DEF TypeInv, TypeOK
  <2> QED
    BY <1>1, <1>2, <2>1, <2>2, TypesKept DEF Typed
<1>4. CASE avail # 0
  <2> DEFINE j == [job[p] EXCEPT !.start = avail]
  <2>1. job' = [job EXCEPT ![p] = j] /\ at' = [at EXCEPT ![p] = "pop"] /\ panicked' = panicked
    BY <1>4 DEF NewFile, Goto
  <2>2. j \in Jobs /\ JobTyped(j, "pop") /\ "pop" \in Locations
    BY <1>1, <1>4, BlocksAre DEF Typed, JobTyped, Jobs, Busy, Locations, Links
  <2> HIDE DEF j
  <2> QED
    BY <1>1, <1>2, <2>1, <2>2, TypesKept DEF Typed
<1> QED
  BY <1>3, <1>4

LEMMA NewPopTypes ==
  ASSUME TypeInv, NEW p \in Procs, NewPop(p)
  PROVE TypeInv'
<1>1. Typed(p) /\ at[p] = "pop"
  BY TypedIs DEF NewPop, Running
<1> DEFINE start == job[p].start
           j == Writing(Root, length[Root], EntrySize, job[p].name, start)
<1>2. start \in DataBlocks /\ start \in Blocks /\ job[p].name \in Names \cup {None}
  BY <1>1, BlocksAre DEF Typed, JobTyped, Jobs
<1>3. length[Root] \in Nat /\ EntrySize \in Nat
  BY <1>1, BlocksAre, DiskAssumption DEF Typed
<1>4. /\ avail' = fat[avail]
      /\ fat' = [fat EXCEPT ![start] = 0]
      /\ length' = [length EXCEPT ![start] = 0]
      /\ content' = [content EXCEPT ![start] = start]
      /\ UNCHANGED <<directory, dirMutex, fixed, panicked>>
  BY DEF NewPop
<1>5. job' = [job EXCEPT ![p] = j] /\ at' = [at EXCEPT ![p] = "walk"]
  BY DEF NewPop, Goto
<1> HIDE DEF start
<1>6. j \in Jobs /\ JobTyped(j, "walk") /\ "walk" \in Locations
  BY <1>2, <1>3, WritingIs, BlocksAre DEF Locations
<1>7. /\ fat' \in [Blocks -> Links] /\ avail' \in Links
      /\ length' \in [Blocks -> Nat] /\ content' \in [Blocks -> Blocks]
  BY <1>1, <1>2, <1>4, BlocksAre DEF Typed, Links
<1> HIDE DEF j
<1> QED
  BY <1>1, <1>4, <1>5, <1>6, <1>7, TypesKept DEF Typed

LEMMA RestartTypes ==
  ASSUME TypeInv, Restart
  PROVE TypeInv'
<1>1. Idle \in Jobs /\ JobTyped(Idle, "run") /\ "run" \in Locations
  BY BlocksAre DEF Idle, Jobs, JobTyped, Busy, Locations
<1>2. job' = [p \in Procs |-> Idle] /\ at' = [p \in Procs |-> "run"] /\ dirMutex' = None /\ panicked' = FALSE
      /\ fat' = diskFat /\ avail' = diskAvail /\ UNCHANGED <<length, content, directory, fixed>>
  BY DEF Restart
<1>3. job' \in [Procs -> Jobs] /\ \A p \in Procs : JobTyped(job'[p], at'[p])
  BY <1>1, <1>2
<1> QED
  BY <1>2, <1>3 DEF TypeInv, TypeOK, fixed, Jobs

LEMMA TypeStep == TypeInv /\ [Next]_vars => TypeInv'
<1> SUFFICES ASSUME TypeInv, [Next]_vars PROVE TypeInv'
  OBVIOUS
<1>1. CASE UNCHANGED vars
  BY <1>1 DEF vars, TypeInv, TypeOK, JobTyped
<1>2. ASSUME NEW p \in Procs, NEW f \in Files \ {Root}, NEW o \in Offsets(f), NEW n \in 0 .. BlockSize + 1,
             Write(p, f, o, n)
      PROVE TypeInv'
  BY <1>2, WriteTypes
<1>3. ASSUME NEW p \in Procs, NEW n \in Names, Lookup(p, n) PROVE TypeInv'
  BY <1>3, LookupTypes
<1>4. ASSUME NEW p \in Procs, NewFile(p) PROVE TypeInv'
  BY <1>4, NewFileTypes
<1>5. ASSUME NEW p \in Procs, Continue(p) PROVE TypeInv'
  BY <1>5, WalkTypes, TakeTypes, LinkTypes, WriteDataTypes, WriteMetaTypes, NewPopTypes DEF Continue
<1>6. CASE Restart
  BY <1>6, RestartTypes
<1> QED
  BY <1>1, <1>2, <1>3, <1>4, <1>5, <1>6 DEF Next

\* Whatever any processes write and create, and however the machine restarts, fat[] and
\* avail name blocks of data or nothing, and so does what OpenFile::write and newFile
\* keep between their steps (fs.cc:92-154, 302-327).
THEOREM TypeCorrect == Spec => []TypeOK
<1>1. TypeInv => TypeOK
  BY DEF TypeInv
<1> QED
  BY <1>1, TypeStart, TypeStep, PTL DEF Spec

----------------------------------------------------------------------------
(* One process that writes at the end. What follows is about blocks that   *)
(* have an owner, the first block of their file, and a position in it.     *)

\* One process, which writes in the last block of its files, on a machine that restarts
\* only before it allocates.
OneWriter ==
  /\ \E p : Procs = {p}
  /\ Seeks # "anywhere" /\ Restarts # "any time"

\* Blocks are handed out from the last one down, and none comes back.
Used == {b \in DataBlocks : b > avail}

\* The blocks of a file are those that it owns, each behind the one before it.
ChainsInv(own, pos) ==
  /\ \A f \in Owners : f \in Used /\ own[f] = f /\ pos[f] = 0
  /\ \A b \in Used :
       /\ own[b] \in Owners /\ pos[b] + avail < nBlocks
       /\ fat[b] # 0 => fat[b] \in Used /\ own[fat[b]] = own[b] /\ pos[fat[b]] = pos[b] + 1
  /\ \A b, c \in Used : own[b] = own[c] /\ pos[b] = pos[c] => b = c
  /\ \A b, c \in Used : fat[b] = 0 /\ own[b] = own[c] => pos[c] <= pos[b]
  /\ \A f \in Owners : \E e \in Used : own[e] = f /\ fat[e] = 0

\* The free chain goes down to the first block of data.
FreeInv ==
  \A b \in DataBlocks \ Used : fat[b] = IF b = fatBlocks + 1 THEN 0 ELSE b - 1

\* The last block of a file is there when there is something in it, and may be there
\* when there is about to be.
LengthInv(own, pos) ==
  \A e \in Used : fat[e] = 0 =>
    /\ length[own[e]] > 0 => BlockInFile(length[own[e]] - 1) <= pos[e]
    /\ pos[e] <= BlockInFile(length[own[e]])

\* A block that its file has written to holds what the file wrote.
ContentInv(own, pos) ==
  \A b \in Used :
    (pos[b] = 0 \/ (length[own[b]] > 0 /\ pos[b] <= BlockInFile(length[own[b]] - 1))) => content[b] = own[b]

\* A write is on its way to the last block of its file.
JobFits(own, pos, p) ==
  /\ at[p] \in Busy =>
       /\ job[p].file \in Files /\ job[p].block \in Used /\ own[job[p].block] = job[p].file
       /\ pos[job[p].block] + job[p].steps = BlockInFile(job[p].offset)
       /\ BlockInFile(job[p].offset) = BlockInFile(length[job[p].file])
       /\ job[p].name # None => avail < diskAvail
  /\ at[p] = "link" => job[p].next = avail /\ fat[job[p].block] = 0
  /\ at[p] = "meta" => job[p].steps = 0 /\ content[job[p].block] = job[p].file
  /\ at[p] \in {"create", "pop"} => job[p].name # None
  /\ at[p] = "pop" => job[p].start = avail

JobInv(own, pos) == \A p \in Procs : JobFits(own, pos, p)

Accounted(own, pos) ==
  /\ own \in [DataBlocks -> DataBlocks] /\ pos \in [DataBlocks -> Nat]
  /\ ChainsInv(own, pos) /\ FreeInv /\ LengthInv(own, pos) /\ ContentInv(own, pos) /\ JobInv(own, pos)
  /\ avail <= diskAvail

IInv == TypeInv /\ \E own, pos : Accounted(own, pos)

----------------------------------------------------------------------------
(* What it means for the chains.                                           *)

\* The walk along the chain of a file finds its blocks in order, and then the end.
LEMMA FileChain ==
  ASSUME TypeInv, NEW own, NEW pos, Accounted(own, pos), NEW f \in Owners,
         NEW e \in Used, own[e] = f, fat[e] = 0, NEW k \in 0 .. nBlocks
  PROVE IF k <= pos[e]
          THEN After(f, fat)[k] \in Used /\ own[After(f, fat)[k]] = f /\ pos[After(f, fat)[k]] = k
          ELSE After(f, fat)[k] = 0
<1> DEFINE A == After(f, fat)
           Here(n) == IF n <= pos[e] THEN A[n] \in Used /\ own[A[n]] = f /\ pos[A[n]] = n ELSE A[n] = 0
           P == {n \in 0 .. nBlocks : Here(n)}
<1>1. nBlocks \in Nat /\ e \in DataBlocks /\ pos[e] \in Nat /\ f \in Used /\ f \in Links
      /\ own[f] = f /\ pos[f] = 0
  BY BlocksAre DEF Accounted, ChainsInv, Used, Links
<1>2. A[0] = f /\ \A n \in 1 .. nBlocks : A[n] = IF A[n - 1] = 0 THEN 0 ELSE fat[A[n - 1]]
  BY <1>1, AfterIs DEF TypeInv
<1> HIDE DEF A
<1>3. 0 \in P
  BY <1>1, <1>2
<1>4. ASSUME NEW n \in 1 .. nBlocks, n - 1 \in P PROVE n \in P
  <2>1. Here(n - 1) /\ n - 1 \in Nat /\ n \in Nat
    BY <1>1, <1>4
  <2>2. A[n] = IF A[n - 1] = 0 THEN 0 ELSE fat[A[n - 1]]
    BY <1>2
  <2>3. CASE n - 1 > pos[e]
    <3>1. A[n - 1] = 0 /\ ~(n <= pos[e])
      BY <1>1, <2>1, <2>3
    <3> QED
      BY <2>2, <3>1
  <2>4. CASE n - 1 <= pos[e]
    <3> DEFINE b == A[n - 1]
    <3>1. b \in Used /\ own[b] = f /\ pos[b] = n - 1 /\ b # 0
      BY <2>1, <2>4, BlocksAre DEF Used
    <3>2. A[n] = fat[b]
      BY <2>2, <3>1
    <3> HIDE DEF b
    <3>3. CASE n - 1 = pos[e]
      <4>1. b = e
        BY <3>1, <3>3 DEF Accounted, ChainsInv
      <4>2. A[n] = 0 /\ ~(n <= pos[e])
        BY <1>1, <2>1, <3>2, <3>3, <4>1
      <4> QED
        BY <4>2
    <3>4. CASE n - 1 < pos[e]
      <4>1. fat[b] # 0
        <5>1. fat[b] = 0 => pos[e] <= pos[b]
          BY <3>1 DEF Accounted, ChainsInv
        <5> QED
          BY <1>1, <2>1, <3>1, <3>4, <5>1
      <4>2. fat[b] \in Used /\ own[fat[b]] = f /\ pos[fat[b]] = (n - 1) + 1
        BY <3>1, <4>1 DEF Accounted, ChainsInv
      <4>3. (n - 1) + 1 = n /\ n <= pos[e]
        BY <1>1, <2>1, <3>4
      <4> QED
        BY <3>2, <4>2, <4>3
    <3> QED
      BY <1>1, <2>1, <2>4, <3>3, <3>4
  <2> QED
    BY <1>1, <2>1, <2>3, <2>4
<1>5. 0 .. nBlocks \subseteq P
  <2> HIDE DEF P
  <2> QED
    BY <1>1, <1>3, <1>4, Upward
<1>6. Here(k)
  BY <1>5
<1> QED
  BY <1>6 DEF A

\* The free chain counts down.
LEMMA FreeChain ==
  ASSUME TypeInv, FreeInv, NEW k \in 0 .. nBlocks
  PROVE After(avail, fat)[k] = IF avail - k >= fatBlocks + 1 THEN avail - k ELSE 0
<1> DEFINE A == After(avail, fat)
           Here(n) == A[n] = IF avail - n >= fatBlocks + 1 THEN avail - n ELSE 0
           P == {n \in 0 .. nBlocks : Here(n)}
<1>1. /\ nBlocks \in Nat /\ fatBlocks \in Nat
      /\ avail \in Links /\ avail \in Nat /\ avail <= nBlocks - 1
      /\ avail = 0 \/ avail >= fatBlocks + 1
  BY BlocksAre DEF TypeInv, Links
<1>2. A[0] = avail /\ \A n \in 1 .. nBlocks : A[n] = IF A[n - 1] = 0 THEN 0 ELSE fat[A[n - 1]]
  BY <1>1, AfterIs DEF TypeInv
<1> HIDE DEF A
<1>3. 0 \in P
  BY <1>1, <1>2
<1>4. ASSUME NEW n \in 1 .. nBlocks, n - 1 \in P PROVE n \in P
  <2>1. Here(n - 1) /\ n - 1 \in Nat /\ n \in Nat
    BY <1>1, <1>4
  <2>2. A[n] = IF A[n - 1] = 0 THEN 0 ELSE fat[A[n - 1]]
    BY <1>2
  <2> DEFINE b == avail - (n - 1)
  <2>3. CASE b >= fatBlocks + 1
    <3>1. b \in DataBlocks \ Used /\ b \in Nat /\ b # 0 /\ A[n - 1] = b
      BY <1>1, <2>1, <2>3 DEF DataBlocks, Used
    <3>2. A[n] = IF b = fatBlocks + 1 THEN 0 ELSE b - 1
      BY <2>2, <3>1 DEF FreeInv
    <3>3. b - 1 = avail - n
      BY <1>1, <2>1
    <3> HIDE DEF b
    <3> QED
      BY <1>1, <2>3, <3>1, <3>2, <3>3
  <2>4. CASE ~(b >= fatBlocks + 1)
    <3>1. A[n] = 0
      BY <2>1, <2>2, <2>4
    <3> QED
      BY <1>1, <2>1, <2>4, <3>1
  <2> QED
    BY <2>3, <2>4
<1>5. 0 .. nBlocks \subseteq P
  <2> HIDE DEF P
  <2> QED
    BY <1>1, <1>3, <1>4, Upward
<1>6. Here(k)
  BY <1>5
<1> QED
  BY <1>6 DEF A

\* The chain of a file is the blocks it owns, the free chain the blocks that are not used.
LEMMA ChainsAre ==
  ASSUME TypeInv, NEW own, NEW pos, Accounted(own, pos)
  PROVE /\ \A f \in Owners : Chain(f, fat) = {b \in Used : own[b] = f} /\ ~Endless(f, fat)
        /\ Chain(avail, fat) = DataBlocks \ Used /\ ~Endless(avail, fat)
<1>1. nBlocks \in Nat /\ fatBlocks \in Nat /\ avail \in Nat /\ avail <= nBlocks - 1
  BY BlocksAre DEF TypeInv, Links
<1>2. ASSUME NEW f \in Owners
      PROVE Chain(f, fat) = {b \in Used : own[b] = f} /\ ~Endless(f, fat)
  <2> DEFINE A == After(f, fat)
  <2>1. PICK e \in Used : own[e] = f /\ fat[e] = 0
    BY DEF Accounted, ChainsInv
  <2>2. \A k \in 0 .. nBlocks :
          IF k <= pos[e] THEN A[k] \in Used /\ own[A[k]] = f /\ pos[A[k]] = k ELSE A[k] = 0
    BY <2>1, FileChain
  <2>3. pos[e] \in Nat /\ pos[e] + avail < nBlocks
    BY DEF Accounted, ChainsInv, Used
  <2> HIDE DEF A
  <2>4. ~Endless(f, fat)
    BY <1>1, <2>2, <2>3 DEF Endless, A
  <2>5. ASSUME NEW b \in Chain(f, fat) PROVE b \in Used /\ own[b] = f
    BY <2>2 DEF Chain, A
  <2>6. ASSUME NEW b \in Used, own[b] = f PROVE b \in Chain(f, fat)
    <3>1. pos[b] \in Nat /\ pos[b] <= pos[e] /\ b # 0
      BY <2>1, <2>6, BlocksAre DEF Accounted, ChainsInv, Used
    <3>2. pos[b] \in 0 .. nBlocks
      BY <1>1, <2>3, <3>1
    <3>3. A[pos[b]] \in Used /\ own[A[pos[b]]] = f /\ pos[A[pos[b]]] = pos[b]
      BY <2>2, <3>1, <3>2
    <3>4. A[pos[b]] = b
      BY <2>6, <3>3 DEF Accounted, ChainsInv
    <3> QED
      BY <3>1, <3>2, <3>4 DEF Chain, A
  <2> QED
    BY <2>4, <2>5, <2>6
<1>3. \A k \in 0 .. nBlocks : After(avail, fat)[k] = IF avail - k >= fatBlocks + 1 THEN avail - k ELSE 0
  BY FreeChain DEF Accounted
<1>4. ~Endless(avail, fat)
  BY <1>1, <1>3 DEF Endless
<1>5. ASSUME NEW b \in Chain(avail, fat) PROVE b \in DataBlocks \ Used
  <2>1. PICK k \in 0 .. nBlocks : b = After(avail, fat)[k] /\ b # 0
    BY DEF Chain
  <2>2. b = avail - k /\ avail - k >= fatBlocks + 1
    BY <1>3, <2>1
  <2> QED
    BY <1>1, <2>2 DEF DataBlocks, Used
<1>6. ASSUME NEW b \in DataBlocks \ Used PROVE b \in Chain(avail, fat)
  <2>1. b \in Nat /\ b >= fatBlocks + 1 /\ b <= avail
    BY <1>1, BlocksAre DEF Used
  <2>2. avail - b \in 0 .. nBlocks /\ avail - (avail - b) = b
    BY <1>1, <2>1
  <2>3. After(avail, fat)[avail - b] = b
    BY <1>3, <2>1, <2>2
  <2> QED
    BY <1>1, <2>1, <2>2, <2>3 DEF Chain
<1>7. Chain(avail, fat) = DataBlocks \ Used
  BY <1>5, <1>6
<1> QED
  BY <1>2, <1>4, <1>7

LEMMA AllAccountedFor == IInv => BlocksAccountedFor
<1> SUFFICES ASSUME TypeInv, NEW own, NEW pos, Accounted(own, pos) PROVE BlocksAccountedFor
  BY DEF IInv
<1>1. /\ \A f \in Owners : Chain(f, fat) = {b \in Used : own[b] = f} /\ ~Endless(f, fat)
      /\ Chain(avail, fat) = DataBlocks \ Used /\ ~Endless(avail, fat)
  BY ChainsAre
<1>2. \A b \in Used : own[b] \in Owners
  BY DEF Accounted, ChainsInv
<1>3. Used \subseteq DataBlocks
  BY DEF Used
<1>4. UNION {Chain(f, fat) : f \in Owners} = Used
  BY <1>1, <1>2
<1> QED
  BY <1>1, <1>3, <1>4 DEF BlocksAccountedFor

\* What a read of the byte at an offset finds.
LEMMA ReadFinds ==
  ASSUME TypeInv, NEW own, NEW pos, Accounted(own, pos), NEW f \in Files, NEW o \in 0 .. length[f] - 1
  PROVE /\ After(f, fat)[BlockInFile(o)] # 0
        /\ content[After(f, fat)[BlockInFile(o)]] = f
<1>1. f \in Owners /\ f \in DataBlocks
  BY BlocksAre DEF Owners, Accounted, ChainsInv, Used
<1>2. PICK e \in Used : own[e] = f /\ fat[e] = 0
  BY <1>1 DEF Accounted, ChainsInv
<1>3. length[f] \in Nat /\ o \in Nat /\ length[f] - 1 \in Nat /\ o <= length[f] - 1 /\ length[f] > 0
  <2>1. length[f] \in Nat
    BY <1>1, BlocksAre DEF TypeInv, TypeOK
  <2> QED
    BY <2>1
<1> DEFINE k == BlockInFile(o)
           b == After(f, fat)[k]
           last == BlockInFile(length[f] - 1)
<1>4. k \in Nat /\ last \in Nat /\ k <= last
  BY <1>3, BlockInFileIs
<1>5. last <= pos[e] /\ pos[e] \in Nat /\ pos[e] + avail < nBlocks /\ avail \in Nat /\ nBlocks \in Nat
  BY <1>2, <1>3, BlocksAre DEF Accounted, LengthInv, ChainsInv, Used, TypeInv, Links
<1> HIDE DEF k, last
<1>6. k <= pos[e] /\ k \in 0 .. nBlocks
  BY <1>4, <1>5
<1>7. b \in Used /\ own[b] = f /\ pos[b] = k
  BY <1>1, <1>2, <1>6, FileChain
<1> HIDE DEF b
<1>8. content[b] = f
  BY <1>3, <1>4, <1>7 DEF Accounted, ContentInv, last
<1>9. b # 0
  BY <1>7, BlocksAre DEF Used
<1> QED
  BY <1>8, <1>9 DEF b, k

LEMMA AllReadable == IInv => ReadsStayInChain
<1> SUFFICES ASSUME TypeInv, NEW own, NEW pos, Accounted(own, pos), NEW f \in Files, length[f] > 0
             PROVE After(f, fat)[BlockInFile(length[f] - 1)] # 0
  BY DEF IInv, ReadsStayInChain
<1>1. f \in DataBlocks
  BY DEF Owners, Accounted, ChainsInv, Used
<1>2. length[f] \in Nat
  BY <1>1, BlocksAre DEF TypeInv, TypeOK
<1>3. length[f] - 1 \in 0 .. length[f] - 1
  BY <1>2
<1> QED
  BY <1>3, ReadFinds

LEMMA AllOwn == IInv => OwnData
<1> SUFFICES ASSUME TypeInv, NEW own, NEW pos, Accounted(own, pos), NEW f \in Files
             PROVE /\ content[f] = f
                   /\ \A o \in 0 .. length[f] - 1 : content[After(f, fat)[BlockInFile(o)]] = f
  BY DEF IInv, OwnData
<1>1. f \in Used /\ own[f] = f /\ pos[f] = 0
  BY DEF Owners, Accounted, ChainsInv
<1>2. content[f] = f
  BY <1>1 DEF Accounted, ContentInv
<1> QED
  BY <1>2, ReadFinds

----------------------------------------------------------------------------
(* The steps of the one process.                                           *)

\* The file that newFile has yet to enter.
Pending(p) == IF at[p] \in Busy /\ job[p].name # None THEN {job[p].start} ELSE {}

LEMMA OwnersAre ==
  ASSUME NEW p, Procs = {p}
  PROVE Owners = Files \cup Pending(p) /\ Owners' = Files' \cup Pending(p)'
BY DEF Owners, Pending, Busy

\* What the process does leaves.
LEMMA Now ==
  ASSUME TypeInv, NEW p \in Procs, NEW j, NEW l, job' = [job EXCEPT ![p] = j], at' = [at EXCEPT ![p] = l]
  PROVE job'[p] = j /\ at'[p] = l
BY DEF TypeInv, TypeOK

\* Steps that leave the chains alone.
LEMMA ChainsKept ==
  ASSUME NEW own, NEW pos, Accounted(own, pos), Owners' = Owners, fat' = fat, avail' = avail
  PROVE ChainsInv(own, pos)' /\ FreeInv' /\ Used' = Used
<1>1. Used' = Used
  BY DEF Used
<1>2. FreeInv'
  BY <1>1 DEF Accounted, FreeInv
<1>3. ChainsInv(own, pos)'
  BY <1>1 DEF Accounted, ChainsInv
<1> QED
  BY <1>1, <1>2, <1>3

\* A block is taken off the free chain.
LEMMA UsedGrows ==
  ASSUME TypeInv, FreeInv, avail # 0, avail' = fat[avail]
  PROVE /\ avail \in DataBlocks /\ avail \notin Used /\ Used' = Used \cup {avail}
        /\ avail' \in Nat /\ avail \in Nat /\ avail' < avail
<1>1. avail \in DataBlocks /\ avail \in Nat /\ avail >= fatBlocks + 1 /\ fatBlocks \in Nat /\ avail <= nBlocks - 1
  BY BlocksAre DEF TypeInv, Links
<1>2. avail \notin Used
  BY <1>1 DEF Used
<1>3. avail' = IF avail = fatBlocks + 1 THEN 0 ELSE avail - 1
  BY <1>1, <1>2 DEF FreeInv
<1>4. Used' = {b \in DataBlocks : b > avail'}
  BY DEF Used
<1>5. \A b \in DataBlocks : b > avail' <=> b > avail \/ b = avail
  <2> SUFFICES ASSUME NEW b \in DataBlocks PROVE b > avail' <=> b > avail \/ b = avail
    OBVIOUS
  <2>1. b \in Nat /\ b >= fatBlocks + 1
    BY BlocksAre
  <2> QED
    BY <1>1, <1>3, <2>1
<1>6. Used' = Used \cup {avail}
  BY <1>1, <1>4, <1>5 DEF Used
<1>7. avail' \in Nat /\ avail' < avail
  BY <1>1, <1>3
<1> QED
  BY <1>1, <1>2, <1>6, <1>7

LEMMA WriteStep ==
  ASSUME TypeInv, OneWriter, NEW own, NEW pos, Accounted(own, pos), NEW p \in Procs,
         NEW f \in Files \ {Root}, NEW o \in Offsets(f), NEW n \in 0 .. BlockSize + 1, Write(p, f, o, n)
  PROVE Accounted(own, pos)'
<1> DEFINE j == Writing(f, o, n, None, 0)
<1>1. /\ at[p] = "run" /\ job' = [job EXCEPT ![p] = j] /\ at' = [at EXCEPT ![p] = "walk"]
      /\ UNCHANGED <<fat, avail, length, content, directory, fixed>>
  BY DEF Write, Running, Goto
<1>2. Procs = {p}
  BY DEF OneWriter
<1>3. job'[p] = j /\ at'[p] = "walk"
  <2> HIDE DEF j
  <2> QED
    BY <1>1, Now
<1>4. j.file = f /\ j.block = f /\ j.offset = o /\ j.steps = BlockInFile(o) /\ j.name = None
  BY DEF Writing
<1> HIDE DEF j
<1>5. Files' = Files
  BY <1>1 DEF Files
<1>6. Pending(p) = {} /\ Pending(p)' = {}
  BY <1>1, <1>3, <1>4 DEF Pending, Busy
<1>7. Owners' = Owners
  BY <1>2, <1>5, <1>6, OwnersAre
<1>8. ChainsInv(own, pos)' /\ FreeInv' /\ Used' = Used
  BY <1>1, <1>7, ChainsKept
<1>9. f \in Used /\ own[f] = f /\ pos[f] = 0
  BY DEF Owners, Accounted, ChainsInv
<1>10. o \in Nat /\ BlockInFile(o) = BlockInFile(length[f]) /\ BlockInFile(o) \in Nat
  <2>1. length[f] \in Nat
    BY <1>9, BlocksAre DEF Used, TypeInv, TypeOK
  <2> QED
    BY <2>1, OffsetsAre, BlockInFileIs DEF OneWriter
<1>11. JobFits(own, pos, p)'
  <2>1. pos[f] + BlockInFile(o) = BlockInFile(o)
    BY <1>9, <1>10
  <2> QED
    BY <1>1, <1>3, <1>4, <1>5, <1>8, <1>9, <1>10, <2>1 DEF JobFits
<1>12. JobInv(own, pos)'
  BY <1>2, <1>11 DEF JobInv
<1>13. LengthInv(own, pos)' /\ ContentInv(own, pos)'
  BY <1>1, <1>8 DEF Accounted, LengthInv, ContentInv
<1> QED
  BY <1>1, <1>8, <1>12, <1>13 DEF Accounted, fixed

LEMMA WalkStep ==
  ASSUME TypeInv, OneWriter, NEW own, NEW pos, Accounted(own, pos), NEW p \in Procs, Walk(p)
  PROVE Accounted(own, pos)'
<1> DEFINE b == job[p].block
           j == [job[p] EXCEPT !.block = fat[b], !.steps = job[p].steps - 1]
<1>1. /\ at[p] = "walk" /\ job[p].steps > 0 /\ fat[b] # 0
      /\ job' = [job EXCEPT ![p] = j] /\ at' = at
      /\ UNCHANGED <<fat, avail, length, content, directory, fixed>>
  BY DEF Walk, Running
<1>2. Procs = {p} /\ Typed(p)
  BY TypedIs DEF OneWriter
<1>3. job'[p] = j /\ at'[p] = "walk"
  <2>1. at' = [at EXCEPT ![p] = "walk"]
    BY <1>1 DEF TypeInv, TypeOK
  <2> HIDE DEF j
  <2> QED
    BY <1>1, <2>1, Now
<1>4. /\ j.file = job[p].file /\ j.block = fat[b] /\ j.offset = job[p].offset /\ j.steps = job[p].steps - 1
      /\ j.name = job[p].name /\ j.start = job[p].start
  BY <1>2 DEF Typed, Jobs
<1> HIDE DEF j
<1>5. Files' = Files
  BY <1>1 DEF Files
<1>6. Pending(p)' = Pending(p)
  BY <1>1, <1>3, <1>4 DEF Pending
<1>7. Owners' = Owners
  BY <1>2, <1>5, <1>6, OwnersAre
<1>8. ChainsInv(own, pos)' /\ FreeInv' /\ Used' = Used
  BY <1>1, <1>7, ChainsKept
<1>9. JobFits(own, pos, p) /\ at[p] \in Busy
  BY <1>1 DEF Accounted, JobInv, Busy
<1>10. b \in Used /\ fat[b] \in Used /\ own[fat[b]] = own[b] /\ pos[fat[b]] = pos[b] + 1
  BY <1>1, <1>9 DEF JobFits, Accounted, ChainsInv
<1>11. pos[fat[b]] + (job[p].steps - 1) = pos[b] + job[p].steps
  <2>1. pos[b] \in Nat /\ job[p].steps \in Nat
    BY <1>2, <1>10 DEF Accounted, Used, Typed, Jobs
  <2> HIDE DEF b
  <2> QED
    BY <1>10, <2>1
<1>12. JobFits(own, pos, p)'
  BY <1>1, <1>3, <1>4, <1>5, <1>8, <1>9, <1>10, <1>11 DEF JobFits, fixed
<1>13. JobInv(own, pos)'
  BY <1>2, <1>12 DEF JobInv
<1>14. LengthInv(own, pos)' /\ ContentInv(own, pos)'
  BY <1>1, <1>8 DEF Accounted, LengthInv, ContentInv
<1> QED
  BY <1>1, <1>8, <1>13, <1>14 DEF Accounted, fixed

LEMMA TakeStep ==
  ASSUME TypeInv, OneWriter, NEW own, NEW pos, Accounted(own, pos), NEW p \in Procs, Take(p)
  PROVE Accounted(own, pos)'
<1> DEFINE j == [job[p] EXCEPT !.next = avail]
<1>1. /\ at[p] = "walk" /\ fat[job[p].block] = 0
      /\ UNCHANGED <<fat, avail, length, content, directory, fixed>>
      /\ IF avail = 0 THEN job' = job /\ at' = at
         ELSE job' = [job EXCEPT ![p] = j] /\ at' = [at EXCEPT ![p] = "link"]
  BY DEF Take, Running, Goto
<1>2. Procs = {p} /\ Typed(p)
  BY TypedIs DEF OneWriter
<1>3. /\ j.file = job[p].file /\ j.block = job[p].block /\ j.offset = job[p].offset /\ j.steps = job[p].steps
      /\ j.name = job[p].name /\ j.start = job[p].start /\ j.next = avail
  BY <1>2 DEF Typed, Jobs
<1> HIDE DEF j
<1>4. (job'[p] = job[p] /\ at'[p] = "walk") \/ (job'[p] = j /\ at'[p] = "link")
  <2>1. CASE avail = 0
    BY <1>1, <2>1
  <2>2. CASE avail # 0
    BY <1>1, <2>2, Now
  <2> QED
    BY <2>1, <2>2
<1>5. Files' = Files
  BY <1>1 DEF Files
<1>6. Pending(p)' = Pending(p)
  BY <1>1, <1>3, <1>4 DEF Pending, Busy
<1>7. Owners' = Owners
  BY <1>2, <1>5, <1>6, OwnersAre
<1>8. ChainsInv(own, pos)' /\ FreeInv' /\ Used' = Used
  BY <1>1, <1>7, ChainsKept
<1>9. JobFits(own, pos, p) /\ at[p] \in Busy
  BY <1>1 DEF Accounted, JobInv, Busy
<1>10. JobFits(own, pos, p)'
  BY <1>1, <1>3, <1>4, <1>5, <1>8, <1>9 DEF JobFits, fixed
<1>11. JobInv(own, pos)'
  BY <1>2, <1>10 DEF JobInv
<1>12. LengthInv(own, pos)' /\ ContentInv(own, pos)'
  BY <1>1, <1>8 DEF Accounted, LengthInv, ContentInv
<1> QED
  BY <1>1, <1>8, <1>11, <1>12 DEF Accounted, fixed

LEMMA WriteDataStep ==
  ASSUME TypeInv, OneWriter, NEW own, NEW pos, Accounted(own, pos), NEW p \in Procs, WriteData(p)
  PROVE Accounted(own, pos)'
<1>1. /\ at[p] = "walk" /\ job[p].steps = 0 /\ job' = job /\ at' = [at EXCEPT ![p] = "meta"]
      /\ content' = [content EXCEPT ![job[p].block] = job[p].file]
      /\ UNCHANGED <<fat, avail, length, directory, fixed>>
  BY DEF WriteData, Running, Goto
<1>2. Procs = {p} /\ Typed(p)
  BY TypedIs DEF OneWriter
<1>3. job'[p] = job[p] /\ at'[p] = "meta"
  BY <1>1 DEF TypeInv, TypeOK
<1>4. Files' = Files
  BY <1>1 DEF Files
<1>5. Pending(p)' = Pending(p)
  BY <1>1, <1>3 DEF Pending, Busy
<1>6. Owners' = Owners
  BY <1>2, <1>4, <1>5, OwnersAre
<1>7. ChainsInv(own, pos)' /\ FreeInv' /\ Used' = Used
  BY <1>1, <1>6, ChainsKept
<1>8. JobFits(own, pos, p) /\ at[p] \in Busy
  BY <1>1 DEF Accounted, JobInv, Busy
<1>9. job[p].block \in Used /\ own[job[p].block] = job[p].file /\ job[p].block \in Blocks
  BY <1>8, BlocksAre DEF JobFits, Used
<1>10. content'[job[p].block] = job[p].file
  BY <1>1, <1>2, <1>9 DEF Typed
<1>11. JobFits(own, pos, p)'
  BY <1>1, <1>3, <1>4, <1>7, <1>8, <1>10 DEF JobFits, fixed
<1>12. JobInv(own, pos)'
  BY <1>2, <1>11 DEF JobInv
<1>13. LengthInv(own, pos)'
  BY <1>1, <1>7 DEF Accounted, LengthInv
<1>14. ContentInv(own, pos)'
  <2> SUFFICES ASSUME NEW b \in Used,
                      pos[b] = 0 \/ (length[own[b]] > 0 /\ pos[b] <= BlockInFile(length[own[b]] - 1))
               PROVE content'[b] = own[b]
    BY <1>1, <1>7 DEF ContentInv
  <2>1. b \in Blocks /\ content[b] = own[b]
    BY BlocksAre DEF Used, Accounted, ContentInv
  <2> QED
    BY <1>1, <1>2, <1>9, <2>1 DEF Typed
<1> QED
  BY <1>1, <1>7, <1>12, <1>13, <1>14 DEF Accounted, fixed

\* A block is appended to the chain of a file.
LEMMA LinkStep ==
  ASSUME TypeInv, OneWriter, NEW own, NEW pos, Accounted(own, pos), NEW p \in Procs, Link(p)
  PROVE \E newOwn, newPos : Accounted(newOwn, newPos)'
<1> DEFINE b == job[p].block
           f == job[p].file
           a == avail
           j == [job[p] EXCEPT !.block = a, !.steps = job[p].steps - 1, !.next = 0]
<1>1. /\ at[p] = "link" /\ JobFits(own, pos, p) /\ at[p] \in Busy
      /\ Procs = {p} /\ Typed(p) /\ job[p].next = a
  BY TypedIs DEF Link, Running, OneWriter, Accounted, JobInv, JobFits, Busy
<1>2. /\ avail' = fat[a] /\ fat' = [fat EXCEPT ![a] = 0, ![b] = a]
      /\ job' = [job EXCEPT ![p] = j] /\ at' = [at EXCEPT ![p] = "walk"]
      /\ UNCHANGED <<length, content, directory, fixed>>
  BY <1>1 DEF Link, Goto
<1>3. a # 0 /\ job[p].steps > 0 /\ job[p].steps \in Nat
  BY <1>1, BlocksAre DEF Typed, JobTyped, Jobs
<1>4. /\ a \in DataBlocks /\ a \notin Used /\ Used' = Used \cup {a}
      /\ avail' \in Nat /\ a \in Nat /\ avail' < a
  BY <1>2, <1>3, UsedGrows DEF Accounted
<1>5. job'[p] = j /\ at'[p] = "walk"
  <2> HIDE DEF j
  <2> QED
    BY <1>2, Now
<1>6. /\ j.file = f /\ j.block = a /\ j.offset = job[p].offset /\ j.steps = job[p].steps - 1
      /\ j.name = job[p].name /\ j.start = job[p].start
  BY <1>1 DEF Typed, Jobs
<1> HIDE DEF j
<1>7. /\ f \in Files /\ f \in Owners /\ b \in Used /\ b \in DataBlocks /\ own[b] = f /\ fat[b] = 0 /\ b # a
      /\ pos[b] + job[p].steps = BlockInFile(job[p].offset)
      /\ BlockInFile(job[p].offset) = BlockInFile(length[f])
  BY <1>1, <1>4 DEF JobFits, Owners, Used
<1> HIDE DEF f, b, a
<1>8. Files' = Files
  BY <1>2 DEF Files
<1>9. Pending(p)' = Pending(p)
  BY <1>1, <1>5, <1>6 DEF Pending, Busy
<1>10. Owners' = Owners
  BY <1>1, <1>8, <1>9, OwnersAre
<1>11. /\ own \in [DataBlocks -> DataBlocks] /\ pos \in [DataBlocks -> Nat]
       /\ ChainsInv(own, pos) /\ FreeInv /\ LengthInv(own, pos) /\ ContentInv(own, pos)
       /\ avail <= diskAvail /\ Used \subseteq DataBlocks
  BY DEF Accounted, Used
<1> PICK newOwn, newPos : newOwn = [own EXCEPT ![a] = f] /\ newPos = [pos EXCEPT ![a] = pos[b] + 1]
  OBVIOUS
<1>12. /\ newOwn \in [DataBlocks -> DataBlocks] /\ newPos \in [DataBlocks -> Nat]
       /\ newOwn[a] = f /\ newPos[a] = pos[b] + 1
       /\ \A c \in Used : newOwn[c] = own[c] /\ newPos[c] = pos[c]
  <2>1. f \in DataBlocks /\ pos[b] + 1 \in Nat
    BY <1>1, <1>7, <1>11 DEF f, Typed, Jobs
  <2> QED
    BY <1>4, <1>11, <2>1
<1>13. /\ fat'[a] = 0 /\ fat'[b] = a
       /\ \A c \in DataBlocks : c # a /\ c # b => fat'[c] = fat[c]
  BY <1>2, <1>4, <1>7, BlocksAre DEF TypeInv
<1>14. \A c \in Used : own[c] = f => pos[c] <= pos[b]
  BY <1>7, <1>11 DEF ChainsInv
<1>15. pos[b] \in Nat /\ \A c \in Used : pos[c] \in Nat
  BY <1>7, <1>11
<1>16. FreeInv'
  <2> SUFFICES ASSUME NEW c \in DataBlocks \ Used'
               PROVE fat'[c] = IF c = fatBlocks + 1 THEN 0 ELSE c - 1
    BY DEF FreeInv
  <2>1. c \in DataBlocks \ Used /\ c # a /\ c # b
    BY <1>4, <1>7
  <2> QED
    BY <1>11, <1>13, <2>1 DEF FreeInv
<1>17. ChainsInv(newOwn, newPos)'
  <2>1. ASSUME NEW g \in Owners PROVE g \in Used' /\ newOwn[g] = g /\ newPos[g] = 0
    BY <1>4, <1>11, <1>12 DEF ChainsInv
  <2>2. ASSUME NEW c \in Used'
        PROVE /\ newOwn[c] \in Owners /\ newPos[c] + avail' < nBlocks
              /\ fat'[c] # 0 => fat'[c] \in Used' /\ newOwn[fat'[c]] = newOwn[c] /\ newPos[fat'[c]] = newPos[c] + 1
    <3>1. CASE c = a
      <4>1. pos[b] + avail < nBlocks
        BY <1>7, <1>11 DEF ChainsInv
      <4>2. (pos[b] + 1) + avail' < nBlocks
        BY <1>4, <1>15, <4>1, BlocksAre DEF a
      <4> QED
        BY <1>7, <1>12, <1>13, <3>1, <4>2
    <3>2. CASE c # a
      <4>1. c \in Used /\ newOwn[c] = own[c] /\ newPos[c] = pos[c] /\ own[c] \in Owners /\ pos[c] \in Nat
            /\ pos[c] + avail < nBlocks
        BY <1>4, <1>11, <1>12, <1>15, <3>2 DEF ChainsInv
      <4>2. pos[c] + avail' < nBlocks
        BY <1>4, <4>1, BlocksAre DEF a
      <4>3. CASE c = b
        BY <1>4, <1>7, <1>12, <1>13, <4>1, <4>2, <4>3
      <4>4. CASE c # b
        <5>1. fat'[c] = fat[c]
          BY <1>11, <1>13, <3>2, <4>1, <4>4
        <5>2. fat[c] # 0 => fat[c] \in Used /\ own[fat[c]] = own[c] /\ pos[fat[c]] = pos[c] + 1
          BY <1>11, <4>1 DEF ChainsInv
        <5> QED
          BY <1>4, <1>12, <4>1, <4>2, <5>1, <5>2
      <4> QED
        BY <4>3, <4>4
    <3> QED
      BY <3>1, <3>2
  <2>3. ASSUME NEW c \in Used', NEW d \in Used', newOwn[c] = newOwn[d], newPos[c] = newPos[d] PROVE c = d
    <3>1. \A e \in Used : ~(own[e] = f /\ pos[e] = pos[b] + 1)
      <4> SUFFICES ASSUME NEW e \in Used, own[e] = f, pos[e] = pos[b] + 1 PROVE FALSE
        OBVIOUS
      <4>1. pos[e] <= pos[b]
        BY <1>14
      <4> QED
        BY <1>15, <4>1
    <3> QED
      BY <1>4, <1>11, <1>12, <2>3, <3>1 DEF ChainsInv
  <2>4. ASSUME NEW c \in Used', NEW d \in Used', fat'[c] = 0, newOwn[c] = newOwn[d] PROVE newPos[d] <= newPos[c]
    <3>1. CASE c = a
      <4>1. CASE d = a
        BY <1>12, <1>15, <3>1, <4>1
      <4>2. CASE d # a
        <5>1. d \in Used /\ own[d] = f /\ newPos[d] = pos[d]
          BY <1>4, <1>12, <2>4, <3>1, <4>2
        <5>2. pos[d] <= pos[b] /\ pos[d] \in Nat
          BY <1>14, <1>15, <5>1
        <5> QED
          BY <1>12, <1>15, <3>1, <5>1, <5>2
      <4> QED
        BY <4>1, <4>2
    <3>2. CASE c # a
      <4>1. c \in Used /\ c # b /\ fat[c] = 0 /\ newOwn[c] = own[c] /\ newPos[c] = pos[c]
        BY <1>4, <1>11, <1>12, <1>13, <2>4, <3>2, BlocksAre
      <4>2. own[c] # f
        <5> SUFFICES ASSUME own[c] = f PROVE FALSE
          OBVIOUS
        <5>1. pos[b] <= pos[c] /\ pos[c] <= pos[b]
          BY <1>7, <1>11, <1>14, <4>1 DEF ChainsInv
        <5>2. pos[b] = pos[c]
          BY <1>15, <4>1, <5>1
        <5> QED
          BY <1>7, <1>11, <4>1, <5>2 DEF ChainsInv
      <4>3. d \in Used /\ own[d] = own[c] /\ newPos[d] = pos[d]
        BY <1>4, <1>12, <2>4, <4>1, <4>2
      <4> QED
        BY <1>11, <4>1, <4>3 DEF ChainsInv
    <3> QED
      BY <3>1, <3>2
  <2>5. ASSUME NEW g \in Owners PROVE \E e \in Used' : newOwn[e] = g /\ fat'[e] = 0
    <3>1. CASE g = f
      BY <1>4, <1>12, <1>13, <3>1
    <3>2. CASE g # f
      <4>1. PICK e \in Used : own[e] = g /\ fat[e] = 0
        BY <1>11 DEF ChainsInv
      <4>2. e # b /\ e # a /\ e \in DataBlocks
        BY <1>4, <1>7, <1>11, <3>2, <4>1
      <4> QED
        BY <1>4, <1>12, <1>13, <4>1, <4>2
    <3> QED
      BY <3>1, <3>2
  <2> QED
    BY <1>10, <2>1, <2>2, <2>3, <2>4, <2>5 DEF ChainsInv
<1>18. length[f] \in Nat /\ (length[f] > 0 => BlockInFile(length[f] - 1) <= pos[b])
       /\ (length[f] > 0 => BlockInFile(length[f] - 1) \in Nat)
  <2>1. f \in DataBlocks
    BY <1>7, <1>11
  <2>2. length[f] \in Nat
    BY <2>1, BlocksAre DEF TypeInv, TypeOK
  <2>3. length[f] > 0 => length[f] - 1 \in Nat
    BY <2>2
  <2> QED
    BY <1>7, <1>11, <2>2, <2>3, BlockInFileIs DEF LengthInv
<1>19. LengthInv(newOwn, newPos)'
  <2> SUFFICES ASSUME NEW e \in Used', fat'[e] = 0
               PROVE /\ length[newOwn[e]] > 0 => BlockInFile(length[newOwn[e]] - 1) <= newPos[e]
                     /\ newPos[e] <= BlockInFile(length[newOwn[e]])
    BY <1>2 DEF LengthInv
  <2>1. CASE e = a
    <3>1. newOwn[e] = f /\ newPos[e] = pos[b] + 1
      BY <1>12, <2>1
    <3>2. pos[b] + 1 <= BlockInFile(length[f])
      BY <1>3, <1>7, <1>15
    <3>3. length[f] > 0 => BlockInFile(length[f] - 1) <= pos[b] + 1
      BY <1>15, <1>18
    <3> QED
      BY <3>1, <3>2, <3>3
  <2>2. CASE e # a
    <3>1. e \in Used /\ e # b /\ fat[e] = 0
      BY <1>4, <1>11, <1>13, <2>2, BlocksAre
    <3> QED
      BY <1>11, <1>12, <3>1 DEF LengthInv
  <2> QED
    BY <2>1, <2>2
<1>20. ContentInv(newOwn, newPos)'
  <2> SUFFICES ASSUME NEW c \in Used',
                      newPos[c] = 0 \/ (length[newOwn[c]] > 0 /\ newPos[c] <= BlockInFile(length[newOwn[c]] - 1))
               PROVE content[c] = newOwn[c]
    BY <1>2 DEF ContentInv
  <2>1. c # a
    <3> SUFFICES ASSUME c = a PROVE FALSE
      OBVIOUS
    <3>1. newOwn[c] = f /\ newPos[c] = pos[b] + 1
      BY <1>12
    <3> QED
      BY <1>15, <1>18, <3>1
  <2>2. c \in Used /\ newOwn[c] = own[c] /\ newPos[c] = pos[c]
    BY <1>4, <1>12, <2>1
  <2> QED
    BY <1>11, <2>2 DEF ContentInv
<1>21. JobFits(newOwn, newPos, p)'
  <2>1. (pos[b] + 1) + (job[p].steps - 1) = pos[b] + job[p].steps
    BY <1>3, <1>15
  <2>2. j.name # None => avail' < diskAvail
    <3>1. j.name # None => avail < diskAvail
      BY <1>1, <1>6 DEF JobFits
    <3> QED
      BY <1>4, <3>1, BlocksAre DEF a, TypeInv, Links
  <2> QED
    BY <1>2, <1>4, <1>5, <1>6, <1>7, <1>8, <1>12, <2>1, <2>2 DEF JobFits, fixed
<1>22. JobInv(newOwn, newPos)'
  BY <1>1, <1>21 DEF JobInv
<1>23. avail' <= diskAvail'
  BY <1>2, <1>4, <1>11, BlocksAre DEF a, TypeInv, Links, fixed
<1>24. Accounted(newOwn, newPos)'
  BY <1>12, <1>16, <1>17, <1>19, <1>20, <1>22, <1>23 DEF Accounted
<1> QED
  BY <1>24

\* A block becomes the first one of a new file.
LEMMA NewPopStep ==
  ASSUME TypeInv, OneWriter, NEW own, NEW pos, Accounted(own, pos), NEW p \in Procs, NewPop(p)
  PROVE \E newOwn, newPos : Accounted(newOwn, newPos)'
<1> DEFINE a == avail
           j == Writing(Root, length[Root], EntrySize, job[p].name, a)
<1>1. /\ at[p] = "pop" /\ JobFits(own, pos, p) /\ Procs = {p} /\ Typed(p) /\ job[p].start = a
  BY TypedIs DEF NewPop, Running, OneWriter, Accounted, JobInv, JobFits
<1>2. /\ avail' = fat[a] /\ fat' = [fat EXCEPT ![a] = 0]
      /\ length' = [length EXCEPT ![a] = 0] /\ content' = [content EXCEPT ![a] = a]
      /\ UNCHANGED <<directory, fixed>>
  BY <1>1 DEF NewPop
<1>3. job' = [job EXCEPT ![p] = j] /\ at' = [at EXCEPT ![p] = "walk"]
  BY <1>1 DEF NewPop, Goto
<1>4. a # 0 /\ job[p].name # None
  BY <1>1, BlocksAre DEF Typed, JobTyped, JobFits
<1>5. /\ a \in DataBlocks /\ a \notin Used /\ Used' = Used \cup {a}
      /\ avail' \in Nat /\ a \in Nat /\ avail' < a
  BY <1>2, <1>4, UsedGrows DEF Accounted
<1>6. job'[p] = j /\ at'[p] = "walk"
  <2> HIDE DEF j
  <2> QED
    BY <1>3, Now
<1>7. /\ j.file = Root /\ j.block = Root /\ j.offset = length[Root] /\ j.steps = BlockInFile(length[Root])
      /\ j.name = job[p].name /\ j.start = a
  BY DEF Writing
<1> HIDE DEF j, a
<1>8. Files' = Files /\ Root \in Files
  BY <1>2 DEF Files
<1>9. Pending(p) = {} /\ Pending(p)' = {a}
  BY <1>1, <1>4, <1>6, <1>7 DEF Pending, Busy
<1>10. Owners' = Owners \cup {a} /\ Root \in Owners
  BY <1>1, <1>8, <1>9, OwnersAre
<1>11. /\ own \in [DataBlocks -> DataBlocks] /\ pos \in [DataBlocks -> Nat]
       /\ ChainsInv(own, pos) /\ FreeInv /\ LengthInv(own, pos) /\ ContentInv(own, pos)
       /\ avail <= diskAvail /\ Used \subseteq DataBlocks
  BY DEF Accounted, Used
<1> PICK newOwn, newPos : newOwn = [own EXCEPT ![a] = a] /\ newPos = [pos EXCEPT ![a] = 0]
  OBVIOUS
<1>12. /\ newOwn \in [DataBlocks -> DataBlocks] /\ newPos \in [DataBlocks -> Nat]
       /\ newOwn[a] = a /\ newPos[a] = 0
       /\ \A c \in Used : newOwn[c] = own[c] /\ newPos[c] = pos[c]
  BY <1>5, <1>11
<1>13. /\ fat'[a] = 0 /\ length'[a] = 0 /\ content'[a] = a
       /\ \A c \in DataBlocks : c # a => fat'[c] = fat[c] /\ length'[c] = length[c] /\ content'[c] = content[c]
  <2>1. a \in Blocks
    BY <1>5, BlocksAre
  <2> QED
    BY <1>1, <1>2, <2>1, BlocksAre DEF Typed
<1>14. /\ \A g \in Owners : g \in Used /\ g # a
       /\ \A c \in Used : own[c] \in Owners /\ own[c] # a /\ own[c] \in DataBlocks /\ pos[c] \in Nat
       /\ \A c \in Used' : c = a \/ c \in Used
  BY <1>5, <1>11 DEF ChainsInv
<1>15. FreeInv'
  <2> SUFFICES ASSUME NEW c \in DataBlocks \ Used'
               PROVE fat'[c] = IF c = fatBlocks + 1 THEN 0 ELSE c - 1
    BY DEF FreeInv
  <2>1. c \in DataBlocks \ Used /\ c # a
    BY <1>5
  <2> QED
    BY <1>11, <1>13, <2>1 DEF FreeInv
<1>16. ChainsInv(newOwn, newPos)'
  <2>1. ASSUME NEW g \in Owners' PROVE g \in Used' /\ newOwn[g] = g /\ newPos[g] = 0
    BY <1>5, <1>10, <1>11, <1>12 DEF ChainsInv
  <2>2. ASSUME NEW c \in Used'
        PROVE /\ newOwn[c] \in Owners' /\ newPos[c] + avail' < nBlocks
              /\ fat'[c] # 0 => fat'[c] \in Used' /\ newOwn[fat'[c]] = newOwn[c] /\ newPos[fat'[c]] = newPos[c] + 1
    <3>1. CASE c = a
      <4>1. 0 + avail' < nBlocks
        <5>1. \A d \in DataBlocks : d <= nBlocks - 1 /\ nBlocks \in Nat
          BY BlocksAre
        <5>2. /\ a <= nBlocks - 1 /\ nBlocks \in Nat /\ a \in Nat
              /\ avail' < a /\ avail' \in Nat
          BY <1>5, <5>1
        <5>3. \A v, d, n \in Nat : v < d /\ d <= n - 1 => 0 + v < n
          OBVIOUS
        <5> QED
          BY <5>2, <5>3
      <4> QED
        BY <1>10, <1>12, <1>13, <3>1, <4>1
    <3>2. CASE c # a
      <4>1. c \in Used /\ newOwn[c] = own[c] /\ newPos[c] = pos[c] /\ own[c] \in Owners /\ pos[c] \in Nat
            /\ pos[c] + avail < nBlocks /\ fat'[c] = fat[c]
        <5>1. c \in Used /\ c \in DataBlocks
          BY <1>11, <1>14, <3>2
        <5>2. fat'[c] = fat[c]
          BY <1>13, <3>2, <5>1
        <5>3. pos[c] + avail < nBlocks
          BY <1>11, <5>1 DEF ChainsInv
        <5> QED
          BY <1>12, <1>14, <5>1, <5>2, <5>3
      <4>2. pos[c] + avail' < nBlocks
        BY <1>5, <4>1, BlocksAre DEF a
      <4>3. fat[c] # 0 => fat[c] \in Used /\ own[fat[c]] = own[c] /\ pos[fat[c]] = pos[c] + 1
        BY <1>11, <4>1 DEF ChainsInv
      <4> QED
        BY <1>5, <1>10, <1>12, <4>1, <4>2, <4>3
    <3> QED
      BY <3>1, <3>2
  <2>3. ASSUME NEW c \in Used', NEW d \in Used', newOwn[c] = newOwn[d], newPos[c] = newPos[d] PROVE c = d
    BY <1>11, <1>12, <1>14, <2>3 DEF ChainsInv
  <2>4. ASSUME NEW c \in Used', NEW d \in Used', fat'[c] = 0, newOwn[c] = newOwn[d] PROVE newPos[d] <= newPos[c]
    <3>1. CASE c = a
      <4>1. d = a
        BY <1>12, <1>14, <2>4, <3>1
      <4> QED
        BY <1>12, <3>1, <4>1
    <3>2. CASE c # a
      <4>1. c \in Used /\ d \in Used /\ own[c] = own[d] /\ fat[c] = 0
        BY <1>11, <1>12, <1>13, <1>14, <2>4, <3>2
      <4> QED
        BY <1>11, <1>12, <4>1 DEF ChainsInv
    <3> QED
      BY <3>1, <3>2
  <2>5. ASSUME NEW g \in Owners' PROVE \E e \in Used' : newOwn[e] = g /\ fat'[e] = 0
    <3>1. CASE g = a
      BY <1>5, <1>12, <1>13, <3>1
    <3>2. CASE g # a
      <4>1. PICK e \in Used : own[e] = g /\ fat[e] = 0
        BY <1>10, <1>11, <3>2 DEF ChainsInv
      <4>2. e # a /\ e \in DataBlocks
        BY <1>5, <1>11, <4>1
      <4> QED
        BY <1>5, <1>12, <1>13, <4>1, <4>2
    <3> QED
      BY <3>1, <3>2
  <2> QED
    BY <2>1, <2>2, <2>3, <2>4, <2>5 DEF ChainsInv
<1>17. LengthInv(newOwn, newPos)'
  <2> SUFFICES ASSUME NEW e \in Used', fat'[e] = 0
               PROVE /\ length'[newOwn[e]] > 0 => BlockInFile(length'[newOwn[e]] - 1) <= newPos[e]
                     /\ newPos[e] <= BlockInFile(length'[newOwn[e]])
    BY DEF LengthInv
  <2>1. CASE e = a
    <3>1. newOwn[e] = a /\ newPos[e] = 0 /\ length'[a] = 0 /\ BlockInFile(0) \in Nat
      BY <1>12, <1>13, <2>1, BlockInFileIs
    <3> QED
      BY <3>1
  <2>2. CASE e # a
    <3>1. e \in Used /\ fat[e] = 0 /\ newOwn[e] = own[e] /\ newPos[e] = pos[e] /\ length'[own[e]] = length[own[e]]
      BY <1>11, <1>12, <1>13, <1>14, <2>2
    <3> QED
      BY <1>11, <3>1 DEF LengthInv
  <2> QED
    BY <2>1, <2>2
<1>18. ContentInv(newOwn, newPos)'
  <2> SUFFICES ASSUME NEW c \in Used',
                      newPos[c] = 0 \/ (length'[newOwn[c]] > 0 /\ newPos[c] <= BlockInFile(length'[newOwn[c]] - 1))
               PROVE content'[c] = newOwn[c]
    BY DEF ContentInv
  <2>1. CASE c = a
    BY <1>12, <1>13, <2>1
  <2>2. CASE c # a
    <3>1. c \in Used /\ newOwn[c] = own[c] /\ newPos[c] = pos[c] /\ length'[own[c]] = length[own[c]]
          /\ content'[c] = content[c]
      BY <1>11, <1>12, <1>13, <1>14, <2>2
    <3> QED
      BY <1>11, <3>1 DEF ContentInv
  <2> QED
    BY <2>1, <2>2
<1>19. JobFits(newOwn, newPos, p)'
  <2>1. Root \in Used /\ own[Root] = Root /\ pos[Root] = 0 /\ length'[Root] = length[Root]
    BY <1>10, <1>11, <1>13, <1>14 DEF ChainsInv
  <2>2. BlockInFile(length[Root]) \in Nat
    BY <1>1, BlocksAre, BlockInFileIs DEF Typed
  <2>3. newPos[Root] + BlockInFile(length[Root]) = BlockInFile(length[Root]) /\ newOwn[Root] = Root
    BY <1>12, <2>1, <2>2
  <2>4. avail' < diskAvail /\ Root \in Used'
    BY <1>5, <1>11, <2>1, BlocksAre DEF a, TypeInv, Links
  <2> QED
    BY <1>2, <1>6, <1>7, <1>8, <2>1, <2>3, <2>4 DEF JobFits, fixed
<1>20. JobInv(newOwn, newPos)'
  BY <1>1, <1>19 DEF JobInv
<1>21. avail' <= diskAvail'
  BY <1>2, <1>5, <1>11, BlocksAre DEF a, TypeInv, Links, fixed
<1>22. Accounted(newOwn, newPos)'
  BY <1>12, <1>15, <1>16, <1>17, <1>18, <1>20, <1>21 DEF Accounted
<1> QED
  BY <1>22

LEMMA LookupStep ==
  ASSUME TypeInv, OneWriter, NEW own, NEW pos, Accounted(own, pos), NEW p \in Procs, NEW n \in Names, Lookup(p, n)
  PROVE Accounted(own, pos)'
<1> DEFINE j == [job[p] EXCEPT !.name = n]
<1>1. /\ at[p] = "run" /\ job' = [job EXCEPT ![p] = j] /\ at' = [at EXCEPT ![p] = "create"]
      /\ UNCHANGED <<fat, avail, length, content, directory, fixed>>
  BY DEF Lookup, Running, Goto
<1>2. Procs = {p} /\ Typed(p)
  BY TypedIs DEF OneWriter
<1>3. job'[p] = j /\ at'[p] = "create"
  <2> HIDE DEF j
  <2> QED
    BY <1>1, Now
<1>4. j.name = n /\ n # None
  BY <1>2, DiskAssumption DEF Typed, Jobs
<1> HIDE DEF j
<1>5. Files' = Files
  BY <1>1 DEF Files
<1>6. Pending(p) = {} /\ Pending(p)' = {}
  BY <1>1, <1>3 DEF Pending, Busy
<1>7. Owners' = Owners
  BY <1>2, <1>5, <1>6, OwnersAre
<1>8. ChainsInv(own, pos)' /\ FreeInv' /\ Used' = Used
  BY <1>1, <1>7, ChainsKept
<1>9. JobFits(own, pos, p)'
  BY <1>3, <1>4 DEF JobFits, Busy
<1>10. JobInv(own, pos)'
  BY <1>2, <1>9 DEF JobInv
<1>11. LengthInv(own, pos)' /\ ContentInv(own, pos)'
  BY <1>1, <1>8 DEF Accounted, LengthInv, ContentInv
<1> QED
  BY <1>1, <1>8, <1>10, <1>11 DEF Accounted, fixed

LEMMA NewFileStep ==
  ASSUME TypeInv, OneWriter, NEW own, NEW pos, Accounted(own, pos), NEW p \in Procs, NewFile(p)
  PROVE Accounted(own, pos)'
<1> DEFINE j == [job[p] EXCEPT !.start = avail]
<1>1. /\ at[p] = "create"
      /\ UNCHANGED <<fat, avail, length, content, directory, fixed>>
      /\ IF avail = 0 THEN job' = job /\ at' = at
         ELSE job' = [job EXCEPT ![p] = j] /\ at' = [at EXCEPT ![p] = "pop"]
  BY DEF NewFile, Running, Goto
<1>2. Procs = {p} /\ Typed(p) /\ JobFits(own, pos, p)
  BY TypedIs DEF OneWriter, Accounted, JobInv
<1>3. j.name = job[p].name /\ j.start = avail
  BY <1>2 DEF Typed, Jobs
<1> HIDE DEF j
<1>4. (job'[p] = job[p] /\ at'[p] = "create") \/ (job'[p] = j /\ at'[p] = "pop")
  <2>1. CASE avail = 0
    BY <1>1, <2>1
  <2>2. CASE avail # 0
    BY <1>1, <2>2, Now
  <2> QED
    BY <2>1, <2>2
<1>5. Files' = Files
  BY <1>1 DEF Files
<1>6. Pending(p) = {} /\ Pending(p)' = {}
  BY <1>1, <1>4 DEF Pending, Busy
<1>7. Owners' = Owners
  BY <1>2, <1>5, <1>6, OwnersAre
<1>8. ChainsInv(own, pos)' /\ FreeInv' /\ Used' = Used
  BY <1>1, <1>7, ChainsKept
<1>9. job[p].name # None
  BY <1>1, <1>2 DEF JobFits
<1>10. JobFits(own, pos, p)'
  BY <1>1, <1>3, <1>4, <1>9 DEF JobFits, Busy
<1>11. JobInv(own, pos)'
  BY <1>2, <1>10 DEF JobInv
<1>12. LengthInv(own, pos)' /\ ContentInv(own, pos)'
  BY <1>1, <1>8 DEF Accounted, LengthInv, ContentInv
<1> QED
  BY <1>1, <1>8, <1>11, <1>12 DEF Accounted, fixed

\* A restart before anything was allocated finds fat[] as it was.
LEMMA RestartStep ==
  ASSUME TypeInv, OneWriter, NEW own, NEW pos, Accounted(own, pos), Restart
  PROVE Accounted(own, pos)'
<1>1. /\ fat = diskFat /\ avail = diskAvail
      /\ fat' = diskFat /\ avail' = diskAvail /\ at' = [p \in Procs |-> "run"]
      /\ UNCHANGED <<length, content, directory, fixed>>
  BY DEF Restart, OneWriter
<1>2. PICK p : Procs = {p}
  BY DEF OneWriter
<1>3. at'[p] = "run"
  BY <1>1, <1>2
<1>4. Files' = Files
  BY <1>1 DEF Files
<1>5. Pending(p) = {}
  <2>1. JobFits(own, pos, p)
    BY <1>2 DEF Accounted, JobInv
  <2>2. ~(avail < diskAvail)
    BY <1>1, BlocksAre DEF TypeInv, Links
  <2> QED
    BY <2>1, <2>2 DEF JobFits, Pending
<1>6. Pending(p)' = {}
  BY <1>3 DEF Pending, Busy
<1>7. Owners' = Owners
  BY <1>2, <1>4, <1>5, <1>6, OwnersAre
<1>8. ChainsInv(own, pos)' /\ FreeInv' /\ Used' = Used
  BY <1>1, <1>7, ChainsKept
<1>9. JobFits(own, pos, p)'
  BY <1>3 DEF JobFits, Busy
<1>10. JobInv(own, pos)'
  BY <1>2, <1>9 DEF JobInv
<1>11. LengthInv(own, pos)' /\ ContentInv(own, pos)'
  BY <1>1, <1>8 DEF Accounted, LengthInv, ContentInv
<1> QED
  BY <1>1, <1>8, <1>10, <1>11 DEF Accounted, fixed

\* mkfs and the kernel fit the metadata, and the entries of the root, into a block.
LEMMA MetaFits ==
  /\ BlockInFile(0) <= 1
  /\ EntrySize * Len(Image) \in Nat
  /\ EntrySize * Len(Image) > 0 => BlockInFile(EntrySize * Len(Image) - 1) = 0
<1> DEFINE x == EntrySize * Len(Image)
<1>1. MetaSize \in Nat /\ BlockSize \in Nat \ {0} /\ EntrySize \in Nat
  BY DiskAssumption
<1>2. x \in Nat
  BY <1>1, ImageLengths
<1>3. MetaSize + x <= BlockSize
  BY DiskAssumption
<1> HIDE DEF x
<1>4. BlockInFile(0) <= 1
  <2>1. MetaSize <= BlockSize
    BY <1>1, <1>2, <1>3
  <2>2. MetaSize \div BlockSize <= BlockSize \div BlockSize
    BY <1>1, <2>1, DivMonotone
  <2>3. BlockSize \div BlockSize = 1
    BY <1>1
  <2>4. 0 + MetaSize = MetaSize
    BY <1>1
  <2> QED
    BY <2>2, <2>3, <2>4 DEF BlockInFile
<1>5. ASSUME x > 0 PROVE BlockInFile(x - 1) = 0
  <2> DEFINE y == (x - 1) + MetaSize
  <2>1. y \in Nat /\ y < BlockSize
    BY <1>1, <1>2, <1>3, <1>5
  <2> HIDE DEF y
  <2>2. y \div BlockSize = 0
    BY <1>1, <2>1
  <2> QED
    BY <2>2 DEF BlockInFile, y
<1> QED
  BY <1>2, <1>4, <1>5 DEF x

LEMMA FileEntered ==
  ASSUME directory \in Seq(Entries), NEW e \in Entries, directory' = Append(directory, e)
  PROVE Files' = Files \cup {e.start}
<1> DEFINE n == Len(directory)
<1>1. n \in Nat /\ Len(directory') = n + 1 /\ directory'[n + 1] = e
      /\ \A i \in 1 .. n : directory'[i] = directory[i]
  BY DEF Entries
<1>2. DOMAIN directory = 1 .. n /\ DOMAIN directory' = 1 .. n + 1
  <2>1. directory' \in Seq(Entries)
    <3> HIDE DEF Entries
    <3> QED
      OBVIOUS
  <2> QED
    BY <1>1, <2>1
<1> HIDE DEF n
<1>3. 1 .. n + 1 = (1 .. n) \cup {n + 1}
  BY <1>1
<1>4. ToSet(directory') = ToSet(directory) \cup {e}
  BY <1>1, <1>2, <1>3 DEF ToSet
<1> QED
  BY <1>4 DEF Files

\* What the process wrote becomes the end of its file, which does not get shorter by a block.
LEMMA WriteMetaStep ==
  ASSUME TypeInv, OneWriter, NEW own, NEW pos, Accounted(own, pos), NEW p \in Procs, WriteMeta(p)
  PROVE Accounted(own, pos)'
<1> DEFINE f == job[p].file
           b == job[p].block
           o == job[p].offset
           w == Written(p)
           newLength == o + w
           togo == job[p].togo - w
           creates == job[p].name # None
           next == Writing(f, newLength, togo, job[p].name, job[p].start)
           entry == [name |-> job[p].name, start |-> job[p].start]
<1>1. /\ at[p] = "meta" /\ at[p] \in Busy /\ JobFits(own, pos, p) /\ Procs = {p} /\ Typed(p)
  BY TypedIs DEF WriteMeta, Running, OneWriter, Accounted, JobInv, Busy
<1>2. /\ f \in Files /\ b \in Used /\ own[b] = f /\ pos[b] + job[p].steps = BlockInFile(o)
      /\ BlockInFile(o) = BlockInFile(length[f]) /\ job[p].steps = 0 /\ content[b] = f
      /\ creates => avail < diskAvail
  BY <1>1 DEF JobFits
<1>3. /\ own \in [DataBlocks -> DataBlocks] /\ pos \in [DataBlocks -> Nat]
      /\ ChainsInv(own, pos) /\ FreeInv /\ LengthInv(own, pos) /\ ContentInv(own, pos)
      /\ avail <= diskAvail /\ Used \subseteq DataBlocks
  BY DEF Accounted, Used
<1>4. /\ f \in Used /\ f \in Owners /\ f \in DataBlocks /\ own[f] = f /\ pos[f] = 0
  BY <1>2, <1>3 DEF Owners, ChainsInv
<1>5. o \in Nat /\ job[p].togo \in Nat /\ w \in Nat /\ togo \in Nat
      /\ (w > 0 => BlockInFile(o + w - 1) = BlockInFile(o))
  <2>1. o \in Nat /\ job[p].togo \in Nat
    BY <1>1 DEF Typed, Jobs
  <2> QED
    BY <2>1, WrittenIs
<1>6. pos[b] \in Nat /\ pos[b] = BlockInFile(o) /\ length[f] \in Nat
  <2>1. pos[b] \in Nat /\ length[f] \in Nat
    BY <1>1, <1>2, <1>3, <1>4, BlocksAre DEF Typed
  <2> QED
    BY <1>2, <2>1
<1>7. fat[b] = 0
  <2>1. PICK e \in Used : own[e] = f /\ fat[e] = 0
    BY <1>3, <1>4 DEF ChainsInv
  <2>2. pos[b] <= pos[e]
    BY <1>2, <1>3, <2>1 DEF ChainsInv
  <2>3. pos[e] <= BlockInFile(length[f]) /\ pos[e] \in Nat
    BY <1>3, <2>1 DEF LengthInv
  <2>4. pos[b] = pos[e]
    BY <1>2, <1>6, <2>2, <2>3
  <2> QED
    BY <1>2, <1>3, <2>1, <2>4 DEF ChainsInv
<1>8. fat' = fat /\ avail' = avail
  BY <1>7 DEF WriteMeta, Truncate
<1>9. /\ length' = [length EXCEPT ![f] = newLength]
      /\ UNCHANGED <<content, fixed>>
  BY DEF WriteMeta
<1>10. IF creates /\ togo > 0
        THEN job' = [job EXCEPT ![p] = next] /\ at' = [at EXCEPT ![p] = "walk"]
        ELSE job' = [job EXCEPT ![p] = Idle] /\ at' = [at EXCEPT ![p] = "run"]
  BY DEF WriteMeta, Goto
<1>11. IF creates /\ togo = 0 THEN directory' = Append(directory, entry) ELSE directory' = directory
  BY DEF WriteMeta
<1>12. IF creates /\ togo > 0 THEN job'[p] = next /\ at'[p] = "walk" ELSE at'[p] = "run"
  <2> HIDE DEF next, togo
  <2>1. CASE creates /\ togo > 0
    BY <1>10, <2>1, Now
  <2>2. CASE ~(creates /\ togo > 0)
    BY <1>10, <2>2, Now
  <2> QED
    BY <2>1, <2>2
<1>13. /\ next.file = f /\ next.block = f /\ next.offset = newLength /\ next.steps = BlockInFile(newLength)
       /\ next.name = job[p].name /\ next.start = job[p].start
  BY DEF Writing
<1>14. creates => entry \in Entries /\ entry.start = job[p].start
  BY <1>1 DEF Typed, Jobs, JobTyped, Busy, Entries
<1> HIDE DEF next, entry, togo, w, f, b, o
<1>15. Owners' = Owners /\ Files \subseteq Files'
  <2>1. CASE creates /\ togo = 0
    <3>1. Files' = Files \cup {job[p].start}
      BY <1>1, <1>11, <1>14, <2>1, FileEntered DEF Typed
    <3>2. Pending(p) = {job[p].start} /\ Pending(p)' = {}
      BY <1>1, <1>12, <2>1 DEF Pending, Busy
    <3> QED
      BY <1>1, <3>1, <3>2, OwnersAre
  <2>2. CASE ~(creates /\ togo = 0)
    <3>1. Files' = Files
      BY <1>11, <2>2 DEF Files
    <3>2. Pending(p)' = Pending(p)
      <4>1. CASE creates
        <5>1. togo > 0
          BY <1>5, <2>2, <4>1
        <5> QED
          BY <1>1, <1>12, <1>13, <4>1, <5>1 DEF Pending, Busy
      <4>2. CASE ~creates
        BY <1>12, <4>2 DEF Pending, Busy
      <4> QED
        BY <4>1, <4>2
    <3> QED
      BY <1>1, <3>1, <3>2, OwnersAre
  <2> QED
    BY <2>1, <2>2
<1>16. ChainsInv(own, pos)' /\ FreeInv' /\ Used' = Used
  BY <1>8, <1>15, ChainsKept
<1>17. newLength \in Nat /\ length'[f] = newLength
       /\ \A g \in DataBlocks : g # f => length'[g] = length[g]
  BY <1>1, <1>4, <1>5, <1>9, BlocksAre DEF Typed
<1>18. newLength > 0 => BlockInFile(newLength - 1) <= pos[b]
  <2>1. CASE w > 0
    BY <1>5, <1>6, <2>1, BlockInFileIs
  <2>2. CASE w = 0
    <3>1. newLength = o
      BY <1>5, <2>2
    <3>2. newLength > 0 => o - 1 \in Nat /\ o - 1 <= o
      BY <1>5, <3>1
    <3> QED
      BY <1>5, <1>6, <3>1, <3>2, BlockInFileIs
  <2> QED
    BY <1>5, <2>1, <2>2
<1>19. pos[b] <= BlockInFile(newLength)
  <2>1. o <= newLength
    BY <1>5
  <2> QED
    BY <1>5, <1>6, <1>17, <2>1, BlockInFileIs
<1>20. BlockInFile(newLength) \in Nat /\ (newLength > 0 => BlockInFile(newLength - 1) \in Nat)
  <2>1. newLength > 0 => newLength - 1 \in Nat
    BY <1>17
  <2> QED
    BY <1>17, <2>1, BlockInFileIs
<1> HIDE DEF newLength
<1>21. LengthInv(own, pos)'
  <2> SUFFICES ASSUME NEW e \in Used, fat[e] = 0
               PROVE /\ length'[own[e]] > 0 => BlockInFile(length'[own[e]] - 1) <= pos[e]
                     /\ pos[e] <= BlockInFile(length'[own[e]])
    BY <1>8, <1>16 DEF LengthInv
  <2>1. CASE own[e] = f
    <3>1. pos[e] <= pos[b] /\ pos[b] <= pos[e] /\ pos[e] \in Nat
      BY <1>2, <1>3, <1>7, <2>1 DEF ChainsInv
    <3>2. pos[e] = pos[b]
      BY <1>6, <3>1
    <3> QED
      BY <1>17, <1>18, <1>19, <2>1, <3>2
  <2>2. CASE own[e] # f
    <3>1. own[e] \in DataBlocks /\ length'[own[e]] = length[own[e]]
      BY <1>3, <1>17, <2>2
    <3> QED
      BY <1>3, <3>1 DEF LengthInv
  <2> QED
    BY <2>1, <2>2
<1>22. ContentInv(own, pos)'
  <2> SUFFICES ASSUME NEW c \in Used,
                      pos[c] = 0 \/ (length'[own[c]] > 0 /\ pos[c] <= BlockInFile(length'[own[c]] - 1))
               PROVE content[c] = own[c]
    BY <1>9, <1>16 DEF ContentInv
  <2>1. CASE own[c] # f
    <3>1. own[c] \in DataBlocks /\ length'[own[c]] = length[own[c]]
      BY <1>3, <1>17, <2>1
    <3> QED
      BY <1>3, <3>1 DEF ContentInv
  <2>2. CASE own[c] = f /\ pos[c] = 0
    BY <1>3, <2>2 DEF ContentInv
  <2>3. CASE own[c] = f /\ pos[c] # 0
    <3>1. pos[c] \in Nat /\ newLength > 0 /\ pos[c] <= BlockInFile(newLength - 1)
      BY <1>3, <1>17, <2>3
    <3>2. pos[c] <= pos[b]
      BY <1>6, <1>18, <1>20, <3>1
    <3>3. CASE pos[c] = pos[b]
      <4>1. c = b
        BY <1>2, <1>3, <2>3, <3>3 DEF ChainsInv
      <4> QED
        BY <1>2, <4>1
    <3>4. CASE pos[c] < pos[b]
      <4>1. pos[b] = BlockInFile(length[f])
        BY <1>2, <1>6
      <4>2. length[f] # 0
        <5>1. length[f] = 0 => pos[b] <= 1
          BY <4>1, MetaFits
        <5> QED
          BY <1>6, <2>3, <3>1, <3>4, <5>1
      <4>3. length[f] > 0 /\ length[f] - 1 \in Nat /\ (length[f] - 1) + 1 = length[f]
        BY <1>6, <4>2
      <4>4. BlockInFile(length[f]) <= BlockInFile(length[f] - 1) + 1 /\ BlockInFile(length[f] - 1) \in Nat
        BY <4>3, BlockInFileIs
      <4>5. pos[c] <= BlockInFile(length[f] - 1)
        BY <1>6, <3>1, <3>4, <4>1, <4>4
      <4> QED
        BY <1>3, <2>3, <4>3, <4>5 DEF ContentInv
    <3> QED
      BY <1>6, <3>1, <3>2, <3>3, <3>4
  <2> QED
    BY <2>1, <2>2, <2>3
<1>23. JobFits(own, pos, p)'
  <2>1. CASE creates /\ togo > 0
    <3>1. job'[p] = next /\ at'[p] = "walk" /\ diskAvail' = diskAvail
      BY <1>9, <1>12, <2>1 DEF fixed
    <3>2. pos[f] + BlockInFile(newLength) = BlockInFile(newLength)
      BY <1>4, <1>20
    <3> QED
      BY <1>2, <1>4, <1>8, <1>13, <1>15, <1>16, <1>17, <2>1, <3>1, <3>2 DEF JobFits
  <2>2. CASE ~(creates /\ togo > 0)
    BY <1>12, <2>2 DEF JobFits, Busy
  <2> QED
    BY <2>1, <2>2
<1>24. JobInv(own, pos)'
  BY <1>1, <1>23 DEF JobInv
<1> QED
  BY <1>3, <1>8, <1>9, <1>16, <1>21, <1>22, <1>24 DEF Accounted, fixed

----------------------------------------------------------------------------
(* The image is accounted for, and every step keeps it so.                 *)

\* The blocks that mkfs has handed out: the root, and the files one below the other.
LEMMA ImageBlocks ==
  ASSUME Init, NEW b \in Used, b # Root
  PROVE \E i \in 1 .. Len(Image) :
          /\ b \in ImageLast(i) .. ImageStart(i) /\ MkfsOwner(b) = ImageStart(i)
          /\ fat[b] = IF b = ImageLast(i) THEN 0 ELSE b - 1
<1>1. b \in DataBlocks /\ b > FirstFree /\ b \in Blocks /\ b \in Nat
  BY BlocksAre DEF Used, Init
<1>2. PICK i \in 1 .. Len(Image) : b \in ImageLast(i) .. ImageStart(i)
  BY <1>1, ImageIs DEF ImageIntervals
<1>3. MkfsOwner(b) = ImageStart(i)
  BY <1>2, OwnersOfImageAre DEF OwnersOfImage
<1>4. FirstFree \in Nat /\ FirstFree >= fatBlocks + 1 /\ fatBlocks \in Nat
  BY ImageIs, BlocksAre DEF ImageIntervals
<1>5. b # fatBlocks + 1
  BY <1>1, <1>4
<1>6. \A j \in 1 .. Len(Image) : b = ImageLast(j) => i = j
  <2> SUFFICES ASSUME NEW j \in 1 .. Len(Image), b = ImageLast(j) PROVE i = j
    OBVIOUS
  <2>1. b \in ImageLast(j) .. ImageStart(j)
    BY <1>1, ImageIs, BlocksAre DEF ImageIntervals
  <2> QED
    BY <1>3, <2>1, OwnersOfImageAre DEF OwnersOfImage
<1>7. fat[b] = IF b \in {Root, fatBlocks + 1} \cup {ImageLast(j) : j \in 1 .. Len(Image)} THEN 0 ELSE b - 1
  BY <1>1, ImageLengths DEF Init, MkfsFat
<1>8. fat[b] = IF b = ImageLast(i) THEN 0 ELSE b - 1
  <2>1. CASE b = ImageLast(i)
    BY <1>7, <2>1
  <2>2. CASE b # ImageLast(i)
    <3>1. b \notin {Root, fatBlocks + 1} \cup {ImageLast(j) : j \in 1 .. Len(Image)}
      BY <1>5, <1>6, <2>2
    <3> QED
      BY <1>7, <2>2, <3>1
  <2> QED
    BY <2>1, <2>2
<1> QED
  BY <1>2, <1>3, <1>8

\* The chain of each file of the image.
LEMMA StartChains ==
  ASSUME Init, OneWriter, NEW own, NEW pos,
         own = [b \in DataBlocks |-> MkfsOwner(b)],
         pos = [b \in DataBlocks |-> IF b > FirstFree THEN MkfsOwner(b) - b ELSE 0]
  PROVE /\ own \in [DataBlocks -> DataBlocks] /\ pos \in [DataBlocks -> Nat]
        /\ ChainsInv(own, pos) /\ LengthInv(own, pos) /\ ContentInv(own, pos)
<1>1. ImageState
  BY InitIs
<1>2. /\ FirstFree \in Nat /\ FirstFree < Root /\ FirstFree >= fatBlocks + 1 /\ Root \in Nat /\ Root \in DataBlocks
      /\ nBlocks \in Nat /\ fatBlocks \in Nat /\ Root = nBlocks - 1 /\ avail = FirstFree
      /\ Used = {b \in DataBlocks : b > FirstFree} /\ Used \subseteq DataBlocks /\ Root \in Used /\ Root # 0
  BY ImageIs, BlocksAre DEF ImageIntervals, Init, Used, Root
<1>3. ImageFiles = {ImageStart(i) : i \in 1 .. Len(Image)} /\ Files = {Root} \cup ImageFiles
  BY <1>1, ImageLengths DEF ImageFiles, ImageState
<1>4. Owners = Files
  <2>1. \A q \in Procs : at[q] = "run"
    BY DEF Init
  <2> QED
    BY <2>1 DEF Owners
<1>5. ASSUME NEW i \in 1 .. Len(Image)
      PROVE /\ ImageStart(i) \in Used /\ ImageStart(i) \in Nat /\ ImageStart(i) < Root /\ ImageStart(i) # 0
            /\ ImageLast(i) \in Used /\ ImageLast(i) \in Nat
            /\ ImageLast(i) <= ImageStart(i) /\ ImageStart(i) - ImageLast(i) = BlockInFile(Image[i])
            /\ Image[i] \in Nat /\ length[ImageStart(i)] = Image[i]
            /\ MkfsOwner(ImageStart(i)) = ImageStart(i) /\ MkfsOwner(ImageLast(i)) = ImageStart(i)
  <2>1. /\ ImageStart(i) \in DataBlocks /\ ImageStart(i) < Root
        /\ ImageLast(i) \in DataBlocks /\ FirstFree < ImageLast(i)
        /\ ImageStart(i) - ImageLast(i) = BlockInFile(Image[i])
        /\ ImageLast(i) <= ImageStart(i)
    BY ImageIs DEF ImageIntervals
  <2>2. ImageStart(i) \in Nat /\ ImageLast(i) \in Nat /\ ImageStart(i) # 0
    BY <2>1, BlocksAre
  <2>3. ImageStart(i) \in Used /\ ImageLast(i) \in Used
    BY <1>2, <2>1, <2>2
  <2>4. MkfsOwner(ImageStart(i)) = ImageStart(i) /\ MkfsOwner(ImageLast(i)) = ImageStart(i)
    BY <2>1, <2>2, OwnersOfImageAre DEF OwnersOfImage
  <2>5. Image[i] \in Nat /\ length[ImageStart(i)] = Image[i]
    BY <1>1, ImageLengths DEF ImageState
  <2> QED
    BY <2>1, <2>2, <2>3, <2>4, <2>5
<1>6. MkfsOwner(Root) = Root /\ fat[Root] = 0
  BY <1>2, OwnersOfImageAre, BlocksAre DEF OwnersOfImage, Init, MkfsFat
<1>7. ASSUME NEW b \in Used, b # Root
      PROVE \E i \in 1 .. Len(Image) :
              /\ b \in ImageLast(i) .. ImageStart(i) /\ MkfsOwner(b) = ImageStart(i)
              /\ fat[b] = IF b = ImageLast(i) THEN 0 ELSE b - 1
  BY <1>7, ImageBlocks
<1>8. \A b \in Used : own[b] = MkfsOwner(b) /\ pos[b] = MkfsOwner(b) - b /\ b \in Nat /\ b > FirstFree
  BY <1>2, BlocksAre
<1>9. ASSUME NEW b \in Used PROVE MkfsOwner(b) \in Owners /\ MkfsOwner(b) \in Nat /\ MkfsOwner(b) >= b /\ MkfsOwner(b) <= Root
  <2>1. CASE b = Root
    BY <1>2, <1>3, <1>4, <1>6, <2>1
  <2>2. CASE b # Root
    <3>1. PICK i \in 1 .. Len(Image) : b \in ImageLast(i) .. ImageStart(i) /\ MkfsOwner(b) = ImageStart(i)
      BY <1>7, <2>2
    <3> QED
      BY <1>2, <1>3, <1>4, <1>5, <3>1
  <2> QED
    BY <2>1, <2>2
<1>10. own \in [DataBlocks -> DataBlocks] /\ pos \in [DataBlocks -> Nat]
  <2>1. \A b \in DataBlocks : MkfsOwner(b) \in DataBlocks
    BY BlocksAre, OwnersOfImageAre DEF OwnersOfImage
  <2>2. \A b \in DataBlocks : b > FirstFree => MkfsOwner(b) - b \in Nat
    BY <1>2, <1>8, <1>9
  <2> QED
    BY <2>1, <2>2
<1>11. ChainsInv(own, pos)
  <2>1. ASSUME NEW f \in Owners PROVE f \in Used /\ own[f] = f /\ pos[f] = 0
    <3>1. f \in Used /\ MkfsOwner(f) = f
      BY <1>2, <1>3, <1>4, <1>5, <1>6
    <3> QED
      BY <1>8, <3>1
  <2>2. ASSUME NEW b \in Used
        PROVE /\ own[b] \in Owners /\ pos[b] + avail < nBlocks
              /\ fat[b] # 0 => fat[b] \in Used /\ own[fat[b]] = own[b] /\ pos[fat[b]] = pos[b] + 1
    <3>1. own[b] \in Owners /\ pos[b] + avail < nBlocks
      BY <1>2, <1>8, <1>9
    <3>2. ASSUME fat[b] # 0 PROVE fat[b] \in Used /\ own[fat[b]] = own[b] /\ pos[fat[b]] = pos[b] + 1
      <4>1. PICK i \in 1 .. Len(Image) :
              /\ b \in ImageLast(i) .. ImageStart(i) /\ MkfsOwner(b) = ImageStart(i)
              /\ fat[b] = IF b = ImageLast(i) THEN 0 ELSE b - 1
        BY <1>6, <1>7, <3>2
      <4>2. fat[b] = b - 1 /\ b - 1 \in ImageLast(i) .. ImageStart(i)
        BY <1>5, <3>2, <4>1
      <4>3. MkfsOwner(b - 1) = ImageStart(i)
        BY <4>2, OwnersOfImageAre DEF OwnersOfImage
      <4>4. b - 1 \in Used
        <5>0. b \in Nat /\ b <= nBlocks - 1 /\ ImageLast(i) > FirstFree /\ ImageLast(i) \in Nat /\ b - 1 >= ImageLast(i)
          BY <1>2, <1>5, <1>8, <4>2, BlocksAre
        <5>1. b - 1 > FirstFree /\ b - 1 \in Nat /\ b - 1 <= nBlocks - 1
          BY <1>2, <5>0
        <5> QED
          BY <1>2, <5>1, BlocksAre DEF DataBlocks
      <4>5. own[b - 1] = ImageStart(i) /\ pos[b - 1] = ImageStart(i) - (b - 1)
        BY <1>8, <4>3, <4>4
      <4>6. own[b] = ImageStart(i) /\ pos[b] = ImageStart(i) - b /\ ImageStart(i) \in Nat /\ b \in Nat
        BY <1>5, <1>8, <4>1
      <4>7. pos[b - 1] = pos[b] + 1
        BY <4>5, <4>6
      <4> QED
        BY <4>2, <4>4, <4>5, <4>6, <4>7
    <3> QED
      BY <3>1, <3>2
  <2>3. ASSUME NEW b \in Used, NEW c \in Used, own[b] = own[c], pos[b] = pos[c] PROVE b = c
    BY <1>8, <1>9, <2>3
  <2>4. ASSUME NEW b \in Used, NEW c \in Used, fat[b] = 0, own[b] = own[c] PROVE pos[c] <= pos[b]
    <3>1. MkfsOwner(b) = MkfsOwner(c)
      BY <1>8, <2>4
    <3>2. b <= c
      <4>1. CASE b = Root
        <5>1. c = Root
          <6> SUFFICES ASSUME c # Root PROVE FALSE
            OBVIOUS
          <6>1. PICK i \in 1 .. Len(Image) : MkfsOwner(c) = ImageStart(i)
            BY <1>7
          <6> QED
            BY <1>2, <1>5, <1>6, <3>1, <4>1, <6>1
        <5> QED
          BY <1>2, <4>1, <5>1
      <4>2. CASE b # Root
        <5>1. PICK i \in 1 .. Len(Image) :
                /\ b \in ImageLast(i) .. ImageStart(i) /\ MkfsOwner(b) = ImageStart(i)
                /\ fat[b] = IF b = ImageLast(i) THEN 0 ELSE b - 1
          BY <1>7, <4>2
        <5>2. b = ImageLast(i)
          <6>1. b \in Nat /\ b > FirstFree
            BY <1>8
          <6> QED
            BY <1>2, <2>4, <5>1, <6>1
        <5>3. c # Root
          <6>1. ImageStart(i) # Root
            BY <1>2, <1>5
          <6> QED
            BY <1>6, <3>1, <5>1, <6>1
        <5>4. PICK k \in 1 .. Len(Image) : c \in ImageLast(k) .. ImageStart(k) /\ MkfsOwner(c) = ImageStart(k)
          BY <1>7, <5>3
        <5>5. i = k
          BY <3>1, <5>1, <5>4, OwnersOfImageAre DEF OwnersOfImage
        <5> QED
          BY <1>5, <5>2, <5>4, <5>5
      <4> QED
        BY <4>1, <4>2
    <3> QED
      BY <1>8, <1>9, <3>1, <3>2
  <2>5. ASSUME NEW f \in Owners PROVE \E e \in Used : own[e] = f /\ fat[e] = 0
    <3>1. CASE f = Root
      BY <1>2, <1>6, <1>8, <3>1
    <3>2. CASE f # Root
      <4>1. PICK i \in 1 .. Len(Image) : f = ImageStart(i)
        BY <1>3, <1>4, <3>2
      <4>2. ImageLast(i) \in Used /\ own[ImageLast(i)] = f /\ ImageLast(i) # Root
        BY <1>2, <1>5, <1>8, <4>1
      <4>3. PICK k \in 1 .. Len(Image) :
              /\ MkfsOwner(ImageLast(i)) = ImageStart(k)
              /\ fat[ImageLast(i)] = IF ImageLast(i) = ImageLast(k) THEN 0 ELSE ImageLast(i) - 1
        BY <1>7, <4>2
      <4>4. i = k
        BY <1>5, <4>3, OwnersOfImageAre DEF OwnersOfImage
      <4> QED
        BY <4>2, <4>3, <4>4
    <3> QED
      BY <3>1, <3>2
  <2> QED
    BY <2>1, <2>2, <2>3, <2>4, <2>5 DEF ChainsInv
<1>12. LengthInv(own, pos)
  <2> SUFFICES ASSUME NEW e \in Used, fat[e] = 0
               PROVE /\ length[own[e]] > 0 => BlockInFile(length[own[e]] - 1) <= pos[e]
                     /\ pos[e] <= BlockInFile(length[own[e]])
    BY DEF LengthInv
  <2>1. CASE e = Root
    <3>1. own[e] = Root /\ pos[e] = 0 /\ length[Root] = EntrySize * Len(Image)
      BY <1>1, <1>2, <1>6, <1>8, <2>1 DEF ImageState
    <3>2. BlockInFile(EntrySize * Len(Image)) \in Nat
      BY MetaFits, BlockInFileIs
    <3> QED
      BY <3>1, <3>2, MetaFits
  <2>2. CASE e # Root
    <3>1. PICK i \in 1 .. Len(Image) :
            /\ e \in ImageLast(i) .. ImageStart(i) /\ MkfsOwner(e) = ImageStart(i)
            /\ fat[e] = IF e = ImageLast(i) THEN 0 ELSE e - 1
      BY <1>7, <2>2
    <3>2. e = ImageLast(i)
      <4>1. e \in Nat /\ e > FirstFree
        BY <1>8
      <4> QED
        BY <1>2, <3>1, <4>1
    <3>3. own[e] = ImageStart(i) /\ pos[e] = BlockInFile(Image[i]) /\ length[own[e]] = Image[i]
      BY <1>5, <1>8, <3>1, <3>2
    <3>4. Image[i] > 0 => Image[i] - 1 \in Nat /\ Image[i] - 1 <= Image[i]
      BY <1>5
    <3>5. Image[i] > 0 => BlockInFile(Image[i] - 1) <= BlockInFile(Image[i])
      BY <1>5, <3>4, BlockInFileIs
    <3>6. BlockInFile(Image[i]) <= BlockInFile(Image[i])
      BY <1>5, BlockInFileIs
    <3> QED
      BY <3>3, <3>5, <3>6
  <2> QED
    BY <2>1, <2>2
<1>13. ContentInv(own, pos)
  <2>1. \A b \in Used : content[b] = own[b]
    BY <1>1, <1>2, <1>8, BlocksAre DEF ImageState
  <2> QED
    BY <2>1 DEF ContentInv
<1> QED
  BY <1>10, <1>11, <1>12, <1>13

LEMMA Start ==
  ASSUME OneWriter, Init
  PROVE IInv
<1> PICK own, pos : /\ own = [b \in DataBlocks |-> MkfsOwner(b)]
                    /\ pos = [b \in DataBlocks |-> IF b > FirstFree THEN MkfsOwner(b) - b ELSE 0]
  OBVIOUS
<1>1. /\ own \in [DataBlocks -> DataBlocks] /\ pos \in [DataBlocks -> Nat]
      /\ ChainsInv(own, pos) /\ LengthInv(own, pos) /\ ContentInv(own, pos)
  BY StartChains
<1>2. FreeInv
  <2> SUFFICES ASSUME NEW b \in DataBlocks \ Used PROVE fat[b] = IF b = fatBlocks + 1 THEN 0 ELSE b - 1
    BY DEF FreeInv
  <2>1. b \in DataBlocks /\ b \in Blocks /\ b \in Nat /\ b <= FirstFree /\ FirstFree \in Nat /\ FirstFree < Root
        /\ Root \in Nat
    BY ImageIs, BlocksAre DEF ImageIntervals, Used, Init
  <2>2. \A i \in 1 .. Len(Image) : b # ImageLast(i)
    BY <2>1, ImageIs, BlocksAre DEF ImageIntervals
  <2>3. fat[b] = IF b \in {Root, fatBlocks + 1} \cup {ImageLast(j) : j \in 1 .. Len(Image)} THEN 0 ELSE b - 1
    BY <2>1, ImageLengths DEF Init, MkfsFat
  <2> QED
    BY <2>1, <2>2, <2>3
<1>3. JobInv(own, pos)
  BY DEF Init, JobInv, JobFits, Busy
<1>4. avail <= diskAvail
  BY ImageIs, BlocksAre DEF Init, ImageIntervals
<1>5. Accounted(own, pos)
  BY <1>1, <1>2, <1>3, <1>4 DEF Accounted
<1> QED
  BY <1>5, TypeStart DEF IInv

LEMMA Step ==
  ASSUME OneWriter, IInv, [Next]_vars
  PROVE IInv'
<1>1. TypeInv'
  BY TypeStep DEF IInv
<1>2. PICK own, pos : Accounted(own, pos)
  BY DEF IInv
<1>3. \E newOwn, newPos : Accounted(newOwn, newPos)'
  <2>1. CASE UNCHANGED vars
    <3>1. Accounted(own, pos)'
      <4>1. Owners' = Owners /\ Files' = Files
        BY <2>1 DEF vars, Owners, Files
      <4>2. ChainsInv(own, pos)' /\ FreeInv' /\ Used' = Used
        BY <1>2, <2>1, <4>1, ChainsKept DEF vars
      <4>3. LengthInv(own, pos)' /\ ContentInv(own, pos)' /\ JobInv(own, pos)'
        BY <1>2, <2>1, <4>1, <4>2 DEF vars, fixed, Accounted, LengthInv, ContentInv, JobInv, JobFits
      <4> QED
        BY <1>2, <2>1, <4>2, <4>3 DEF vars, fixed, Accounted
    <3> QED
      BY <3>1
  <2>2. ASSUME NEW p \in Procs, NEW f \in Files \ {Root}, NEW o \in Offsets(f), NEW n \in 0 .. BlockSize + 1,
               Write(p, f, o, n)
        PROVE \E newOwn, newPos : Accounted(newOwn, newPos)'
    BY <1>2, <2>2, WriteStep DEF IInv
  <2>3. ASSUME NEW p \in Procs, NEW n \in Names, Lookup(p, n)
        PROVE \E newOwn, newPos : Accounted(newOwn, newPos)'
    BY <1>2, <2>3, LookupStep DEF IInv
  <2>4. ASSUME NEW p \in Procs, NewFile(p)
        PROVE \E newOwn, newPos : Accounted(newOwn, newPos)'
    BY <1>2, <2>4, NewFileStep DEF IInv
  <2>5. ASSUME NEW p \in Procs, Continue(p)
        PROVE \E newOwn, newPos : Accounted(newOwn, newPos)'
    <3>1. CASE Walk(p)
      BY <1>2, <3>1, WalkStep DEF IInv
    <3>2. CASE Take(p)
      BY <1>2, <3>2, TakeStep DEF IInv
    <3>3. CASE Link(p)
      BY <1>2, <3>3, LinkStep DEF IInv
    <3>4. CASE WriteData(p)
      BY <1>2, <3>4, WriteDataStep DEF IInv
    <3>5. CASE WriteMeta(p)
      BY <1>2, <3>5, WriteMetaStep DEF IInv
    <3>6. CASE NewPop(p)
      BY <1>2, <3>6, NewPopStep DEF IInv
    <3> QED
      BY <2>5, <3>1, <3>2, <3>3, <3>4, <3>5, <3>6 DEF Continue
  <2>6. CASE Restart
    <3>1. Accounted(own, pos)'
      BY <1>2, <2>6, RestartStep DEF IInv
    <3> QED
      BY <3>1
  <2> QED
    BY <2>1, <2>2, <2>3, <2>4, <2>5, <2>6 DEF Next
<1> QED
  BY <1>1, <1>3 DEF IInv

LEMMA Always ==
  ASSUME OneWriter
  PROVE Spec => []IInv
<1>1. Init => IInv
  BY Start
<1>2. IInv /\ [Next]_vars => IInv'
  BY Step
<1> QED
  BY <1>1, <1>2, PTL DEF Spec

\* For any disk, image and names: with one process that writes in the last block of its
\* files, and restarts only before it allocates, every data block is in the chain of
\* exactly one file or free, and every chain ends (OpenFile::write and newFile,
\* fs.cc:92-154, 302-327).
THEOREM NoBlockLost ==
  ASSUME OneWriter
  PROVE Spec => []BlocksAccountedFor
BY AllAccountedFor, Always, PTL

\* In the same use the walk of OpenFile::read (fs.cc:79-91) never runs off the chain.
THEOREM ReadsEndInTheFile ==
  ASSUME OneWriter
  PROVE Spec => []ReadsStayInChain
BY AllReadable, Always, PTL

\* In the same use whatever a read of a file returns was written to that file, although
\* the blocks are written before fat[] and the length say so.
THEOREM FilesHoldTheirOwn ==
  ASSUME OneWriter
  PROVE Spec => []OwnData
BY AllOwn, Always, PTL
=============================================================================
