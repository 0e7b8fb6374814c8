----------------------------- MODULE HeapProofs -----------------------------
(***************************************************************************)
(* Theorems about Heap for heaps of any length and any requests: the      *)
(* blocks tile the heap, the list has the available ones, and the heap is *)
(* an allocator.                                                          *)
(***************************************************************************)
EXTENDS Heap, FiniteSetTheorems, WellFoundedInduction, TLAPS

Words == 0 .. len - 1
Values == (-len .. len) \cup Stamps
Heaps == [array : [Words -> Values], avail : Words]

\* The blocks B tile the heap but for the words from x to y - 1.
Shape(h, B, x, y) ==
  /\ B \subseteq Words /\ x \in 0 .. len /\ y \in 0 .. len /\ x <= y
  /\ \A b \in B :
       /\ Size(h, b) >= 2 /\ b + Size(h, b) <= len
       /\ h.array[Footer(h, b)] = h.array[b]
       /\ b + Size(h, b) <= x \/ y <= b
  /\ \A b, c \in B : b < c => b + Size(h, b) <= c
  /\ \A w \in Words : (x <= w /\ w < y) \/ \E b \in B : b <= w /\ w < b + Size(h, b)

----------------------------------------------------------------------------
(* Blocks.                                                                 *)

LEMMA SizeIs ==
  ASSUME NEW h \in Heaps, NEW i \in Words
  PROVE /\ h.array[i] \in Int /\ Size(h, i) \in Nat /\ (Size(h, i) = h.array[i] \/ Size(h, i) = -h.array[i])
        /\ Footer(h, i) = i + Size(h, i) - 1 /\ h.array[i] \in Values
<1>1. h.array \in [Words -> Values] /\ Values \subseteq Int
  BY HeapAssumption DEF Heaps, Values
<1>2. h.array[i] \in Int /\ h.array[i] \in Values
  BY <1>1
<1> QED
  BY <1>2 DEF Size, Footer

\* Shape speaks of headers and footers only.
LEMMA Kept ==
  ASSUME NEW h \in Heaps, NEW g \in Heaps, NEW B, NEW x, NEW y, Shape(h, B, x, y),
         \A b \in B : g.array[b] = h.array[b] /\ g.array[Footer(h, b)] = h.array[Footer(h, b)]
  PROVE Shape(g, B, x, y) /\ \A b \in B : Size(g, b) = Size(h, b)
<1>1. \A b \in B : Size(g, b) = Size(h, b) /\ Footer(g, b) = Footer(h, b)
  BY DEF Size, Footer
<1> QED
  BY <1>1 DEF Shape

\* No other tag is inside a block.
LEMMA Inside ==
  ASSUME NEW h \in Heaps, NEW B, NEW x, NEW y, Shape(h, B, x, y), NEW b \in B, NEW c \in B,
         NEW w \in Int, b < w, w < b + Size(h, b) - 1
  PROVE w # c /\ w # Footer(h, c)
<1>1. b \in Words /\ c \in Words
  BY DEF Shape
<1>2. Size(h, b) \in Nat /\ Size(h, c) \in Nat /\ Footer(h, c) = c + Size(h, c) - 1 /\ b \in Int /\ c \in Int
  BY <1>1, SizeIs DEF Words
<1>3. Size(h, c) >= 2 /\ (b < c => b + Size(h, b) <= c) /\ (c < b => c + Size(h, c) <= b)
  BY DEF Shape
<1> QED
  BY <1>2, <1>3

\* ... nor between x and y.
LEMMA Outside ==
  ASSUME NEW h \in Heaps, NEW B, NEW x, NEW y, Shape(h, B, x, y), NEW c \in B,
         NEW w \in Int, x <= w, w < y
  PROVE w # c /\ w # Footer(h, c)
<1>1. c \in Words
  BY DEF Shape
<1>2. Size(h, c) \in Nat /\ Footer(h, c) = c + Size(h, c) - 1 /\ c \in Int
  BY <1>1, SizeIs DEF Words
<1>3. Size(h, c) >= 2 /\ (c + Size(h, c) <= x \/ y <= c) /\ x \in Int /\ y \in Int
  BY DEF Shape
<1> QED
  BY <1>2, <1>3

\* A block is opened where there was no gap; a gap takes a block on its right or left.
LEMMA Opened ==
  ASSUME NEW h \in Heaps, NEW B, NEW z, Shape(h, B, z, z), NEW i \in B
  PROVE Shape(h, B \ {i}, i, i + Size(h, i))
<1>1. \A b \in B : b \in Words /\ Size(h, b) \in Nat /\ b \in Int
  BY SizeIs DEF Shape, Words
<1>2. Size(h, i) >= 2 /\ i + Size(h, i) <= len /\ i \in 0 .. len /\ i + Size(h, i) \in 0 .. len
  BY <1>1, HeapAssumption DEF Shape, Words
<1>3. \A b \in B \ {i} : b + Size(h, b) <= i \/ i + Size(h, i) <= b
  BY <1>1 DEF Shape
<1>4. \A w \in Words : (i <= w /\ w < i + Size(h, i)) \/ \E b \in B \ {i} : b <= w /\ w < b + Size(h, b)
  <2> SUFFICES ASSUME NEW w \in Words
               PROVE (i <= w /\ w < i + Size(h, i)) \/ \E b \in B \ {i} : b <= w /\ w < b + Size(h, b)
    OBVIOUS
  <2>1. ~(z <= w /\ w < z) /\ w \in Int /\ z \in Int
    BY DEF Shape, Words
  <2>2. PICK b \in B : b <= w /\ w < b + Size(h, b)
    BY <2>1 DEF Shape
  <2> QED
    BY <2>2
<1>5. i <= i + Size(h, i)
  BY <1>1
<1> QED
  BY <1>2, <1>3, <1>4, <1>5 DEF Shape

LEMMA WidenRight ==
  ASSUME NEW h \in Heaps, NEW B, NEW x, NEW y, Shape(h, B, x, y), y \in B
  PROVE Shape(h, B \ {y}, x, y + Size(h, y))
<1>1. \A b \in B : b \in Words /\ Size(h, b) \in Nat /\ b \in Int
  BY SizeIs DEF Shape, Words
<1>2. Size(h, y) >= 2 /\ y + Size(h, y) <= len /\ x \in 0 .. len /\ y + Size(h, y) \in 0 .. len /\ x <= y
  BY <1>1, HeapAssumption DEF Shape, Words
<1>3. \A b \in B \ {y} : b + Size(h, b) <= x \/ y + Size(h, y) <= b
  BY <1>1, <1>2 DEF Shape
<1>4. \A w \in Words : (x <= w /\ w < y + Size(h, y)) \/ \E b \in B \ {y} : b <= w /\ w < b + Size(h, b)
  <2> SUFFICES ASSUME NEW w \in Words
               PROVE (x <= w /\ w < y + Size(h, y)) \/ \E b \in B \ {y} : b <= w /\ w < b + Size(h, b)
    OBVIOUS
  <2>1. CASE x <= w /\ w < y
    BY <1>1, <1>2, <2>1 DEF Words
  <2>2. CASE \E b \in B : b <= w /\ w < b + Size(h, b)
    BY <1>1, <1>2, <2>2 DEF Words
  <2> QED
    BY <2>1, <2>2 DEF Shape
<1>5. x <= y + Size(h, y)
  BY <1>1, <1>2
<1> QED
  BY <1>2, <1>3, <1>4, <1>5 DEF Shape

LEMMA WidenLeft ==
  ASSUME NEW h \in Heaps, NEW B, NEW x, NEW y, Shape(h, B, x, y), NEW c \in B, c + Size(h, c) = x
  PROVE Shape(h, B \ {c}, c, y)
<1>1. \A b \in B : b \in Words /\ Size(h, b) \in Nat /\ b \in Int
  BY SizeIs DEF Shape, Words
<1>2. Size(h, c) >= 2 /\ c \in 0 .. len /\ y \in 0 .. len /\ x \in 0 .. len /\ x <= y
  BY <1>1, HeapAssumption DEF Shape, Words
<1>3. \A b \in B \ {c} : b + Size(h, b) <= c \/ y <= b
  BY <1>1, <1>2 DEF Shape
<1>4. \A w \in Words : (c <= w /\ w < y) \/ \E b \in B \ {c} : b <= w /\ w < b + Size(h, b)
  <2> SUFFICES ASSUME NEW w \in Words
               PROVE (c <= w /\ w < y) \/ \E b \in B \ {c} : b <= w /\ w < b + Size(h, b)
    OBVIOUS
  <2>1. CASE x <= w /\ w < y
    BY <1>1, <1>2, <2>1 DEF Words
  <2>2. CASE \E b \in B : b <= w /\ w < b + Size(h, b)
    BY <1>1, <1>2, <2>2 DEF Words
  <2> QED
    BY <2>1, <2>2 DEF Shape
<1>5. c <= y
  BY <1>1, <1>2
<1> QED
  BY <1>2, <1>3, <1>4, <1>5 DEF Shape

\* The tags of a new block at the left end of the gap.
LEMMA Filled ==
  ASSUME NEW h \in Heaps, NEW g \in Heaps, NEW B, NEW x, NEW y, Shape(h, B, x, y),
         NEW n \in Nat, n >= 2, x + n <= y,
         \A b \in B : g.array[b] = h.array[b] /\ g.array[Footer(h, b)] = h.array[Footer(h, b)],
         g.array[x] \in {n, -n}, g.array[x + n - 1] = g.array[x]
  PROVE /\ Shape(g, B \cup {x}, x + n, y) /\ Size(g, x) = n /\ x \notin B
        /\ \A b \in B : Size(g, b) = Size(h, b)
<1>1. Shape(g, B, x, y) /\ \A b \in B : Size(g, b) = Size(h, b)
  BY Kept
<1>2. \A b \in B : b \in Words /\ Size(g, b) \in Nat /\ b \in Int /\ Size(g, b) >= 2
  BY <1>1, SizeIs DEF Shape, Words
<1>3. x \in 0 .. len /\ y \in 0 .. len /\ x + n \in 0 .. len /\ x \in Words
  BY HeapAssumption DEF Shape, Words
<1>4. Size(g, x) = n /\ Footer(g, x) = x + n - 1
  BY <1>3 DEF Size, Footer
<1>5. \A b \in B : b + Size(g, b) <= x \/ y <= b
  BY <1>1 DEF Shape
<1>6. x \notin B
  BY <1>2, <1>3, <1>5
<1>7. \A b \in B \cup {x} :
       /\ Size(g, b) >= 2 /\ b + Size(g, b) <= len
       /\ g.array[Footer(g, b)] = g.array[b]
       /\ b + Size(g, b) <= x + n \/ y <= b
  <2>1. \A b \in B : Size(g, b) >= 2 /\ b + Size(g, b) <= len /\ g.array[Footer(g, b)] = g.array[b]
    BY <1>1 DEF Shape
  <2>2. \A b \in B : b + Size(g, b) <= x + n \/ y <= b
    BY <1>2, <1>3, <1>5
  <2>3. x + n <= len
    BY <1>3
  <2>4. x + n <= x + n
    BY <1>3
  <2> QED
    BY <1>4, <2>1, <2>2, <2>3, <2>4
<1>8. \A b, c \in B \cup {x} : b < c => b + Size(g, b) <= c
  <2>1. \A b, c \in B : b < c => b + Size(g, b) <= c
    BY <1>1 DEF Shape
  <2>2. \A c \in B : x < c => x + n <= c
    BY <1>2, <1>3, <1>5
  <2>3. \A b \in B : b < x => b + Size(g, b) <= x
    BY <1>2, <1>3, <1>5
  <2> QED
    BY <1>3, <1>4, <2>1, <2>2, <2>3
<1>9. \A w \in Words : (x + n <= w /\ w < y) \/ \E b \in B \cup {x} : b <= w /\ w < b + Size(g, b)
  <2> SUFFICES ASSUME NEW w \in Words
               PROVE (x + n <= w /\ w < y) \/ \E b \in B \cup {x} : b <= w /\ w < b + Size(g, b)
    OBVIOUS
  <2>1. CASE x <= w /\ w < y
    BY <1>3, <1>4, <2>1 DEF Words
  <2>2. CASE \E b \in B : b <= w /\ w < b + Size(g, b)
    BY <2>2
  <2> QED
    BY <1>1, <2>1, <2>2 DEF Shape
<1> QED
  BY <1>1, <1>3, <1>4, <1>6, <1>7, <1>8, <1>9 DEF Shape

\* The blocks before and after one.
LEMMA Neighbours ==
  ASSUME NEW h \in Heaps, NEW B, NEW z, Shape(h, B, z, z), NEW i \in B
  PROVE /\ RightOf(h, i) = i + Size(h, i) /\ (i + Size(h, i) = len \/ i + Size(h, i) \in B)
        /\ i # 0 => /\ LeftOf(h, i) \in B /\ LeftOf(h, i) + Size(h, LeftOf(h, i)) = i
                    /\ \A b \in B : b + Size(h, b) = i => b = LeftOf(h, i)
<1>1. \A b \in B : b \in Words /\ Size(h, b) \in Nat /\ b \in Int /\ b >= 0 /\ Size(h, b) >= 2 /\ b + Size(h, b) <= len
  BY SizeIs DEF Shape, Words
<1>2. \A w \in Words : \E b \in B : b <= w /\ w < b + Size(h, b)
  <2>1. \A w \in Words : ~(z <= w /\ w < z)
    BY DEF Shape, Words
  <2> QED
    BY <2>1 DEF Shape
<1>3. \A b, c \in B : b < c => b + Size(h, b) <= c
  BY DEF Shape
<1>4. ASSUME i + Size(h, i) # len PROVE i + Size(h, i) \in B
  <2>1. i + Size(h, i) \in Words
    BY <1>1, <1>4, HeapAssumption DEF Words
  <2>2. PICK c \in B : c <= i + Size(h, i) /\ i + Size(h, i) < c + Size(h, c)
    BY <1>2, <2>1
  <2>3. c = i + Size(h, i)
    BY <1>1, <1>3, <2>2
  <2> QED
    BY <2>3
<1>5. ASSUME i # 0
      PROVE /\ LeftOf(h, i) \in B /\ LeftOf(h, i) + Size(h, LeftOf(h, i)) = i
            /\ \A b \in B : b + Size(h, b) = i => b = LeftOf(h, i)
  <2> DEFINE w == i - 1
  <2>1. w \in Words /\ i = w + 1 /\ w \in Int
    BY <1>1, <1>5, HeapAssumption DEF Words
  <2> HIDE DEF w
  <2>2. PICK c \in B : c <= w /\ w < c + Size(h, c)
    BY <1>2, <2>1
  <2>3. c + Size(h, c) = i
    BY <1>1, <1>3, <2>1, <2>2
  <2>4. ASSUME NEW b \in B, b + Size(h, b) = i PROVE LeftOf(h, i) = b
    <3>1. Footer(h, b) = i - 1 /\ h.array[Footer(h, b)] = h.array[b]
      BY <1>1, <2>4 DEF Shape, Footer
    <3>2. Size(h, i - 1) = Size(h, b)
      BY <3>1 DEF Size
    <3> QED
      BY <1>1, <2>4, <3>2 DEF LeftOf
  <2> QED
    BY <2>3, <2>4
<1> QED
  BY <1>4, <1>5 DEF RightOf

----------------------------------------------------------------------------
(* The list.                                                               *)

\* The list has the blocks A, each once: they can be numbered downward.
List(h, A) ==
  /\ \A i \in A : i \in Words \ {0} /\ i + 3 < len
  /\ \A i, j \in A : i + 1 # j + 2
  /\ h.avail \in A \cup {0} /\ (h.avail # 0 => PrevOf(h, h.avail) = 0)
  /\ \A i \in A :
       /\ NextOf(h, i) \in A \cup {0} /\ (NextOf(h, i) # 0 => PrevOf(h, NextOf(h, i)) = i)
       /\ i # h.avail => PrevOf(h, i) \in A /\ NextOf(h, PrevOf(h, i)) = i
  /\ \E m \in Nat : \E r \in [A -> 0 .. m] : \A i \in A : NextOf(h, i) # 0 => r[NextOf(h, i)] < r[i]

LEMMA ListKept ==
  ASSUME NEW h \in Heaps, NEW g \in Heaps, NEW A, List(h, A), g.avail = h.avail,
         \A i \in A : g.array[i + 1] = h.array[i + 1] /\ g.array[i + 2] = h.array[i + 2]
  PROVE List(g, A)
<1>1. \A i \in A : NextOf(g, i) = NextOf(h, i) /\ PrevOf(g, i) = PrevOf(h, i)
  BY DEF NextOf, PrevOf
<1>2. (\A i \in A : i \in Words \ {0} /\ i + 3 < len) /\ (\A i, j \in A : i + 1 # j + 2)
      /\ g.avail \in A \cup {0} /\ (g.avail # 0 => PrevOf(g, g.avail) = 0)
  BY <1>1 DEF List
<1>3. \A i \in A :
       /\ NextOf(g, i) \in A \cup {0} /\ (NextOf(g, i) # 0 => PrevOf(g, NextOf(g, i)) = i)
       /\ i # g.avail => PrevOf(g, i) \in A /\ NextOf(g, PrevOf(g, i)) = i
  BY <1>1 DEF List
<1>4. \E m \in Nat : \E r \in [A -> 0 .. m] : \A i \in A : NextOf(g, i) # 0 => r[NextOf(g, i)] < r[i]
  BY <1>1 DEF List
<1> QED
  BY <1>2, <1>3, <1>4 DEF List

\* A word is changed.
AfterSet(h, g, i, x) ==
  /\ g \in Heaps /\ g.avail = h.avail
  /\ g.array[i] = x
  /\ \A w \in Words \ {i} : g.array[w] = h.array[w]

LEMMA SetWordIs ==
  ASSUME NEW h \in Heaps, NEW i \in Words, NEW x \in Values
  PROVE AfterSet(h, SetWord(h, i, x), i, x)
BY DEF AfterSet, SetWord, Heaps

LEMMA HeadIs ==
  ASSUME NEW h \in Heaps, NEW v \in Words
  PROVE [h EXCEPT !.avail = v] \in Heaps /\ [h EXCEPT !.avail = v].array = h.array /\ [h EXCEPT !.avail = v].avail = v
BY DEF Heaps

\* remove changes two links or the head of the list.
LEMMA UnlinkedIs ==
  ASSUME NEW h \in Heaps, NEW A, List(h, A), NEW i \in A
  PROVE LET g == Unlinked(h, i)
            p == PrevOf(h, i)
            n == NextOf(h, i)
        IN /\ g \in Heaps
           /\ p \in (A \cup {0}) \ {i} /\ n \in (A \cup {0}) \ {i} /\ (p = 0 <=> i = h.avail)
           /\ g.avail = IF p = 0 THEN n ELSE h.avail
           /\ p # 0 => g.array[p + 1] = n
           /\ n # 0 => g.array[n + 2] = p
           /\ \A w \in Words : (p # 0 => w # p + 1) /\ (n # 0 => w # n + 2) => g.array[w] = h.array[w]
<1> DEFINE p == PrevOf(h, i)
           n == NextOf(h, i)
           s == IF p = 0 THEN [h EXCEPT !.avail = n] ELSE SetWord(h, p + 1, n)
           g == IF n = 0 THEN s ELSE SetWord(s, n + 2, p)
<1>1. g = Unlinked(h, i)
  BY DEF Unlinked
<1>2. PICK m \in Nat : \E r \in [A -> 0 .. m] : \A j \in A : NextOf(h, j) # 0 => r[NextOf(h, j)] < r[j]
  BY DEF List
<1> PICK r \in [A -> 0 .. m] : \A j \in A : NextOf(h, j) # 0 => r[NextOf(h, j)] < r[j]
  BY <1>2
<1>3. n \in A \cup {0} /\ (n # 0 => PrevOf(h, n) = i) /\ (i # h.avail => p \in A /\ NextOf(h, p) = i)
      /\ (i = h.avail => p = 0)
  BY DEF List
<1>4. \A j \in A : r[j] \in Int /\ j # 0
  BY DEF List
<1>5. n # i /\ p # i
  BY <1>2, <1>3, <1>4
<1>6. p = 0 <=> i = h.avail
  BY <1>3, <1>4
<1>7. p \in A \cup {0}
  BY <1>3
<1>8. \A j \in A : j \in Words /\ j + 1 \in Words /\ j + 2 \in Words /\ j \in Values
  BY HeapAssumption DEF List, Words, Values
<1>9. 0 \in Words /\ 0 \in Values
  BY HeapAssumption DEF Words, Values
<1>10. n # 0 /\ p # 0 => n + 2 # p + 1
  BY <1>3, <1>7 DEF List
<1> HIDE DEF p, n
<1>11. /\ s \in Heaps /\ s.avail = IF p = 0 THEN n ELSE h.avail
       /\ p # 0 => s.array[p + 1] = n
       /\ \A w \in Words : (p # 0 => w # p + 1) => s.array[w] = h.array[w]
  <2>1. CASE p = 0
    BY <1>3, <1>8, <1>9, <2>1, HeadIs
  <2>2. CASE p # 0
    <3>1. p + 1 \in Words /\ n \in Values
      BY <1>3, <1>7, <1>8, <1>9, <2>2
    <3>2. AfterSet(h, s, p + 1, n)
      BY <2>2, <3>1, SetWordIs DEF s
    <3> HIDE DEF s
    <3> QED
      BY <2>2, <3>2 DEF AfterSet
  <2> QED
    BY <2>1, <2>2
<1> HIDE DEF s
<1>12. /\ g \in Heaps /\ g.avail = IF p = 0 THEN n ELSE h.avail
       /\ p # 0 => g.array[p + 1] = n
       /\ n # 0 => g.array[n + 2] = p
       /\ \A w \in Words : (p # 0 => w # p + 1) /\ (n # 0 => w # n + 2) => g.array[w] = h.array[w]
  <2>1. CASE n = 0
    BY <1>11, <2>1
  <2>2. CASE n # 0
    <3>1. n + 2 \in Words /\ p \in Values
      BY <1>3, <1>7, <1>8, <1>9, <2>2
    <3>2. p # 0 => p + 1 \in Words /\ p + 1 # n + 2
      BY <1>7, <1>8, <1>10, <2>2
    <3>3. g = SetWord(s, n + 2, p)
      BY <2>2
    <3>4. /\ g \in Heaps /\ g.avail = s.avail /\ g.array[n + 2] = p
          /\ \A w \in Words \ {n + 2} : g.array[w] = s.array[w]
      <4>1. AfterSet(s, g, n + 2, p)
        BY <1>11, <3>1, <3>3, SetWordIs
      <4> QED
        BY <4>1 DEF AfterSet
    <3> QED
      BY <1>11, <2>2, <3>2, <3>4
  <2> QED
    BY <2>1, <2>2
<1> QED
  BY <1>1, <1>3, <1>5, <1>6, <1>7, <1>12 DEF p, n

\* remove takes the block out.
LEMMA Removed ==
  ASSUME NEW h \in Heaps, NEW A, List(h, A), NEW i \in A
  PROVE List(Unlinked(h, i), A \ {i})
<1> DEFINE g == Unlinked(h, i)
           p == PrevOf(h, i)
           n == NextOf(h, i)
           C == A \ {i}
<1>1. /\ g \in Heaps
      /\ p \in (A \cup {0}) \ {i} /\ n \in (A \cup {0}) \ {i} /\ (p = 0 <=> i = h.avail)
      /\ g.avail = IF p = 0 THEN n ELSE h.avail
      /\ p # 0 => g.array[p + 1] = n
      /\ n # 0 => g.array[n + 2] = p
      /\ \A w \in Words : (p # 0 => w # p + 1) /\ (n # 0 => w # n + 2) => g.array[w] = h.array[w]
  BY UnlinkedIs
<1>2. /\ \A j \in A : j \in Words \ {0} /\ j + 3 < len /\ j \in Int
      /\ \A j, k \in A : j + 1 # k + 2
      /\ h.avail \in A \cup {0} /\ (h.avail # 0 => PrevOf(h, h.avail) = 0)
  BY DEF List, Words
<1>3. \A j \in A :
       /\ NextOf(h, j) \in A \cup {0} /\ (NextOf(h, j) # 0 => PrevOf(h, NextOf(h, j)) = j)
       /\ j # h.avail => PrevOf(h, j) \in A /\ NextOf(h, PrevOf(h, j)) = j
  BY DEF List
<1>4. PICK m \in Nat : \E r \in [A -> 0 .. m] : \A j \in A : NextOf(h, j) # 0 => r[NextOf(h, j)] < r[j]
  BY DEF List
<1> PICK r \in [A -> 0 .. m] : \A j \in A : NextOf(h, j) # 0 => r[NextOf(h, j)] < r[j]
  BY <1>4
<1>5. n # 0 => PrevOf(h, n) = i
  BY <1>3
<1>6. p # 0 => NextOf(h, p) = i
  BY <1>1, <1>3
<1> HIDE DEF g, p, n
<1>7. \A j \in C : NextOf(g, j) = IF j = p THEN n ELSE NextOf(h, j)
  <2> SUFFICES ASSUME NEW j \in C PROVE g.array[j + 1] = IF j = p THEN n ELSE h.array[j + 1]
    BY DEF NextOf
  <2>1. j + 1 \in Words /\ j \in Int /\ j # 0
    BY <1>2, HeapAssumption DEF Words
  <2>2. CASE j = p
    BY <1>1, <2>1, <2>2
  <2>3. CASE j # p
    <3>1. p # 0 => j + 1 # p + 1
      BY <1>1, <1>2, <2>1, <2>3
    <3>2. n # 0 => j + 1 # n + 2
      BY <1>1, <1>2
    <3> QED
      BY <1>1, <2>1, <2>3, <3>1, <3>2
  <2> QED
    BY <2>2, <2>3
<1>8. \A j \in C : PrevOf(g, j) = IF j = n THEN p ELSE PrevOf(h, j)
  <2> SUFFICES ASSUME NEW j \in C PROVE g.array[j + 2] = IF j = n THEN p ELSE h.array[j + 2]
    BY DEF PrevOf
  <2>1. j + 2 \in Words /\ j \in Int /\ j # 0
    BY <1>2, HeapAssumption DEF Words
  <2>2. CASE j = n
    BY <1>1, <2>1, <2>2
  <2>3. CASE j # n
    <3>1. n # 0 => j + 2 # n + 2
      BY <1>1, <1>2, <2>1, <2>3
    <3>2. p # 0 => j + 2 # p + 1
      BY <1>1, <1>2
    <3> QED
      BY <1>1, <2>1, <2>3, <3>1, <3>2
  <2> QED
    BY <2>2, <2>3
<1>9. g.avail \in C \cup {0} /\ (g.avail # 0 => PrevOf(g, g.avail) = 0)
  <2>1. CASE p = 0
    BY <1>1, <1>8, <2>1
  <2>2. CASE p # 0
    <3>1. g.avail = h.avail /\ h.avail # i /\ (h.avail # 0 => h.avail # n)
      BY <1>1, <1>2, <1>5, <2>2
    <3> QED
      BY <1>2, <1>8, <3>1
  <2> QED
    BY <2>1, <2>2
<1>10. ASSUME NEW j \in C
       PROVE /\ NextOf(g, j) \in C \cup {0} /\ (NextOf(g, j) # 0 => PrevOf(g, NextOf(g, j)) = j)
             /\ j # g.avail => PrevOf(g, j) \in C /\ NextOf(g, PrevOf(g, j)) = j
  <2>1. NextOf(h, j) = i => j = p
    <3> SUFFICES ASSUME NextOf(h, j) = i PROVE j = p
      OBVIOUS
    <3>1. i # 0
      BY <1>2
    <3> QED
      BY <1>3, <3>1 DEF p
  <2>2. NextOf(g, j) \in C \cup {0} /\ (NextOf(g, j) # 0 => PrevOf(g, NextOf(g, j)) = j)
    <3>1. CASE j = p
      BY <1>1, <1>7, <1>8, <3>1
    <3>2. CASE j # p
      <4>1. NextOf(g, j) = NextOf(h, j) /\ NextOf(h, j) # i
        BY <1>7, <2>1, <3>2
      <4>2. NextOf(h, j) # 0 => NextOf(h, j) # n
        BY <1>3, <1>5
      <4> QED
        BY <1>3, <1>8, <4>1, <4>2
    <3> QED
      BY <3>1, <3>2
  <2>3. ASSUME j # g.avail PROVE PrevOf(g, j) \in C /\ NextOf(g, PrevOf(g, j)) = j
    <3>1. CASE j = n
      <4>1. p # 0 /\ p \in C
        BY <1>1, <2>3, <3>1
      <4> QED
        BY <1>7, <1>8, <3>1, <4>1
    <3>2. CASE j # n
      <4>1. j # h.avail
        BY <1>1, <2>3
      <4>2. PrevOf(h, j) \in A /\ NextOf(h, PrevOf(h, j)) = j
        BY <1>3, <4>1
      <4>3. PrevOf(h, j) # i
        BY <3>2, <4>2 DEF n
      <4>4. PrevOf(h, j) # p
        <5> SUFFICES ASSUME PrevOf(h, j) = p PROVE FALSE
          OBVIOUS
        <5>1. p # 0
          BY <1>2, <4>2
        <5> QED
          BY <1>6, <4>2, <5>1
      <4> QED
        BY <1>7, <1>8, <3>2, <4>2, <4>3, <4>4
    <3> QED
      BY <3>1, <3>2
  <2> QED
    BY <2>2, <2>3
<1>11. \E r2 \in [C -> 0 .. m] : \A j \in C : NextOf(g, j) # 0 => r2[NextOf(g, j)] < r2[j]
  <2> DEFINE r2 == [j \in C |-> r[j]]
  <2>1. r2 \in [C -> 0 .. m]
    OBVIOUS
  <2>2. ASSUME NEW j \in C, NextOf(g, j) # 0 PROVE r2[NextOf(g, j)] < r2[j]
    <3>1. NextOf(g, j) \in C
      BY <1>10, <2>2
    <3>2. CASE j = p
      <4>1. NextOf(g, j) = n /\ n # 0 /\ p # 0 /\ p \in A /\ n \in A /\ NextOf(h, p) = i
        BY <1>1, <1>2, <1>6, <1>7, <2>2, <3>2
      <4>2. r[i] < r[p] /\ i # 0
        BY <1>2, <1>4, <4>1
      <4>3. r[n] < r[i]
        BY <1>4, <4>1 DEF n
      <4>4. r[i] \in Int /\ r[p] \in Int /\ r[n] \in Int
        BY <4>1
      <4>5. r[n] < r[p]
        BY <4>2, <4>3, <4>4
      <4> QED
        BY <3>1, <3>2, <4>1, <4>5
    <3>3. CASE j # p
      BY <1>4, <1>7, <2>2, <3>1, <3>3
    <3> QED
      BY <3>2, <3>3
  <2> QED
    BY <2>1, <2>2
<1>12. (\A j \in C : j \in Words \ {0} /\ j + 3 < len) /\ \A j, k \in C : j + 1 # k + 2
  BY <1>2
<1>13. List(g, C)
  BY <1>9, <1>10, <1>11, <1>12 DEF List
<1> QED
  BY <1>13 DEF g

\* makeAvail puts a block in front of the others.
LEMMA Added ==
  ASSUME NEW h \in Heaps, NEW g \in Heaps, NEW A, List(h, A), NEW i \in Words \ {0}, i \notin A, i + 3 < len,
         \A j \in A : i + 1 # j + 2 /\ i + 2 # j + 1,
         g.avail = i, g.array[i + 1] = h.avail, g.array[i + 2] = 0,
         h.avail # 0 => g.array[h.avail + 2] = i,
         \A j \in A : g.array[j + 1] = h.array[j + 1] /\ (j # h.avail => g.array[j + 2] = h.array[j + 2])
  PROVE List(g, A \cup {i})
<1> DEFINE C == A \cup {i}
<1>1. /\ \A j \in A : j \in Words \ {0} /\ j + 3 < len /\ j \in Int
      /\ \A j, k \in A : j + 1 # k + 2
      /\ h.avail \in A \cup {0} /\ (h.avail # 0 => PrevOf(h, h.avail) = 0)
  BY DEF List, Words
<1>2. \A j \in A :
       /\ NextOf(h, j) \in A \cup {0} /\ (NextOf(h, j) # 0 => PrevOf(h, NextOf(h, j)) = j)
       /\ j # h.avail => PrevOf(h, j) \in A /\ NextOf(h, PrevOf(h, j)) = j
  BY DEF List
<1>3. PICK m \in Nat : \E r \in [A -> 0 .. m] : \A j \in A : NextOf(h, j) # 0 => r[NextOf(h, j)] < r[j]
  BY DEF List
<1> PICK r \in [A -> 0 .. m] : \A j \in A : NextOf(h, j) # 0 => r[NextOf(h, j)] < r[j]
  BY <1>3
<1>4. /\ \A j \in A : NextOf(g, j) = NextOf(h, j) /\ (j # h.avail => PrevOf(g, j) = PrevOf(h, j))
      /\ NextOf(g, i) = h.avail /\ PrevOf(g, i) = 0 /\ (h.avail # 0 => PrevOf(g, h.avail) = i)
  BY DEF NextOf, PrevOf
<1>5. (\A j \in C : j \in Words \ {0} /\ j + 3 < len) /\ \A j, k \in C : j + 1 # k + 2
  <2>1. i \in Int /\ i + 1 # i + 2
    BY DEF Words
  <2>2. \A j \in A : j + 1 # i + 2
    OBVIOUS
  <2> QED
    BY <1>1, <2>1, <2>2
<1>6. g.avail \in C /\ PrevOf(g, g.avail) = 0
  BY <1>4
<1>7. ASSUME NEW j \in C
      PROVE /\ NextOf(g, j) \in C \cup {0} /\ (NextOf(g, j) # 0 => PrevOf(g, NextOf(g, j)) = j)
            /\ j # g.avail => PrevOf(g, j) \in C /\ NextOf(g, PrevOf(g, j)) = j
  <2>1. CASE j = i
    BY <1>1, <1>4, <2>1
  <2>2. CASE j # i
    <3>1. j \in A /\ NextOf(g, j) = NextOf(h, j)
      BY <1>4, <2>2
    <3>2. NextOf(h, j) # 0 => NextOf(h, j) # h.avail
      BY <1>1, <1>2, <3>1
    <3>3. NextOf(g, j) \in C \cup {0} /\ (NextOf(g, j) # 0 => PrevOf(g, NextOf(g, j)) = j)
      BY <1>2, <1>4, <3>1, <3>2
    <3>4. PrevOf(g, j) \in C /\ NextOf(g, PrevOf(g, j)) = j
      <4>1. CASE j = h.avail
        BY <1>1, <1>4, <3>1, <4>1
      <4>2. CASE j # h.avail
        BY <1>2, <1>4, <3>1, <4>2
      <4> QED
        BY <4>1, <4>2
    <3> QED
      BY <3>3, <3>4
  <2> QED
    BY <2>1, <2>2
<1>8. m + 1 \in Nat /\ \E s \in [C -> 0 .. m + 1] : \A j \in C : NextOf(g, j) # 0 => s[NextOf(g, j)] < s[j]
  <2> DEFINE s == [j \in C |-> IF j = i THEN m + 1 ELSE r[j]]
  <2>1. s \in [C -> 0 .. m + 1]
    OBVIOUS
  <2>2. ASSUME NEW j \in C, NextOf(g, j) # 0 PROVE s[NextOf(g, j)] < s[j]
    <3>1. NextOf(g, j) \in A
      BY <1>1, <1>2, <1>4, <2>2
    <3>2. s[NextOf(g, j)] = r[NextOf(g, j)] /\ r[NextOf(g, j)] \in 0 .. m
      BY <3>1
    <3>3. CASE j = i
      BY <3>2, <3>3
    <3>4. CASE j # i
      BY <1>4, <2>2, <3>2, <3>4
    <3> QED
      BY <3>3, <3>4
  <2> HIDE DEF s
  <2>3. \A j \in C : NextOf(g, j) # 0 => s[NextOf(g, j)] < s[j]
    BY <2>2
  <2> QED
    BY <2>1, <2>3
<1>9. \E n \in Nat : \E s \in [C -> 0 .. n] : \A j \in C : NextOf(g, j) # 0 => s[NextOf(g, j)] < s[j]
  BY <1>8
<1>10. List(g, C)
  BY <1>5, <1>6, <1>7, <1>9 DEF List
<1> QED
  BY <1>10

----------------------------------------------------------------------------
(* Blocks and list.                                                        *)

\* Blocks tile the heap but for a gap, and the list has those that are available.
Inter(h, B, A, x, y) ==
  /\ h \in Heaps /\ Shape(h, B, x, y) /\ List(h, A)
  /\ A = {b \in B : h.array[b] > 0} /\ \A a \in A : Size(h, a) >= 4

\* The links of an available block are inside of it.
LEMMA Links ==
  ASSUME NEW h, NEW B, NEW A, NEW x, NEW y, Inter(h, B, A, x, y), NEW a \in A
  PROVE /\ a + 1 \in Words /\ a + 2 \in Words
        /\ \A b \in B : /\ a + 1 # b /\ a + 1 # Footer(h, b) /\ a + 2 # b /\ a + 2 # Footer(h, b)
                        /\ b # a => \A w \in b .. b + Size(h, b) - 1 : a + 1 # w /\ a + 2 # w
        /\ a + 1 \notin x .. y - 1 /\ a + 2 \notin x .. y - 1
<1>1. h \in Heaps /\ Shape(h, B, x, y) /\ a \in B /\ Size(h, a) >= 4
  BY DEF Inter
<1>2. \A b \in B : b \in Words /\ b \in Int /\ Size(h, b) \in Nat /\ b + Size(h, b) <= len
  BY <1>1, SizeIs DEF Shape, Words
<1>3. a < a + 1 /\ a + 2 < a + Size(h, a) - 1 /\ a + 1 \in Int /\ a + 2 \in Int
  BY <1>1, <1>2
<1>4. a + 1 \in Words /\ a + 2 \in Words
  BY <1>1, <1>2, HeapAssumption DEF Words
<1>5. \A b \in B : a + 1 # b /\ a + 1 # Footer(h, b) /\ a + 2 # b /\ a + 2 # Footer(h, b)
  <2>1. a < a + 2 /\ a + 1 < a + Size(h, a) - 1
    BY <1>1, <1>2
  <2> QED
    BY <1>1, <1>3, <2>1, Inside
<1>6. \A b \in B : b # a => (b + Size(h, b) <= a \/ a + Size(h, a) <= b)
  BY <1>1, <1>2 DEF Shape
<1>7. \A b \in B : b # a => \A w \in b .. b + Size(h, b) - 1 : a + 1 # w /\ a + 2 # w
  BY <1>1, <1>2, <1>6
<1>8. (a + Size(h, a) <= x \/ y <= a) /\ x \in Int /\ y \in Int
  BY <1>1 DEF Shape
<1>9. a + 1 \notin x .. y - 1 /\ a + 2 \notin x .. y - 1
  BY <1>1, <1>2, <1>8
<1> QED
  BY <1>4, <1>5, <1>7, <1>9

\* remove, together with the opening of the block: the gap is from x to y then.
AfterUnlink(h, B, A, i, x, y) ==
  /\ Inter(Unlinked(h, i), B \ {i}, A \ {i}, x, y)
  /\ \A b \in B : Unlinked(h, i).array[b] = h.array[b] /\ Size(Unlinked(h, i), b) = Size(h, b)
  /\ \A w \in Words : Unlinked(h, i).array[w] = h.array[w] \/ \E a \in A : w = a + 1 \/ w = a + 2

LEMMA UnlinkStep ==
  ASSUME NEW h, NEW B, NEW A, NEW x, NEW y, Inter(h, B, A, x, y), NEW i \in A,
         NEW x2, NEW y2, Shape(h, B \ {i}, x2, y2)
  PROVE AfterUnlink(h, B, A, i, x2, y2)
<1> DEFINE g == Unlinked(h, i)
           p == PrevOf(h, i)
           n == NextOf(h, i)
<1>1. /\ h \in Heaps /\ Shape(h, B, x, y) /\ List(h, A)
      /\ A = {b \in B : h.array[b] > 0} /\ \A a \in A : Size(h, a) >= 4
  BY DEF Inter
<1>2. /\ g \in Heaps
      /\ p \in (A \cup {0}) \ {i} /\ n \in (A \cup {0}) \ {i}
      /\ \A w \in Words : (p # 0 => w # p + 1) /\ (n # 0 => w # n + 2) => g.array[w] = h.array[w]
  BY <1>1, UnlinkedIs
<1>3. List(g, A \ {i})
  BY <1>1, Removed
<1> HIDE DEF g, p, n
<1>4. \A w \in Words : g.array[w] = h.array[w] \/ \E a \in A : w = a + 1 \/ w = a + 2
  BY <1>2
<1>5. \A b \in B : b \in Words /\ Footer(h, b) \in Words
  <2>1. \A b \in B : b \in Words /\ b + Size(h, b) <= len /\ Size(h, b) >= 2
    BY <1>1 DEF Shape
  <2> QED
    BY <1>1, <2>1, SizeIs, HeapAssumption DEF Words
<1>6. \A b \in B, a \in A : a + 1 # b /\ a + 1 # Footer(h, b) /\ a + 2 # b /\ a + 2 # Footer(h, b)
  BY Links
<1>7. \A b \in B : g.array[b] = h.array[b] /\ g.array[Footer(h, b)] = h.array[Footer(h, b)]
  BY <1>4, <1>5, <1>6
<1>8. \A b \in B : Size(g, b) = Size(h, b)
  BY <1>7 DEF Size
<1>9. Shape(g, B \ {i}, x2, y2)
  BY <1>1, <1>2, <1>7, Kept
<1>10. A \ {i} = {b \in B \ {i} : g.array[b] > 0}
  BY <1>1, <1>7
<1>11. \A a \in A \ {i} : Size(g, a) >= 4
  BY <1>1, <1>8
<1>12. Inter(g, B \ {i}, A \ {i}, x2, y2)
  BY <1>2, <1>3, <1>9, <1>10, <1>11 DEF Inter
<1> QED
  BY <1>4, <1>7, <1>8, <1>12 DEF g, AfterUnlink

\* What Tagged does.
AfterTagged(h, g, i, n, tag) ==
  /\ g \in Heaps /\ g.avail = h.avail
  /\ g.array[i] = tag /\ g.array[i + n - 1] = tag
  /\ \A w \in i + 1 .. i + n - 2 : g.array[w] = 0
  /\ \A w \in Words \ (i .. i + n - 1) : g.array[w] = h.array[w]

LEMMA TaggedIs ==
  ASSUME NEW h \in Heaps, NEW i \in Words, NEW n \in Nat, i + n <= len, n >= 2, NEW tag \in {n, -n}
  PROVE AfterTagged(h, Tagged(h, i, n, tag), i, n, tag)
<1> DEFINE g == Tagged(h, i, n, tag)
<1>1. i \in Int /\ i >= 0 /\ i + n - 1 \in Words /\ tag \in Values /\ 0 \in Values /\ h.array \in [Words -> Values]
      /\ i + n - 1 \in i .. i + n - 1 /\ i \in i .. i + n - 1
  BY HeapAssumption DEF Words, Values, Heaps
<1> DEFINE words == [k \in Words |-> IF k \in {i, i + n - 1} THEN tag
                                      ELSE IF k \in i .. i + n - 1 THEN 0 ELSE h.array[k]]
<1>2. g = [h EXCEPT !.array = words]
  BY DEF Tagged, Words
<1>3. words \in [Words -> Values]
  BY <1>1
<1>4. \A k \in Words : words[k] = IF k \in {i, i + n - 1} THEN tag
                                  ELSE IF k \in i .. i + n - 1 THEN 0 ELSE h.array[k]
  OBVIOUS
<1> HIDE DEF words, g
<1>5. g \in Heaps /\ g.avail = h.avail /\ g.array = words
  BY <1>2, <1>3 DEF Heaps
<1>6. \A w \in i + 1 .. i + n - 2 : w \in Words /\ w \notin {i, i + n - 1} /\ w \in i .. i + n - 1
  BY <1>1, HeapAssumption DEF Words
<1>7. g.array[i] = tag /\ g.array[i + n - 1] = tag
  BY <1>1, <1>4, <1>5
<1>8. \A w \in Words \ (i .. i + n - 1) : g.array[w] = h.array[w]
  BY <1>1, <1>4, <1>5
<1> QED
  BY <1>4, <1>5, <1>6, <1>7, <1>8 DEF g, AfterTagged

\* The blocks, and the words of the list, are not in the gap.
LEMMA Beside ==
  ASSUME NEW h, NEW B, NEW A, NEW x, NEW y, Inter(h, B, A, x, y), NEW n \in Nat, n >= 2, x + n <= y
  PROVE /\ \A b \in B : b \in Words \ (x .. x + n - 1) /\ Footer(h, b) \in Words \ (x .. x + n - 1)
        /\ \A a \in A : a + 1 \in Words \ (x .. x + n - 1) /\ a + 2 \in Words \ (x .. x + n - 1)
        /\ x \notin B /\ x \in Words
<1>1. h \in Heaps /\ Shape(h, B, x, y) /\ A \subseteq B
  BY DEF Inter
<1>2. x \in Int /\ y \in Int /\ x .. x + n - 1 \subseteq x .. y - 1
  BY <1>1 DEF Shape
<1>3. \A b \in B : b \in Words /\ Footer(h, b) \in Words /\ Footer(h, b) \in Int /\ b \in Int
  <2>1. \A b \in B : b \in Words /\ b + Size(h, b) <= len /\ Size(h, b) >= 2
    BY <1>1 DEF Shape
  <2> QED
    BY <1>1, <2>1, SizeIs, HeapAssumption DEF Words
<1>4. \A b \in B, w \in x .. y - 1 : w # b /\ w # Footer(h, b)
  <2> SUFFICES ASSUME NEW b \in B, NEW w \in x .. y - 1 PROVE w # b /\ w # Footer(h, b)
    OBVIOUS
  <2>1. w \in Int /\ x <= w /\ w < y
    BY <1>2
  <2> QED
    BY <1>1, <2>1, Outside
<1>5. \A b \in B : b \notin x .. x + n - 1 /\ Footer(h, b) \notin x .. x + n - 1
  BY <1>2, <1>4
<1>6. \A a \in A : a + 1 \in Words /\ a + 2 \in Words /\ a + 1 \notin x .. y - 1 /\ a + 2 \notin x .. y - 1
  BY Links
<1>7. x \notin B
  <2> SUFFICES ASSUME x \in B PROVE FALSE
    OBVIOUS
  <2>1. (x + Size(h, x) <= x \/ y <= x) /\ Size(h, x) >= 2 /\ x \in Words
    BY <1>1 DEF Shape
  <2>2. Size(h, x) \in Nat
    BY <1>1, <2>1, SizeIs
  <2> QED
    BY <1>2, <2>1, <2>2
<1>8. x \in Words
  BY <1>1, <1>2, HeapAssumption DEF Shape, Words
<1> QED
  BY <1>2, <1>3, <1>5, <1>6, <1>7, <1>8

\* makeTaken at the left end of the gap.
AfterTaken(h, B, A, x, y, n) ==
  LET g == MakeTaken(h, x, n)
  IN /\ Inter(g, B \cup {x}, A, x + n, y)
     /\ Size(g, x) = n /\ g.array[x] = -n /\ x \notin B
     /\ \A b \in B : g.array[b] = h.array[b] /\ Size(g, b) = Size(h, b)
     /\ \A w \in Words \ (x .. x + n - 1) : g.array[w] = h.array[w]

LEMMA TakenStep ==
  ASSUME NEW h, NEW B, NEW A, NEW x, NEW y, Inter(h, B, A, x, y), NEW n \in Nat, n >= 2, x + n <= y
  PROVE AfterTaken(h, B, A, x, y, n)
<1> DEFINE g == MakeTaken(h, x, n)
<1>1. h \in Heaps /\ Shape(h, B, x, y) /\ List(h, A) /\ A = {b \in B : h.array[b] > 0} /\ \A a \in A : Size(h, a) >= 4
  BY DEF Inter
<1>2. /\ \A b \in B : b \in Words \ (x .. x + n - 1) /\ Footer(h, b) \in Words \ (x .. x + n - 1)
      /\ \A a \in A : a + 1 \in Words \ (x .. x + n - 1) /\ a + 2 \in Words \ (x .. x + n - 1)
      /\ x \notin B /\ x \in Words
  BY Beside
<1>3. x + n <= len /\ x \in Int /\ -n < 0
  BY <1>1, <1>2, HeapAssumption DEF Shape, Words
<1>4. /\ g \in Heaps /\ g.avail = h.avail
      /\ g.array[x] = -n /\ g.array[x + n - 1] = -n
      /\ \A w \in Words \ (x .. x + n - 1) : g.array[w] = h.array[w]
  <2>1. AfterTagged(h, g, x, n, -n)
    BY <1>1, <1>2, <1>3, TaggedIs DEF MakeTaken
  <2> HIDE DEF g
  <2> QED
    BY <2>1 DEF AfterTagged
<1> HIDE DEF g
<1>5. List(g, A)
  BY <1>1, <1>2, <1>4, ListKept
<1>6. /\ Shape(g, B \cup {x}, x + n, y) /\ Size(g, x) = n
      /\ \A b \in B : Size(g, b) = Size(h, b)
  <2>1. \A b \in B : g.array[b] = h.array[b] /\ g.array[Footer(h, b)] = h.array[Footer(h, b)]
    BY <1>2, <1>4
  <2>2. g.array[x] \in {n, -n} /\ g.array[x + n - 1] = g.array[x]
    BY <1>4
  <2>3. g \in Heaps /\ h \in Heaps /\ Shape(h, B, x, y)
    BY <1>1, <1>4
  <2> QED
    BY <2>1, <2>2, <2>3, Filled
<1>7. \A b \in B : g.array[b] = h.array[b]
  BY <1>2, <1>4
<1>8. A = {b \in B \cup {x} : g.array[b] > 0}
  <2>1. ~(g.array[x] > 0)
    BY <1>3, <1>4
  <2>2. {b \in B \cup {x} : g.array[b] > 0} = {b \in B : h.array[b] > 0}
    BY <1>7, <2>1
  <2> QED
    BY <1>1, <2>2
<1>9. \A a \in A : Size(g, a) >= 4
  BY <1>1, <1>6
<1>10. Inter(g, B \cup {x}, A, x + n, y)
  BY <1>4, <1>5, <1>6, <1>8, <1>9 DEF Inter
<1> QED
  BY <1>2, <1>4, <1>6, <1>7, <1>10 DEF g, AfterTaken

\* makeAvail changes the block, and a link of the block that was the head.
LEMMA MakeAvailIs ==
  ASSUME NEW h \in Heaps, NEW i \in Words, NEW n \in Nat, n >= 4, i + n <= len,
         h.avail # 0 => h.avail + 2 \in Words \ (i .. i + n - 1)
  PROVE LET g == MakeAvail(h, i, n)
        IN /\ g \in Heaps /\ g.avail = i
           /\ g.array[i] = n /\ g.array[i + n - 1] = n
           /\ g.array[i + 1] = h.avail /\ g.array[i + 2] = 0
           /\ h.avail # 0 => g.array[h.avail + 2] = i
           /\ \A w \in Words \ (i .. i + n - 1) : (h.avail # 0 => w # h.avail + 2) => g.array[w] = h.array[w]
<1> DEFINE t == Tagged(h, i, n, n)
           linked == SetWord(t, i + 1, h.avail)
           s == IF h.avail = 0 THEN linked ELSE SetWord(linked, h.avail + 2, i)
           g == [s EXCEPT !.avail = i]
<1>1. g = MakeAvail(h, i, n)
  BY DEF MakeAvail
<1>2. /\ t \in Heaps /\ t.avail = h.avail /\ t.array[i] = n /\ t.array[i + n - 1] = n
      /\ \A w \in i + 1 .. i + n - 2 : t.array[w] = 0
      /\ \A w \in Words \ (i .. i + n - 1) : t.array[w] = h.array[w]
  <2>1. AfterTagged(h, t, i, n, n)
    BY TaggedIs
  <2> HIDE DEF t
  <2> QED
    BY <2>1 DEF AfterTagged
<1>3. /\ i \in Int /\ i + 1 \in Words /\ i + 2 \in Words /\ i \in Values /\ h.avail \in Values
      /\ i + n - 1 \in Words /\ i + 2 \in i + 1 .. i + n - 2 /\ i + 1 \in i .. i + n - 1
      /\ i \in i .. i + n - 1 /\ i + n - 1 \in i .. i + n - 1 /\ i + 2 \in i .. i + n - 1
      /\ i # i + 1 /\ i + 2 # i + 1 /\ i + n - 1 # i + 1
  BY HeapAssumption DEF Words, Values, Heaps
<1> HIDE DEF t
<1>4. /\ linked \in Heaps /\ linked.array[i + 1] = h.avail
      /\ \A w \in Words \ {i + 1} : linked.array[w] = t.array[w]
  <2>1. AfterSet(t, linked, i + 1, h.avail)
    BY <1>2, <1>3, SetWordIs
  <2> HIDE DEF linked
  <2> QED
    BY <2>1 DEF AfterSet
<1> HIDE DEF linked
<1>5. /\ linked.array[i] = n /\ linked.array[i + n - 1] = n /\ linked.array[i + 2] = 0
      /\ \A w \in Words \ (i .. i + n - 1) : linked.array[w] = h.array[w]
  <2>1. i \in Words \ {i + 1} /\ i + n - 1 \in Words \ {i + 1} /\ i + 2 \in Words \ {i + 1}
    BY <1>3
  <2>2. t.array[i + 2] = 0
    BY <1>2, <1>3
  <2>3. ASSUME NEW w \in Words \ (i .. i + n - 1) PROVE linked.array[w] = h.array[w]
    <3>1. w \in Words \ {i + 1}
      BY <1>3
    <3> QED
      BY <1>2, <1>4, <3>1
  <2> QED
    BY <1>2, <1>4, <2>1, <2>2, <2>3
<1>6. /\ s \in Heaps
      /\ h.avail # 0 => s.array[h.avail + 2] = i
      /\ \A w \in Words : (h.avail # 0 => w # h.avail + 2) => s.array[w] = linked.array[w]
  <2>1. CASE h.avail = 0
    BY <1>4, <2>1
  <2>2. CASE h.avail # 0
    <3> DEFINE k == h.avail + 2
    <3>1. k \in Words /\ s = SetWord(linked, k, i)
      BY <2>2
    <3> HIDE DEF k, s
    <3>2. AfterSet(linked, s, k, i)
      BY <1>3, <1>4, <3>1, SetWordIs
    <3>3. s \in Heaps /\ s.array[k] = i /\ \A w \in Words \ {k} : s.array[w] = linked.array[w]
      BY <3>2 DEF AfterSet
    <3> QED
      BY <2>2, <3>3 DEF k
  <2> QED
    BY <2>1, <2>2
<1> HIDE DEF s
<1>7. g \in Heaps /\ g.array = s.array /\ g.avail = i
  BY <1>6, HeadIs
<1> HIDE DEF g
<1>8. h.avail # 0 => /\ i # h.avail + 2 /\ i + 1 # h.avail + 2 /\ i + 2 # h.avail + 2
                     /\ i + n - 1 # h.avail + 2
  BY <1>3
<1>9. /\ g.array[i] = n /\ g.array[i + n - 1] = n /\ g.array[i + 1] = h.avail /\ g.array[i + 2] = 0
      /\ h.avail # 0 => g.array[h.avail + 2] = i
  BY <1>3, <1>4, <1>5, <1>6, <1>7, <1>8
<1>10. \A w \in Words \ (i .. i + n - 1) : (h.avail # 0 => w # h.avail + 2) => g.array[w] = h.array[w]
  BY <1>5, <1>6, <1>7
<1> QED
  BY <1>1, <1>7, <1>9, <1>10

\* makeAvail at the left end of the gap.
AfterAvail(h, B, A, x, y, n) ==
  LET g == MakeAvail(h, x, n)
  IN /\ Inter(g, B \cup {x}, A \cup {x}, x + n, y)
     /\ Size(g, x) = n /\ g.array[x] = n /\ x \notin B
     /\ \A b \in B : g.array[b] = h.array[b] /\ Size(g, b) = Size(h, b)
     /\ \A w \in Words \ (x .. x + n - 1) : g.array[w] = h.array[w] \/ \E a \in A : w = a + 1 \/ w = a + 2

LEMMA AvailStep ==
  ASSUME NEW h, NEW B, NEW A, NEW x, NEW y, Inter(h, B, A, x, y), NEW n \in Nat, n >= 4, x + n <= y, x # 0
  PROVE AfterAvail(h, B, A, x, y, n)
<1> DEFINE g == MakeAvail(h, x, n)
<1>1. h \in Heaps /\ Shape(h, B, x, y) /\ List(h, A) /\ A = {b \in B : h.array[b] > 0} /\ \A a \in A : Size(h, a) >= 4
  BY DEF Inter
<1>2. /\ \A b \in B : b \in Words \ (x .. x + n - 1) /\ Footer(h, b) \in Words \ (x .. x + n - 1)
      /\ \A a \in A : a + 1 \in Words \ (x .. x + n - 1) /\ a + 2 \in Words \ (x .. x + n - 1)
      /\ x \notin B /\ x \in Words
  BY Beside
<1>3. x + n <= len /\ x \in Int /\ n > 0 /\ n >= 2
  BY <1>1, <1>2, HeapAssumption DEF Shape, Words
<1>4. h.avail \in A \cup {0}
  BY <1>1 DEF List
<1>5. /\ g \in Heaps /\ g.avail = x
      /\ g.array[x] = n /\ g.array[x + n - 1] = n
      /\ g.array[x + 1] = h.avail /\ g.array[x + 2] = 0
      /\ h.avail # 0 => g.array[h.avail + 2] = x
      /\ \A w \in Words \ (x .. x + n - 1) : (h.avail # 0 => w # h.avail + 2) => g.array[w] = h.array[w]
  BY <1>1, <1>2, <1>3, <1>4, MakeAvailIs
<1> HIDE DEF g
<1>6. \A b \in B, a \in A : a + 1 # b /\ a + 1 # Footer(h, b) /\ a + 2 # b /\ a + 2 # Footer(h, b)
  BY Links
<1>7. \A b \in B : g.array[b] = h.array[b] /\ g.array[Footer(h, b)] = h.array[Footer(h, b)]
  BY <1>2, <1>4, <1>5, <1>6
<1>8. \A j \in A : g.array[j + 1] = h.array[j + 1] /\ (j # h.avail => g.array[j + 2] = h.array[j + 2])
  <2> SUFFICES ASSUME NEW j \in A
               PROVE g.array[j + 1] = h.array[j + 1] /\ (j # h.avail => g.array[j + 2] = h.array[j + 2])
    OBVIOUS
  <2>1. h.avail # 0 => j + 1 # h.avail + 2
    BY <1>1, <1>4 DEF List
  <2>2. h.avail # 0 /\ j # h.avail => j + 2 # h.avail + 2
    <3>1. j \in Int /\ h.avail \in Int
      BY <1>1, <1>4 DEF List, Words
    <3> QED
      BY <3>1
  <2> QED
    BY <1>2, <1>5, <2>1, <2>2
<1>10. List(g, A \cup {x})
  <2>1. \A j \in A : x + 1 # j + 2 /\ x + 2 # j + 1
    BY <1>2, <1>3
  <2>2. x + 3 < len /\ x \in Words \ {0} /\ x \notin A
    BY <1>1, <1>2, <1>3, HeapAssumption
  <2> QED
    BY <1>1, <1>5, <1>8, <2>1, <2>2, Added
<1>11. /\ Shape(g, B \cup {x}, x + n, y) /\ Size(g, x) = n
       /\ \A b \in B : Size(g, b) = Size(h, b)
  <2>1. g.array[x] \in {n, -n} /\ g.array[x + n - 1] = g.array[x]
    BY <1>5
  <2>2. g \in Heaps /\ h \in Heaps /\ Shape(h, B, x, y) /\ n >= 2
    BY <1>1, <1>3, <1>5
  <2> QED
    BY <1>7, <2>1, <2>2, Filled
<1>12. A \cup {x} = {b \in B \cup {x} : g.array[b] > 0}
  BY <1>1, <1>2, <1>3, <1>5, <1>7
<1>13. \A a \in A \cup {x} : Size(g, a) >= 4
  BY <1>1, <1>11
<1>14. Inter(g, B \cup {x}, A \cup {x}, x + n, y)
  BY <1>5, <1>10, <1>11, <1>12, <1>13 DEF Inter
<1>15. \A w \in Words \ (x .. x + n - 1) : g.array[w] = h.array[w] \/ \E a \in A : w = a + 1 \/ w = a + 2
  BY <1>4, <1>5
<1> QED
  BY <1>2, <1>5, <1>7, <1>11, <1>14, <1>15 DEF g, AfterAvail

\* Programs write inside of blocks that are taken.
LEMMA DataStep ==
  ASSUME NEW h, NEW B, NEW A, NEW x, NEW y, Inter(h, B, A, x, y), NEW b \in B \ A,
         NEW g \in Heaps, g.avail = h.avail,
         \A w \in Words : g.array[w] = h.array[w] \/ (b < w /\ w < b + Size(h, b) - 1)
  PROVE /\ Inter(g, B, A, x, y)
        /\ \A c \in B : g.array[c] = h.array[c] /\ Size(g, c) = Size(h, c)
<1>1. h \in Heaps /\ Shape(h, B, x, y) /\ List(h, A) /\ A = {c \in B : h.array[c] > 0} /\ \A a \in A : Size(h, a) >= 4
  BY DEF Inter
<1>2. \A c \in B : c \in Words /\ Footer(h, c) \in Words /\ Footer(h, c) \in Int /\ c \in Int /\ Size(h, c) \in Nat
  <2>1. \A c \in B : c \in Words /\ c + Size(h, c) <= len /\ Size(h, c) >= 2
    BY <1>1 DEF Shape
  <2> QED
    BY <1>1, <2>1, SizeIs, HeapAssumption DEF Words
<1>3. \A c \in B : g.array[c] = h.array[c] /\ g.array[Footer(h, c)] = h.array[Footer(h, c)]
  <2> SUFFICES ASSUME NEW c \in B
               PROVE g.array[c] = h.array[c] /\ g.array[Footer(h, c)] = h.array[Footer(h, c)]
    OBVIOUS
  <2>1. ~(b < c /\ c < b + Size(h, b) - 1)
    BY <1>1, <1>2, Inside
  <2>2. ~(b < Footer(h, c) /\ Footer(h, c) < b + Size(h, b) - 1)
    <3> DEFINE w == Footer(h, c)
    <3>1. w \in Int
      BY <1>2
    <3> HIDE DEF w
    <3>2. b < w /\ w < b + Size(h, b) - 1 => w # Footer(h, c)
      BY <1>1, <3>1, Inside
    <3> QED
      BY <3>2 DEF w
  <2> QED
    BY <1>2, <2>1, <2>2
<1>4. \A a \in A : g.array[a + 1] = h.array[a + 1] /\ g.array[a + 2] = h.array[a + 2]
  <2> SUFFICES ASSUME NEW a \in A PROVE g.array[a + 1] = h.array[a + 1] /\ g.array[a + 2] = h.array[a + 2]
    OBVIOUS
  <2>1. a + 1 \in Words /\ a + 2 \in Words /\ \A w \in b .. b + Size(h, b) - 1 : a + 1 # w /\ a + 2 # w
    BY Links
  <2>2. a + 1 \in Int /\ a + 2 \in Int /\ b \in Int /\ Size(h, b) \in Nat
    BY <1>2, <2>1 DEF Words
  <2>3. a + 1 \notin b .. b + Size(h, b) - 1 /\ a + 2 \notin b .. b + Size(h, b) - 1
    BY <2>1
  <2> QED
    BY <2>1, <2>2, <2>3
<1>5. List(g, A)
  BY <1>1, <1>4, ListKept
<1>6. Shape(g, B, x, y) /\ \A c \in B : Size(g, c) = Size(h, c)
  BY <1>1, <1>3, Kept
<1>7. A = {c \in B : g.array[c] > 0} /\ \A a \in A : Size(g, a) >= 4
  BY <1>1, <1>3, <1>6
<1> QED
  BY <1>3, <1>5, <1>6, <1>7 DEF Inter
----------------------------------------------------------------------------
(* malloc and free.                                                        *)

\* A gap of no words is no gap, wherever it is.
LEMMA Closed ==
  ASSUME NEW h, NEW B, NEW A, NEW z, Inter(h, B, A, z, z)
  PROVE Inter(h, B, A, len, len)
<1>1. Shape(h, B, z, z) /\ len \in 0 .. len /\ len <= len
  BY HeapAssumption DEF Inter
<1>2. \A w \in Words : ~(z <= w /\ w < z)
  BY <1>1 DEF Shape, Words
<1>3. Shape(h, B, len, len)
  BY <1>1, <1>2 DEF Shape
<1> QED
  BY <1>3 DEF Inter

\* The words of a block that is taken are no links, nor in another block.
LEMMA Undisturbed ==
  ASSUME NEW h, NEW B, NEW A, NEW x, NEW y, Inter(h, B, A, x, y), NEW c \in B \ A,
         NEW w \in c .. c + Size(h, c) - 1
  PROVE /\ w \in Words /\ (w < x \/ y <= w)
        /\ \A a \in A : w # a + 1 /\ w # a + 2
        /\ \A b \in B : b # c => (w < b \/ b + Size(h, b) <= w)
<1>1. h \in Heaps /\ Shape(h, B, x, y) /\ A \subseteq B
  BY DEF Inter
<1>2. \A b \in B : b \in Words /\ b \in Int /\ Size(h, b) \in Nat /\ b >= 0 /\ b + Size(h, b) <= len
  BY <1>1, SizeIs DEF Shape, Words
<1>3. w \in Words /\ w \in Int
  BY <1>2, HeapAssumption DEF Words
<1>4. (c + Size(h, c) <= x \/ y <= c) /\ x \in Int /\ y \in Int
  BY <1>1 DEF Shape
<1>5. \A b \in B : b # c => (b + Size(h, b) <= c \/ c + Size(h, c) <= b)
  BY <1>1, <1>2 DEF Shape
<1>6. \A a \in A : w # a + 1 /\ w # a + 2
  BY Links
<1> QED
  BY <1>2, <1>3, <1>4, <1>5, <1>6

\* Carve takes an available block, and makes another of what is left over.
AfterCarve(h, B, A, p, n) ==
  LET g == Carve(h, p, n)
      C == IF Size(h, p) - n >= 4 THEN {p + n} ELSE {}
  IN /\ Inter(g, B \cup C, (A \ {p}) \cup C, len, len)
     /\ g.array[p] < 0 /\ Size(g, p) \in n .. n + 3 /\ Size(g, p) <= Size(h, p)
     /\ C \cap B = {}
     /\ \A c \in C : c + Size(g, c) = p + Size(h, p)
     /\ \A b \in B \ {p} : g.array[b] = h.array[b] /\ Size(g, b) = Size(h, b)
     /\ \A c \in B \ A : \A w \in c .. c + Size(h, c) - 1 : g.array[w] = h.array[w]

LEMMA CarveStep ==
  ASSUME NEW h, NEW B, NEW A, Inter(h, B, A, len, len), NEW p \in A,
         NEW n \in Nat, n >= 4, n <= Size(h, p)
  PROVE AfterCarve(h, B, A, p, n)
<1> DEFINE s == Size(h, p)
           u == Unlinked(h, p)
           t == MakeTaken(u, p, n)
<1>1. /\ h \in Heaps /\ Shape(h, B, len, len) /\ List(h, A)
      /\ A = {b \in B : h.array[b] > 0} /\ \A a \in A : Size(h, a) >= 4
  BY DEF Inter
<1>2. p \in B /\ p \in Words /\ p # 0 /\ p \in Nat /\ p \in Int /\ s \in Nat /\ s >= 4 /\ p + s <= len
  BY <1>1, SizeIs DEF Shape, List, Words
<1>3. Shape(h, B \ {p}, p, p + s)
  BY <1>1, <1>2, Opened
<1>4. /\ Inter(u, B \ {p}, A \ {p}, p, p + s)
      /\ \A b \in B : u.array[b] = h.array[b] /\ Size(u, b) = Size(h, b)
      /\ \A w \in Words : u.array[w] = h.array[w] \/ \E a \in A : w = a + 1 \/ w = a + 2
  <2>1. AfterUnlink(h, B, A, p, p, p + s)
    BY <1>3, UnlinkStep
  <2> QED
    BY <2>1 DEF AfterUnlink, u
<1>5. \A c \in B \ A : \A w \in c .. c + Size(h, c) - 1 :
        /\ w \in Words \ (p .. p + s - 1)
        /\ \A a \in A : w # a + 1 /\ w # a + 2
  BY <1>2, Undisturbed
<1> HIDE DEF s, u
<1>6. CASE s - n >= 4
  <2>1. /\ Inter(t, (B \ {p}) \cup {p}, A \ {p}, p + n, p + s)
        /\ Size(t, p) = n /\ t.array[p] = -n
        /\ \A b \in B \ {p} : t.array[b] = u.array[b] /\ Size(t, b) = Size(u, b)
        /\ \A w \in Words \ (p .. p + n - 1) : t.array[w] = u.array[w]
    <3>1. p + n <= p + s /\ n >= 2
      BY <1>2 DEF s
    <3>2. AfterTaken(u, B \ {p}, A \ {p}, p, p + s, n)
      BY <1>4, <3>1, TakenStep
    <3> QED
      BY <3>2 DEF AfterTaken
  <2> HIDE DEF t
  <2> DEFINE e == s - n
             q == p + n
             g == MakeAvail(t, q, e)
  <2>2. e \in Nat /\ e >= 4 /\ q + e = p + s /\ q # 0 /\ q + e <= p + s /\ q \in Int
    BY <1>2, <1>6
  <2> HIDE DEF e, q
  <2>3. /\ Inter(g, ((B \ {p}) \cup {p}) \cup {q}, (A \ {p}) \cup {q}, q + e, p + s)
        /\ Size(g, q) = e /\ q \notin (B \ {p}) \cup {p}
        /\ \A b \in (B \ {p}) \cup {p} : g.array[b] = t.array[b] /\ Size(g, b) = Size(t, b)
        /\ \A w \in Words \ (q .. q + e - 1) : g.array[w] = t.array[w] \/ \E a \in A \ {p} : w = a + 1 \/ w = a + 2
    <3>1. AfterAvail(t, (B \ {p}) \cup {p}, (A \ {p}), q, p + s, e)
      BY <2>1, <2>2, AvailStep DEF q
    <3> QED
      BY <3>1 DEF AfterAvail
  <2>4. Carve(h, p, n) = g
    BY <1>6 DEF Carve, s, u, t, e, q
  <2> HIDE DEF g
  <2>5. (B \ {p}) \cup {p} = B
    BY <1>2
  <2>6. Inter(g, B \cup {q}, (A \ {p}) \cup {q}, len, len)
    BY <2>2, <2>3, <2>5, Closed
  <2>7. \A b \in B \ {p} : g.array[b] = h.array[b] /\ Size(g, b) = Size(h, b)
    BY <1>4, <2>1, <2>3
  <2>8. g.array[p] < 0 /\ Size(g, p) = n
    BY <1>2, <2>1, <2>3
  <2>9. \A c \in B \ A : \A w \in c .. c + Size(h, c) - 1 : g.array[w] = h.array[w]
    <3> SUFFICES ASSUME NEW c \in B \ A, NEW w \in c .. c + Size(h, c) - 1 PROVE g.array[w] = h.array[w]
      OBVIOUS
    <3>1. w \in Words \ (p .. p + s - 1) /\ \A a \in A : w # a + 1 /\ w # a + 2
      BY <1>5
    <3>2. p .. p + n - 1 \subseteq p .. p + s - 1 /\ q .. q + e - 1 \subseteq p .. p + s - 1
      BY <1>2, <1>6, <2>2 DEF q
    <3> QED
      BY <1>4, <2>1, <2>3, <3>1, <3>2
  <2>10. q + Size(g, q) = p + s /\ {q} \cap B = {}
    BY <1>2, <2>2, <2>3
  <2>11. n \in n .. n + 3 /\ n <= s
    BY <1>2 DEF s
  <2> QED
    BY <1>6, <2>4, <2>6, <2>7, <2>8, <2>9, <2>10, <2>11 DEF q, s, AfterCarve
<1>7. CASE ~(s - n >= 4)
  <2> DEFINE g == MakeTaken(u, p, s)
  <2>1. /\ Inter(g, (B \ {p}) \cup {p}, A \ {p}, p + s, p + s)
        /\ Size(g, p) = s /\ g.array[p] = -s
        /\ \A b \in B \ {p} : g.array[b] = u.array[b] /\ Size(g, b) = Size(u, b)
        /\ \A w \in Words \ (p .. p + s - 1) : g.array[w] = u.array[w]
    <3>1. p + s <= p + s /\ s >= 2
      BY <1>2
    <3>2. AfterTaken(u, B \ {p}, A \ {p}, p, p + s, s)
      BY <1>2, <1>4, <3>1, TakenStep
    <3> QED
      BY <3>2 DEF AfterTaken
  <2>2. Carve(h, p, n) = g
    BY <1>7 DEF Carve, s, u
  <2> HIDE DEF g
  <2>3. (B \ {p}) \cup {p} = B
    BY <1>2
  <2>4. Inter(g, B, A \ {p}, len, len)
    BY <2>1, <2>3, Closed
  <2>5. \A b \in B \ {p} : g.array[b] = h.array[b] /\ Size(g, b) = Size(h, b)
    BY <1>4, <2>1
  <2>6. g.array[p] < 0 /\ Size(g, p) \in n .. n + 3 /\ Size(g, p) <= s
    BY <1>2, <1>7, <2>1 DEF s
  <2>7. \A c \in B \ A : \A w \in c .. c + Size(h, c) - 1 : g.array[w] = h.array[w]
    BY <1>4, <1>5, <2>1
  <2> QED
    BY <1>7, <2>2, <2>4, <2>5, <2>6, <2>7 DEF s, AfterCarve
<1> QED
  BY <1>6, <1>7
\* free: the blocks D become one, which is available: the one given back, and its
\* neighbours that were available.
AfterFreed(h, B, A, i, D, x) ==
  LET g == Freed(h, i)
  IN /\ D \subseteq B /\ i \in D /\ D \ {i} \subseteq A /\ x \in D
     /\ Inter(g, (B \ D) \cup {x}, (A \ D) \cup {x}, len, len)
     /\ \A b \in B \ D : g.array[b] = h.array[b] /\ Size(g, b) = Size(h, b)
     /\ \A a \in (A \ D) \cup {x} : a + Size(g, a) \notin (A \ D) \cup {x}
     /\ \A c \in B \ A : c # i => \A w \in c .. c + Size(h, c) - 1 : g.array[w] = h.array[w]

LEMMA FreedStep ==
  ASSUME NEW h, NEW B, NEW A, Inter(h, B, A, len, len), NEW i \in B \ A, i # 0,
         i + Size(h, i) # len, Size(h, i) >= 4, \A a \in A : a + Size(h, a) \notin A
  PROVE \E D : \E x : AfterFreed(h, B, A, i, D, x)
<1> DEFINE l == LeftOf(h, i)
           r == RightOf(h, i)
           h1 == IF IsAvail(h, l) THEN Unlinked(h, l) ELSE h
           h2 == IF IsAvail(h, r) THEN Unlinked(h1, r) ELSE h1
           x == IF l \in A THEN l ELSE i
           y == IF r \in A THEN r + Size(h, r) ELSE r
           D1 == IF l \in A THEN {i, l} ELSE {i}
           D == IF r \in A THEN D1 \cup {r} ELSE D1
           n == y - x
           g == MakeAvail(h2, x, n)
<1>1. /\ h \in Heaps /\ Shape(h, B, len, len) /\ List(h, A)
      /\ A = {b \in B : h.array[b] > 0} /\ \A a \in A : Size(h, a) >= 4
  BY DEF Inter
<1>2. \A b \in B : b \in Words /\ b \in Nat /\ b \in Int /\ Size(h, b) \in Nat /\ Size(h, b) >= 2 /\ b + Size(h, b) <= len
  BY <1>1, SizeIs DEF Shape, Words
<1>3. /\ l \in B /\ r \in B /\ r = i + Size(h, i)
      /\ l + Size(h, l) = i /\ \A b \in B : b + Size(h, b) = i => b = l
  BY <1>1, Neighbours
<1>4. (IsAvail(h, l) <=> l \in A) /\ (IsAvail(h, r) <=> r \in A)
  BY <1>1, <1>3 DEF IsAvail
<1>5. g = Freed(h, i)
  <2>1. n = Size(h, i) + (IF IsAvail(h, l) THEN Size(h, l) ELSE 0) + (IF IsAvail(h, r) THEN Size(h, r) ELSE 0)
    BY <1>2, <1>3, <1>4
  <2>2. x = IF IsAvail(h, l) THEN l ELSE i
    BY <1>4
  <2> QED
    BY <2>1, <2>2 DEF Freed
<1> HIDE DEF l, r
<1>6. l < i /\ i < r /\ l # i /\ r # i /\ l # r
  BY <1>2, <1>3
<1>7. Inter(h, B \ {i}, A, i, r)
  <2>1. Shape(h, B \ {i}, i, r)
    BY <1>1, <1>3, Opened
  <2>2. A = {b \in B \ {i} : h.array[b] > 0}
    BY <1>1
  <2> QED
    BY <1>1, <2>1, <2>2 DEF Inter
<1>8. /\ Inter(h1, B \ D1, A \ D1, x, r)
      /\ \A b \in B \ {i} : h1.array[b] = h.array[b] /\ Size(h1, b) = Size(h, b)
      /\ \A w \in Words : h1.array[w] = h.array[w] \/ \E a \in A : w = a + 1 \/ w = a + 2
  <2>1. CASE l \in A
    <3>1. Shape(h, (B \ {i}) \ {l}, l, r)
      <4>1. Shape(h, B \ {i}, i, r) /\ l \in B \ {i}
        BY <1>3, <1>6, <1>7 DEF Inter
      <4> QED
        BY <1>1, <1>3, <4>1, WidenLeft
    <3>2. AfterUnlink(h, B \ {i}, A, l, l, r)
      BY <1>7, <2>1, <3>1, UnlinkStep
    <3>3. (B \ {i}) \ {l} = B \ D1 /\ A \ {l} = A \ D1 /\ x = l /\ h1 = Unlinked(h, l)
      BY <1>4, <2>1
    <3> QED
      BY <3>2, <3>3 DEF AfterUnlink
  <2>2. CASE l \notin A
    <3>1. B \ {i} = B \ D1 /\ A = A \ D1 /\ x = i /\ h1 = h
      BY <1>4, <2>2
    <3> QED
      BY <1>7, <3>1
  <2> QED
    BY <2>1, <2>2
<1>9. D1 \subseteq B /\ i \in D1 /\ D1 \ {i} \subseteq A /\ x \in D1 /\ r \notin D1 /\ x \in Nat /\ x <= i
      /\ x # 0 /\ (x = i \/ x \in A)
  <2>1. \A a \in A : a # 0
    BY <1>1 DEF List
  <2> QED
    BY <1>2, <1>3, <1>6, <2>1
<1> HIDE DEF h1, D1
<1>10. /\ Inter(h2, B \ D, A \ D, x, y)
       /\ \A b \in B \ D : h2.array[b] = h.array[b] /\ Size(h2, b) = Size(h, b)
       /\ \A w \in Words : h2.array[w] = h.array[w] \/ \E a \in A : w = a + 1 \/ w = a + 2
  <2>1. CASE r \in A
    <3>1. Size(h1, r) = Size(h, r) /\ r \in B \ D1 /\ r \in A \ D1
      BY <1>3, <1>6, <1>8, <1>9, <2>1
    <3>2. Shape(h1, (B \ D1) \ {r}, x, y)
      <4>1. h1 \in Heaps /\ Shape(h1, B \ D1, x, r) /\ y = r + Size(h1, r)
        BY <1>8, <2>1, <3>1 DEF Inter
      <4> QED
        BY <3>1, <4>1, WidenRight
    <3>3. AfterUnlink(h1, B \ D1, A \ D1, r, x, y)
      BY <1>8, <3>1, <3>2, UnlinkStep
    <3>4. (B \ D1) \ {r} = B \ D /\ (A \ D1) \ {r} = A \ D /\ h2 = Unlinked(h1, r)
      BY <1>4, <2>1
    <3>5. Inter(h2, B \ D, A \ D, x, y)
      BY <3>3, <3>4 DEF AfterUnlink
    <3>6. /\ \A b \in B \ D1 : h2.array[b] = h1.array[b] /\ Size(h2, b) = Size(h1, b)
          /\ \A w \in Words : h2.array[w] = h1.array[w] \/ \E a \in A \ D1 : w = a + 1 \/ w = a + 2
      BY <3>3, <3>4 DEF AfterUnlink
    <3>7. B \ D \subseteq B \ D1 /\ B \ D \subseteq B \ {i}
      BY <1>9, <2>1
    <3> QED
      BY <1>8, <3>5, <3>6, <3>7
  <2>2. CASE r \notin A
    <3>1. D = D1 /\ y = r /\ h2 = h1
      BY <1>4, <2>2
    <3>2. Inter(h2, B \ D, A \ D, x, y)
      BY <1>8, <3>1
    <3>3. \A b \in B \ D : h2.array[b] = h.array[b] /\ Size(h2, b) = Size(h, b)
      BY <1>8, <1>9, <3>1
    <3> QED
      BY <1>8, <3>1, <3>2, <3>3
  <2> QED
    BY <2>1, <2>2
<1>11. /\ D \subseteq B /\ i \in D /\ D \ {i} \subseteq A /\ x \in D /\ y \in Nat /\ n \in Nat /\ n >= 4 /\ x + n = y
       /\ r <= y /\ (y = r \/ (y = r + Size(h, r) /\ r \in A))
  <2>1. D \subseteq B /\ i \in D /\ D \ {i} \subseteq A /\ x \in D
    BY <1>3, <1>9
  <2>2. r \in Nat /\ r + Size(h, r) \in Nat /\ r <= r + Size(h, r) /\ r >= x + 4 /\ r >= x
    BY <1>2, <1>3, <1>9
  <2>3. y \in Nat /\ r <= y /\ (y = r \/ (y = r + Size(h, r) /\ r \in A))
    BY <2>2
  <2> HIDE DEF x, y
  <2>4. n \in Nat /\ n >= 4 /\ x + n = y
    BY <1>9, <2>2, <2>3
  <2> QED
    BY <2>1, <2>3, <2>4
<1>12. \A c \in B \ A : c # i => \A w \in c .. c + Size(h, c) - 1 :
         /\ w \in Words /\ (w < x \/ y <= w)
         /\ \A a \in A : w # a + 1 /\ w # a + 2
  <2> SUFFICES ASSUME NEW c \in B \ A, c # i, NEW w \in c .. c + Size(h, c) - 1
               PROVE w \in Words /\ (w < x \/ y <= w) /\ \A a \in A : w # a + 1 /\ w # a + 2
    OBVIOUS
  <2>1. /\ w \in Words
        /\ \A a \in A : w # a + 1 /\ w # a + 2
        /\ \A b \in B : b # c => (w < b \/ b + Size(h, b) <= w)
    BY Undisturbed
  <2>2. w < i \/ r <= w
    BY <1>3, <2>1
  <2>3. w \in Int /\ i \in Int /\ r \in Int /\ x \in Int /\ y \in Int
    BY <1>2, <1>3, <1>9, <1>11, <2>1 DEF Words
  <2>4. x = i \/ w < x \/ i <= w
    <3> SUFFICES ASSUME x # i PROVE w < x \/ i <= w
      OBVIOUS
    <3>1. x = l /\ x \in B /\ x + Size(h, x) = i /\ c # x
      BY <1>3, <1>9
    <3> QED
      BY <2>1, <3>1
  <2>5. y = r \/ w < r \/ y <= w
    <3> SUFFICES ASSUME y # r PROVE w < r \/ y <= w
      OBVIOUS
    <3>1. y = r + Size(h, r) /\ r \in B /\ c # r
      BY <1>3, <1>11
    <3> QED
      BY <2>1, <3>1
  <2>6. w < x \/ y <= w
    BY <2>2, <2>3, <2>4, <2>5
  <2> QED
    BY <2>1, <2>6
<1> HIDE DEF D, h2, n, x, y
<1>13. AfterAvail(h2, B \ D, A \ D, x, y, n)
  BY <1>9, <1>10, <1>11, AvailStep
<1>14. Inter(g, (B \ D) \cup {x}, (A \ D) \cup {x}, len, len)
  <2>1. Inter(g, (B \ D) \cup {x}, (A \ D) \cup {x}, x + n, y)
    BY <1>13 DEF AfterAvail
  <2> QED
    BY <1>11, <2>1, Closed
<1>15. Size(g, x) = n /\ \A b \in B \ D : g.array[b] = h.array[b] /\ Size(g, b) = Size(h, b)
  BY <1>10, <1>13 DEF AfterAvail
<1>16. \A w \in Words : (w < x \/ y <= w) => (g.array[w] = h.array[w] \/ \E a \in A : w = a + 1 \/ w = a + 2)
  <2> SUFFICES ASSUME NEW w \in Words, w < x \/ y <= w
               PROVE g.array[w] = h.array[w] \/ \E a \in A : w = a + 1 \/ w = a + 2
    OBVIOUS
  <2>1. w \in Words \ (x .. x + n - 1)
    BY <1>9, <1>11 DEF Words
  <2>2. g.array[w] = h2.array[w] \/ \E a \in A \ D : w = a + 1 \/ w = a + 2
    BY <1>13, <2>1 DEF AfterAvail
  <2> QED
    BY <1>10, <2>2
<1>17. \A c \in B \ A : c # i => \A w \in c .. c + Size(h, c) - 1 : g.array[w] = h.array[w]
  BY <1>12, <1>16
<1>18. ASSUME NEW a \in (A \ D) \cup {x} PROVE a + Size(g, a) \notin (A \ D) \cup {x}
  <2>1. CASE a = x
    <3>1. a + Size(g, a) = y
      BY <1>11, <1>15, <2>1
    <3>2. y # x
      BY <1>2, <1>3, <1>9, <1>11
    <3>3. y \notin A \ D
      BY <1>3, <1>11 DEF D
    <3> QED
      BY <3>1, <3>2, <3>3
  <2>2. CASE a # x
    <3>1. a \in A /\ a \in B /\ a \notin D /\ Size(g, a) = Size(h, a) /\ a + Size(h, a) \notin A
      BY <1>1, <1>15, <2>2
    <3>2. ASSUME a + Size(h, a) = x PROVE FALSE
      <4>1. x = i
        BY <1>9, <3>1, <3>2
      <4>2. a = l
        BY <1>3, <3>1, <3>2, <4>1
      <4> QED
        BY <1>6, <3>1, <4>1, <4>2 DEF x
    <3> QED
      BY <3>1, <3>2
  <2> QED
    BY <2>1, <2>2
<1>19. AfterFreed(h, B, A, i, D, x)
  BY <1>5, <1>11, <1>14, <1>15, <1>17, <1>18 DEF AfterFreed
<1> QED
  BY <1>19

----------------------------------------------------------------------------
(* The walk along the list.                                                *)

\* A set of numbers that is not empty has a least element.
LEMMA LeastExists ==
  ASSUME NEW T \in SUBSET Nat, T # {}
  PROVE  \E m \in T : \A k \in T : m <= k
<1>1. PICK m \in T : \A k \in T : ~ <<k, m>> \in OpToRel(<, Nat)
  BY NatLessThanWellFounded, WFMin
<1>2. \A k \in T : <<k, m>> \in Nat \X Nat
  OBVIOUS
<1>3. \A k \in T : ~ (k < m)
  BY <1>1, <1>2 DEF OpToRel
<1> QED
  BY <1>3

\* Induction up to N.
LEMMA Upward ==
  ASSUME NEW N \in Nat, NEW P, 0 \in P, \A k \in 1 .. N : k - 1 \in P => k \in P
  PROVE 0 .. N \subseteq P
<1> DEFINE T == (0 .. N) \ P
<1> SUFFICES ASSUME T # {} PROVE FALSE
  OBVIOUS
<1>0. T \in SUBSET Nat
  OBVIOUS
<1> HIDE DEF T
<1>1. PICK k \in T : \A j \in T : k <= j
  BY <1>0, LeastExists
<1> USE DEF T
<1>2. k \in 1 .. N /\ k - 1 \in 0 .. N /\ ~(k <= k - 1)
  BY <1>1
<1>3. k - 1 \in P
  BY <1>1, <1>2
<1> QED
  BY <1>2, <1>3

\* What contains the head of the list, and the next of each block, contains all of it.
LEMMA Reached ==
  ASSUME NEW h, NEW A, List(h, A), NEW V, h.avail \in V, \A i \in A : i \in V => NextOf(h, i) \in V
  PROVE A \subseteq V
<1> SUFFICES ASSUME A \ V # {} PROVE FALSE
  OBVIOUS
<1>1. PICK m \in Nat : \E r \in [A -> 0 .. m] : \A i \in A : NextOf(h, i) # 0 => r[NextOf(h, i)] < r[i]
  BY DEF List
<1> PICK r \in [A -> 0 .. m] : \A i \in A : NextOf(h, i) # 0 => r[NextOf(h, i)] < r[i]
  BY <1>1
<1> DEFINE T == {m - r[i] : i \in A \ V}
<1>2. T \in SUBSET Nat /\ T # {}
  OBVIOUS
<1>3. PICK k \in T : \A j \in T : k <= j
  BY <1>2, LeastExists
<1>4. PICK a \in A \ V : k = m - r[a]
  OBVIOUS
<1>5. PrevOf(h, a) \in A /\ NextOf(h, PrevOf(h, a)) = a /\ a # 0
  BY DEF List
<1> DEFINE p == PrevOf(h, a)
<1>6. p \in A \ V
  BY <1>5
<1>7. r[a] < r[p] /\ r[a] \in 0 .. m /\ r[p] \in 0 .. m
  BY <1>1, <1>5
<1>8. m - r[p] \in T
  BY <1>6
<1> QED
  <2>1. k <= m - r[p]
    <3> HIDE DEF T, p
    <3> QED
      BY <1>3, <1>8
  <2> HIDE DEF T, p
  <2> QED
    BY <1>1, <1>4, <1>7, <2>1

\* A function can be applied again and again.
Iterates(s, f, a, N) == s[0] = a /\ \A k \in 1 .. N : s[k] = f[s[k - 1]]

LEMMA Repeated ==
  ASSUME NEW S, NEW a \in S, NEW f \in [S -> S], NEW N \in Nat
  PROVE \E s \in [0 .. N -> S] : Iterates(s, f, a, N)
<1> DEFINE P == {n \in 0 .. N : \E s \in [0 .. n -> S] : s[0] = a /\ \A k \in 1 .. n : s[k] = f[s[k - 1]]}
<1>1. 0 \in P
  <2> DEFINE s == [k \in 0 .. 0 |-> a]
  <2>1. s \in [0 .. 0 -> S] /\ s[0] = a
    OBVIOUS
  <2>2. \A k \in 1 .. 0 : s[k] = f[s[k - 1]]
    OBVIOUS
  <2> HIDE DEF s
  <2> QED
    BY <2>1, <2>2
<1>2. ASSUME NEW n \in 1 .. N, n - 1 \in P PROVE n \in P
  <2>1. PICK s \in [0 .. n - 1 -> S] : s[0] = a /\ \A k \in 1 .. n - 1 : s[k] = f[s[k - 1]]
    BY <1>2
  <2> DEFINE t == [k \in 0 .. n |-> IF k = n THEN f[s[n - 1]] ELSE s[k]]
  <2>2. s[n - 1] \in S /\ t \in [0 .. n -> S] /\ t[0] = a
    BY <2>1
  <2>3. \A k \in 1 .. n : t[k] = f[t[k - 1]]
    BY <2>1
  <2> HIDE DEF t
  <2> QED
    BY <2>2, <2>3
<1>3. N \in P
  <2>1. 0 .. N \subseteq P
    BY <1>1, <1>2, Upward
  <2> QED
    BY <2>1
<1> QED
  BY <1>3 DEF Iterates

\* malloc takes a block of the list that is large enough, if there is one.
LEMMA FirstFitIs ==
  ASSUME NEW h \in Heaps, NEW A, List(h, A), NEW n \in Nat
  PROVE /\ FirstFit(h, n) \in A \cup {0}
        /\ FirstFit(h, n) # 0 => Size(h, FirstFit(h, n)) >= n
        /\ FirstFit(h, n) = 0 => \A a \in A : Size(h, a) < n
<1> DEFINE S == A \cup {0}
           Stops(i) == i = 0 \/ Size(h, i) >= n
           f == [i \in S |-> IF Stops(i) THEN i ELSE NextOf(h, i)]
           Walk(s) == s = [k \in 0 .. len |-> IF k = 0 THEN h.avail
                                              ELSE LET i == s[k - 1] IN IF i = 0 \/ Size(h, i) >= n THEN i ELSE NextOf(h, i)]
           nth == CHOOSE s : Walk(s)
<1>1. len \in Nat /\ h.avail \in S /\ f \in [S -> S]
  BY HeapAssumption DEF List
<1>2. \E s : Walk(s)
  <2>1. PICK s \in [0 .. len -> S] : s[0] = h.avail /\ \A k \in 1 .. len : s[k] = f[s[k - 1]]
    <3> DEFINE first == h.avail
    <3>1. first \in S /\ f \in [S -> S]
      BY <1>1
    <3> HIDE DEF S, f, first
    <3>2. \E s \in [0 .. len -> S] : Iterates(s, f, first, len)
      BY <1>1, <3>1, Repeated
    <3> QED
      BY <3>2 DEF first, Iterates
  <2>2. \A k \in 1 .. len : s[k] = IF Stops(s[k - 1]) THEN s[k - 1] ELSE NextOf(h, s[k - 1])
    <3> SUFFICES ASSUME NEW k \in 1 .. len
                 PROVE s[k] = IF Stops(s[k - 1]) THEN s[k - 1] ELSE NextOf(h, s[k - 1])
      OBVIOUS
    <3>1. k - 1 \in 0 .. len
      BY <1>1
    <3>2. s[k] = f[s[k - 1]] /\ s[k - 1] \in S
      BY <2>1, <3>1
    <3> HIDE DEF S
    <3> QED
      BY <3>2
  <2>3. Walk(s)
    BY <1>1, <2>1, <2>2
  <2> QED
    BY <2>3
<1>3. FirstFit(h, n) = nth[len]
  BY DEF FirstFit
<1>4. Walk(nth)
  BY <1>2
<1> HIDE DEF nth
<1>5. /\ nth[0] = h.avail
      /\ \A k \in 1 .. len : nth[k] = IF Stops(nth[k - 1]) THEN nth[k - 1] ELSE NextOf(h, nth[k - 1])
  BY <1>1, <1>4
<1> HIDE DEF Walk
<1>6. \A k \in 0 .. len : nth[k] \in S
  <2> DEFINE P == {k \in 0 .. len : nth[k] \in S}
  <2>1. 0 \in P
    BY <1>1, <1>5
  <2>2. ASSUME NEW k \in 1 .. len, k - 1 \in P PROVE k \in P
    BY <1>5, <2>2 DEF List
  <2>3. 0 .. len \subseteq P
    BY <1>1, <2>1, <2>2, Upward
  <2> QED
    BY <2>3
<1>7. \A k \in 0 .. len : Stops(nth[k]) => nth[len] = nth[k]
  <2> SUFFICES ASSUME NEW k \in 0 .. len, Stops(nth[k]) PROVE nth[len] = nth[k]
    OBVIOUS
  <2> DEFINE P == {j \in 0 .. len : j < k \/ nth[j] = nth[k]}
  <2>1. 0 \in P
    BY <1>1
  <2>2. ASSUME NEW j \in 1 .. len, j - 1 \in P PROVE j \in P
    <3>1. CASE j <= k
      BY <3>1
    <3>2. CASE j > k
      BY <1>5, <2>2, <3>2
    <3> QED
      BY <3>1, <3>2
  <2>3. 0 .. len \subseteq P
    BY <1>1, <2>1, <2>2, Upward
  <2> QED
    BY <1>1, <2>3
<1>8. Stops(nth[len])
  <2> SUFFICES ASSUME ~Stops(nth[len]) PROVE FALSE
    OBVIOUS
  <2>1. \A k \in 0 .. len : ~Stops(nth[k]) /\ nth[k] \in A
    BY <1>6, <1>7
  <2>2. PICK m \in Nat : \E r \in [A -> 0 .. m] : \A i \in A : NextOf(h, i) # 0 => r[NextOf(h, i)] < r[i]
    BY DEF List
  <2> PICK r \in [A -> 0 .. m] : \A i \in A : NextOf(h, i) # 0 => r[NextOf(h, i)] < r[i]
    BY <2>2
  <2>3. \A k \in 1 .. len : r[nth[k]] < r[nth[k - 1]]
    <3> SUFFICES ASSUME NEW k \in 1 .. len PROVE r[nth[k]] < r[nth[k - 1]]
      OBVIOUS
    <3>1. k \in 0 .. len /\ k - 1 \in 0 .. len
      BY <1>1
    <3>2. nth[k] = NextOf(h, nth[k - 1]) /\ nth[k - 1] \in A /\ nth[k] # 0
      BY <1>5, <2>1, <3>1
    <3> QED
      BY <3>2
  <2>4. \A k \in 0 .. len : r[nth[k]] \in Int
    BY <2>1
  <2> DEFINE P == {k \in 0 .. len : \A j \in 0 .. len : j < k => r[nth[k]] < r[nth[j]]}
  <2>5. 0 \in P
    BY <1>1
  <2>6. ASSUME NEW k \in 1 .. len, k - 1 \in P PROVE k \in P
    <3> SUFFICES ASSUME NEW j \in 0 .. len, j < k PROVE r[nth[k]] < r[nth[j]]
      OBVIOUS
    <3>1. j = k - 1 \/ r[nth[k - 1]] < r[nth[j]]
      BY <2>6
    <3>2. k - 1 \in 0 .. len /\ k \in 0 .. len
      BY <1>1
    <3>3. r[nth[k]] < r[nth[k - 1]]
      BY <2>3, <3>2
    <3>4. r[nth[j]] \in Int /\ r[nth[k]] \in Int /\ r[nth[k - 1]] \in Int
      BY <2>4, <3>2
    <3>5. CASE j = k - 1
      BY <3>3, <3>5
    <3>6. CASE r[nth[k - 1]] < r[nth[j]]
      BY <3>3, <3>4, <3>6
    <3> QED
      BY <3>1, <3>5, <3>6
  <2>7. 0 .. len \subseteq P
    BY <1>1, <2>5, <2>6, Upward
  <2>8. \A j, k \in 0 .. len : j < k => r[nth[k]] < r[nth[j]]
    BY <2>7
  <2> DEFINE g == [k \in 0 .. len |-> nth[k]]
  <2>9. g \in [0 .. len -> Words]
    BY <2>1 DEF List
  <2>10. /\ IsFiniteSet(0 .. len) /\ Cardinality(0 .. len) = len + 1
         /\ IsFiniteSet(Words) /\ Cardinality(Words) = len
    BY <1>1, FS_Interval, HeapAssumption DEF Words
  <2>11. PICK j, k \in 0 .. len : j # k /\ g[j] = g[k]
    <3> HIDE DEF g
    <3>1. Cardinality(Words) < Cardinality(0 .. len)
      BY <1>1, <2>10
    <3> DEFINE D == 0 .. len
    <3>2. g \in [D -> Words]
      BY <2>9
    <3>3. Cardinality(Words) < Cardinality(D) /\ IsFiniteSet(D)
      BY <2>10, <3>1
    <3> HIDE DEF D
    <3>4. \E j, k \in D : j # k /\ g[j] = g[k]
      BY <2>10, <3>2, <3>3, FS_PigeonHole
    <3> QED
      BY <3>4 DEF D
  <2>12. nth[j] = nth[k] /\ (j < k \/ k < j)
    BY <2>11
  <2> QED
    BY <2>4, <2>8, <2>12
<1>9. ASSUME nth[len] = 0 PROVE \A a \in A : Size(h, a) < n
  <2> DEFINE V == {nth[k] : k \in 0 .. len}
  <2>1. h.avail \in V
    BY <1>1, <1>5
  <2>2. \A a \in A : a # 0 /\ Size(h, a) \in Int
    BY SizeIs DEF List
  <2>3. \A a \in A : a \in V => ~Stops(a)
    BY <1>7, <1>9, <2>2
  <2>4. ASSUME NEW i \in A, i \in V PROVE NextOf(h, i) \in V
    <3>1. PICK k \in 0 .. len : i = nth[k]
      BY <2>4
    <3>2. k # len /\ k + 1 \in 1 .. len /\ (k + 1) - 1 = k
      BY <1>1, <1>9, <2>2, <3>1
    <3>3. nth[k + 1] = NextOf(h, i)
      BY <1>5, <2>3, <2>4, <3>1, <3>2
    <3> QED
      BY <3>2, <3>3
  <2>5. A \subseteq V
    BY <2>1, <2>4, Reached
  <2> QED
    BY <1>1, <2>2, <2>3, <2>5
<1> QED
  BY <1>1, <1>3, <1>6, <1>8, <1>9

----------------------------------------------------------------------------
(* The invariant.                                                          *)

\* The heap between two calls: the blocks B, of which A are available; no two of
\* these are neighbours, and the others are the ends of the heap and those in use.
Good(h, B, A, L) ==
  /\ Inter(h, B, A, len, len)
  /\ {0, len - 2} \subseteq B /\ Size(h, 0) = 2 /\ Size(h, len - 2) = 2
  /\ B \ A = {0, len - 2} \cup {p - 1 : p \in DOMAIN L} /\ DOMAIN L \subseteq Words
  /\ \A p \in DOMAIN L : /\ p - 1 \notin {0, len - 2} /\ L[p] \in Requests
                         /\ Size(h, p - 1) \in Ints(L[p]) .. Ints(L[p]) + 3
  /\ \A a \in A : a + Size(h, a) \notin A

HeapInv ==
  /\ kernel \in BOOLEAN /\ result \in {Null, Panic} \cup 0 .. len - 1
  /\ \E B : \E A : Good(heap, B, A, live)

\* The blocks that the walk over the headers meets are these.
LEMMA BlocksAre ==
  ASSUME NEW B, NEW A, Good(heap, B, A, live)
  PROVE Blocks = B /\ AvailBlocks = A
<1> DEFINE Body(f, i) == IF i >= len \/ Size(heap, i) = 0 THEN {} ELSE {i} \cup f[RightOf(heap, i)]
           Walk(f) == f = [i \in Nat |-> Body(f, i)]
           from == CHOOSE f : Walk(f)
<1>1. /\ len \in Nat /\ heap \in Heaps /\ Shape(heap, B, len, len)
      /\ 0 \in B /\ A = {b \in B : heap.array[b] > 0}
  BY HeapAssumption DEF Good, Inter
<1>2. \A i \in Nat : i < len => i \in Words /\ Size(heap, i) \in Nat /\ RightOf(heap, i) = i + Size(heap, i)
  BY <1>1, SizeIs DEF Words, RightOf
<1>3. \E f : Walk(f)
  <2> DEFINE Ok(f, i) == f[i] = Body(f, i)
             P == {n \in 0 .. len : \E f \in [Nat -> SUBSET Words] : \A i \in Nat : i >= len - n => Ok(f, i)}
  <2>1. 0 \in P
    <3> DEFINE f == [i \in Nat |-> {}]
    <3>1. f \in [Nat -> SUBSET Words] /\ \A i \in Nat : i >= len - 0 => Ok(f, i)
      BY <1>1
    <3>2. 0 \in 0 .. len
      BY <1>1
    <3> HIDE DEF f, Ok
    <3> QED
      BY <3>1, <3>2, Zenon
  <2>2. ASSUME NEW n \in 1 .. len, n - 1 \in P PROVE n \in P
    <3>1. PICK f \in [Nat -> SUBSET Words] : \A i \in Nat : i >= len - (n - 1) => Ok(f, i)
      BY <2>2
    <3> DEFINE j == len - n
               t == [i \in Nat |-> IF i = j THEN Body(f, j) ELSE f[i]]
    <3>2. j \in Nat /\ j < len /\ j \in Words /\ Size(heap, j) \in Nat /\ RightOf(heap, j) = j + Size(heap, j)
      BY <1>1, <1>2 DEF Words
    <3>3. len - (n - 1) = j + 1 /\ len - n = j
      BY <1>1
    <3> HIDE DEF j
    <3>4. Body(f, j) \in SUBSET Words
      BY <3>1, <3>2
    <3>5. t \in [Nat -> SUBSET Words]
      BY <3>1, <3>4
    <3>6. \A i \in Nat : t[i] = IF i = j THEN Body(f, j) ELSE f[i]
      OBVIOUS
    <3> HIDE DEF t
    <3>7. ASSUME NEW i \in Nat, i >= j PROVE t[i] = Body(t, i)
      <4>1. CASE i >= len \/ Size(heap, i) = 0
        <5>1. Body(t, i) = {} /\ Body(f, i) = {}
          BY <4>1
        <5>2. CASE i = j
          BY <3>6, <5>1, <5>2
        <5>3. CASE i # j
          <6>1. f[i] = Body(f, i)
            BY <3>1, <3>2, <3>3, <3>7, <5>3
          <6> QED
            BY <3>6, <5>1, <5>3, <6>1
        <5> QED
          BY <5>2, <5>3
      <4>2. CASE ~(i >= len \/ Size(heap, i) = 0)
        <5> DEFINE k == RightOf(heap, i)
        <5>1. k \in Nat /\ k # j
          BY <1>1, <1>2, <3>2, <3>7, <4>2
        <5>2. t[k] = f[k]
          BY <3>6, <5>1
        <5>3. Body(t, i) = Body(f, i)
          BY <5>2
        <5>4. CASE i = j
          BY <3>6, <5>3, <5>4
        <5>5. CASE i # j
          <6>1. f[i] = Body(f, i)
            BY <3>1, <3>2, <3>3, <3>7, <5>5
          <6> QED
            BY <3>6, <5>3, <5>5, <6>1
        <5> QED
          BY <5>4, <5>5
      <4> QED
        BY <4>1, <4>2
    <3>8. \A i \in Nat : i >= len - n => Ok(t, i)
      BY <3>3, <3>7
    <3> HIDE DEF Ok
    <3> QED
      BY <3>5, <3>8
  <2>3. len \in P
    <3> HIDE DEF P
    <3>1. 0 .. len \subseteq P
      BY <1>1, <2>1, <2>2, Upward
    <3> QED
      BY <1>1, <3>1
  <2>4. PICK f \in [Nat -> SUBSET Words] : \A i \in Nat : i >= len - len => Ok(f, i)
    BY <2>3
  <2>5. \A i \in Nat : f[i] = Body(f, i)
    BY <1>1, <2>4
  <2>6. Walk(f)
    BY <2>5
  <2> QED
    BY <2>6
<1>4. Walk(from)
  BY <1>3
<1>5. Blocks = from[0]
  BY DEF Blocks
<1> HIDE DEF from
<1>6. \A i \in Nat : from[i] = Body(from, i)
  BY <1>4
<1>7. \A b \in B : /\ b \in Nat /\ b < len /\ Size(heap, b) \in Nat /\ Size(heap, b) >= 2 /\ RightOf(heap, b) = b + Size(heap, b)
                   /\ (b + Size(heap, b) = len \/ b + Size(heap, b) \in B)
                   /\ \A c \in B : b < c => b + Size(heap, b) <= c
  <2>1. \A b \in B : b \in Words /\ Size(heap, b) >= 2
    BY <1>1 DEF Shape
  <2>2. \A b, c \in B : b < c => b + Size(heap, b) <= c
    BY <1>1 DEF Shape
  <2>3. \A b \in B : RightOf(heap, b) = b + Size(heap, b) /\ (b + Size(heap, b) = len \/ b + Size(heap, b) \in B)
    BY <1>1, Neighbours
  <2> QED
    BY <1>1, <1>2, <2>1, <2>2, <2>3 DEF Words
<1>8. from[len] = {}
  <2>1. from[len] = Body(from, len)
    BY <1>1, <1>6
  <2>2. len >= len
    BY <1>1
  <2> QED
    BY <2>1, <2>2
<1>9. ASSUME NEW b \in B PROVE from[b] = {b} \cup from[b + Size(heap, b)]
  <2>1. from[b] = Body(from, b)
    BY <1>6, <1>7
  <2>2. ~(b >= len \/ Size(heap, b) = 0) /\ RightOf(heap, b) = b + Size(heap, b)
    BY <1>1, <1>7
  <2> QED
    BY <2>1, <2>2
<1>10. \A b \in B : from[b] = {c \in B : c >= b}
  <2> DEFINE P == {n \in 0 .. len : \A b \in B : b >= len - n => from[b] = {c \in B : c >= b}}
  <2>1. 0 \in P
    BY <1>1, <1>7
  <2>2. ASSUME NEW n \in 1 .. len, n - 1 \in P PROVE n \in P
    <3> SUFFICES ASSUME NEW b \in B, b >= len - n PROVE from[b] = {c \in B : c >= b}
      BY <2>2
    <3> DEFINE k == b + Size(heap, b)
    <3>1. from[b] = {b} \cup from[k]
      BY <1>9
    <3>2. CASE k = len
      <4>1. from[k] = {}
        BY <1>8, <3>2
      <4>2. \A c \in B : c >= b => c = b
        BY <1>1, <1>7, <3>2
      <4> QED
        BY <1>7, <3>1, <4>1, <4>2
    <3>3. CASE k # len
      <4>1. k \in B
        BY <1>7, <3>3
      <4>2. k >= len - (n - 1)
        <5>1. b \in Nat /\ Size(heap, b) \in Nat /\ Size(heap, b) >= 2
          BY <1>7
        <5> QED
          BY <1>1, <5>1
      <4>3. from[k] = {c \in B : c >= k}
        BY <2>2, <4>1, <4>2
      <4>4. b \in Nat /\ k \in Nat /\ b < k /\ \A c \in B : c \in Nat /\ (b < c => k <= c)
        <5>1. b \in Nat /\ Size(heap, b) \in Nat /\ Size(heap, b) >= 2
          BY <1>7
        <5>2. \A c \in B : c \in Nat /\ (b < c => k <= c)
          BY <1>7
        <5> QED
          BY <5>1, <5>2
      <4>5. \A c \in B : c >= b <=> (c = b \/ c >= k)
        <5> HIDE DEF k
        <5> QED
          BY <4>4
      <4>6. from[b] = {b} \cup {c \in B : c >= k}
        BY <3>1, <4>3
      <4> QED
        <5> HIDE DEF k
        <5> QED
          BY <4>5, <4>6
    <3> QED
      BY <3>2, <3>3
  <2>3. 0 .. len \subseteq P
    <3> HIDE DEF P
    <3> QED
      BY <1>1, <2>1, <2>2, Upward
  <2>4. \A b \in B : b >= len - len => from[b] = {c \in B : c >= b}
    BY <1>1, <2>3
  <2>5. \A b \in B : b >= len - len
    BY <1>1, <1>7
  <2> QED
    BY <2>4, <2>5
<1>11. Blocks = B
  <2>1. {c \in B : c >= 0} = B
    BY <1>7
  <2> QED
    BY <1>1, <1>5, <1>10, <2>1
<1> QED
  BY <1>1, <1>11 DEF AvailBlocks, IsAvail

\* The invariant is about the heap that the properties speak of.
LEMMA GoodGives ==
  ASSUME NEW B, NEW A, Good(heap, B, A, live)
  PROVE BlocksTile /\ ListExact
<1>1. Blocks = B /\ AvailBlocks = A
  BY BlocksAre
<1>2. /\ heap \in Heaps /\ Shape(heap, B, len, len) /\ List(heap, A)
      /\ A = {b \in B : heap.array[b] > 0} /\ heap.array = array /\ heap.avail = avail
  BY DEF Good, Inter, heap
<1> HIDE DEF heap
<1>3. BlocksTile
  <2>1. {0, len - 2} \subseteq B
    BY DEF Good
  <2>2. \A i \in B : array[Footer(heap, i)] = array[i]
    BY <1>2 DEF Shape
  <2>3. B \ A = {0, len - 2} \cup {p - 1 : p \in DOMAIN live}
    BY DEF Good
  <2>4. \A i \in A : RightOf(heap, i) \notin A
    BY DEF Good, RightOf
  <2> QED
    BY <1>1, <2>1, <2>2, <2>3, <2>4 DEF BlocksTile
<1>4. ListExact
  <2>1. avail = 0 => A = {}
    <3> SUFFICES ASSUME avail = 0 PROVE A = {}
      OBVIOUS
    <3>1. \A i \in A : i \in {0} => NextOf(heap, i) \in {0}
      BY <1>2 DEF List
    <3>2. A \subseteq {0}
      BY <1>2, <3>1, Reached
    <3> QED
      BY <1>2, <3>2 DEF List
  <2>2. avail \in A \cup {0} /\ (avail # 0 => PrevOf(heap, avail) = 0) /\ 0 \notin A
    BY <1>2 DEF List
  <2>3. \A i \in A :
          /\ NextOf(heap, i) # 0 => NextOf(heap, i) \in A /\ PrevOf(heap, NextOf(heap, i)) = i
          /\ i # avail => PrevOf(heap, i) \in A /\ NextOf(heap, PrevOf(heap, i)) = i
    BY <1>2 DEF List
  <2> QED
    BY <1>1, <2>1, <2>2, <2>3 DEF ListExact
<1> QED
  BY <1>3, <1>4

\* heap_init makes one block between the ends.
LEMMA InitialGood ==
  ASSUME NEW L, DOMAIN L = {}
  PROVE Initial \in Heaps /\ Good(Initial, {0, 2, len - 2}, {2}, L)
<1> DEFINE blank == [array |-> [i \in 0 .. len - 1 |-> 0], avail |-> 0]
           h1 == MakeTaken(blank, 0, 2)
           m == len - 4
           h2 == MakeAvail(h1, 2, m)
           e == len - 2
           h3 == MakeTaken(h2, e, 2)
<1>1. /\ len \in Nat /\ len >= 8 /\ m \in Nat /\ m >= 4 /\ 2 + m = e /\ e \in Nat /\ e + 2 = len /\ e # 0 /\ e # 2
      /\ len - 2 = e
  BY HeapAssumption
<1>2. Initial = h3
  BY DEF Initial
<1>3. Inter(blank, {}, {}, 0, len)
  <2>1. 0 \in Words /\ 0 \in Values /\ 0 \in 0 .. len /\ len \in 0 .. len /\ 0 <= len
    BY <1>1 DEF Words, Values
  <2>2. blank \in Heaps /\ blank.avail = 0
    BY <2>1 DEF Heaps, Words
  <2> HIDE DEF blank
  <2>3. Shape(blank, {}, 0, len)
    BY <1>1, <2>1 DEF Shape, Words
  <2>4. List(blank, {})
    <3>1. [i \in {} |-> 0] \in [{} -> 0 .. 0]
      OBVIOUS
    <3>2. \E k \in Nat : \E r \in [{} -> 0 .. k] : \A i \in {} : NextOf(blank, i) # 0 => r[NextOf(blank, i)] < r[i]
      BY <3>1
    <3> QED
      BY <2>2, <3>2 DEF List
  <2> QED
    BY <2>2, <2>3, <2>4 DEF Inter
<1> HIDE DEF blank, m, e
<1>4. Inter(h1, {0}, {}, 2, len) /\ Size(h1, 0) = 2
  <2>1. AfterTaken(blank, {}, {}, 0, len, 2)
    BY <1>1, <1>3, TakenStep
  <2> QED
    BY <2>1 DEF AfterTaken
<1> HIDE DEF h1
<1>5. Inter(h2, {0, 2}, {2}, e, len) /\ Size(h2, 0) = 2 /\ Size(h2, 2) = m
  <2>1. AfterAvail(h1, {0}, {}, 2, len, m)
    BY <1>1, <1>4, AvailStep
  <2>2. {0} \cup {2} = {0, 2} /\ {} \cup {2} = {2}
    OBVIOUS
  <2> QED
    BY <1>1, <1>4, <2>1, <2>2 DEF AfterAvail
<1> HIDE DEF h2
<1>6. Inter(h3, {0, 2, e}, {2}, len, len) /\ Size(h3, 0) = 2 /\ Size(h3, 2) = m /\ Size(h3, e) = 2
  <2>1. AfterTaken(h2, {0, 2}, {2}, e, len, 2)
    BY <1>1, <1>5, TakenStep
  <2>2. {0, 2} \cup {e} = {0, 2, e}
    OBVIOUS
  <2> QED
    BY <1>1, <1>5, <2>1, <2>2 DEF AfterTaken
<1> HIDE DEF h3
<1>7. /\ {0, e} \subseteq {0, 2, e} /\ {0, 2, e} \ {2} = {0, e} \cup {p - 1 : p \in DOMAIN L}
      /\ DOMAIN L \subseteq Words /\ \A a \in {2} : a + Size(h3, a) \notin {2}
  BY <1>1, <1>6
<1>8. Good(h3, {0, 2, e}, {2}, L)
  BY <1>1, <1>6, <1>7 DEF Good
<1> QED
  BY <1>1, <1>2, <1>6, <1>8 DEF Inter

----------------------------------------------------------------------------
(* The calls.                                                              *)

\* The block of pointer q stays as it is, with what is in it.
Keeps(h, g, q) ==
  /\ Size(g, q - 1) = Size(h, q - 1)
  /\ \A w \in q - 1 .. q - 1 + Size(h, q - 1) - 1 : g.array[w] = h.array[w]

LEMMA IntsIs ==
  ASSUME NEW bytes \in Nat
  PROVE Ints(bytes) \in Nat /\ Ints(bytes) >= 4 /\ bytes \div 4 \in Nat /\ Ints(bytes) >= bytes \div 4 + 2
BY DEF Ints

\* What is known of a pointer in use.
LEMMA PointerIs ==
  ASSUME NEW h, NEW B, NEW A, NEW L, Good(h, B, A, L), NEW q \in DOMAIN L
  PROVE /\ h \in Heaps /\ q \in Words /\ q - 1 \in Words /\ q - 1 \in B \ A /\ q - 1 # 0 /\ q - 1 # len - 2
        /\ Size(h, q - 1) \in Nat /\ Size(h, q - 1) >= 4 /\ q - 1 + Size(h, q - 1) <= len - 2
        /\ L[q] \in Requests /\ L[q] \in Nat /\ L[q] \div 4 \in Nat
        /\ Size(h, q - 1) \in Ints(L[q]) .. Ints(L[q]) + 3
        /\ Ints(L[q]) \in Nat /\ Size(h, q - 1) >= L[q] \div 4 + 2
<1>1. /\ h \in Heaps /\ Shape(h, B, len, len) /\ q \in Words /\ q - 1 \in B \ A
      /\ q - 1 \notin {0, len - 2} /\ L[q] \in Requests
      /\ Size(h, q - 1) \in Ints(L[q]) .. Ints(L[q]) + 3
      /\ len - 2 \in B
  BY DEF Good, Inter
<1>2. L[q] \in Nat
  BY <1>1, HeapAssumption
<1>3. Ints(L[q]) \in Nat /\ Ints(L[q]) >= 4 /\ L[q] \div 4 \in Nat /\ Ints(L[q]) >= L[q] \div 4 + 2
  BY <1>2, IntsIs
<1>4. q - 1 \in Words /\ q - 1 + Size(h, q - 1) <= len /\ q \in Int
  BY <1>1 DEF Shape, Words
<1>5. Size(h, q - 1) \in Nat
  BY <1>1, <1>4, SizeIs
<1>6. Size(h, q - 1) >= 4 /\ Size(h, q - 1) >= L[q] \div 4 + 2
  BY <1>1, <1>3, <1>5
<1>7. q - 1 + Size(h, q - 1) <= len - 2
  <2>1. q - 1 < len - 2
    BY <1>1, <1>4, <1>5, <1>6, HeapAssumption DEF Words
  <2> QED
    BY <1>1, <2>1 DEF Shape
<1> QED
  BY <1>1, <1>2, <1>3, <1>4, <1>5, <1>6, <1>7

\* malloc takes block p, and nothing else changes for the pointers in use.
LEMMA CarveGood ==
  ASSUME NEW h, NEW B, NEW A, NEW L, Good(h, B, A, L), NEW p \in A, NEW bytes \in Requests,
         Ints(bytes) <= Size(h, p), NEW M, DOMAIN M = DOMAIN L \cup {p + 1}, M[p + 1] = bytes,
         \A q \in DOMAIN L : M[q] = L[q]
  PROVE LET g == Carve(h, p, Ints(bytes))
        IN /\ p + 1 \notin DOMAIN L /\ p + 1 \in Words
           /\ \E C : \E D : Good(g, C, D, M)
           /\ Size(g, p) <= Size(h, p)
           /\ \A q \in DOMAIN L : Keeps(h, g, q)
<1> DEFINE n == Ints(bytes)
           g == Carve(h, p, n)
           C == IF Size(h, p) - n >= 4 THEN {p + n} ELSE {}
<1>1. /\ Inter(h, B, A, len, len) /\ h \in Heaps /\ Shape(h, B, len, len) /\ List(h, A)
      /\ A = {b \in B : h.array[b] > 0} /\ \A a \in A : Size(h, a) >= 4
  BY DEF Good, Inter
<1>2. /\ {0, len - 2} \subseteq B /\ Size(h, 0) = 2 /\ Size(h, len - 2) = 2
      /\ B \ A = {0, len - 2} \cup {q - 1 : q \in DOMAIN L} /\ DOMAIN L \subseteq Words
      /\ \A a \in A : a + Size(h, a) \notin A
  BY DEF Good
<1>3. n \in Nat /\ n >= 4
  BY IntsIs, HeapAssumption
<1>4. p \in Words /\ p \in Int /\ p # 0 /\ p \in B /\ Size(h, p) \in Nat /\ p + 3 < len /\ p + 1 \in Words
  BY <1>1, SizeIs, HeapAssumption DEF List, Words
<1> HIDE DEF n, g, C
<1>5. /\ Inter(g, B \cup C, (A \ {p}) \cup C, len, len)
      /\ g.array[p] < 0 /\ Size(g, p) \in n .. n + 3 /\ Size(g, p) <= Size(h, p)
      /\ C \cap B = {}
      /\ \A c \in C : c + Size(g, c) = p + Size(h, p)
      /\ \A b \in B \ {p} : g.array[b] = h.array[b] /\ Size(g, b) = Size(h, b)
      /\ \A c \in B \ A : \A w \in c .. c + Size(h, c) - 1 : g.array[w] = h.array[w]
  <2>1. AfterCarve(h, B, A, p, n)
    BY <1>1, <1>3, CarveStep DEF n
  <2> QED
    BY <2>1 DEF AfterCarve, g, C
<1>6. p + 1 \notin DOMAIN L /\ p \notin {0, len - 2}
  <2>1. \A q \in DOMAIN L : q - 1 \notin A /\ q \in Int
    BY <1>2 DEF Words
  <2>2. 0 \notin A /\ len - 2 \notin A
    BY <1>2
  <2> QED
    BY <1>4, <2>1, <2>2
<1>7. (B \cup C) \ ((A \ {p}) \cup C) = {0, len - 2} \cup {q - 1 : q \in DOMAIN M}
  <2>1. (B \cup C) \ ((A \ {p}) \cup C) = (B \ A) \cup {p}
    BY <1>4, <1>5
  <2>2. {q - 1 : q \in DOMAIN M} = {q - 1 : q \in DOMAIN L} \cup {p}
    BY <1>4
  <2> QED
    BY <1>2, <2>1, <2>2
<1>8. ASSUME NEW q \in DOMAIN L
      PROVE /\ q - 1 \in B \ A /\ q - 1 # p /\ q - 1 \notin {0, len - 2} /\ L[q] \in Requests
            /\ Size(h, q - 1) \in Ints(L[q]) .. Ints(L[q]) + 3 /\ Size(g, q - 1) = Size(h, q - 1)
            /\ Keeps(h, g, q)
  <2>1. q - 1 \in B \ A /\ q - 1 # p
    BY <1>2
  <2>2. q - 1 \notin {0, len - 2} /\ L[q] \in Requests /\ Size(h, q - 1) \in Ints(L[q]) .. Ints(L[q]) + 3
    BY DEF Good
  <2>3. Keeps(h, g, q)
    BY <1>5, <2>1 DEF Keeps
  <2> QED
    BY <2>1, <2>2, <2>3 DEF Keeps
<1>9. \A q \in DOMAIN M : /\ q - 1 \notin {0, len - 2} /\ M[q] \in Requests
                          /\ Size(g, q - 1) \in Ints(M[q]) .. Ints(M[q]) + 3
  <2> SUFFICES ASSUME NEW q \in DOMAIN M
               PROVE /\ q - 1 \notin {0, len - 2} /\ M[q] \in Requests
                     /\ Size(g, q - 1) \in Ints(M[q]) .. Ints(M[q]) + 3
    OBVIOUS
  <2>1. CASE q \in DOMAIN L
    BY <1>8, <2>1
  <2>2. CASE q = p + 1
    <3>1. q - 1 = p
      BY <1>4, <2>2
    <3> QED
      BY <1>5, <1>6, <2>2, <3>1 DEF n
  <2> QED
    BY <2>1, <2>2
<1>10. ASSUME NEW a \in (A \ {p}) \cup C PROVE a + Size(g, a) \notin (A \ {p}) \cup C
  <2>1. p + Size(h, p) \notin A
    BY <1>2
  <2>2. \A c \in C : c = p + n /\ n < Size(h, p) /\ p < c /\ c < p + Size(h, p) /\ Size(g, c) # 0
    <3>1. \A c \in C : c = p + n /\ n < Size(h, p) /\ p < c /\ c < p + Size(h, p)
      BY <1>3, <1>4 DEF C
    <3> QED
      BY <1>3, <1>4, <1>5, <3>1
  <2>3. CASE a \in C
    BY <1>4, <1>5, <2>1, <2>2, <2>3
  <2>4. CASE a \in A \ {p}
    <3>1. a \in B /\ Size(g, a) = Size(h, a) /\ a + Size(h, a) \notin A
      BY <1>1, <1>2, <1>5, <2>4
    <3>2. a + Size(h, a) \notin C
      <4>1. a \in Int /\ Size(h, a) \in Nat /\ (a + Size(h, a) <= p \/ p + Size(h, p) <= a)
        <5>1. a \in Words /\ (a < p => a + Size(h, a) <= p) /\ (p < a => p + Size(h, p) <= a)
          BY <1>1, <1>4, <3>1 DEF Shape
        <5> QED
          BY <1>1, <1>4, <2>4, <5>1, SizeIs DEF Words
      <4> QED
        BY <1>3, <1>4, <2>2, <4>1
    <3> QED
      BY <3>1, <3>2
  <2> QED
    BY <2>3, <2>4
<1>11. {0, len - 2} \subseteq B \cup C /\ Size(g, 0) = 2 /\ Size(g, len - 2) = 2 /\ DOMAIN M \subseteq Words
  BY <1>2, <1>4, <1>5, <1>6
<1>12. Good(g, B \cup C, (A \ {p}) \cup C, M)
  BY <1>5, <1>7, <1>9, <1>10, <1>11 DEF Good
<1>13. \E E : \E D : Good(g, E, D, M)
  BY <1>12
<1> QED
  BY <1>4, <1>5, <1>6, <1>8, <1>13 DEF g, n

\* free gives the block of pointer p back, and nothing else changes for the others.
LEMMA FreeGood ==
  ASSUME NEW h, NEW B, NEW A, NEW L, Good(h, B, A, L), NEW p \in DOMAIN L,
         NEW M, DOMAIN M = DOMAIN L \ {p}, \A q \in DOMAIN M : M[q] = L[q]
  PROVE LET g == Freed(h, p - 1)
        IN /\ \E C : \E D : Good(g, C, D, M)
           /\ \A q \in DOMAIN M : Keeps(h, g, q)
<1> DEFINE i == p - 1
           g == Freed(h, i)
<1>1. /\ Inter(h, B, A, len, len) /\ A = {b \in B : h.array[b] > 0}
      /\ {0, len - 2} \subseteq B /\ Size(h, 0) = 2 /\ Size(h, len - 2) = 2
      /\ B \ A = {0, len - 2} \cup {q - 1 : q \in DOMAIN L} /\ DOMAIN L \subseteq Words
      /\ \A a \in A : a + Size(h, a) \notin A
  BY DEF Good, Inter
<1>2. i \in B \ A /\ i # 0 /\ i # len - 2 /\ Size(h, i) >= 4 /\ i + Size(h, i) # len /\ p \in Int
  BY PointerIs, HeapAssumption DEF Words
<1> HIDE DEF i, g
<1>3. PICK D : \E x : AfterFreed(h, B, A, i, D, x)
  BY <1>1, <1>2, FreedStep
<1>4. PICK x : AfterFreed(h, B, A, i, D, x)
  BY <1>3
<1>5. /\ D \subseteq B /\ i \in D /\ D \ {i} \subseteq A /\ x \in D
      /\ Inter(g, (B \ D) \cup {x}, (A \ D) \cup {x}, len, len)
      /\ \A b \in B \ D : g.array[b] = h.array[b] /\ Size(g, b) = Size(h, b)
      /\ \A a \in (A \ D) \cup {x} : a + Size(g, a) \notin (A \ D) \cup {x}
      /\ \A c \in B \ A : c # i => \A w \in c .. c + Size(h, c) - 1 : g.array[w] = h.array[w]
  BY <1>4 DEF AfterFreed, g
<1>6. ((B \ D) \cup {x}) \ ((A \ D) \cup {x}) = (B \ A) \ {i}
  BY <1>1, <1>2, <1>5
<1>7. \A q \in DOMAIN L : q - 1 = i => q = p
  <2>1. \A q \in DOMAIN L : q \in Int
    BY <1>1 DEF Words
  <2> QED
    BY <1>2, <2>1 DEF i
<1>8. (B \ A) \ {i} = {0, len - 2} \cup {q - 1 : q \in DOMAIN M}
  BY <1>1, <1>2, <1>7 DEF i
<1>9. ASSUME NEW q \in DOMAIN M
      PROVE /\ q - 1 \notin {0, len - 2} /\ M[q] \in Requests
            /\ Size(g, q - 1) \in Ints(M[q]) .. Ints(M[q]) + 3
            /\ Keeps(h, g, q)
  <2>1. q \in DOMAIN L /\ q - 1 # i /\ M[q] = L[q]
    BY <1>7
  <2>2. q - 1 \in B \ A /\ q - 1 \notin D
    BY <1>1, <1>5, <2>1
  <2>3. q - 1 \notin {0, len - 2} /\ L[q] \in Requests /\ Size(h, q - 1) \in Ints(L[q]) .. Ints(L[q]) + 3
    BY <2>1 DEF Good
  <2>4. Keeps(h, g, q)
    BY <1>5, <2>1, <2>2 DEF Keeps
  <2> QED
    BY <2>1, <2>3, <2>4 DEF Keeps
<1>10. {0, len - 2} \subseteq B \ D
  BY <1>1, <1>2, <1>5
<1>11. Size(g, 0) = 2 /\ Size(g, len - 2) = 2
  BY <1>1, <1>5, <1>10
<1>12. Good(g, (B \ D) \cup {x}, (A \ D) \cup {x}, M)
  BY <1>1, <1>5, <1>6, <1>8, <1>9, <1>10, <1>11 DEF Good
<1>13. \E C : \E E : Good(g, C, E, M)
  BY <1>12
<1> QED
  BY <1>9, <1>13 DEF g, i

\* A program writes to the words of pointer q.
LEMMA WriteGood ==
  ASSUME NEW h, NEW B, NEW A, NEW L, Good(h, B, A, L), NEW q \in DOMAIN L,
         NEW g \in Heaps, g.avail = h.avail,
         \A w \in Words : g.array[w] = h.array[w] \/ (q <= w /\ w < q + L[q] \div 4)
  PROVE /\ Good(g, B, A, L) /\ Size(g, q - 1) = Size(h, q - 1)
        /\ \A p \in DOMAIN L : p # q => Keeps(h, g, p)
<1>1. /\ Inter(h, B, A, len, len)
      /\ {0, len - 2} \subseteq B /\ Size(h, 0) = 2 /\ Size(h, len - 2) = 2
      /\ B \ A = {0, len - 2} \cup {p - 1 : p \in DOMAIN L} /\ DOMAIN L \subseteq Words
      /\ \A p \in DOMAIN L : /\ p - 1 \notin {0, len - 2} /\ L[p] \in Requests
                             /\ Size(h, p - 1) \in Ints(L[p]) .. Ints(L[p]) + 3
      /\ \A a \in A : a + Size(h, a) \notin A
  BY DEF Good
<1> DEFINE b == q - 1
<1>2. /\ b \in B \ A /\ q = b + 1 /\ b \in Int /\ q \in Int /\ Size(h, b) \in Nat /\ L[q] \div 4 \in Int
      /\ Size(h, b) >= L[q] \div 4 + 2
  BY PointerIs DEF Words
<1> HIDE DEF b
<1>3. \A w \in Words : g.array[w] = h.array[w] \/ (b < w /\ w < b + Size(h, b) - 1)
  BY <1>2 DEF Words
<1>4. Inter(g, B, A, len, len) /\ \A c \in B : g.array[c] = h.array[c] /\ Size(g, c) = Size(h, c)
  BY <1>1, <1>2, <1>3, DataStep
<1>5. \A p \in DOMAIN L : p - 1 \in B \ A
  BY <1>1
<1>6. A \subseteq B
  BY <1>1 DEF Inter
<1>7. Good(g, B, A, L)
  BY <1>1, <1>4, <1>5, <1>6 DEF Good
<1>8. ASSUME NEW p \in DOMAIN L, p # q PROVE Keeps(h, g, p)
  <2>1. p \in Int /\ p - 1 # b /\ p - 1 \in B \ A
    BY <1>1, <1>2, <1>5, <1>8 DEF Words
  <2>2. ASSUME NEW w \in p - 1 .. p - 1 + Size(h, p - 1) - 1 PROVE g.array[w] = h.array[w]
    <3> DEFINE c == p - 1
    <3>1. c \in B \ A /\ c # b /\ w \in c .. c + Size(h, c) - 1
      BY <2>1, <2>2
    <3> HIDE DEF c
    <3>2. w \in Words /\ (w < b \/ b + Size(h, b) <= w)
      BY <1>1, <1>2, <3>1, Undisturbed
    <3> QED
      BY <1>2, <1>3, <3>2 DEF Words
  <2> QED
    BY <1>4, <2>1, <2>2 DEF Keeps
<1> QED
  BY <1>2, <1>4, <1>7, <1>8 DEF b

\* What it writes there.
AfterStamp(h, q, skip, bytes, v) ==
  LET g == Stamped(h, q, skip, bytes, v)
  IN /\ g \in Heaps /\ g.avail = h.avail
     /\ \A w \in Words : g.array[w] = IF q + skip <= w /\ w < q + bytes \div 4 THEN v ELSE h.array[w]

LEMMA StampedIs ==
  ASSUME NEW h \in Heaps, NEW q \in Int, NEW skip \in Int, NEW bytes \in Nat, NEW v \in Stamps
  PROVE AfterStamp(h, q, skip, bytes, v)
<1> DEFINE words == [i \in Words |-> IF i \in q + skip .. q + bytes \div 4 - 1 THEN v ELSE h.array[i]]
           g == Stamped(h, q, skip, bytes, v)
<1>1. g = [h EXCEPT !.array = words]
  BY DEF Stamped, Words
<1>2. words \in [Words -> Values]
  BY DEF Heaps, Values
<1>3. bytes \div 4 \in Int /\ Words \subseteq Int
  BY DEF Words
<1>4. \A w \in Words : words[w] = IF q + skip <= w /\ w < q + bytes \div 4 THEN v ELSE h.array[w]
  BY <1>3
<1> HIDE DEF words, g
<1>5. g \in Heaps /\ g.avail = h.avail /\ g.array = words
  BY <1>1, <1>2 DEF Heaps
<1> QED
  BY <1>4, <1>5 DEF g, AfterStamp

LEMMA BecomeIs ==
  ASSUME NEW h \in Heaps, Become(h)
  PROVE heap' = h
BY DEF Become, heap, Heaps

\* A block is handed out, out of one that was available: the pointer to it is new, and
\* the others have what they had.
HandedOut(A, q, bytes) ==
  /\ result' = q /\ q \in Words /\ q \notin DOMAIN live
  /\ \E C : \E D : Good(heap', C, D, live')
  /\ \A p \in DOMAIN live' : p # q => p \in DOMAIN live /\ live'[p] = live[p] /\ Keeps(heap, heap', p)
  /\ q \in DOMAIN live' /\ live'[q] = bytes
  /\ q - 1 \in A /\ Size(heap', q - 1) <= Size(heap, q - 1)

\* malloc hands a block out, or returns what it does when no available block A is
\* large enough.
LEMMA AllocateStep ==
  ASSUME NEW B, NEW A, Good(heap, B, A, live), NEW bytes \in Requests, NEW v \in Stamps, NEW none,
         Allocate(bytes, v, none)
  PROVE \/ bytes = 0 /\ result' = Base /\ UNCHANGED <<array, avail, live>>
        \/ /\ bytes # 0 /\ result' = none /\ UNCHANGED <<array, avail, live>>
           /\ \A a \in A : Size(heap, a) < Ints(bytes)
        \/ /\ bytes # 0 /\ DOMAIN live \subseteq DOMAIN live'
           /\ \E q : /\ HandedOut(A, q, bytes)
                     /\ \A w \in q .. q + bytes \div 4 - 1 : heap'.array[w] = v
<1> DEFINE n == Ints(bytes)
           p == FirstFit(heap, n)
           q == p + 1
           c == Carve(heap, p, n)
           M == With(live, q, bytes)
           g == Stamped(c, q, 0, bytes, v)
<1>1. heap \in Heaps /\ List(heap, A) /\ n \in Nat /\ bytes \in Nat
  BY HeapAssumption, IntsIs DEF Good, Inter
<1>2. p \in A \cup {0} /\ (p # 0 => Size(heap, p) >= n) /\ (p = 0 => \A a \in A : Size(heap, a) < n)
  BY <1>1, FirstFitIs
<1>3. CASE bytes = 0
  BY <1>3 DEF Allocate
<1>4. CASE bytes # 0 /\ p = 0
  BY <1>2, <1>4 DEF Allocate
<1>5. CASE bytes # 0 /\ p # 0
  <2>1. Become(g) /\ live' = M /\ result' = q
    BY <1>5 DEF Allocate
  <2> HIDE DEF p
  <2>2. p \in A /\ Size(heap, p) \in Nat /\ n <= Size(heap, p)
    <3>1. p \in A /\ p \in Words
      BY <1>1, <1>2, <1>5 DEF List
    <3> QED
      BY <1>1, <1>2, <1>5, <3>1, SizeIs
  <2>3. q \notin DOMAIN live => DOMAIN M = DOMAIN live \cup {q} /\ M[q] = bytes /\ \A r \in DOMAIN live : M[r] = live[r]
    <3> HIDE DEF q
    <3>1. /\ DOMAIN M = DOMAIN live \cup {q} /\ M[q] = bytes
          /\ \A r \in DOMAIN live : r # q => M[r] = live[r]
      BY DEF With
    <3> QED
      BY <3>1
  <2>4. p \in Words /\ p \in B /\ p \in A
    BY <1>1, <2>2 DEF List, Good, Inter
  <2>5. q \notin DOMAIN live
    <3>1. \A r \in DOMAIN live : r - 1 \in B \ A /\ r \in Int
      BY PointerIs DEF Words
    <3> QED
      BY <2>4, <3>1 DEF Words
  <2> HIDE DEF M
  <2>6. /\ q \in Words /\ \E C : \E D : Good(c, C, D, M)
        /\ \A r \in DOMAIN live : Keeps(heap, c, r)
        /\ q - 1 \in A /\ Size(c, q - 1) <= Size(heap, q - 1)
    <3>1. /\ q \in Words /\ \E C : \E D : Good(c, C, D, M)
          /\ \A r \in DOMAIN live : Keeps(heap, c, r)
          /\ Size(c, p) <= Size(heap, p)
      BY <2>2, <2>3, <2>5, CarveGood
    <3>2. q - 1 = p
      BY <2>4 DEF Words
    <3> QED
      BY <2>2, <3>1, <3>2
  <2> HIDE DEF c, q
  <2>7. PICK C : \E D : Good(c, C, D, M)
    BY <2>6
  <2>8. PICK D : Good(c, C, D, M)
    BY <2>7
  <2>9. c \in Heaps /\ q \in DOMAIN M /\ M[q] = bytes /\ q \in Int
    BY <2>3, <2>5, <2>6, <2>8 DEF Good, Inter, Words
  <2>10. /\ g \in Heaps /\ g.avail = c.avail
         /\ \A w \in Words : g.array[w] = IF q + 0 <= w /\ w < q + bytes \div 4 THEN v ELSE c.array[w]
    <3>1. AfterStamp(c, q, 0, bytes, v)
      BY <1>1, <2>9, StampedIs
    <3> QED
      BY <3>1 DEF AfterStamp
  <2> HIDE DEF g
  <2>11. Good(g, C, D, M) /\ Size(g, q - 1) = Size(c, q - 1) /\ \A r \in DOMAIN M : r # q => Keeps(c, g, r)
    <3>1. \A w \in Words : g.array[w] = c.array[w] \/ (q <= w /\ w < q + M[q] \div 4)
      BY <2>9, <2>10 DEF Words
    <3> QED
      BY <2>8, <2>9, <2>10, <3>1, WriteGood
  <2>12. heap' = g
    BY <2>1, <2>10, BecomeIs
  <2>13. \A r \in DOMAIN M : r # q => r \in DOMAIN live /\ M[r] = live[r] /\ Keeps(heap, g, r)
    BY <2>3, <2>5, <2>6, <2>11 DEF Keeps
  <2>14. HandedOut(A, q, bytes)
    <3>1. \E E : \E F : Good(g, E, F, M)
      BY <2>11
    <3> QED
      BY <2>1, <2>5, <2>6, <2>9, <2>11, <2>12, <2>13, <3>1 DEF HandedOut
  <2>15. \A w \in q .. q + bytes \div 4 - 1 : heap'.array[w] = v
    <3> SUFFICES ASSUME NEW w \in q .. q + bytes \div 4 - 1 PROVE g.array[w] = v
      BY <2>12
    <3>1. /\ Size(c, q - 1) >= M[q] \div 4 + 2 /\ q - 1 + Size(c, q - 1) <= len - 2 /\ Size(c, q - 1) \in Nat
          /\ q - 1 \in Words
      BY <2>8, <2>9, PointerIs
    <3>2. w \in Words /\ q <= w /\ w < q + bytes \div 4
      BY <1>1, <2>9, <3>1, HeapAssumption DEF Words
    <3> QED
      BY <2>9, <2>10, <3>2
  <2> QED
    BY <1>5, <2>1, <2>3, <2>5, <2>14, <2>15
<1> QED
  BY <1>3, <1>4, <1>5

\* A block is gone, and the others have what they had.
GivenBack(p) ==
  /\ DOMAIN live' = DOMAIN live \ {p}
  /\ \E C : \E D : Good(heap', C, D, live')
  /\ \A q \in DOMAIN live' : live'[q] = live[q] /\ Keeps(heap, heap', q)

LEMMA FreedIs ==
  ASSUME NEW B, NEW A, Good(heap, B, A, live), NEW p \in DOMAIN live,
         Become(Freed(heap, p - 1)), live' = Without(p)
  PROVE GivenBack(p)
<1> DEFINE g == Freed(heap, p - 1)
           M == Without(p)
<1>1. DOMAIN M = DOMAIN live \ {p} /\ \A q \in DOMAIN M : M[q] = live[q]
  BY DEF Without
<1> HIDE DEF M
<1>2. /\ \E C : \E D : Good(g, C, D, M)
      /\ \A q \in DOMAIN M : Keeps(heap, g, q)
  BY <1>1, FreeGood
<1>3. heap' = g
  <2>1. g \in Heaps
    BY <1>2 DEF Good, Inter
  <2> QED
    BY <2>1, BecomeIs
<1>4. live' = M
  BY DEF M
<1> HIDE DEF g
<1> QED
  BY <1>1, <1>2, <1>3, <1>4 DEF GivenBack

\* What free gets is in use, or is not touched.
LEMMA ReleaseStep ==
  ASSUME NEW B, NEW A, Good(heap, B, A, live),
         NEW p \in DOMAIN live \cup {Null, Base} \cup {i + 1 : i \in {avail} \ {0}},
         Release(p)
  PROVE GivenBack(p) /\ result' = result
<1>1. /\ Become(GiveBack(heap, p)) /\ live' = Without(p) /\ result' = result
  BY DEF Release
<1>2. /\ heap \in Heaps /\ List(heap, A) /\ A = {b \in B : heap.array[b] > 0} /\ heap.avail = avail
  BY DEF Good, Inter, heap
<1> HIDE DEF heap
<1>3. CASE p \in DOMAIN live
  <2>1. p # Null /\ p # Base /\ ~IsAvail(heap, p - 1)
    <3>1. p \in Words /\ p - 1 \in B \ A /\ p - 1 # 0 /\ p - 1 \in Words
      BY <1>3, PointerIs
    <3> QED
      BY <1>2, <3>1 DEF Null, Base, IsAvail, Words
  <2>2. GiveBack(heap, p) = Freed(heap, p - 1)
    BY <2>1 DEF GiveBack
  <2> QED
    BY <1>1, <1>3, <2>2, FreedIs
<1>4. CASE p \notin DOMAIN live
  <2>1. GiveBack(heap, p) = heap
    <3>1. CASE p \in {Null, Base}
      BY <3>1 DEF GiveBack
    <3>2. CASE p \notin {Null, Base}
      <4>1. p = avail + 1 /\ avail # 0
        BY <1>4, <3>2
      <4>2. avail \in A /\ p - 1 = avail
        BY <1>2, <4>1 DEF List, Words
      <4>3. IsAvail(heap, p - 1)
        BY <1>2, <4>2 DEF IsAvail
      <4> QED
        BY <4>3 DEF GiveBack
    <3> QED
      BY <3>1, <3>2
  <2>2. heap' = heap
    BY <1>1, <1>2, <2>1, BecomeIs
  <2>3. DOMAIN live' = DOMAIN live \ {p} /\ DOMAIN live' = DOMAIN live /\ \A q \in DOMAIN live' : live'[q] = live[q]
    BY <1>1, <1>4 DEF Without
  <2>4. Good(heap, B, A, live')
    BY <2>3 DEF Good
  <2>5. \A q : Keeps(heap, heap, q)
    BY DEF Keeps
  <2>6. \E C : \E D : Good(heap', C, D, live')
    BY <2>2, <2>4
  <2> QED
    BY <1>1, <2>2, <2>3, <2>5, <2>6 DEF GivenBack
<1> QED
  BY <1>1, <1>3, <1>4

\* realloc gives the block of pointer p back, and hands out one with what was in it,
\* as far as it is asked for, unless nothing is asked for or no block is large enough.
ReallocStep(B, A, p, bytes, v) ==
  \/ /\ GivenBack(p) /\ result' = Null
     /\ bytes = 0 \/ \A a \in A : Size(heap, a) < Ints(bytes)
  \/ /\ bytes # 0
     /\ \E q : /\ HandedOut(A, q, bytes) /\ DOMAIN live' = (DOMAIN live \ {p}) \cup {q}
               /\ \A w \in q .. q + bytes \div 4 - 1 :
                    heap'.array[w] = IF q + live[p] \div 4 <= w THEN v ELSE heap.array[p + w - q]

\* What is copied: the words of a block that is in use, or the tag after them.
AfterCopy(h, g, q, p, copy) ==
  LET m == [g EXCEPT !.array = [i \in 0 .. len - 1 |->
              IF i \in q .. q + copy - 1 THEN h.array[p + i - q] ELSE g.array[i]]]
  IN /\ m \in Heaps /\ m.avail = g.avail
     /\ \A w \in Words : m.array[w] = IF q <= w /\ w < q + copy THEN h.array[p + w - q] ELSE g.array[w]

LEMMA CopiedIs ==
  ASSUME NEW h \in Heaps, NEW g \in Heaps, NEW q \in Int, NEW p \in Int, NEW copy \in Int,
         \A i \in q .. q + copy - 1 : p + i - q \in Words
  PROVE AfterCopy(h, g, q, p, copy)
<1> DEFINE words == [i \in Words |-> IF i \in q .. q + copy - 1 THEN h.array[p + i - q] ELSE g.array[i]]
           m == [g EXCEPT !.array = words]
<1>1. words \in [Words -> Values]
  BY DEF Heaps
<1>2. \A w \in Words : words[w] = IF q <= w /\ w < q + copy THEN h.array[p + w - q] ELSE g.array[w]
  BY DEF Words
<1> HIDE DEF words
<1>3. m \in Heaps /\ m.avail = g.avail /\ m.array = words
  BY <1>1 DEF Heaps
<1>4. m = [g EXCEPT !.array = [i \in 0 .. len - 1 |->
             IF i \in q .. q + copy - 1 THEN h.array[p + i - q] ELSE g.array[i]]]
  BY DEF words, Words
<1> HIDE DEF m
<1> QED
  BY <1>2, <1>3, <1>4 DEF AfterCopy

LEMMA Reallocated ==
  ASSUME NEW B, NEW A, Good(heap, B, A, live), NEW p \in DOMAIN live, NEW bytes \in Requests, NEW v \in Stamps,
         Realloc(p, bytes, v)
  PROVE ReallocStep(B, A, p, bytes, v)
<1> DEFINE n == Ints(bytes)
           q == FirstFit(heap, n) + 1
           got == Carve(heap, q - 1, n)
           s == Size(heap, p - 1)
           copy == IF bytes < 4 * s THEN bytes \div 4 ELSE s
           moved == [got EXCEPT !.array = [i \in 0 .. len - 1 |->
                       IF i \in q .. q + copy - 1 THEN heap.array[p + i - q] ELSE got.array[i]]]
           freed == Freed(moved, p - 1)
           g == Stamped(freed, q, live[p] \div 4, bytes, v)
           M == With(Without(p), q, bytes)
           N == With(live, q, bytes)
<1>1. /\ heap \in Heaps /\ List(heap, A) /\ n \in Nat /\ bytes \in Nat
      /\ bytes \div 4 \in Nat /\ n >= bytes \div 4 + 2 /\ n >= 4
  BY HeapAssumption, IntsIs DEF Good, Inter
<1>2. /\ q - 1 \in A \cup {0} /\ q \in Int /\ q - 1 = FirstFit(heap, n)
      /\ (q # 1 => Size(heap, q - 1) >= n) /\ (q = 1 => \A a \in A : Size(heap, a) < n)
  <2>1. /\ FirstFit(heap, n) \in A \cup {0}
        /\ FirstFit(heap, n) # 0 => Size(heap, FirstFit(heap, n)) >= n
        /\ FirstFit(heap, n) = 0 => \A a \in A : Size(heap, a) < n
    BY <1>1, FirstFitIs
  <2>2. FirstFit(heap, n) \in Int
    BY <1>1, <2>1 DEF List, Words
  <2> HIDE DEF n
  <2>3. q \in Int /\ q - 1 = FirstFit(heap, n) /\ (q = 1 <=> FirstFit(heap, n) = 0)
    BY <2>2
  <2> QED
    BY <2>1, <2>3
<1>3. CASE bytes = 0 \/ q = 1
  <2>1. Become(Freed(heap, p - 1)) /\ live' = Without(p) /\ result' = Null
    BY <1>3 DEF Realloc
  <2>2. GivenBack(p)
    BY <2>1, FreedIs
  <2> QED
    BY <1>2, <1>3, <2>1, <2>2 DEF ReallocStep
<1>4. CASE bytes # 0 /\ q # 1
  <2>1. Become(g) /\ live' = M /\ result' = q
    BY <1>4 DEF Realloc
  <2>2. /\ p \in Words /\ p \in Int /\ s \in Nat /\ s >= 4 /\ p - 1 + s <= len - 2 /\ p >= 1
        /\ live[p] \in Nat /\ live[p] \div 4 \in Nat /\ s >= live[p] \div 4 + 2
    <3>1. /\ p \in Words /\ s \in Nat /\ s >= 4 /\ p - 1 + s <= len - 2 /\ p - 1 \in Words
          /\ live[p] \in Nat /\ live[p] \div 4 \in Nat /\ s >= live[p] \div 4 + 2
      BY PointerIs
    <3> HIDE DEF s
    <3> QED
      BY <3>1 DEF Words
  <2>3. q \notin DOMAIN live
    <3>1. \A r \in DOMAIN live : r - 1 \in B \ A /\ r \in Int
      BY PointerIs DEF Words
    <3> HIDE DEF q
    <3> QED
      BY <1>2, <1>4, <3>1
  <2>4. DOMAIN N = DOMAIN live \cup {q} /\ N[q] = bytes /\ \A r \in DOMAIN live : N[r] = live[r]
    <3> HIDE DEF q
    <3> QED
      BY <2>3 DEF With
  <2>5. DOMAIN M = DOMAIN N \ {p} /\ M[q] = bytes /\ \A r \in DOMAIN M : M[r] = N[r]
    <3> HIDE DEF q
    <3> QED
      BY <2>3 DEF With, Without
  <2> HIDE DEF M, N, q, n
  <2>6. /\ q \in Words /\ \E C : \E D : Good(got, C, D, N)
        /\ \A r \in DOMAIN live : Keeps(heap, got, r)
        /\ q - 1 \in A /\ Size(got, q - 1) <= Size(heap, q - 1)
    <3> DEFINE x == q - 1
    <3>1. x \in A /\ n <= Size(heap, x) /\ q = x + 1
      <4>1. x \in A /\ q = x + 1
        BY <1>2, <1>4
      <4>2. Size(heap, x) \in Nat /\ x # 0
        BY <1>1, <4>1, SizeIs DEF List
      <4> QED
        BY <1>1, <1>2, <1>4, <4>1, <4>2
    <3> HIDE DEF x
    <3>2. /\ x + 1 \in Words /\ \E C : \E D : Good(Carve(heap, x, n), C, D, N)
          /\ \A r \in DOMAIN live : Keeps(heap, Carve(heap, x, n), r)
          /\ Size(Carve(heap, x, n), x) <= Size(heap, x)
      BY <2>3, <2>4, <3>1, CarveGood DEF n
    <3> QED
      BY <3>1, <3>2 DEF x
  <2>7. PICK C : \E D : Good(got, C, D, N)
    BY <2>6
  <2>8. PICK D : Good(got, C, D, N)
    BY <2>7
  <2> HIDE DEF got
  <2>9. got \in Heaps /\ q \in DOMAIN N /\ p \in DOMAIN N /\ p # q
    BY <2>3, <2>4, <2>8 DEF Good, Inter
  <2>10. /\ copy \in Int /\ copy <= bytes \div 4 /\ copy <= s
         /\ \A k \in Int : k < live[p] \div 4 /\ k < bytes \div 4 => k < copy
    BY <1>1, <2>2
  <2> HIDE DEF s, copy
  <2>11. \A i \in q .. q + copy - 1 : p + i - q \in Words
    BY <1>2, <2>2, <2>10, HeapAssumption DEF Words
  <2>12. /\ moved \in Heaps /\ moved.avail = got.avail
         /\ \A w \in Words : moved.array[w] = IF q <= w /\ w < q + copy THEN heap.array[p + w - q] ELSE got.array[w]
    <3>1. AfterCopy(heap, got, q, p, copy)
      BY <1>1, <1>2, <2>2, <2>9, <2>10, <2>11, CopiedIs
    <3> QED
      BY <3>1 DEF AfterCopy
  <2> HIDE DEF moved
  <2>13. Good(moved, C, D, N) /\ Size(moved, q - 1) = Size(got, q - 1) /\ \A r \in DOMAIN N : r # q => Keeps(got, moved, r)
    <3>1. \A w \in Words : moved.array[w] = got.array[w] \/ (q <= w /\ w < q + N[q] \div 4)
      BY <1>1, <1>2, <2>4, <2>10, <2>12 DEF Words
    <3> QED
      BY <2>8, <2>9, <2>12, <3>1, WriteGood
  <2>14. /\ \E C2 : \E D2 : Good(freed, C2, D2, M)
         /\ \A r \in DOMAIN M : Keeps(moved, freed, r)
    BY <2>5, <2>9, <2>13, FreeGood
  <2>15. PICK C2 : \E D2 : Good(freed, C2, D2, M)
    BY <2>14
  <2>16. PICK D2 : Good(freed, C2, D2, M)
    BY <2>15
  <2> HIDE DEF freed
  <2>17. freed \in Heaps /\ q \in DOMAIN M
    BY <2>5, <2>9, <2>16 DEF Good, Inter
  <2> DEFINE skip == live[p] \div 4
  <2>18. /\ g \in Heaps /\ g.avail = freed.avail
         /\ \A w \in Words : g.array[w] = IF q + skip <= w /\ w < q + bytes \div 4 THEN v ELSE freed.array[w]
    <3>1. skip \in Int
      BY <2>2
    <3> HIDE DEF skip
    <3>2. AfterStamp(freed, q, skip, bytes, v)
      BY <1>1, <1>2, <2>17, <3>1, StampedIs
    <3> QED
      BY <3>2 DEF AfterStamp, skip
  <2>19. skip \in Nat /\ \A k \in Int : k < skip /\ k < bytes \div 4 => k < copy
    BY <2>2, <2>10
  <2>20. Become(g)
    BY <2>1
  <2> HIDE DEF g, skip
  <2>21. Good(g, C2, D2, M) /\ Size(g, q - 1) = Size(freed, q - 1) /\ \A r \in DOMAIN M : r # q => Keeps(freed, g, r)
    <3>1. \A w \in Words : g.array[w] = freed.array[w] \/ (q <= w /\ w < q + M[q] \div 4)
      BY <1>2, <2>5, <2>18, <2>19 DEF Words
    <3> QED
      BY <2>16, <2>17, <2>18, <3>1, WriteGood
  <2>22. heap' = g
    BY <2>18, <2>20, BecomeIs
  <2>23. \A r \in DOMAIN M : r # q => r \in DOMAIN live /\ M[r] = live[r] /\ Keeps(heap, g, r)
    <3> SUFFICES ASSUME NEW r \in DOMAIN M, r # q
                 PROVE r \in DOMAIN live /\ M[r] = live[r] /\ Keeps(heap, g, r)
      OBVIOUS
    <3>1. r \in DOMAIN live /\ r \in DOMAIN N /\ M[r] = live[r]
      BY <2>4, <2>5
    <3>2. Keeps(heap, got, r) /\ Keeps(got, moved, r) /\ Keeps(moved, freed, r) /\ Keeps(freed, g, r)
      BY <2>6, <2>13, <2>14, <2>21, <3>1
    <3> QED
      BY <3>1, <3>2 DEF Keeps
  <2>24. HandedOut(A, q, bytes)
    <3>1. \E E : \E F : Good(g, E, F, M)
      BY <2>21
    <3>2. Size(g, q - 1) = Size(got, q - 1)
      BY <2>13, <2>14, <2>17, <2>21 DEF Keeps
    <3> QED
      BY <2>1, <2>3, <2>5, <2>6, <2>17, <2>22, <2>23, <3>1, <3>2 DEF HandedOut
  <2>25. ASSUME NEW w \in q .. q + bytes \div 4 - 1
         PROVE g.array[w] = IF q + skip <= w THEN v ELSE heap.array[p + w - q]
    <3>1. /\ Size(moved, q - 1) >= N[q] \div 4 + 2 /\ Size(moved, q - 1) \in Nat
          /\ q - 1 + Size(moved, q - 1) <= len - 2 /\ q - 1 \in Words
      BY <2>9, <2>13, PointerIs
    <3>2. w \in Words /\ w \in Int /\ w \in q - 1 .. q - 1 + Size(moved, q - 1) - 1 /\ q <= w /\ w < q + bytes \div 4
      BY <1>1, <1>2, <2>4, <3>1, HeapAssumption DEF Words
    <3>3. freed.array[w] = moved.array[w]
      BY <2>14, <2>17, <3>2 DEF Keeps
    <3>4. CASE q + skip <= w
      BY <2>18, <3>2, <3>4
    <3>5. CASE ~(q + skip <= w)
      <4>1. w < q + copy
        <5>1. w - q \in Int /\ w - q < skip /\ w - q < bytes \div 4
          BY <1>1, <1>2, <2>19, <3>2, <3>5
        <5>2. w - q < copy
          BY <2>19, <5>1
        <5> QED
          BY <1>2, <2>10, <3>2, <5>2
      <4> QED
        BY <2>12, <2>18, <3>2, <3>3, <3>5, <4>1
    <3> QED
      BY <3>4, <3>5
  <2>26. DOMAIN live' = (DOMAIN live \ {p}) \cup {q}
    BY <2>1, <2>4, <2>5, <2>9
  <2>27. \A w \in q .. q + bytes \div 4 - 1 :
           heap'.array[w] = IF q + live[p] \div 4 <= w THEN v ELSE heap.array[p + w - q]
    BY <2>22, <2>25 DEF skip
  <2> QED
    BY <1>4, <2>24, <2>26, <2>27 DEF ReallocStep
<1> QED
  BY <1>3, <1>4

----------------------------------------------------------------------------
(* The invariant holds.                                                    *)

\* A step is a malloc, a free or a realloc, and these do what was said.
MallocStep(A, bytes, v) ==
  \/ bytes = 0 /\ result' = Base /\ UNCHANGED <<array, avail, live>>
  \/ /\ bytes # 0 /\ result' \in {Null, Panic} /\ UNCHANGED <<array, avail, live>>
     /\ \A a \in A : Size(heap, a) < Ints(bytes)
  \/ /\ bytes # 0 /\ DOMAIN live \subseteq DOMAIN live'
     /\ \E q : /\ HandedOut(A, q, bytes)
               /\ \A w \in q .. q + bytes \div 4 - 1 : heap'.array[w] = v

LEMMA Step ==
  ASSUME NEW B, NEW A, Good(heap, B, A, live), Next
  PROVE /\ kernel' = kernel
        /\ \/ \E bytes \in Requests : \E v \in Stamps : MallocStep(A, bytes, v)
           \/ result' = result /\ \E p : GivenBack(p)
           \/ \E p \in DOMAIN live : \E bytes \in Requests : \E v \in Stamps : ReallocStep(B, A, p, bytes, v)
<1>1. ASSUME NEW bytes \in Requests, NEW v \in Stamps, Malloc(bytes, v) \/ UserMalloc(bytes, v)
      PROVE kernel' = kernel /\ MallocStep(A, bytes, v)
  <2>1. kernel' = kernel /\ (Allocate(bytes, v, Panic) \/ Allocate(bytes, v, Null))
    BY <1>1 DEF Malloc, UserMalloc
  <2>2. ASSUME NEW none \in {Null, Panic}, Allocate(bytes, v, none) PROVE MallocStep(A, bytes, v)
    <3>1. \/ bytes = 0 /\ result' = Base /\ UNCHANGED <<array, avail, live>>
          \/ /\ bytes # 0 /\ result' = none /\ UNCHANGED <<array, avail, live>>
             /\ \A a \in A : Size(heap, a) < Ints(bytes)
          \/ /\ bytes # 0 /\ DOMAIN live \subseteq DOMAIN live'
             /\ \E q : /\ HandedOut(A, q, bytes)
                       /\ \A w \in q .. q + bytes \div 4 - 1 : heap'.array[w] = v
      BY <2>2, AllocateStep
    <3> QED
      BY <3>1 DEF MallocStep
  <2> QED
    BY <2>1, <2>2
<1>2. ASSUME NEW p, Free(p) \/ UserFree(p)
      PROVE kernel' = kernel /\ result' = result /\ GivenBack(p)
  <2>1. /\ p \in DOMAIN live \cup {Null, Base} \cup {i + 1 : i \in {avail} \ {0}}
        /\ Release(p) /\ kernel' = kernel
    BY <1>2 DEF Free, UserFree, Release
  <2> QED
    BY <2>1, ReleaseStep
<1>3. ASSUME NEW p \in DOMAIN live, NEW bytes \in Requests, NEW v \in Stamps, Realloc(p, bytes, v)
      PROVE kernel' = kernel /\ ReallocStep(B, A, p, bytes, v)
  <2>1. kernel' = kernel
    BY <1>3 DEF Realloc
  <2> QED
    BY <1>3, <2>1, Reallocated
<1> QED
  BY <1>1, <1>2, <1>3 DEF Next

LEMMA InitHolds == Init => HeapInv
<1> SUFFICES ASSUME Init PROVE HeapInv
  OBVIOUS
<1>1. DOMAIN live = {} /\ kernel \in BOOLEAN /\ result = Null
  BY DEF Init
<1>2. Initial \in Heaps /\ Good(Initial, {0, 2, len - 2}, {2}, live)
  BY <1>1, InitialGood
<1>3. heap = Initial
  BY <1>2 DEF Init, heap, Heaps
<1>4. \E B : \E A : Good(heap, B, A, live)
  BY <1>2, <1>3
<1> QED
  BY <1>1, <1>4 DEF HeapInv

LEMMA NextHolds == HeapInv /\ [Next]_vars => HeapInv'
<1> SUFFICES ASSUME HeapInv, [Next]_vars PROVE HeapInv'
  OBVIOUS
<1>1. kernel \in BOOLEAN /\ result \in {Null, Panic} \cup 0 .. len - 1
  BY DEF HeapInv
<1>2. PICK B : \E A : Good(heap, B, A, live)
  BY DEF HeapInv
<1>3. PICK A : Good(heap, B, A, live)
  BY <1>2
<1>4. CASE UNCHANGED vars
  BY <1>4 DEF HeapInv, vars, heap
<1>5. CASE Next
  <2>1. kernel' = kernel
    BY <1>3, <1>5, Step
  <2>2. result' \in {Null, Panic} \cup 0 .. len - 1 /\ \E C : \E D : Good(heap', C, D, live')
    <3>1. ASSUME NEW bytes \in Requests, NEW v \in Stamps, MallocStep(A, bytes, v)
          PROVE result' \in {Null, Panic} \cup 0 .. len - 1 /\ \E C : \E D : Good(heap', C, D, live')
      <4>1. CASE UNCHANGED <<array, avail, live>>
        <5>1. heap' = heap /\ live' = live
          BY <4>1 DEF heap
        <5>2. result' \in {Null, Panic, Base} \/ \E q : HandedOut(A, q, bytes)
          BY <3>1 DEF MallocStep
        <5>3. result' \in {Null, Panic} \cup 0 .. len - 1
          BY <5>2, HeapAssumption DEF HandedOut, Words, Base
        <5> QED
          BY <1>3, <5>1, <5>3
      <4>2. CASE \E q : HandedOut(A, q, bytes)
        BY <4>2 DEF HandedOut, Words
      <4> QED
        BY <3>1, <4>1, <4>2 DEF MallocStep
    <3>2. ASSUME NEW p, GivenBack(p), result' = result
          PROVE result' \in {Null, Panic} \cup 0 .. len - 1 /\ \E C : \E D : Good(heap', C, D, live')
      BY <1>1, <3>2 DEF GivenBack
    <3>3. ASSUME NEW p \in DOMAIN live, NEW bytes \in Requests, NEW v \in Stamps, ReallocStep(B, A, p, bytes, v)
          PROVE result' \in {Null, Panic} \cup 0 .. len - 1 /\ \E C : \E D : Good(heap', C, D, live')
      <4>1. (GivenBack(p) /\ result' = Null) \/ \E q : HandedOut(A, q, bytes)
        BY <3>3 DEF ReallocStep
      <4> QED
        BY <4>1 DEF GivenBack, HandedOut, Words
    <3> QED
      BY <1>3, <1>5, <3>1, <3>2, <3>3, Step
  <2> QED
    BY <1>1, <2>1, <2>2 DEF HeapInv
<1> QED
  BY <1>4, <1>5

LEMMA InvGives == HeapInv => TypeOK /\ BlocksTile /\ ListExact
<1> SUFFICES ASSUME HeapInv PROVE TypeOK /\ BlocksTile /\ ListExact
  OBVIOUS
<1>1. PICK B : \E A : Good(heap, B, A, live)
  BY DEF HeapInv
<1>2. PICK A : Good(heap, B, A, live)
  BY <1>1
<1>3. BlocksTile /\ ListExact
  BY <1>2, GoodGives
<1>4. heap \in Heaps /\ DOMAIN live \subseteq Words /\ \A p \in DOMAIN live : live[p] \in Requests
  BY <1>2 DEF Good, Inter
<1>5. array \in [Words -> Values] /\ avail \in Words
  BY <1>4 DEF Heaps, heap
<1>6. TypeOK
  BY <1>4, <1>5 DEF TypeOK, HeapInv, Words, Values
<1> QED
  BY <1>3, <1>6

LEMMA Holds == Spec => []HeapInv
BY InitHolds, NextHolds, PTL DEF Spec

\* Words, pointers and results stay what they are.
THEOREM TypeCorrect == Spec => []TypeOK
BY Holds, InvGives, PTL

\* The blocks fill the heap between its ends, whose tags agree from either side, and no
\* two available ones are neighbours, whatever is asked for, given back and moved
\* (malloc, free and realloc in heap.cc and user/heap.c).
THEOREM BlocksFillTheHeap == Spec => []BlocksTile
BY Holds, InvGives, PTL

\* The list has exactly the available blocks, linked both ways, so that remove may take
\* any out (heap.cc:87-101).
THEOREM ListHasTheAvailable == Spec => []ListExact
BY Holds, InvGives, PTL

----------------------------------------------------------------------------
(* The heap is an allocator.                                               *)

\* The block that Allocator sees for pointer p.
UsedBlock(h, L, p) ==
  [start |-> p - 1, size |-> Size(h, p - 1), data |-> [w \in 1 .. L[p] \div 4 |-> h.array[p + w - 1]]]

LEMMA InUseIs ==
  /\ InUse = {UsedBlock(heap, live, p) : p \in DOMAIN live}
  /\ InUse' = {UsedBlock(heap', live', p) : p \in DOMAIN live'}
BY DEF InUse, UsedBlock, heap

LEMMA UsedBlockIs ==
  ASSUME NEW h, NEW B, NEW A, NEW L, Good(h, B, A, L), NEW p \in DOMAIN L
  PROVE LET b == UsedBlock(h, L, p)
        IN /\ b.start = p - 1 /\ b.start \in Int /\ b.size = Size(h, p - 1) /\ b.size \in Nat
           /\ Abstract!Words(b) = p - 1 .. p - 1 + Size(h, p - 1) - 1
           /\ Len(b.data) = L[p] \div 4 /\ L[p] \div 4 \in Nat
           /\ b.data = [w \in 1 .. L[p] \div 4 |-> h.array[p + w - 1]]
<1> DEFINE n == L[p] \div 4
           d == [w \in 1 .. n |-> h.array[p + w - 1]]
           b == UsedBlock(h, L, p)
<1>1. n \in Nat /\ Size(h, p - 1) \in Nat /\ p \in Words
  BY PointerIs
<1> HIDE DEF n
<1>2. d \in Seq({h.array[w] : w \in Int}) /\ Len(d) = n
  <2>1. \A w \in 1 .. n : p + w - 1 \in Int
    BY <1>1 DEF Words
  <2> QED
    BY <1>1, <2>1
<1>3. b.start = p - 1 /\ b.size = Size(h, p - 1) /\ b.data = d
  BY DEF UsedBlock, n
<1> HIDE DEF d, b
<1> QED
  BY <1>1, <1>2, <1>3 DEF Abstract!Words, n, d, b, Words

\* A pointer that stays has the same block.
LEMMA SameBlock ==
  ASSUME NEW h, NEW B, NEW A, NEW L, Good(h, B, A, L), NEW p \in DOMAIN L,
         NEW g, NEW M, M[p] = L[p], Keeps(h, g, p)
  PROVE UsedBlock(g, M, p) = UsedBlock(h, L, p)
<1> DEFINE n == L[p] \div 4
<1>1. n \in Nat /\ Size(h, p - 1) \in Nat /\ p \in Int /\ Size(h, p - 1) >= n + 2
  BY PointerIs DEF Words
<1> HIDE DEF n
<1>2. \A w \in 1 .. n : g.array[p + w - 1] = h.array[p + w - 1]
  <2> SUFFICES ASSUME NEW w \in 1 .. n PROVE g.array[p + w - 1] = h.array[p + w - 1]
    OBVIOUS
  <2>1. p + w - 1 \in p - 1 .. p - 1 + Size(h, p - 1) - 1
    BY <1>1
  <2> QED
    BY <2>1 DEF Keeps
<1>3. [w \in 1 .. n |-> g.array[p + w - 1]] = [w \in 1 .. n |-> h.array[p + w - 1]]
  BY <1>2
<1>4. M[p] \div 4 = n /\ L[p] \div 4 = n /\ Size(g, p - 1) = Size(h, p - 1)
  BY DEF n, Keeps
<1> QED
  BY <1>3, <1>4 DEF UsedBlock

\* Different pointers have blocks that do not overlap.
LEMMA Disjoint ==
  ASSUME NEW h, NEW B, NEW A, NEW L, Good(h, B, A, L), NEW p \in DOMAIN L, NEW b \in B, b # p - 1,
         NEW w \in p - 1 .. p - 1 + Size(h, p - 1) - 1
  PROVE w < b \/ b + Size(h, b) <= w
<1> DEFINE c == p - 1
<1>1. c \in B \ A /\ Inter(h, B, A, len, len) /\ w \in c .. c + Size(h, c) - 1 /\ b # c
  BY PointerIs DEF Good
<1> HIDE DEF c
<1> QED
  BY <1>1, Undisturbed

\* A gap between the blocks in use is an available block, as no two are neighbours.
LEMMA NoGap ==
  ASSUME NEW B, NEW A, Good(heap, B, A, live), NEW n \in Nat, n >= 1, \A a \in A : Size(heap, a) < n
  PROVE ~Abstract!Gap(n)
<1> SUFFICES ASSUME Abstract!Gap(n) PROVE FALSE
  OBVIOUS
<1>1. /\ heap \in Heaps /\ Shape(heap, B, len, len) /\ A = {b \in B : heap.array[b] > 0}
      /\ Size(heap, 0) = 2 /\ Size(heap, len - 2) = 2
      /\ B \ A = {0, len - 2} \cup {p - 1 : p \in DOMAIN live}
      /\ \A a \in A : a + Size(heap, a) \notin A
      /\ len \in Nat /\ len >= 8
  BY HeapAssumption DEF Good, Inter
<1>2. PICK s \in 2 .. (len - 3) - n + 1 : \A b \in InUse : Abstract!Words(b) \cap s .. s + n - 1 = {}
  BY DEF Abstract!Gap
<1>3. s \in Int /\ s >= 2 /\ s + n - 1 <= len - 3 /\ s \in Words
  BY <1>1, <1>2 DEF Words
<1>4. \A p \in DOMAIN live : \A w \in s .. s + n - 1 : w \notin p - 1 .. p - 1 + Size(heap, p - 1) - 1
  <2> SUFFICES ASSUME NEW p \in DOMAIN live
               PROVE (p - 1 .. p - 1 + Size(heap, p - 1) - 1) \cap s .. s + n - 1 = {}
    OBVIOUS
  <2>1. UsedBlock(heap, live, p) \in InUse
    BY InUseIs
  <2>2. Abstract!Words(UsedBlock(heap, live, p)) = p - 1 .. p - 1 + Size(heap, p - 1) - 1
    BY DEF UsedBlock, Abstract!Words
  <2> QED
    BY <1>2, <2>1, <2>2
<1>5. \A b \in B : b \in Words /\ b \in Int /\ Size(heap, b) \in Nat /\ Size(heap, b) >= 2
  BY <1>1, SizeIs DEF Shape, Words
<1>6. \A w \in s .. s + n - 1 : \A b \in B : b <= w /\ w < b + Size(heap, b) => b \in A
  <2> SUFFICES ASSUME NEW w \in s .. s + n - 1, NEW b \in B, b <= w, w < b + Size(heap, b), b \notin A PROVE FALSE
    OBVIOUS
  <2>1. b # 0 /\ b # len - 2
    BY <1>1, <1>3
  <2>2. PICK p \in DOMAIN live : b = p - 1
    BY <1>1, <2>1
  <2>3. w \in b .. b + Size(heap, b) - 1
    BY <1>3, <1>5
  <2> QED
    BY <1>4, <2>2, <2>3
<1>7. PICK b \in B : b <= s /\ s < b + Size(heap, b)
  <2>1. ~(len <= s /\ s < len)
    BY <1>1, <1>3
  <2> QED
    BY <1>1, <1>3, <2>1 DEF Shape
<1>8. b \in A
  BY <1>3, <1>6, <1>7
<1> DEFINE e == b + Size(heap, b)
<1>9. e \in s .. s + n - 1 /\ e # len
  BY <1>3, <1>5, <1>7, <1>8
<1>10. e \in B
  BY <1>1, <1>9, Neighbours
<1>11. e \in A
  <2>1. e <= e /\ e < e + Size(heap, e)
    BY <1>5, <1>10
  <2> HIDE DEF e
  <2> QED
    BY <1>6, <1>9, <1>10, <2>1
<1> QED
  BY <1>1, <1>8, <1>11

\* A block that is handed out fits beside those in use.
LEMMA FitsBeside ==
  ASSUME NEW B, NEW A, Good(heap, B, A, live), NEW q, NEW bytes \in Requests, HandedOut(A, q, bytes)
  PROVE Abstract!Fits(UsedBlock(heap', live', q), bytes)
<1> DEFINE b == UsedBlock(heap', live', q)
<1>1. q \in DOMAIN live' /\ live'[q] = bytes /\ q - 1 \in A /\ Size(heap', q - 1) <= Size(heap, q - 1) /\ q \in Words
  BY DEF HandedOut
<1>2. PICK C : \E D : Good(heap', C, D, live')
  BY DEF HandedOut
<1>3. PICK D : Good(heap', C, D, live')
  BY <1>2
<1>4. /\ Size(heap', q - 1) \in Nat /\ Size(heap', q - 1) \in Ints(bytes) .. Ints(bytes) + 3
      /\ q - 1 + Size(heap', q - 1) <= len - 2 /\ q - 1 # 0 /\ q - 1 \in Words
  BY <1>1, <1>3, PointerIs
<1>5. b.start = q - 1 /\ b.size = Size(heap', q - 1) /\ Abstract!Words(b) = q - 1 .. q - 1 + Size(heap', q - 1) - 1
  BY DEF UsedBlock, Abstract!Words
<1> HIDE DEF b
<1>6. b.size \in Ints(bytes) .. Ints(bytes) + 3
  BY <1>4, <1>5
<1>7. q - 1 >= 2
  <2>1. q - 1 # 1
    <3>1. heap \in Heaps /\ Shape(heap, B, len, len) /\ 0 \in B /\ Size(heap, 0) = 2 /\ q - 1 \in B
      BY <1>1 DEF Good, Inter
    <3> QED
      BY <3>1 DEF Shape
  <2> QED
    BY <1>1, <1>4, <2>1, HeapAssumption DEF Words
<1>8. Abstract!Words(b) \subseteq 2 .. len - 3
  BY <1>1, <1>4, <1>5, <1>7, HeapAssumption DEF Words
<1>9. ASSUME NEW c \in InUse PROVE Abstract!Words(b) \cap Abstract!Words(c) = {}
  <2>1. PICK p \in DOMAIN live : c = UsedBlock(heap, live, p)
    BY InUseIs
  <2>2. Abstract!Words(c) = p - 1 .. p - 1 + Size(heap, p - 1) - 1
    BY <2>1 DEF UsedBlock, Abstract!Words
  <2> DEFINE x == q - 1
  <2>3. x \in B /\ x # p - 1 /\ x \in Int /\ Size(heap', x) \in Nat /\ Size(heap', x) <= Size(heap, x)
        /\ Abstract!Words(b) = x .. x + Size(heap', x) - 1 /\ Size(heap, x) \in Int
    <3>1. p - 1 \in B \ A /\ q - 1 \in B /\ heap \in Heaps
      BY <1>1, PointerIs DEF Good, Inter
    <3>2. Size(heap, q - 1) \in Int
      BY <1>4, <3>1, SizeIs
    <3> QED
      BY <1>1, <1>4, <1>5, <3>1, <3>2 DEF Words
  <2> HIDE DEF x
  <2>4. \A w \in p - 1 .. p - 1 + Size(heap, p - 1) - 1 : w < x \/ x + Size(heap, x) <= w
    BY <2>3, Disjoint
  <2>5. \A w \in Abstract!Words(b) : x <= w /\ w < x + Size(heap, x) /\ w \in Int
    BY <2>3
  <2> QED
    BY <2>2, <2>3, <2>4, <2>5
<1> QED
  BY <1>6, <1>8, <1>9 DEF Abstract!Fits, b

Shown == IF result = Panic THEN Null ELSE result

\* A malloc is a request, for nothing or with nothing to keep.
LEMMA MallocRequests ==
  ASSUME NEW B, NEW A, Good(heap, B, A, live), NEW bytes \in Requests, NEW v \in Stamps, MallocStep(A, bytes, v)
  PROVE \/ Shown' = 0 /\ InUse' = InUse
        \/ Abstract!Request({}, bytes, Abstract!Fill(<<>>, bytes, v))
<1>1. bytes \in Nat /\ bytes \div 4 \in Nat /\ Ints(bytes) \in Nat /\ Ints(bytes) >= 4
  BY IntsIs, HeapAssumption
<1>2. CASE bytes = 0 /\ result' = Base /\ UNCHANGED <<array, avail, live>>
  <2>1. Shown' = 0
    BY <1>2, HeapAssumption DEF Shown, Base
  <2>2. heap' = heap /\ live' = live
    BY <1>2 DEF heap
  <2> QED
    BY <2>1, <2>2, InUseIs
<1>3. CASE /\ bytes # 0 /\ result' \in {Null, Panic} /\ UNCHANGED <<array, avail, live>>
           /\ \A a \in A : Size(heap, a) < Ints(bytes)
  <2>1. Shown' = Null
    BY <1>3 DEF Shown
  <2>2. InUse' = InUse \ {}
    <3>1. heap' = heap /\ live' = live
      BY <1>3 DEF heap
    <3> QED
      BY <3>1, InUseIs
  <2>3. ~Abstract!Gap(Ints(bytes))
    BY <1>1, <1>3, NoGap
  <2> QED
    BY <2>1, <2>2, <2>3 DEF Abstract!Request, Shown
<1>4. CASE /\ bytes # 0 /\ DOMAIN live \subseteq DOMAIN live'
           /\ \E q : /\ HandedOut(A, q, bytes)
                     /\ \A w \in q .. q + bytes \div 4 - 1 : heap'.array[w] = v
  <2>1. PICK q : /\ HandedOut(A, q, bytes)
                 /\ \A w \in q .. q + bytes \div 4 - 1 : heap'.array[w] = v
    BY <1>4
  <2> DEFINE b == UsedBlock(heap', live', q)
  <2>2. q \in Int /\ result' = q /\ q \in DOMAIN live' /\ q \notin DOMAIN live /\ live'[q] = bytes
    BY <2>1 DEF HandedOut, Words
  <2>3. \A p \in DOMAIN live' : p # q => p \in DOMAIN live /\ UsedBlock(heap', live', p) = UsedBlock(heap, live, p)
    <3> SUFFICES ASSUME NEW p \in DOMAIN live', p # q
                 PROVE p \in DOMAIN live /\ UsedBlock(heap', live', p) = UsedBlock(heap, live, p)
      OBVIOUS
    <3>1. p \in DOMAIN live /\ live'[p] = live[p] /\ Keeps(heap, heap', p)
      BY <2>1 DEF HandedOut
    <3> QED
      BY <3>1, SameBlock
  <2>4. InUse' = (InUse \ {}) \cup {b}
    <3>1. {UsedBlock(heap', live', p) : p \in DOMAIN live'} = {UsedBlock(heap, live, p) : p \in DOMAIN live} \cup {b}
      <4> HIDE DEF b
      <4>1. b = UsedBlock(heap', live', q)
        BY DEF b
      <4> QED
        BY <1>4, <2>2, <2>3, <4>1
    <3> QED
      BY <3>1, InUseIs
  <2>5. b.data = Abstract!Fill(<<>>, bytes, v)
    <3> DEFINE n == bytes \div 4
    <3>1. b.data = [w \in 1 .. n |-> heap'.array[q + w - 1]]
      BY <2>2 DEF UsedBlock
    <3>2. Abstract!Fill(<<>>, bytes, v) = [w \in 1 .. n |-> IF w <= Len(<<>>) THEN <<>>[w] ELSE v]
      BY DEF Abstract!Fill
    <3>3. n \in Nat
      BY <1>1
    <3>4. \A w \in q .. q + n - 1 : heap'.array[w] = v
      BY <2>1
    <3> HIDE DEF n
    <3>5. \A w \in 1 .. n : heap'.array[q + w - 1] = v
      <4> SUFFICES ASSUME NEW w \in 1 .. n PROVE heap'.array[q + w - 1] = v
        OBVIOUS
      <4>1. q + w - 1 \in q .. q + n - 1
        BY <2>2, <3>3
      <4> QED
        BY <3>4, <4>1
    <3>6. \A w \in 1 .. n : ~(w <= Len(<<>>))
      BY <3>3
    <3> QED
      BY <3>1, <3>2, <3>5, <3>6
  <2>6. Abstract!Fits(b, bytes)
    BY <2>1, FitsBeside
  <2>7. Shown' = b.start + 1
    <3>1. b.start = q - 1
      BY DEF UsedBlock
    <3> HIDE DEF b
    <3> QED
      BY <2>2, <3>1, HeapAssumption DEF Shown
  <2>8. b \in InUse'
    BY <2>4
  <2> QED
    BY <2>4, <2>5, <2>6, <2>7, <2>8 DEF Abstract!Request, Shown
<1> QED
  BY <1>2, <1>3, <1>4 DEF MallocStep

\* A block that is given back is gone, with no other changed.
LEMMA BlockGone ==
  ASSUME NEW B, NEW A, Good(heap, B, A, live), NEW p, GivenBack(p)
  PROVE /\ p \in DOMAIN live => InUse' = InUse \ {UsedBlock(heap, live, p)}
        /\ p \notin DOMAIN live => InUse' = InUse
<1>1. DOMAIN live' = DOMAIN live \ {p}
  BY DEF GivenBack
<1>2. \A q \in DOMAIN live' : UsedBlock(heap', live', q) = UsedBlock(heap, live, q)
  <2> SUFFICES ASSUME NEW q \in DOMAIN live' PROVE UsedBlock(heap', live', q) = UsedBlock(heap, live, q)
    OBVIOUS
  <2>1. q \in DOMAIN live /\ live'[q] = live[q] /\ Keeps(heap, heap', q)
    BY DEF GivenBack
  <2> QED
    BY <2>1, SameBlock
<1>3. \A q, r \in DOMAIN live : UsedBlock(heap, live, q) = UsedBlock(heap, live, r) => q = r
  <2> SUFFICES ASSUME NEW q \in DOMAIN live, NEW r \in DOMAIN live,
                      UsedBlock(heap, live, q) = UsedBlock(heap, live, r)
               PROVE q = r
    OBVIOUS
  <2>1. UsedBlock(heap, live, q).start = q - 1 /\ UsedBlock(heap, live, r).start = r - 1
    BY DEF UsedBlock
  <2>2. q \in Int /\ r \in Int
    BY PointerIs DEF Words
  <2> QED
    BY <2>1, <2>2
<1>4. {UsedBlock(heap', live', q) : q \in DOMAIN live'} = {UsedBlock(heap, live, q) : q \in DOMAIN live \ {p}}
  BY <1>1, <1>2
<1>5. p \in DOMAIN live => {UsedBlock(heap, live, q) : q \in DOMAIN live \ {p}}
                           = {UsedBlock(heap, live, q) : q \in DOMAIN live} \ {UsedBlock(heap, live, p)}
  BY <1>3
<1> QED
  BY <1>4, <1>5, InUseIs

\* A realloc is a request that gives the old block back, or a release of it.
LEMMA ReallocRequests ==
  ASSUME NEW B, NEW A, Good(heap, B, A, live), NEW p \in DOMAIN live, NEW bytes \in Requests, NEW v \in Stamps,
         ReallocStep(B, A, p, bytes, v)
  PROVE LET b == UsedBlock(heap, live, p)
        IN \/ InUse' = InUse \ {b} /\ Shown' = Null
           \/ Abstract!Request({b}, bytes, Abstract!Fill(b.data, bytes, v))
<1> DEFINE b == UsedBlock(heap, live, p)
<1>1. bytes \in Nat /\ bytes \div 4 \in Nat /\ Ints(bytes) \in Nat /\ Ints(bytes) >= 4
  BY IntsIs, HeapAssumption
<1>2. CASE GivenBack(p) /\ result' = Null
  <2>1. InUse' = InUse \ {b}
    BY <1>2, BlockGone
  <2>2. Shown' = Null
    BY <1>2, HeapAssumption DEF Shown, Null
  <2> QED
    BY <2>1, <2>2
<1>3. CASE /\ bytes # 0
           /\ \E q : /\ HandedOut(A, q, bytes) /\ DOMAIN live' = (DOMAIN live \ {p}) \cup {q}
                     /\ \A w \in q .. q + bytes \div 4 - 1 :
                          heap'.array[w] = IF q + live[p] \div 4 <= w THEN v ELSE heap.array[p + w - q]
  <2>1. PICK q : /\ HandedOut(A, q, bytes) /\ DOMAIN live' = (DOMAIN live \ {p}) \cup {q}
                 /\ \A w \in q .. q + bytes \div 4 - 1 :
                      heap'.array[w] = IF q + live[p] \div 4 <= w THEN v ELSE heap.array[p + w - q]
    BY <1>3
  <2> DEFINE c == UsedBlock(heap', live', q)
  <2>2. q \in Int /\ result' = q /\ q \in DOMAIN live' /\ q \notin DOMAIN live /\ live'[q] = bytes
    BY <2>1 DEF HandedOut, Words
  <2>3. \A r \in DOMAIN live' : r # q => r \in DOMAIN live \ {p} /\ UsedBlock(heap', live', r) = UsedBlock(heap, live, r)
    <3> SUFFICES ASSUME NEW r \in DOMAIN live', r # q
                 PROVE r \in DOMAIN live \ {p} /\ UsedBlock(heap', live', r) = UsedBlock(heap, live, r)
      OBVIOUS
    <3>1. r \in DOMAIN live \ {p} /\ live'[r] = live[r] /\ Keeps(heap, heap', r)
      BY <2>1 DEF HandedOut
    <3> QED
      BY <3>1, SameBlock
  <2>4. \A r \in DOMAIN live : UsedBlock(heap, live, r) = b => r = p
    <3> SUFFICES ASSUME NEW r \in DOMAIN live, UsedBlock(heap, live, r) = UsedBlock(heap, live, p) PROVE r = p
      OBVIOUS
    <3>1. UsedBlock(heap, live, r).start = r - 1 /\ UsedBlock(heap, live, p).start = p - 1
      BY DEF UsedBlock
    <3>2. r \in Int /\ p \in Int
      BY PointerIs DEF Words
    <3> QED
      BY <3>1, <3>2
  <2>5. InUse' = (InUse \ {b}) \cup {c}
    <3> HIDE DEF b, c
    <3>1. b = UsedBlock(heap, live, p) /\ c = UsedBlock(heap', live', q)
      BY DEF b, c
    <3>2. {UsedBlock(heap', live', r) : r \in DOMAIN live'}
          = ({UsedBlock(heap, live, r) : r \in DOMAIN live} \ {b}) \cup {c}
      BY <2>1, <2>2, <2>3, <2>4, <3>1
    <3> QED
      BY <3>2, InUseIs
  <2>6. c.data = Abstract!Fill(b.data, bytes, v)
    <3> DEFINE n == bytes \div 4
               m == live[p] \div 4
    <3>1. c.data = [w \in 1 .. n |-> heap'.array[q + w - 1]]
      BY <2>2 DEF UsedBlock
    <3>2. Len(b.data) = m /\ b.data = [w \in 1 .. m |-> heap.array[p + w - 1]] /\ m \in Nat /\ p \in Int
      <4>1. p \in Words
        BY PointerIs
      <4> QED
        BY <4>1, UsedBlockIs DEF Words
    <3>3. Abstract!Fill(b.data, bytes, v) = [w \in 1 .. n |-> IF w <= Len(b.data) THEN b.data[w] ELSE v]
      BY DEF Abstract!Fill
    <3>4. n \in Nat /\ \A w \in q .. q + n - 1 : heap'.array[w] = IF q + m <= w THEN v ELSE heap.array[p + w - q]
      BY <1>1, <2>1
    <3> HIDE DEF b, c, n, m
    <3>5. ASSUME NEW w \in 1 .. n
          PROVE heap'.array[q + w - 1] = IF w <= Len(b.data) THEN b.data[w] ELSE v
      <4>1. q + w - 1 \in q .. q + n - 1 /\ p + (q + w - 1) - q = p + w - 1 /\ (q + m <= q + w - 1 <=> ~(w <= m))
        BY <2>2, <3>2, <3>4
      <4>2. w <= m => b.data[w] = heap.array[p + w - 1]
        BY <3>2
      <4> QED
        BY <3>2, <3>4, <4>1, <4>2
    <3> QED
      BY <3>1, <3>3, <3>5
  <2>7. Abstract!Fits(c, bytes)
    BY <2>1, FitsBeside
  <2>8. Shown' = c.start + 1
    <3>1. c.start = q - 1
      BY DEF UsedBlock
    <3> HIDE DEF c
    <3> QED
      BY <2>2, <3>1, HeapAssumption DEF Shown
  <2>9. c \in InUse'
    BY <2>5
  <2> QED
    BY <2>5, <2>6, <2>7, <2>8, <2>9 DEF Abstract!Request, Shown
<1> QED
  BY <1>2, <1>3 DEF ReallocStep

LEMMA AllocatorInitHolds == Init => Abstract!AllocatorInit
<1> SUFFICES ASSUME Init PROVE Abstract!AllocatorInit
  OBVIOUS
<1>1. DOMAIN live = {} /\ result = Null
  BY DEF Init
<1>2. InUse = {}
  BY <1>1, InUseIs
<1> QED
  BY <1>1, <1>2 DEF Abstract!AllocatorInit

LEMMA AllocatorNextHolds ==
  HeapInv /\ [Next]_vars => [Abstract!AllocatorNext]_<<InUse, IF result = Panic THEN Null ELSE result>>
<1> SUFFICES ASSUME HeapInv, [Next]_vars
             PROVE  [Abstract!AllocatorNext]_<<InUse, Shown>>
  BY DEF Shown
<1>1. PICK B : \E A : Good(heap, B, A, live)
  BY DEF HeapInv
<1>2. PICK A : Good(heap, B, A, live)
  BY <1>1
<1>3. CASE UNCHANGED vars
  <2>1. heap' = heap /\ live' = live /\ result' = result
    BY <1>3 DEF vars, heap
  <2> QED
    BY <2>1, InUseIs DEF Shown
<1>4. CASE Next
  <2>1. ASSUME NEW bytes \in Requests, NEW v \in Stamps, MallocStep(A, bytes, v)
        PROVE Abstract!AllocatorNext
    <3>1. \/ Shown' = 0 /\ InUse' = InUse
          \/ Abstract!Request({}, bytes, Abstract!Fill(<<>>, bytes, v))
      BY <1>2, <2>1, MallocRequests
    <3> QED
      BY <3>1 DEF Abstract!AllocatorNext, Shown
  <2>2. ASSUME NEW p, GivenBack(p), result' = result
        PROVE Abstract!AllocatorNext \/ UNCHANGED <<InUse, Shown>>
    <3>1. Shown' = Shown
      BY <2>2 DEF Shown
    <3>2. CASE p \in DOMAIN live
      <4>1. UsedBlock(heap, live, p) \in InUse /\ InUse' = InUse \ {UsedBlock(heap, live, p)}
        BY <1>2, <2>2, <3>2, BlockGone, InUseIs
      <4>2. Abstract!Release(UsedBlock(heap, live, p))
        BY <3>1, <4>1 DEF Abstract!Release, Shown
      <4> QED
        BY <4>1, <4>2 DEF Abstract!AllocatorNext
    <3>3. CASE p \notin DOMAIN live
      BY <1>2, <2>2, <3>1, <3>3, BlockGone
    <3> QED
      BY <3>2, <3>3
  <2>3. ASSUME NEW p \in DOMAIN live, NEW bytes \in Requests, NEW v \in Stamps, ReallocStep(B, A, p, bytes, v)
        PROVE Abstract!AllocatorNext
    <3> DEFINE b == UsedBlock(heap, live, p)
    <3>1. \/ InUse' = InUse \ {b} /\ Shown' = Null
          \/ Abstract!Request({b}, bytes, Abstract!Fill(b.data, bytes, v))
      BY <1>2, <2>3, ReallocRequests
    <3>2. b \in InUse
      BY InUseIs
    <3> HIDE DEF b
    <3>3. CASE InUse' = InUse \ {b} /\ Shown' = Null
      BY <3>2, <3>3 DEF Abstract!AllocatorNext, Abstract!Release, Shown
    <3>4. CASE Abstract!Request({b}, bytes, Abstract!Fill(b.data, bytes, v))
      BY <3>2, <3>4 DEF Abstract!AllocatorNext
    <3> QED
      BY <3>1, <3>3, <3>4
  <2> QED
    BY <1>2, <1>4, <2>1, <2>2, <2>3, Step
<1> QED
  BY <1>3, <1>4

\* The heap does what Allocator promises: blocks in use do not overlap and keep what was
\* written to them, also when realloc moves it, and malloc refuses only what no gap
\* between them has room for (heap.cc, user/heap.c).
THEOREM DoesWhatAllocatorPromises == Spec => IsAllocator
<1>1. Init => Abstract!AllocatorInit
  BY AllocatorInitHolds
<1>2. HeapInv /\ [Next]_vars => [Abstract!AllocatorNext]_<<InUse, IF result = Panic THEN Null ELSE result>>
  BY AllocatorNextHolds
<1> QED
  BY <1>1, <1>2, Holds, PTL DEF Spec, IsAllocator, Abstract!AllocatorSpec
=============================================================================
