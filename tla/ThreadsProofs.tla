--------------------------- MODULE ThreadsProofs ---------------------------
(***************************************************************************)
(* What holds of the memory, the life of threads, the registry and the     *)
(* messages for any size of the memory and of the pool, any static threads *)
(* and any callers: MemoryWhole, ReferenceKeepsThread and                  *)
(* RegistryHoldsActive, where Races is empty.                              *)
(*                                                                         *)
(* They follow from Inv, which each step keeps.  Its part on the heap says *)
(* that the free and the used blocks cover the memory given out by the     *)
(* core and none overlaps another (Tiles), that the free list is in the    *)
(* order of the addresses, and that no two neighbours in it touch.  Its    *)
(* part on threads says that p_refs counts the references held, that the   *)
(* links of the registry join the threads which stay in it in a ring, one  *)
(* of them half cut out at most, that a thread is in the registry, in the  *)
(* hand of its maker, or on its way to be freed by one caller alone, and   *)
(* that the memory given out is that of these threads.                     *)
(***************************************************************************)
EXTENDS Threads, SequenceTheorems, FiniteSetTheorems, WellFoundedInduction, TLAPS

-----------------------------------------------------------------------------
(***************************************************************************)
(* The heap.                                                               *)
(***************************************************************************)
Cells == [at : 0..CoreSize - 1, size : 0..CoreSize - 1]

Apart(b, c) == Limit(b) <= c.at \/ Limit(c) <= b.at

\* The list s is in the order of the addresses.
Ordered(s) == \A i, j \in 1..Len(s) : i < j => Limit(s[i]) <= s[j].at

Holds(s, U, u) == (\E i \in 1..Len(s) : u \in Units(s[i])) \/ \E b \in U : u \in Units(b)

\* The blocks of the list s and of the set U are the n first units of memory.
Tiles(s, U, n) ==
    /\ s \in Seq(Cells) /\ U \subseteq Cells /\ n \in 0..CoreSize
    /\ \A i \in 1..Len(s) : Limit(s[i]) <= n
    /\ \A b \in U : Limit(b) <= n
    /\ Ordered(s)
    /\ \A i \in 1..Len(s), b \in U : Apart(s[i], b)
    /\ \A b, c \in U : b # c => Apart(b, c)
    /\ \A u \in 0..n - 1 : Holds(s, U, u)

\* Blocks k and k + 1 of the list touch.
Touch(s, k) == k \in 1..Len(s) - 1 /\ Limit(s[k]) = s[k + 1].at

LEMMA CellFacts ==
    ASSUME NEW b \in Cells
    PROVE  /\ b.at \in Nat /\ b.size \in Nat
           /\ Limit(b) \in Nat /\ b.at < Limit(b) /\ Limit(b) = b.at + 1 + b.size
           /\ \A u \in Int : u \in Units(b) <=> b.at <= u /\ u < Limit(b)
           /\ b.at \in Units(b)
           /\ \A u \in Units(b) : u \in Int
           /\ b = Block(b.at, b.size)
BY HeapAssumption DEF Cells, Limit, Units, Block

LEMMA NewCell ==
    ASSUME NEW a \in Nat, NEW m \in Nat, NEW n \in 0..CoreSize, a + 1 + m <= n
    PROVE  /\ Block(a, m) \in Cells
           /\ Block(a, m).at = a /\ Block(a, m).size = m /\ Limit(Block(a, m)) = a + 1 + m
BY HeapAssumption DEF Cells, Limit, Block

LEMMA ApartMeans ==
    ASSUME NEW b \in Cells, NEW c \in Cells
    PROVE  Apart(b, c) <=> Units(b) \cap Units(c) = {}
<1> USE CellFacts
<1>1. ASSUME Apart(b, c), NEW u \in Units(b) \cap Units(c) PROVE FALSE
  BY <1>1 DEF Apart
<1>2. CASE b.at <= c.at
  <2>1. ASSUME Units(b) \cap Units(c) = {} PROVE Limit(b) <= c.at
    <3>1. c.at \notin Units(b)
      BY <2>1
    <3> QED
      BY <1>2, <3>1
  <2> QED
    BY <1>1, <2>1 DEF Apart
<1>3. CASE c.at <= b.at
  <2>1. ASSUME Units(b) \cap Units(c) = {} PROVE Limit(c) <= b.at
    <3>1. b.at \notin Units(c)
      BY <2>1
    <3> QED
      BY <1>3, <3>1
  <2> QED
    BY <1>1, <2>1 DEF Apart
<1> QED
  BY <1>2, <1>3

\* In r, the list m stands for what s has between position a and position c.
Spliced(s, m, a, c, r) ==
    /\ Len(r) = a + Len(m) + (Len(s) - c + 1)
    /\ \A j \in 1..Len(r) :
         r[j] = IF j <= a THEN s[j]
                ELSE IF j <= a + Len(m) THEN m[j - a]
                ELSE s[j - a - Len(m) + c - 1]

\* A part of a list is replaced: what InsertAt, Merged and FindBlock do.
LEMMA Splice ==
    ASSUME NEW S, NEW s \in Seq(S), NEW m \in Seq(S),
           NEW a \in 0..Len(s), NEW c \in a + 1..Len(s) + 1,
           NEW r, r = SubSeq(s, 1, a) \o m \o SubSeq(s, c, Len(s))
    PROVE  r \in Seq(S) /\ Spliced(s, m, a, c, r)
<1> DEFINE f == SubSeq(s, 1, a)
           g == SubSeq(s, c, Len(s))
           k == a + Len(m)
<1>1. Len(s) \in Nat /\ Len(m) \in Nat /\ \A j \in 1..Len(s) : s[j] \in S
  BY ElementOfSeq, LenProperties
<1>2. /\ f \in Seq(S) /\ Len(f) = a
      /\ \A j \in 1..a : f[j] = s[j]
  <2>1. \A j \in 1..a : s[j] \in S
    BY <1>1
  <2>2. a \in Int /\ a - 1 + 1 = a /\ \A j \in 1..a : 1 + j - 1 = j
    BY <1>1
  <2> QED
    BY <2>1, <2>2, SubSeqProperties
<1>3. /\ g \in Seq(S) /\ Len(g) = Len(s) - c + 1
      /\ \A j \in 1..Len(s) - c + 1 : g[j] = s[c + j - 1]
  <2>1. \A j \in c..Len(s) : s[j] \in S
    BY <1>1
  <2> QED
    BY <1>1, <2>1, SubSeqProperties
<1> HIDE DEF f, g
<1>4. PICK h : h = f \o m
  OBVIOUS
<1>5. /\ h \in Seq(S) /\ Len(h) = k
      /\ \A j \in 1..k : h[j] = IF j <= a THEN s[j] ELSE m[j - a]
  <2>1. /\ f \o m \in Seq(S) /\ Len(f \o m) = Len(f) + Len(m)
        /\ \A j \in 1..Len(f) + Len(m) : (f \o m)[j] = IF j <= Len(f) THEN f[j] ELSE m[j - Len(f)]
    BY <1>2, ConcatProperties
  <2>2. /\ h \in Seq(S) /\ Len(h) = k
        /\ \A j \in 1..k : h[j] = IF j <= a THEN f[j] ELSE m[j - a]
    BY <1>2, <1>4, <2>1
  <2> QED
    BY <1>1, <1>2, <2>2
<1>6. /\ h \o g \in Seq(S) /\ Len(h \o g) = k + (Len(s) - c + 1)
      /\ \A j \in 1..k + (Len(s) - c + 1) : (h \o g)[j] = IF j <= k THEN h[j] ELSE g[j - k]
  <2>1. /\ h \o g \in Seq(S) /\ Len(h \o g) = Len(h) + Len(g)
        /\ \A j \in 1..Len(h) + Len(g) : (h \o g)[j] = IF j <= Len(h) THEN h[j] ELSE g[j - Len(h)]
    BY <1>3, <1>5, ConcatProperties
  <2> QED
    BY <1>3, <1>5, <2>1
<1>7. \A j \in 1..k + (Len(s) - c + 1) :
        (h \o g)[j] = IF j <= a THEN s[j]
                     ELSE IF j <= k THEN m[j - a]
                     ELSE s[j - a - Len(m) + c - 1]
  <2> TAKE j \in 1..k + (Len(s) - c + 1)
  <2>1. CASE j <= k
    BY <1>1, <1>5, <1>6, <2>1
  <2>2. CASE j > k
    <3>1. j - k \in 1..Len(s) - c + 1 /\ c + (j - k) - 1 = j - a - Len(m) + c - 1
      BY <1>1, <2>2
    <3> QED
      BY <1>1, <1>3, <1>6, <2>2, <3>1
  <2>3. j <= k \/ j > k
    BY <1>1
  <2> QED
    BY <2>1, <2>2, <2>3
<1> QED
  BY <1>4, <1>6, <1>7 DEF f, g, Spliced

\* A list without one of its blocks or with one more, or with one replaced.
Without(s, r, i) ==
    /\ Len(r) = Len(s) - 1
    /\ \A j \in 1..Len(r) : r[j] = s[IF j < i THEN j ELSE j + 1]

With(s, r, i, b) ==
    /\ Len(r) = Len(s) + 1
    /\ \A j \in 1..Len(r) : r[j] = IF j < i THEN s[j] ELSE IF j = i THEN b ELSE s[j - 1]

Changed(s, r, i, b) ==
    /\ Len(r) = Len(s)
    /\ \A j \in 1..Len(r) : r[j] = IF j = i THEN b ELSE s[j]

LEMMA InsertAtIs ==
    ASSUME NEW S, NEW s \in Seq(S), NEW i \in 1..Len(s) + 1, NEW b \in S
    PROVE  InsertAt(s, i, b) \in Seq(S) /\ With(s, InsertAt(s, i, b), i, b)
<1>1. PICK m : m = <<b>>
  OBVIOUS
<1>2. m \in Seq(S) /\ Len(m) = 1 /\ m[1] = b /\ Len(s) \in Nat
  BY <1>1, LenProperties
<1>3. PICK a \in 0..Len(s) : a = i - 1
  BY <1>2
<1>4. i \in a + 1..Len(s) + 1
  BY <1>2, <1>3
<1>r. PICK r : r = SubSeq(s, 1, a) \o m \o SubSeq(s, i, Len(s))
  OBVIOUS
<1>p. r \in Seq(S) /\ Spliced(s, m, a, i, r)
  BY <1>2, <1>4, <1>r, Splice, Zenon
<1>5. /\ Len(r) = a + Len(m) + (Len(s) - i + 1)
      /\ \A j \in 1..Len(r) : r[j] = IF j <= a THEN s[j]
                                     ELSE IF j <= a + Len(m) THEN m[j - a]
                                     ELSE s[j - a - Len(m) + i - 1]
  BY <1>p, Zenon DEF Spliced
<1>6. r = InsertAt(s, i, b)
  BY <1>1, <1>3, <1>r DEF InsertAt
<1>7. Len(r) = Len(s) + 1
  BY <1>2, <1>3, <1>5
<1>8. \A j \in 1..Len(r) : r[j] = IF j < i THEN s[j] ELSE IF j = i THEN b ELSE s[j - 1]
  <2> TAKE j \in 1..Len(r)
  <2>1. CASE j < i
    <3>1. j <= a
      BY <1>2, <1>3, <1>7, <2>1
    <3> QED
      BY <1>5, <2>1, <3>1
  <2>2. CASE j = i
    BY <1>2, <1>3, <1>5, <1>7, <2>2
  <2>3. CASE j > i
    BY <1>2, <1>3, <1>5, <1>7, <2>3
  <2> QED
    BY <1>2, <1>7, <2>1, <2>2, <2>3
<1> QED
  BY <1>p, <1>6, <1>7, <1>8 DEF With

\* A set of natural numbers that is not empty has a least element.
LEMMA LeastNumber ==
    ASSUME NEW S \in SUBSET Nat, S # {}
    PROVE  \E n \in S : \A k \in S : n <= k
<1>1. PICK n \in S : \A k \in S : ~ (<<k, n>> \in OpToRel(<, Nat))
  BY WFMin, NatLessThanWellFounded
<1>2. \A k \in S : ~ (k < n)
  BY <1>1 DEF OpToRel
<1> QED
  BY <1>2

\* The place of a block in the free list.
LEMMA PlaceByAddress ==
    ASSUME NEW s \in Seq(Cells), Ordered(s), NEW b \in Cells,
           NEW i, i = Cardinality({j \in DOMAIN s : s[j].at < b.at}) + 1
    PROVE  /\ i \in 1..Len(s) + 1
           /\ \A j \in 1..Len(s) : s[j].at < b.at <=> j < i
<1> DEFINE B == {j \in 1..Len(s) : s[j].at < b.at}
           T == {k \in Nat : k + 1 \notin B}
<1>1. Len(s) \in Nat /\ DOMAIN s = 1..Len(s) /\ \A j \in 1..Len(s) : s[j] \in Cells
  BY ElementOfSeq, LenProperties
<1>2. Len(s) \in T
  BY <1>1
<1>3. PICK m \in T : \A k \in T : m <= k
  BY <1>2, LeastNumber
<1>4. m \in Nat /\ m + 1 \notin B /\ m <= Len(s)
  BY <1>2, <1>3
<1>5. ASSUME NEW k \in 1..m PROVE k \in B
  <2>1. k - 1 \in Nat /\ ~ (m <= k - 1)
    BY <1>4
  <2>2. k - 1 \notin T
    BY <1>3, <2>1
  <2> QED
    BY <2>1, <2>2
<1>6. ASSUME NEW k \in B, k > m PROVE FALSE
  <2>1. k > m + 1 /\ m + 1 \in 1..Len(s) /\ k \in 1..Len(s)
    BY <1>1, <1>4, <1>6
  <2>2. Limit(s[m + 1]) <= s[k].at
    BY <2>1 DEF Ordered
  <2>3. s[m + 1].at < s[k].at
    BY <1>1, <2>1, <2>2, CellFacts
  <2>4. s[m + 1].at < b.at
    BY <1>1, <2>1, <2>3, CellFacts
  <2> QED
    BY <1>4, <2>1, <2>4
<1>7. B = 1..m
  BY <1>1, <1>4, <1>5, <1>6
<1>8. Cardinality(B) = m
  <2>1. 1 \in Int /\ m \in Int /\ (IF 1 > m THEN 0 ELSE m - 1 + 1) = m
    BY <1>4
  <2>2. Cardinality(1..m) = m
    BY <2>1, FS_Interval
  <2> QED
    BY <1>7, <2>2
<1>9. i = m + 1
  BY <1>1, <1>8
<1>10. \A j \in 1..Len(s) : s[j].at < b.at <=> j <= m
  BY <1>7
<1>11. m + 1 \in 1..Len(s) + 1 /\ \A j \in 1..Len(s) : j <= m <=> j < m + 1
  BY <1>1, <1>4
<1> QED
  BY <1>9, <1>10, <1>11, Zenon

LEMMA TilesType ==
    ASSUME NEW s, NEW U, NEW n, Tiles(s, U, n)
    PROVE  /\ s \in Seq(Cells) /\ Len(s) \in Nat /\ DOMAIN s = 1..Len(s)
           /\ U \subseteq Cells /\ n \in 0..CoreSize /\ n \in Nat
           /\ \A i \in 1..Len(s) : s[i] \in Cells /\ Limit(s[i]) <= n
           /\ \A b \in U : b \in Cells /\ Limit(b) <= n
BY ElementOfSeq, LenProperties, HeapAssumption DEF Tiles

\* A block is given back: it leaves the used ones for the free list.
LEMMA GivenBack ==
    ASSUME NEW s, NEW U, NEW n, Tiles(s, U, n), \A k \in 1..Len(s) : ~ Touch(s, k),
           NEW b \in U, NEW i \in 1..Len(s) + 1,
           \A j \in 1..Len(s) : s[j].at < b.at <=> j < i,
           NEW r \in Seq(Cells), With(s, r, i, b)
    PROVE  Tiles(r, U \ {b}, n) /\ \A k \in 1..Len(r) : Touch(r, k) => k \in {i - 1, i}
<1>1. /\ Len(s) \in Nat /\ n \in Nat /\ b \in Cells /\ Len(r) = Len(s) + 1
      /\ \A j \in 1..Len(s) : s[j] \in Cells /\ Limit(s[j]) <= n
      /\ \A c \in U : c \in Cells /\ Limit(c) <= n
  BY TilesType DEF With
<1>2. \A j \in 1..Len(r) : r[j] = IF j < i THEN s[j] ELSE IF j = i THEN b ELSE s[j - 1]
  BY DEF With
<1>3. \A j \in 1..Len(r) : \/ j < i /\ j \in 1..Len(s) /\ r[j] = s[j]
                           \/ j = i /\ r[j] = b
                           \/ j > i /\ j - 1 \in 1..Len(s) /\ r[j] = s[j - 1] /\ ~ (j - 1 < i)
  BY <1>1, <1>2
<1>4. \A j \in 1..Len(s) : IF j < i THEN Limit(s[j]) <= b.at ELSE Limit(b) <= s[j].at
  <2> TAKE j \in 1..Len(s)
  <2>1. Apart(s[j], b)
    BY DEF Tiles
  <2>2. s[j] \in Cells
    BY <1>1
  <2>3. /\ s[j].at \in Nat /\ b.at \in Nat /\ Limit(s[j]) \in Nat /\ Limit(b) \in Nat
        /\ s[j].at < Limit(s[j]) /\ b.at < Limit(b)
    BY <1>1, <2>2, CellFacts
  <2> QED
    BY <2>1, <2>3 DEF Apart
<1>5. Ordered(r)
  <2> SUFFICES ASSUME NEW j \in 1..Len(r), NEW k \in 1..Len(r), j < k
               PROVE  Limit(r[j]) <= r[k].at
    BY DEF Ordered
  <2>1. Ordered(s)
    BY DEF Tiles
  <2>2. CASE j < i /\ k < i
    BY <1>3, <2>1, <2>2 DEF Ordered
  <2>3. CASE j < i /\ k = i
    BY <1>3, <1>4, <2>3
  <2>4. CASE j < i /\ k > i
    <3>1. j \in 1..Len(s) /\ k - 1 \in 1..Len(s) /\ j < k - 1
      BY <1>3, <2>4
    <3>2. Limit(s[j]) <= s[k - 1].at
      BY <2>1, <3>1 DEF Ordered
    <3>3. r[j] = s[j] /\ r[k] = s[k - 1]
      BY <1>3, <2>4
    <3> QED
      BY <3>2, <3>3
  <2>5. CASE j = i /\ k > i
    BY <1>3, <1>4, <2>5
  <2>6. CASE j > i
    <3>1. j - 1 \in 1..Len(s) /\ k - 1 \in 1..Len(s) /\ j - 1 < k - 1 /\ k > i
      BY <1>3, <2>6
    <3>2. Limit(s[j - 1]) <= s[k - 1].at
      BY <2>1, <3>1 DEF Ordered
    <3> QED
      BY <1>3, <2>6, <3>1, <3>2
  <2> QED
    BY <2>2, <2>3, <2>4, <2>5, <2>6
<1>6. \A j \in 1..Len(r), c \in U \ {b} : Apart(r[j], c)
  BY <1>3 DEF Tiles
<1>7. \A u \in 0..n - 1 : Holds(r, U \ {b}, u)
  <2> TAKE u \in 0..n - 1
  <2>1. CASE \E j \in 1..Len(s) : u \in Units(s[j])
    <3>1. PICK j \in 1..Len(s) : u \in Units(s[j])
      BY <2>1
    <3>2. j \in 1..Len(r) /\ j + 1 \in 1..Len(r) /\ (r[j] = s[j] \/ r[j + 1] = s[j])
      BY <1>1, <1>2
    <3> QED
      BY <3>1, <3>2 DEF Holds
  <2>2. CASE \E c \in U : u \in Units(c)
    <3>1. i \in 1..Len(r) /\ r[i] = b
      BY <1>1, <1>2
    <3> QED
      BY <2>2, <3>1 DEF Holds
  <2> QED
    BY <2>1, <2>2 DEF Tiles, Holds
<1>8. \A j \in 1..Len(r) : Limit(r[j]) <= n
  BY <1>1, <1>3
<1>9. Tiles(r, U \ {b}, n)
  BY <1>5, <1>6, <1>7, <1>8 DEF Tiles
<1>10. ASSUME NEW k \in 1..Len(r), Touch(r, k) PROVE k \in {i - 1, i}
  <2>1. k \in 1..Len(r) - 1 /\ k + 1 \in 1..Len(r) /\ Limit(r[k]) = r[k + 1].at
    BY <1>1, <1>10 DEF Touch
  <2>2. CASE k < i - 1
    <3>1. k \in 1..Len(s) - 1 /\ r[k] = s[k] /\ r[k + 1] = s[k + 1]
      BY <1>1, <1>2, <2>1, <2>2
    <3> QED
      BY <1>1, <2>1, <3>1 DEF Touch
  <2>3. CASE k > i
    <3>1. /\ k - 1 \in 1..Len(s) - 1 /\ k - 1 \in 1..Len(s)
          /\ r[k] = s[k - 1] /\ r[k + 1] = s[(k - 1) + 1]
      BY <1>1, <1>2, <2>1, <2>3
    <3> QED
      BY <2>1, <3>1 DEF Touch
  <2> QED
    BY <2>1, <2>2, <2>3
<1> QED
  BY <1>9, <1>10

\* Two blocks that touch are made one.
LEMMA MergedOnce ==
    ASSUME NEW s, NEW U, NEW n, Tiles(s, U, n), NEW k, Touch(s, k)
    PROVE  /\ Tiles(Merged(s, k), U, n)
           /\ \A j : Touch(Merged(s, k), j) => (j < k /\ Touch(s, j)) \/ (j >= k /\ Touch(s, j + 1))
<1> DEFINE c == Block(s[k].at, s[k].size + s[k + 1].size + 1)
           At1(j) == IF j <= k THEN j ELSE j + 1
<1>1. /\ s \in Seq(Cells) /\ Len(s) \in Nat /\ n \in Nat /\ n \in 0..CoreSize
      /\ \A j \in 1..Len(s) : s[j] \in Cells /\ Limit(s[j]) <= n
      /\ \A b \in U : b \in Cells
  BY TilesType
<1>2. k \in 1..Len(s) /\ k + 1 \in 1..Len(s) /\ k \in 1..Len(s) - 1 /\ Limit(s[k]) = s[k + 1].at
  BY <1>1 DEF Touch
<1>3. c \in Cells /\ c.at = s[k].at /\ Limit(c) = Limit(s[k + 1])
  <2>1. /\ s[k].at \in Nat /\ s[k].size \in Nat /\ s[k + 1].size \in Nat
        /\ Limit(s[k + 1]) = s[k + 1].at + 1 + s[k + 1].size /\ Limit(s[k + 1]) <= n
        /\ Limit(s[k]) = s[k].at + 1 + s[k].size
    BY <1>1, <1>2, CellFacts
  <2>2. /\ s[k].size + s[k + 1].size + 1 \in Nat
        /\ s[k].at + 1 + (s[k].size + s[k + 1].size + 1) = Limit(s[k + 1])
    <3>1. Limit(s[k + 1]) = (s[k].at + 1 + s[k].size) + 1 + s[k + 1].size
      BY <1>2, <2>1
    <3> QED
      BY <2>1, <3>1
  <2> QED
    BY <1>1, <2>1, <2>2, NewCell
<1> HIDE DEF c
<1>4. PICK r : r = Merged(s, k)
  OBVIOUS
<1>5. /\ r \in Seq(Cells) /\ Len(r) = Len(s) - 1
      /\ \A j \in 1..Len(r) : r[j] = IF j < k THEN s[j] ELSE IF j = k THEN c ELSE s[j + 1]
  <2>1. PICK m : m = <<c>>
    OBVIOUS
  <2>2. m \in Seq(Cells) /\ Len(m) = 1 /\ m[1] = c
    BY <1>3, <2>1
  <2>3. PICK a \in 0..Len(s) : a = k - 1
    BY <1>1, <1>2
  <2>4. k + 2 \in a + 1..Len(s) + 1
    BY <1>1, <1>2, <2>3
  <2>5. r = SubSeq(s, 1, a) \o m \o SubSeq(s, k + 2, Len(s))
    BY <1>2, <1>4, <2>1, <2>3 DEF Merged, c
  <2>6. r \in Seq(Cells) /\ Spliced(s, m, a, k + 2, r)
    BY <1>1, <2>2, <2>4, <2>5, Splice, Zenon
  <2>7. /\ Len(r) = a + Len(m) + (Len(s) - (k + 2) + 1)
        /\ \A j \in 1..Len(r) : r[j] = IF j <= a THEN s[j]
                                       ELSE IF j <= a + Len(m) THEN m[j - a]
                                       ELSE s[j - a - Len(m) + (k + 2) - 1]
    BY <2>6, Zenon DEF Spliced
  <2>8. Len(r) = Len(s) - 1
    BY <1>1, <1>2, <2>2, <2>3, <2>7
  <2>9. ASSUME NEW j \in 1..Len(r)
        PROVE  r[j] = IF j < k THEN s[j] ELSE IF j = k THEN c ELSE s[j + 1]
    <3>1. CASE j < k
      <4>1. j <= a
        BY <1>1, <1>2, <2>3, <2>8, <3>1
      <4> QED
        BY <2>7, <3>1, <4>1
    <3>2. CASE j = k
      <4>1. ~ (j <= a) /\ j <= a + Len(m) /\ j - a = 1
        BY <1>2, <2>2, <2>3, <3>2
      <4> QED
        BY <2>2, <2>7, <3>2, <4>1
    <3>3. CASE j > k
      <4>1. ~ (j <= a) /\ ~ (j <= a + Len(m)) /\ j - a - Len(m) + (k + 2) - 1 = j + 1
        BY <1>1, <1>2, <2>2, <2>3, <2>8, <3>3
      <4>2. ~ (j < k) /\ j # k
        BY <1>1, <1>2, <2>8, <3>3
      <4> QED
        BY <2>7, <4>1, <4>2
    <3> QED
      BY <1>1, <1>2, <2>8, <3>1, <3>2, <3>3
  <2> QED
    BY <2>6, <2>8, <2>9
<1>6. \A j \in 1..Len(r) : /\ At1(j) \in 1..Len(s)
                           /\ j < k => r[j] = s[j] /\ j \in 1..Len(s)
                           /\ j = k => r[j] = c
                           /\ j > k => r[j] = s[j + 1] /\ j + 1 \in 1..Len(s)
  BY <1>1, <1>2, <1>5
<1>7. Ordered(s)
  BY DEF Tiles
<1>8. \A i, j \in 1..Len(s) : i < j => Limit(s[i]) <= s[j].at
  BY <1>7 DEF Ordered
<1>9. Ordered(r)
  <2> SUFFICES ASSUME NEW i \in 1..Len(r), NEW j \in 1..Len(r), i < j
               PROVE  Limit(r[i]) <= r[j].at
    BY DEF Ordered
  <2>1. CASE j < k
    <3>1. r[i] = s[i] /\ r[j] = s[j] /\ i \in 1..Len(s) /\ j \in 1..Len(s)
      BY <1>1, <1>2, <1>5, <1>6, <2>1
    <3> QED
      BY <1>8, <3>1
  <2>2. CASE j = k
    <3>1. r[i] = s[i] /\ i \in 1..Len(s) /\ r[j].at = s[k].at /\ i < k
      BY <1>3, <1>6, <2>2
    <3> QED
      BY <1>2, <1>8, <3>1
  <2>3. CASE j > k /\ i < k
    <3>1. r[i] = s[i] /\ i \in 1..Len(s) /\ r[j] = s[j + 1] /\ j + 1 \in 1..Len(s) /\ i < j + 1
      BY <1>6, <2>3
    <3> QED
      BY <1>8, <3>1
  <2>4. CASE i = k
    <3>1. Limit(r[i]) = Limit(s[k + 1]) /\ r[j] = s[j + 1] /\ j + 1 \in 1..Len(s) /\ k + 1 < j + 1
      BY <1>2, <1>3, <1>6, <2>4
    <3> QED
      BY <1>2, <1>8, <3>1
  <2>5. CASE i > k
    <3>1. /\ r[i] = s[i + 1] /\ i + 1 \in 1..Len(s) /\ r[j] = s[j + 1] /\ j + 1 \in 1..Len(s)
          /\ i + 1 < j + 1
      BY <1>2, <1>6, <2>5
    <3> QED
      BY <1>8, <3>1
  <2> QED
    BY <1>2, <2>1, <2>2, <2>3, <2>4, <2>5
<1>10. ASSUME NEW j \in 1..Len(r), NEW b \in U PROVE Apart(r[j], b)
  <2>1. \A i \in 1..Len(s) : Apart(s[i], b)
    BY DEF Tiles
  <2>2. CASE j = k
    <3>1. /\ s[k] \in Cells /\ s[k + 1] \in Cells /\ b \in Cells
          /\ Apart(s[k], b) /\ Apart(s[k + 1], b)
      BY <1>1, <1>2, <2>1
    <3>2. /\ s[k].at \in Nat /\ Limit(s[k]) \in Nat /\ Limit(s[k + 1]) \in Nat
          /\ b.at \in Nat /\ Limit(b) \in Nat
          /\ s[k].at < Limit(s[k]) /\ s[k + 1].at < Limit(s[k + 1]) /\ b.at < Limit(b)
      BY <3>1, CellFacts
    <3> QED
      BY <1>2, <1>3, <1>6, <2>2, <3>1, <3>2 DEF Apart
  <2>3. CASE j < k \/ j > k
    BY <1>6, <2>1, <2>3
  <2> QED
    BY <1>1, <1>2, <1>5, <2>2, <2>3
<1>11. ASSUME NEW u \in 0..n - 1 PROVE Holds(r, U, u)
  <2>1. ASSUME NEW i \in 1..Len(s), u \in Units(s[i]) PROVE \E j \in 1..Len(r) : u \in Units(r[j])
    <3>1. CASE i < k
      <4>1. i \in 1..Len(r) /\ r[i] = s[i]
        BY <1>1, <1>2, <1>5, <3>1
      <4> QED
        BY <2>1, <4>1
    <3>2. CASE i = k \/ i = k + 1
      <4>1. k \in 1..Len(r) /\ r[k] = c
        BY <1>1, <1>2, <1>5
      <4>2. /\ s[i].at <= u /\ u < Limit(s[i])
            /\ s[k].at < Limit(s[k]) /\ s[k + 1].at < Limit(s[k + 1])
            /\ s[k].at \in Nat /\ Limit(s[k + 1]) \in Nat /\ Limit(s[k]) \in Nat
        BY <1>1, <1>2, <2>1, CellFacts
      <4>3. c.at <= u /\ u < Limit(c)
        BY <1>2, <1>3, <3>2, <4>2
      <4>4. u \in Units(c)
        BY <1>3, <4>3, CellFacts
      <4> QED
        BY <4>1, <4>4
    <3>3. CASE i > k + 1
      <4>1. i - 1 \in 1..Len(r) /\ r[i - 1] = s[(i - 1) + 1] /\ (i - 1) + 1 = i
        BY <1>1, <1>2, <1>5, <3>3
      <4> QED
        BY <2>1, <4>1
    <3> QED
      BY <1>2, <3>1, <3>2, <3>3
  <2> QED
    BY <2>1 DEF Tiles, Holds
<1>12. \A j \in 1..Len(r) : Limit(r[j]) <= n
  BY <1>1, <1>2, <1>3, <1>6
<1>13. Tiles(r, U, n)
  BY <1>1, <1>5, <1>9, <1>10, <1>11, <1>12 DEF Tiles
<1>14. ASSUME NEW j, Touch(r, j) PROVE (j < k /\ Touch(s, j)) \/ (j >= k /\ Touch(s, j + 1))
  <2>1. j \in 1..Len(r) - 1 /\ j \in 1..Len(r) /\ j + 1 \in 1..Len(r) /\ Limit(r[j]) = r[j + 1].at
    BY <1>1, <1>5, <1>14 DEF Touch
  <2>2. CASE j < k
    <3>1. r[j] = s[j] /\ r[j + 1].at = s[j + 1].at /\ j \in 1..Len(s) - 1
      BY <1>1, <1>2, <1>3, <1>5, <2>1, <2>2
    <3> QED
      BY <2>1, <2>2, <3>1 DEF Touch
  <2>3. CASE j >= k
    <3>1. Limit(r[j]) = Limit(s[j + 1]) /\ r[j + 1] = s[(j + 1) + 1] /\ j + 1 \in 1..Len(s) - 1
      BY <1>1, <1>2, <1>3, <1>5, <2>1, <2>3
    <3> QED
      BY <2>1, <2>3, <3>1 DEF Touch
  <2> QED
    BY <1>2, <2>1, <2>2, <2>3
<1> QED
  BY <1>4, <1>13, <1>14

\* Merged, where no blocks after k touch.
LEMMA MergedAt ==
    ASSUME NEW s, NEW U, NEW n, Tiles(s, U, n), NEW k \in Int,
           \A j : Touch(s, j) => j <= k
    PROVE  /\ Tiles(Merged(s, k), U, n)
           /\ \A j : Touch(Merged(s, k), j) => j < k /\ Touch(s, j)
<1>1. Len(s) \in Nat
  BY TilesType
<1>2. CASE Touch(s, k)
  <2>1. \A j : Touch(Merged(s, k), j) => (j < k /\ Touch(s, j)) \/ (j >= k /\ Touch(s, j + 1))
    BY <1>2, MergedOnce
  <2>2. ASSUME NEW j, Touch(Merged(s, k), j) PROVE j < k /\ Touch(s, j)
    <3>1. ASSUME j >= k, Touch(s, j + 1) PROVE FALSE
      <4>1. Len(Merged(s, k)) \in Nat
        BY <1>2, MergedOnce, TilesType
      <4>2. j \in Int
        BY <2>2, <4>1 DEF Touch
      <4>3. j + 1 <= k
        BY <3>1
      <4> QED
        BY <3>1, <4>2, <4>3
    <3> QED
      BY <2>1, <2>2, <3>1
  <2> QED
    BY <1>2, <2>2, MergedOnce
<1>3. CASE ~ Touch(s, k)
  <2>1. Merged(s, k) = s
    BY <1>3 DEF Merged, Touch
  <2>2. ASSUME NEW j, Touch(s, j) PROVE j < k
    <3>1. j \in Int
      BY <1>1, <2>2 DEF Touch
    <3>2. j <= k /\ j # k
      BY <1>3, <2>2
    <3> QED
      BY <3>1, <3>2
  <2> QED
    BY <2>1, <2>2
<1> QED
  BY <1>2, <1>3

\* A free block is used, all of it or its first m units.
LEMMA AllTaken ==
    ASSUME NEW s, NEW U, NEW n, Tiles(s, U, n), \A k \in 1..Len(s) : ~ Touch(s, k),
           NEW i \in 1..Len(s), NEW r \in Seq(Cells), Without(s, r, i)
    PROVE  /\ Tiles(r, U \cup {s[i]}, n)
           /\ \A k \in 1..Len(r) : ~ Touch(r, k)
<1>1. /\ Len(s) \in Nat /\ n \in Nat /\ Len(r) = Len(s) - 1
      /\ \A j \in 1..Len(s) : s[j] \in Cells /\ Limit(s[j]) <= n
      /\ \A b \in U : b \in Cells /\ Limit(b) <= n
  BY TilesType DEF Without
<1>2. \A j \in 1..Len(r) : \/ j < i /\ j \in 1..Len(s) /\ r[j] = s[j]
                           \/ j >= i /\ j + 1 \in 1..Len(s) /\ r[j] = s[j + 1]
  BY <1>1 DEF Without
<1>3. \A j, k \in 1..Len(s) : j < k => Limit(s[j]) <= s[k].at
  BY DEF Tiles, Ordered
<1>4. Ordered(r)
  <2> SUFFICES ASSUME NEW j \in 1..Len(r), NEW k \in 1..Len(r), j < k
               PROVE  Limit(r[j]) <= r[k].at
    BY DEF Ordered
  <2>1. PICK a \in 1..Len(s) : r[j] = s[a] /\ ((j < i /\ a = j) \/ (j >= i /\ a = j + 1))
    BY <1>2
  <2>2. PICK b \in 1..Len(s) : r[k] = s[b] /\ ((k < i /\ b = k) \/ (k >= i /\ b = k + 1))
    BY <1>2
  <2>3. a < b
    BY <1>1, <2>1, <2>2
  <2> QED
    BY <1>3, <2>1, <2>2, <2>3
<1>5. \A j \in 1..Len(r), b \in U \cup {s[i]} : Apart(r[j], b)
  <2> TAKE j \in 1..Len(r), b \in U \cup {s[i]}
  <2>1. PICK a \in 1..Len(s) : r[j] = s[a] /\ ((j < i /\ a = j) \/ (j >= i /\ a = j + 1))
    BY <1>2
  <2>2. a < i \/ a > i
    BY <1>1, <2>1
  <2>3. Apart(s[a], s[i])
    BY <1>3, <2>2 DEF Apart
  <2> QED
    BY <2>1, <2>3 DEF Tiles
<1>6. \A b, c \in U \cup {s[i]} : b # c => Apart(b, c)
  BY DEF Tiles, Apart
<1>7. ASSUME NEW u \in 0..n - 1 PROVE Holds(r, U \cup {s[i]}, u)
  <2>1. ASSUME NEW a \in 1..Len(s), u \in Units(s[a]) PROVE Holds(r, U \cup {s[i]}, u)
    <3>1. CASE a = i
      BY <2>1, <3>1 DEF Holds
    <3>2. CASE a < i
      <4>1. a \in 1..Len(r) /\ r[a] = s[a]
        BY <1>1, <3>2 DEF Without
      <4> QED
        BY <2>1, <4>1 DEF Holds
    <3>3. CASE a > i
      <4>1. a - 1 \in 1..Len(r) /\ r[a - 1] = s[(a - 1) + 1] /\ (a - 1) + 1 = a
        BY <1>1, <3>3 DEF Without
      <4> QED
        BY <2>1, <4>1 DEF Holds
    <3> QED
      BY <3>1, <3>2, <3>3
  <2> QED
    BY <2>1 DEF Tiles, Holds
<1>8. \A j \in 1..Len(r) : Limit(r[j]) <= n
  BY <1>1, <1>2
<1>9. Tiles(r, U \cup {s[i]}, n)
  BY <1>1, <1>4, <1>5, <1>6, <1>7, <1>8 DEF Tiles
<1>10. ASSUME NEW k \in 1..Len(r), Touch(r, k) PROVE FALSE
  <2>1. k \in 1..Len(r) - 1 /\ k + 1 \in 1..Len(r) /\ Limit(r[k]) = r[k + 1].at
    BY <1>1, <1>10 DEF Touch
  <2>2. CASE k + 1 < i
    <3>1. r[k] = s[k] /\ r[k + 1] = s[k + 1] /\ k \in 1..Len(s) - 1 /\ k \in 1..Len(s)
      BY <1>1, <2>1, <2>2 DEF Without
    <3> QED
      BY <2>1, <3>1 DEF Touch
  <2>3. CASE k >= i
    <3>1. /\ r[k] = s[k + 1] /\ r[k + 1] = s[(k + 1) + 1]
          /\ k + 1 \in 1..Len(s) - 1 /\ k + 1 \in 1..Len(s)
      BY <1>1, <2>1, <2>3 DEF Without
    <3> QED
      BY <2>1, <3>1 DEF Touch
  <2>4. CASE k + 1 = i
    <3>1. /\ r[k] = s[k] /\ r[k + 1] = s[i + 1] /\ k \in 1..Len(s) /\ i + 1 \in 1..Len(s)
          /\ k < i /\ i < i + 1
      BY <1>1, <2>1, <2>4 DEF Without
    <3>2. Limit(s[k]) <= s[i].at /\ s[i].at < Limit(s[i]) /\ Limit(s[i]) <= s[i + 1].at
      BY <1>1, <1>3, <3>1, CellFacts
    <3>3. Limit(s[k]) \in Nat /\ s[i].at \in Nat /\ Limit(s[i]) \in Nat /\ s[i + 1].at \in Nat
      BY <1>1, <3>1, CellFacts
    <3> QED
      BY <2>1, <3>1, <3>2, <3>3
  <2> QED
    BY <1>1, <2>1, <2>2, <2>3, <2>4
<1> QED
  BY <1>9, <1>10

LEMMA PartTaken ==
    ASSUME NEW s, NEW U, NEW n, Tiles(s, U, n), \A k \in 1..Len(s) : ~ Touch(s, k),
           NEW i \in 1..Len(s), NEW m \in Nat, s[i].size >= m + 1,
           NEW f, f = Block(s[i].at, m),
           NEW g, g = Block(s[i].at + 1 + m, s[i].size - m - 1),
           NEW r \in Seq(Cells), Changed(s, r, i, g)
    PROVE  /\ Tiles(r, U \cup {f}, n)
           /\ \A k \in 1..Len(r) : ~ Touch(r, k)
<1>1. /\ Len(s) \in Nat /\ n \in Nat /\ n \in 0..CoreSize /\ Len(r) = Len(s)
      /\ \A j \in 1..Len(s) : s[j] \in Cells /\ Limit(s[j]) <= n
      /\ \A b \in U : b \in Cells /\ Limit(b) <= n
  BY TilesType DEF Changed
<1>2. \A j \in 1..Len(s) : r[j] = IF j = i THEN g ELSE s[j]
  BY <1>1 DEF Changed
<1>3. /\ s[i].at \in Nat /\ s[i].size \in Nat /\ Limit(s[i]) = s[i].at + 1 + s[i].size
      /\ Limit(s[i]) <= n
  BY <1>1, CellFacts
<1>4. f \in Cells /\ f.at = s[i].at /\ Limit(f) = s[i].at + 1 + m
  <2>1. s[i].at + 1 + m <= n
    BY <1>1, <1>3
  <2> QED
    BY <1>1, <1>3, <2>1, NewCell
<1>5. g \in Cells /\ g.at = Limit(f) /\ Limit(g) = Limit(s[i])
  <2>1. PICK a \in Nat : a = s[i].at + 1 + m
    BY <1>3
  <2>2. PICK z \in Nat : z = s[i].size - m - 1
    <3>1. s[i].size - m - 1 \in Nat
      BY <1>3
    <3> QED
      BY <3>1
  <2>3. a + 1 + z = Limit(s[i])
    <3>1. PICK p \in Nat, y \in Nat : p = s[i].at /\ y = s[i].size
      BY <1>3
    <3>2. a = p + 1 + m /\ z = y - m - 1 /\ Limit(s[i]) = p + 1 + y
      BY <1>3, <2>1, <2>2, <3>1, Zenon
    <3>3. a + 1 + z = p + 1 + y
      BY <3>2
    <3> QED
      BY <3>2, <3>3, Zenon
  <2>4. Block(a, z) \in Cells /\ Block(a, z).at = a /\ Limit(Block(a, z)) = a + 1 + z
    BY <1>1, <1>3, <2>3, NewCell
  <2> QED
    BY <1>4, <2>1, <2>2, <2>3, <2>4
<1> HIDE DEF Block
<1>6. f.at < Limit(f) /\ g.at < Limit(g) /\ Limit(f) \in Nat /\ Limit(g) \in Nat
  BY <1>4, <1>5, CellFacts
<1>7. \A j, k \in 1..Len(s) : j < k => Limit(s[j]) <= s[k].at
  BY DEF Tiles, Ordered
<1>0. ASSUME NEW j \in 1..Len(s)
      PROVE  /\ Limit(r[j]) = Limit(s[j]) /\ s[j].at <= r[j].at
             /\ Limit(s[j]) \in Nat /\ s[j].at \in Nat /\ r[j].at \in Nat
  <2>1. CASE j = i
    <3>1. s[j].at \in Nat /\ g.at \in Nat /\ s[j].at < g.at /\ r[j] = g
      BY <1>2, <1>3, <1>4, <1>5, <1>6, <2>1
    <3> QED
      BY <1>5, <1>6, <2>1, <3>1
  <2>2. CASE j # i
    <3>1. r[j] = s[j] /\ Limit(s[j]) \in Nat /\ s[j].at \in Nat
      BY <1>1, <1>2, <2>2, CellFacts
    <3> QED
      BY <3>1
  <2> QED
    BY <2>1, <2>2
<1>8. Ordered(r)
  <2> SUFFICES ASSUME NEW j \in 1..Len(s), NEW k \in 1..Len(s), j < k
               PROVE  Limit(r[j]) <= r[k].at
    BY <1>1 DEF Ordered
  <2>1. Limit(s[j]) <= s[k].at
    BY <1>7
  <2> QED
    BY <1>0, <2>1
<1>9. ASSUME NEW b \in Cells, Apart(s[i], b) PROVE Apart(f, b) /\ Apart(g, b)
  <2>1. b.at \in Nat /\ Limit(b) \in Nat /\ b.at < Limit(b)
    BY CellFacts
  <2> QED
    BY <1>3, <1>4, <1>5, <1>6, <1>9, <2>1 DEF Apart
<1>10. \A j \in 1..Len(s) : j # i => Apart(s[i], s[j])
  <2> TAKE j \in 1..Len(s)
  <2>1. j < i \/ j > i \/ j = i
    BY <1>1
  <2> QED
    BY <1>7, <2>1 DEF Apart
<1>11. Apart(f, g)
  BY <1>5, <1>6 DEF Apart
<1>12. \A j \in 1..Len(r), b \in U \cup {f} : Apart(r[j], b)
  <2> TAKE j \in 1..Len(r), b \in U \cup {f}
  <2>1. CASE j = i
    <3>1. CASE b \in U
      <4>1. Apart(s[i], b) /\ b \in Cells
        BY <1>1, <3>1 DEF Tiles
      <4> QED
        BY <1>1, <1>2, <1>9, <2>1, <4>1
    <3>2. CASE b = f
      BY <1>1, <1>2, <1>11, <2>1, <3>2 DEF Apart
    <3> QED
      BY <3>1, <3>2
  <2>2. CASE j # i
    <3>1. CASE b \in U
      BY <1>1, <1>2, <2>2, <3>1 DEF Tiles
    <3>2. CASE b = f
      <4>1. Apart(f, s[j])
        BY <1>1, <1>9, <1>10, <2>2
      <4> QED
        BY <1>1, <1>2, <2>2, <3>2, <4>1 DEF Apart
    <3> QED
      BY <3>1, <3>2
  <2> QED
    BY <2>1, <2>2
<1>13. \A b, c \in U \cup {f} : b # c => Apart(b, c)
  <2>1. \A b \in U : Apart(f, b) /\ Apart(b, f)
    <3> TAKE b \in U
    <3>1. Apart(s[i], b) /\ b \in Cells
      BY <1>1 DEF Tiles
    <3> QED
      BY <1>9, <3>1 DEF Apart
  <2> QED
    BY <2>1 DEF Tiles
<1>14. ASSUME NEW u \in 0..n - 1 PROVE Holds(r, U \cup {f}, u)
  <2>1. ASSUME NEW a \in 1..Len(s), u \in Units(s[a]) PROVE Holds(r, U \cup {f}, u)
    <3>1. CASE a = i
      <4>1. u \in Int /\ s[i].at <= u /\ u < Limit(s[i])
        BY <1>1, <2>1, <3>1, CellFacts
      <4>2. u \in Units(f) \/ u \in Units(g)
        BY <1>4, <1>5, <1>6, <4>1, CellFacts
      <4>3. r[i] = g /\ i \in 1..Len(r)
        BY <1>1, <1>2
      <4> QED
        BY <4>2, <4>3 DEF Holds
    <3>2. CASE a # i
      BY <1>1, <1>2, <2>1, <3>2 DEF Holds
    <3> QED
      BY <3>1, <3>2
  <2> QED
    BY <2>1 DEF Tiles, Holds
<1>15. /\ \A j \in 1..Len(r) : Limit(r[j]) <= n
       /\ \A b \in U \cup {f} : b \in Cells /\ Limit(b) <= n
  <2>1. Limit(f) <= n
    BY <1>1, <1>3, <1>4
  <2> QED
    BY <1>0, <1>1, <1>4, <2>1
<1>16. Tiles(r, U \cup {f}, n)
  BY <1>1, <1>8, <1>12, <1>13, <1>14, <1>15 DEF Tiles
<1>17. ASSUME NEW k \in 1..Len(r), Touch(r, k) PROVE FALSE
  <2>1. k \in 1..Len(s) - 1 /\ k + 1 \in 1..Len(s) /\ Limit(r[k]) = r[k + 1].at
    BY <1>1, <1>17 DEF Touch
  <2>2. k \in 1..Len(s) /\ k < k + 1
    BY <1>1, <2>1
  <2>3. Limit(s[k]) <= s[k + 1].at
    BY <1>7, <2>1, <2>2
  <2>4. Limit(s[k]) = s[k + 1].at
    BY <1>0, <2>1, <2>2, <2>3
  <2> QED
    BY <1>1, <2>1, <2>4 DEF Touch
<1> QED
  BY <1>16, <1>17

\* The core provides a block.
LEMMA CoreTaken ==
    ASSUME NEW s, NEW U, NEW n, Tiles(s, U, n), NEW m \in Nat, n + 1 + m <= CoreSize,
           NEW f, f = Block(n, m)
    PROVE  Tiles(s, U \cup {f}, n + m + 1)
<1>1. /\ Len(s) \in Nat /\ n \in Nat /\ n + m + 1 \in 0..CoreSize
      /\ \A j \in 1..Len(s) : s[j] \in Cells /\ Limit(s[j]) <= n
      /\ \A b \in U : b \in Cells /\ Limit(b) <= n
  BY TilesType, HeapAssumption
<1>2. f \in Cells /\ f.at = n /\ Limit(f) = n + m + 1
  BY <1>1, NewCell
<1> HIDE DEF Block
<1>3. ASSUME NEW b \in Cells, Limit(b) <= n
      PROVE  Apart(f, b) /\ Apart(b, f) /\ Limit(b) <= n + m + 1
  BY <1>1, <1>2, <1>3, CellFacts DEF Apart
<1>q. PICK q : q = n + m + 1
  OBVIOUS
<1>4. ASSUME NEW u \in 0..q - 1 PROVE Holds(s, U \cup {f}, u)
  <2>1. CASE u < n
    BY <1>1, <2>1 DEF Tiles, Holds
  <2>2. CASE u >= n
    <3>1. u \in Units(f)
      BY <1>1, <1>2, <1>q, <2>2, CellFacts
    <3> QED
      BY <3>1 DEF Holds
  <2> QED
    BY <1>1, <1>q, <2>1, <2>2
<1>5. /\ \A b, c \in U \cup {f} : b # c => Apart(b, c)
      /\ \A j \in 1..Len(s), b \in U \cup {f} : Apart(s[j], b)
  BY <1>1, <1>3 DEF Tiles
<1>6. /\ \A j \in 1..Len(s) : Limit(s[j]) <= n + m + 1
      /\ \A b \in U \cup {f} : b \in Cells /\ Limit(b) <= n + m + 1
  BY <1>1, <1>2, <1>3
<1>7. Tiles(s, U \cup {f}, q)
  BY <1>1, <1>q, <1>4, <1>5, <1>6 DEF Tiles
<1> QED
  BY <1>q, <1>7

HeapStates == [free : Seq(Cells), used : SUBSET Cells, next : Nat, end : Nat]

HeapInv ==
    /\ heap \in HeapStates
    /\ heap.next <= heap.end /\ heap.end <= CoreSize
    /\ Tiles(heap.free, heap.used, heap.next)
    /\ \A k \in 1..Len(heap.free) : ~ Touch(heap.free, k)

\* Used blocks have different addresses, and none is in the free list.
LEMMA PlacesDiffer ==
    ASSUME HeapInv
    PROVE  /\ \A b, c \in heap.used : b.at = c.at => b = c
           /\ \A i \in 1..Len(heap.free), b \in heap.used : heap.free[i].at # b.at
<1>1. ASSUME NEW b \in Cells, NEW c \in Cells, Apart(b, c) PROVE b.at # c.at
  <2>1. /\ b.at \in Nat /\ Limit(b) \in Nat /\ b.at < Limit(b)
        /\ c.at \in Nat /\ Limit(c) \in Nat /\ c.at < Limit(c)
    BY CellFacts
  <2> QED
    BY <1>1, <2>1 DEF Apart
<1> QED
  BY <1>1, TilesType DEF HeapInv, Tiles

LEMMA HeapSound == HeapInv => HeapTypeOK /\ HeapExact
<1> SUFFICES ASSUME HeapInv PROVE HeapTypeOK /\ HeapExact
  OBVIOUS
<1> DEFINE s == heap.free
           U == heap.used
           n == heap.next
<1>1. /\ s \in Seq(Cells) /\ Len(s) \in Nat /\ DOMAIN s = 1..Len(s)
      /\ U \subseteq Cells /\ n \in Nat
      /\ \A i \in 1..Len(s) : s[i] \in Cells
      /\ heap.end \in Nat /\ n <= heap.end /\ heap.end <= CoreSize
      /\ Tiles(s, U, n)
  BY TilesType DEF HeapInv, HeapStates
<1>2. HeapTypeOK
  BY <1>1, HeapAssumption DEF HeapTypeOK, Cells
<1>3. ASSUME NEW b \in Blocks PROVE b \in U \/ \E i \in 1..Len(s) : b = s[i]
  BY <1>1 DEF Blocks, Range
<1>4. ASSUME NEW b \in Blocks, NEW c \in Blocks, b # c PROVE Units(b) \cap Units(c) = {}
  <2>1. b \in Cells /\ c \in Cells
    BY <1>1, <1>3
  <2>2. Apart(b, c)
    <3>1. CASE b \in U /\ c \in U
      BY <1>1, <1>4, <3>1 DEF Tiles
    <3>2. CASE \E i \in 1..Len(s) : b = s[i] /\ c \in U
      BY <1>1, <3>2 DEF Tiles
    <3>3. CASE \E i \in 1..Len(s) : c = s[i] /\ b \in U
      BY <1>1, <3>3 DEF Tiles, Apart
    <3>4. CASE \E i, j \in 1..Len(s) : b = s[i] /\ c = s[j]
      <4>1. PICK i \in 1..Len(s), j \in 1..Len(s) : b = s[i] /\ c = s[j]
        BY <3>4
      <4>2. i < j \/ j < i
        BY <1>1, <1>4, <4>1
      <4> QED
        BY <1>1, <4>1, <4>2 DEF Tiles, Ordered, Apart
    <3> QED
      BY <1>3, <3>1, <3>2, <3>3, <3>4
  <2> QED
    BY <2>1, <2>2, ApartMeans
<1>5. Range(s) \cap U = {}
  BY <1>1, PlacesDiffer DEF Range
<1>6. \A u \in 0..n - 1 : \E b \in Blocks : u \in Units(b)
  BY <1>1 DEF Tiles, Holds, Blocks, Range
<1>7. \A i \in 1..Len(s) - 1 : Limit(s[i]) < s[i + 1].at
  <2> TAKE i \in 1..Len(s) - 1
  <2>1. i \in 1..Len(s) /\ i + 1 \in 1..Len(s) /\ i < i + 1
    BY <1>1
  <2>2. Limit(s[i]) <= s[i + 1].at /\ ~ Touch(s, i)
    BY <1>1, <2>1 DEF Tiles, Ordered, HeapInv
  <2>3. Limit(s[i]) \in Nat /\ s[i + 1].at \in Nat
    BY <1>1, <2>1, CellFacts
  <2> QED
    BY <2>2, <2>3 DEF Touch
<1> QED
  BY <1>2, <1>4, <1>5, <1>6, <1>7 DEF HeapExact

LEMMA HeapStarts ==
    ASSUME NEW size \in 1..CoreSize, NEW provided \in BOOLEAN, HeapInit(size, provided)
    PROVE  HeapInv /\ heap.used = {} /\ heap.end = size
<1>1. CoreSize \in Nat /\ size \in Nat
  BY HeapAssumption
<1>2. CASE provided
  <2>1. heap = [free |-> <<>>, used |-> {}, next |-> 0, end |-> size]
    BY <1>2 DEF HeapInit
  <2>2. PICK e : e = <<>>
    OBVIOUS
  <2>3. e \in Seq(Cells) /\ Len(e) = 0
    BY <2>2
  <2>4. heap.free = e /\ heap.used = {} /\ heap.next = 0 /\ heap.end = size /\ heap \in HeapStates
    BY <1>1, <2>1, <2>2, <2>3 DEF HeapStates
  <2>5. Tiles(e, {}, 0)
    BY <1>1, <2>3 DEF Tiles, Ordered
  <2> QED
    BY <1>1, <2>3, <2>4, <2>5 DEF HeapInv
<1>3. CASE ~ provided
  <2> DEFINE b == Block(0, size - 1)
  <2>1. heap = [free |-> <<b>>, used |-> {}, next |-> size, end |-> size]
    BY <1>3 DEF HeapInit
  <2>2. b \in Cells /\ b.at = 0 /\ Limit(b) = size
    <3>1. size - 1 \in Nat /\ 0 + 1 + (size - 1) = size /\ size \in 0..CoreSize /\ 0 \in Nat
      BY <1>1
    <3> QED
      BY <3>1, NewCell
  <2> HIDE DEF b
  <2>3. PICK e : e = <<b>>
    OBVIOUS
  <2>4. e \in Seq(Cells) /\ Len(e) = 1 /\ e[1] = b
    BY <2>2, <2>3
  <2>5. /\ heap.free = e /\ heap.used = {} /\ heap.next = size /\ heap.end = size
        /\ heap \in HeapStates
    BY <1>1, <2>1, <2>3, <2>4 DEF HeapStates
  <2>6. \A u \in 0..size - 1 : Holds(e, {}, u)
    <3> TAKE u \in 0..size - 1
    <3>1. u \in Int /\ 0 <= u /\ u < size
      BY <1>1
    <3>2. u \in Units(b)
      BY <2>2, <3>1, CellFacts
    <3> QED
      BY <2>4, <3>2 DEF Holds
  <2>7. Tiles(e, {}, size)
    BY <1>1, <2>2, <2>4, <2>6 DEF Tiles, Ordered
  <2>8. \A k \in 1..Len(e) : ~ Touch(e, k)
    BY <2>4 DEF Touch
  <2> QED
    BY <1>1, <2>5, <2>7, <2>8 DEF HeapInv
<1> QED
  BY <1>2, <1>3

LEMMA HeapFreeStep ==
    ASSUME HeapInv, NEW b \in heap.used, HeapFree(b)
    PROVE  HeapInv' /\ heap'.used = heap.used \ {b} /\ heap'.end = heap.end
<1> DEFINE s == heap.free
           U == heap.used
           n == heap.next
<1>1. /\ s \in Seq(Cells) /\ Len(s) \in Nat /\ DOMAIN s = 1..Len(s) /\ b \in Cells
      /\ heap \in HeapStates /\ heap.next <= heap.end /\ heap.end <= CoreSize
      /\ Tiles(s, U, n) /\ \A k \in 1..Len(s) : ~ Touch(s, k) /\ s[k] \in Cells
  BY TilesType DEF HeapInv
<1>2. PICK i : i = Cardinality({j \in DOMAIN s : s[j].at < b.at}) + 1
  OBVIOUS
<1>3. i \in 1..Len(s) + 1 /\ \A j \in 1..Len(s) : s[j].at < b.at <=> j < i
  BY <1>1, <1>2, PlaceByAddress DEF Tiles
<1>4. PICK r : r = InsertAt(s, i, b)
  OBVIOUS
<1>5. r \in Seq(Cells) /\ With(s, r, i, b)
  BY <1>1, <1>3, <1>4, InsertAtIs
<1>6. Tiles(r, U \ {b}, n) /\ \A k \in 1..Len(r) : Touch(r, k) => k \in {i - 1, i}
  BY <1>1, <1>3, <1>5, GivenBack
<1>7. i \in Int /\ i - 1 \in Int /\ \A k : Touch(r, k) => k = i - 1 \/ k = i
  <2>1. Len(r) \in Nat
    BY <1>6, TilesType
  <2>2. \A k : Touch(r, k) => k \in 1..Len(r)
    BY <2>1 DEF Touch
  <2> QED
    BY <1>1, <1>3, <1>6, <2>2
<1>8. PICK q : q = Merged(r, i)
  OBVIOUS
<1>9. Tiles(q, U \ {b}, n) /\ \A k : Touch(q, k) => k = i - 1
  <2>1. \A k : Touch(r, k) => k <= i
    BY <1>7
  <2>2. Tiles(q, U \ {b}, n) /\ \A k : Touch(q, k) => k < i /\ Touch(r, k)
    BY <1>6, <1>7, <1>8, <2>1, MergedAt
  <2> QED
    BY <1>7, <2>2
<1>10. PICK p : p = Merged(q, i - 1)
  OBVIOUS
<1>11. Tiles(p, U \ {b}, n) /\ \A k : ~ Touch(p, k)
  <2>1. \A k : Touch(q, k) => k <= i - 1
    BY <1>7, <1>9
  <2>2. Tiles(p, U \ {b}, n) /\ \A k : Touch(p, k) => k < i - 1 /\ Touch(q, k)
    BY <1>7, <1>9, <1>10, <2>1, MergedAt
  <2> QED
    BY <1>7, <1>9, <2>2
<1>12. heap' = [heap EXCEPT !.free = p, !.used = U \ {b}]
  BY <1>1, <1>2, <1>4, <1>8, <1>10 DEF HeapFree, HeapStates
<1>13. p \in Seq(Cells)
  BY <1>11, TilesType
<1>14. /\ heap' \in HeapStates /\ heap'.free = p /\ heap'.used = U \ {b}
       /\ heap'.next = heap.next /\ heap'.end = heap.end
  BY <1>1, <1>12, <1>13 DEF HeapStates
<1> QED
  BY <1>1, <1>11, <1>14 DEF HeapInv

\* What a block that is handed out is, either way.
Handed(a) ==
    /\ HeapInv' /\ heap'.end = heap.end
    /\ a \in 0..heap.end - 1
    /\ \A b \in heap.used : b.at # a
    /\ \E f \in Cells : f.at = a /\ heap'.used = heap.used \cup {f}

LEMMA FindBlockStep ==
    ASSUME HeapInv, NEW n \in Nat, NEW a, FindBlock(n, a)
    PROVE  Handed(a)
<1> DEFINE s == heap.free
           U == heap.used
<1>1. /\ s \in Seq(Cells) /\ Len(s) \in Nat /\ DOMAIN s = 1..Len(s)
      /\ heap \in HeapStates /\ heap.next <= heap.end /\ heap.end <= CoreSize
      /\ heap.next \in Nat /\ heap.end \in Nat
      /\ Tiles(s, U, heap.next)
      /\ \A k \in 1..Len(s) : ~ Touch(s, k) /\ s[k] \in Cells /\ Limit(s[k]) <= heap.next
  BY TilesType DEF HeapInv, HeapStates
<1>2. PICK i : i = Min(Fits(n))
  OBVIOUS
<1>3. i \in 1..Len(s) /\ s[i].size >= n
  <2>1. Fits(n) \in SUBSET Nat /\ Fits(n) # {}
    BY <1>1 DEF Fits, FindBlock
  <2>2. i \in Fits(n)
    BY <1>2, <2>1, LeastNumber DEF Min
  <2> QED
    BY <1>1, <2>2 DEF Fits
<1>4. PICK b \in Cells : b = s[i]
  BY <1>1, <1>3
<1>5. PICK rest : rest = Remainder(b, n)
  OBVIOUS
<1>6. PICK r : r = SubSeq(s, 1, i - 1) \o rest \o SubSeq(s, i + 1, Len(s))
  OBVIOUS
<1>7. PICK f : f = Block(a, IF rest = <<>> THEN b.size ELSE n)
  OBVIOUS
<1>8. a = b.at /\ heap' = [heap EXCEPT !.free = r, !.used = U \cup {f}]
  BY <1>2, <1>4, <1>5, <1>6, <1>7, Zenon DEF FindBlock
<1>9. /\ b.at \in Nat /\ b.size \in Nat /\ b.size >= n /\ b = Block(b.at, b.size)
      /\ b.at < Limit(b) /\ Limit(b) \in Nat /\ Limit(b) <= heap.next
  BY <1>1, <1>3, <1>4, CellFacts
<1>10. a \in 0..heap.end - 1
  <2>1. a < heap.end
    BY <1>1, <1>8, <1>9
  <2> QED
    BY <1>1, <1>8, <1>9, <2>1
<1>11. \A c \in U : c.at # a
  BY <1>1, <1>3, <1>4, <1>8, PlacesDiffer
<1>12. PICK j \in 0..Len(s) : j = i - 1
  BY <1>1, <1>3
<1>13. i + 1 \in j + 1..Len(s) + 1
  BY <1>1, <1>3, <1>12
<1>14. /\ f \in Cells /\ f.at = a /\ r \in Seq(Cells)
       /\ Tiles(r, U \cup {f}, heap.next) /\ \A k \in 1..Len(r) : ~ Touch(r, k)
  <2>1. CASE b.size < n + 1
    <3>1. rest = <<>> /\ f = b
      BY <1>5, <1>7, <1>8, <1>9, <2>1 DEF Remainder
    <3>2. rest \in Seq(Cells) /\ Len(rest) = 0
      BY <3>1
    <3>3. r = SubSeq(s, 1, j) \o rest \o SubSeq(s, i + 1, Len(s))
      BY <1>6, <1>12
    <3>4. r \in Seq(Cells) /\ Spliced(s, rest, j, i + 1, r)
      BY <1>1, <1>13, <3>2, <3>3, Splice, Zenon
    <3>5. /\ Len(r) = j + Len(rest) + (Len(s) - (i + 1) + 1)
          /\ \A k \in 1..Len(r) : r[k] = IF k <= j THEN s[k]
                                         ELSE IF k <= j + Len(rest) THEN rest[k - j]
                                         ELSE s[k - j - Len(rest) + (i + 1) - 1]
      BY <3>4, Zenon DEF Spliced
    <3>6. Without(s, r, i)
      <4>1. Len(r) = Len(s) - 1
        BY <1>1, <1>3, <1>12, <3>2, <3>5
      <4>2. ASSUME NEW k \in 1..Len(r), k < i PROVE r[k] = s[k]
        <5>1. k <= j
          BY <1>1, <1>3, <1>12, <4>1, <4>2
        <5> QED
          BY <3>5, <5>1
      <4>3. ASSUME NEW k \in 1..Len(r), ~ (k < i) PROVE r[k] = s[k + 1]
        <5>1. /\ ~ (k <= j) /\ ~ (k <= j + Len(rest))
              /\ k - j - Len(rest) + (i + 1) - 1 = k + 1
          BY <1>1, <1>3, <1>12, <3>2, <4>1, <4>3
        <5> QED
          BY <3>5, <5>1
      <4> QED
        BY <4>1, <4>2, <4>3 DEF Without
    <3> QED
      BY <1>1, <1>3, <1>4, <1>8, <3>1, <3>4, <3>6, AllTaken
  <2>2. CASE b.size >= n + 1
    <3>1. PICK g : g = Block(b.at + 1 + n, b.size - n - 1)
      OBVIOUS
    <3>2. rest = <<g>> /\ rest # <<>>
      BY <1>5, <1>9, <2>2, <3>1 DEF Remainder
    <3>3. f = Block(a, n)
      BY <1>7, <3>2
    <3>4. g \in Cells /\ f \in Cells /\ f.at = a
      <4>0. heap.next \in 0..CoreSize
        BY <1>1, HeapAssumption
      <4>1. b.at + 1 + n \in Nat /\ b.size - n - 1 \in Nat
        BY <1>9, <2>2
      <4>2. Limit(b) = b.at + 1 + b.size
        BY CellFacts
      <4>3. (b.at + 1 + n) + 1 + (b.size - n - 1) <= heap.next
        BY <1>9, <4>2
      <4>4. b.at + 1 + n <= heap.next
        BY <1>1, <1>9, <2>2, <4>2
      <4> QED
        BY <1>8, <1>9, <3>1, <3>3, <4>0, <4>1, <4>3, <4>4, NewCell
    <3>5. rest \in Seq(Cells) /\ Len(rest) = 1 /\ rest[1] = g
      BY <3>2, <3>4
    <3>6. r = SubSeq(s, 1, j) \o rest \o SubSeq(s, i + 1, Len(s))
      BY <1>6, <1>12
    <3>7. r \in Seq(Cells) /\ Spliced(s, rest, j, i + 1, r)
      BY <1>1, <1>13, <3>5, <3>6, Splice, Zenon
    <3>8. /\ Len(r) = j + Len(rest) + (Len(s) - (i + 1) + 1)
          /\ \A k \in 1..Len(r) : r[k] = IF k <= j THEN s[k]
                                         ELSE IF k <= j + Len(rest) THEN rest[k - j]
                                         ELSE s[k - j - Len(rest) + (i + 1) - 1]
      BY <3>7, Zenon DEF Spliced
    <3>9. Changed(s, r, i, g)
      <4>1. Len(r) = Len(s)
        BY <1>1, <1>3, <1>12, <3>5, <3>8
      <4>2. ASSUME NEW k \in 1..Len(r), k < i PROVE r[k] = s[k]
        <5>1. k <= j
          BY <1>1, <1>3, <1>12, <4>1, <4>2
        <5> QED
          BY <3>8, <5>1
      <4>3. r[i] = g
        BY <1>1, <1>3, <1>12, <3>5, <3>8, <4>1
      <4>4. ASSUME NEW k \in 1..Len(r), k > i PROVE r[k] = s[k]
        <5>1. /\ ~ (k <= j) /\ ~ (k <= j + Len(rest))
              /\ k - j - Len(rest) + (i + 1) - 1 = k
          <6>1. k \in Int /\ i \in Int /\ j = i - 1 /\ Len(rest) = 1
            BY <1>1, <1>3, <1>12, <3>5, <4>1
          <6>2. j + Len(rest) = i /\ k - j - Len(rest) = k - i
            BY <6>1
          <6>3. k - i + (i + 1) - 1 = k
            BY <6>1
          <6> QED
            BY <4>4, <6>1, <6>2, <6>3
        <5> QED
          BY <3>8, <5>1
      <4>5. \A k \in 1..Len(r) : k < i \/ k = i \/ k > i
        BY <1>1, <1>3, <4>1
      <4> QED
        BY <4>1, <4>2, <4>3, <4>4, <4>5, Zenon DEF Changed
    <3>10. /\ s[i].size >= n + 1 /\ f = Block(s[i].at, n)
           /\ g = Block(s[i].at + 1 + n, s[i].size - n - 1)
      BY <1>4, <1>8, <2>2, <3>1, <3>3, Zenon
    <3>11. Tiles(r, U \cup {f}, heap.next) /\ \A k \in 1..Len(r) : ~ Touch(r, k)
      <4>1. Tiles(s, U, heap.next) /\ (\A k \in 1..Len(s) : ~ Touch(s, k)) /\ i \in 1..Len(s)
        BY <1>1, <1>3
      <4>2. r \in Seq(Cells)
        BY <3>7
      <4>3. s[i].size >= n + 1
        BY <3>10
      <4> QED
        BY <3>9, <3>10, <4>1, <4>2, <4>3, PartTaken, ZenonT(60)
    <3> QED
      BY <3>4, <3>7, <3>11
  <2> QED
    BY <1>9, <2>1, <2>2
<1>15. /\ heap' \in HeapStates /\ heap'.free = r /\ heap'.used = U \cup {f}
       /\ heap'.next = heap.next /\ heap'.end = heap.end
  BY <1>1, <1>8, <1>14 DEF HeapStates
<1> QED
  BY <1>1, <1>10, <1>11, <1>14, <1>15 DEF HeapInv, Handed

LEMMA CoreBlockStep ==
    ASSUME HeapInv, NEW n \in Nat, NEW a, CoreBlock(n, a)
    PROVE  Handed(a)
<1>1. /\ heap \in HeapStates /\ heap.next \in Nat /\ heap.end \in Nat /\ heap.end <= CoreSize
      /\ Tiles(heap.free, heap.used, heap.next)
      /\ \A b \in heap.used : b \in Cells /\ Limit(b) <= heap.next
  BY TilesType DEF HeapInv, HeapStates
<1>2. PICK f : f = Block(heap.next, n)
  OBVIOUS
<1>3. heap.next + 1 + n <= heap.end /\ a = heap.next
  BY <1>1 DEF CoreBlock, CoreFull
<1>4. heap.next + 1 + n <= CoreSize /\ CoreSize \in 0..CoreSize
  BY <1>1, <1>3, HeapAssumption
<1>5. f \in Cells /\ f.at = a
  BY <1>1, <1>2, <1>3, <1>4, NewCell
<1>6. Tiles(heap.free, heap.used \cup {f}, heap.next + n + 1)
  BY <1>1, <1>2, <1>4, CoreTaken
<1>7. heap' = [heap EXCEPT !.next = heap.next + n + 1, !.used = heap.used \cup {f}]
  BY <1>2, <1>3 DEF CoreBlock
<1>8. /\ heap' \in HeapStates /\ heap'.free = heap.free /\ heap'.used = heap.used \cup {f}
      /\ heap'.next = heap.next + n + 1 /\ heap'.end = heap.end
  <2>1. PICK z \in Nat : z = heap.next + n + 1
    BY <1>1
  <2>2. heap' = [heap EXCEPT !.next = z, !.used = heap.used \cup {f}]
    BY <1>7, <2>1
  <2> QED
    BY <1>1, <1>5, <2>1, <2>2 DEF HeapStates
<1>9. a \in 0..heap.end - 1
  BY <1>1, <1>3
<1>10. \A b \in heap.used : b.at # a
  <2> TAKE b \in heap.used
  <2>1. b.at \in Nat /\ Limit(b) \in Nat /\ b.at < Limit(b)
    BY <1>1, CellFacts
  <2> QED
    BY <1>1, <1>3, <2>1
<1>11. HeapInv'
  BY <1>1, <1>3, <1>6, <1>8 DEF HeapInv
<1> QED
  BY <1>5, <1>8, <1>9, <1>10, <1>11 DEF Handed

-----------------------------------------------------------------------------
(***************************************************************************)
(* The inductive invariant.                                                *)
(***************************************************************************)
Stages == {"idle", "asking", "made", "released", "unlinking", "relinking", "freeing",
           "waiting", "leaving"}

\* The stages of a call that gives back the memory of the thread it is about.
Giving == {"released", "unlinking", "relinking", "freeing"}

\* Those in which it changes the registry outside the lock zone.
Cutting == {"unlinking", "relinking"}

Kinds == {"own", "walk"}

Objects == {"pool"} \X (1..PoolSize)

ThreadStates ==
    [state : {"NONE", "LIVE", "WTEXIT", "FINAL"}, refs : Nat, waiting : SUBSET ThreadIds]

Jobs == [at : Stages, x : ThreadIds, n : 0..Area + MaxRequest]

Registries == [Links -> [newer : Links, older : Links]]

TypeInv ==
    /\ use \in Uses
    /\ pool \in Seq(Objects)
    /\ th \in [ThreadIds -> ThreadStates]
    /\ registry \in Registries
    /\ held \subseteq ThreadIds \X ThreadIds \X Kinds
    /\ job \in [ThreadIds -> Jobs]

\* A server that has been woken finds a message.
MessagesInv ==
    /\ msgqueue \in [Servers -> Seq(Clients)]
    /\ mstate \in [Peers -> {"READY", "WTMSG", "SNDMSGQ", "SNDMSG", "woken"}]
    /\ \A s \in Servers : mstate[s] = "woken" => msgqueue[s] # <<>>

Alive(x) == th[x].state \in {"LIVE", "WTEXIT"}

RefsOf(H, x) == {h \in H : h[2] = x}

\* p_refs is the number of references there are.
CountInv ==
    /\ IsFiniteSet(held)
    /\ \A x \in ThreadIds : th[x].refs = Cardinality(RefsOf(held, x))

\* A walker has one reference, two while it is going on.
HeldInv ==
    /\ \A t, x \in ThreadIds, k \in Kinds : <<t, x, k>> \in held =>
         /\ t \in Callers /\ Alive(t) /\ th[x].state # "NONE"
         /\ k = "walk" => t = Walker
    /\ \A x, y \in ThreadIds :
         <<Walker, x, "walk">> \in held /\ <<Walker, y, "walk">> \in held /\ x # y =>
           job[Walker].at = "leaving" /\ job[Walker].x \in {x, y}

\* What each stage of a call relies on.
JobInv ==
    \A t \in ThreadIds :
      /\ job[t].at # "idle" => t \in Callers /\ Alive(t)
      /\ job[t].at = "made" => Dynamic(job[t].x) /\ th[job[t].x].state = "NONE"
      /\ job[t].at = "waiting" => <<t, job[t].x, "own">> \in held
      /\ job[t].at = "leaving" => <<t, job[t].x, "walk">> \in held
      /\ job[t].at = "released" => th[job[t].x].state # "NONE"
      /\ job[t].at \in {"unlinking", "relinking", "freeing"} =>
           Dynamic(job[t].x) /\ th[job[t].x].state = "FINAL"

\* One thread makes a thread, and one gives its memory back.
OnlyOne ==
    \A t, u \in ThreadIds : job[t].x = job[u].x =>
      /\ job[t].at = "made" /\ job[u].at = "made" => t = u
      /\ job[t].at \in Giving /\ job[u].at \in Giving => t = u

\* No walk takes a reference to a thread that is being freed.
GivenUp == \A t \in ThreadIds : job[t].at \in Giving => th[job[t].x].refs = 0

WaitInv ==
    \A x, u \in ThreadIds : u \in th[x].waiting =>
      job[u].at = "waiting" /\ job[u].x = x /\ th[u].state = "WTEXIT"

Freed(x) == \E t \in ThreadIds : job[t].at \in {"relinking", "freeing"} /\ job[t].x = x

\* A static thread is in the registry while it lives, another until it is freed.
Stays(x) == th[x].state # "NONE" /\ (IF Dynamic(x) THEN ~ Freed(x) ELSE th[x].state # "FINAL")

Staying == {x \in ThreadIds : Stays(x)}

Nobody == <<"nobody", 0>>

\* The thread before y, also while the newer neighbour of k still points to k.
Before(r, k, y) == IF r[y].older = k THEN r[k].older ELSE r[y].older

\* The links r join rlist and the threads of M in a ring, both ways, and a walk from rlist
\* comes to all of them; if k is a thread, its first link has been cut out.
Ring(r, M, k) ==
    /\ M \subseteq ThreadIds /\ k \in (ThreadIds \ M) \cup {Nobody}
    /\ \A y \in M \cup {RList} :
         /\ r[y].newer \in M \cup {RList} /\ Before(r, k, r[y].newer) = y
         /\ Before(r, k, y) \in M \cup {RList} /\ r[Before(r, k, y)].newer = y
    /\ \A S \in SUBSET Links : RList \in S /\ (\A y \in S : r[y].newer \in S) => M \subseteq S
    /\ k # Nobody => r[k].newer \in M \cup {RList} /\ r[r[k].newer].older = k

RegistryInv ==
    /\ \A t, u \in ThreadIds : job[t].at \in Cutting /\ job[u].at \in Cutting => t = u
    /\ \E k : /\ Ring(registry, Staying, k)
              /\ \A t \in ThreadIds : job[t].at = "relinking" => job[t].x = k
              /\ k # Nobody => \E t \in ThreadIds : job[t].at = "relinking"
    /\ Alive(Main)

InHand(x) == \E t \in ThreadIds : job[t].at = "made" /\ job[t].x = x

\* The memory handed out is that of the threads there are and are being made.
MemoryInv ==
    /\ \A i, j \in 1..Len(pool) : pool[i] = pool[j] => i = j
    /\ heap.end = ThreadCore
    /\ \A x \in ThreadIds : Dynamic(x) => (x \in Taken <=> th[x].state # "NONE" \/ InHand(x))

ThreadInv ==
    /\ CountInv /\ HeldInv /\ JobInv /\ OnlyOne /\ GivenUp /\ WaitInv
    /\ RegistryInv /\ MemoryInv

\* Where the heap or the messages are shown on their own there is main alone.
AloneInv ==
    /\ held = {<<Main, Main, "own">>}
    /\ \A x \in ThreadIds : Dynamic(x) => th[x].state = "NONE"
    /\ \A t \in ThreadIds : job[t].at \in {"idle", "asking"}

Inv ==
    /\ TypeInv /\ HeapInv /\ MessagesInv
    /\ IF use = "threads" THEN ThreadInv ELSE AloneInv

-----------------------------------------------------------------------------
(***************************************************************************)
(* The names of threads, and counting references.                          *)
(***************************************************************************)
LEMMA Names ==
    /\ Main \in ThreadIds /\ ~ Dynamic(Main) /\ Main \in Callers /\ Walker = Main
    /\ Callers \subseteq ThreadIds
    /\ \A x \in Objects : x \in ThreadIds /\ Dynamic(x) /\ x[1] # "heap"
    /\ \A a \in 0..ThreadCore - 1 :
         <<"heap", a>> \in ThreadIds /\ Dynamic(<<"heap", a>>) /\ <<"heap", a>> \notin Objects
    /\ \A x \in ThreadIds : Dynamic(x) =>
         x \in Objects \/ (x[1] = "heap" /\ x[2] \in 0..ThreadCore - 1 /\ x = <<"heap", x[2]>>)
<1>1. Statics \in Nat
  BY ThreadsAssumption
<1>2. Main \in ThreadIds /\ ~ Dynamic(Main)
  BY <1>1 DEF Main, ThreadIds, Dynamic
<1> QED
  BY <1>2 DEF Callers, Walker, Main, ThreadIds, Dynamic, Objects

LEMMA RefsAdded ==
    ASSUME IsFiniteSet(held), NEW e \in ThreadIds \X ThreadIds \X Kinds, e \notin held,
           held' = held \cup {e}
    PROVE  /\ IsFiniteSet(held')
           /\ \A y : Cardinality(RefsOf(held', y))
                      = IF y = e[2] THEN Cardinality(RefsOf(held, y)) + 1
                        ELSE Cardinality(RefsOf(held, y))
<1>1. IsFiniteSet(held')
  BY FS_AddElement
<1>2. ASSUME NEW y, y = e[2]
      PROVE  Cardinality(RefsOf(held', y)) = Cardinality(RefsOf(held, y)) + 1
  <2>1. RefsOf(held', y) = RefsOf(held, y) \cup {e} /\ e \notin RefsOf(held, y)
    BY <1>2 DEF RefsOf
  <2>2. IsFiniteSet(RefsOf(held, y))
    BY FS_Subset DEF RefsOf
  <2> QED
    BY <2>1, <2>2, FS_AddElement
<1>3. ASSUME NEW y, y # e[2] PROVE Cardinality(RefsOf(held', y)) = Cardinality(RefsOf(held, y))
  <2>1. RefsOf(held', y) = RefsOf(held, y)
    BY <1>3 DEF RefsOf
  <2> QED
    BY <2>1
<1> QED
  BY <1>1, <1>2, <1>3

LEMMA RefsDropped ==
    ASSUME IsFiniteSet(held), NEW e \in held, held' = held \ {e}
    PROVE  /\ IsFiniteSet(held')
           /\ \A y : Cardinality(RefsOf(held', y))
                      = IF y = e[2] THEN Cardinality(RefsOf(held, y)) - 1
                        ELSE Cardinality(RefsOf(held, y))
<1>1. IsFiniteSet(held')
  BY FS_RemoveElement
<1>2. ASSUME NEW y, y = e[2]
      PROVE  Cardinality(RefsOf(held', y)) = Cardinality(RefsOf(held, y)) - 1
  <2>1. RefsOf(held', y) = RefsOf(held, y) \ {e} /\ e \in RefsOf(held, y)
    BY <1>2 DEF RefsOf
  <2>2. IsFiniteSet(RefsOf(held, y))
    BY FS_Subset DEF RefsOf
  <2> QED
    BY <2>1, <2>2, FS_RemoveElement
<1>3. ASSUME NEW y, y # e[2] PROVE Cardinality(RefsOf(held', y)) = Cardinality(RefsOf(held, y))
  <2>1. RefsOf(held', y) = RefsOf(held, y)
    BY <1>3 DEF RefsOf
  <2> QED
    BY <2>1
<1> QED
  BY <1>1, <1>2, <1>3

\* A thread with no references is held by nobody.
LEMMA NoRefs ==
    ASSUME TypeInv, CountInv, NEW x \in ThreadIds
    PROVE  /\ th[x].refs \in Nat
           /\ th[x].refs = 0 <=> \A t \in ThreadIds, k \in Kinds : <<t, x, k>> \notin held
<1>1. IsFiniteSet(RefsOf(held, x)) /\ th[x].refs = Cardinality(RefsOf(held, x))
  BY FS_Subset DEF RefsOf, CountInv
<1>2. th[x].refs = 0 <=> RefsOf(held, x) = {}
  BY <1>1, FS_EmptySet
<1>3. \A h \in held : \E t, y \in ThreadIds, k \in Kinds : h = <<t, y, k>>
  BY DEF TypeInv
<1>4. RefsOf(held, x) = {} <=> \A t \in ThreadIds, k \in Kinds : <<t, x, k>> \notin held
  <2>1. ASSUME NEW h \in RefsOf(held, x)
        PROVE  \E t \in ThreadIds, k \in Kinds : <<t, x, k>> \in held
    BY <1>3, <2>1 DEF RefsOf
  <2>2. \A t \in ThreadIds, k \in Kinds : <<t, x, k>> \in held => <<t, x, k>> \in RefsOf(held, x)
    BY DEF RefsOf
  <2> QED
    BY <2>1, <2>2
<1> QED
  BY <1>1, <1>2, <1>4, FS_CardinalityType

-----------------------------------------------------------------------------
(***************************************************************************)
(* The links of the registry.                                              *)
(***************************************************************************)
LEMMA LinkNames ==
    /\ RList \in Links /\ RList \notin ThreadIds /\ Nobody \notin Links
    /\ ThreadIds \subseteq Links /\ \A x \in Links : x = RList \/ x \in ThreadIds
BY DEF RList, Links, ThreadIds, Nobody

\* No thread comes after itself.
LEMMA NoLoop ==
    ASSUME NEW r, NEW M, NEW k, Ring(r, M, k), NEW x \in M
    PROVE  r[x].newer # x
<1> SUFFICES ASSUME r[x].newer = x PROVE FALSE
  OBVIOUS
<1>1. x # RList /\ M \cup {RList} \subseteq Links
  BY LinkNames DEF Ring
<1>2. ASSUME NEW y \in (M \cup {RList}) \ {x} PROVE r[y].newer \in (M \cup {RList}) \ {x}
  <2>1. /\ r[y].newer \in M \cup {RList} /\ Before(r, k, r[y].newer) = y
        /\ Before(r, k, r[x].newer) = x
    BY DEF Ring
  <2> QED
    BY <2>1
<1>3. M \subseteq (M \cup {RList}) \ {x}
  BY <1>1, <1>2 DEF Ring
<1> QED
  BY <1>3

\* A walk comes to the threads of the ring and to no others.
LEMMA RingReached ==
    ASSUME NEW M, NEW k, Ring(registry, M, k), NEW x \in ThreadIds
    PROVE  Registered(x) <=> x \in M
<1>1. x \in M => Registered(x)
  BY DEF Ring, Registered
<1>2. ASSUME Registered(x) PROVE x \in M
  <2>1. /\ M \cup {RList} \in SUBSET Links
        /\ \A y \in M \cup {RList} : registry[y].newer \in M \cup {RList}
    BY LinkNames DEF Ring
  <2>2. x \in M \cup {RList}
    BY <1>2, <2>1 DEF Registered
  <2> QED
    BY <2>2, LinkNames
<1> QED
  BY <1>1, <1>2

\* A ring with nothing cut out: older is the inverse of newer.
LEMMA WholeRing ==
    ASSUME NEW r \in Registries, NEW M, M \subseteq ThreadIds
    PROVE  Ring(r, M, Nobody) <=>
             /\ \A y \in M \cup {RList} :
                  /\ r[y].newer \in M \cup {RList} /\ r[r[y].newer].older = y
                  /\ r[y].older \in M \cup {RList} /\ r[r[y].older].newer = y
             /\ \A S \in SUBSET Links :
                  RList \in S /\ (\A y \in S : r[y].newer \in S) => M \subseteq S
<1>1. \A y \in Links : r[y].newer \in Links /\ r[y].older \in Links
  BY DEF Registries
<1>2. \A y \in Links : Before(r, Nobody, y) = r[y].older
  BY <1>1, LinkNames DEF Before
<1>3. M \cup {RList} \subseteq Links
  BY LinkNames
<1> QED
  BY <1>1, <1>2, <1>3 DEF Ring

LEMMA RingInserts ==
    ASSUME registry \in Registries, NEW M, NEW x \in ThreadIds, x \notin M,
           Ring(registry, M, Nobody), registry' = Inserted(x)
    PROVE  registry' \in Registries /\ Ring(registry', M \cup {x}, Nobody)
<1> DEFINE C == M \cup {RList}
<1>1. M \subseteq ThreadIds /\ C \subseteq Links /\ x # RList /\ x \notin C /\ x \in Links
  BY LinkNames DEF Ring
<1>2. /\ \A y \in C : /\ registry[y].newer \in C /\ registry[registry[y].newer].older = y
                      /\ registry[y].older \in C /\ registry[registry[y].older].newer = y
      /\ \A S \in SUBSET Links :
           RList \in S /\ (\A y \in S : registry[y].newer \in S) => M \subseteq S
  BY <1>1, WholeRing
<1>3. PICK o \in C : o = registry[RList].older /\ registry[o].newer = RList
  BY <1>2
<1>4. /\ registry' \in Registries
      /\ \A y \in Links :
           /\ registry'[y].newer = IF y = x THEN RList ELSE IF y = o THEN x ELSE registry[y].newer
           /\ registry'[y].older = IF y = x THEN o ELSE IF y = RList THEN x ELSE registry[y].older
  <2>1. registry' = [registry EXCEPT ![x] = [newer |-> RList, older |-> o],
                                     ![o].newer = x, ![RList].older = x]
    BY <1>3 DEF Inserted
  <2> QED
    BY <1>1, <1>3, <2>1, LinkNames DEF Registries
<1>5. ASSUME NEW y \in C \cup {x}
      PROVE  /\ registry'[y].newer \in C \cup {x} /\ registry'[registry'[y].newer].older = y
             /\ registry'[y].older \in C \cup {x} /\ registry'[registry'[y].older].newer = y
  <2>1. CASE y = x
    BY <1>1, <1>3, <1>4, <2>1
  <2>2. CASE y \in C
    <3>1. registry'[y].newer \in C \cup {x} /\ registry'[registry'[y].newer].older = y
      BY <1>1, <1>2, <1>3, <1>4, <2>2
    <3>2. registry'[y].older \in C \cup {x} /\ registry'[registry'[y].older].newer = y
      BY <1>1, <1>2, <1>3, <1>4, <2>2
    <3> QED
      BY <3>1, <3>2
  <2> QED
    BY <2>1, <2>2
<1>6. ASSUME NEW S \in SUBSET Links, RList \in S, \A y \in S : registry'[y].newer \in S
      PROVE  M \cup {x} \subseteq S
  <2>1. ASSUME NEW y \in S \cap C PROVE registry[y].newer \in S \cap C
    BY <1>1, <1>2, <1>3, <1>4, <1>6, <2>1
  <2>2. M \subseteq S \cap C
    BY <1>2, <1>6, <2>1
  <2>3. registry'[o].newer = x /\ o \in S
    BY <1>1, <1>3, <1>4, <1>6, <2>2
  <2> QED
    BY <1>6, <2>2, <2>3
<1>7. M \cup {x} \subseteq ThreadIds /\ C \cup {x} = (M \cup {x}) \cup {RList}
  BY <1>1
<1> QED
  BY <1>4, <1>5, <1>6, <1>7, WholeRing

LEMMA RingCut ==
    ASSUME NEW r \in Registries, NEW M, NEW x \in M, Ring(r, M, Nobody),
           NEW q, q = [r EXCEPT ![r[x].older].newer = r[x].newer]
    PROVE  q \in Registries /\ Ring(q, M \ {x}, x)
<1> DEFINE C == M \cup {RList}
<1>1. M \subseteq ThreadIds /\ C \subseteq Links /\ x \in C /\ x # RList /\ x # Nobody
  BY LinkNames DEF Ring
<1>2. /\ \A y \in C : /\ r[y].newer \in C /\ r[r[y].newer].older = y
                      /\ r[y].older \in C /\ r[r[y].older].newer = y
      /\ \A S \in SUBSET Links : RList \in S /\ (\A y \in S : r[y].newer \in S) => M \subseteq S
  BY <1>1, WholeRing
<1>3. PICK o \in C, n \in C : o = r[x].older /\ n = r[x].newer /\ r[o].newer = x /\ r[n].older = x
  BY <1>1, <1>2
<1>4. n # x /\ o # x
  BY <1>2, <1>3, NoLoop
<1>5. /\ q \in Registries
      /\ \A y \in Links : /\ q[y].newer = IF y = o THEN n ELSE r[y].newer
                          /\ q[y].older = r[y].older
  BY <1>1, <1>3 DEF Registries
<1>6. ASSUME NEW y \in C \ {x}
      PROVE  /\ q[y].newer \in C \ {x} /\ Before(q, x, q[y].newer) = y
             /\ Before(q, x, y) \in C \ {x} /\ q[Before(q, x, y)].newer = y
  <2>1. \A z \in C : Before(q, x, z) = IF z = n THEN o ELSE r[z].older
    BY <1>1, <1>2, <1>3, <1>5 DEF Before
  <2>2. /\ r[y].newer \in C /\ r[r[y].newer].older = y
        /\ r[y].older \in C /\ r[r[y].older].newer = y
    BY <1>2
  <2>3. q[y].newer \in C \ {x} /\ Before(q, x, q[y].newer) = y
    <3>1. CASE y = o
      <4>1. q[y].newer = n
        BY <1>1, <1>5, <3>1
      <4> QED
        BY <1>3, <1>4, <2>1, <3>1, <4>1
    <3>2. CASE y # o
      <4>1. q[y].newer = r[y].newer /\ r[y].newer # x /\ r[y].newer # n
        BY <1>1, <1>3, <1>5, <2>2, <3>2
      <4> QED
        BY <2>1, <2>2, <4>1
    <3> QED
      BY <3>1, <3>2
  <2>4. Before(q, x, y) \in C \ {x} /\ q[Before(q, x, y)].newer = y
    <3>1. CASE y = n
      BY <1>1, <1>3, <1>4, <1>5, <2>1, <3>1
    <3>2. CASE y # n
      <4>1. Before(q, x, y) = r[y].older /\ r[y].older # x /\ r[y].older # o
        BY <1>3, <2>1, <2>2, <3>2
      <4> QED
        BY <1>1, <1>5, <2>2, <4>1
    <3> QED
      BY <3>1, <3>2
  <2> QED
    BY <2>3, <2>4
<1>7. ASSUME NEW S \in SUBSET Links, RList \in S, \A y \in S : q[y].newer \in S
      PROVE  M \ {x} \subseteq S
  <2>1. CASE o \in S
    <3>1. \A y \in S \cup {x} : r[y].newer \in S \cup {x}
      BY <1>1, <1>3, <1>5, <1>7, <2>1
    <3>2. S \cup {x} \in SUBSET Links
      BY <1>1
    <3> QED
      BY <1>2, <1>7, <3>1, <3>2
  <2>2. CASE o \notin S
    <3>1. \A y \in S : r[y].newer \in S
      BY <1>5, <1>7, <2>2
    <3> QED
      BY <1>2, <1>3, <1>7, <2>2, <3>1
  <2> QED
    BY <2>1, <2>2
<1>8. q[x].newer \in C \ {x} /\ q[q[x].newer].older = x
  BY <1>1, <1>3, <1>4, <1>5
<1>9. (M \ {x}) \cup {RList} = C \ {x} /\ M \ {x} \subseteq ThreadIds /\ x \in ThreadIds \ (M \ {x})
  BY <1>1
<1> QED
  BY <1>1, <1>5, <1>6, <1>7, <1>8, <1>9 DEF Ring

LEMMA RingCloses ==
    ASSUME NEW r \in Registries, NEW M, NEW k, k # Nobody, Ring(r, M, k),
           NEW q, q = Relinked(r, k)
    PROVE  q \in Registries /\ Ring(q, M, Nobody)
<1> DEFINE C == M \cup {RList}
<1>1. M \subseteq ThreadIds /\ C \subseteq Links /\ k \in Links /\ k \notin C
  BY LinkNames DEF Ring
<1>2. PICK n \in C : n = r[k].newer /\ r[n].older = k
  BY DEF Ring
<1>3. PICK o \in Links : o = r[k].older
  BY <1>1 DEF Registries
<1>4. /\ q \in Registries
      /\ \A y \in Links : /\ q[y].newer = r[y].newer
                          /\ q[y].older = IF y = n THEN o ELSE r[y].older
  BY <1>1, <1>2, <1>3 DEF Registries, Relinked
<1>5. \A y \in C : q[y].older = Before(r, k, y)
  <2> TAKE y \in C
  <2>1. r[Before(r, k, y)].newer = y /\ r[Before(r, k, n)].newer = n
    BY <1>2 DEF Ring
  <2> QED
    BY <1>1, <1>2, <1>3, <1>4, <2>1 DEF Before
<1>6. ASSUME NEW y \in C
      PROVE  /\ q[y].newer \in C /\ q[q[y].newer].older = y
             /\ q[y].older \in C /\ q[q[y].older].newer = y
  <2>1. /\ r[y].newer \in C /\ Before(r, k, r[y].newer) = y
        /\ Before(r, k, y) \in C /\ r[Before(r, k, y)].newer = y
    BY DEF Ring
  <2> QED
    BY <1>1, <1>4, <1>5, <2>1
<1>7. \A S \in SUBSET Links : RList \in S /\ (\A y \in S : q[y].newer \in S) => M \subseteq S
  BY <1>4 DEF Ring
<1> QED
  BY <1>1, <1>4, <1>6, <1>7, WholeRing

\* Who is in the registry.
LEMMA ListedStay ==
    ASSUME RegistryInv
    PROVE  \A x \in ThreadIds : Registered(x) <=> Stays(x)
<1>1. PICK k : Ring(registry, Staying, k)
  BY DEF RegistryInv
<1> QED
  BY <1>1, RingReached DEF Staying

\* When nobody changes the registry outside the lock zone nothing is cut out.
LEMMA NobodyCut ==
    ASSUME RegistryInv, \A t \in ThreadIds : job[t].at # "relinking"
    PROVE  Ring(registry, Staying, Nobody)
<1>1. PICK k : Ring(registry, Staying, k) /\ k = Nobody
  BY DEF RegistryInv
<1> QED
  BY <1>1

-----------------------------------------------------------------------------
(***************************************************************************)
(* What a step leaves as it was.                                           *)
(***************************************************************************)
\* Nobody begins or ends a change of the registry.
CutsKept ==
    \A t \in ThreadIds : job[t].at \in Cutting \/ job'[t].at \in Cutting => job'[t] = job[t]

LEMMA RegistryKept ==
    ASSUME RegistryInv, registry' = registry, CutsKept,
           \A x \in ThreadIds : /\ (th'[x].state = "NONE") <=> (th[x].state = "NONE")
                                /\ (th'[x].state = "FINAL") <=> (th[x].state = "FINAL")
                                /\ Freed(x)' <=> Freed(x),
           Alive(Main)'
    PROVE  RegistryInv'
<1>1. Staying' = Staying
  BY DEF Staying, Stays
<1>2. \A t \in ThreadIds : /\ job'[t].at \in Cutting => job'[t] = job[t]
                           /\ job[t].at \in Cutting => job'[t] = job[t]
  BY DEF CutsKept
<1>3. PICK k : /\ Ring(registry, Staying, k)
               /\ \A t \in ThreadIds : job[t].at = "relinking" => job[t].x = k
               /\ k # Nobody => \E t \in ThreadIds : job[t].at = "relinking"
  BY DEF RegistryInv
<1>4. \A t \in ThreadIds : /\ job'[t].at = "relinking" => job'[t] = job[t]
                           /\ job[t].at = "relinking" => job'[t] = job[t]
  BY <1>2 DEF Cutting
<1>5. Ring(registry', Staying', k)
  BY <1>1, <1>3
<1>6. \A t \in ThreadIds : job'[t].at = "relinking" => job'[t].x = k
  BY <1>3, <1>4
<1>7. k # Nobody => \E t \in ThreadIds : job'[t].at = "relinking"
  BY <1>3, <1>4
<1>8. ASSUME NEW t \in ThreadIds, NEW u \in ThreadIds,
             job'[t].at \in Cutting, job'[u].at \in Cutting
      PROVE  t = u
  <2>1. job'[t] = job[t] /\ job'[u] = job[u]
    BY <1>2, <1>8
  <2>2. job[t].at \in Cutting /\ job[u].at \in Cutting
    BY <1>8, <2>1
  <2> QED
    BY <2>2 DEF RegistryInv
<1> QED
  BY <1>5, <1>6, <1>7, <1>8 DEF RegistryInv

LEMMA MemoryKept ==
    ASSUME MemoryInv, UNCHANGED <<heap, pool>>,
           \A x \in ThreadIds : /\ (th'[x].state = "NONE") <=> (th[x].state = "NONE")
                                /\ InHand(x)' <=> InHand(x)
    PROVE  MemoryInv'
BY DEF MemoryInv, Taken

LEMMA HeapKept ==
    ASSUME HeapInv, heap' = heap
    PROVE  HeapInv'
BY DEF HeapInv

LEMMA MessagesKept ==
    ASSUME MessagesInv, UNCHANGED <<msgqueue, mstate>>
    PROVE  MessagesInv'
BY DEF MessagesInv

LEMMA JobTypes ==
    /\ Idle \in Jobs /\ Idle.at = "idle"
    /\ \A w \in Stages, x \in ThreadIds : At(w, x) \in Jobs /\ At(w, x).at = w /\ At(w, x).x = x
    /\ \A n \in 0..Area + MaxRequest :
         [Idle EXCEPT !.at = "asking", !.n = n] \in Jobs
         /\ [Idle EXCEPT !.at = "asking", !.n = n].at = "asking"
<1>1. Area \in Nat /\ MaxRequest \in Nat /\ 0 \in 0..Area + MaxRequest
  BY ThreadsAssumption, HeapAssumption
<1> QED
  BY <1>1, Names DEF Idle, At, Jobs, Stages

LEMMA Typed ==
    ASSUME TypeInv
    PROVE  /\ \A x \in ThreadIds : /\ th[x] \in ThreadStates /\ th[x].refs \in Nat
                                   /\ th[x].state \in {"NONE", "LIVE", "WTEXIT", "FINAL"}
                                   /\ th[x].waiting \subseteq ThreadIds
           /\ \A t \in ThreadIds : job[t] \in Jobs /\ job[t].at \in Stages /\ job[t].x \in ThreadIds
BY DEF TypeInv, ThreadStates, Jobs

LEMMA RefsSet ==
    ASSUME TypeInv, NEW x \in ThreadIds, NEW n \in Nat, th' = [th EXCEPT ![x].refs = n]
    PROVE  /\ th' \in [ThreadIds -> ThreadStates]
           /\ \A y \in ThreadIds : /\ th'[y].state = th[y].state
                                   /\ th'[y].waiting = th[y].waiting
                                   /\ th'[y].refs = IF y = x THEN n ELSE th[y].refs
<1>1. th \in [ThreadIds -> ThreadStates] /\ th[x] \in ThreadStates
  BY DEF TypeInv
<1>2. PICK r \in ThreadStates : r = [th[x] EXCEPT !.refs = n]
  BY <1>1 DEF ThreadStates
<1>3. th' = [th EXCEPT ![x] = r]
  BY <1>2
<1>4. r.state = th[x].state /\ r.waiting = th[x].waiting /\ r.refs = n
  BY <1>1, <1>2 DEF ThreadStates
<1> QED
  BY <1>1, <1>3, <1>4

-----------------------------------------------------------------------------
(***************************************************************************)
(* Giving up a reference.                                                  *)
(***************************************************************************)
LEMMA DropStep ==
    ASSUME TypeInv, ThreadInv, NEW t \in ThreadIds, NEW x \in ThreadIds,
           NEW kind \in Kinds, <<t, x, kind>> \in held, Drop(t, x, kind),
           UNCHANGED <<use, heap, pool, registry>>,
           job[t].at \in {"idle", "waiting", "leaving"},
           job[t].at = "waiting" => th[t].state = "LIVE",
           job[t].at = "leaving" => kind = "walk" /\ job[t].x = x
    PROVE  TypeInv' /\ ThreadInv'
<1> USE DEF ThreadInv
<1>1. t \in Callers /\ Alive(t) /\ th[x].state # "NONE" /\ (kind = "walk" => t = Walker)
  BY DEF HeldInv
<1>2. th[x].refs \in Nat /\ th[x].refs # 0
  BY NoRefs
<1>3. /\ th' = [th EXCEPT ![x].refs = th[x].refs - 1]
      /\ held' = held \ {<<t, x, kind>>}
      /\ job' = [job EXCEPT ![t] = IF th[x].refs = 1 THEN At("released", x) ELSE Idle]
  BY DEF Drop
<1>4. th' \in [ThreadIds -> ThreadStates]
      /\ \A y \in ThreadIds : /\ th'[y].state = th[y].state /\ th'[y].waiting = th[y].waiting
                              /\ th'[y].refs = IF y = x THEN th[x].refs - 1 ELSE th[y].refs
  <2>1. th[x].refs - 1 \in Nat
    BY <1>2
  <2> QED
    BY <1>3, <2>1, RefsSet
<1>5. /\ job' \in [ThreadIds -> Jobs]
      /\ \A u \in ThreadIds : u # t => job'[u] = job[u]
      /\ IF th[x].refs = 1 THEN job'[t].at = "released" /\ job'[t].x = x
         ELSE job'[t].at = "idle"
  <2>1. "released" \in Stages
    BY DEF Stages
  <2> QED
    BY <1>3, <2>1, JobTypes DEF TypeInv
<1>6. TypeInv'
  BY <1>3, <1>4, <1>5 DEF TypeInv
<1>7. CountInv'
  <2> DEFINE e == <<t, x, kind>>
  <2>1. /\ IsFiniteSet(held')
        /\ \A y : Cardinality(RefsOf(held', y))
                   = IF y = e[2] THEN Cardinality(RefsOf(held, y)) - 1
                     ELSE Cardinality(RefsOf(held, y))
    BY <1>3, RefsDropped DEF CountInv
  <2> QED
    BY <1>4, <2>1 DEF CountInv
<1>8. HeldInv'
  <2>1. \A u, y \in ThreadIds, k \in Kinds : <<u, y, k>> \in held' =>
          /\ u \in Callers /\ Alive(u)' /\ th'[y].state # "NONE"
          /\ k = "walk" => u = Walker
    BY <1>3, <1>4 DEF HeldInv, Alive
  <2>2. ASSUME NEW y \in ThreadIds, NEW z \in ThreadIds, y # z,
               <<Walker, y, "walk">> \in held', <<Walker, z, "walk">> \in held'
        PROVE  job'[Walker].at = "leaving" /\ job'[Walker].x \in {y, z}
    <3>1. job[Walker].at = "leaving" /\ job[Walker].x \in {y, z}
      BY <1>3, <2>2 DEF HeldInv
    <3>2. t # Walker
      BY <1>3, <2>2, <3>1
    <3> QED
      BY <1>5, <3>1, <3>2, Names
  <2> QED
    BY <2>1, <2>2 DEF HeldInv
<1>9. JobInv'
  BY <1>1, <1>3, <1>4, <1>5 DEF JobInv, Alive
<1>10. \A u \in ThreadIds : job[u].at \in Giving => job[u].x # x /\ u # t
  BY <1>2 DEF GivenUp, Giving
<1>11. OnlyOne'
  BY <1>5, <1>10 DEF OnlyOne, Giving
<1>12. GivenUp'
  BY <1>2, <1>4, <1>5, <1>10, Typed DEF GivenUp, Giving
<1>13. WaitInv'
  BY <1>4, <1>5 DEF WaitInv
<1>14. RegistryInv'
  <2>1. CutsKept /\ \A y \in ThreadIds : Freed(y)' <=> Freed(y)
    BY <1>5 DEF CutsKept, Cutting, Freed
  <2>2. Alive(Main)'
    BY <1>4, Names DEF RegistryInv, Alive
  <2> QED
    BY <1>4, <2>1, <2>2, RegistryKept
<1>15. MemoryInv'
  <2>1. \A y \in ThreadIds : InHand(y)' <=> InHand(y)
    BY <1>5 DEF InHand
  <2> QED
    BY <1>4, <2>1, MemoryKept
<1> QED
  BY <1>6, <1>7, <1>8, <1>9, <1>11, <1>12, <1>13, <1>14, <1>15

-----------------------------------------------------------------------------
(***************************************************************************)
(* Taking a reference.                                                     *)
(***************************************************************************)
\* The job of the walker is to leave z, or is what it was.
Leaves(z) ==
    /\ job' \in [ThreadIds -> Jobs]
    /\ \A u \in ThreadIds :
         \/ job'[u] = job[u]
         \/ /\ u = Walker /\ job[u].at = "idle" /\ <<u, z, "walk">> \in held
            /\ job'[u].at = "leaving" /\ job'[u].x = z

LEMMA TakeStep ==
    ASSUME TypeInv, ThreadInv, NEW t \in ThreadIds, NEW x \in ThreadIds,
           NEW kind \in Kinds, <<t, x, kind>> \notin held,
           t \in Callers, Alive(t), th[x].state # "NONE",
           th' = [th EXCEPT ![x].refs = @ + 1], held' = held \cup {<<t, x, kind>>},
           NEW z \in ThreadIds, Leaves(z), UNCHANGED <<use, heap, pool, registry>>,
           ~ Releasing(x),
           kind = "walk" =>
             /\ t = Walker
             /\ \A y \in ThreadIds : <<t, y, "walk">> \in held =>
                  job'[t].at = "leaving" /\ job'[t].x = y
    PROVE  TypeInv' /\ ThreadInv'
<1> USE DEF ThreadInv
<1>1. th' \in [ThreadIds -> ThreadStates]
      /\ \A y \in ThreadIds : /\ th'[y].state = th[y].state /\ th'[y].waiting = th[y].waiting
                              /\ th'[y].refs = IF y = x THEN th[x].refs + 1 ELSE th[y].refs
  <2>1. PICK n \in Nat : n = th[x].refs + 1
    <3>1. th[x].refs + 1 \in Nat
      BY Typed
    <3> QED
      BY <3>1
  <2>2. th' = [th EXCEPT ![x].refs = n]
    BY <2>1
  <2>3. th' \in [ThreadIds -> ThreadStates]
        /\ \A y \in ThreadIds : /\ th'[y].state = th[y].state
                                /\ th'[y].waiting = th[y].waiting
                                /\ th'[y].refs = IF y = x THEN n ELSE th[y].refs
    BY <2>2, RefsSet, Zenon
  <2> QED
    BY <2>1, <2>3
<1>2. \A u \in ThreadIds : \/ job'[u] = job[u]
                          \/ /\ u = Walker /\ job[u].at = "idle" /\ <<u, z, "walk">> \in held
                             /\ job'[u].at = "leaving" /\ job'[u].x = z
  BY DEF Leaves
<1>3. TypeInv'
  BY <1>1 DEF TypeInv, Leaves
<1>4. CountInv'
  <2> DEFINE e == <<t, x, kind>>
  <2>1. /\ IsFiniteSet(held')
        /\ \A y : Cardinality(RefsOf(held', y))
                   = IF y = e[2] THEN Cardinality(RefsOf(held, y)) + 1
                     ELSE Cardinality(RefsOf(held, y))
    BY RefsAdded DEF CountInv
  <2> QED
    BY <1>1, <2>1 DEF CountInv
<1>5. HeldInv'
  <2>1. \A u, y \in ThreadIds, k \in Kinds : <<u, y, k>> \in held' =>
          /\ u \in Callers /\ Alive(u)' /\ th'[y].state # "NONE"
          /\ k = "walk" => u = Walker
    BY <1>1 DEF HeldInv, Alive
  <2>2. ASSUME NEW y \in ThreadIds, NEW w \in ThreadIds, y # w,
               <<Walker, y, "walk">> \in held', <<Walker, w, "walk">> \in held'
        PROVE  job'[Walker].at = "leaving" /\ job'[Walker].x \in {y, w}
    <3>1. CASE <<Walker, y, "walk">> \in held /\ <<Walker, w, "walk">> \in held
      <4>1. job[Walker].at = "leaving" /\ job[Walker].x \in {y, w}
        BY <2>2, <3>1 DEF HeldInv
      <4> QED
        BY <1>2, <4>1, Names
    <3>2. CASE ~ (<<Walker, y, "walk">> \in held /\ <<Walker, w, "walk">> \in held)
      BY <2>2, <3>2
    <3> QED
      BY <3>1, <3>2
  <2> QED
    BY <2>1, <2>2 DEF HeldInv
<1>6. JobInv'
  <2> SUFFICES ASSUME NEW u \in ThreadIds PROVE JobInv!(u)'
    BY DEF JobInv
  <2>1. CASE job'[u] = job[u]
    BY <1>1, <2>1 DEF JobInv, Alive
  <2>2. CASE job'[u] # job[u]
    BY <1>1, <1>2, <2>2 DEF HeldInv, Alive, Kinds
  <2> QED
    BY <2>1, <2>2
<1>0. \A u \in ThreadIds : job'[u].at # "leaving" => job'[u] = job[u]
  BY <1>2
<1>7. OnlyOne'
  BY <1>0 DEF OnlyOne, Giving
<1>8. GivenUp'
  <2>1. \A u \in ThreadIds : job[u].at \in Giving => job[u].x # x
    BY DEF Releasing, Giving
  <2>2. \A u \in ThreadIds : job[u].at \in Giving => th[job[u].x].refs = 0 /\ job[u].x \in ThreadIds
    BY Typed DEF GivenUp
  <2>3. \A u \in ThreadIds : job'[u].at \in Giving => job[u].at \in Giving /\ job'[u] = job[u]
    BY <1>0 DEF Giving
  <2> QED
    BY <1>1, <2>1, <2>2, <2>3 DEF GivenUp
<1>9. WaitInv'
  <2>1. \A u \in ThreadIds : job[u].at = "waiting" => job'[u] = job[u]
    BY <1>2
  <2> QED
    BY <1>1, <2>1 DEF WaitInv
<1>10. RegistryInv'
  <2>1. CutsKept /\ \A y \in ThreadIds : Freed(y)' <=> Freed(y)
    BY <1>2 DEF CutsKept, Cutting, Freed
  <2>2. Alive(Main)'
    BY <1>1, Names DEF RegistryInv, Alive
  <2> QED
    BY <1>1, <2>1, <2>2, RegistryKept
<1>11. MemoryInv'
  <2>1. \A y \in ThreadIds : InHand(y)' <=> InHand(y)
    BY <1>2 DEF InHand
  <2> QED
    BY <1>1, <2>1, MemoryKept
<1> QED
  BY <1>3, <1>4, <1>5, <1>6, <1>7, <1>8, <1>9, <1>10, <1>11

\* The walker leaves the last thread, or one that is not in the registry.
LEMMA LeaveStep ==
    ASSUME TypeInv, ThreadInv, NEW z \in ThreadIds, Leaves(z),
           UNCHANGED <<use, heap, pool, registry, held, th>>
    PROVE  TypeInv' /\ ThreadInv'
<1> USE DEF ThreadInv
<1>1. \A u \in ThreadIds : \/ job'[u] = job[u]
                          \/ /\ u = Walker /\ job[u].at = "idle" /\ <<u, z, "walk">> \in held
                             /\ job'[u].at = "leaving" /\ job'[u].x = z
  BY DEF Leaves
<1>2. TypeInv' /\ CountInv'
  BY DEF TypeInv, CountInv, Leaves
<1>3. HeldInv'
  BY <1>1, Names DEF HeldInv, Alive
<1>4. JobInv'
  <2> SUFFICES ASSUME NEW u \in ThreadIds PROVE JobInv!(u)'
    BY DEF JobInv
  <2>1. CASE job'[u] = job[u]
    BY <2>1 DEF JobInv, Alive
  <2>2. CASE job'[u] # job[u]
    BY <1>1, <2>2 DEF HeldInv, Alive, Kinds
  <2> QED
    BY <2>1, <2>2
<1>5. OnlyOne' /\ WaitInv'
  <2>1. \A u \in ThreadIds : job'[u].at # "leaving" => job'[u] = job[u]
    BY <1>1
  <2>2. \A u \in ThreadIds : job[u].at = "waiting" => job'[u] = job[u]
    BY <1>1
  <2>3. OnlyOne'
    BY <2>1 DEF OnlyOne, Giving
  <2> QED
    BY <2>2, <2>3 DEF WaitInv
<1>6. GivenUp'
  BY <1>1 DEF GivenUp, Giving
<1>7. RegistryInv'
  <2>1. CutsKept /\ \A y \in ThreadIds : Freed(y)' <=> Freed(y)
    BY <1>1 DEF CutsKept, Cutting, Freed
  <2>2. Alive(Main)'
    BY DEF RegistryInv, Alive
  <2> QED
    BY <2>1, <2>2, RegistryKept
<1>8. MemoryInv'
  <2>1. \A y \in ThreadIds : InHand(y)' <=> InHand(y)
    BY <1>1 DEF InHand
  <2> QED
    BY <2>1, MemoryKept
<1> QED
  BY <1>2, <1>3, <1>4, <1>5, <1>6, <1>7, <1>8

-----------------------------------------------------------------------------
(***************************************************************************)
(* The calls that take and give up references.                             *)
(***************************************************************************)
LEMMA FreeMeans ==
    ASSUME TypeInv, NEW t \in ThreadIds, Free(t)
    PROVE  Alive(t) /\ th[t].state = "LIVE" /\ job[t] = Idle /\ job[t].at = "idle"
BY JobTypes DEF Free, Alive

LEMMA AddRefStep ==
    ASSUME TypeInv, ThreadInv, NEW t \in ThreadIds, NEW u \in ThreadIds,
           NEW x \in ThreadIds, chThdAddRef(t, u, x), use' = use
    PROVE  TypeInv' /\ ThreadInv'
<1> USE DEF ThreadInv
<1>1. <<t, x, "own">> \in held /\ u \in Callers /\ Alive(u) /\ "own" \in Kinds
  BY DEF chThdAddRef, Alive, Kinds
<1>2. th[x].state # "NONE" /\ th[x].refs # 0
  BY <1>1, NoRefs DEF HeldInv
<1>3. ~ Releasing(x)
  BY <1>2 DEF GivenUp, Giving, Releasing
<1>4. Leaves(Main)
  BY DEF Leaves, chThdAddRef, TypeInv
<1>5. /\ <<u, x, "own">> \notin held /\ held' = held \cup {<<u, x, "own">>}
      /\ th' = [th EXCEPT ![x].refs = @ + 1]
      /\ UNCHANGED <<heap, pool, registry>>
  BY DEF chThdAddRef
<1> QED
  BY <1>1, <1>2, <1>3, <1>4, <1>5, Names, TakeStep

LEMMA ReleaseStep ==
    ASSUME TypeInv, ThreadInv, NEW t \in ThreadIds, NEW x \in ThreadIds,
           NEW kind \in Kinds, chThdRelease(t, x, kind), use' = use
    PROVE  TypeInv' /\ ThreadInv'
<1>1. /\ <<t, x, kind>> \in held /\ Drop(t, x, kind) /\ job[t].at = "idle"
      /\ UNCHANGED <<heap, pool, registry>>
  BY FreeMeans DEF chThdRelease
<1> QED
  BY <1>1, DropStep

LEMMA WaitEndsStep ==
    ASSUME TypeInv, ThreadInv, NEW t \in ThreadIds, WaitEnds(t), use' = use
    PROVE  TypeInv' /\ ThreadInv'
<1>1. PICK x \in ThreadIds : x = job[t].x
  BY Typed
<1>2. /\ <<t, x, "own">> \in held /\ Drop(t, x, "own") /\ job[t].at = "waiting"
      /\ th[t].state = "LIVE" /\ "own" \in Kinds
      /\ UNCHANGED <<heap, pool, registry>>
  BY <1>1 DEF WaitEnds, ThreadInv, JobInv, Kinds
<1> QED
  BY <1>2, DropStep

LEMMA NextReleasesStep ==
    ASSUME TypeInv, ThreadInv, NEW t \in ThreadIds, NextReleases(t), use' = use
    PROVE  TypeInv' /\ ThreadInv'
<1>1. PICK x \in ThreadIds : x = job[t].x
  BY Typed
<1>2. /\ <<t, x, "walk">> \in held /\ Drop(t, x, "walk") /\ job[t].at = "leaving"
      /\ "walk" \in Kinds
      /\ UNCHANGED <<heap, pool, registry>>
  BY <1>1 DEF NextReleases, ThreadInv, JobInv, Kinds
<1> QED
  BY <1>1, <1>2, DropStep

LEMMA FirstStep ==
    ASSUME Races = {}, TypeInv, ThreadInv, NEW t \in ThreadIds, chRegFirstThread(t), use' = use
    PROVE  TypeInv' /\ ThreadInv'
<1> USE DEF ThreadInv
<1>1. PICK k : Ring(registry, Staying, k)
  BY DEF RegistryInv
<1>2. PICK x \in ThreadIds : x = registry[RList].newer /\ th[x].state # "NONE"
  <2>1. Main \in Staying
    BY Names DEF RegistryInv, Alive, Staying, Stays
  <2>2. ASSUME registry[RList].newer = RList PROVE FALSE
    <3>1. {RList} \in SUBSET Links /\ \A y \in {RList} : registry[y].newer \in {RList}
      BY <2>2, LinkNames
    <3>2. Staying \subseteq {RList}
      BY <1>1, <3>1 DEF Ring
    <3> QED
      BY <2>1, <3>2, LinkNames, Names
  <2>3. registry[RList].newer \in Staying \cup {RList}
    BY <1>1 DEF Ring
  <2> QED
    BY <2>1, <2>2, <2>3 DEF Staying, Stays
<1>3. /\ t = Walker /\ t \in Callers /\ Alive(t) /\ "walk" \in Kinds
      /\ \A y \in ThreadIds : <<t, y, "walk">> \notin held
  BY Names, FreeMeans DEF chRegFirstThread, Walks, Kinds
<1>4. /\ th' = [th EXCEPT ![x].refs = @ + 1] /\ held' = held \cup {<<t, x, "walk">>}
      /\ ~ Releasing(x) /\ UNCHANGED <<heap, pool, registry, job>>
  BY <1>2 DEF chRegFirstThread, Visit
<1>5. Leaves(Main)
  BY <1>4 DEF Leaves, TypeInv
<1> QED
  BY <1>2, <1>3, <1>4, <1>5, Names, TakeStep

LEMMA NextStep ==
    ASSUME Races = {}, TypeInv, ThreadInv, NEW t \in ThreadIds, NEW x \in ThreadIds,
           chRegNextThread(t, x), use' = use
    PROVE  TypeInv' /\ ThreadInv'
<1> USE DEF ThreadInv
<1>1. /\ <<t, x, "walk">> \in held /\ job[t].at = "idle" /\ Alive(t) /\ "walk" \in Kinds
      /\ job' = [job EXCEPT ![t] = At("leaving", x)] /\ UNCHANGED <<heap, pool, registry>>
  BY FreeMeans DEF chRegNextThread, Kinds
<1>2. t = Walker /\ t \in Callers
  BY <1>1 DEF HeldInv
<1>3. job'[t].at = "leaving" /\ job'[t].x = x
  BY <1>1, JobTypes DEF Stages, TypeInv
<1>4. Leaves(x)
  <2>1. At("leaving", x) \in Jobs
    BY JobTypes DEF Stages
  <2> QED
    BY <1>1, <1>2, <1>3, <2>1 DEF Leaves, TypeInv
<1>5. PICK y \in Links : y = registry[x].newer
  BY LinkNames DEF TypeInv, Registries
<1>6. CASE y = RList
  <2>1. UNCHANGED <<held, th>>
    BY <1>5, <1>6 DEF chRegNextThread
  <2> QED
    BY <1>1, <1>4, <2>1, LeaveStep
<1>7. CASE y # RList
  <2>1. y \in ThreadIds /\ Visit(t, y)
    BY <1>5, <1>7, LinkNames DEF chRegNextThread
  <2>2. /\ held' = held \cup {<<t, y, "walk">>} /\ th' = [th EXCEPT ![y].refs = @ + 1]
        /\ Registered(y) /\ ~ Releasing(y)
    BY <2>1 DEF Visit
  <2>3. Stays(y) /\ th[y].state # "NONE"
    BY <2>1, <2>2, ListedStay DEF Stays
  <2>4. y # x
    <3>1. PICK k : Ring(registry, Staying, k)
      BY DEF RegistryInv
    <3>2. y \in Staying
      BY <2>1, <2>3 DEF Staying
    <3> QED
      BY <1>5, <3>1, <3>2, NoLoop
  <2>5. \A w \in ThreadIds : <<t, w, "walk">> \in held => w = x
    BY <1>1, <1>2 DEF HeldInv
  <2>6. \A w \in ThreadIds : <<t, w, "walk">> \in held => job'[t].at = "leaving" /\ job'[t].x = w
    BY <1>3, <2>5
  <2>7. <<t, y, "walk">> \notin held
    BY <2>1, <2>4, <2>5
  <2> QED
    BY <1>1, <1>2, <1>4, <2>1, <2>2, <2>3, <2>6, <2>7, TakeStep
<1> QED
  BY <1>6, <1>7

-----------------------------------------------------------------------------
(***************************************************************************)
(* Creation.                                                               *)
(***************************************************************************)
LEMMA TakenIs ==
    /\ \A a : <<"heap", a>> \in Taken <=> <<"heap", a>> \in Objects \/ \E b \in heap.used : b.at = a
    /\ \A x \in Objects : x \in Taken <=> x \notin Range(pool)
BY Names DEF Taken, Objects

LEMMA HeapTaken ==
    ASSUME NEW a, Handed(a), pool' = pool, heap.end = ThreadCore
    PROVE  /\ <<"heap", a>> \in ThreadIds /\ Dynamic(<<"heap", a>>)
           /\ <<"heap", a>> \notin Taken /\ Taken' = Taken \cup {<<"heap", a>>}
<1>1. PICK f : f.at = a /\ heap'.used = heap.used \cup {f}
  BY DEF Handed
<1>2. a \in 0..ThreadCore - 1 /\ \A b \in heap.used : b.at # a
  BY DEF Handed
<1>3. <<"heap", a>> \notin Taken
  BY <1>2, Names, TakenIs
<1> QED
  BY <1>1, <1>2, <1>3, Names DEF Taken

LEMMA PoolTaken ==
    ASSUME TypeInv, MemoryInv, pool # <<>>, pool' = Tail(pool), heap' = heap
    PROVE  /\ pool' \in Seq(Objects)
           /\ \A i, j \in 1..Len(pool') : pool'[i] = pool'[j] => i = j
           /\ Head(pool) \in ThreadIds /\ Dynamic(Head(pool))
           /\ Head(pool) \notin Taken /\ Taken' = Taken \cup {Head(pool)}
<1>1. /\ Len(pool) \in Nat /\ Len(pool) > 0 /\ DOMAIN pool = 1..Len(pool)
      /\ \A i \in 1..Len(pool) : pool[i] \in Objects
      /\ Head(pool) = pool[1]
  BY ElementOfSeq, LenProperties, EmptySeq DEF TypeInv
<1>2. /\ pool' \in Seq(Objects) /\ Len(pool') = Len(pool) - 1
      /\ \A i \in 1..Len(pool') : pool'[i] = pool[i + 1]
  BY HeadTailProperties DEF TypeInv
<1>3. \A i, j \in 1..Len(pool) : pool[i] = pool[j] => i = j
  BY DEF MemoryInv
<1>4. \A i, j \in 1..Len(pool') : pool'[i] = pool'[j] => i = j
  <2> TAKE i, j \in 1..Len(pool')
  <2>1. i + 1 \in 1..Len(pool) /\ j + 1 \in 1..Len(pool) /\ i \in Int /\ j \in Int
    BY <1>1, <1>2
  <2> QED
    BY <1>2, <1>3, <2>1
<1>5. DOMAIN pool' = 1..Len(pool')
  BY <1>2, LenProperties
<1>6. Range(pool') = Range(pool) \ {pool[1]}
  <2>1. \A o : o \in Range(pool) <=> \E i \in 1..Len(pool) : o = pool[i]
    BY <1>1 DEF Range
  <2>2. \A o : o \in Range(pool)' <=> \E i \in 1..Len(pool') : o = pool'[i]
    BY <1>5 DEF Range
  <2>3. ASSUME NEW o, o \in Range(pool)' PROVE o \in Range(pool) \ {pool[1]}
    <3>1. PICK i \in 1..Len(pool') : o = pool'[i]
      BY <2>2, <2>3
    <3>2. i + 1 \in 1..Len(pool) /\ i + 1 # 1 /\ o = pool[i + 1] /\ 1 \in 1..Len(pool)
      BY <1>1, <1>2, <3>1
    <3> QED
      BY <1>3, <2>1, <3>2
  <2>4. ASSUME NEW o \in Range(pool) \ {pool[1]} PROVE o \in Range(pool)'
    <3>1. PICK i \in 1..Len(pool) : o = pool[i]
      BY <2>1
    <3>2. i - 1 \in 1..Len(pool') /\ (i - 1) + 1 = i
      BY <1>1, <1>2, <2>4, <3>1
    <3> QED
      BY <1>2, <2>2, <3>1, <3>2
  <2> QED
    BY <2>3, <2>4
<1>7. pool[1] \in Range(pool) /\ pool[1] \in Objects
  BY <1>1 DEF Range
<1>8. Taken' = Taken \cup {pool[1]}
  BY <1>6, <1>7 DEF Taken, Objects
<1> QED
  BY <1>1, <1>2, <1>4, <1>7, <1>8, Names, TakenIs

\* A thread's memory has been found.
LEMMA MadeStep ==
    ASSUME TypeInv, ThreadInv, NEW t \in ThreadIds, NEW x \in ThreadIds, Dynamic(x),
           t \in Callers, Alive(t), job[t].at \in {"idle", "asking"},
           x \notin Taken, Taken' = Taken \cup {x},
           pool' \in Seq(Objects), \A i, j \in 1..Len(pool') : pool'[i] = pool'[j] => i = j,
           heap'.end = heap.end,
           job' = [job EXCEPT ![t] = At("made", x)],
           UNCHANGED <<th, registry, held, use>>
    PROVE  TypeInv' /\ ThreadInv'
<1> USE DEF ThreadInv
<1>1. th[x].state = "NONE" /\ \A u \in ThreadIds : ~ (job[u].at = "made" /\ job[u].x = x)
  BY DEF MemoryInv, InHand
<1>2. /\ job' \in [ThreadIds -> Jobs] /\ job'[t].at = "made" /\ job'[t].x = x
      /\ \A u \in ThreadIds : u # t => job'[u] = job[u]
  <2>1. At("made", x) \in Jobs /\ At("made", x).at = "made" /\ At("made", x).x = x
    BY JobTypes DEF Stages
  <2> QED
    BY <2>1 DEF TypeInv
<1>3. TypeInv' /\ CountInv'
  BY <1>2 DEF TypeInv, CountInv
<1>4. HeldInv'
  BY <1>2, Names DEF HeldInv, Alive
<1>5. JobInv'
  BY <1>1, <1>2 DEF JobInv, Alive
<1>6. OnlyOne'
  BY <1>1, <1>2 DEF OnlyOne, Giving
<1>7. GivenUp'
  BY <1>2 DEF GivenUp, Giving
<1>8. WaitInv'
  BY <1>2 DEF WaitInv
<1>9. RegistryInv'
  <2>1. CutsKept /\ \A y \in ThreadIds : Freed(y)' <=> Freed(y)
    BY <1>2 DEF CutsKept, Cutting, Freed
  <2> QED
    BY <2>1, RegistryKept DEF RegistryInv, Alive
<1>10. MemoryInv'
  <2>1. \A y \in ThreadIds : InHand(y)' <=> InHand(y) \/ y = x
    BY <1>2 DEF InHand
  <2> QED
    BY <2>1 DEF MemoryInv
<1> QED
  BY <1>3, <1>4, <1>5, <1>6, <1>7, <1>8, <1>9, <1>10

\* A call begins to ask for memory, or has ended with nothing done.
LEMMA AskStep ==
    ASSUME TypeInv, ThreadInv, NEW t \in ThreadIds, t \in Callers, Alive(t),
           job[t].at \in {"idle", "asking", "released"},
           NEW j \in Jobs, j.at \in {"idle", "asking"},
           job' = [job EXCEPT ![t] = j],
           UNCHANGED <<heap, pool, th, registry, held, use>>
    PROVE  TypeInv' /\ ThreadInv'
<1> USE DEF ThreadInv
<1>2. /\ job' \in [ThreadIds -> Jobs] /\ job'[t].at \in {"idle", "asking"}
      /\ \A u \in ThreadIds : u # t => job'[u] = job[u]
  BY DEF TypeInv
<1>3. TypeInv' /\ CountInv'
  BY <1>2 DEF TypeInv, CountInv
<1>4. HeldInv'
  BY <1>2, Names DEF HeldInv, Alive
<1>5. JobInv'
  BY <1>2 DEF JobInv, Alive
<1>6. OnlyOne'
  BY <1>2 DEF OnlyOne, Giving
<1>7. GivenUp'
  BY <1>2 DEF GivenUp, Giving
<1>8. WaitInv'
  BY <1>2 DEF WaitInv
<1>9. RegistryInv'
  <2>1. CutsKept /\ \A y \in ThreadIds : Freed(y)' <=> Freed(y)
    BY <1>2 DEF CutsKept, Cutting, Freed
  <2> QED
    BY <2>1, RegistryKept DEF RegistryInv, Alive
<1>10. MemoryInv'
  <2>1. \A y \in ThreadIds : InHand(y)' <=> InHand(y)
    BY <1>2 DEF InHand
  <2> QED
    BY <2>1, MemoryKept
<1> QED
  BY <1>3, <1>4, <1>5, <1>6, <1>7, <1>8, <1>9, <1>10

LEMMA FromHeapStep ==
    ASSUME TypeInv, HeapInv, ThreadInv, NEW t \in Callers, CreateFromHeap(t), use' = use
    PROVE  TypeInv' /\ ThreadInv' /\ HeapInv'
<1>1. t \in ThreadIds /\ Alive(t) /\ job[t].at = "idle"
  BY FreeMeans, Names DEF CreateFromHeap
<1>2. UNCHANGED <<pool, th, registry, held>>
  BY DEF CreateFromHeap
<1>3. CASE \E a \in 0..heap.end - 1 :
             FindBlock(Area, a) /\ job' = [job EXCEPT ![t] = At("made", <<"heap", a>>)]
  <2>1. PICK a \in 0..heap.end - 1 :
               FindBlock(Area, a) /\ job' = [job EXCEPT ![t] = At("made", <<"heap", a>>)]
    BY <1>3
  <2>2. Handed(a) /\ heap.end = ThreadCore
    BY <2>1, FindBlockStep, ThreadsAssumption DEF ThreadInv, MemoryInv
  <2>3. PICK x : x = <<"heap", a>>
    OBVIOUS
  <2>4. x \in ThreadIds /\ Dynamic(x) /\ x \notin Taken /\ Taken' = Taken \cup {x}
    BY <1>2, <2>2, <2>3, HeapTaken
  <2>5. HeapInv' /\ heap'.end = heap.end
    BY <2>2 DEF Handed
  <2>6. pool' \in Seq(Objects) /\ \A i, j \in 1..Len(pool') : pool'[i] = pool'[j] => i = j
    BY <1>2 DEF TypeInv, ThreadInv, MemoryInv
  <2>7. job' = [job EXCEPT ![t] = At("made", x)]
    BY <2>1, <2>3
  <2> QED
    BY <1>1, <1>2, <2>4, <2>5, <2>6, <2>7, MadeStep
<1>4. CASE /\ job' = [job EXCEPT ![t] = [Idle EXCEPT !.at = "asking", !.n = Area]]
           /\ UNCHANGED heap
  <2>1. Area \in 0..Area + MaxRequest
    BY ThreadsAssumption, HeapAssumption
  <2>2. PICK j \in Jobs : j = [Idle EXCEPT !.at = "asking", !.n = Area] /\ j.at = "asking"
    BY <2>1, JobTypes
  <2>3. job' = [job EXCEPT ![t] = j]
    BY <1>4, <2>2
  <2> QED
    BY <1>1, <1>2, <1>4, <2>2, <2>3, AskStep, HeapKept
<1> QED
  BY <1>3, <1>4 DEF CreateFromHeap

LEMMA AskCoreStep ==
    ASSUME TypeInv, HeapInv, ThreadInv, NEW t \in ThreadIds, AskCore(t),
           use = "threads", use' = use
    PROVE  TypeInv' /\ ThreadInv' /\ HeapInv'
<1>1. t \in Callers /\ Alive(t) /\ job[t].at = "asking"
  BY DEF AskCore, ThreadInv, JobInv
<1>2. UNCHANGED <<pool, th, registry, held>>
  BY DEF AskCore
<1>3. CASE \E a \in 0..heap.end - 1 :
             /\ CoreBlock(job[t].n, a)
             /\ job' = [job EXCEPT ![t] = IF use = "heap" THEN Idle ELSE At("made", <<"heap", a>>)]
  <2>1. PICK a \in 0..heap.end - 1 :
             /\ CoreBlock(job[t].n, a)
             /\ job' = [job EXCEPT ![t] = At("made", <<"heap", a>>)]
    BY <1>3
  <2>2. Handed(a) /\ heap.end = ThreadCore
    <3>1. job[t].n \in Nat
      BY Typed, ThreadsAssumption, HeapAssumption DEF Jobs
    <3> QED
      BY <2>1, <3>1, CoreBlockStep DEF ThreadInv, MemoryInv
  <2>3. PICK x : x = <<"heap", a>>
    OBVIOUS
  <2>4. x \in ThreadIds /\ Dynamic(x) /\ x \notin Taken /\ Taken' = Taken \cup {x}
    BY <1>2, <2>2, <2>3, HeapTaken
  <2>5. HeapInv' /\ heap'.end = heap.end
    BY <2>2 DEF Handed
  <2>6. pool' \in Seq(Objects) /\ \A i, j \in 1..Len(pool') : pool'[i] = pool'[j] => i = j
    BY <1>2 DEF TypeInv, ThreadInv, MemoryInv
  <2>7. job' = [job EXCEPT ![t] = At("made", x)]
    BY <2>1, <2>3
  <2> QED
    BY <1>1, <1>2, <2>4, <2>5, <2>6, <2>7, MadeStep
<1>4. CASE job' = [job EXCEPT ![t] = Idle] /\ UNCHANGED heap
  <2>1. Idle \in Jobs /\ Idle.at = "idle"
    BY JobTypes
  <2> QED
    BY <1>1, <1>2, <1>4, <2>1, AskStep, HeapKept
<1> QED
  BY <1>3, <1>4 DEF AskCore

LEMMA FromPoolStep ==
    ASSUME TypeInv, HeapInv, ThreadInv, NEW t \in Callers, CreateFromPool(t), use' = use
    PROVE  TypeInv' /\ ThreadInv' /\ HeapInv'
<1>1. t \in ThreadIds /\ Alive(t) /\ job[t].at = "idle"
  BY FreeMeans, Names DEF CreateFromPool
<1>2. /\ pool # <<>> /\ pool' = Tail(pool) /\ job' = [job EXCEPT ![t] = At("made", Head(pool))]
      /\ UNCHANGED <<heap, th, registry, held>>
  BY DEF CreateFromPool
<1>3. PICK x : x = Head(pool)
  OBVIOUS
<1>4. /\ pool' \in Seq(Objects)
      /\ \A i, j \in 1..Len(pool') : pool'[i] = pool'[j] => i = j
      /\ x \in ThreadIds /\ Dynamic(x) /\ x \notin Taken /\ Taken' = Taken \cup {x}
  BY <1>2, <1>3, PoolTaken DEF ThreadInv
<1>5. HeapInv' /\ heap'.end = heap.end
  BY <1>2, HeapKept
<1> QED
  BY <1>1, <1>2, <1>3, <1>4, <1>5, MadeStep

\* A thread begins, in memory that no thread has.
LEMMA StartStep ==
    ASSUME Races = {}, TypeInv, ThreadInv, NEW t \in ThreadIds, NEW x \in ThreadIds,
           t \in Callers, Alive(t), job[t].at = "idle" \/ (job[t].at = "made" /\ job[t].x = x),
           IF job[t].at = "made" THEN th[x].state = "NONE" ELSE ~ Dynamic(x),
           th[x].state \in {"NONE", "FINAL"}, th[x].refs = 0, ~ Releasing(x),
           Start(t, x), UNCHANGED <<heap, pool, use>>
    PROVE  TypeInv' /\ ThreadInv'
<1> USE DEF ThreadInv
<1>1. /\ th' \in [ThreadIds -> ThreadStates] /\ job' \in [ThreadIds -> Jobs]
      /\ th'[x].state = "LIVE" /\ th'[x].refs = 1 /\ th'[x].waiting = {}
      /\ \A y \in ThreadIds : y # x => th'[y] = th[y]
      /\ job'[t].at = "idle" /\ \A u \in ThreadIds : u # t => job'[u] = job[u]
  BY JobTypes DEF Start, TypeInv, ThreadStates
<1>2. /\ registry' = Inserted(x) /\ held' = held \cup {<<t, x, "own">>}
      /\ \A u \in ThreadIds : job[u].at \notin Cutting
  BY DEF Start, Undisturbed, Cutting
<1>3. x # t /\ "own" \in Kinds
  BY DEF Alive, Kinds
<1>4. \A u \in ThreadIds, k \in Kinds : <<u, x, k>> \notin held /\ <<x, u, k>> \notin held
  BY NoRefs DEF HeldInv, Alive
<1>5. job[x].at = "idle" /\ \A u \in ThreadIds : job[u].at \in Giving => job[u].x # x
  BY DEF JobInv, Alive, Releasing, Giving
<1>6. ASSUME NEW u \in ThreadIds, u # t, job[u].at = "made" PROVE job[u].x # x
  BY <1>6 DEF JobInv, OnlyOne
<1>7. Ring(registry', Staying \cup {x}, Nobody) /\ registry' \in Registries
  <2>1. Ring(registry, Staying, Nobody)
    BY <1>2, NobodyCut DEF Cutting
  <2>2. x \notin Staying
    BY DEF Staying, Stays
  <2> QED
    BY <1>2, <2>1, <2>2, RingInserts DEF TypeInv
<1>8. TypeInv'
  BY <1>1, <1>2, <1>3, <1>7 DEF TypeInv
<1>9. CountInv'
  <2> DEFINE e == <<t, x, "own">>
  <2>1. /\ IsFiniteSet(held')
        /\ \A y : Cardinality(RefsOf(held', y))
                   = IF y = e[2] THEN Cardinality(RefsOf(held, y)) + 1
                     ELSE Cardinality(RefsOf(held, y))
    BY <1>2, <1>3, <1>4, RefsAdded DEF CountInv
  <2>2. Cardinality(RefsOf(held', x)) = 1
    BY <2>1 DEF CountInv
  <2> QED
    BY <1>1, <2>1, <2>2 DEF CountInv
<1>10. HeldInv'
  <2>1. \A u, y \in ThreadIds, k \in Kinds : <<u, y, k>> \in held' =>
          /\ u \in Callers /\ Alive(u)' /\ th'[y].state # "NONE"
          /\ k = "walk" => u = Walker
    BY <1>1, <1>2, <1>3, <1>4 DEF HeldInv, Alive
  <2>2. ASSUME NEW y \in ThreadIds, NEW w \in ThreadIds, y # w,
               <<Walker, y, "walk">> \in held', <<Walker, w, "walk">> \in held'
        PROVE  job'[Walker].at = "leaving" /\ job'[Walker].x \in {y, w}
    BY <1>1, <1>2, <2>2, Names DEF HeldInv
  <2> QED
    BY <2>1, <2>2 DEF HeldInv
<1>11. JobInv'
  <2> SUFFICES ASSUME NEW u \in ThreadIds, u # t, job[u].at # "idle" PROVE JobInv!(u)'
    BY <1>1 DEF JobInv, Giving
  <2>1. job'[u] = job[u] /\ u # x /\ th'[u] = th[u] /\ u \in Callers /\ Alive(u)
    BY <1>1, <1>5 DEF JobInv
  <2>2. job[u].at \in Giving => th'[job[u].x] = th[job[u].x]
    BY <1>1, <1>5, Typed
  <2>3. job[u].at = "made" => th'[job[u].x] = th[job[u].x]
    BY <1>1, <1>6, Typed
  <2> QED
    BY <1>2, <2>1, <2>2, <2>3 DEF JobInv, Alive, Giving
<1>12. OnlyOne'
  BY <1>1 DEF OnlyOne, Giving
<1>13. GivenUp'
  BY <1>1, <1>5, Typed DEF GivenUp, Giving
<1>14. WaitInv'
  <2> SUFFICES ASSUME NEW y \in ThreadIds, NEW u \in ThreadIds, u \in th'[y].waiting
               PROVE  job'[u].at = "waiting" /\ job'[u].x = y /\ th'[u].state = "WTEXIT"
    BY DEF WaitInv
  <2>1. job[u].at = "waiting" /\ job[u].x = y /\ th[u].state = "WTEXIT"
    BY <1>1 DEF WaitInv
  <2> QED
    BY <1>1, <2>1
<1>15. RegistryInv'
  <2>1. \A y \in ThreadIds : Freed(y)' <=> Freed(y)
    BY <1>1 DEF Freed
  <2>2. ~ Freed(x)
    BY <1>5 DEF Freed, Giving
  <2>3. Staying' = Staying \cup {x}
    BY <1>1, <2>1, <2>2 DEF Staying, Stays
  <2>4. Ring(registry', Staying', Nobody)
    BY <1>7, <2>3
  <2>5. Alive(Main)'
    BY <1>1, Names DEF RegistryInv, Alive
  <2>6. \A u \in ThreadIds : job'[u].at \notin Cutting
    BY <1>1, <1>2 DEF Cutting
  <2> QED
    BY <2>4, <2>5, <2>6 DEF RegistryInv, Cutting
<1>16. MemoryInv'
  <2>1. \A y \in ThreadIds : InHand(y)' => InHand(y)
    BY <1>1 DEF InHand
  <2>2. \A y \in ThreadIds : y # x /\ InHand(y) => InHand(y)'
    BY <1>1 DEF InHand
  <2>3. Dynamic(x) => InHand(x)
    BY DEF InHand
  <2>4. Taken' = Taken
    BY DEF Taken
  <2> QED
    BY <1>1, <2>1, <2>2, <2>3, <2>4 DEF MemoryInv
<1> QED
  BY <1>8, <1>9, <1>10, <1>11, <1>12, <1>13, <1>14, <1>15, <1>16

LEMMA CreateStaticStep ==
    ASSUME Races = {}, TypeInv, ThreadInv, NEW t \in Callers, NEW x \in ThreadIds,
           chThdCreateStatic(t, x), use' = use
    PROVE  TypeInv' /\ ThreadInv'
<1>1. /\ t \in ThreadIds /\ Alive(t) /\ job[t].at = "idle" /\ ~ Dynamic(x)
      /\ th[x].state \in {"NONE", "FINAL"} /\ th[x].refs = 0 /\ ~ Releasing(x)
      /\ Start(t, x) /\ UNCHANGED <<heap, pool>>
  BY FreeMeans, Names DEF chThdCreateStatic
<1> QED
  BY <1>1, StartStep

LEMMA StartMadeStep ==
    ASSUME Races = {}, TypeInv, ThreadInv, NEW t \in ThreadIds, StartMade(t), use' = use
    PROVE  TypeInv' /\ ThreadInv'
<1> USE DEF ThreadInv
<1>1. PICK x \in ThreadIds : x = job[t].x
  BY Typed
<1>2. /\ job[t].at = "made" /\ Start(t, x) /\ UNCHANGED <<heap, pool>>
      /\ t \in Callers /\ Alive(t) /\ th[x].state = "NONE"
  BY <1>1 DEF StartMade, JobInv
<1>3. th[x].refs = 0
  BY <1>2, NoRefs DEF HeldInv
<1>4. ~ Releasing(x)
  BY <1>2 DEF Releasing, JobInv
<1> QED
  BY <1>1, <1>2, <1>3, <1>4, StartStep

-----------------------------------------------------------------------------
(***************************************************************************)
(* The memory is given back.                                               *)
(***************************************************************************)
LEMMA ReleasedStep ==
    ASSUME Races = {}, TypeInv, ThreadInv, NEW t \in ThreadIds, Released(t), use' = use
    PROVE  TypeInv' /\ ThreadInv'
<1> USE DEF ThreadInv
<1>1. PICK x \in ThreadIds : x = job[t].x
  BY Typed
<1>2. /\ job[t].at = "released" /\ t \in Callers /\ Alive(t) /\ th[x].state # "NONE"
      /\ UNCHANGED <<heap, pool, th, registry, held>>
  BY <1>1 DEF Released, JobInv
<1>3. CASE th[x].state = "FINAL" /\ Dynamic(x)
  <2>0. \A u \in ThreadIds : job[u].at \notin Cutting
    BY <1>1, <1>3 DEF Released, Undisturbed, Cutting
  <2>1. job' = [job EXCEPT ![t] = At("unlinking", x)]
    BY <1>1, <1>3, Zenon DEF Released
  <2>2. /\ job' \in [ThreadIds -> Jobs] /\ job'[t].at = "unlinking" /\ job'[t].x = x
        /\ \A u \in ThreadIds : u # t => job'[u] = job[u]
    <3>1. /\ At("unlinking", x) \in Jobs
          /\ At("unlinking", x).at = "unlinking" /\ At("unlinking", x).x = x
      BY JobTypes DEF Stages
    <3> QED
      BY <2>1, <3>1 DEF TypeInv
  <2>3. TypeInv' /\ CountInv'
    BY <1>2, <2>2 DEF TypeInv, CountInv
  <2>4. HeldInv'
    BY <1>2, <2>2, Names DEF HeldInv, Alive
  <2>5. JobInv'
    BY <1>2, <1>3, <2>2 DEF JobInv, Alive
  <2>6. OnlyOne'
    BY <1>1, <1>2, <2>2 DEF OnlyOne, Giving
  <2>7. GivenUp'
    BY <1>1, <1>2, <2>2 DEF GivenUp, Giving
  <2>8. WaitInv'
    BY <1>2, <2>2 DEF WaitInv
  <2>9. RegistryInv'
    <3>1. \A y \in ThreadIds : Freed(y)' <=> Freed(y)
      BY <1>2, <2>2 DEF Freed
    <3>2. Staying' = Staying
      BY <1>2, <3>1 DEF Staying, Stays
    <3>3. Ring(registry', Staying', Nobody)
      BY <1>2, <2>0, <3>2, NobodyCut DEF Cutting
    <3>4. \A u \in ThreadIds : /\ job'[u].at \in Cutting => u = t
                               /\ job'[u].at # "relinking"
      BY <2>0, <2>2 DEF Cutting
    <3> QED
      BY <1>2, <3>3, <3>4 DEF RegistryInv, Alive
  <2>10. MemoryInv'
    <3>1. \A y \in ThreadIds : InHand(y)' <=> InHand(y)
      BY <1>2, <2>2 DEF InHand
    <3> QED
      BY <1>2, <3>1, MemoryKept
  <2> QED
    BY <2>3, <2>4, <2>5, <2>6, <2>7, <2>8, <2>9, <2>10
<1>4. CASE ~ (th[x].state = "FINAL" /\ Dynamic(x))
  <2>1. job' = [job EXCEPT ![t] = Idle]
    BY <1>1, <1>4 DEF Released
  <2> QED
    BY <1>2, <2>1, JobTypes, AskStep
<1> QED
  BY <1>3, <1>4

\* The thread is out of the registry for one who walks it.
LEMMA UnlinkStep ==
    ASSUME TypeInv, ThreadInv, NEW t \in ThreadIds, Unlink(t), use' = use
    PROVE  TypeInv' /\ ThreadInv'
<1> USE DEF ThreadInv
<1>1. PICK x \in ThreadIds : x = job[t].x
  BY Typed
<1>2. /\ job[t].at = "unlinking" /\ t \in Callers /\ Alive(t) /\ th[x].state = "FINAL" /\ Dynamic(x)
      /\ registry' = Unlinked(x) /\ job' = [job EXCEPT ![t].at = "relinking"]
      /\ UNCHANGED <<heap, pool, th, held>>
  BY <1>1 DEF Unlink, JobInv
<1>3. /\ job' \in [ThreadIds -> Jobs] /\ job'[t].at = "relinking" /\ job'[t].x = x
      /\ \A u \in ThreadIds : u # t => job'[u] = job[u]
  BY <1>1, <1>2 DEF TypeInv, Jobs, Stages
<1>4. ~ Freed(x)
  BY <1>1, <1>2 DEF Freed, OnlyOne, Giving
<1>5. \A u \in ThreadIds : u # t => job[u].at \notin Cutting
  BY <1>2 DEF RegistryInv, Cutting
<1>6. registry' \in Registries /\ Ring(registry', Staying \ {x}, x)
  <2>1. Ring(registry, Staying, Nobody)
    BY <1>2, <1>5, NobodyCut DEF Cutting
  <2>2. x \in Staying
    BY <1>2, <1>4 DEF Staying, Stays
  <2> QED
    BY <1>2, <2>1, <2>2, RingCut DEF TypeInv, Unlinked
<1>7. TypeInv' /\ CountInv'
  BY <1>2, <1>3, <1>6 DEF TypeInv, CountInv
<1>8. HeldInv'
  BY <1>2, <1>3, Names DEF HeldInv, Alive
<1>9. JobInv'
  BY <1>2, <1>3 DEF JobInv, Alive
<1>10. OnlyOne'
  BY <1>1, <1>2, <1>3 DEF OnlyOne, Giving
<1>11. GivenUp'
  BY <1>1, <1>2, <1>3 DEF GivenUp, Giving
<1>12. WaitInv'
  BY <1>2, <1>3 DEF WaitInv
<1>13. RegistryInv'
  <2>1. \A y \in ThreadIds : Freed(y)' <=> Freed(y) \/ y = x
    BY <1>2, <1>3 DEF Freed
  <2>2. Staying' = Staying \ {x}
    BY <1>2, <2>1 DEF Staying, Stays
  <2>3. Ring(registry', Staying', x)
    BY <1>6, <2>2
  <2>4. \A u \in ThreadIds : job'[u].at \in Cutting => u = t
    BY <1>3, <1>5 DEF Cutting
  <2>5. \A u \in ThreadIds : job'[u].at = "relinking" => job'[u].x = x
    BY <1>3, <2>4 DEF Cutting
  <2> QED
    BY <1>2, <1>3, <2>3, <2>4, <2>5 DEF RegistryInv, Alive
<1>14. MemoryInv'
  <2>1. \A y \in ThreadIds : InHand(y)' <=> InHand(y)
    BY <1>2, <1>3 DEF InHand
  <2> QED
    BY <1>2, <2>1, MemoryKept
<1> QED
  BY <1>7, <1>8, <1>9, <1>10, <1>11, <1>12, <1>13, <1>14

\* The ring is closed without it.
LEMMA RelinkStep ==
    ASSUME TypeInv, ThreadInv, NEW t \in ThreadIds, Relink(t), use' = use
    PROVE  TypeInv' /\ ThreadInv'
<1> USE DEF ThreadInv
<1>1. PICK x \in ThreadIds : x = job[t].x
  BY Typed
<1>2. /\ job[t].at = "relinking" /\ t \in Callers /\ Alive(t) /\ th[x].state = "FINAL" /\ Dynamic(x)
      /\ registry' = Relinked(registry, x) /\ job' = [job EXCEPT ![t].at = "freeing"]
      /\ UNCHANGED <<heap, pool, th, held>>
  BY <1>1 DEF Relink, JobInv
<1>3. /\ job' \in [ThreadIds -> Jobs] /\ job'[t].at = "freeing" /\ job'[t].x = x
      /\ \A u \in ThreadIds : u # t => job'[u] = job[u]
  BY <1>1, <1>2 DEF TypeInv, Jobs, Stages
<1>4. \A u \in ThreadIds : u # t => job[u].at \notin Cutting
  BY <1>2 DEF RegistryInv, Cutting
<1>5. registry' \in Registries /\ Ring(registry', Staying, Nobody)
  <2>1. Ring(registry, Staying, x)
    BY <1>1, <1>2 DEF RegistryInv
  <2>2. x # Nobody
    BY LinkNames
  <2> QED
    BY <1>2, <2>1, <2>2, RingCloses DEF TypeInv
<1>6. TypeInv' /\ CountInv'
  BY <1>2, <1>3, <1>5 DEF TypeInv, CountInv
<1>7. HeldInv'
  BY <1>2, <1>3, Names DEF HeldInv, Alive
<1>8. JobInv'
  BY <1>2, <1>3 DEF JobInv, Alive
<1>9. OnlyOne'
  BY <1>1, <1>2, <1>3 DEF OnlyOne, Giving
<1>10. GivenUp'
  BY <1>1, <1>2, <1>3 DEF GivenUp, Giving
<1>11. WaitInv'
  BY <1>2, <1>3 DEF WaitInv
<1>12. RegistryInv'
  <2>1. \A y \in ThreadIds : Freed(y)' <=> Freed(y)
    BY <1>1, <1>2, <1>3 DEF Freed
  <2>2. Staying' = Staying
    BY <1>2, <2>1 DEF Staying, Stays
  <2>3. Ring(registry', Staying', Nobody)
    BY <1>5, <2>2
  <2>4. \A u \in ThreadIds : job'[u].at \notin Cutting
    BY <1>3, <1>4 DEF Cutting
  <2> QED
    BY <1>2, <2>3, <2>4 DEF RegistryInv, Alive, Cutting
<1>13. MemoryInv'
  <2>1. \A y \in ThreadIds : InHand(y)' <=> InHand(y)
    BY <1>2, <1>3 DEF InHand
  <2> QED
    BY <1>2, <2>1, MemoryKept
<1> QED
  BY <1>6, <1>7, <1>8, <1>9, <1>10, <1>11, <1>12, <1>13

LEMMA HeapGiven ==
    ASSUME HeapInv, HeapInv', NEW x, NEW b \in heap.used, x = <<"heap", b.at>>,
           heap'.used = heap.used \ {b}, pool' = pool
    PROVE  Taken' = Taken \ {x}
<1>1. \A c \in heap.used : c # b => c.at # b.at
  BY PlacesDiffer
<1>2. x \notin Objects
  BY DEF Objects
<1> QED
  BY <1>1, <1>2 DEF Taken, Objects

LEMMA PoolGiven ==
    ASSUME TypeInv, MemoryInv, NEW x \in Objects, x \in Taken, pool' = <<x>> \o pool, heap' = heap
    PROVE  /\ pool' \in Seq(Objects)
           /\ \A i, j \in 1..Len(pool') : pool'[i] = pool'[j] => i = j
           /\ Taken' = Taken \ {x}
<1>1. PICK m : m = <<x>>
  OBVIOUS
<1>2. m \in Seq(Objects) /\ Len(m) = 1 /\ m[1] = x
  BY <1>1
<1>3. /\ Len(pool) \in Nat /\ DOMAIN pool = 1..Len(pool)
      /\ \A i \in 1..Len(pool) : pool[i] \in Objects
  BY ElementOfSeq, LenProperties DEF TypeInv
<1>4. /\ pool' \in Seq(Objects) /\ Len(pool') = Len(pool) + 1
      /\ \A i \in 1..Len(pool') : pool'[i] = IF i = 1 THEN x ELSE pool[i - 1]
  <2>1. /\ m \o pool \in Seq(Objects) /\ Len(m \o pool) = Len(m) + Len(pool)
        /\ \A i \in 1..Len(m) + Len(pool) :
             (m \o pool)[i] = IF i <= Len(m) THEN m[i] ELSE pool[i - Len(m)]
    BY <1>2, ConcatProperties DEF TypeInv
  <2>2. \A i \in 1..1 + Len(pool) : i <= 1 <=> i = 1
    BY <1>3
  <2>3. pool' = m \o pool
    BY <1>1
  <2>4. 1 + Len(pool) = Len(pool) + 1
    BY <1>3
  <2> QED
    BY <1>2, <2>1, <2>2, <2>3, <2>4
<1>5. \A i, j \in 1..Len(pool) : pool[i] = pool[j] => i = j
  BY DEF MemoryInv
<1>6. \A i \in 1..Len(pool) : pool[i] # x
  BY <1>3, TakenIs DEF Range
<1>7. \A i \in 1..Len(pool') : i = 1 \/ i - 1 \in 1..Len(pool)
  BY <1>3, <1>4
<1>8. \A i, j \in 1..Len(pool') : pool'[i] = pool'[j] => i = j
  <2> TAKE i, j \in 1..Len(pool')
  <2>1. i - 1 = j - 1 => i = j
    BY <1>3, <1>4
  <2> QED
    BY <1>4, <1>5, <1>6, <1>7, <2>1
<1>9. Range(pool') = Range(pool) \cup {x}
  <2>1. \A o : o \in Range(pool) <=> \E i \in 1..Len(pool) : o = pool[i]
    BY <1>3 DEF Range
  <2>2. DOMAIN pool' = 1..Len(pool')
    BY <1>4, LenProperties
  <2>3. \A o : o \in Range(pool') <=> \E i \in 1..Len(pool') : o = pool'[i]
    BY <2>2 DEF Range
  <2>4. ASSUME NEW i \in 1..Len(pool) PROVE pool[i] \in Range(pool')
    <3>1. i + 1 \in 1..Len(pool') /\ i + 1 # 1 /\ (i + 1) - 1 = i
      BY <1>3, <1>4
    <3> QED
      BY <1>4, <2>3, <3>1
  <2>5. x \in Range(pool')
    <3>1. 1 \in 1..Len(pool')
      BY <1>3, <1>4
    <3> QED
      BY <1>4, <2>3, <3>1
  <2>6. ASSUME NEW o \in Range(pool') PROVE o = x \/ o \in Range(pool)
    BY <1>4, <1>7, <2>1, <2>3
  <2> QED
    BY <2>1, <2>4, <2>5, <2>6
<1>10. Taken' = Taken \ {x}
  BY <1>9 DEF Taken, Objects
<1> QED
  BY <1>4, <1>8, <1>10

LEMMA FreeMemoryStep ==
    ASSUME TypeInv, HeapInv, ThreadInv, NEW t \in ThreadIds, FreeMemory(t), use' = use
    PROVE  TypeInv' /\ ThreadInv' /\ HeapInv'
<1> USE DEF ThreadInv
<1>1. PICK x \in ThreadIds : x = job[t].x
  BY Typed
<1>2. /\ job[t].at = "freeing" /\ t \in Callers /\ Alive(t) /\ th[x].state = "FINAL" /\ Dynamic(x)
      /\ job' = [job EXCEPT ![t] = Idle] /\ th' = [th EXCEPT ![x] = NoThread]
      /\ UNCHANGED <<registry, held>>
  BY <1>1 DEF FreeMemory, JobInv
<1>3. IF x[1] = "heap" THEN HeapFree(BlockAt(x[2])) /\ UNCHANGED pool
      ELSE pool' = <<x>> \o pool /\ UNCHANGED heap
  BY <1>1 DEF FreeMemory
<1>4. x \in Taken
  BY <1>2 DEF MemoryInv
<1>5. /\ HeapInv' /\ heap'.end = heap.end /\ pool' \in Seq(Objects)
      /\ \A i, j \in 1..Len(pool') : pool'[i] = pool'[j] => i = j
      /\ Taken' = Taken \ {x}
  <2>1. CASE x[1] = "heap"
    <3>1. x = <<"heap", x[2]>> /\ x \notin Objects
      BY <1>2, <2>1, Names
    <3>2. \E b \in heap.used : b.at = x[2]
      BY <1>4, <3>1, TakenIs
    <3>3. PICK b \in heap.used : b.at = x[2] /\ b = BlockAt(x[2])
      BY <3>2 DEF BlockAt
    <3>4. HeapFree(b) /\ pool' = pool
      BY <1>3, <2>1, <3>3
    <3>5. HeapInv' /\ heap'.used = heap.used \ {b} /\ heap'.end = heap.end
      BY <3>4, HeapFreeStep
    <3>6. Taken' = Taken \ {x}
      BY <3>1, <3>3, <3>4, <3>5, HeapGiven
    <3> QED
      BY <3>4, <3>5, <3>6 DEF TypeInv, MemoryInv
  <2>2. CASE x[1] # "heap"
    <3>1. x \in Objects /\ pool' = <<x>> \o pool /\ heap' = heap
      BY <1>2, <1>3, <2>2, Names
    <3> QED
      BY <1>4, <3>1, PoolGiven, HeapKept
  <2> QED
    BY <2>1, <2>2
<1>6. /\ th' \in [ThreadIds -> ThreadStates] /\ job' \in [ThreadIds -> Jobs]
      /\ th'[x].state = "NONE" /\ th'[x].refs = 0 /\ th'[x].waiting = {}
      /\ \A y \in ThreadIds : y # x => th'[y] = th[y]
      /\ job'[t].at = "idle" /\ \A u \in ThreadIds : u # t => job'[u] = job[u]
  BY <1>2, JobTypes DEF NoThread, TypeInv, ThreadStates
<1>7. /\ th[x].refs = 0
      /\ \A u \in ThreadIds, k \in Kinds : <<u, x, k>> \notin held /\ <<x, u, k>> \notin held
  <2>1. th[x].refs = 0
    BY <1>1, <1>2 DEF GivenUp, Giving
  <2> QED
    BY <1>2, <2>1, NoRefs DEF HeldInv, Alive
<1>8. job[x].at = "idle" /\ \A u \in ThreadIds : u # t /\ job[u].at \in Giving => job[u].x # x
  BY <1>1, <1>2 DEF JobInv, Alive, OnlyOne, Giving
<1>9. TypeInv'
  BY <1>2, <1>5, <1>6 DEF TypeInv
<1>10. CountInv'
  BY <1>2, <1>6, <1>7 DEF CountInv
<1>11. HeldInv'
  <2>1. \A u, y \in ThreadIds, k \in Kinds : <<u, y, k>> \in held' =>
          /\ u \in Callers /\ Alive(u)' /\ th'[y].state # "NONE"
          /\ k = "walk" => u = Walker
    BY <1>2, <1>6, <1>7 DEF HeldInv, Alive
  <2>2. ASSUME NEW y \in ThreadIds, NEW w \in ThreadIds, y # w,
               <<Walker, y, "walk">> \in held', <<Walker, w, "walk">> \in held'
        PROVE  job'[Walker].at = "leaving" /\ job'[Walker].x \in {y, w}
    BY <1>2, <1>6, <2>2, Names DEF HeldInv
  <2> QED
    BY <2>1, <2>2 DEF HeldInv
<1>12. JobInv'
  <2> SUFFICES ASSUME NEW u \in ThreadIds, u # t, job[u].at # "idle" PROVE JobInv!(u)'
    BY <1>6 DEF JobInv, Giving
  <2>1. job'[u] = job[u] /\ u # x /\ th'[u] = th[u] /\ u \in Callers /\ Alive(u)
    BY <1>6, <1>8 DEF JobInv
  <2>2. job[u].at \in Giving => th'[job[u].x] = th[job[u].x]
    BY <1>6, <1>8, Typed
  <2>3. job[u].at = "made" => th'[job[u].x].state = "NONE" /\ Dynamic(job[u].x)
    BY <1>6, Typed DEF JobInv
  <2> QED
    BY <1>2, <2>1, <2>2, <2>3 DEF JobInv, Alive, Giving
<1>13. OnlyOne'
  BY <1>6 DEF OnlyOne, Giving
<1>14. GivenUp'
  BY <1>2, <1>6, <1>8, Typed DEF GivenUp, Giving
<1>15. WaitInv'
  <2> SUFFICES ASSUME NEW y \in ThreadIds, NEW u \in ThreadIds, u \in th'[y].waiting
               PROVE  job'[u].at = "waiting" /\ job'[u].x = y /\ th'[u].state = "WTEXIT"
    BY DEF WaitInv
  <2>1. job[u].at = "waiting" /\ job[u].x = y /\ th[u].state = "WTEXIT"
    BY <1>6 DEF WaitInv
  <2> QED
    BY <1>2, <1>6, <2>1
<1>16. RegistryInv'
  <2>1. Freed(x) /\ ~ Freed(x)' /\ \A y \in ThreadIds : y # x => (Freed(y)' <=> Freed(y))
    BY <1>1, <1>2, <1>6, <1>8 DEF Freed, Giving
  <2>2. Staying' = Staying
    BY <1>2, <1>6, <2>1 DEF Staying, Stays
  <2>3. Alive(Main)'
    BY <1>2, <1>6, Names DEF RegistryInv, Alive
  <2>4. \A u \in ThreadIds : /\ job'[u].at \in Cutting => job'[u] = job[u]
                             /\ job[u].at \in Cutting => job'[u] = job[u]
    BY <1>2, <1>6 DEF Cutting
  <2>5. PICK k : /\ Ring(registry, Staying, k)
                 /\ \A u \in ThreadIds : job[u].at = "relinking" => job[u].x = k
                 /\ k # Nobody => \E u \in ThreadIds : job[u].at = "relinking"
    BY DEF RegistryInv
  <2>6. /\ Ring(registry', Staying', k)
        /\ \A u \in ThreadIds : job'[u].at = "relinking" => job'[u].x = k
        /\ k # Nobody => \E u \in ThreadIds : job'[u].at = "relinking"
    BY <1>2, <2>2, <2>4, <2>5 DEF Cutting
  <2>7. \A u, w \in ThreadIds : job'[u].at \in Cutting /\ job'[w].at \in Cutting => u = w
    BY <2>4 DEF RegistryInv
  <2> QED
    BY <2>3, <2>6, <2>7 DEF RegistryInv
<1>17. MemoryInv'
  <2>1. \A y \in ThreadIds : InHand(y)' <=> InHand(y)
    BY <1>2, <1>6 DEF InHand
  <2>2. ~ InHand(x)
    BY <1>2 DEF InHand, JobInv
  <2> QED
    BY <1>5, <1>6, <2>1, <2>2 DEF MemoryInv
<1> QED
  BY <1>5, <1>9, <1>10, <1>11, <1>12, <1>13, <1>14, <1>15, <1>16, <1>17

-----------------------------------------------------------------------------
(***************************************************************************)
(* Exit and wait.                                                          *)
(***************************************************************************)
LEMMA ExitStep ==
    ASSUME Races = {}, TypeInv, ThreadInv, NEW t \in ThreadIds, chThdExit(t), use' = use
    PROVE  TypeInv' /\ ThreadInv'
<1> USE DEF ThreadInv
<1>1. /\ t # Main /\ Alive(t) /\ job[t].at = "idle" /\ UNCHANGED <<heap, pool, held, job>>
      /\ registry' = IF Dynamic(t) THEN registry ELSE Relinked(Unlinked(t), t)
  BY FreeMeans DEF chThdExit
<1>2. ~ Dynamic(t) => \A u \in ThreadIds : job[u].at \notin Cutting
  BY DEF chThdExit, Undisturbed, Cutting
<1>3. \A u \in ThreadIds, k \in Kinds : <<t, u, k>> \notin held
  BY DEF chThdExit
<1>4. \A u \in th[t].waiting : u \in ThreadIds /\ u # t /\ th[u].state = "WTEXIT" /\ job[u].x = t
  BY <1>1, Typed DEF WaitInv
<1>5. th' = [x \in ThreadIds |->
             IF x = t THEN [th[t] EXCEPT !.state = "FINAL", !.waiting = {}]
             ELSE IF x \in th[t].waiting THEN [th[x] EXCEPT !.state = "LIVE"] ELSE th[x]]
  BY DEF chThdExit
<1>6. /\ th' \in [ThreadIds -> ThreadStates]
      /\ th'[t].state = "FINAL" /\ th'[t].waiting = {} /\ th'[t].refs = th[t].refs
      /\ \A y \in ThreadIds : y # t =>
           /\ th'[y].state = IF y \in th[t].waiting THEN "LIVE" ELSE th[y].state
           /\ th'[y].refs = th[y].refs /\ th'[y].waiting = th[y].waiting
  <2>1. ASSUME NEW y \in ThreadIds
        PROVE  /\ th'[y] \in ThreadStates
               /\ y = t => /\ th'[t].state = "FINAL" /\ th'[t].waiting = {}
                           /\ th'[t].refs = th[t].refs
               /\ y # t => /\ th'[y].state = IF y \in th[t].waiting THEN "LIVE" ELSE th[y].state
                           /\ th'[y].refs = th[y].refs /\ th'[y].waiting = th[y].waiting
    <3>1. th[y] \in ThreadStates
      BY Typed
    <3>2. CASE y = t
      <4>1. th'[y] = [th[y] EXCEPT !.state = "FINAL", !.waiting = {}]
        BY <1>5, <3>2
      <4> QED
        BY <3>1, <3>2, <4>1 DEF ThreadStates
    <3>3. CASE y # t /\ y \in th[t].waiting
      <4>1. th'[y] = [th[y] EXCEPT !.state = "LIVE"]
        BY <1>5, <3>3
      <4> QED
        BY <3>1, <3>3, <4>1 DEF ThreadStates
    <3>4. CASE y # t /\ y \notin th[t].waiting
      BY <1>5, <3>1, <3>4
    <3> QED
      BY <3>2, <3>3, <3>4
  <2> QED
    BY <1>5, <2>1
<1>7. /\ \A y \in ThreadIds : (th'[y].state = "NONE") <=> (th[y].state = "NONE")
      /\ \A y \in ThreadIds : y # t => /\ Alive(y) => th'[y].state \in {"LIVE", "WTEXIT"}
                                       /\ (th'[y].state = "FINAL") <=> (th[y].state = "FINAL")
  BY <1>1, <1>4, <1>6 DEF Alive
<1>8. /\ ~ Dynamic(t) => t \in Staying
      /\ \A y \in ThreadIds : Stays(y)' <=> Stays(y) /\ (y # t \/ Dynamic(t))
  <2>1. \A y \in ThreadIds : Freed(y)' <=> Freed(y)
    BY <1>1 DEF Freed
  <2> QED
    BY <1>1, <1>6, <1>7, <2>1 DEF Stays, Staying, Alive
<1>9. ~ Dynamic(t) => registry' \in Registries /\ Ring(registry', Staying \ {t}, Nobody)
  <2> SUFFICES ASSUME ~ Dynamic(t)
               PROVE  registry' \in Registries /\ Ring(registry', Staying \ {t}, Nobody)
    OBVIOUS
  <2>1. Ring(registry, Staying, Nobody)
    BY <1>2, NobodyCut DEF Cutting
  <2>2. Unlinked(t) \in Registries /\ Ring(Unlinked(t), Staying \ {t}, t)
    BY <1>8, <2>1, RingCut DEF TypeInv, Unlinked
  <2>3. t # Nobody
    BY LinkNames
  <2> QED
    BY <1>1, <2>2, <2>3, RingCloses
<1>10. TypeInv'
  BY <1>1, <1>6, <1>9 DEF TypeInv
<1>11. CountInv'
  BY <1>1, <1>6 DEF CountInv
<1>12. HeldInv'
  BY <1>1, <1>3, <1>7 DEF HeldInv, Alive
<1>13. JobInv'
  <2> SUFFICES ASSUME NEW u \in ThreadIds, job[u].at # "idle" PROVE JobInv!(u)'
    BY <1>1 DEF JobInv
  <2>1. job'[u] = job[u] /\ u # t /\ u \in Callers /\ Alive(u)' /\ job[u].x \in ThreadIds
    BY <1>1, <1>7, Typed DEF JobInv, Alive
  <2>2. job[u].at \in {"unlinking", "relinking", "freeing"} => th'[job[u].x].state = "FINAL"
    BY <1>6, <1>7, <2>1 DEF JobInv
  <2> QED
    BY <1>1, <1>7, <2>1, <2>2 DEF JobInv
<1>14. OnlyOne'
  BY <1>1 DEF OnlyOne
<1>15. GivenUp'
  BY <1>1, <1>6, Typed DEF GivenUp, Giving
<1>16. WaitInv'
  <2> SUFFICES ASSUME NEW y \in ThreadIds, NEW u \in ThreadIds, u \in th'[y].waiting
               PROVE  job'[u].at = "waiting" /\ job'[u].x = y /\ th'[u].state = "WTEXIT"
    BY DEF WaitInv
  <2>1. y # t /\ u \in th[y].waiting
    BY <1>6
  <2>2. job[u].at = "waiting" /\ job[u].x = y /\ th[u].state = "WTEXIT"
    BY <2>1 DEF WaitInv
  <2> QED
    BY <1>1, <1>4, <1>6, <2>1, <2>2
<1>17. RegistryInv'
  <2>1. Alive(Main)'
    BY <1>1, <1>7, Names DEF RegistryInv, Alive
  <2>2. CASE Dynamic(t)
    <3>1. Staying' = Staying /\ registry' = registry /\ job' = job
      BY <1>1, <1>8, <2>2 DEF Staying
    <3> QED
      BY <2>1, <3>1 DEF RegistryInv
  <2>3. CASE ~ Dynamic(t)
    <3>1. Staying' = Staying \ {t} /\ job' = job
      BY <1>1, <1>8, <2>3 DEF Staying
    <3>2. Ring(registry', Staying', Nobody)
      BY <1>9, <2>3, <3>1
    <3> QED
      BY <1>2, <2>1, <2>3, <3>1, <3>2 DEF RegistryInv, Cutting
  <2> QED
    BY <2>2, <2>3
<1>18. MemoryInv'
  <2>1. \A y \in ThreadIds : InHand(y)' <=> InHand(y)
    BY <1>1 DEF InHand
  <2> QED
    BY <1>1, <1>7, <2>1, MemoryKept
<1> QED
  BY <1>10, <1>11, <1>12, <1>13, <1>14, <1>15, <1>16, <1>17, <1>18

LEMMA WaitStep ==
    ASSUME TypeInv, ThreadInv, NEW t \in Callers, NEW x \in ThreadIds,
           chThdWait(t, x), use' = use
    PROVE  TypeInv' /\ ThreadInv'
<1> USE DEF ThreadInv
<1>1. /\ t \in ThreadIds /\ Alive(t) /\ job[t].at = "idle" /\ <<t, x, "own">> \in held /\ x # t
      /\ UNCHANGED <<heap, pool, registry, held>>
  BY FreeMeans, Names DEF chThdWait
<1>2. /\ job' \in [ThreadIds -> Jobs] /\ job'[t].at = "waiting" /\ job'[t].x = x
      /\ \A u \in ThreadIds : u # t => job'[u] = job[u]
  <2>1. At("waiting", x) \in Jobs /\ At("waiting", x).at = "waiting" /\ At("waiting", x).x = x
    BY JobTypes DEF Stages
  <2>2. job' = [job EXCEPT ![t] = At("waiting", x)]
    BY DEF chThdWait
  <2> QED
    BY <1>1, <2>1, <2>2 DEF TypeInv
<1>3. /\ th' \in [ThreadIds -> ThreadStates]
      /\ \A y \in ThreadIds :
           /\ th'[y].refs = th[y].refs
           /\ th'[y].waiting \subseteq (IF y = x THEN th[y].waiting \cup {t} ELSE th[y].waiting)
           /\ y # t => th'[y].state = th[y].state
           /\ y = t => /\ th'[y].state \in {th[y].state, "WTEXIT"}
                       /\ t \in th'[x].waiting => t \in th[x].waiting \/ th'[y].state = "WTEXIT"
  <2>1. CASE th[x].state = "FINAL"
    <3>1. th' = th
      BY <2>1 DEF chThdWait
    <3> QED
      BY <1>1, <3>1 DEF TypeInv
  <2>2. CASE th[x].state # "FINAL"
    <3>1. th' = [th EXCEPT ![x].waiting = @ \cup {t}, ![t].state = "WTEXIT"]
      BY <2>2 DEF chThdWait
    <3>2. PICK r : r = [th[x] EXCEPT !.waiting = th[x].waiting \cup {t}]
      OBVIOUS
    <3>3. PICK q : q = [th[t] EXCEPT !.state = "WTEXIT"]
      OBVIOUS
    <3>4. th[x] \in ThreadStates /\ th[t] \in ThreadStates /\ th \in [ThreadIds -> ThreadStates]
      BY <1>1, Typed DEF TypeInv
    <3>5. th' = [th EXCEPT ![x] = r, ![t] = q]
      BY <1>1, <3>1, <3>2, <3>3, <3>4
    <3>6. /\ r \in ThreadStates /\ r.refs = th[x].refs /\ r.state = th[x].state
          /\ r.waiting = th[x].waiting \cup {t}
      BY <1>1, <3>2, <3>4 DEF ThreadStates
    <3>7. /\ q \in ThreadStates /\ q.refs = th[t].refs /\ q.state = "WTEXIT"
          /\ q.waiting = th[t].waiting
      BY <1>1, <3>3, <3>4 DEF ThreadStates
    <3>8. th'[x] = r /\ th'[t] = q /\ \A y \in ThreadIds : y # x /\ y # t => th'[y] = th[y]
      BY <1>1, <3>4, <3>5
    <3>9. th' \in [ThreadIds -> ThreadStates]
      BY <1>1, <3>4, <3>5, <3>6, <3>7
    <3> QED
      BY <1>1, <3>6, <3>7, <3>8, <3>9
  <2> QED
    BY <2>1, <2>2
<1>4. /\ \A y \in ThreadIds : (th'[y].state = "NONE") <=> (th[y].state = "NONE")
      /\ \A y \in ThreadIds : /\ Alive(y) => th'[y].state \in {"LIVE", "WTEXIT"}
                              /\ (th'[y].state = "FINAL") <=> (th[y].state = "FINAL")
  BY <1>1, <1>3 DEF Alive
<1>5. TypeInv' /\ CountInv'
  BY <1>1, <1>2, <1>3 DEF TypeInv, CountInv
<1>6. HeldInv'
  BY <1>1, <1>2, <1>4, Names DEF HeldInv, Alive
<1>7. JobInv'
  <2> SUFFICES ASSUME NEW u \in ThreadIds PROVE JobInv!(u)'
    BY DEF JobInv
  <2>1. CASE u # t
    <3>1. job'[u] = job[u] /\ job[u].x \in ThreadIds
      BY <1>2, <2>1, Typed
    <3> QED
      BY <1>1, <1>4, <3>1 DEF JobInv, Alive
  <2>2. CASE u = t
    BY <1>1, <1>2, <1>4, <2>2 DEF Alive
  <2> QED
    BY <2>1, <2>2
<1>8. OnlyOne'
  BY <1>2 DEF OnlyOne, Giving
<1>9. GivenUp'
  BY <1>1, <1>2, <1>3, Typed DEF GivenUp, Giving
<1>10. WaitInv'
  <2> SUFFICES ASSUME NEW y \in ThreadIds, NEW u \in ThreadIds, u \in th'[y].waiting
               PROVE  job'[u].at = "waiting" /\ job'[u].x = y /\ th'[u].state = "WTEXIT"
    BY DEF WaitInv
  <2>1. CASE u # t
    <3>1. job[u].at = "waiting" /\ job[u].x = y /\ th[u].state = "WTEXIT"
      BY <1>3, <2>1 DEF WaitInv
    <3> QED
      BY <1>2, <1>3, <2>1, <3>1
  <2>2. CASE u = t
    <3>1. \A z \in ThreadIds : t \notin th[z].waiting
      BY <1>1 DEF WaitInv
    <3>2. y = x
      BY <1>3, <2>2, <3>1
    <3> QED
      BY <1>1, <1>2, <1>3, <2>2, <3>1, <3>2
  <2> QED
    BY <2>1, <2>2
<1>11. RegistryInv'
  <2>1. CutsKept /\ \A y \in ThreadIds : Freed(y)' <=> Freed(y)
    BY <1>1, <1>2 DEF CutsKept, Cutting, Freed
  <2>2. Alive(Main)'
    BY <1>4, Names DEF RegistryInv, Alive
  <2> QED
    BY <1>1, <1>4, <2>1, <2>2, RegistryKept DEF Alive
<1>12. MemoryInv'
  <2>1. \A y \in ThreadIds : InHand(y)' <=> InHand(y)
    BY <1>1, <1>2 DEF InHand
  <2> QED
    BY <1>1, <1>4, <2>1, MemoryKept
<1> QED
  BY <1>5, <1>6, <1>7, <1>8, <1>9, <1>10, <1>11, <1>12

-----------------------------------------------------------------------------
(***************************************************************************)
(* The messages.                                                           *)
(***************************************************************************)
LEMMA SendStep ==
    ASSUME MessagesInv, NEW c \in Clients, NEW s \in Servers, chMsgSend(c, s)
    PROVE  MessagesInv'
<1>1. c # s /\ c \in Peers /\ s \in Peers /\ c \notin Servers
  BY PeersAssumption DEF Peers
<1>2. PICK q : q = Append(msgqueue[s], c)
  OBVIOUS
<1>3. q \in Seq(Clients) /\ q # <<>>
  <2>1. msgqueue[s] \in Seq(Clients)
    BY DEF MessagesInv
  <2>2. q \in Seq(Clients) /\ Len(q) = Len(msgqueue[s]) + 1 /\ Len(msgqueue[s]) \in Nat
    BY <1>2, <2>1, AppendProperties, LenProperties
  <2>3. Len(q) # 0
    BY <2>2
  <2> QED
    BY <2>2, <2>3, EmptySeq
<1>4. /\ msgqueue' = [msgqueue EXCEPT ![s] = q]
      /\ mstate' = [mstate EXCEPT ![c] = "SNDMSGQ", ![s] = IF @ = "WTMSG" THEN "woken" ELSE @]
  BY <1>2 DEF chMsgSend
<1>5. /\ msgqueue' \in [Servers -> Seq(Clients)]
      /\ msgqueue'[s] = q /\ \A r \in Servers : r # s => msgqueue'[r] = msgqueue[r]
  BY <1>3, <1>4 DEF MessagesInv
<1>6. /\ mstate' \in [Peers -> {"READY", "WTMSG", "SNDMSGQ", "SNDMSG", "woken"}]
      /\ \A r \in Servers : r # s => mstate'[r] = mstate[r]
  <2> DEFINE M == {"READY", "WTMSG", "SNDMSGQ", "SNDMSG", "woken"}
  <2>1. PICK v \in M : v = IF mstate[s] = "WTMSG" THEN "woken" ELSE mstate[s]
    BY <1>1 DEF MessagesInv
  <2>2. mstate \in [Peers -> M] /\ "SNDMSGQ" \in M
    BY DEF MessagesInv
  <2> HIDE DEF M
  <2>3. mstate' = [mstate EXCEPT ![c] = "SNDMSGQ", ![s] = v]
    BY <1>1, <1>4, <2>1, <2>2
  <2>4. mstate' \in [Peers -> M] /\ \A r \in Servers : r # s => mstate'[r] = mstate[r]
    BY <1>1, <2>2, <2>3 DEF Peers
  <2> QED
    BY <2>4 DEF M
<1> QED
  BY <1>3, <1>5, <1>6 DEF MessagesInv

LEMMA TakeSenderStep ==
    ASSUME MessagesInv, NEW s \in Servers, msgqueue[s] # <<>>, TakeSender(s)
    PROVE  MessagesInv'
<1>1. msgqueue[s] \in Seq(Clients)
  BY DEF MessagesInv
<1>2. Tail(msgqueue[s]) \in Seq(Clients) /\ Head(msgqueue[s]) \in Clients
  BY <1>1, HeadTailProperties
<1>3. PICK c \in Clients : c = Head(msgqueue[s])
  BY <1>2
<1>4. PICK q \in Seq(Clients) : q = Tail(msgqueue[s])
  BY <1>2
<1>5. /\ msgqueue' = [msgqueue EXCEPT ![s] = q]
      /\ mstate' = [mstate EXCEPT ![c] = "SNDMSG", ![s] = "READY"]
  BY <1>3, <1>4 DEF TakeSender
<1>6. c # s /\ c \in Peers /\ s \in Peers /\ c \notin Servers
  BY PeersAssumption DEF Peers
<1>7. /\ msgqueue' \in [Servers -> Seq(Clients)]
      /\ \A r \in Servers : r # s => msgqueue'[r] = msgqueue[r]
  BY <1>5 DEF MessagesInv
<1>8. /\ mstate' \in [Peers -> {"READY", "WTMSG", "SNDMSGQ", "SNDMSG", "woken"}]
      /\ mstate'[s] = "READY" /\ \A r \in Servers : r # s => mstate'[r] = mstate[r]
  <2> DEFINE M == {"READY", "WTMSG", "SNDMSGQ", "SNDMSG", "woken"}
  <2>1. mstate \in [Peers -> M] /\ "SNDMSG" \in M /\ "READY" \in M
    BY DEF MessagesInv
  <2> HIDE DEF M
  <2>2. /\ mstate' \in [Peers -> M]
        /\ mstate'[s] = "READY" /\ \A r \in Servers : r # s => mstate'[r] = mstate[r]
    BY <1>5, <1>6, <2>1 DEF Peers
  <2> QED
    BY <2>2 DEF M
<1> QED
  BY <1>7, <1>8 DEF MessagesInv

LEMMA ServeStep ==
    ASSUME MessagesInv, NEW s \in Servers, chMsgWait(s) \/ chMsgWaitWoken(s)
    PROVE  MessagesInv'
<1>1. CASE chMsgWait(s) /\ msgqueue[s] # <<>>
  BY <1>1, TakeSenderStep DEF chMsgWait
<1>2. CASE chMsgWait(s) /\ msgqueue[s] = <<>>
  <2>1. mstate' = [mstate EXCEPT ![s] = "WTMSG"] /\ msgqueue' = msgqueue /\ s \in Peers
    BY <1>2 DEF chMsgWait, Peers
  <2>2. /\ mstate' \in [Peers -> {"READY", "WTMSG", "SNDMSGQ", "SNDMSG", "woken"}]
        /\ mstate'[s] = "WTMSG" /\ \A r \in Servers : r # s => mstate'[r] = mstate[r]
    BY <2>1 DEF MessagesInv, Peers
  <2> QED
    BY <2>1, <2>2 DEF MessagesInv
<1>3. CASE chMsgWaitWoken(s)
  BY <1>3, TakeSenderStep DEF chMsgWaitWoken, MessagesInv
<1> QED
  BY <1>1, <1>2, <1>3

LEMMA AnswerStep ==
    ASSUME MessagesInv, NEW s \in Servers, NEW c \in Clients, chMsgRelease(s, c)
    PROVE  MessagesInv'
<1>1. /\ mstate' = [mstate EXCEPT ![c] = "READY"] /\ msgqueue' = msgqueue
      /\ c \in Peers /\ c \notin Servers
  BY PeersAssumption DEF chMsgRelease, Peers
<1>2. /\ mstate' \in [Peers -> {"READY", "WTMSG", "SNDMSGQ", "SNDMSG", "woken"}]
      /\ \A r \in Servers : mstate'[r] = mstate[r]
  BY <1>1 DEF MessagesInv, Peers
<1> QED
  BY <1>1, <1>2 DEF MessagesInv

-----------------------------------------------------------------------------
(***************************************************************************)
(* The heap under plain calls.                                             *)
(***************************************************************************)
LEMMA HeapCallsStep ==
    ASSUME Inv, NEW t \in Callers, HeapCalls(t)
    PROVE  Inv'
<1>1. /\ use = "heap" /\ UNCHANGED <<msgqueue, mstate, use, pool, th, registry, held>>
      /\ TypeInv /\ HeapInv /\ MessagesInv /\ AloneInv /\ t \in ThreadIds
  BY Names DEF HeapCalls, Alone, Inv
<1>2. HeapInv' /\ \/ job' = job
                  \/ \E j \in Jobs : j.at \in {"idle", "asking"} /\ job' = [job EXCEPT ![t] = j]
  <2>1. CASE AskCore(t)
    <3>1. CASE \E a \in 0..heap.end - 1 :
                 CoreBlock(job[t].n, a) /\ job' = [job EXCEPT ![t] = Idle]
      <4>1. PICK a \in 0..heap.end - 1 :
                 CoreBlock(job[t].n, a) /\ job' = [job EXCEPT ![t] = Idle]
        BY <3>1
      <4>2. job[t].n \in Nat
        BY <1>1, Typed, ThreadsAssumption, HeapAssumption DEF Jobs
      <4>3. HeapInv'
        BY <1>1, <4>1, <4>2, CoreBlockStep DEF Handed
      <4> QED
        BY <4>1, <4>3, JobTypes
    <3>2. CASE job' = [job EXCEPT ![t] = Idle] /\ UNCHANGED heap
      BY <1>1, <3>2, HeapKept, JobTypes
    <3> QED
      BY <1>1, <2>1, <3>1, <3>2 DEF AskCore
  <2>2. CASE \E n \in 0..MaxRequest : \E a \in 0..heap.end - 1 : FindBlock(n, a) /\ UNCHANGED job
    <3>1. PICK n \in 0..MaxRequest, a \in 0..heap.end - 1 : FindBlock(n, a) /\ UNCHANGED job
      BY <2>2
    <3>2. n \in Nat
      BY HeapAssumption
    <3> QED
      BY <1>1, <3>1, <3>2, FindBlockStep DEF Handed
  <2>3. CASE \E n \in 0..MaxRequest :
               /\ job' = [job EXCEPT ![t] = [Idle EXCEPT !.at = "asking", !.n = n]]
               /\ UNCHANGED heap
    <3>1. PICK n \in 0..MaxRequest :
               /\ job' = [job EXCEPT ![t] = [Idle EXCEPT !.at = "asking", !.n = n]]
               /\ UNCHANGED heap
      BY <2>3
    <3>2. n \in 0..Area + MaxRequest
      BY ThreadsAssumption, HeapAssumption
    <3> QED
      BY <1>1, <3>1, <3>2, HeapKept, JobTypes
  <2>4. CASE \E b \in heap.used : HeapFree(b) /\ UNCHANGED job
    BY <1>1, <2>4, HeapFreeStep
  <2> QED
    BY <2>1, <2>2, <2>3, <2>4, Zenon DEF HeapCalls
<1>3. job' \in [ThreadIds -> Jobs] /\ \A u \in ThreadIds : job'[u].at \in {"idle", "asking"}
  BY <1>1, <1>2 DEF AloneInv, TypeInv
<1>4. TypeInv' /\ AloneInv'
  BY <1>1, <1>3 DEF TypeInv, AloneInv
<1> QED
  BY <1>1, <1>2, <1>4, MessagesKept DEF Inv

-----------------------------------------------------------------------------
(***************************************************************************)
(* The invariant holds, and what follows from it.                          *)
(***************************************************************************)
LEMMA InvStarts == Init => Inv
<1> SUFFICES ASSUME Init PROVE Inv
  OBVIOUS
<1>1. /\ ThreadCore \in Nat /\ ThreadCore \in 1..CoreSize
      /\ CoreSize \in 1..CoreSize /\ PoolSize \in Nat
  BY ThreadsAssumption, HeapAssumption
<1>2. PICK size \in 1..CoreSize : size = IF use = "threads" THEN ThreadCore ELSE CoreSize
  BY <1>1
<1>3. HeapInv /\ heap.used = {} /\ heap.end = size
  <2>1. PICK provided \in BOOLEAN : HeapInit(size, provided)
    BY <1>2 DEF Init
  <2> QED
    BY <2>1, HeapStarts
<1>4. /\ pool \in Seq(Objects) /\ Len(pool) = PoolSize /\ DOMAIN pool = 1..PoolSize
      /\ \A i \in 1..PoolSize : pool[i] = <<"pool", i>>
  <2>1. pool = [i \in 1..PoolSize |-> <<"pool", i>>]
    BY DEF Init
  <2>2. \A i \in 1..PoolSize : <<"pool", i>> \in Objects
    BY DEF Objects
  <2>3. pool \in [1..PoolSize -> Objects]
    BY <2>1, <2>2
  <2>4. pool \in Seq(Objects)
    BY <1>1, <2>3, SeqDef
  <2> QED
    BY <1>1, <2>1, <2>4, LenProperties
<1>5. /\ th \in [ThreadIds -> ThreadStates]
      /\ th[Main].state = "LIVE" /\ th[Main].refs = 1
      /\ \A x \in ThreadIds : /\ th[x].waiting = {}
                              /\ x # Main => th[x].state = "NONE" /\ th[x].refs = 0
  BY Names DEF Init, NoThread, ThreadStates
<1>7. /\ registry \in Registries
      /\ \A x \in {Main, RList} : registry[x].newer = IF x = RList THEN Main ELSE RList
      /\ \A x \in {Main, RList} : registry[x].older = IF x = RList THEN Main ELSE RList
  BY LinkNames, Names DEF Init, Registries
<1>8. held = {<<Main, Main, "own">>}
  BY DEF Init
<1>9. job \in [ThreadIds -> Jobs] /\ \A t \in ThreadIds : job[t].at = "idle"
  BY JobTypes DEF Init
<1>10. TypeInv
  <2>1. use \in Uses
    BY DEF Init
  <2>2. held \subseteq ThreadIds \X ThreadIds \X Kinds
    BY <1>8, Names DEF Kinds
  <2> QED
    BY <1>4, <1>5, <1>7, <1>9, <2>1, <2>2 DEF TypeInv
<1>11. MessagesInv
  <2>1. \A s \in Servers : msgqueue[s] = <<>> /\ mstate[s] = "READY"
    BY DEF Init, MsgInit, Peers
  <2>2. <<>> \in Seq(Clients)
    OBVIOUS
  <2> QED
    BY <2>1, <2>2 DEF Init, MsgInit, MessagesInv
<1>12. CountInv
  <2>1. RefsOf(held, Main) = held /\ \A x : x # Main => RefsOf(held, x) = {}
    BY <1>8 DEF RefsOf
  <2>2. IsFiniteSet(held) /\ Cardinality(held) = 1
    BY <1>8, FS_Singleton
  <2>3. Cardinality({}) = 0
    BY FS_EmptySet
  <2> QED
    BY <1>5, <2>1, <2>2, <2>3 DEF CountInv
<1>13. HeldInv /\ JobInv /\ OnlyOne /\ GivenUp /\ WaitInv
  BY <1>5, <1>8, <1>9, Names DEF HeldInv, JobInv, OnlyOne, GivenUp, WaitInv, Giving, Alive
<1>14. RegistryInv
  <2>1. \A x \in ThreadIds : ~ Freed(x)
    BY <1>9 DEF Freed
  <2>2. PICK M : M = {Main}
    OBVIOUS
  <2>3. Staying = M
    BY <1>5, <2>1, <2>2, Names DEF Staying, Stays
  <2>4. \A y \in M \cup {RList} :
          /\ registry[y].newer \in M \cup {RList} /\ registry[registry[y].newer].older = y
          /\ registry[y].older \in M \cup {RList} /\ registry[registry[y].older].newer = y
    BY <1>7, <2>2, LinkNames, Names
  <2>5. \A S \in SUBSET Links :
          RList \in S /\ (\A y \in S : registry[y].newer \in S) => M \subseteq S
    BY <1>7, <2>2
  <2>6. Ring(registry, Staying, Nobody)
    BY <1>7, <2>2, <2>3, <2>4, <2>5, Names, WholeRing
  <2>7. Alive(Main)
    BY <1>5 DEF Alive
  <2> QED
    BY <1>9, <2>6, <2>7 DEF RegistryInv, Cutting
<1>15. ASSUME use = "threads" PROVE MemoryInv
  <2>1. \A x \in Objects : x \in Range(pool)
    BY <1>4 DEF Range, Objects
  <2>2. Taken = {}
    BY <1>3, <2>1 DEF Taken, Objects
  <2>3. \A x \in ThreadIds : ~ InHand(x)
    BY <1>9 DEF InHand
  <2>4. \A i, j \in 1..PoolSize : <<"pool", i>> = <<"pool", j>> => i = j
    OBVIOUS
  <2> QED
    BY <1>2, <1>3, <1>4, <1>5, <1>15, <2>2, <2>3, <2>4, Names DEF MemoryInv
<1>16. AloneInv
  BY <1>5, <1>8, <1>9, Names DEF AloneInv
<1> QED
  BY <1>3, <1>10, <1>11, <1>12, <1>13, <1>14, <1>15, <1>16 DEF Inv, ThreadInv

LEMMA ThreadSteps ==
    ASSUME Races = {}, Inv, NEW t \in ThreadIds, GoesOn(t) \/ Calls(t)
    PROVE  Inv'
<1>1. /\ use = "threads" /\ use' = use /\ TypeInv /\ HeapInv /\ ThreadInv
      /\ MessagesInv'
  BY MessagesKept DEF GoesOn, Calls, Alone, Inv
<1> USE <1>1
<1>2. TypeInv' /\ ThreadInv' /\ HeapInv'
  <2>1. CASE AskCore(t)
    BY <2>1, AskCoreStep
  <2>2. CASE StartMade(t)
    BY <2>2, StartMadeStep, HeapKept DEF StartMade
  <2>3. CASE Released(t)
    BY <2>3, ReleasedStep, HeapKept DEF Released
  <2>4. CASE Unlink(t)
    BY <2>4, UnlinkStep, HeapKept DEF Unlink
  <2>20. CASE Relink(t)
    BY <2>20, RelinkStep, HeapKept DEF Relink
  <2>5. CASE FreeMemory(t)
    BY <2>5, FreeMemoryStep
  <2>6. CASE WaitEnds(t)
    BY <2>6, WaitEndsStep, HeapKept DEF WaitEnds
  <2>7. CASE NextReleases(t)
    BY <2>7, NextReleasesStep, HeapKept DEF NextReleases
  <2>8. CASE chThdExit(t)
    BY <2>8, ExitStep, HeapKept DEF chThdExit
  <2>9. CASE t \in Callers /\ CreateFromHeap(t)
    BY <2>9, FromHeapStep
  <2>10. CASE t \in Callers /\ CreateFromPool(t)
    BY <2>10, FromPoolStep
  <2>11. CASE chRegFirstThread(t)
    BY <2>11, FirstStep, HeapKept DEF chRegFirstThread
  <2>12. ASSUME NEW x \in ThreadIds, t \in Callers, chThdCreateStatic(t, x)
         PROVE  TypeInv' /\ ThreadInv' /\ HeapInv'
    BY <2>12, CreateStaticStep, HeapKept DEF chThdCreateStatic
  <2>13. ASSUME NEW x \in ThreadIds, t \in Callers, chThdWait(t, x)
         PROVE  TypeInv' /\ ThreadInv' /\ HeapInv'
    BY <2>13, WaitStep, HeapKept DEF chThdWait
  <2>14. ASSUME NEW x \in ThreadIds, chRegNextThread(t, x)
         PROVE  TypeInv' /\ ThreadInv' /\ HeapInv'
    BY <2>14, NextStep, HeapKept DEF chRegNextThread
  <2>15. ASSUME NEW x \in ThreadIds, NEW u \in ThreadIds, chThdAddRef(t, u, x)
         PROVE  TypeInv' /\ ThreadInv' /\ HeapInv'
    BY <2>15, AddRefStep, HeapKept DEF chThdAddRef
  <2>16. ASSUME NEW x \in ThreadIds, NEW kind \in Kinds, chThdRelease(t, x, kind)
         PROVE  TypeInv' /\ ThreadInv' /\ HeapInv'
    BY <2>16, ReleaseStep, HeapKept DEF chThdRelease
  <2>17. "own" \in Kinds /\ "walk" \in Kinds
    BY DEF Kinds
  <2>18. CASE GoesOn(t)
    BY <2>1, <2>2, <2>3, <2>4, <2>5, <2>6, <2>7, <2>18, <2>20 DEF GoesOn
  <2>19. CASE Calls(t)
    BY <2>8, <2>9, <2>10, <2>11, <2>12, <2>13, <2>14, <2>15, <2>16, <2>17, <2>19 DEF Calls
  <2> QED
    BY <2>18, <2>19
<1> QED
  BY <1>2 DEF Inv

LEMMA MessageSteps ==
    ASSUME Inv, \/ \E c \in Clients : Sends(c)
                \/ \E s \in Servers : Serves(s) \/ \E c \in Clients : Answers(s, c)
    PROVE  Inv'
<1>1. /\ use = "messages" /\ UNCHANGED <<heap, pool, th, registry, held, job, use>>
      /\ TypeInv /\ HeapInv /\ MessagesInv /\ AloneInv
  BY DEF Sends, Serves, Answers, Inv
<1>2. MessagesInv'
  BY <1>1, SendStep, ServeStep, AnswerStep DEF Sends, Serves, Answers
<1>3. TypeInv' /\ AloneInv'
  BY <1>1 DEF TypeInv, AloneInv
<1> QED
  BY <1>1, <1>2, <1>3, HeapKept DEF Inv

LEMMA InvStays ==
    ASSUME Races = {}
    PROVE  Inv /\ [Next]_vars => Inv'
<1> SUFFICES ASSUME Inv, [Next]_vars PROVE Inv'
  OBVIOUS
<1>1. CASE Next
  BY <1>1, ThreadSteps, HeapCallsStep, MessageSteps DEF Next
<1>2. CASE UNCHANGED vars
  <2>1. UNCHANGED <<heap, msgqueue, mstate, pool, th, registry, held, job, use>>
    BY <1>2 DEF vars
  <2>2. TypeInv' /\ HeapInv' /\ MessagesInv'
    BY <2>1, HeapKept, MessagesKept DEF Inv, TypeInv
  <2>3. ASSUME AloneInv PROVE AloneInv'
    BY <2>1, <2>3 DEF AloneInv
  <2>4. ASSUME ThreadInv PROVE ThreadInv'
    <3>1. CutsKept /\ \A x \in ThreadIds : (Freed(x)' <=> Freed(x)) /\ (InHand(x)' <=> InHand(x))
      BY <2>1 DEF CutsKept, Freed, InHand
    <3>2. RegistryInv'
      BY <2>1, <2>4, <3>1, RegistryKept DEF ThreadInv, RegistryInv, Alive
    <3>3. MemoryInv'
      BY <2>1, <2>4, <3>1, MemoryKept DEF ThreadInv
    <3> QED
      BY <2>1, <2>4, <3>2, <3>3
         DEF ThreadInv, CountInv, HeldInv, JobInv, OnlyOne, GivenUp, WaitInv, Alive
  <2> QED
    BY <2>1, <2>2, <2>3, <2>4 DEF Inv
<1> QED
  BY <1>1, <1>2

\* The inductive invariant holds: the memory is tiled by its blocks, references are counted,
\* and a thread's memory has one owner (chheap.c, chdynamic.c, chregistry.c).
THEOREM InvHolds ==
    ASSUME Races = {}
    PROVE  Spec => []Inv
BY InvStarts, InvStays, PTL DEF Spec

LEMMA InvSound == Inv => MemoryWhole /\ ReferenceKeepsThread /\ RegistryHoldsActive
<1> SUFFICES ASSUME Inv PROVE MemoryWhole /\ ReferenceKeepsThread /\ RegistryHoldsActive
  OBVIOUS
<1>1. TypeInv /\ HeapInv /\ MessagesInv
  BY DEF Inv
<1>2. TypeOK
  <2>1. HeapTypeOK
    BY <1>1, HeapSound
  <2>2. \A i \in DOMAIN pool : pool[i] \in {"pool"} \X (1..PoolSize)
    BY <1>1, ElementOfSeq, LenProperties DEF TypeInv, Objects
  <2>3. registry \in [Links -> [newer : Links, older : Links]]
    BY <1>1 DEF TypeInv, Registries
  <2>4. /\ th \in [ThreadIds -> [state : {"NONE", "LIVE", "WTEXIT", "FINAL"},
                               refs : Nat, waiting : SUBSET ThreadIds]]
        /\ held \subseteq (ThreadIds \X ThreadIds \X {"own", "walk"})
        /\ use \in Uses
    BY <1>1 DEF TypeInv, ThreadStates, Kinds
  <2>5. job \in [ThreadIds -> [at : {"idle", "asking", "made", "released", "unlinking", "relinking",
                                   "freeing", "waiting", "leaving"},
                              x : ThreadIds, n : 0..Area + MaxRequest]]
    BY <1>1 DEF TypeInv, Jobs, Stages
  <2>6. /\ msgqueue \in [Servers -> Seq(Clients)]
        /\ mstate \in [Peers -> {"READY", "WTMSG", "SNDMSGQ", "SNDMSG", "woken"}]
    BY <1>1 DEF MessagesInv
  <2> QED
    BY <2>1, <2>2, <2>3, <2>4, <2>5, <2>6 DEF TypeOK
<1>3. CASE use = "threads"
  <2>1. ThreadInv
    BY <1>3 DEF Inv
  <2>2. \A x \in Taken : x \in ThreadIds /\ Dynamic(x)
    <3>1. ASSUME NEW b \in heap.used
          PROVE  <<"heap", b.at>> \in ThreadIds /\ Dynamic(<<"heap", b.at>>)
      <4>1. /\ b.at \in Nat /\ b.at < Limit(b) /\ Limit(b) \in Nat /\ Limit(b) <= heap.next
            /\ heap.next \in Nat /\ heap.end \in Nat /\ heap.next <= heap.end
        BY <1>1, TilesType, CellFacts DEF HeapInv, HeapStates
      <4>2. b.at \in 0..ThreadCore - 1
        BY <2>1, <4>1, ThreadsAssumption, HeapAssumption DEF ThreadInv, MemoryInv
      <4> QED
        BY <4>2, Names
    <3> QED
      BY <3>1, Names DEF Taken, Objects
  <2>3. \A x \in Taken : Registered(x) \/ Freed(x) \/ InHand(x)
    BY <2>1, <2>2, ListedStay DEF ThreadInv, MemoryInv, Stays
  <2>4. NothingLeaks
    BY <2>3 DEF NothingLeaks, Freed, InHand
  <2>5. \A h \in held : Dynamic(h[2]) => h[2] \in Taken
    <3>1. ASSUME NEW t \in ThreadIds, NEW x \in ThreadIds, NEW k \in Kinds,
                 <<t, x, k>> \in held, Dynamic(x)
          PROVE  x \in Taken
      BY <2>1, <3>1 DEF ThreadInv, HeldInv, MemoryInv
    <3>2. \A h \in held : \E t, x \in ThreadIds, k \in Kinds : h = <<t, x, k>>
      BY <1>1 DEF TypeInv
    <3> QED
      BY <3>1, <3>2
  <2>6. \A x \in ThreadIds : Dynamic(x) /\ th[x].state # "NONE" => x \in Taken
    BY <2>1 DEF ThreadInv, MemoryInv
  <2>7. ASSUME NEW t \in Callers, job[t].at = "freeing"
        PROVE  /\ job[t].x \in Taken
               /\ \A u \in Callers \ {t} : job[u].x = job[t].x =>
                    job[u].at \notin {"released", "unlinking", "relinking", "freeing"}
    <3>1. t \in ThreadIds /\ job[t].x \in ThreadIds
      BY <1>1, Names, Typed
    <3>2. Dynamic(job[t].x) /\ th[job[t].x].state = "FINAL"
      BY <2>1, <2>7, <3>1 DEF ThreadInv, JobInv
    <3>3. \A u \in Callers \ {t} : job[u].x = job[t].x => job[u].at \notin Giving
      BY <2>1, <2>7, <3>1, Names DEF ThreadInv, OnlyOne, Giving
    <3> QED
      BY <2>6, <3>1, <3>2, <3>3 DEF Giving
  <2>8. ASSUME NEW t \in Callers, job[t].at \in {"unlinking", "relinking", "freeing"}
        PROVE  th[job[t].x].state = "FINAL"
    BY <2>1, <2>8, Names DEF ThreadInv, JobInv
  <2>9. RegistryHoldsActive
    <3>1. ASSUME NEW x \in ThreadIds, Alive(x) PROVE Registered(x)
      <4>1. ~ Freed(x)
        BY <2>1, <3>1 DEF Freed, ThreadInv, JobInv, Alive
      <4> QED
        BY <2>1, <3>1, <4>1, ListedStay DEF ThreadInv, Stays, Alive
    <3> QED
      BY <3>1 DEF RegistryHoldsActive, Alive
  <2> QED
    BY <1>1, <1>2, <2>4, <2>5, <2>6, <2>7, <2>8, <2>9, HeapSound
    DEF MemoryWhole, ReferenceKeepsThread
<1>4. CASE use # "threads"
  <2>1. AloneInv
    BY <1>4 DEF Inv
  <2>2. NothingLeaks
    BY <1>4 DEF NothingLeaks
  <2>3. ReferenceKeepsThread
    BY <2>1, Names DEF AloneInv, ReferenceKeepsThread
  <2>4. RegistryHoldsActive
    BY <1>4 DEF RegistryHoldsActive
  <2> QED
    BY <1>1, <1>2, <2>2, <2>3, <2>4, HeapSound DEF MemoryWhole
<1> QED
  BY <1>3, <1>4

\* Where no walk takes a reference to a thread that is being released and nobody else
\* changes the registry in the midst of a release: the heap's blocks, free and handed out,
\* are exactly its memory, in order and merged, whatever is asked for and given back in
\* whatever order; and what is made into threads is in the registry or in hand
\* (chheap.c, chmempools.c, chdynamic.c, chregistry.c).
THEOREM MemoryWholeHolds ==
    ASSUME Races = {}
    PROVE  Spec => []MemoryWhole
BY InvHolds, InvSound, PTL

\* Under the same condition: no memory of a thread is given back while the thread runs or
\* is referred to, nor twice, though chThdRelease looks at the thread's state after it has
\* left the lock zone (chdynamic.c). With "walk" in Races a walk can
\* take a reference in between, and the property is lost.
THEOREM ReferenceKeepsThreadHolds ==
    ASSUME Races = {}
    PROVE  Spec => []ReferenceKeepsThread
BY InvHolds, InvSound, PTL

\* Under the same condition: a walk of the registry from rlist comes to every thread that
\* has begun and not ended, also between the two statements of REG_REMOVE (chregistry.h).
THEOREM RegistryHoldsActiveHolds ==
    ASSUME Races = {}
    PROVE  Spec => []RegistryHoldsActive
BY InvHolds, InvSound, PTL

=============================================================================
