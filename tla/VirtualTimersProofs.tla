------------------------- MODULE VirtualTimersProofs -------------------------
(***************************************************************************)
(* What holds of the virtual timers for any set of timers, any width of    *)
(* systime_t and any period.                                               *)
(***************************************************************************)
EXTENDS VirtualTimers, SequenceTheorems, WellFoundedInduction, TLAPS

-----------------------------------------------------------------------------
(* Sums over a list.  Sums is what its recursion says, and the only such     *)
(* function; both by way of a least position where that would fail.          *)

\* A set of natural numbers that is not empty has a least element.
LEMMA LeastNumber ==
    ASSUME NEW S \in SUBSET Nat, S # {}
    PROVE  \E n \in S : \A k \in S : n <= k
<1>1. PICK n \in S : \A k \in S : ~ (<<k, n>> \in OpToRel(<, Nat))
  BY WFMin, NatLessThanWellFounded
<1>2. \A k \in S : ~ (k < n)
  BY <1>1 DEF OpToRel
<1> QED
  BY <1>2

\* f adds up the ticks of the first timers of q.
AddsUp(q, d, n, f) ==
    /\ f \in [0 .. n -> Int]
    /\ f[0] = 0
    /\ \A i \in 1 .. n : f[i] = f[i - 1] + d[q[i]]

AddedUp(q, d, n) == \E f : AddsUp(q, d, n, f)

LEMMA OneMore ==
    ASSUME NEW q \in Seq(Timers), NEW d \in [Timers -> Nat], NEW n \in 1 .. Len(q),
           AddedUp(q, d, n - 1)
    PROVE  AddedUp(q, d, n)
<1> DEFINE m == n - 1
<1>1. PICK f : AddsUp(q, d, m, f)
  BY DEF AddedUp
<1> DEFINE g == [i \in 0 .. n |-> IF i = n THEN f[m] + d[q[n]] ELSE f[i]]
<1>2. n \in Nat /\ m \in Nat /\ n = m + 1 /\ q[n] \in Timers /\ d[q[n]] \in Nat
  BY LenProperties, ElementOfSeq
<1>3. f \in [0 .. m -> Int] /\ f[0] = 0 /\ \A i \in 1 .. m : f[i] = f[i - 1] + d[q[i]]
  BY <1>1 DEF AddsUp
<1>4. \A i \in 0 .. m : i # n /\ i \in 0 .. n
  BY <1>2
<1>5. f[m] \in Int
  BY <1>2, <1>3
<1>6. g \in [0 .. n -> Int]
  <2>1. \A i \in 0 .. n : i = n \/ i \in 0 .. m
    BY <1>2
  <2> QED
    BY <2>1, <1>2, <1>3, <1>5
<1>7. \A i \in 0 .. m : g[i] = f[i]
  BY <1>4
<1>8. g[n] = f[m] + d[q[n]]
  BY <1>2
<1> HIDE DEF g
<1>9. \A i \in 1 .. n : g[i] = g[i - 1] + d[q[i]]
  <2> SUFFICES ASSUME NEW i \in 1 .. n PROVE g[i] = g[i - 1] + d[q[i]]
    OBVIOUS
  <2>1. CASE i = n
    <3>1. g[i - 1] = f[m]
      BY <2>1, <1>2, <1>7
    <3> QED
      BY <2>1, <3>1, <1>8
  <2>2. CASE i # n
    <3>1. i \in 1 .. m /\ i \in 0 .. m /\ i - 1 \in 0 .. m
      BY <2>2, <1>2
    <3> QED
      BY <3>1, <1>3, <1>7
  <2> QED
    BY <2>1, <2>2
<1>10. g[0] = 0
  BY <1>2, <1>3, <1>7
<1>11. AddsUp(q, d, n, g)
  BY <1>6, <1>9, <1>10 DEF AddsUp
<1> QED
  BY <1>11 DEF AddedUp

LEMMA AllAdded ==
    ASSUME NEW q \in Seq(Timers), NEW d \in [Timers -> Nat]
    PROVE  AddedUp(q, d, Len(q))
<1> DEFINE bad == {n \in 0 .. Len(q) : ~ AddedUp(q, d, n)}
<1>1. Len(q) \in Nat
  BY LenProperties
<1>2. SUFFICES ASSUME bad # {} PROVE FALSE
  BY <1>1
<1>3. bad \in SUBSET Nat
  BY <1>1
<1>4. PICK n \in bad : \A k \in bad : n <= k
  BY <1>2, <1>3, LeastNumber
<1>5. n \in 0 .. Len(q) /\ ~ AddedUp(q, d, n)
  OBVIOUS
<1>6. n # 0
  <2> DEFINE f == [i \in 0 .. 0 |-> 0]
  <2>1. f \in [0 .. 0 -> Int] /\ f[0] = 0 /\ 1 .. 0 = {}
    OBVIOUS
  <2>2. AddsUp(q, d, 0, f)
    BY <2>1 DEF AddsUp
  <2> QED
    BY <2>2, <1>5 DEF AddedUp
<1>7. n \in 1 .. Len(q) /\ n - 1 \in 0 .. Len(q) /\ ~ (n <= n - 1)
  BY <1>1, <1>5, <1>6
<1>8. AddedUp(q, d, n - 1)
  BY <1>4, <1>7
<1> QED
  BY <1>5, <1>7, <1>8, OneMore

LEMMA OnlySum ==
    ASSUME NEW q \in Seq(Timers), NEW d \in [Timers -> Nat], NEW f, NEW g,
           AddsUp(q, d, Len(q), f), AddsUp(q, d, Len(q), g)
    PROVE  f = g
<1> DEFINE bad == {n \in 0 .. Len(q) : f[n] # g[n]}
<1>1. Len(q) \in Nat
  BY LenProperties
<1>2. /\ f \in [0 .. Len(q) -> Int] /\ g \in [0 .. Len(q) -> Int]
      /\ f[0] = g[0]
      /\ \A i \in 1 .. Len(q) : /\ f[i] = f[i - 1] + d[q[i]]
                                /\ g[i] = g[i - 1] + d[q[i]]
  BY DEF AddsUp
<1>3. bad = {}
  <2> SUFFICES ASSUME bad # {} PROVE FALSE
    OBVIOUS
  <2>1. bad \in SUBSET Nat
    BY <1>1
  <2>2. PICK n \in bad : \A k \in bad : n <= k
    BY <2>1, LeastNumber
  <2>3. n \in 1 .. Len(q) /\ n - 1 \in 0 .. Len(q) /\ ~ (n <= n - 1)
    BY <1>1, <1>2
  <2>4. f[n - 1] = g[n - 1]
    BY <2>2, <2>3
  <2> QED
    BY <2>3, <2>4, <1>2
<1>4. \A n \in 0 .. Len(q) : f[n] = g[n]
  BY <1>3
<1> QED
  BY <1>2, <1>4

LEMMA SumsAddUp ==
    ASSUME NEW q \in Seq(Timers), NEW d \in [Timers -> Nat]
    PROVE  AddsUp(q, d, Len(q), Sums(q, d))
<1> DEFINE D == 0 .. Len(q)
           rec(f) == [i \in D |-> IF i = 0 THEN 0 ELSE f[i - 1] + d[q[i]]]
<1>1. Len(q) \in Nat
  BY LenProperties
<1>2. PICK f : AddsUp(q, d, Len(q), f)
  BY AllAdded DEF AddedUp
<1>3. f = rec(f)
  <2>1. /\ f \in [D -> Int] /\ f[0] = 0
        /\ \A i \in 1 .. Len(q) : f[i] = f[i - 1] + d[q[i]]
    BY <1>2 DEF AddsUp
  <2>2. \A i \in D : i = 0 \/ i \in 1 .. Len(q)
    BY <1>1
  <2>3. \A i \in D : f[i] = rec(f)[i]
    BY <2>1, <2>2
  <2> QED
    BY <2>1, <2>3
<1>4. Sums(q, d) = CHOOSE sum : sum = rec(sum)
  BY DEF Sums
<1>5. Sums(q, d) = rec(Sums(q, d))
  BY <1>3, <1>4
<1> DEFINE s == Sums(q, d)
<1> HIDE DEF s
<1>6. s = rec(s)
  BY <1>5 DEF s
<1>7. /\ s[0] = 0
      /\ \A i \in 1 .. Len(q) : s[i] = s[i - 1] + d[q[i]]
  <2>1. 0 \in D /\ \A i \in 1 .. Len(q) : i \in D /\ i # 0
    BY <1>1
  <2> QED
    BY <2>1, <1>6
<1>8. \A i \in D : s[i] \in Int
  <2> DEFINE bad == {n \in D : s[n] \notin Int}
  <2> SUFFICES ASSUME bad # {} PROVE FALSE
    OBVIOUS
  <2>1. bad \in SUBSET Nat
    BY <1>1
  <2>2. PICK n \in bad : \A k \in bad : n <= k
    BY <2>1, LeastNumber
  <2>3. n \in 1 .. Len(q) /\ n - 1 \in D /\ ~ (n <= n - 1)
    BY <1>1, <1>7
  <2>4. s[n - 1] \in Int
    BY <2>2, <2>3
  <2>5. q[n] \in Timers
    BY <2>3, ElementOfSeq
  <2> QED
    BY <2>3, <2>4, <2>5, <1>7
<1>9. s \in [D -> Int]
  BY <1>6, <1>8
<1> QED
  BY <1>7, <1>9 DEF AddsUp, s

\* The sums grow along the list.
LEMMA SumsGrow ==
    ASSUME NEW q \in Seq(Timers), NEW d \in [Timers -> Nat],
           NEW i \in 0 .. Len(q), NEW j \in i .. Len(q)
    PROVE  Sums(q, d)[i] <= Sums(q, d)[j]
<1> DEFINE s == Sums(q, d)
<1>1. Len(q) \in Nat
  BY LenProperties
<1>2. /\ s \in [0 .. Len(q) -> Int]
      /\ \A k \in 1 .. Len(q) : s[k] = s[k - 1] + d[q[k]]
  BY SumsAddUp DEF AddsUp
<1> HIDE DEF s
<1> DEFINE bad == {n \in i .. Len(q) : ~ (s[i] <= s[n])}
<1>3. bad = {}
  <2> SUFFICES ASSUME bad # {} PROVE FALSE
    OBVIOUS
  <2>1. bad \in SUBSET Nat
    BY <1>1
  <2>2. PICK n \in bad : \A k \in bad : n <= k
    BY <2>1, LeastNumber
  <2>3. s[i] \in Int
    BY <1>2
  <2>4. n # i
    BY <2>3
  <2>5. n \in 1 .. Len(q) /\ n - 1 \in i .. Len(q) /\ n - 1 \in 0 .. Len(q) /\ ~ (n <= n - 1)
    BY <1>1, <2>4
  <2>6. s[i] <= s[n - 1]
    BY <2>2, <2>5
  <2>7. q[n] \in Timers
    BY <2>5, ElementOfSeq
  <2>8. d[q[n]] \in Nat /\ s[n - 1] \in Int /\ s[n] = s[n - 1] + d[q[n]]
    BY <2>5, <2>7, <1>2
  <2>9. s[i] <= s[n]
    BY <2>3, <2>6, <2>8
  <2> QED
    BY <2>9
<1> QED
  BY <1>3 DEF s

-----------------------------------------------------------------------------
(* Lists of timers: one element more, one element less.                      *)

LEMMA InsertedAt ==
    ASSUME NEW q \in Seq(Timers), NEW at \in 1 .. Len(q) + 1, NEW v \in Timers
    PROVE  /\ InsertAt(q, at, v) \in Seq(Timers)
           /\ Len(InsertAt(q, at, v)) = Len(q) + 1
           /\ \A j \in 1 .. at - 1 : InsertAt(q, at, v)[j] = q[j]
           /\ InsertAt(q, at, v)[at] = v
           /\ \A j \in at + 1 .. Len(q) + 1 : InsertAt(q, at, v)[j] = q[j - 1]
<1> DEFINE front == SubSeq(q, 1, at - 1)
           back == SubSeq(q, at, Len(q))
           mid == front \o <<v>>
           all == mid \o back
<1>1. Len(q) \in Nat /\ at \in Int /\ 1 \in Int
  BY LenProperties
<1>2. /\ front \in Seq(Timers) /\ Len(front) = at - 1
      /\ \A j \in 1 .. at - 1 : front[j] = q[j]
  <2>1. 1 - 1 <= at - 1 /\ at - 1 \in Int
    BY <1>1
  <2>2. \A j \in 1 .. at - 1 : q[j] \in Timers
    BY <1>1, ElementOfSeq
  <2>3. /\ front \in Seq(Timers)
        /\ Len(front) = IF 1 <= at - 1 THEN at - 1 - 1 + 1 ELSE 0
        /\ \A j \in 1 .. at - 1 - 1 + 1 : front[j] = q[1 + j - 1]
    BY <1>1, <2>1, <2>2, SubSeqProperties
  <2> QED
    BY <1>1, <2>3
<1>3. /\ back \in Seq(Timers) /\ Len(back) = Len(q) - at + 1
      /\ \A j \in 1 .. Len(q) - at + 1 : back[j] = q[at + j - 1]
  <2>1. at - 1 <= Len(q)
    BY <1>1
  <2>2. \A j \in at .. Len(q) : q[j] \in Timers
    BY <1>1, ElementOfSeq
  <2>3. /\ back \in Seq(Timers)
        /\ Len(back) = IF at <= Len(q) THEN Len(q) - at + 1 ELSE 0
        /\ \A j \in 1 .. Len(q) - at + 1 : back[j] = q[at + j - 1]
    BY <1>1, <2>1, <2>2, SubSeqProperties
  <2> QED
    BY <1>1, <2>3
<1>4. <<v>> \in Seq(Timers) /\ Len(<<v>>) = 1 /\ <<v>>[1] = v
  OBVIOUS
<1> HIDE DEF front, back
<1>5. /\ mid \in Seq(Timers) /\ Len(mid) = at
      /\ \A j \in 1 .. at - 1 : mid[j] = q[j]
      /\ mid[at] = v
  <2>1. /\ mid \in Seq(Timers) /\ Len(mid) = Len(front) + Len(<<v>>)
        /\ \A j \in 1 .. Len(front) + Len(<<v>>) :
             mid[j] = IF j <= Len(front) THEN front[j] ELSE <<v>>[j - Len(front)]
    BY <1>2, <1>4, ConcatProperties
  <2> QED
    BY <1>1, <1>2, <1>4, <2>1
<1> HIDE DEF mid
<1>6. /\ all \in Seq(Timers) /\ Len(all) = Len(q) + 1
      /\ \A j \in 1 .. at : all[j] = mid[j]
      /\ \A j \in at + 1 .. Len(q) + 1 : all[j] = back[j - at]
  <2>1. /\ all \in Seq(Timers) /\ Len(all) = Len(mid) + Len(back)
        /\ \A j \in 1 .. Len(mid) + Len(back) :
             all[j] = IF j <= Len(mid) THEN mid[j] ELSE back[j - Len(mid)]
    BY <1>3, <1>5, ConcatProperties
  <2> QED
    BY <1>1, <1>3, <1>5, <2>1
<1>7. \A j \in at + 1 .. Len(q) + 1 :
        j - at \in 1 .. Len(q) - at + 1 /\ at + (j - at) - 1 = j - 1
  BY <1>1
<1>8. InsertAt(q, at, v) = all
  BY DEF InsertAt, mid, front, back
<1> HIDE DEF all
<1>9. \A j \in 1 .. at - 1 : j \in 1 .. at
  BY <1>1
<1>10. at \in 1 .. at
  BY <1>1
<1>11. \A j \in at + 1 .. Len(q) + 1 : all[j] = q[j - 1]
  BY <1>3, <1>6, <1>7
<1> QED
  BY <1>5, <1>6, <1>8, <1>9, <1>10, <1>11

LEMMA RemovedAt ==
    ASSUME NEW q \in Seq(Timers), NEW at \in 1 .. Len(q)
    PROVE  /\ RemoveAt(q, at) \in Seq(Timers)
           /\ Len(RemoveAt(q, at)) = Len(q) - 1
           /\ \A j \in 1 .. at - 1 : RemoveAt(q, at)[j] = q[j]
           /\ \A j \in at .. Len(q) - 1 : RemoveAt(q, at)[j] = q[j + 1]
<1> DEFINE front == SubSeq(q, 1, at - 1)
           back == SubSeq(q, at + 1, Len(q))
           all == front \o back
<1>1. Len(q) \in Nat /\ at \in Int /\ 1 \in Int
  BY LenProperties
<1>2. /\ front \in Seq(Timers) /\ Len(front) = at - 1
      /\ \A j \in 1 .. at - 1 : front[j] = q[j]
  <2>1. 1 - 1 <= at - 1 /\ at - 1 \in Int
    BY <1>1
  <2>2. \A j \in 1 .. at - 1 : q[j] \in Timers
    BY <1>1, ElementOfSeq
  <2>3. /\ front \in Seq(Timers)
        /\ Len(front) = IF 1 <= at - 1 THEN at - 1 - 1 + 1 ELSE 0
        /\ \A j \in 1 .. at - 1 - 1 + 1 : front[j] = q[1 + j - 1]
    BY <1>1, <2>1, <2>2, SubSeqProperties
  <2> QED
    BY <1>1, <2>3
<1>3. /\ back \in Seq(Timers) /\ Len(back) = Len(q) - at
      /\ \A j \in 1 .. Len(q) - at : back[j] = q[at + j]
  <2>1. (at + 1) - 1 <= Len(q) /\ at + 1 \in Int
    BY <1>1
  <2>2. \A j \in at + 1 .. Len(q) : q[j] \in Timers
    BY <1>1, ElementOfSeq
  <2>3. /\ back \in Seq(Timers)
        /\ Len(back) = IF at + 1 <= Len(q) THEN Len(q) - (at + 1) + 1 ELSE 0
        /\ \A j \in 1 .. Len(q) - (at + 1) + 1 : back[j] = q[at + 1 + j - 1]
    BY <1>1, <2>1, <2>2, SubSeqProperties
  <2> QED
    BY <1>1, <2>3
<1> HIDE DEF front, back
<1>4. /\ all \in Seq(Timers) /\ Len(all) = Len(q) - 1
      /\ \A j \in 1 .. at - 1 : all[j] = front[j]
      /\ \A j \in at .. Len(q) - 1 : all[j] = back[j - (at - 1)]
  <2>1. /\ all \in Seq(Timers) /\ Len(all) = Len(front) + Len(back)
        /\ \A j \in 1 .. Len(front) + Len(back) :
             all[j] = IF j <= Len(front) THEN front[j] ELSE back[j - Len(front)]
    BY <1>2, <1>3, ConcatProperties
  <2> QED
    BY <1>1, <1>2, <1>3, <2>1
<1>5. \A j \in at .. Len(q) - 1 :
        j - (at - 1) \in 1 .. Len(q) - at /\ at + (j - (at - 1)) = j + 1
  BY <1>1
<1>6. RemoveAt(q, at) = all
  BY DEF RemoveAt, front, back
<1> HIDE DEF all
<1>7. \A j \in at .. Len(q) - 1 : all[j] = q[j + 1]
  BY <1>3, <1>4, <1>5
<1> QED
  BY <1>2, <1>4, <1>6, <1>7

-----------------------------------------------------------------------------
(* What a list of timers says: l gives the ticks that each timer has to go.  *)
(* Setting a timer, taking one out and counting down the first change the    *)
(* ticks of the timer meant, or of all of them, and of no other.             *)

Ticks == -1 .. Range32 - 1

\* systime_t holds its values unchanged, and wraps around just outside.
LEMMA InTimes ==
    /\ \A n \in Times : n % Range32 = n
    /\ \A n \in Range32 .. 2 * Range32 - 1 : n % Range32 = n - Range32
    /\ \A n \in -Range32 .. -1 : n % Range32 = n + Range32
    /\ \A n \in Int : n % Range32 \in Times
<1>1. Range32 \in Nat \ {0}
  BY TimersAssumption
<1>2. ASSUME NEW R \in Nat \ {0}, NEW n \in 0 .. R - 1 PROVE n % R = n
  OBVIOUS
<1>3. ASSUME NEW R \in Nat \ {0}, NEW n \in R .. 2 * R - 1 PROVE n % R = n - R
  OBVIOUS
<1>4. ASSUME NEW R \in Nat \ {0}, NEW n \in -R .. -1 PROVE n % R = n + R
  OBVIOUS
<1>5. ASSUME NEW R \in Nat \ {0}, NEW n \in Int PROVE n % R \in 0 .. R - 1
  OBVIOUS
<1> QED
  BY <1>1, <1>2, <1>3, <1>4, <1>5 DEF Times

Listed(q, a) ==
    /\ q \in Seq(Timers)
    /\ \A i, j \in 1 .. Len(q) : q[i] = q[j] => i = j
    /\ a \in [Timers -> BOOLEAN]
    /\ \A v \in Timers : a[v] <=> \E i \in 1 .. Len(q) : q[i] = v

Shown(q, d, l) == \A i \in 1 .. Len(q) : l[q[i]] = Sums(q, d)[i]

Says(q, d, a, l) ==
    /\ Listed(q, a)
    /\ d \in [Timers -> Times]
    /\ l \in [Timers -> Ticks]
    /\ \A v \in Timers : ~ a[v] => l[v] = -1
    /\ Shown(q, d, l)

\* Nothing is due.
NothingDue(q, d) == Len(q) # 0 => d[q[1]] # 0

LEMMA SaysSums ==
    ASSUME NEW q, NEW d, NEW a, NEW l, Says(q, d, a, l), NEW s, s = Sums(q, d)
    PROVE  /\ q \in Seq(Timers) /\ Len(q) \in Nat
           /\ \A i \in 1 .. Len(q) : q[i] \in Timers
           /\ d \in [Timers -> Nat]
           /\ s \in [0 .. Len(q) -> Int] /\ s[0] = 0
           /\ \A i \in 1 .. Len(q) : s[i] = s[i - 1] + d[q[i]]
           /\ \A i \in 1 .. Len(q) : l[q[i]] = s[i] /\ s[i] \in Times
           /\ \A i, j \in 0 .. Len(q) : i <= j => s[i] <= s[j]
<1>1. q \in Seq(Timers) /\ d \in [Timers -> Times]
  BY DEF Says, Listed
<1>2. Len(q) \in Nat /\ \A i \in 1 .. Len(q) : q[i] \in Timers
  BY <1>1, LenProperties, ElementOfSeq
<1>3. d \in [Timers -> Nat]
  BY <1>1, TimersAssumption DEF Times
<1>4. /\ s \in [0 .. Len(q) -> Int] /\ s[0] = 0
      /\ \A i \in 1 .. Len(q) : s[i] = s[i - 1] + d[q[i]]
  BY <1>1, <1>3, SumsAddUp DEF AddsUp
<1>5. \A i, j \in 0 .. Len(q) : i <= j => s[i] <= s[j]
  <2> SUFFICES ASSUME NEW i \in 0 .. Len(q), NEW j \in 0 .. Len(q), i <= j
               PROVE  s[i] <= s[j]
    OBVIOUS
  <2>1. j \in i .. Len(q)
    BY <1>2
  <2> QED
    BY <2>1, <1>1, <1>3, SumsGrow
<1>6. \A i \in 1 .. Len(q) : l[q[i]] = s[i] /\ s[i] \in Times
  <2> SUFFICES ASSUME NEW i \in 1 .. Len(q) PROVE l[q[i]] = s[i] /\ s[i] \in Times
    OBVIOUS
  <2>1. l[q[i]] = s[i]
    BY DEF Says, Shown
  <2>2. l[q[i]] \in Ticks
    BY <1>2 DEF Says
  <2>3. 0 \in 0 .. Len(q) /\ i \in 0 .. Len(q) /\ 0 <= i
    BY <1>2
  <2>4. s[0] <= s[i]
    BY <1>5, <2>3
  <2>5. s[i] \in Times
    BY <1>4, <2>1, <2>2, <2>4, TimersAssumption DEF Ticks, Times
  <2> QED
    BY <2>1, <2>5
<1> QED
  BY <1>1, <1>2, <1>3, <1>4, <1>5, <1>6

\* s and f with f adding up what is in the list q.
LEMMA SumsAre ==
    ASSUME NEW q \in Seq(Timers), NEW d \in [Timers -> Nat], NEW f,
           AddsUp(q, d, Len(q), f)
    PROVE  Sums(q, d) = f
BY SumsAddUp, OnlySum

\* The ticks that a timer has to go are those that its list says.
LeftIn(q, d, a, v) ==
    IF a[v] THEN Sums(q, d)[CHOOSE i \in 1 .. Len(q) : q[i] = v] ELSE -1

LEMMA SaidOnce ==
    ASSUME NEW q, NEW d, NEW a, NEW l, Says(q, d, a, l)
    PROVE  [v \in Timers |-> LeftIn(q, d, a, v)] = l
<1>1. l \in [Timers -> Ticks]
  BY DEF Says
<1> SUFFICES ASSUME NEW v \in Timers PROVE LeftIn(q, d, a, v) = l[v]
  BY <1>1
<1>2. CASE ~ a[v]
  BY <1>2 DEF Says, LeftIn
<1>3. CASE a[v]
  <2> DEFINE at == CHOOSE i \in 1 .. Len(q) : q[i] = v
  <2>1. \E i \in 1 .. Len(q) : q[i] = v
    BY <1>3 DEF Says, Listed
  <2>2. at \in 1 .. Len(q) /\ q[at] = v
    BY <2>1
  <2>3. LeftIn(q, d, a, v) = Sums(q, d)[at]
    BY <1>3 DEF LeftIn
  <2> HIDE DEF at
  <2>4. l[v] = Sums(q, d)[at]
    BY <2>2 DEF Says, Shown
  <2> QED
    BY <2>3, <2>4
<1> QED
  BY <1>2, <1>3

LEMMA SetSays ==
    ASSUME NEW l, Says(vt_list, vt_time, armed, l), NEW v \in Timers, ~ armed[v],
           NEW n \in Times \ {0}, chVTSetI(v, n)
    PROVE  /\ Says(vt_list', vt_time', armed', [l EXCEPT ![v] = n])
           /\ NothingDue(vt_list, vt_time) => NothingDue(vt_list', vt_time')
<1> DEFINE q == vt_list
           d == vt_time
           s == Sums(q, d)
           later == {i \in 1 .. Len(q) : n <= s[i]}
           at == IF later = {} THEN Len(q) + 1
                 ELSE CHOOSE i \in later : \A j \in later : i <= j
           rest == n - s[at - 1]
           L == Len(q)
           l2 == [l EXCEPT ![v] = n]
<1>1. /\ vt_list' = InsertAt(q, at, v)
      /\ vt_time' = [u \in Timers |-> IF u = v THEN rest
                                      ELSE IF later # {} /\ u = q[at]
                                        THEN Minus(d[u], rest)
                                        ELSE d[u]]
      /\ armed' = [armed EXCEPT ![v] = TRUE]
  BY DEF chVTSetI, ExpiryOf
<1>2. /\ q \in Seq(Timers) /\ L \in Nat
      /\ \A i \in 1 .. L : q[i] \in Timers
      /\ d \in [Timers -> Nat]
      /\ s \in [0 .. L -> Int] /\ s[0] = 0
      /\ \A i \in 1 .. L : s[i] = s[i - 1] + d[q[i]]
      /\ \A i \in 1 .. L : l[q[i]] = s[i] /\ s[i] \in Times
      /\ \A i, j \in 0 .. L : i <= j => s[i] <= s[j]
  BY SaysSums
<1> HIDE DEF s
<1>3. /\ at \in 1 .. L + 1
      /\ at <= L => n <= s[at]
      /\ \A i \in 1 .. at - 1 : i \in 1 .. L /\ s[i] < n
      /\ later # {} <=> at <= L
  <2>1. n \in Int
    BY TimersAssumption DEF Times
  <2>2. \A i \in 1 .. L : s[i] \in Int
    BY <1>2, TimersAssumption DEF Times
  <2>3. CASE later = {}
    <3>1. at = L + 1
      BY <2>3
    <3>2. \A i \in 1 .. L : ~ (n <= s[i])
      BY <2>3
    <3> QED
      BY <3>1, <3>2, <2>1, <2>2, <2>3, <1>2
  <2>4. CASE later # {}
    <3>1. later \in SUBSET Nat
      OBVIOUS
    <3>2. \E i \in later : \A j \in later : i <= j
      BY <3>1, <2>4, LeastNumber
    <3>3. at \in later /\ \A j \in later : at <= j
      BY <3>2, <2>4
    <3> HIDE DEF at
    <3>4. at \in 1 .. L /\ n <= s[at]
      BY <3>3
    <3>5. \A i \in 1 .. at - 1 : i \in 1 .. L /\ ~ (at <= i)
      BY <3>4, <1>2
    <3>6. \A i \in 1 .. at - 1 : ~ (n <= s[i])
      BY <3>3, <3>5
    <3>7. \A i \in 1 .. at - 1 : i \in 1 .. L /\ s[i] < n
      BY <3>5, <3>6, <2>1, <2>2
    <3>8. at \in 1 .. L + 1 /\ at <= L
      BY <3>4, <1>2
    <3> QED
      BY <3>4, <3>7, <3>8, <2>4
  <2> QED
    BY <2>3, <2>4
<1> HIDE DEF later, at
<1>4. n \in Int /\ 0 < n /\ n <= Range32 - 1 /\ Range32 \in Nat
  BY TimersAssumption DEF Times
<1>5. at - 1 \in 0 .. L /\ s[at - 1] \in Int /\ 0 <= s[at - 1] /\ s[at - 1] < n
  <2>1. at - 1 \in 0 .. L /\ 0 \in 0 .. L /\ 0 <= at - 1
    BY <1>2, <1>3
  <2>2. at - 1 = 0 \/ at - 1 \in 1 .. at - 1
    BY <1>2, <1>3
  <2>3. s[at - 1] < n
    BY <2>2, <1>2, <1>3, <1>4
  <2> QED
    BY <2>1, <2>3, <1>2
<1>6. rest \in 1 .. n
  BY <1>4, <1>5
<1>7. at <= L => /\ at \in 1 .. L
                 /\ d[q[at]] \in Times /\ rest <= d[q[at]]
                 /\ Minus(d[q[at]], rest) = d[q[at]] - rest
  <2> SUFFICES ASSUME at <= L
               PROVE  /\ at \in 1 .. L
                      /\ d[q[at]] \in Times /\ rest <= d[q[at]]
                      /\ Minus(d[q[at]], rest) = d[q[at]] - rest
    OBVIOUS
  <2>1. at \in 1 .. L
    BY <1>2, <1>3
  <2>2. d[q[at]] \in Times
    BY <2>1, <1>2 DEF Says
  <2>3. s[at] = s[at - 1] + d[q[at]] /\ n <= s[at]
    BY <2>1, <1>2, <1>3
  <2>4. d[q[at]] \in Int
    BY <2>2, TimersAssumption DEF Times
  <2>5. rest <= d[q[at]]
    BY <2>3, <2>4, <1>4, <1>5
  <2>6. d[q[at]] - rest \in 0 .. Range32 - 1
    BY <2>2, <2>5, <1>4, <1>6, TimersAssumption DEF Times
  <2>7. (d[q[at]] - rest) % Range32 = d[q[at]] - rest
    BY <2>6, InTimes DEF Times
  <2> QED
    BY <2>1, <2>2, <2>5, <2>7 DEF Minus
<1>8. /\ \A i, j \in 1 .. L : q[i] = q[j] => i = j
      /\ \A i \in 1 .. L : q[i] # v
      /\ armed \in [Timers -> BOOLEAN]
      /\ \A u \in Timers : armed[u] <=> \E i \in 1 .. L : q[i] = u
  BY DEF Says, Listed
<1> DEFINE q2 == vt_list'
           d2 == vt_time'
<1>9. /\ q2 \in Seq(Timers)
      /\ Len(q2) = L + 1
      /\ \A j \in 1 .. at - 1 : q2[j] = q[j]
      /\ q2[at] = v
      /\ \A j \in at + 1 .. L + 1 : q2[j] = q[j - 1]
  <2> DEFINE r == InsertAt(q, at, v)
  <2>1. /\ r \in Seq(Timers) /\ Len(r) = L + 1
        /\ \A j \in 1 .. at - 1 : r[j] = q[j]
        /\ r[at] = v
        /\ \A j \in at + 1 .. L + 1 : r[j] = q[j - 1]
    BY <1>2, <1>3, InsertedAt
  <2> HIDE DEF r
  <2>2. q2 = r
    BY <1>1 DEF r
  <2> HIDE DEF q2
  <2> QED
    BY <2>1, <2>2
<1>10. /\ d2[v] = rest
       /\ at <= L => d2[q[at]] = d[q[at]] - rest
       /\ \A i \in 1 .. L : i # at => d2[q[i]] = d[q[i]]
  <2>1. d2[v] = rest
    BY <1>1
  <2>2. at <= L => d2[q[at]] = d[q[at]] - rest
    BY <1>1, <1>2, <1>3, <1>7, <1>8
  <2>3. \A i \in 1 .. L : i # at => d2[q[i]] = d[q[i]]
    <3> SUFFICES ASSUME NEW i \in 1 .. L, i # at PROVE d2[q[i]] = d[q[i]]
      OBVIOUS
    <3>1. q[i] \in Timers /\ q[i] # v
      BY <1>2, <1>8
    <3>2. later # {} => q[i] # q[at]
      BY <1>3, <1>7, <1>8
    <3> QED
      BY <3>1, <3>2, <1>1
  <2> QED
    BY <2>1, <2>2, <2>3
<1>11. d2 \in [Timers -> Times]
  <2>1. rest \in Times
    BY <1>4, <1>6 DEF Times
  <2>2. \A u \in Timers : d[u] \in Times
    BY DEF Says
  <2>3. at <= L => Minus(d[q[at]], rest) \in Times
    BY <1>4, <1>6, <1>7 DEF Times
  <2>4. \A u \in Timers : later # {} /\ u = q[at] => Minus(d[u], rest) \in Times
    BY <2>3, <1>3
  <2> HIDE DEF rest
  <2> QED
    BY <2>1, <2>2, <2>4, <1>1
<1> HIDE DEF q2, d2
<1>12. /\ \A j \in at + 1 .. L + 1 : j - 1 \in 1 .. L /\ j - 1 \in at .. L
       /\ \A j \in 1 .. at - 1 : j \in 1 .. L
       /\ \A j \in 1 .. L + 1 : j \in 1 .. at - 1 \/ j = at \/ j \in at + 1 .. L + 1
       /\ \A i \in 1 .. L : \/ i \in 1 .. at - 1
                            \/ i + 1 \in at + 1 .. L + 1 /\ i + 1 - 1 = i
  BY <1>2, <1>3
<1>13. Listed(q2, armed')
  <2>1. \A i, j \in 1 .. L + 1 : q2[i] = q2[j] => i = j
    <3> SUFFICES ASSUME NEW i \in 1 .. L + 1, NEW j \in 1 .. L + 1, q2[i] = q2[j]
                 PROVE  i = j
      OBVIOUS
    <3>1. CASE i = at \/ j = at
      <4>1. \A k \in 1 .. L + 1 : k # at => q2[k] # v
        BY <1>8, <1>9, <1>12
      <4> QED
        BY <4>1, <3>1, <1>9
    <3>2. CASE i \in 1 .. at - 1 /\ j \in 1 .. at - 1
      BY <3>2, <1>8, <1>9, <1>12
    <3>3. CASE i \in 1 .. at - 1 /\ j \in at + 1 .. L + 1
      <4>1. i = j - 1
        BY <3>3, <1>8, <1>9, <1>12
      <4> QED
        BY <4>1, <3>3, <1>3
    <3>4. CASE j \in 1 .. at - 1 /\ i \in at + 1 .. L + 1
      <4>1. j = i - 1
        BY <3>4, <1>8, <1>9, <1>12
      <4> QED
        BY <4>1, <3>4, <1>3
    <3>5. CASE i \in at + 1 .. L + 1 /\ j \in at + 1 .. L + 1
      <4>1. i - 1 = j - 1
        BY <3>5, <1>8, <1>9, <1>12
      <4> QED
        BY <4>1, <3>5, <1>3
    <3> QED
      BY <3>1, <3>2, <3>3, <3>4, <3>5, <1>12
  <2>2. \A u \in Timers : armed'[u] <=> \E i \in 1 .. L + 1 : q2[i] = u
    <3> SUFFICES ASSUME NEW u \in Timers
                 PROVE  armed'[u] <=> \E i \in 1 .. L + 1 : q2[i] = u
      OBVIOUS
    <3>1. CASE u = v
      BY <3>1, <1>1, <1>3, <1>8, <1>9
    <3>2. CASE u # v
      <4>1. armed'[u] <=> \E i \in 1 .. L : q[i] = u
        BY <3>2, <1>1, <1>8
      <4>2. ASSUME NEW i \in 1 .. L, q[i] = u PROVE \E j \in 1 .. L + 1 : q2[j] = u
        <5>1. CASE i \in 1 .. at - 1
          <6>1. i \in 1 .. L + 1 /\ q2[i] = q[i]
            BY <5>1, <1>2, <1>9
          <6> QED
            BY <6>1, <4>2
        <5>2. CASE i + 1 \in at + 1 .. L + 1
          <6>1. i + 1 \in 1 .. L + 1 /\ i + 1 - 1 = i
            BY <1>2
          <6>2. q2[i + 1] = q[i + 1 - 1]
            BY <5>2, <1>9
          <6> QED
            BY <6>1, <6>2, <4>2
        <5> QED
          BY <5>1, <5>2, <1>12
      <4>3. ASSUME NEW j \in 1 .. L + 1, q2[j] = u PROVE \E i \in 1 .. L : q[i] = u
        <5>1. j # at
          BY <4>3, <3>2, <1>9
        <5> QED
          BY <5>1, <4>3, <1>9, <1>12
      <4> QED
        BY <4>1, <4>2, <4>3
    <3> QED
      BY <3>1, <3>2
  <2>3. armed' \in [Timers -> BOOLEAN]
    BY <1>1, <1>8
  <2> QED
    BY <2>1, <2>2, <2>3, <1>9 DEF Listed
<1> DEFINE f == [j \in 0 .. L + 1 |-> IF j < at THEN s[j] ELSE IF j = at THEN n ELSE s[j - 1]]
<1>14. /\ \A j \in 0 .. at - 1 : f[j] = s[j]
       /\ f[at] = n
       /\ \A j \in at + 1 .. L + 1 : f[j] = s[j - 1]
  BY <1>2, <1>3
<1>15. f \in [0 .. L + 1 -> Int]
  <2>1. \A j \in 0 .. L + 1 : \/ j < at /\ j \in 0 .. L
                              \/ j = at
                              \/ ~ (j < at) /\ j # at /\ j - 1 \in 0 .. L
    BY <1>2, <1>3
  <2> QED
    BY <2>1, <1>2, <1>4
<1> HIDE DEF f
<1>16. \A j \in 1 .. L + 1 : f[j] = f[j - 1] + d2[q2[j]]
  <2> SUFFICES ASSUME NEW j \in 1 .. L + 1 PROVE f[j] = f[j - 1] + d2[q2[j]]
    OBVIOUS
  <2>1. CASE j \in 1 .. at - 1
    <3>1. j \in 1 .. L /\ j # at /\ j \in 0 .. at - 1 /\ j - 1 \in 0 .. at - 1
      BY <2>1, <1>3, <1>12
    <3>2. f[j] = s[j] /\ f[j - 1] = s[j - 1] /\ d2[q2[j]] = d[q[j]]
      BY <3>1, <2>1, <1>9, <1>10, <1>14
    <3> QED
      BY <3>1, <3>2, <1>2
  <2>2. CASE j = at
    <3>1. at - 1 \in 0 .. at - 1
      BY <1>3
    <3>2. f[j] = n /\ f[j - 1] = s[at - 1] /\ d2[q2[j]] = rest
      BY <3>1, <2>2, <1>9, <1>10, <1>14
    <3> QED
      BY <3>2, <1>4, <1>5
  <2>3. CASE j = at + 1
    <3>1. at \in 1 .. L /\ j \in at + 1 .. L + 1 /\ j - 1 = at /\ at <= L
      BY <2>3, <1>2, <1>3
    <3>2. f[j] = s[at] /\ f[j - 1] = n /\ d2[q2[j]] = d[q[at]] - rest
      BY <3>1, <1>9, <1>10, <1>14
    <3>3. s[at] = s[at - 1] + d[q[at]] /\ d[q[at]] \in Int
      BY <3>1, <1>2
    <3> QED
      BY <3>2, <3>3, <1>4, <1>5
  <2>4. CASE j \in at + 2 .. L + 1
    <3> DEFINE i == j - 1
    <3>1. /\ i \in 1 .. L /\ i # at /\ j - 1 = i
          /\ j \in at + 1 .. L + 1 /\ i \in at + 1 .. L + 1
      BY <2>4, <1>2, <1>3
    <3> HIDE DEF i
    <3>2. f[j] = s[i] /\ f[i] = s[i - 1] /\ d2[q2[j]] = d[q[i]]
      BY <3>1, <1>9, <1>10, <1>14
    <3> QED
      BY <3>1, <3>2, <1>2
  <2> QED
    BY <2>1, <2>2, <2>3, <2>4, <1>2, <1>3
<1>17. Sums(q2, d2) = f
  <2>1. f[0] = 0
    BY <1>2, <1>3, <1>14
  <2>2. AddsUp(q2, d2, Len(q2), f)
    BY <2>1, <1>9, <1>15, <1>16 DEF AddsUp
  <2>3. d2 \in [Timers -> Nat]
    BY <1>11, TimersAssumption DEF Times
  <2> QED
    BY <2>2, <2>3, <1>9, SumsAre
<1>18. l \in [Timers -> Ticks] /\ \A u \in Timers : ~ armed[u] => l[u] = -1
  BY DEF Says
<1>19. Shown(q2, d2, l2)
  <2> SUFFICES ASSUME NEW j \in 1 .. L + 1 PROVE l2[q2[j]] = f[j]
    BY <1>9, <1>17 DEF Shown
  <2>1. CASE j = at
    BY <2>1, <1>9, <1>14, <1>18
  <2>2. CASE j \in 1 .. at - 1
    <3>1. j \in 1 .. L /\ j \in 0 .. at - 1 /\ q2[j] = q[j] /\ f[j] = s[j]
      BY <2>2, <1>3, <1>9, <1>12, <1>14
    <3>2. q[j] \in Timers /\ q[j] # v /\ l[q[j]] = s[j]
      BY <3>1, <1>2, <1>8
    <3>3. l2[q[j]] = l[q[j]]
      BY <3>2, <1>18
    <3> QED
      BY <3>1, <3>2, <3>3
  <2>3. CASE j \in at + 1 .. L + 1
    <3>1. j - 1 \in 1 .. L /\ q2[j] = q[j - 1] /\ f[j] = s[j - 1]
      BY <2>3, <1>9, <1>12, <1>14
    <3>2. q[j - 1] \in Timers /\ q[j - 1] # v /\ l[q[j - 1]] = s[j - 1]
      BY <3>1, <1>2, <1>8
    <3>3. l2[q[j - 1]] = l[q[j - 1]]
      BY <3>2, <1>18
    <3> QED
      BY <3>1, <3>2, <3>3
  <2> QED
    BY <2>1, <2>2, <2>3, <1>12
<1>20. Says(q2, d2, armed', l2)
  <2>1. n \in Ticks
    BY <1>4 DEF Ticks
  <2>2. l2 \in [Timers -> Ticks]
    BY <2>1, <1>18
  <2>3. \A u \in Timers : ~ armed'[u] => l2[u] = -1
    BY <1>1, <1>8, <1>18
  <2> QED
    BY <2>2, <2>3, <1>11, <1>13, <1>19 DEF Says
<1>21. NothingDue(q, d) => NothingDue(q2, d2)
  <2>1. CASE at = 1
    <3>1. d2[q2[1]] = rest
      BY <2>1, <1>9, <1>10
    <3> QED
      BY <3>1, <1>6 DEF NothingDue
  <2>2. CASE at # 1
    <3>1. 1 \in 1 .. at - 1 /\ 1 \in 1 .. L /\ L # 0
      BY <2>2, <1>2, <1>3
    <3>2. d2[q2[1]] = d[q[1]]
      BY <3>1, <2>2, <1>9, <1>10
    <3> QED
      BY <3>1, <3>2 DEF NothingDue
  <2> QED
    BY <2>1, <2>2
<1> QED
  BY <1>20, <1>21 DEF q2, d2

LEMMA ResetSays ==
    ASSUME NEW l, Says(vt_list, vt_time, armed, l), NEW v \in Timers, chVTResetI(v)
    PROVE  /\ Says(vt_list', vt_time', armed', [l EXCEPT ![v] = -1])
           /\ NothingDue(vt_list, vt_time) => NothingDue(vt_list', vt_time')
<1> DEFINE q == vt_list
           d == vt_time
           s == Sums(q, d)
           at == CHOOSE i \in 1 .. Len(q) : q[i] = v
           L == Len(q)
           l2 == [l EXCEPT ![v] = -1]
<1>1. /\ armed[v]
      /\ vt_list' = RemoveAt(q, at)
      /\ vt_time' = IF at = L THEN d ELSE [d EXCEPT ![q[at + 1]] = @ + d[v]]
      /\ armed' = [armed EXCEPT ![v] = FALSE]
  BY DEF chVTResetI
<1>2. /\ q \in Seq(Timers) /\ L \in Nat
      /\ \A i \in 1 .. L : q[i] \in Timers
      /\ d \in [Timers -> Nat]
      /\ s \in [0 .. L -> Int] /\ s[0] = 0
      /\ \A i \in 1 .. L : s[i] = s[i - 1] + d[q[i]]
      /\ \A i \in 1 .. L : l[q[i]] = s[i] /\ s[i] \in Times
      /\ \A i, j \in 0 .. L : i <= j => s[i] <= s[j]
  BY SaysSums
<1> HIDE DEF s
<1>3. /\ \A i, j \in 1 .. L : q[i] = q[j] => i = j
      /\ armed \in [Timers -> BOOLEAN]
      /\ \A u \in Timers : armed[u] <=> \E i \in 1 .. L : q[i] = u
  BY DEF Says, Listed
<1>4. at \in 1 .. L /\ q[at] = v
  <2>1. \E i \in 1 .. L : q[i] = v
    BY <1>1, <1>3
  <2> QED
    BY <2>1
<1> HIDE DEF at
<1>5. /\ \A i \in 1 .. L : i # at => q[i] # v
      /\ d[v] \in Nat
  BY <1>2, <1>3, <1>4
<1> DEFINE q2 == vt_list'
           d2 == vt_time'
<1>6. /\ q2 \in Seq(Timers)
      /\ Len(q2) = L - 1
      /\ \A j \in 1 .. at - 1 : q2[j] = q[j]
      /\ \A j \in at .. L - 1 : q2[j] = q[j + 1]
  <2> DEFINE r == RemoveAt(q, at)
  <2>1. /\ r \in Seq(Timers) /\ Len(r) = L - 1
        /\ \A j \in 1 .. at - 1 : r[j] = q[j]
        /\ \A j \in at .. L - 1 : r[j] = q[j + 1]
    BY <1>2, <1>4, RemovedAt
  <2> HIDE DEF r
  <2>2. q2 = r
    BY <1>1 DEF r
  <2> HIDE DEF q2
  <2> QED
    BY <2>1, <2>2
<1>7. /\ at < L => at + 1 \in 1 .. L /\ d2[q[at + 1]] = d[q[at + 1]] + d[v]
      /\ \A i \in 1 .. L : i # at + 1 => d2[q[i]] = d[q[i]]
  <2>1. CASE at = L
    <3>1. d2 = d /\ ~ (at < L)
      BY <2>1, <1>1, <1>4
    <3> QED
      BY <3>1
  <2>2. CASE at # L
    <3>1. at + 1 \in 1 .. L
      BY <2>2, <1>2, <1>4
    <3>2. d2 = [d EXCEPT ![q[at + 1]] = @ + d[v]]
      BY <2>2, <1>1
    <3>3. q[at + 1] \in Timers
      BY <3>1, <1>2
    <3>4. d2[q[at + 1]] = d[q[at + 1]] + d[v]
      BY <3>2, <3>3, <1>2
    <3>5. ASSUME NEW i \in 1 .. L, i # at + 1 PROVE d2[q[i]] = d[q[i]]
      <4>1. q[i] \in Timers /\ q[i] # q[at + 1]
        BY <3>1, <3>5, <1>2, <1>3
      <4> QED
        BY <4>1, <3>2, <1>2
    <3> QED
      BY <3>1, <3>4, <3>5
  <2> QED
    BY <2>1, <2>2
<1>8. d2 \in [Timers -> Times]
  <2>1. d \in [Timers -> Times]
    BY DEF Says
  <2>2. CASE at = L
    BY <2>1, <2>2, <1>1
  <2>3. CASE at # L
    <3>1. at + 1 \in 1 .. L /\ at \in 1 .. L /\ at - 1 \in 0 .. L /\ at + 1 - 1 = at
      BY <2>3, <1>2, <1>4
    <3>2. /\ s[at + 1] = s[at] + d[q[at + 1]]
          /\ s[at] = s[at - 1] + d[v]
          /\ s[at + 1] \in Times
      BY <3>1, <1>2, <1>4
    <3>3. 0 \in 0 .. L /\ 0 <= at - 1
      BY <3>1, <1>2
    <3>a. at - 1 \in 0 .. L /\ at \in 0 .. L
      BY <3>1
    <3>b. s[at - 1] \in Int /\ s[at] \in Int
      BY <3>a, <1>2
    <3>4. 0 <= s[at - 1] /\ s[at - 1] \in Int /\ s[at] \in Int
      BY <3>a, <3>b, <3>3, <1>2
    <3>5. q[at + 1] \in Timers /\ d[q[at + 1]] \in Nat
      BY <3>1, <1>2
    <3>6. d[q[at + 1]] + d[v] \in Times
      BY <3>2, <3>4, <3>5, <1>5, TimersAssumption DEF Times
    <3>7. d2 = [d EXCEPT ![q[at + 1]] = d[q[at + 1]] + d[v]]
      BY <2>3, <1>1
    <3> HIDE DEF d2
    <3> QED
      BY <3>5, <3>6, <3>7, <2>1
  <2> QED
    BY <2>2, <2>3
<1> HIDE DEF q2, d2
<1>9. /\ \A j \in at .. L - 1 : j + 1 \in 1 .. L /\ j + 1 # at /\ j \in 0 .. L - 1
      /\ \A j \in 1 .. at - 1 : j \in 1 .. L /\ j # at /\ j # at + 1 /\ j - 1 \in 0 .. at - 1
      /\ \A j \in 1 .. L - 1 : j \in 1 .. at - 1 \/ j \in at .. L - 1
      /\ \A i \in 1 .. L : \/ i \in 1 .. at - 1
                           \/ i = at
                           \/ i - 1 \in at .. L - 1 /\ (i - 1) + 1 = i
      /\ \A j \in 1 .. at - 1 : j \in 1 .. L - 1
      /\ \A j \in at .. L - 1 : j \in 1 .. L - 1
  BY <1>2, <1>4
<1>10. Listed(q2, armed')
  <2>1. \A i, j \in 1 .. L - 1 : q2[i] = q2[j] => i = j
    <3> SUFFICES ASSUME NEW i \in 1 .. L - 1, NEW j \in 1 .. L - 1, q2[i] = q2[j]
                 PROVE  i = j
      OBVIOUS
    <3>1. CASE i \in 1 .. at - 1 /\ j \in 1 .. at - 1
      BY <3>1, <1>3, <1>6, <1>9
    <3>2. CASE i \in 1 .. at - 1 /\ j \in at .. L - 1
      <4>1. i = j + 1
        BY <3>2, <1>3, <1>6, <1>9
      <4> QED
        BY <4>1, <3>2, <1>4
    <3>3. CASE j \in 1 .. at - 1 /\ i \in at .. L - 1
      <4>1. j = i + 1
        BY <3>3, <1>3, <1>6, <1>9
      <4> QED
        BY <4>1, <3>3, <1>4
    <3>4. CASE i \in at .. L - 1 /\ j \in at .. L - 1
      <4>1. i + 1 = j + 1
        BY <3>4, <1>3, <1>6, <1>9
      <4> QED
        BY <4>1, <3>4, <1>4
    <3> QED
      BY <3>1, <3>2, <3>3, <3>4, <1>9
  <2>2. \A u \in Timers : armed'[u] <=> \E i \in 1 .. L - 1 : q2[i] = u
    <3> SUFFICES ASSUME NEW u \in Timers
                 PROVE  armed'[u] <=> \E i \in 1 .. L - 1 : q2[i] = u
      OBVIOUS
    <3>1. CASE u = v
      <4>1. ~ armed'[u]
        BY <3>1, <1>1, <1>3
      <4>2. \A j \in 1 .. L - 1 : q2[j] # v
        BY <1>5, <1>6, <1>9
      <4> QED
        BY <4>1, <4>2, <3>1
    <3>2. CASE u # v
      <4>1. armed'[u] <=> \E i \in 1 .. L : q[i] = u
        BY <3>2, <1>1, <1>3
      <4>2. ASSUME NEW i \in 1 .. L, q[i] = u PROVE \E j \in 1 .. L - 1 : q2[j] = u
        <5>1. CASE i \in 1 .. at - 1
          BY <5>1, <4>2, <1>6, <1>9
        <5>2. CASE i - 1 \in at .. L - 1 /\ (i - 1) + 1 = i
          BY <5>2, <4>2, <1>6, <1>9
        <5>3. i # at
          BY <4>2, <3>2, <1>4
        <5> QED
          BY <5>1, <5>2, <5>3, <1>9
      <4>3. ASSUME NEW j \in 1 .. L - 1, q2[j] = u PROVE \E i \in 1 .. L : q[i] = u
        BY <4>3, <1>6, <1>9
      <4> QED
        BY <4>1, <4>2, <4>3
    <3> QED
      BY <3>1, <3>2
  <2>3. armed' \in [Timers -> BOOLEAN]
    BY <1>1, <1>3
  <2> QED
    BY <2>1, <2>2, <2>3, <1>6 DEF Listed
<1> DEFINE f == [j \in 0 .. L - 1 |-> IF j < at THEN s[j] ELSE s[j + 1]]
<1>11. /\ \A j \in 0 .. at - 1 : f[j] = s[j]
       /\ \A j \in at .. L - 1 : f[j] = s[j + 1]
  BY <1>2, <1>4
<1>12. f \in [0 .. L - 1 -> Int]
  <2>1. \A j \in 0 .. L - 1 : j \in 0 .. L /\ j + 1 \in 0 .. L
    BY <1>2
  <2> QED
    BY <2>1, <1>2
<1> HIDE DEF f
<1>13. \A j \in 1 .. L - 1 : f[j] = f[j - 1] + d2[q2[j]]
  <2> SUFFICES ASSUME NEW j \in 1 .. L - 1 PROVE f[j] = f[j - 1] + d2[q2[j]]
    OBVIOUS
  <2>1. CASE j \in 1 .. at - 1
    <3>1. j \in 1 .. L /\ j # at + 1 /\ j \in 0 .. at - 1 /\ j - 1 \in 0 .. at - 1
      BY <2>1, <1>9
    <3>2. f[j] = s[j] /\ f[j - 1] = s[j - 1] /\ d2[q2[j]] = d[q[j]]
      BY <3>1, <2>1, <1>6, <1>7, <1>11
    <3> QED
      BY <3>1, <3>2, <1>2
  <2>2. CASE j = at
    <3>1. /\ at < L /\ at \in at .. L - 1 /\ at - 1 \in 0 .. at - 1 /\ at \in 1 .. L
          /\ at + 1 \in 1 .. L /\ at + 1 - 1 = at
      BY <2>2, <1>2, <1>4
    <3>2. f[j] = s[at + 1] /\ f[j - 1] = s[at - 1] /\ d2[q2[j]] = d[q[at + 1]] + d[v]
      BY <3>1, <2>2, <1>6, <1>7, <1>11
    <3>3. s[at + 1] = s[at] + d[q[at + 1]] /\ s[at] = s[at - 1] + d[v]
      BY <3>1, <1>2, <1>4
    <3>a. at - 1 \in 0 .. L
      BY <1>2, <1>4
    <3>4. at - 1 \in 0 .. L /\ q[at + 1] \in Timers
      BY <3>1, <3>a, <1>2
    <3>5. s[at - 1] \in Int /\ d[q[at + 1]] \in Nat
      BY <3>4, <1>2
    <3> QED
      BY <3>2, <3>3, <3>5, <1>5
  <2>3. CASE j \in at + 1 .. L - 1
    <3>1. /\ j \in at .. L - 1 /\ j - 1 \in at .. L - 1 /\ j + 1 \in 1 .. L
          /\ j + 1 # at + 1 /\ (j - 1) + 1 = (j + 1) - 1
      BY <2>3, <1>2, <1>4
    <3>2. f[j] = s[j + 1] /\ f[j - 1] = s[(j + 1) - 1] /\ d2[q2[j]] = d[q[j + 1]]
      BY <3>1, <1>6, <1>7, <1>11
    <3>3. s[j + 1] = s[(j + 1) - 1] + d[q[j + 1]]
      BY <3>1, <1>2
    <3> QED
      BY <3>2, <3>3
  <2> QED
    BY <2>1, <2>2, <2>3, <1>2, <1>4
<1>14. Sums(q2, d2) = f
  <2>1. f[0] = 0
    BY <1>2, <1>4, <1>11
  <2>2. AddsUp(q2, d2, Len(q2), f)
    BY <2>1, <1>6, <1>12, <1>13 DEF AddsUp
  <2>3. d2 \in [Timers -> Nat]
    BY <1>8, TimersAssumption DEF Times
  <2> QED
    BY <2>2, <2>3, <1>6, SumsAre
<1>15. l \in [Timers -> Ticks] /\ \A u \in Timers : ~ armed[u] => l[u] = -1
  BY DEF Says
<1>16. Shown(q2, d2, l2)
  <2> SUFFICES ASSUME NEW j \in 1 .. L - 1 PROVE l2[q2[j]] = f[j]
    BY <1>6, <1>14 DEF Shown
  <2>1. CASE j \in 1 .. at - 1
    <3>1. j \in 1 .. L /\ j \in 0 .. at - 1 /\ q2[j] = q[j] /\ f[j] = s[j] /\ j # at
      BY <2>1, <1>4, <1>6, <1>9, <1>11
    <3>2. q[j] \in Timers /\ q[j] # v /\ l[q[j]] = s[j]
      BY <3>1, <1>2, <1>5
    <3>3. l2[q[j]] = l[q[j]]
      BY <3>2, <1>15
    <3> QED
      BY <3>1, <3>2, <3>3
  <2>2. CASE j \in at .. L - 1
    <3>1. j + 1 \in 1 .. L /\ q2[j] = q[j + 1] /\ f[j] = s[j + 1] /\ j + 1 # at
      BY <2>2, <1>6, <1>9, <1>11
    <3>2. q[j + 1] \in Timers /\ q[j + 1] # v /\ l[q[j + 1]] = s[j + 1]
      BY <3>1, <1>2, <1>5
    <3>3. l2[q[j + 1]] = l[q[j + 1]]
      BY <3>2, <1>15
    <3> QED
      BY <3>1, <3>2, <3>3
  <2> QED
    BY <2>1, <2>2, <1>9
<1>17. Says(q2, d2, armed', l2)
  <2>1. -1 \in Ticks
    BY TimersAssumption DEF Ticks
  <2>2. l2 \in [Timers -> Ticks]
    BY <2>1, <1>15
  <2>3. \A u \in Timers : ~ armed'[u] => l2[u] = -1
    BY <1>1, <1>3, <1>15
  <2> QED
    BY <2>2, <2>3, <1>8, <1>10, <1>16 DEF Says
<1>18. NothingDue(q, d) => NothingDue(q2, d2)
  <2> SUFFICES ASSUME NothingDue(q, d), L - 1 # 0 PROVE d2[q2[1]] # 0
    BY <1>6 DEF NothingDue
  <2>1. CASE at = 1
    <3>a. L \in Nat /\ at = 1 /\ at \in 1 .. L /\ L - 1 # 0
      BY <2>1, <1>2, <1>4
    <3>b. \A n \in Nat : 1 \in 1 .. n /\ n - 1 # 0 =>
            1 < n /\ 1 \in 1 .. n - 1 /\ 1 + 1 \in 1 .. n /\ n # 0
      OBVIOUS
    <3>c. 1 < L /\ 1 \in 1 .. L - 1 /\ 1 + 1 \in 1 .. L /\ L # 0
      BY <3>a, <3>b
    <3>1. at < L /\ 1 \in at .. L - 1 /\ at + 1 \in 1 .. L /\ L # 0
      BY <3>a, <3>c
    <3>2. d2[q2[1]] = d[q[at + 1]] + d[v] /\ d[v] # 0
      BY <3>1, <2>1, <1>4, <1>6, <1>7 DEF NothingDue
    <3>3. d[q[at + 1]] \in Nat
      BY <3>1, <1>2
    <3> QED
      BY <3>2, <3>3, <1>5
  <2>2. CASE at # 1
    <3>1. 1 \in 1 .. at - 1 /\ 1 \in 1 .. L /\ 1 # at + 1 /\ L # 0
      BY <2>2, <1>2, <1>4
    <3>2. d2[q2[1]] = d[q[1]]
      BY <3>1, <1>6, <1>7
    <3> QED
      BY <3>1, <3>2 DEF NothingDue
  <2> QED
    BY <2>1, <2>2
<1> QED
  BY <1>17, <1>18 DEF q2, d2

\* A tick, with nothing due.
LEMMA TickSays ==
    ASSUME NEW l, Says(vt_list, vt_time, armed, l), NothingDue(vt_list, vt_time),
           vt_list # <<>>
    PROVE  LET d == [vt_time EXCEPT ![Head(vt_list)] = Minus(@, 1)]
           IN  /\ Says(vt_list, d, armed,
                       [v \in Timers |-> IF l[v] = -1 THEN -1 ELSE l[v] - 1])
               /\ \A v \in Timers : l[v] # 0
<1> DEFINE q == vt_list
           d == vt_time
           s == Sums(q, d)
           L == Len(q)
           d2 == [d EXCEPT ![Head(q)] = Minus(@, 1)]
           l2 == [v \in Timers |-> IF l[v] = -1 THEN -1 ELSE l[v] - 1]
<1>1. /\ q \in Seq(Timers) /\ L \in Nat
      /\ \A i \in 1 .. L : q[i] \in Timers
      /\ d \in [Timers -> Nat]
      /\ s \in [0 .. L -> Int] /\ s[0] = 0
      /\ \A i \in 1 .. L : s[i] = s[i - 1] + d[q[i]]
      /\ \A i \in 1 .. L : l[q[i]] = s[i] /\ s[i] \in Times
      /\ \A i, j \in 0 .. L : i <= j => s[i] <= s[j]
  BY SaysSums
<1> HIDE DEF s
<1>2. /\ \A i, j \in 1 .. L : q[i] = q[j] => i = j
      /\ armed \in [Timers -> BOOLEAN]
      /\ \A u \in Timers : armed[u] <=> \E i \in 1 .. L : q[i] = u
      /\ d \in [Timers -> Times]
      /\ l \in [Timers -> Ticks]
      /\ \A u \in Timers : ~ armed[u] => l[u] = -1
  BY DEF Says, Listed
<1>3. 1 \in 1 .. L /\ L # 0 /\ Head(q) = q[1]
  BY <1>1, EmptySeq
<1>4. q[1] \in Timers /\ d[q[1]] \in Times /\ d[q[1]] # 0
  BY <1>1, <1>2, <1>3 DEF NothingDue
<1>5. d[q[1]] - 1 \in Times /\ Minus(d[q[1]], 1) = d[q[1]] - 1
  <2>1. d[q[1]] - 1 \in Times
    BY <1>4, TimersAssumption DEF Times
  <2> QED
    BY <2>1, InTimes DEF Minus
<1>6. d2 = [d EXCEPT ![q[1]] = d[q[1]] - 1]
  BY <1>3, <1>5
<1> HIDE DEF d2
<1>7. /\ d2 \in [Timers -> Times]
      /\ d2[q[1]] = d[q[1]] - 1
      /\ \A i \in 1 .. L : i # 1 => d2[q[i]] = d[q[i]]
  <2>1. d2 \in [Timers -> Times] /\ d2[q[1]] = d[q[1]] - 1
    BY <1>2, <1>4, <1>5, <1>6
  <2>2. ASSUME NEW i \in 1 .. L, i # 1 PROVE d2[q[i]] = d[q[i]]
    <3>1. q[i] \in Timers /\ q[i] # q[1]
      BY <2>2, <1>1, <1>2, <1>3
    <3> QED
      BY <3>1, <1>2, <1>6
  <2> QED
    BY <2>1, <2>2
<1>8. \A i \in 1 .. L : s[i] # 0 /\ s[i] # -1 /\ s[i] - 1 \in Times
  <2> SUFFICES ASSUME NEW i \in 1 .. L PROVE s[i] # 0 /\ s[i] # -1 /\ s[i] - 1 \in Times
    OBVIOUS
  <2>1. 1 \in 0 .. L /\ i \in 0 .. L /\ 1 <= i
    BY <1>1, <1>3
  <2>2. s[1] <= s[i]
    BY <2>1, <1>1
  <2>3. s[1] = d[q[1]] /\ s[i] \in Times
    <3>1. 1 - 1 = 0 /\ d[q[1]] \in Nat
      BY <1>1, <1>4
    <3> QED
      BY <3>1, <1>1, <1>3
  <2>4. s[i] \in Int /\ 0 < s[i] /\ s[i] <= Range32 - 1
    BY <2>2, <2>3, <1>4, TimersAssumption DEF Times
  <2> QED
    BY <2>4, TimersAssumption DEF Times
<1> DEFINE f == [j \in 0 .. L |-> IF j = 0 THEN 0 ELSE s[j] - 1]
<1>9. /\ f \in [0 .. L -> Int] /\ f[0] = 0
      /\ \A j \in 1 .. L : f[j] = s[j] - 1
  <2>1. 0 \in 0 .. L /\ \A j \in 1 .. L : j \in 0 .. L /\ j # 0
    BY <1>1
  <2>2. f \in [0 .. L -> Int]
    BY <1>1
  <2> QED
    BY <2>1, <2>2
<1> HIDE DEF f
<1>10. \A j \in 1 .. L : f[j] = f[j - 1] + d2[q[j]]
  <2> SUFFICES ASSUME NEW j \in 1 .. L PROVE f[j] = f[j - 1] + d2[q[j]]
    OBVIOUS
  <2>1. s[j] = s[j - 1] + d[q[j]] /\ f[j] = s[j] - 1 /\ d[q[j]] \in Nat
    BY <1>1, <1>9
  <2>2. CASE j = 1
    <3>1. j - 1 = 0
      BY <2>2
    <3> QED
      BY <3>1, <2>1, <2>2, <1>1, <1>7, <1>9
  <2>3. CASE j # 1
    <3>1. j - 1 \in 1 .. L /\ j - 1 \in 0 .. L
      BY <2>3, <1>1
    <3>2. f[j - 1] = s[j - 1] - 1 /\ s[j - 1] \in Int /\ d2[q[j]] = d[q[j]]
      BY <3>1, <2>3, <1>1, <1>7, <1>9
    <3> QED
      BY <3>2, <2>1
  <2> QED
    BY <2>2, <2>3
<1>11. Sums(q, d2) = f
  <2>1. AddsUp(q, d2, L, f)
    BY <1>9, <1>10 DEF AddsUp
  <2>2. d2 \in [Timers -> Nat]
    BY <1>7, TimersAssumption DEF Times
  <2> QED
    BY <2>1, <2>2, <1>1, SumsAre
<1>12. \A v \in Timers : l[v] # 0 /\ (l[v] # -1 => l[v] - 1 \in Ticks)
  <2> SUFFICES ASSUME NEW v \in Timers PROVE l[v] # 0 /\ (l[v] # -1 => l[v] - 1 \in Ticks)
    OBVIOUS
  <2>1. CASE ~ armed[v]
    BY <2>1, <1>2
  <2>2. CASE armed[v]
    <3>1. PICK i \in 1 .. L : q[i] = v
      BY <2>2, <1>2
    <3>2. l[v] = s[i]
      BY <3>1, <1>1
    <3>3. s[i] # 0 /\ s[i] - 1 \in Times
      BY <1>8
    <3> QED
      BY <3>2, <3>3, TimersAssumption DEF Ticks, Times
  <2> QED
    BY <2>1, <2>2
<1>13. l2 \in [Timers -> Ticks]
  <2>1. -1 \in Ticks
    BY TimersAssumption DEF Ticks
  <2> QED
    BY <2>1, <1>12
<1>14. Shown(q, d2, l2)
  <2> SUFFICES ASSUME NEW j \in 1 .. L PROVE l2[q[j]] = f[j]
    BY <1>11 DEF Shown
  <2>1. l[q[j]] = s[j] /\ q[j] \in Timers /\ s[j] # -1 /\ f[j] = s[j] - 1
    BY <1>1, <1>8, <1>9
  <2> QED
    BY <2>1
<1>15. \A u \in Timers : ~ armed[u] => l2[u] = -1
  BY <1>2
<1>16. Listed(q, armed)
  BY DEF Says
<1>17. Says(q, d2, armed, l2)
  BY <1>7, <1>13, <1>14, <1>15, <1>16 DEF Says
<1> QED
  BY <1>12, <1>17 DEF d2

\* The first timer of the list, which is due, leaves it.
LEMMA ExpireSays ==
    ASSUME NEW l, Says(vt_list, vt_time, armed, l), vt_list # <<>>,
           vt_time[Head(vt_list)] = 0
    PROVE  /\ Head(vt_list) \in Timers
           /\ l[Head(vt_list)] = 0
           /\ Says(Tail(vt_list), vt_time, [armed EXCEPT ![Head(vt_list)] = FALSE],
                   [l EXCEPT ![Head(vt_list)] = -1])
<1> DEFINE q == vt_list
           d == vt_time
           s == Sums(q, d)
           L == Len(q)
           v == Head(q)
           q2 == Tail(q)
           a2 == [armed EXCEPT ![v] = FALSE]
           l2 == [l EXCEPT ![v] = -1]
<1>1. /\ q \in Seq(Timers) /\ L \in Nat
      /\ \A i \in 1 .. L : q[i] \in Timers
      /\ d \in [Timers -> Nat]
      /\ s \in [0 .. L -> Int] /\ s[0] = 0
      /\ \A i \in 1 .. L : s[i] = s[i - 1] + d[q[i]]
      /\ \A i \in 1 .. L : l[q[i]] = s[i] /\ s[i] \in Times
      /\ \A i, j \in 0 .. L : i <= j => s[i] <= s[j]
  BY SaysSums
<1> HIDE DEF s
<1>2. /\ \A i, j \in 1 .. L : q[i] = q[j] => i = j
      /\ armed \in [Timers -> BOOLEAN]
      /\ \A u \in Timers : armed[u] <=> \E i \in 1 .. L : q[i] = u
      /\ d \in [Timers -> Times]
      /\ l \in [Timers -> Ticks]
      /\ \A u \in Timers : ~ armed[u] => l[u] = -1
  BY DEF Says, Listed
<1>3. 1 \in 1 .. L /\ L # 0 /\ v = q[1] /\ q # <<>>
  BY <1>1, EmptySeq
<1>4. v \in Timers /\ d[v] = 0
  BY <1>1, <1>3
<1>5. /\ q2 \in Seq(Timers) /\ Len(q2) = L - 1
      /\ \A j \in 1 .. L - 1 : q2[j] = q[j + 1]
  BY <1>1, <1>3, HeadTailProperties
<1> HIDE DEF q2, v
<1>6. s[1] = 0
  <2>1. 1 - 1 = 0
    OBVIOUS
  <2> QED
    BY <2>1, <1>1, <1>3, <1>4
<1>7. /\ \A j \in 1 .. L - 1 : j + 1 \in 1 .. L /\ j + 1 # 1
      /\ \A i \in 1 .. L : i = 1 \/ (i - 1 \in 1 .. L - 1 /\ (i - 1) + 1 = i)
  BY <1>1
<1>8. Listed(q2, a2)
  <2>1. \A i, j \in 1 .. L - 1 : q2[i] = q2[j] => i = j
    <3> SUFFICES ASSUME NEW i \in 1 .. L - 1, NEW j \in 1 .. L - 1, q2[i] = q2[j]
                 PROVE  i = j
      OBVIOUS
    <3>1. i + 1 = j + 1
      BY <1>2, <1>5, <1>7
    <3> QED
      BY <3>1
  <2>2. \A u \in Timers : a2[u] <=> \E i \in 1 .. L - 1 : q2[i] = u
    <3> SUFFICES ASSUME NEW u \in Timers
                 PROVE  a2[u] <=> \E i \in 1 .. L - 1 : q2[i] = u
      OBVIOUS
    <3>1. CASE u = v
      BY <3>1, <1>2, <1>3, <1>5, <1>7
    <3>2. CASE u # v
      <4>1. a2[u] <=> \E i \in 1 .. L : q[i] = u
        BY <3>2, <1>2
      <4>2. ASSUME NEW i \in 1 .. L, q[i] = u PROVE \E j \in 1 .. L - 1 : q2[j] = u
        <5>1. i # 1
          BY <4>2, <3>2, <1>3
        <5>2. i - 1 \in 1 .. L - 1 /\ q2[i - 1] = q[(i - 1) + 1] /\ (i - 1) + 1 = i
          BY <5>1, <1>5, <1>7
        <5> QED
          BY <5>2, <4>2
      <4>3. ASSUME NEW j \in 1 .. L - 1, q2[j] = u PROVE \E i \in 1 .. L : q[i] = u
        BY <4>3, <1>5, <1>7
      <4> QED
        BY <4>1, <4>2, <4>3
    <3> QED
      BY <3>1, <3>2
  <2>3. a2 \in [Timers -> BOOLEAN]
    BY <1>2
  <2> QED
    BY <2>1, <2>2, <2>3, <1>5 DEF Listed
<1> DEFINE f == [j \in 0 .. L - 1 |-> s[j + 1]]
<1>9. /\ f \in [0 .. L - 1 -> Int] /\ f[0] = 0
      /\ \A j \in 1 .. L - 1 : f[j] = s[j + 1] /\ f[j - 1] = s[(j + 1) - 1]
  <2>1. /\ 0 \in 0 .. L - 1 /\ 0 + 1 = 1
        /\ \A j \in 0 .. L - 1 : j + 1 \in 0 .. L
        /\ \A j \in 1 .. L - 1 : /\ j \in 0 .. L - 1 /\ j - 1 \in 0 .. L - 1
                                 /\ (j - 1) + 1 = (j + 1) - 1
    BY <1>1, <1>3
  <2>2. f \in [0 .. L - 1 -> Int]
    BY <2>1, <1>1
  <2> QED
    BY <2>1, <2>2, <1>6
<1> HIDE DEF f
<1>10. \A j \in 1 .. L - 1 : f[j] = f[j - 1] + d[q2[j]]
  <2> SUFFICES ASSUME NEW j \in 1 .. L - 1 PROVE f[j] = f[j - 1] + d[q2[j]]
    OBVIOUS
  <2>1. j + 1 \in 1 .. L
    BY <1>7
  <2>2. s[j + 1] = s[(j + 1) - 1] + d[q[j + 1]]
    BY <2>1, <1>1
  <2>3. f[j] = s[j + 1] /\ f[j - 1] = s[(j + 1) - 1] /\ q2[j] = q[j + 1]
    BY <1>5, <1>9
  <2> QED
    BY <2>2, <2>3
<1>11. Sums(q2, d) = f
  <2>1. AddsUp(q2, d, Len(q2), f)
    BY <1>5, <1>9, <1>10 DEF AddsUp
  <2> QED
    BY <2>1, <1>1, <1>5, SumsAre
<1>12. Shown(q2, d, l2)
  <2> SUFFICES ASSUME NEW j \in 1 .. L - 1 PROVE l2[q2[j]] = f[j]
    BY <1>5, <1>11 DEF Shown
  <2>1. j + 1 \in 1 .. L /\ q2[j] = q[j + 1] /\ f[j] = s[j + 1] /\ j + 1 # 1
    BY <1>5, <1>7, <1>9
  <2>2. q[j + 1] \in Timers /\ q[j + 1] # v /\ l[q[j + 1]] = s[j + 1]
    BY <2>1, <1>1, <1>2, <1>3
  <2> QED
    BY <2>1, <2>2, <1>2
<1>13. Says(q2, d, a2, l2)
  <2>1. -1 \in Ticks
    BY TimersAssumption DEF Ticks
  <2>2. l2 \in [Timers -> Ticks]
    BY <2>1, <1>2
  <2>3. \A u \in Timers : ~ a2[u] => l2[u] = -1
    BY <1>2
  <2> QED
    BY <2>2, <2>3, <1>2, <1>8, <1>12 DEF Says
<1>14. l[v] = 0
  BY <1>1, <1>3, <1>6
<1> QED
  BY <1>4, <1>13, <1>14 DEF q2, v

-----------------------------------------------------------------------------
(* Times that wrap around.                                                   *)

LEMMA Wrapped ==
    /\ \A a, b \in Times : Minus(a, b) = IF b <= a THEN a - b ELSE a - b + Range32
    /\ \A a, k \in Times :
         (a + k) % Range32 = IF a + k < Range32 THEN a + k ELSE a + k - Range32
<1>1. ASSUME NEW a \in Times, NEW b \in Times
      PROVE  Minus(a, b) = IF b <= a THEN a - b ELSE a - b + Range32
  <2>1. CASE b <= a
    <3>1. a - b \in Times
      BY <2>1, TimersAssumption DEF Times
    <3> QED
      BY <2>1, <3>1, InTimes DEF Minus
  <2>2. CASE ~ (b <= a)
    <3>1. a - b \in -Range32 .. -1
      BY <2>2, TimersAssumption DEF Times
    <3> QED
      BY <2>2, <3>1, InTimes DEF Minus
  <2> QED
    BY <2>1, <2>2
<1>2. ASSUME NEW a \in Times, NEW k \in Times
      PROVE  (a + k) % Range32 = IF a + k < Range32 THEN a + k ELSE a + k - Range32
  <2> DEFINE n == a + k
  <2>1. n \in 0 .. 2 * Range32 - 1
    BY TimersAssumption DEF Times
  <2> HIDE DEF n
  <2>2. CASE n < Range32
    <3>1. n \in Times
      BY <2>1, <2>2, TimersAssumption DEF Times
    <3> QED
      BY <2>2, <3>1, InTimes DEF n
  <2>3. CASE ~ (n < Range32)
    <3>1. n \in Range32 .. 2 * Range32 - 1
      BY <2>1, <2>3, TimersAssumption
    <3>2. n % Range32 = n - Range32
      BY <3>1, InTimes
    <3>3. n = a + k
      BY DEF n
    <3>a. a \in Int /\ k \in Int /\ n \in Int /\ Range32 \in Int
      BY <2>1, TimersAssumption DEF Times
    <3>4. n % Range32 = (a + k) % Range32
      BY <3>3, <3>a
    <3>b. n - Range32 = a + k - Range32
      BY <3>3, <3>a
    <3>5. ~ (a + k < Range32)
      BY <2>3, <3>3
    <3> QED
      BY <3>2, <3>4, <3>b, <3>5
  <2> QED
    BY <2>2, <2>3
<1> QED
  BY <1>1, <1>2

\* A difference of times is a time, and counts up or down with a tick.
LEMMA Differences ==
    ASSUME NEW a \in Times, NEW b \in Times
    PROVE  /\ Minus(a, b) \in Times
           /\ Minus(a, b) = 0 <=> a = b
           /\ (b + Minus(a, b)) % Range32 = a
<1> DEFINE m == Minus(a, b)
<1>1. m = IF b <= a THEN a - b ELSE a - b + Range32
  BY Wrapped
<1> HIDE DEF m
<1>2. m \in Times /\ (m = 0 <=> a = b)
  BY <1>1, TimersAssumption DEF Times
<1>3. (b + m) % Range32 = IF b + m < Range32 THEN b + m ELSE b + m - Range32
  BY <1>2, Wrapped
<1>4. (b + m) % Range32 = a
  BY <1>1, <1>3, TimersAssumption DEF Times
<1> QED
  BY <1>2, <1>4 DEF m

LEMMA Later ==
    ASSUME NEW a \in Times, NEW b \in Times, NEW k \in Times
    PROVE  /\ (a + k) % Range32 \in Times
           /\ Minus((a + k) % Range32, a) = k
           /\ Minus(a, b) + k < Range32 =>
                Minus((a + k) % Range32, b) = Minus(a, b) + k
           /\ k <= Minus(b, a) => Minus(b, (a + k) % Range32) = Minus(b, a) - k
           /\ Minus(b, a) <= k => Minus((a + k) % Range32, b) = k - Minus(b, a)
<1> DEFINE c == (a + k) % Range32
<1>1. c = IF a + k < Range32 THEN a + k ELSE a + k - Range32
  BY Wrapped
<1> HIDE DEF c
<1>2. c \in Times
  BY <1>1, TimersAssumption DEF Times
<1>3. /\ Minus(c, a) = IF a <= c THEN c - a ELSE c - a + Range32
      /\ Minus(c, b) = IF b <= c THEN c - b ELSE c - b + Range32
      /\ Minus(b, c) = IF c <= b THEN b - c ELSE b - c + Range32
      /\ Minus(a, b) = IF b <= a THEN a - b ELSE a - b + Range32
      /\ Minus(b, a) = IF a <= b THEN b - a ELSE b - a + Range32
  BY <1>2, Wrapped
<1>4. /\ Minus(c, a) = k
      /\ Minus(a, b) + k < Range32 => Minus(c, b) = Minus(a, b) + k
  BY <1>1, <1>2, <1>3, TimersAssumption DEF Times
<1>5. k <= Minus(b, a) => Minus(b, c) = Minus(b, a) - k
  BY <1>1, <1>2, <1>3, TimersAssumption DEF Times
<1>6. Minus(b, a) <= k => Minus(c, b) = k - Minus(b, a)
  BY <1>1, <1>2, <1>3, TimersAssumption DEF Times
<1> QED
  BY <1>2, <1>4, <1>5, <1>6 DEF c

\* chTimeIsWithin is exact at every time.
LEMMA Windows ==
    ASSUME vt_systime \in Times
    PROVE  WindowExact
<1> SUFFICES ASSUME NEW start \in Times, NEW n \in 1 .. Range32 - 1
             PROVE  chTimeIsWithin(start, (start + n) % Range32)
                      <=> \E i \in 0 .. n - 1 : vt_systime = (start + i) % Range32
  BY DEF WindowExact
<1> DEFINE m == Minus(vt_systime, start)
<1>1. n \in Times /\ \A i \in 0 .. n - 1 : i \in Times
  BY TimersAssumption DEF Times
<1>2. Minus((start + n) % Range32, start) = n
  BY <1>1, Later
<1>3. m \in Times /\ (start + m) % Range32 = vt_systime
  BY Differences
<1>4. \A i \in 0 .. n - 1 : Minus((start + i) % Range32, start) = i
  BY <1>1, Later
<1> HIDE DEF m
<1>5. m < n <=> m \in 0 .. n - 1
  BY <1>3, TimersAssumption DEF Times
<1>6. m < n <=> \E i \in 0 .. n - 1 : vt_systime = (start + i) % Range32
  BY <1>3, <1>4, <1>5 DEF m
<1> QED
  BY <1>2, <1>6 DEF chTimeIsWithin, m

-----------------------------------------------------------------------------
(* The invariant.  The list says when each timer expires, and never later    *)
(* than systime_t can count; between two ticks nothing is due; the periodic  *)
(* thread's timer is set exactly while it sleeps, for the ticks up to its    *)
(* deadline, and the thread is late by no more than its work takes.          *)

Lefts == [v \in Timers |-> Left(v)]

Clocks ==
    /\ vt_systime \in Times
    /\ phase \in {"thread", "tick", "callback"}
    /\ Says(vt_list, vt_time, armed, Lefts)
    /\ phase = "thread" => NothingDue(vt_list, vt_time)

Rhythm(l) ==
    /\ time \in Times /\ turn \in {"work", "sleep"}
    /\ turn = "sleep" <=> armed[Sleeper]
    /\ turn = "sleep" => l[Sleeper] = Minus(time, vt_systime) /\ l[Sleeper] <= Period
    /\ turn = "work" => Minus(vt_systime, time) <= Work

Inv == Clocks /\ Rhythm(Lefts)

LEMMA LeftsNow ==
    /\ \A l : Says(vt_list, vt_time, armed, l) => Lefts = l
    /\ \A l : Says(vt_list', vt_time', armed', l) => Lefts' = l
<1>1. Lefts = [v \in Timers |-> LeftIn(vt_list, vt_time, armed, v)]
  BY DEF Lefts, Left, ExpiryOf, LeftIn
<1>2. Lefts' = [v \in Timers |-> LeftIn(vt_list', vt_time', armed', v)]
  BY DEF Lefts, Left, ExpiryOf, LeftIn
<1> QED
  BY <1>1, <1>2, SaidOnce

\* Setting and resetting one timer, here and in TimerService.
LEMMA SetShown ==
    ASSUME Clocks, NEW v \in Timers, ~ armed[v], NEW n \in Times \ {0}, chVTSetI(v, n),
           UNCHANGED <<vt_systime, phase>>
    PROVE  /\ Clocks'
           /\ Lefts' = [Lefts EXCEPT ![v] = n]
           /\ Service!Next
<1> DEFINE l == [Lefts EXCEPT ![v] = n]
<1>1. /\ Says(vt_list', vt_time', armed', l)
      /\ NothingDue(vt_list, vt_time) => NothingDue(vt_list', vt_time')
  BY SetSays DEF Clocks
<1>2. Lefts' = l
  BY <1>1, LeftsNow
<1>3. Clocks'
  BY <1>1, <1>2 DEF Clocks
<1>4. n \in 1 .. Range32 - 1
  BY TimersAssumption DEF Times
<1>5. Lefts[v] = -1
  BY DEF Clocks, Says
<1>6. Service!Set(v, n)
  BY <1>2, <1>5 DEF Service!Set, Service!Off, Lefts
<1>7. Service!Next
  BY <1>4, <1>6 DEF Service!Next
<1> QED
  BY <1>2, <1>3, <1>7

LEMMA ResetShown ==
    ASSUME Clocks, NEW v \in Timers, chVTResetI(v), UNCHANGED <<vt_systime, phase>>
    PROVE  /\ Clocks'
           /\ Lefts' = [Lefts EXCEPT ![v] = -1]
           /\ Service!Next
<1> DEFINE l == [Lefts EXCEPT ![v] = -1]
<1>1. /\ Says(vt_list', vt_time', armed', l)
      /\ NothingDue(vt_list, vt_time) => NothingDue(vt_list', vt_time')
  BY ResetSays DEF Clocks
<1>2. Lefts' = l
  BY <1>1, LeftsNow
<1>3. Clocks'
  BY <1>1, <1>2 DEF Clocks
<1>4. Lefts[v] # -1
  <2> DEFINE s == Sums(vt_list, vt_time)
  <2>1. armed[v]
    BY DEF chVTResetI
  <2>2. PICK i \in 1 .. Len(vt_list) : vt_list[i] = v
    BY <2>1 DEF Clocks, Says, Listed
  <2>3. Lefts[vt_list[i]] = s[i] /\ s[i] \in Times
    BY SaysSums DEF Clocks
  <2> QED
    BY <2>2, <2>3, TimersAssumption DEF Times
<1>5. Service!Reset(v)
  BY <1>2, <1>4 DEF Service!Reset, Service!Off, Lefts
<1>6. Service!Next
  BY <1>5 DEF Service!Next
<1> QED
  BY <1>2, <1>3, <1>6

LEMMA InitClocks == Init => Inv /\ Service!Init
<1> SUFFICES ASSUME Init PROVE Inv /\ Service!Init
  OBVIOUS
<1> DEFINE l == [v \in Timers |-> -1]
<1>1. <<>> \in Seq(Timers) /\ Len(<<>>) = 0 /\ 1 .. 0 = {}
  BY EmptySeq
<1>2. 0 \in Times /\ -1 \in Ticks
  BY TimersAssumption DEF Times, Ticks
<1>3. Says(vt_list, vt_time, armed, l)
  BY <1>1, <1>2 DEF Init, Says, Listed, Shown
<1>4. Lefts = l
  BY <1>3, LeftsNow
<1>5. Clocks
  BY <1>1, <1>2, <1>3, <1>4 DEF Init, Clocks, NothingDue
<1>6. Minus(0, 0) = 0
  BY <1>2, Differences
<1>7. Rhythm(Lefts)
  BY <1>2, <1>6, TimersAssumption DEF Init, Rhythm
<1>8. Service!Init
  BY <1>4 DEF Service!Init, Service!Off, Lefts
<1> QED
  BY <1>5, <1>7, <1>8 DEF Inv

LEMMA UseShown ==
    ASSUME Inv, NEW v \in Timers, Use(v)
    PROVE  Inv' /\ Service!Next
<1>1. Clocks /\ v # Sleeper /\ UNCHANGED <<vt_systime, phase>> /\ UNCHANGED <<time, turn>>
  BY DEF Inv, Use, periodic
<1>2. /\ Clocks' /\ Service!Next
      /\ Lefts'[Sleeper] = Lefts[Sleeper]
      /\ armed'[Sleeper] = armed[Sleeper]
  <2>1. Lefts \in [Timers -> Ticks] /\ armed \in [Timers -> BOOLEAN] /\ Sleeper \in Timers
    BY <1>1, TimersAssumption DEF Clocks, Says, Listed
  <2>2. CASE chVTResetI(v)
    <3>1. Clocks' /\ Service!Next /\ Lefts' = [Lefts EXCEPT ![v] = -1]
      BY <1>1, <2>2, ResetShown
    <3>2. armed' = [armed EXCEPT ![v] = FALSE]
      BY <2>2 DEF chVTResetI
    <3> QED
      BY <3>1, <3>2, <1>1, <2>1
  <2>3. CASE ~ armed[v] /\ \E n \in Times \ {0} : chVTSetI(v, n)
    <3>1. PICK n \in Times \ {0} : chVTSetI(v, n)
      BY <2>3
    <3>2. Clocks' /\ Service!Next /\ Lefts' = [Lefts EXCEPT ![v] = n]
      BY <1>1, <2>3, <3>1, SetShown
    <3>3. armed' = [armed EXCEPT ![v] = TRUE]
      BY <3>1 DEF chVTSetI
    <3> QED
      BY <3>2, <3>3, <1>1, <2>1
  <2> QED
    BY <2>2, <2>3 DEF Use
<1>3. Rhythm(Lefts)'
  BY <1>1, <1>2 DEF Inv, Rhythm
<1> QED
  BY <1>2, <1>3 DEF Inv

LEMMA TickShown ==
    ASSUME Inv, Tick
    PROVE  Inv' /\ (Service!Next \/ UNCHANGED Lefts)
<1> DEFINE l == [v \in Timers |-> IF Lefts[v] = -1 THEN -1 ELSE Lefts[v] - 1]
<1>1. /\ Clocks /\ Rhythm(Lefts) /\ phase = "thread" /\ InTime
      /\ vt_systime' = (vt_systime + 1) % Range32
      /\ vt_time' = IF vt_list = <<>> THEN vt_time
                    ELSE [vt_time EXCEPT ![Head(vt_list)] = Minus(@, 1)]
      /\ phase' = IF vt_list = <<>> THEN "thread" ELSE "tick"
      /\ vt_list' = vt_list /\ armed' = armed /\ time' = time /\ turn' = turn
  BY DEF Inv, Tick, periodic
<1>2. /\ vt_systime \in Times /\ time \in Times /\ Sleeper \in Timers
      /\ Says(vt_list, vt_time, armed, Lefts) /\ NothingDue(vt_list, vt_time)
  BY <1>1, TimersAssumption DEF Clocks, Rhythm
<1>3. 1 \in Times
  BY TimersAssumption DEF Times
<1>4. vt_systime' \in Times
  BY <1>1, <1>2, <1>3, Later
<1>5. turn = "work" => Minus(vt_systime', time) <= Work
  <2> SUFFICES ASSUME turn = "work" PROVE Minus(vt_systime', time) <= Work
    OBVIOUS
  <2>1. Minus(vt_systime, time) < Work /\ Minus(vt_systime, time) \in Times
    BY <1>1, <1>2, Differences DEF InTime
  <2>2. Minus(vt_systime, time) + 1 < Range32
    BY <2>1, TimersAssumption DEF Times
  <2>3. Minus(vt_systime', time) = Minus(vt_systime, time) + 1
    BY <2>2, <1>1, <1>2, <1>3, Later
  <2> QED
    BY <2>1, <2>3, TimersAssumption DEF Times
<1>6. CASE vt_list = <<>>
  <2>1. Says(vt_list', vt_time', armed', Lefts)
    BY <1>1, <1>2, <1>6
  <2>2. Lefts' = Lefts
    BY <2>1, LeftsNow
  <2>3. turn = "work"
    <3>1. Len(vt_list) = 0 /\ 1 .. 0 = {}
      BY <1>6
    <3>2. ~ armed[Sleeper]
      BY <3>1, <1>2 DEF Says, Listed
    <3> QED
      BY <3>2, <1>1 DEF Rhythm
  <2>4. Clocks'
    BY <2>1, <2>2, <1>1, <1>2, <1>4, <1>6 DEF Clocks
  <2>5. Rhythm(Lefts)'
    BY <2>3, <1>1, <1>5 DEF Rhythm
  <2> QED
    BY <2>2, <2>4, <2>5 DEF Inv
<1>7. CASE vt_list # <<>>
  <2>1. Says(vt_list', vt_time', armed', l) /\ \A v \in Timers : Lefts[v] # 0
    BY <1>1, <1>2, <1>7, TickSays
  <2>2. Lefts' = l
    BY <2>1, LeftsNow
  <2>3. Clocks'
    BY <2>1, <2>2, <1>1, <1>4, <1>7 DEF Clocks
  <2>4. turn = "sleep" => l[Sleeper] = Minus(time, vt_systime') /\ l[Sleeper] <= Period
    <3> SUFFICES ASSUME turn = "sleep"
                 PROVE  l[Sleeper] = Minus(time, vt_systime') /\ l[Sleeper] <= Period
      OBVIOUS
    <3> DEFINE m == Minus(time, vt_systime)
    <3>1. Lefts[Sleeper] = m /\ m <= Period /\ m \in Times /\ m # 0
      BY <2>1, <1>1, <1>2, Differences DEF Rhythm
    <3>2. Minus(time, (vt_systime + 1) % Range32) = m - 1
      <4>1. 1 <= m
        BY <3>1 DEF Times
      <4> QED
        BY <4>1, <1>2, <1>3, Later
    <3> HIDE DEF m
    <3>3. l[Sleeper] = m - 1
      BY <3>1, <1>2, TimersAssumption DEF Times
    <3>4. m - 1 <= Period
      BY <3>1, TimersAssumption DEF Times
    <3> QED
      BY <3>2, <3>3, <3>4, <1>1
  <2>5. Rhythm(Lefts)'
    BY <2>2, <2>4, <1>1, <1>5 DEF Rhythm
  <2>6. Service!Tick
    BY <2>1, <2>2 DEF Service!Tick, Service!Off, Lefts
  <2>7. Service!Next
    BY <2>6 DEF Service!Next
  <2> QED
    BY <2>3, <2>5, <2>7 DEF Inv
<1> QED
  BY <1>6, <1>7

LEMMA ExpireShown ==
    ASSUME Inv, Expire
    PROVE  Inv' /\ Service!Next
<1> DEFINE v == Head(vt_list)
           l == [Lefts EXCEPT ![v] = -1]
<1>1. /\ Clocks /\ Rhythm(Lefts) /\ vt_list # <<>> /\ vt_time[v] = 0
      /\ vt_list' = Tail(vt_list)
      /\ armed' = [armed EXCEPT ![v] = FALSE]
      /\ phase' = "callback"
      /\ turn' = IF v = Sleeper THEN "work" ELSE turn
      /\ vt_time' = vt_time /\ vt_systime' = vt_systime /\ time' = time
  BY DEF Inv, Expire
<1>2. /\ v \in Timers /\ Lefts[v] = 0
      /\ Says(vt_list', vt_time', armed', l)
  BY <1>1, ExpireSays DEF Clocks
<1> HIDE DEF v
<1>3. Lefts' = l
  BY <1>2, LeftsNow
<1>4. Clocks'
  BY <1>1, <1>2, <1>3 DEF Clocks
<1>5. /\ vt_systime \in Times /\ time \in Times /\ Sleeper \in Timers
      /\ Lefts \in [Timers -> Ticks] /\ armed \in [Timers -> BOOLEAN]
  BY <1>1, TimersAssumption DEF Clocks, Rhythm, Says, Listed
<1>6. Rhythm(Lefts)'
  <2>1. CASE v = Sleeper
    <3>1. armed[Sleeper]
      <4>1. ~ armed[Sleeper] => Lefts[Sleeper] = -1
        BY <1>1, <1>5 DEF Clocks, Says
      <4> QED
        BY <4>1, <2>1, <1>2
    <3>2. Minus(time, vt_systime) = 0
      BY <3>1, <2>1, <1>1, <1>2 DEF Rhythm
    <3>3. Minus(vt_systime, time) = 0
      BY <3>2, <1>5, Differences
    <3>4. turn' = "work" /\ ~ armed'[Sleeper] /\ Minus(vt_systime', time') <= Work
      BY <3>3, <2>1, <1>1, <1>5, TimersAssumption
    <3> QED
      BY <3>4, <1>1, <1>5 DEF Rhythm
  <2>2. CASE v # Sleeper
    <3>1. armed'[Sleeper] = armed[Sleeper] /\ Lefts'[Sleeper] = Lefts[Sleeper] /\ turn' = turn
      BY <2>2, <1>1, <1>3, <1>5
    <3> QED
      BY <3>1, <1>1 DEF Rhythm
  <2> QED
    BY <2>1, <2>2
<1>7. Service!Expire(v)
  BY <1>2, <1>3 DEF Service!Expire, Service!Off, Lefts
<1>8. Service!Next
  BY <1>2, <1>7 DEF Service!Next
<1> QED
  BY <1>4, <1>6, <1>8 DEF Inv

LEMMA SleepShown ==
    ASSUME Inv, chThdSleepUntil
    PROVE  Inv' /\ (Service!Next \/ UNCHANGED Lefts)
<1> DEFINE next == (time + Period) % Range32
           n == Minus(next, vt_systime)
<1>1. /\ Clocks /\ Rhythm(Lefts) /\ turn = "work" /\ time' = next
      /\ \/ n > 0 /\ chVTSetI(Sleeper, n) /\ turn' = "sleep"
         \/ n = 0 /\ UNCHANGED <<vt_list, vt_time, armed, turn>>
      /\ UNCHANGED <<vt_systime, phase>>
  BY DEF Inv, chThdSleepUntil
<1>2. /\ vt_systime \in Times /\ time \in Times /\ Sleeper \in Timers /\ Period \in Times
      /\ Lefts \in [Timers -> Ticks] /\ armed \in [Timers -> BOOLEAN]
      /\ Minus(vt_systime, time) <= Work /\ ~ armed[Sleeper]
  BY <1>1, TimersAssumption DEF Clocks, Rhythm, Says, Listed, Times
<1>3. Minus(vt_systime, time) \in Times /\ Minus(vt_systime, time) <= Period
  BY <1>2, Differences, TimersAssumption DEF Times
<1>4. next \in Times /\ n = Period - Minus(vt_systime, time)
  BY <1>2, <1>3, Later
<1>5. n \in Times /\ n <= Period
  BY <1>2, <1>3, <1>4, TimersAssumption DEF Times
<1> HIDE DEF n, next
<1>6. CASE n > 0 /\ chVTSetI(Sleeper, n) /\ turn' = "sleep"
  <2>1. n \in Times \ {0}
    BY <1>5, <1>6 DEF Times
  <2>2. Clocks' /\ Service!Next /\ Lefts' = [Lefts EXCEPT ![Sleeper] = n]
    BY <2>1, <1>1, <1>2, <1>6, SetShown
  <2>3. armed' = [armed EXCEPT ![Sleeper] = TRUE]
    BY <1>6 DEF chVTSetI
  <2>4. armed'[Sleeper] /\ Lefts'[Sleeper] = n /\ n = Minus(time', vt_systime')
    BY <2>2, <2>3, <1>1, <1>2 DEF n
  <2>5. Rhythm(Lefts)'
    BY <2>4, <1>1, <1>4, <1>5, <1>6 DEF Rhythm
  <2> QED
    BY <2>2, <2>5 DEF Inv
<1>7. CASE n = 0 /\ UNCHANGED <<vt_list, vt_time, armed, turn>>
  <2>1. Says(vt_list', vt_time', armed', Lefts)
    BY <1>1, <1>7 DEF Clocks
  <2>2. Lefts' = Lefts
    BY <2>1, LeftsNow
  <2>3. Clocks'
    BY <2>1, <2>2, <1>1, <1>7 DEF Clocks
  <2>4. Minus(vt_systime, next) = 0
    BY <1>2, <1>4, <1>7, Differences DEF n
  <2>5. Rhythm(Lefts)'
    BY <2>4, <1>1, <1>2, <1>4, <1>7, TimersAssumption DEF Rhythm
  <2> QED
    BY <2>2, <2>3, <2>5 DEF Inv
<1> QED
  BY <1>1, <1>6, <1>7

LEMMA HandlerShown ==
    ASSUME Inv, CallbackReturn \/ TickEnd \/ UNCHANGED vars
    PROVE  Inv' /\ UNCHANGED Lefts
<1>1. /\ Clocks /\ Rhythm(Lefts)
      /\ UNCHANGED <<vt_list, vt_time, armed, vt_systime, time, turn>>
  BY DEF Inv, CallbackReturn, TickEnd, vars, periodic
<1>2. Says(vt_list', vt_time', armed', Lefts)
  BY <1>1 DEF Clocks
<1>3. Lefts' = Lefts
  BY <1>2, LeftsNow
<1>4. phase' \in {"thread", "tick", "callback"}
  BY <1>1 DEF Clocks, CallbackReturn, TickEnd, vars
<1>5. phase' = "thread" => NothingDue(vt_list', vt_time')
  <2>1. CASE CallbackReturn
    BY <2>1 DEF CallbackReturn
  <2>2. CASE TickEnd
    <3>1. vt_list # <<>> => vt_time[Head(vt_list)] # 0
      BY <2>2 DEF TickEnd
    <3>2. vt_list \in Seq(Timers)
      BY <1>1 DEF Clocks, Says, Listed
    <3>3. Len(vt_list) # 0 => vt_list # <<>> /\ Head(vt_list) = vt_list[1]
      BY <3>2, EmptySeq
    <3> QED
      BY <3>1, <3>3, <1>1 DEF NothingDue
  <2>3. CASE UNCHANGED vars
    BY <2>3, <1>1 DEF vars, Clocks
  <2> QED
    BY <2>1, <2>2, <2>3
<1>6. Clocks'
  BY <1>1, <1>2, <1>3, <1>4, <1>5 DEF Clocks
<1>7. Rhythm(Lefts)'
  BY <1>1, <1>3 DEF Rhythm
<1> QED
  BY <1>3, <1>6, <1>7 DEF Inv

LEMMA StepShown ==
    ASSUME Inv, [Next]_vars
    PROVE  Inv' /\ (Service!Next \/ UNCHANGED Lefts)
<1>1. CASE \E v \in Timers : Use(v)
  BY <1>1, UseShown
<1>2. CASE Tick
  BY <1>2, TickShown
<1>3. CASE Expire
  BY <1>3, ExpireShown
<1>4. CASE chThdSleepUntil
  BY <1>4, SleepShown
<1>5. CASE CallbackReturn \/ TickEnd \/ UNCHANGED vars
  BY <1>5, HandlerShown
<1> QED
  BY <1>1, <1>2, <1>3, <1>4, <1>5 DEF Next

LEMMA InvCorrect == Spec => []Inv
<1>1. Init => Inv
  BY InitClocks
<1>2. Inv /\ [Next]_vars => Inv'
  BY StepShown
<1> QED
  BY <1>1, <1>2, PTL DEF Spec

-----------------------------------------------------------------------------
(* A timer is in the list, once, exactly while it is set, however timers are *)
(* set and reset in threads and callbacks, and the ticks between them stay   *)
(* within systime_t.                                                         *)
THEOREM ListCorrect == Spec => []Consistent
<1>1. Inv => Consistent
  <2> SUFFICES ASSUME Inv PROVE Consistent
    OBVIOUS
  <2>1. Clocks /\ Rhythm(Lefts) /\ Listed(vt_list, armed) /\ vt_time \in [Timers -> Times]
    BY DEF Inv, Clocks, Says
  <2>2. DOMAIN vt_list = 1 .. Len(vt_list)
    BY <2>1, LenProperties DEF Listed
  <2>3. IsInjective(vt_list) /\ \A v \in Timers : armed[v] <=> v \in Range(vt_list)
    BY <2>1, <2>2 DEF Listed, IsInjective, Range
  <2> QED
    BY <2>1, <2>3 DEF Listed, Clocks, Rhythm, Consistent
<1> QED
  BY <1>1, InvCorrect, PTL

(* The wrap-around of systime_t is harmless, at any width: the periodic      *)
(* thread's timer has exactly the ticks to its deadline to go, no more than  *)
(* a period, and chTimeIsWithin answers exactly.                             *)
THEOREM WrapAround == Spec => []WrapIsHarmless
<1>1. Inv => WrapIsHarmless
  <2> SUFFICES ASSUME Inv PROVE WrapIsHarmless
    OBVIOUS
  <2>1. Clocks /\ Rhythm(Lefts) /\ Lefts[Sleeper] = Left(Sleeper)
    BY TimersAssumption DEF Inv, Lefts
  <2>2. DeadlineKept
    BY <2>1 DEF Rhythm, DeadlineKept
  <2>3. WindowExact
    BY <2>1, Windows DEF Clocks
  <2> QED
    BY <2>2, <2>3 DEF WrapIsHarmless
<1> QED
  BY <1>1, InvCorrect, PTL

(* The list of differences does what TimerService promises: a timer that is  *)
(* set for n ticks expires at the n-th tick from then, whatever is set and   *)
(* reset in the meantime, for lists of any length.                           *)
THEOREM TimersImplemented == Spec => ImplementsTimers
<1>1. Init => Service!Init
  BY InitClocks
<1>2. Inv /\ [Next]_vars => [Service!Next]_(Lefts)
  BY StepShown
<1> QED
  BY <1>1, <1>2, InvCorrect, PTL DEF Spec, ImplementsTimers, Service!Spec, Lefts

=============================================================================
