------------------------- MODULE KernelMutexProofs -------------------------
(***************************************************************************)
(* What holds of the scheduler, the mutexes and the condition variables    *)
(* for any number of threads and mutexes and any priorities.               *)
(***************************************************************************)
EXTENDS KernelMutex, FiniteSetTheorems, WellFoundedInduction, TLAPS

-----------------------------------------------------------------------------
(* The lists.  Priorities are natural numbers, so that the scan of           *)
(* prio_insert and chSchReadyI always finds its place; a list keeps its      *)
(* threads distinct if none is put into it twice.                            *)

Lists == {q \in Seq(Threads) : Distinct(q)}

\* A set of natural numbers that is not empty has a least element.
LEMMA LeastNatural ==
    ASSUME NEW S \in SUBSET Nat, S # {}
    PROVE  \E n \in S : \A k \in S : n <= k
<1>1. PICK n \in S : \A k \in S : ~ (<<k, n>> \in OpToRel(<, Nat))
    BY WFMin, NatLessThanWellFounded
<1>2. \A k \in S : ~ (k < n)
    BY <1>1 DEF OpToRel
<1> QED
    BY <1>2

\* The scan stops at a place in the list or just behind it.
LEMMA ScanStops ==
    ASSUME NEW q \in Seq(Threads), NEW pr \in [Threads -> Nat], NEW p \in Nat
    PROVE  /\ FirstBelow(q, pr, p) \in 1 .. Len(q) + 1
           /\ FirstBelow(q, pr, p) <= Len(q) => pr[q[FirstBelow(q, pr, p)]] < p
           /\ \A i \in 1 .. FirstBelow(q, pr, p) - 1 : pr[q[i]] >= p
<1> DEFINE Stops == {k \in 1 .. Len(q) + 1 : k <= Len(q) => pr[q[k]] < p}
<1>1. Len(q) \in Nat /\ \A i \in 1 .. Len(q) : q[i] \in Threads
    OBVIOUS
<1>2. Stops \in SUBSET Nat /\ Stops # {}
  <2>1. Len(q) + 1 \in Stops
      BY <1>1
  <2> QED
      BY <1>1, <2>1
<1>3. PICK k \in Stops : \A j \in Stops : k <= j
  <2> HIDE DEF Stops
  <2> QED
      BY <1>2, LeastNatural
<1>4. \A i \in 1 .. k - 1 : pr[q[i]] >= p
  <2> SUFFICES ASSUME NEW i \in 1 .. k - 1, ~ (pr[q[i]] >= p) PROVE FALSE
      OBVIOUS
  <2>1. i \in 1 .. Len(q) /\ q[i] \in Threads /\ i < k
      BY <1>1, <1>3
  <2>2. i \in Stops
      BY <2>1
  <2> QED
      BY <2>1, <2>2, <1>1, <1>3
<1> QED
    BY <1>3, <1>4 DEF FirstBelow

\* Putting a thread at a place adds this thread and no other.
LEMMA PutAtMembers ==
    ASSUME NEW q \in Seq(Threads), NEW k \in 1 .. Len(q) + 1, NEW t \in Threads
    PROVE  /\ PutAt(q, k, t) \in Seq(Threads)
           /\ Len(PutAt(q, k, t)) = Len(q) + 1
           /\ Members(PutAt(q, k, t)) = Members(q) \cup {t}
<1> DEFINE r == PutAt(q, k, t)
<1>1. Len(q) \in Nat /\ \A i \in 1 .. Len(q) : q[i] \in Threads
    OBVIOUS
<1>2. \A i \in 1 .. Len(q) + 1 :
        r[i] = IF i < k THEN q[i] ELSE IF i = k THEN t ELSE q[i - 1]
    BY DEF PutAt
<1>3. r \in [1 .. Len(q) + 1 -> Threads]
    BY <1>1 DEF PutAt
<1>4. r \in Seq(Threads) /\ Len(r) = Len(q) + 1
    BY <1>1, <1>3
<1>5. ASSUME NEW i \in 1 .. Len(q) + 1 PROVE r[i] \in Members(q) \cup {t}
  <2>1. CASE i < k
    <3>1. i \in 1 .. Len(q) /\ r[i] = q[i]
        BY <2>1, <1>1, <1>2
    <3> QED
        BY <3>1 DEF Members
  <2>2. CASE i > k
    <3>1. i - 1 \in 1 .. Len(q) /\ r[i] = q[i - 1]
        BY <2>2, <1>1, <1>2
    <3> QED
        BY <3>1 DEF Members
  <2>3. CASE i = k
      BY <2>3, <1>2
  <2> QED
      BY <2>1, <2>2, <2>3, <1>1
<1>6. t \in Members(r)
    BY <1>1, <1>2, <1>4 DEF Members
<1>7. ASSUME NEW i \in 1 .. Len(q) PROVE q[i] \in Members(r)
  <2>1. CASE i < k
      BY <2>1, <1>1, <1>2, <1>4 DEF Members
  <2>2. CASE i >= k
    <3>1. i + 1 \in 1 .. Len(q) + 1 /\ r[i + 1] = q[i]
        BY <2>2, <1>1, <1>2
    <3> QED
        BY <3>1, <1>4 DEF Members
  <2> QED
      BY <2>1, <2>2, <1>1
<1> QED
    BY <1>4, <1>5, <1>6, <1>7 DEF Members

\* A thread that is not in the list yet leaves it without duplicates.
LEMMA PutAtDistinct ==
    ASSUME NEW q \in Lists, NEW k \in 1 .. Len(q) + 1,
           NEW t \in Threads \ Members(q)
    PROVE  PutAt(q, k, t) \in Lists
<1> DEFINE r == PutAt(q, k, t)
<1>1. Len(q) \in Nat /\ Distinct(q) /\ \A i \in 1 .. Len(q) : q[i] # t
    BY DEF Lists, Members
<1>2. \A i \in 1 .. Len(q) + 1 :
        r[i] = IF i < k THEN q[i] ELSE IF i = k THEN t ELSE q[i - 1]
    BY DEF PutAt
<1>3. r \in Seq(Threads) /\ Len(r) = Len(q) + 1
    BY PutAtMembers DEF Lists
<1>4. ASSUME NEW i \in 1 .. Len(q) + 1, NEW j \in 1 .. Len(q) + 1, r[i] = r[j]
      PROVE  i = j
  <2>1. CASE i < k /\ j < k
      BY <2>1, <1>1, <1>2, <1>4 DEF Distinct
  <2>2. CASE i > k /\ j > k
    <3>1. i - 1 \in 1 .. Len(q) /\ j - 1 \in 1 .. Len(q) /\ q[i - 1] = q[j - 1]
        BY <2>2, <1>1, <1>2, <1>4
    <3>2. i - 1 = j - 1
        BY <3>1, <1>1 DEF Distinct
    <3> QED
        BY <3>2
  <2>3. CASE i < k /\ j > k
    <3>1. i \in 1 .. Len(q) /\ j - 1 \in 1 .. Len(q) /\ q[i] = q[j - 1]
        BY <2>3, <1>1, <1>2, <1>4
    <3>2. i = j - 1
        BY <3>1, <1>1 DEF Distinct
    <3> QED
        BY <3>2, <2>3
  <2>4. CASE i > k /\ j < k
    <3>1. i - 1 \in 1 .. Len(q) /\ j \in 1 .. Len(q) /\ q[i - 1] = q[j]
        BY <2>4, <1>1, <1>2, <1>4
    <3>2. i - 1 = j
        BY <3>1, <1>1 DEF Distinct
    <3> QED
        BY <3>2, <2>4
  <2>5. CASE i = k /\ j # k
    <3>1. r[i] = t
        BY <2>5, <1>2
    <3>2. \E n \in 1 .. Len(q) : r[j] = q[n]
      <4>1. j < k => j \in 1 .. Len(q) /\ r[j] = q[j]
          BY <1>1, <1>2
      <4>2. j > k => j - 1 \in 1 .. Len(q) /\ r[j] = q[j - 1]
          BY <1>1, <1>2
      <4> QED
          BY <4>1, <4>2, <2>5
    <3> QED
        BY <3>1, <3>2, <1>1, <1>4
  <2>6. CASE i # k /\ j = k
    <3>1. r[j] = t
        BY <2>6, <1>2
    <3>2. \E n \in 1 .. Len(q) : r[i] = q[n]
      <4>1. i < k => i \in 1 .. Len(q) /\ r[i] = q[i]
          BY <1>1, <1>2
      <4>2. i > k => i - 1 \in 1 .. Len(q) /\ r[i] = q[i - 1]
          BY <1>1, <1>2
      <4> QED
          BY <4>1, <4>2, <2>6
    <3> QED
        BY <3>1, <3>2, <1>1, <1>4
  <2> QED
      BY <2>1, <2>2, <2>3, <2>4, <2>5, <2>6
<1> QED
    BY <1>3, <1>4 DEF Lists, Distinct

\* prio_insert, chSchReadyI and the insertion of chSchDoRescheduleAhead.
LEMMA InsertList ==
    ASSUME NEW q \in Lists, NEW pr \in [Threads -> Nat],
           NEW t \in Threads \ Members(q)
    PROVE  /\ Insert(q, pr, t) \in Lists
           /\ Members(Insert(q, pr, t)) = Members(q) \cup {t}
           /\ InsertAhead(q, pr, t) \in Lists
           /\ Members(InsertAhead(q, pr, t)) = Members(q) \cup {t}
<1>1. pr[t] \in Nat /\ pr[t] + 1 \in Nat /\ q \in Seq(Threads)
    BY DEF Lists
<1>2. FirstBelow(q, pr, pr[t]) \in 1 .. Len(q) + 1
    BY <1>1, ScanStops
<1>3. FirstBelow(q, pr, pr[t] + 1) \in 1 .. Len(q) + 1
    BY <1>1, ScanStops
<1> QED
    BY <1>1, <1>2, <1>3, PutAtMembers, PutAtDistinct DEF Insert, InsertAhead

\* dequeue takes out the thread, and no other.
LEMMA DequeueList ==
    ASSUME NEW q \in Lists, NEW t \in Members(q)
    PROVE  /\ Dequeue(q, t) \in Lists
           /\ Members(Dequeue(q, t)) = Members(q) \ {t}
<1> DEFINE r == Dequeue(q, t)
           p == Position(q, t)
<1>1. Len(q) \in Nat /\ Distinct(q) /\ \A i \in 1 .. Len(q) : q[i] \in Threads
    BY DEF Lists
<1>2. p \in 1 .. Len(q) /\ q[p] = t
    BY DEF Position, Members
<1>3. \A i \in 1 .. Len(q) - 1 : r[i] = IF i < p THEN q[i] ELSE q[i + 1]
    BY DEF Dequeue
<1>4. Len(q) - 1 \in Nat /\ r \in [1 .. Len(q) - 1 -> Threads]
    BY <1>1, <1>2 DEF Dequeue
<1>5. r \in Seq(Threads) /\ Len(r) = Len(q) - 1
    BY <1>4
<1> HIDE DEF r, p
<1>6. ASSUME NEW i \in 1 .. Len(q) - 1 PROVE r[i] \in Members(q) \ {t}
  <2>1. CASE i < p
    <3>1. i \in 1 .. Len(q) /\ r[i] = q[i] /\ i # p
        BY <2>1, <1>1, <1>2, <1>3
    <3> QED
        BY <3>1, <1>1, <1>2 DEF Distinct, Members
  <2>2. CASE i >= p
    <3>1. i + 1 \in 1 .. Len(q) /\ r[i] = q[i + 1] /\ i + 1 # p
        BY <2>2, <1>1, <1>2, <1>3
    <3> QED
        BY <3>1, <1>1, <1>2 DEF Distinct, Members
  <2> QED
      BY <2>1, <2>2, <1>1, <1>2
<1>7. ASSUME NEW i \in 1 .. Len(q), i # p PROVE q[i] \in Members(r)
  <2>1. CASE i < p
    <3>1. i \in 1 .. Len(q) - 1 /\ r[i] = q[i]
        BY <2>1, <1>1, <1>2, <1>3
    <3> QED
        BY <3>1, <1>5 DEF Members
  <2>2. CASE i > p
    <3>1. i - 1 \in 1 .. Len(q) - 1 /\ r[i - 1] = q[(i - 1) + 1]
        BY <2>2, <1>1, <1>2, <1>3
    <3> QED
        BY <3>1, <1>5 DEF Members
  <2> QED
      BY <2>1, <2>2, <1>1, <1>2, <1>7
<1>8. ASSUME NEW i \in 1 .. Len(q) - 1, NEW j \in 1 .. Len(q) - 1, r[i] = r[j]
      PROVE  i = j
  <2>1. PICK a \in 1 .. Len(q) : r[i] = q[a] /\ a = IF i < p THEN i ELSE i + 1
      BY <1>1, <1>2, <1>3
  <2>2. PICK b \in 1 .. Len(q) : r[j] = q[b] /\ b = IF j < p THEN j ELSE j + 1
      BY <1>1, <1>2, <1>3
  <2>3. a = b
      BY <2>1, <2>2, <1>1, <1>8 DEF Distinct
  <2> QED
      BY <2>1, <2>2, <2>3, <1>2
<1>9. Members(r) = Members(q) \ {t}
  <2>1. Members(r) \subseteq Members(q) \ {t}
      BY <1>5, <1>6 DEF Members
  <2>2. Members(q) \ {t} \subseteq Members(r)
      BY <1>2, <1>7 DEF Members
  <2> QED
      BY <2>1, <2>2
<1>10. r \in Lists
    BY <1>5, <1>8 DEF Lists, Distinct
<1> QED
    BY <1>9, <1>10 DEF r

\* fifo_remove on a list, and the top of a stack of mutexes.
LEMMA TailMembers ==
    ASSUME NEW S, NEW q \in Seq(S), q # <<>>, Distinct(q)
    PROVE  /\ Head(q) \in S
           /\ Head(q) \in Members(q)
           /\ Tail(q) \in Seq(S)
           /\ Distinct(Tail(q))
           /\ Members(Tail(q)) = Members(q) \ {Head(q)}
<1>1. Len(q) \in Nat \ {0} /\ Head(q) = q[1] /\ \A i \in 1 .. Len(q) : q[i] \in S
    OBVIOUS
<1>2. Tail(q) \in Seq(S) /\ Len(Tail(q)) = Len(q) - 1
    OBVIOUS
<1>3. \A i \in 1 .. Len(q) - 1 : Tail(q)[i] = q[i + 1]
    OBVIOUS
<1>4. ASSUME NEW i \in 1 .. Len(q) - 1 PROVE Tail(q)[i] \in Members(q) \ {Head(q)}
  <2>1. 1 \in 1 .. Len(q) /\ i + 1 \in 1 .. Len(q) /\ i + 1 # 1
      BY <1>1
  <2>2. q[i + 1] # q[1]
      BY <2>1 DEF Distinct
  <2> QED
      BY <2>1, <2>2, <1>1, <1>3 DEF Members
<1>5. ASSUME NEW i \in 1 .. Len(q), i # 1 PROVE q[i] \in Members(Tail(q))
  <2>1. i - 1 \in 1 .. Len(q) - 1 /\ Tail(q)[i - 1] = q[(i - 1) + 1]
      BY <1>1, <1>3, <1>5
  <2> QED
      BY <2>1, <1>2 DEF Members
<1>6. q[1] \in Members(q)
    BY <1>1 DEF Members
<1>7. Members(Tail(q)) = Members(q) \ {Head(q)}
  <2>1. Members(Tail(q)) \subseteq Members(q) \ {Head(q)}
      BY <1>2, <1>4 DEF Members
  <2>2. Members(q) \ {Head(q)} \subseteq Members(Tail(q))
      BY <1>1, <1>5 DEF Members
  <2> QED
      BY <2>1, <2>2
<1>8. ASSUME NEW i \in 1 .. Len(q) - 1, NEW j \in 1 .. Len(q) - 1,
             Tail(q)[i] = Tail(q)[j]
      PROVE  i = j
  <2>1. i + 1 \in 1 .. Len(q) /\ j + 1 \in 1 .. Len(q) /\ q[i + 1] = q[j + 1]
      BY <1>1, <1>3, <1>8
  <2>2. i + 1 = j + 1
      BY <2>1 DEF Distinct
  <2> QED
      BY <2>2
<1> QED
    BY <1>1, <1>2, <1>6, <1>7, <1>8 DEF Distinct

LEMMA TailList ==
    ASSUME NEW q \in Lists, q # <<>>
    PROVE  /\ Head(q) \in Threads
           /\ Head(q) \in Members(q)
           /\ Tail(q) \in Lists
           /\ Members(Tail(q)) = Members(q) \ {Head(q)}
BY TailMembers DEF Lists

LEMMA EmptyMembers ==
    /\ Members(<<>>) = {} /\ Distinct(<<>>) /\ <<>> \in Lists
    /\ \A S : \A q \in Seq(S) : Members(q) \subseteq S
    /\ \A q \in Lists : Members(q) # {} => q # <<>>
<1>1. Len(<<>>) = 0
    OBVIOUS
<1>2. Members(<<>>) = {} /\ Distinct(<<>>)
    BY <1>1 DEF Members, Distinct
<1>3. ASSUME NEW S, NEW q \in Seq(S) PROVE Members(q) \subseteq S
    BY DEF Members
<1> QED
    BY <1>2, <1>3 DEF Lists

\* Pushing a mutex on the stack of its new owner.
LEMMA PushMembers ==
    ASSUME NEW S, NEW q \in Seq(S), NEW x \in S
    PROVE  /\ <<x>> \o q \in Seq(S)
           /\ Distinct(q) /\ x \notin Members(q) => Distinct(<<x>> \o q)
           /\ Members(<<x>> \o q) = Members(q) \cup {x}
           /\ Head(<<x>> \o q) = x
<1>1. Len(q) \in Nat /\ \A i \in 1 .. Len(q) : q[i] \in S
    OBVIOUS
<1>2. <<x>> \o q \in Seq(S) /\ Len(<<x>> \o q) = Len(q) + 1
    OBVIOUS
<1>3. (<<x>> \o q)[1] = x /\ \A i \in 1 .. Len(q) : (<<x>> \o q)[i + 1] = q[i]
    BY <1>1
<1>4. x \in Members(<<x>> \o q)
  <2>1. 1 \in 1 .. Len(q) + 1
      BY <1>1
  <2> QED
      BY <2>1, <1>2, <1>3 DEF Members
<1>5. ASSUME NEW i \in 1 .. Len(q) PROVE q[i] \in Members(<<x>> \o q)
  <2>1. i + 1 \in 1 .. Len(q) + 1
      BY <1>1
  <2> QED
      BY <2>1, <1>2, <1>3 DEF Members
<1>6. ASSUME NEW i \in 1 .. Len(q) + 1 PROVE (<<x>> \o q)[i] \in Members(q) \cup {x}
  <2>1. CASE i = 1
      BY <2>1, <1>3
  <2>2. CASE i # 1
    <3>1. i - 1 \in 1 .. Len(q) /\ (i - 1) + 1 = i
        BY <2>2, <1>1
    <3>2. (<<x>> \o q)[i] = q[i - 1]
        BY <3>1, <1>3
    <3> QED
        BY <3>1, <3>2 DEF Members
  <2> QED
      BY <2>1, <2>2
<1>7. Members(<<x>> \o q) \subseteq Members(q) \cup {x}
    BY <1>2, <1>6 DEF Members
<1>8. Members(q) \subseteq Members(<<x>> \o q)
    BY <1>5 DEF Members
<1>9. ASSUME Distinct(q), x \notin Members(q),
             NEW i \in 1 .. Len(q) + 1, NEW j \in 1 .. Len(q) + 1,
             (<<x>> \o q)[i] = (<<x>> \o q)[j]
      PROVE  i = j
  <2>1. \A n \in 1 .. Len(q) + 1 :
          n = 1 \/ (n - 1 \in 1 .. Len(q) /\ (<<x>> \o q)[n] = q[n - 1])
    <3> TAKE n \in 1 .. Len(q) + 1
    <3>1. n # 1 => n - 1 \in 1 .. Len(q) /\ (n - 1) + 1 = n
        BY <1>1
    <3> QED
        BY <3>1, <1>3
  <2>2. \A n \in 1 .. Len(q) : q[n] # x
      BY <1>9 DEF Members
  <2>3. CASE i = 1 \/ j = 1
      BY <2>1, <2>2, <2>3, <1>3, <1>9
  <2>4. CASE i # 1 /\ j # 1
    <3>1. i - 1 = j - 1
        BY <2>1, <2>4, <1>9 DEF Distinct
    <3> QED
        BY <3>1, <1>1
  <2> QED
      BY <2>3, <2>4
<1>10. Distinct(q) /\ x \notin Members(q) => Distinct(<<x>> \o q)
    BY <1>2, <1>9 DEF Distinct
<1> QED
    BY <1>2, <1>3, <1>4, <1>7, <1>8, <1>10

-----------------------------------------------------------------------------
(* The priority a thread falls back to exists.                               *)

\* A finite set of natural numbers that is not empty has a greatest element: a
\* smallest set without one would have one when any element is taken away.
LEMMA GreatestNatural ==
    ASSUME NEW S \in SUBSET Nat, S # {}, IsFiniteSet(S)
    PROVE  \E n \in S : \A k \in S : k <= n
<1> DEFINE Greatest(T) == \E n \in T : \A k \in T : k <= n
           Bad == {T \in SUBSET Nat : IsFiniteSet(T) /\ T # {} /\ ~ Greatest(T)}
<1> SUFFICES ASSUME Bad # {} PROVE FALSE
    OBVIOUS
<1>1. Bad \subseteq FiniteSubsetsOf(Nat)
    BY DEF FiniteSubsetsOf
<1>2. PICK T \in Bad : \A U \in Bad : ~ (<<U, T>> \in StrictSubsetOrdering(Nat))
  <2> HIDE DEF Bad
  <2> QED
      BY <1>1, WFMin, FS_StrictSubsetOrderingWellFounded
<1>3. PICK x \in T : TRUE
    OBVIOUS
<1>4. T \ {x} \in SUBSET Nat /\ IsFiniteSet(T \ {x})
    BY FS_RemoveElement
<1>5. T \ {x} # {}
    BY <1>3
<1>6. T \ {x} \notin Bad
    BY <1>2, <1>3 DEF StrictSubsetOrdering
<1>7. PICK y \in T \ {x} : \A k \in T \ {x} : k <= y
    BY <1>4, <1>5, <1>6
<1>8. CASE x <= y
    BY <1>3, <1>7, <1>8
<1>9. CASE ~ (x <= y)
    BY <1>3, <1>7, <1>9
<1> QED
    BY <1>8, <1>9

\* The priority an unlock falls back to is the highest of those it may be.
LEMMA NewPrioGreatest ==
    ASSUME TypeOK, \A m \in Members(Rest) : m_queue[m] # <<>> => Head(m_queue[m]) \in Threads
    PROVE  LET ps == {p_realprio[currp]} \cup FirstPrios(Members(Rest)) IN
           /\ ps \subseteq Nat
           /\ NewPrio \in ps /\ \A r \in ps : r <= NewPrio
<1> DEFINE all == {p_prio[t] : t \in Threads}
           ps == {p_realprio[currp]} \cup FirstPrios(Members(Rest))
<1>1. IsFiniteSet(all)
  <2>1. p_prio \in Surjection(Threads, all)
      BY DEF TypeOK, Surjection
  <2> QED
      BY <2>1, FS_Surjection, ThreadsAssumption
<1>2. FirstPrios(Members(Rest)) \subseteq all
    BY DEF FirstPrios
<1>3. p_realprio[currp] \in Nat /\ all \subseteq Nat
    BY DEF TypeOK
<1>4. IsFiniteSet(ps)
  <2>1. IsFiniteSet(FirstPrios(Members(Rest)))
      BY <1>1, <1>2, FS_Subset
  <2> QED
      BY <2>1, FS_AddElement
<1>5. ps \in SUBSET Nat /\ ps # {}
    BY <1>2, <1>3
<1>6. \E p \in ps : \A r \in ps : r <= p
  <2> HIDE DEF ps
  <2> QED
      BY <1>4, <1>5, GreatestNatural
<1>7. NewPrio \in ps /\ \A r \in ps : r <= NewPrio
    BY <1>6 DEF NewPrio
<1> QED
    BY <1>5, <1>7

LEMMA NewPrioType ==
    ASSUME TypeOK, \A m \in Members(Rest) : m_queue[m] # <<>> => Head(m_queue[m]) \in Threads
    PROVE  NewPrio \in Nat
BY NewPrioGreatest

-----------------------------------------------------------------------------
(* The invariant.  Control: what phase says about the running call, and the  *)
(* idle thread never leaves the scheduler's hands, so that there is always a *)
(* thread to switch to.  Waiting: a waiter waits for something it can be     *)
(* given, in particular the loop of chMtxLockS never follows a NULL owner.   *)

Control ==
    /\ p_state[Idle] \in {"READY", "CURRENT"}
    /\ relock[Idle] = None
    /\ phase \notin {"user", "isr"} => currp # Idle
    /\ phase = "relock" => relock[currp] # None
    /\ phase \in {"boost", "sleep"} => wanted \in Mutexes /\ m_owner[wanted] # None
    /\ phase = "boost" => cursor \in Threads
    /\ phase = "cast" => cursor \in Conds

Waiting ==
    \A t \in Threads :
      /\ p_state[t] = "WTMTX" => wtobjp[t] \in Mutexes /\ m_owner[wtobjp[t]] # None
      /\ p_state[t] = "WTCOND" => wtobjp[t] \in Conds

KInv == TypeOK /\ Places /\ Control /\ Waiting

\* Places, taken apart: the running thread and the ready list, and the queues
\* of one kind of object.
RunPlaces(rdy, st, cp) ==
    /\ rdy \in Lists
    /\ \A t \in Threads : /\ t = cp <=> st[t] = "CURRENT"
                          /\ t \in Members(rdy) <=> st[t] = "READY"

QueuePlaces(S, qs, s, st, wt) ==
    \A x \in S : /\ qs[x] \in Lists
                  /\ \A t \in Threads : t \in Members(qs[x]) <=> st[t] = s /\ wt[t] = x

LEMMA PlacesParts ==
    ASSUME TypeOK
    PROVE  Places <=> /\ RunPlaces(ready, p_state, currp)
                      /\ QueuePlaces(Mutexes, m_queue, "WTMTX", p_state, wtobjp)
                      /\ QueuePlaces(Conds, c_queue, "WTCOND", p_state, wtobjp)
BY DEF TypeOK, Places, RunPlaces, QueuePlaces, Lists

\* One queue of a kind changes, or none does.
LEMMA QueueChanged ==
    ASSUME NEW S, NEW qs \in [S -> Seq(Threads)], NEW s,
           NEW st, NEW wt, NEW st2, NEW wt2, NEW x \in S, NEW q \in Lists,
           QueuePlaces(S, qs, s, st, wt),
           \A t \in Threads : t \in Members(q) <=> st2[t] = s /\ wt2[t] = x,
           \A t \in Threads : \A y \in S \ {x} :
             (st2[t] = s /\ wt2[t] = y) <=> (st[t] = s /\ wt[t] = y)
    PROVE  QueuePlaces(S, [qs EXCEPT ![x] = q], s, st2, wt2)
BY DEF QueuePlaces

LEMMA QueuesKept ==
    ASSUME NEW S, NEW qs, NEW s, NEW st, NEW wt, NEW st2, NEW wt2,
           QueuePlaces(S, qs, s, st, wt),
           \A t \in Threads : \A y \in S :
             (st2[t] = s /\ wt2[t] = y) <=> (st[t] = s /\ wt[t] = y)
    PROVE  QueuePlaces(S, qs, s, st2, wt2)
BY DEF QueuePlaces

Asleep == {"WTMTX", "WTCOND", "SLEEPING"}

\* What every switch of the scheduler leaves behind.
Scheduled ==
    /\ currp' \in Threads
    /\ RunPlaces(ready', p_state', currp')
    /\ p_state' \in [Threads -> States]
    /\ p_preempt' \in [Threads -> 0 .. Quantum]
    /\ timed' \in [Threads -> BOOLEAN]
    /\ phase' \in {"user", "relock"}
    /\ phase' = "relock" => relock[currp'] # None

LEMMA QuantumType == Quantum \in 0 .. Quantum
BY QuantumAssumption

\* chSchGoSleepS.  The idle thread is ready, so that the list is not empty.
LEMMA GoSleepStep ==
    ASSUME TypeOK, NEW rdy, NEW st \in [Threads -> States],
           NEW newstate \in Asleep, NEW timeout \in BOOLEAN,
           RunPlaces(rdy, st, currp), st[Idle] = "READY",
           GoSleepS(rdy, st, newstate, timeout)
    PROVE  /\ Scheduled
           /\ p_state'[currp] = newstate
           /\ \A t \in Threads \ {currp} : \A s \in Asleep : p_state'[t] = s <=> st[t] = s
<1> DEFINE next == Head(rdy)
<1>1. rdy \in Lists /\ rdy # <<>>
    BY ThreadsAssumption, EmptyMembers DEF RunPlaces
<1>2. next \in Threads /\ st[next] = "READY" /\ next # currp
    BY <1>1, TailList DEF RunPlaces, TypeOK
<1>3. Tail(rdy) \in Lists /\ Members(Tail(rdy)) = Members(rdy) \ {next}
    BY <1>1, TailList
<1>4. /\ p_state' = [st EXCEPT ![currp] = newstate, ![next] = "CURRENT"]
      /\ ready' = Tail(rdy) /\ currp' = next
    BY DEF GoSleepS, Resume
<1>5. p_state' \in [Threads -> States] /\ p_state'[currp] = newstate
    BY <1>2, <1>4 DEF TypeOK, States, Asleep
<1>6. \A t \in Threads : p_state'[t] = IF t = next THEN "CURRENT"
                                       ELSE IF t = currp THEN newstate ELSE st[t]
    BY <1>2, <1>4 DEF TypeOK
<1>7. RunPlaces(ready', p_state', currp')
    BY <1>2, <1>3, <1>4, <1>6 DEF RunPlaces, Asleep, TypeOK
<1>8. /\ phase' \in {"user", "relock"}
      /\ phase' = "relock" => relock[currp'] # None
      /\ timed' \in [Threads -> BOOLEAN]
      /\ p_preempt' \in [Threads -> 0 .. Quantum]
    BY <1>2, <1>4, QuantumType DEF GoSleepS, Resume, TypeOK
<1> QED
    BY <1>2, <1>4, <1>5, <1>6, <1>7, <1>8 DEF Scheduled, Asleep

\* chSchWakeupS: the woken thread runs or is ready.
LEMMA WakeupStep ==
    ASSUME TypeOK, Places, NEW t \in Threads, p_state[t] \in Asleep,
           NEW pr \in [Threads -> Nat], WakeupS(t, pr)
    PROVE  /\ Scheduled
           /\ p_state'[t] \notin Asleep
           /\ \A u \in Threads \ {t} : \A s \in Asleep : p_state'[u] = s <=> p_state[u] = s
<1>1. RunPlaces(ready, p_state, currp)
    BY PlacesParts
<1>2. /\ ready \in Lists /\ currp \in Threads /\ t # currp
      /\ t \notin Members(ready) /\ currp \notin Members(ready)
    BY <1>1 DEF RunPlaces, Asleep, TypeOK
<1>3. CASE pr[t] <= pr[currp]
  <2>1. /\ ready' = Insert(ready, pr, t) /\ currp' = currp /\ timed' = timed
        /\ p_state' = [p_state EXCEPT ![t] = "READY"]
        /\ phase' = "user" /\ p_preempt' = p_preempt
      BY <1>3 DEF WakeupS, Stay
  <2>2. ready' \in Lists /\ Members(ready') = Members(ready) \cup {t}
      BY <2>1, <1>2, InsertList
  <2>3. /\ p_state' \in [Threads -> States]
        /\ \A u \in Threads : p_state'[u] = IF u = t THEN "READY" ELSE p_state[u]
      BY <2>1 DEF TypeOK, States
  <2>4. RunPlaces(ready', p_state', currp')
      BY <2>1, <2>2, <2>3, <1>1, <1>2 DEF RunPlaces
  <2> QED
      BY <2>1, <2>3, <2>4, <1>2 DEF Scheduled, TypeOK, Asleep
<1>4. CASE ~ (pr[t] <= pr[currp])
  <2>1. /\ ready' = Insert(ready, pr, currp) /\ currp' = t
        /\ timed' = [timed EXCEPT ![t] = FALSE]
        /\ p_state' = [p_state EXCEPT ![currp] = "READY", ![t] = "CURRENT"]
        /\ phase' = (IF relock[t] # None THEN "relock" ELSE "user")
        /\ p_preempt' = p_preempt
      BY <1>4 DEF WakeupS, SwitchTo, Resume
  <2>2. ready' \in Lists /\ Members(ready') = Members(ready) \cup {currp}
      BY <2>1, <1>2, InsertList
  <2>3. /\ p_state' \in [Threads -> States]
        /\ \A u \in Threads : p_state'[u] = IF u = t THEN "CURRENT" ELSE
                                             IF u = currp THEN "READY" ELSE p_state[u]
      BY <2>1, <1>2 DEF TypeOK, States
  <2>4. RunPlaces(ready', p_state', currp')
      BY <2>1, <2>2, <2>3, <1>1, <1>2 DEF RunPlaces
  <2>5. timed' \in [Threads -> BOOLEAN] /\ p_preempt' \in [Threads -> 0 .. Quantum]
      BY <2>1 DEF TypeOK
  <2>6. p_state[currp] = "CURRENT"
      BY <1>1, <1>2 DEF RunPlaces
  <2> QED
      BY <2>1, <2>3, <2>4, <2>5, <2>6, <1>2 DEF Scheduled, Asleep
<1> QED
    BY <1>3, <1>4

\* Both ways of changing places with the first ready thread.
LEMMA SwapStep ==
    ASSUME TypeOK, Places, ready # <<>>, NEW pr \in [Threads -> Nat],
           DoRescheduleAhead(pr) \/ DoRescheduleBehind
    PROVE  /\ Scheduled
           /\ \A u \in Threads : \A s \in Asleep : p_state'[u] = s <=> p_state[u] = s
<1> DEFINE next == Head(ready)
<1>1. RunPlaces(ready, p_state, currp)
    BY PlacesParts
<1>2. ready \in Lists /\ currp \in Threads /\ p_state[currp] = "CURRENT"
    BY <1>1 DEF RunPlaces, TypeOK
<1>3. /\ next \in Threads /\ p_state[next] = "READY" /\ next # currp
      /\ Tail(ready) \in Lists /\ Members(Tail(ready)) = Members(ready) \ {next}
      /\ currp \notin Members(Tail(ready))
    BY <1>1, <1>2, TailList DEF RunPlaces
<1>4. /\ ready' = InsertAhead(Tail(ready), pr, currp) \/ ready' = Insert(Tail(ready), p_prio, currp)
      /\ currp' = next
      /\ timed' = [timed EXCEPT ![next] = FALSE]
      /\ phase' = (IF relock[next] # None THEN "relock" ELSE "user")
      /\ p_state' = [p_state EXCEPT ![currp] = "READY", ![next] = "CURRENT"]
      /\ p_preempt' = p_preempt \/ p_preempt' = [p_preempt EXCEPT ![currp] = Quantum]
    BY DEF DoRescheduleAhead, DoRescheduleBehind, SwitchTo, Resume
<1>5. ready' \in Lists /\ Members(ready') = Members(Tail(ready)) \cup {currp}
  <2>1. p_prio \in [Threads -> Nat]
      BY DEF TypeOK
  <2> QED
      BY <2>1, <1>2, <1>3, <1>4, InsertList
<1>6. /\ p_state' \in [Threads -> States]
      /\ \A u \in Threads : p_state'[u] = IF u = next THEN "CURRENT" ELSE
                                           IF u = currp THEN "READY" ELSE p_state[u]
    BY <1>2, <1>3, <1>4 DEF TypeOK, States
<1>7. RunPlaces(ready', p_state', currp')
    BY <1>1, <1>2, <1>3, <1>4, <1>5, <1>6 DEF RunPlaces
<1>8. timed' \in [Threads -> BOOLEAN] /\ p_preempt' \in [Threads -> 0 .. Quantum]
    BY <1>4, QuantumType DEF TypeOK
<1> QED
    BY <1>2, <1>3, <1>4, <1>6, <1>7, <1>8 DEF Scheduled, Asleep

LEMMA RescheduleStep ==
    ASSUME TypeOK, Places, NEW pr \in [Threads -> Nat], RescheduleS(pr)
    PROVE  /\ Scheduled
           /\ \A u \in Threads : \A s \in Asleep : p_state'[u] = s <=> p_state[u] = s
<1>1. CASE IsRescRequired(pr) /\ DoRescheduleAhead(pr)
    BY <1>1, SwapStep DEF IsRescRequired
<1>2. CASE Stay /\ UNCHANGED <<ready, p_state, p_preempt>>
  <2>1. RunPlaces(ready', p_state', currp')
      BY <1>2, PlacesParts DEF Stay
  <2> QED
      BY <1>2, <2>1 DEF Scheduled, Stay, TypeOK
<1> QED
    BY <1>1, <1>2 DEF RescheduleS

-----------------------------------------------------------------------------
(* The invariant is inductive.  Mutexes first.                               *)

\* A call is made by a thread that is not the idle thread.
LEMMA CallerType ==
    ASSUME TypeOK, Calls
    PROVE  currp \in Threads /\ currp # Idle /\ phase = "user"
BY DEF TypeOK, Calls, Users

LEMMA OwnType ==
    ASSUME TypeOK, NEW t \in Threads, NEW m \in Mutexes, Own(t, m)
    PROVE  /\ m_owner' \in [Mutexes -> Threads \cup {None}]
           /\ p_mtxlist' \in [Threads -> Seq(Mutexes)]
<1>1. <<m>> \o p_mtxlist[t] \in Seq(Mutexes)
    BY PushMembers DEF TypeOK
<1> QED
    BY <1>1 DEF Own, TypeOK

LEMMA NoneIsNothing ==
    None \notin Threads /\ None \notin Mutexes /\ None \notin Conds
BY ThreadsAssumption

\* chMtxLockS up to its loop, whoever calls it.
LEMMA LockStep ==
    ASSUME KInv, NEW m \in Mutexes, LockS(m), currp # Idle,
           UNCHANGED <<currp, ready, prioVars, procVars, wtobjp, c_queue>>,
           relock' \in [Threads -> Mutexes \cup {None}], relock'[Idle] = None
    PROVE  KInv'
<1> USE DEF KInv, prioVars, procVars, loopVars, mutexVars
<1>1. currp \in Threads
    BY DEF TypeOK
<1>2. CASE m_owner[m] = None
  <2>1. Own(currp, m) /\ phase' = "user" /\ UNCHANGED <<m_queue, loopVars>>
      BY <1>2 DEF LockS
  <2>2. TypeOK'
      BY <2>1, <1>1, OwnType DEF TypeOK, Phases
  <2>3. Places'
      BY <2>1 DEF Places, Members, Distinct
  <2>4. Control'
      BY <2>1 DEF Control
  <2>5. Waiting'
      BY <2>1, <1>1, NoneIsNothing DEF Waiting, Own, TypeOK
  <2> QED
      BY <2>2, <2>3, <2>4, <2>5
<1>3. CASE m_owner[m] # None
  <2>1. phase' = "boost" /\ wanted' = m /\ cursor' = m_owner[m] /\ UNCHANGED mutexVars
      BY <1>3 DEF LockS
  <2>2. m_owner[m] \in Threads
      BY <1>3 DEF TypeOK
  <2>3. TypeOK'
      BY <2>1, <2>2 DEF TypeOK, Phases
  <2>4. Places'
      BY <2>1 DEF Places, Members, Distinct
  <2>5. Control'
      BY <2>1, <2>2, <1>3 DEF Control
  <2>6. Waiting'
      BY <2>1 DEF Waiting
  <2> QED
      BY <2>3, <2>4, <2>5, <2>6
<1> QED
    BY <1>2, <1>3

LEMMA chMtxLockStep ==
    ASSUME KInv, NEW m \in Mutexes, chMtxLock(m)
    PROVE  KInv'
<1>1. TypeOK /\ Calls /\ LockS(m)
    BY DEF chMtxLock, KInv
<1>2. UNCHANGED <<currp, ready, prioVars, procVars, wtobjp, relock, c_queue>>
    BY DEF chMtxLock, condVars
<1>3. currp # Idle
    BY <1>1, CallerType
<1>4. relock' \in [Threads -> Mutexes \cup {None}] /\ relock'[Idle] = None
    BY <1>2 DEF KInv, TypeOK, Control
<1> QED
    BY <1>1, <1>2, <1>3, <1>4, LockStep

LEMMA chMtxTryLockStep ==
    ASSUME KInv, NEW m \in Mutexes, chMtxTryLock(m)
    PROVE  KInv'
<1> USE DEF KInv, prioVars, procVars, loopVars, condVars
<1>1. /\ currp \in Threads /\ currp # Idle /\ phase = "user" /\ Own(currp, m)
      /\ UNCHANGED <<currp, ready, phase, loopVars, prioVars, procVars, wtobjp, condVars, m_queue>>
    BY CallerType DEF chMtxTryLock
<1>2. TypeOK'
    BY <1>1, OwnType DEF TypeOK
<1>3. Places' /\ Control'
    BY <1>1 DEF Places, Members, Distinct, Control
<1>4. Waiting'
    BY <1>1, NoneIsNothing DEF Waiting, Own, TypeOK
<1> QED
    BY <1>2, <1>3, <1>4

\* One turn of the loop of chMtxLockS moves the cursor's thread within its list.
LEMMA RequeuedList ==
    ASSUME TypeOK, cursor \in Threads, NEW q \in Lists, cursor \in Members(q)
    PROVE  Requeued(q) \in Lists /\ Members(Requeued(q)) = Members(q)
<1>1. Boosted \in [Threads -> Nat]
    BY DEF Boosted, TypeOK
<1>2. /\ Dequeue(q, cursor) \in Lists
      /\ Members(Dequeue(q, cursor)) = Members(q) \ {cursor}
    BY DequeueList
<1> QED
    BY <1>1, <1>2, InsertList DEF Requeued

LEMMA BoostStep ==
    ASSUME KInv, BoostWTMTX \/ BoostWTCOND \/ BoostREADY \/ BoostOther
    PROVE  KInv'
<1> USE DEF KInv, procVars, condVars, mutexVars
<1>1. phase = "boost" /\ cursor \in Threads /\ currp # Idle
    BY DEF BoostWTMTX, BoostWTCOND, BoostREADY, BoostOther, LoopGoesOn, Control
<1>2. Boosted \in [Threads -> Nat]
    BY DEF Boosted, TypeOK
<1>3. /\ RunPlaces(ready, p_state, currp)
      /\ QueuePlaces(Mutexes, m_queue, "WTMTX", p_state, wtobjp)
      /\ QueuePlaces(Conds, c_queue, "WTCOND", p_state, wtobjp)
    BY PlacesParts
<1>4. CASE BoostWTMTX
  <2> DEFINE m == wtobjp[cursor]
  <2>1. /\ p_state[cursor] = "WTMTX" /\ p_prio' = Boosted
        /\ m_queue' = [m_queue EXCEPT ![m] = Requeued(@)]
        /\ cursor' = m_owner[m]
        /\ UNCHANGED <<currp, ready, phase, wanted, p_realprio, procVars,
                       wtobjp, condVars, p_mtxlist, m_owner>>
      BY <1>4 DEF BoostWTMTX
  <2>2. m \in Mutexes /\ m_owner[m] \in Threads
      BY <1>1, <2>1 DEF Waiting, TypeOK
  <2>3. Requeued(m_queue[m]) \in Lists /\ Members(Requeued(m_queue[m])) = Members(m_queue[m])
      BY <1>1, <1>3, <2>1, <2>2, RequeuedList DEF QueuePlaces
  <2>4. TypeOK'
      BY <1>2, <2>1, <2>2, <2>3 DEF TypeOK, Lists
  <2>5. QueuePlaces(Mutexes, m_queue', "WTMTX", p_state, wtobjp)
    <3>1. \A t \in Threads : t \in Members(Requeued(m_queue[m])) <=>
                              p_state[t] = "WTMTX" /\ wtobjp[t] = m
        BY <1>3, <2>2, <2>3 DEF QueuePlaces
    <3>2. m_queue \in [Mutexes -> Seq(Threads)]
        BY DEF TypeOK
    <3> QED
        BY <1>3, <2>1, <2>2, <2>3, <3>1, <3>2, QueueChanged
  <2>6. Places'
    <3>1. /\ RunPlaces(ready, p_state, currp)'
          /\ QueuePlaces(Conds, c_queue, "WTCOND", p_state, wtobjp)'
        BY <1>3, <2>1
    <3> QED
        BY <2>1, <2>4, <2>5, <3>1 DEF Places, RunPlaces, QueuePlaces, Lists
  <2>7. Control' /\ Waiting'
      BY <1>1, <2>1, <2>2 DEF Control, Waiting
  <2> QED
      BY <2>4, <2>6, <2>7
<1>5. CASE BoostWTCOND
  <2> DEFINE c == wtobjp[cursor]
  <2>1. /\ p_state[cursor] = "WTCOND" /\ p_prio' = Boosted
        /\ c_queue' = [c_queue EXCEPT ![c] = Requeued(@)]
        /\ phase' = "sleep" /\ cursor' = None
        /\ UNCHANGED <<currp, ready, wanted, p_realprio, procVars, wtobjp, relock, mutexVars>>
      BY <1>5 DEF BoostWTCOND
  <2>2. c \in Conds
      BY <1>1, <2>1 DEF Waiting
  <2>3. Requeued(c_queue[c]) \in Lists /\ Members(Requeued(c_queue[c])) = Members(c_queue[c])
      BY <1>1, <1>3, <2>1, <2>2, RequeuedList DEF QueuePlaces
  <2>4. TypeOK'
      BY <1>2, <2>1, <2>2, <2>3 DEF TypeOK, Lists, Phases
  <2>5. QueuePlaces(Conds, c_queue', "WTCOND", p_state, wtobjp)
    <3>1. \A t \in Threads : t \in Members(Requeued(c_queue[c])) <=>
                              p_state[t] = "WTCOND" /\ wtobjp[t] = c
        BY <1>3, <2>2, <2>3 DEF QueuePlaces
    <3>2. c_queue \in [Conds -> Seq(Threads)]
        BY DEF TypeOK
    <3> QED
        BY <1>3, <2>1, <2>2, <2>3, <3>1, <3>2, QueueChanged
  <2>6. Places'
    <3>1. /\ RunPlaces(ready, p_state, currp)'
          /\ QueuePlaces(Mutexes, m_queue, "WTMTX", p_state, wtobjp)'
        BY <1>3, <2>1
    <3> QED
        BY <2>1, <2>4, <2>5, <3>1 DEF Places, RunPlaces, QueuePlaces, Lists
  <2>7. Control' /\ Waiting'
      BY <1>1, <2>1, <2>2 DEF Control, Waiting
  <2> QED
      BY <2>4, <2>6, <2>7
<1>6. CASE BoostREADY
  <2>1. /\ p_state[cursor] = "READY" /\ p_prio' = Boosted
        /\ ready' = Requeued(ready) /\ phase' = "sleep" /\ cursor' = None
        /\ UNCHANGED <<currp, wanted, p_realprio, procVars, wtobjp, condVars, mutexVars>>
      BY <1>6 DEF BoostREADY
  <2>2. ready' \in Lists /\ Members(ready') = Members(ready)
      BY <1>1, <1>3, <2>1, RequeuedList DEF RunPlaces
  <2>3. TypeOK'
      BY <1>2, <2>1, <2>2 DEF TypeOK, Lists, Phases
  <2>4. RunPlaces(ready, p_state, currp)'
      BY <1>3, <2>1, <2>2 DEF RunPlaces
  <2>5. Places'
    <3>1. /\ QueuePlaces(Conds, c_queue, "WTCOND", p_state, wtobjp)'
          /\ QueuePlaces(Mutexes, m_queue, "WTMTX", p_state, wtobjp)'
        BY <1>3, <2>1
    <3> QED
        BY <2>3, <2>4, <3>1 DEF Places, RunPlaces, QueuePlaces, Lists
  <2>6. Control' /\ Waiting'
      BY <1>1, <2>1 DEF Control, Waiting
  <2> QED
      BY <2>3, <2>5, <2>6
<1>7. CASE BoostOther
  <2>1. /\ p_prio' = Boosted /\ phase' = "sleep" /\ cursor' = None
        /\ UNCHANGED <<currp, ready, wanted, p_realprio, procVars, wtobjp, condVars, mutexVars>>
      BY <1>7 DEF BoostOther
  <2>2. TypeOK'
      BY <1>2, <2>1 DEF TypeOK, Phases
  <2>3. Places' /\ Control' /\ Waiting'
      BY <1>1, <2>1 DEF Places, Members, Distinct, Control, Waiting
  <2> QED
      BY <2>2, <2>3
<1> QED
    BY <1>4, <1>5, <1>6, <1>7

\* Where the scheduler leaves control, if it left the idle thread awake.
LEMMA ScheduledControl ==
    ASSUME TypeOK, Control, Scheduled, p_state'[Idle] \notin Asleep,
           relock'[Idle] = None, \A t \in Threads : relock'[t] = None => relock[t] = None
    PROVE  Control'
<1>1. Idle \in Threads
    BY ThreadsAssumption
<1>2. p_state'[Idle] \in {"READY", "CURRENT"}
    BY <1>1 DEF Scheduled, States, Asleep
<1>3. phase' = "relock" => relock'[currp'] # None /\ currp' # Idle
    BY <1>1 DEF Scheduled, Control
<1> QED
    BY <1>2, <1>3 DEF Scheduled, Control

\* Places, put together again after a step.
LEMMA PlacesAgain ==
    ASSUME TypeOK', Scheduled \/ RunPlaces(ready', p_state', currp'),
           QueuePlaces(Mutexes, m_queue', "WTMTX", p_state', wtobjp'),
           QueuePlaces(Conds, c_queue', "WTCOND", p_state', wtobjp')
    PROVE  Places'
<1>1. RunPlaces(ready', p_state', currp')
    BY DEF Scheduled
<1>2. \A m \in Mutexes : Distinct(m_queue[m])'
    BY DEF QueuePlaces, Lists
<1>3. \A c \in Conds : Distinct(c_queue[c])'
    BY DEF QueuePlaces, Lists
<1>4. Distinct(ready') /\ \A t \in Threads :
        /\ t = currp' <=> p_state'[t] = "CURRENT"
        /\ t \in Members(ready') <=> p_state'[t] = "READY"
    BY <1>1 DEF RunPlaces, Lists
<1>5. \A t \in Threads : \A m \in Mutexes :
        t \in Members(m_queue'[m]) <=> (p_state'[t] = "WTMTX" /\ wtobjp'[t] = m)
    BY DEF QueuePlaces
<1>6. \A t \in Threads : \A c \in Conds :
        t \in Members(c_queue'[c]) <=> (p_state'[t] = "WTCOND" /\ wtobjp'[t] = c)
    BY DEF QueuePlaces
<1> QED
    BY <1>2, <1>3, <1>4, <1>5, <1>6 DEF Places

\* What is known when the running thread, which is not the idle thread, sleeps.
LEMMA Runs ==
    ASSUME KInv
    PROVE  /\ RunPlaces(ready, p_state, currp)
           /\ QueuePlaces(Mutexes, m_queue, "WTMTX", p_state, wtobjp)
           /\ QueuePlaces(Conds, c_queue, "WTCOND", p_state, wtobjp)
           /\ currp \in Threads /\ p_state[currp] = "CURRENT"
           /\ \A x \in Mutexes : currp \notin Members(m_queue[x])
           /\ \A x \in Conds : currp \notin Members(c_queue[x])
           /\ currp # Idle => p_state[Idle] = "READY"
<1>1. /\ RunPlaces(ready, p_state, currp)
      /\ QueuePlaces(Mutexes, m_queue, "WTMTX", p_state, wtobjp)
      /\ QueuePlaces(Conds, c_queue, "WTCOND", p_state, wtobjp)
    BY PlacesParts DEF KInv
<1>2. currp \in Threads /\ p_state[currp] = "CURRENT"
    BY <1>1 DEF RunPlaces, KInv, TypeOK
<1>3. currp # Idle => p_state[Idle] = "READY"
    BY <1>1, ThreadsAssumption DEF RunPlaces, KInv, Control
<1> QED
    BY <1>1, <1>2, <1>3 DEF QueuePlaces

LEMMA SleepOnMutexStep ==
    ASSUME KInv, SleepOnMutex
    PROVE  KInv'
<1>1. /\ TypeOK /\ Control /\ Waiting
      /\ currp # Idle /\ wanted \in Mutexes /\ m_owner[wanted] # None
      /\ p_prio \in [Threads -> Nat] /\ p_state \in [Threads -> States]
    BY DEF KInv, SleepOnMutex, Control, TypeOK
<1>2. /\ m_queue' = [m_queue EXCEPT ![wanted] = Insert(@, p_prio, currp)]
      /\ wtobjp' = [wtobjp EXCEPT ![currp] = wanted]
      /\ GoSleepS(ready, p_state, "WTMTX", FALSE)
      /\ wanted' = None /\ cursor' = None
      /\ UNCHANGED <<prioVars, condVars, p_mtxlist, m_owner>>
    BY DEF SleepOnMutex
<1>3. /\ Scheduled
      /\ p_state'[currp] = "WTMTX"
      /\ \A t \in Threads \ {currp} : \A s \in Asleep : p_state'[t] = s <=> p_state[t] = s
    BY <1>1, <1>2, Runs, GoSleepStep DEF Asleep
<1>4. /\ Insert(m_queue[wanted], p_prio, currp) \in Lists
      /\ Members(Insert(m_queue[wanted], p_prio, currp)) = Members(m_queue[wanted]) \cup {currp}
    BY <1>1, Runs, InsertList DEF QueuePlaces
<1>5. TypeOK'
  <2>1. ready' \in Seq(Threads)
      BY <1>3 DEF Scheduled, RunPlaces, Lists
  <2>2. m_queue' \in [Mutexes -> Seq(Threads)]
      BY <1>1, <1>2, <1>4 DEF TypeOK, Lists
  <2> QED
      BY <1>1, <1>2, <1>3, <2>1, <2>2, Runs
         DEF TypeOK, Scheduled, Phases, prioVars, condVars
<1>a. \A t \in Threads : wtobjp'[t] = IF t = currp THEN wanted ELSE wtobjp[t]
    BY <1>1, <1>2 DEF TypeOK
<1>b. "WTMTX" \in Asleep /\ "WTCOND" \in Asleep
    BY DEF Asleep
<1>6. QueuePlaces(Mutexes, m_queue', "WTMTX", p_state', wtobjp')
  <2>1. \A t \in Threads : t \in Members(Insert(m_queue[wanted], p_prio, currp)) <=>
                            p_state'[t] = "WTMTX" /\ wtobjp'[t] = wanted
      BY <1>1, <1>3, <1>4, <1>a, <1>b, Runs DEF QueuePlaces
  <2>2. \A t \in Threads : \A y \in Mutexes \ {wanted} :
          (p_state'[t] = "WTMTX" /\ wtobjp'[t] = y) <=> (p_state[t] = "WTMTX" /\ wtobjp[t] = y)
      BY <1>3, <1>a, <1>b, Runs
  <2>3. m_queue \in [Mutexes -> Seq(Threads)] /\ wanted \in Mutexes
      BY <1>1 DEF TypeOK
  <2>4. QueuePlaces(Mutexes, m_queue, "WTMTX", p_state, wtobjp)
      BY Runs
  <2> DEFINE q == Insert(m_queue[wanted], p_prio, currp)
  <2>5. q \in Lists /\ m_queue' = [m_queue EXCEPT ![wanted] = q]
      BY <1>2, <1>4
  <2>6. \A t \in Threads : t \in Members(q) <=> p_state'[t] = "WTMTX" /\ wtobjp'[t] = wanted
      BY <2>1
  <2> HIDE DEF q
  <2>7. ASSUME NEW x \in Mutexes
        PROVE  /\ m_queue'[x] \in Lists
               /\ \A t \in Threads :
                    t \in Members(m_queue'[x]) <=> p_state'[t] = "WTMTX" /\ wtobjp'[t] = x
    <3>1. CASE x = wanted
        BY <2>3, <2>5, <2>6, <3>1
    <3>2. CASE x # wanted
      <4>1. m_queue'[x] = m_queue[x]
          BY <2>3, <2>5, <3>2
      <4> QED
          BY <2>2, <2>4, <3>2, <4>1 DEF QueuePlaces
    <3> QED
        BY <3>1, <3>2
  <2> QED
      BY <2>7 DEF QueuePlaces
<1>7. QueuePlaces(Conds, c_queue', "WTCOND", p_state', wtobjp')
  <2>1. \A t \in Threads : \A y \in Conds :
          (p_state'[t] = "WTCOND" /\ wtobjp'[t] = y) <=> (p_state[t] = "WTCOND" /\ wtobjp[t] = y)
      BY <1>3, <1>a, <1>b, Runs
  <2>2. c_queue' = c_queue
      BY <1>2 DEF condVars
  <2> QED
      BY <2>1, <2>2, Runs, QueuesKept
<1>8. Places'
    BY <1>3, <1>5, <1>6, <1>7, PlacesAgain
<1>9. Control'
  <2>1. p_state'[Idle] \notin Asleep
      BY <1>1, <1>3, Runs, ThreadsAssumption DEF Asleep
  <2> QED
      BY <2>1, <1>1, <1>2, <1>3, ScheduledControl DEF condVars, Control
<1>10. Waiting'
    BY <1>1, <1>2, <1>3, Runs DEF Waiting, Asleep, TypeOK
<1> QED
    BY <1>5, <1>8, <1>9, <1>10 DEF KInv

\* The queues after a step: nobody starts or stops waiting, or the first waiter
\* of one queue is taken out.
LEMMA MutexesKept ==
    ASSUME KInv, UNCHANGED m_queue,
           \A u \in Threads : /\ p_state'[u] = "WTMTX" <=> p_state[u] = "WTMTX"
                              /\ p_state[u] = "WTMTX" => wtobjp'[u] = wtobjp[u]
    PROVE  QueuePlaces(Mutexes, m_queue', "WTMTX", p_state', wtobjp')
<1>1. QueuePlaces(Mutexes, m_queue, "WTMTX", p_state, wtobjp)
    BY Runs
<1> QED
    BY <1>1 DEF QueuePlaces

LEMMA CondsKept ==
    ASSUME KInv, UNCHANGED c_queue,
           \A u \in Threads : /\ p_state'[u] = "WTCOND" <=> p_state[u] = "WTCOND"
                              /\ p_state[u] = "WTCOND" => wtobjp'[u] = wtobjp[u]
    PROVE  QueuePlaces(Conds, c_queue', "WTCOND", p_state', wtobjp')
<1>1. QueuePlaces(Conds, c_queue, "WTCOND", p_state, wtobjp)
    BY Runs
<1> QED
    BY <1>1 DEF QueuePlaces

LEMMA FirstWaiter ==
    ASSUME KInv, NEW m \in Mutexes, m_queue[m] # <<>>
    PROVE  LET tp == Head(m_queue[m]) IN
           /\ tp \in Threads /\ tp # currp /\ tp # Idle
           /\ p_state[tp] = "WTMTX" /\ wtobjp[tp] = m
           /\ Tail(m_queue[m]) \in Lists
           /\ Members(Tail(m_queue[m])) = Members(m_queue[m]) \ {tp}
<1>1. QueuePlaces(Mutexes, m_queue, "WTMTX", p_state, wtobjp)
    BY Runs
<1>2. m_queue[m] \in Lists
    BY <1>1 DEF QueuePlaces
<1>3. /\ Head(m_queue[m]) \in Threads
      /\ Head(m_queue[m]) \in Members(m_queue[m])
      /\ Tail(m_queue[m]) \in Lists
      /\ Members(Tail(m_queue[m])) = Members(m_queue[m]) \ {Head(m_queue[m])}
    BY <1>2, TailList
<1>4. p_state[Head(m_queue[m])] = "WTMTX" /\ wtobjp[Head(m_queue[m])] = m
    BY <1>1, <1>3 DEF QueuePlaces
<1>5. Head(m_queue[m]) # currp
    BY <1>4, Runs
<1>6. Head(m_queue[m]) # Idle
    BY <1>4 DEF KInv, Control
<1> QED
    BY <1>3, <1>4, <1>5, <1>6

LEMMA FirstSignalled ==
    ASSUME KInv, NEW c \in Conds, c_queue[c] # <<>>
    PROVE  LET tp == Head(c_queue[c]) IN
           /\ tp \in Threads /\ tp # currp /\ tp # Idle
           /\ p_state[tp] = "WTCOND" /\ wtobjp[tp] = c
           /\ Tail(c_queue[c]) \in Lists
           /\ Members(Tail(c_queue[c])) = Members(c_queue[c]) \ {tp}
<1>1. QueuePlaces(Conds, c_queue, "WTCOND", p_state, wtobjp)
    BY Runs
<1>2. c_queue[c] \in Lists
    BY <1>1 DEF QueuePlaces
<1>3. /\ Head(c_queue[c]) \in Threads
      /\ Head(c_queue[c]) \in Members(c_queue[c])
      /\ Tail(c_queue[c]) \in Lists
      /\ Members(Tail(c_queue[c])) = Members(c_queue[c]) \ {Head(c_queue[c])}
    BY <1>2, TailList
<1>4. p_state[Head(c_queue[c])] = "WTCOND" /\ wtobjp[Head(c_queue[c])] = c
    BY <1>1, <1>3 DEF QueuePlaces
<1>5. Head(c_queue[c]) # currp
    BY <1>4, Runs
<1>6. Head(c_queue[c]) # Idle
    BY <1>4 DEF KInv, Control
<1> QED
    BY <1>3, <1>4, <1>5, <1>6

LEMMA MutexPopped ==
    ASSUME KInv, NEW m \in Mutexes, m_queue[m] # <<>>,
           m_queue' = [m_queue EXCEPT ![m] = Tail(@)],
           p_state'[Head(m_queue[m])] # "WTMTX",
           \A u \in Threads \ {Head(m_queue[m])} :
             /\ p_state'[u] = "WTMTX" <=> p_state[u] = "WTMTX"
             /\ p_state[u] = "WTMTX" => wtobjp'[u] = wtobjp[u]
    PROVE  /\ QueuePlaces(Mutexes, m_queue', "WTMTX", p_state', wtobjp')
           /\ m_queue' \in [Mutexes -> Seq(Threads)]
<1> DEFINE tp == Head(m_queue[m])
<1>1. QueuePlaces(Mutexes, m_queue, "WTMTX", p_state, wtobjp)
    BY Runs
<1>2. /\ tp \in Threads
      /\ p_state[tp] = "WTMTX" /\ wtobjp[tp] = m
      /\ Tail(m_queue[m]) \in Lists
      /\ Members(Tail(m_queue[m])) = Members(m_queue[m]) \ {tp}
    BY FirstWaiter
<1>3. \A x \in Mutexes : m_queue'[x] = IF x = m THEN Tail(m_queue[m]) ELSE m_queue[x]
    BY DEF KInv, TypeOK
<1>4. \A t \in Threads : t \in Members(Tail(m_queue[m])) <=>
                          p_state'[t] = "WTMTX" /\ wtobjp'[t] = m
    BY <1>1, <1>2 DEF QueuePlaces
<1>5. \A x \in Mutexes \ {m} : \A t \in Threads :
        t \in Members(m_queue[x]) <=> p_state'[t] = "WTMTX" /\ wtobjp'[t] = x
    BY <1>1, <1>2 DEF QueuePlaces
<1>6. \A x \in Mutexes : m_queue[x] \in Lists
    BY <1>1 DEF QueuePlaces
<1>7. m_queue' \in [Mutexes -> Seq(Threads)]
    BY <1>2 DEF KInv, TypeOK, Lists
<1> QED
    BY <1>2, <1>3, <1>4, <1>5, <1>6, <1>7 DEF QueuePlaces

LEMMA CondPopped ==
    ASSUME KInv, NEW c \in Conds, c_queue[c] # <<>>,
           c_queue' = [c_queue EXCEPT ![c] = Tail(@)],
           p_state'[Head(c_queue[c])] # "WTCOND",
           \A u \in Threads \ {Head(c_queue[c])} :
             /\ p_state'[u] = "WTCOND" <=> p_state[u] = "WTCOND"
             /\ p_state[u] = "WTCOND" => wtobjp'[u] = wtobjp[u]
    PROVE  /\ QueuePlaces(Conds, c_queue', "WTCOND", p_state', wtobjp')
           /\ c_queue' \in [Conds -> Seq(Threads)]
<1> DEFINE tp == Head(c_queue[c])
<1>1. QueuePlaces(Conds, c_queue, "WTCOND", p_state, wtobjp)
    BY Runs
<1>2. /\ tp \in Threads
      /\ p_state[tp] = "WTCOND" /\ wtobjp[tp] = c
      /\ Tail(c_queue[c]) \in Lists
      /\ Members(Tail(c_queue[c])) = Members(c_queue[c]) \ {tp}
    BY FirstSignalled
<1>3. \A x \in Conds : c_queue'[x] = IF x = c THEN Tail(c_queue[c]) ELSE c_queue[x]
    BY DEF KInv, TypeOK
<1>4. \A t \in Threads : t \in Members(Tail(c_queue[c])) <=>
                          p_state'[t] = "WTCOND" /\ wtobjp'[t] = c
    BY <1>1, <1>2 DEF QueuePlaces
<1>5. \A x \in Conds \ {c} : \A t \in Threads :
        t \in Members(c_queue[x]) <=> p_state'[t] = "WTCOND" /\ wtobjp'[t] = x
    BY <1>1, <1>2 DEF QueuePlaces
<1>6. \A x \in Conds : c_queue[x] \in Lists
    BY <1>1 DEF QueuePlaces
<1>7. c_queue' \in [Conds -> Seq(Threads)]
    BY <1>2 DEF KInv, TypeOK, Lists
<1> QED
    BY <1>2, <1>3, <1>4, <1>5, <1>6, <1>7 DEF QueuePlaces

\* A mutex becomes free only if nobody waits for it.
LEMMA WaitingStep ==
    ASSUME KInv,
           \A u \in Threads : p_state'[u] = "WTMTX" =>
             p_state[u] = "WTMTX" /\ wtobjp'[u] = wtobjp[u],
           \A u \in Threads : p_state'[u] = "WTCOND" =>
             (p_state[u] = "WTCOND" /\ wtobjp'[u] = wtobjp[u]) \/ wtobjp'[u] \in Conds,
           \A m \in Mutexes : m_owner'[m] = None => m_owner[m] = None \/ m_queue[m] = <<>>
    PROVE  Waiting'
<1>1. ASSUME NEW u \in Threads, p_state'[u] = "WTMTX"
      PROVE  wtobjp'[u] \in Mutexes /\ m_owner'[wtobjp'[u]] # None
  <2>1. /\ p_state[u] = "WTMTX" /\ wtobjp'[u] = wtobjp[u]
        /\ wtobjp[u] \in Mutexes /\ m_owner[wtobjp[u]] # None
      BY <1>1 DEF KInv, Waiting
  <2>2. u \in Members(m_queue[wtobjp[u]])
      BY <2>1, Runs DEF QueuePlaces
  <2>3. m_queue[wtobjp[u]] # <<>>
      BY <2>2, EmptyMembers
  <2> QED
      BY <2>1, <2>3
<1>2. ASSUME NEW u \in Threads, p_state'[u] = "WTCOND" PROVE wtobjp'[u] \in Conds
    BY <1>2 DEF KInv, Waiting
<1> QED
    BY <1>1, <1>2 DEF Waiting

-----------------------------------------------------------------------------
(* Unlocking.                                                                *)

LEMMA TopType ==
    ASSUME TypeOK, p_mtxlist[currp] # <<>>
    PROVE  ump \in Mutexes /\ Rest \in Seq(Mutexes)
BY DEF TypeOK, ump, Rest

LEMMA LoweredType ==
    ASSUME KInv, p_mtxlist[currp] # <<>>
    PROVE  Lowered \in [Threads -> Nat]
<1>1. Rest \in Seq(Mutexes)
    BY TopType DEF KInv
<1>2. Members(Rest) \subseteq Mutexes
    BY <1>1, EmptyMembers
<1>3. \A m \in Members(Rest) : m_queue[m] # <<>> => Head(m_queue[m]) \in Threads
    BY <1>2, FirstWaiter
<1>4. NewPrio \in Nat
    BY <1>3, NewPrioType DEF KInv
<1> QED
    BY <1>4 DEF Lowered, KInv, TypeOK

LEMMA DropType ==
    ASSUME KInv, p_mtxlist[currp] # <<>>, Drop
    PROVE  /\ m_owner' \in [Mutexes -> Threads \cup {None}]
           /\ p_mtxlist' \in [Threads -> Seq(Mutexes)]
           /\ \A m \in Mutexes : m_owner'[m] = None => m_owner[m] = None \/ m_queue[m] = <<>>
           /\ UNCHANGED <<m_queue, wtobjp>>
<1>1. ump \in Mutexes /\ Rest \in Seq(Mutexes)
    BY TopType DEF KInv
<1> QED
    BY <1>1 DEF Drop, KInv, TypeOK

LEMMA GiveType ==
    ASSUME KInv, p_mtxlist[currp] # <<>>, m_queue[ump] # <<>>, Give
    PROVE  /\ m_owner' \in [Mutexes -> Threads \cup {None}]
           /\ p_mtxlist' \in [Threads -> Seq(Mutexes)]
           /\ wtobjp' \in [Threads -> Mutexes \cup Conds \cup {None}]
           /\ \A m \in Mutexes : m_owner'[m] = None => m_owner[m] = None
           /\ \A u \in Threads \ {Head(m_queue[ump])} : wtobjp'[u] = wtobjp[u]
           /\ m_queue' = [m_queue EXCEPT ![ump] = Tail(@)]
<1> DEFINE tp == Head(m_queue[ump])
<1>1. ump \in Mutexes /\ Rest \in Seq(Mutexes)
    BY TopType DEF KInv
<1>2. tp \in Threads /\ tp # currp
    BY <1>1, FirstWaiter
<1>3. <<ump>> \o p_mtxlist[tp] \in Seq(Mutexes)
    BY <1>1, <1>2, PushMembers DEF KInv, TypeOK
<1>4. p_mtxlist' = [p_mtxlist EXCEPT ![currp] = Rest, ![tp] = <<ump>> \o p_mtxlist[tp]]
    BY <1>2 DEF Give, KInv, TypeOK
<1>5. p_mtxlist' \in [Threads -> Seq(Mutexes)]
    BY <1>1, <1>2, <1>3, <1>4 DEF KInv, TypeOK
<1> QED
    BY <1>1, <1>2, <1>5, NoneIsNothing DEF Give, KInv, TypeOK

LEMMA chMtxUnlockStep ==
    ASSUME KInv, chMtxUnlock
    PROVE  KInv'
<1> USE DEF loopVars, condVars, procVars
<1>1. /\ TypeOK /\ Places /\ Control /\ Calls /\ p_mtxlist[currp] # <<>>
      /\ currp \in Threads /\ currp # Idle /\ phase = "user"
      /\ UNCHANGED <<loopVars, p_realprio, condVars>>
    BY CallerType DEF chMtxUnlock, KInv
<1>2. ump \in Mutexes
    BY <1>1, TopType
<1>3. CASE Drop /\ UNCHANGED <<currp, ready, phase, p_prio, procVars>>
  <2>1. /\ m_owner' \in [Mutexes -> Threads \cup {None}]
        /\ p_mtxlist' \in [Threads -> Seq(Mutexes)]
        /\ \A m \in Mutexes : m_owner'[m] = None => m_owner[m] = None \/ m_queue[m] = <<>>
        /\ UNCHANGED <<m_queue, wtobjp>>
      BY <1>1, <1>3, DropType
  <2>2. TypeOK'
      BY <1>1, <1>3, <2>1 DEF TypeOK
  <2>3. Places' /\ Control'
      BY <1>1, <1>3, <2>1 DEF Places, Members, Distinct, Control
  <2>4. Waiting'
      BY <1>3, <2>1, WaitingStep
  <2> QED
      BY <2>2, <2>3, <2>4 DEF KInv
<1>4. CASE /\ m_queue[ump] # <<>> /\ Give /\ p_prio' = Lowered
           /\ WakeupS(Head(m_queue[ump]), Lowered)
  <2> DEFINE tp == Head(m_queue[ump])
  <2>1. /\ tp \in Threads /\ tp # currp /\ tp # Idle /\ p_state[tp] = "WTMTX"
      BY <1>2, <1>4, FirstWaiter
  <2>2. Lowered \in [Threads -> Nat]
      BY <1>1, LoweredType
  <2>3. /\ m_owner' \in [Mutexes -> Threads \cup {None}]
        /\ p_mtxlist' \in [Threads -> Seq(Mutexes)]
        /\ wtobjp' \in [Threads -> Mutexes \cup Conds \cup {None}]
        /\ \A m \in Mutexes : m_owner'[m] = None => m_owner[m] = None
        /\ \A u \in Threads \ {tp} : wtobjp'[u] = wtobjp[u]
        /\ m_queue' = [m_queue EXCEPT ![ump] = Tail(@)]
      BY <1>1, <1>4, GiveType
  <2>4. /\ Scheduled
        /\ p_state'[tp] \notin Asleep
        /\ \A u \in Threads \ {tp} : \A s \in Asleep : p_state'[u] = s <=> p_state[u] = s
    <3>1. p_state[tp] \in Asleep /\ WakeupS(tp, Lowered)
        BY <1>4, <2>1 DEF Asleep
    <3> QED
        BY <1>1, <2>1, <2>2, <3>1, WakeupStep
  <2>5. /\ QueuePlaces(Mutexes, m_queue', "WTMTX", p_state', wtobjp')
        /\ m_queue' \in [Mutexes -> Seq(Threads)]
      BY <1>2, <1>4, <2>3, <2>4, MutexPopped DEF Asleep
  <2>6. QueuePlaces(Conds, c_queue', "WTCOND", p_state', wtobjp')
      BY <1>1, <2>1, <2>3, <2>4, CondsKept DEF Asleep
  <2>7. TypeOK'
    <3>1. ready' \in Seq(Threads)
        BY <2>4 DEF Scheduled, RunPlaces, Lists
    <3> QED
        BY <1>1, <1>4, <2>2, <2>3, <2>4, <2>5, <3>1 DEF TypeOK, Scheduled, Phases
  <2>8. Places'
      BY <2>4, <2>5, <2>6, <2>7, PlacesAgain
  <2>9. Control'
    <3>1. p_state'[Idle] \notin Asleep
        BY <1>1, <2>1, <2>4, ThreadsAssumption DEF Asleep, Control
    <3> QED
        BY <1>1, <2>4, <3>1, ScheduledControl DEF Control
  <2>10. Waiting'
      BY <2>3, <2>4, WaitingStep DEF Asleep
  <2> QED
      BY <2>7, <2>8, <2>9, <2>10 DEF KInv
<1> QED
    BY <1>3, <1>4 DEF chMtxUnlock

\* Nothing moves but control.
LEMMA ControlOnly ==
    ASSUME KInv, UNCHANGED <<currp, ready, prioVars, p_state, timed, wtobjp, condVars, mutexVars>>,
           UNCHANGED wanted, phase' \in Phases, cursor' \in Threads \cup Conds \cup {None},
           p_preempt' \in [Threads -> 0 .. Quantum], Control'
    PROVE  KInv'
<1> USE DEF prioVars, condVars, mutexVars
<1>1. TypeOK'
    BY DEF KInv, TypeOK
<1>2. Places'
    BY DEF KInv, Places, Members, Distinct
<1>3. Waiting'
    BY DEF KInv, Waiting
<1> QED
    BY <1>1, <1>2, <1>3 DEF KInv

LEMMA UnlockAllBeginStep ==
    ASSUME KInv, UnlockAllBegin
    PROVE  KInv'
<1>1. /\ TypeOK /\ Control /\ currp # Idle /\ phase' = "all"
      /\ UNCHANGED <<currp, ready, loopVars, prioVars, procVars, wtobjp, condVars, mutexVars>>
    BY CallerType DEF UnlockAllBegin, KInv
<1>2. Control'
    BY <1>1 DEF Control, procVars, condVars
<1> QED
    BY <1>1, <1>2, ControlOnly DEF loopVars, procVars, Phases, TypeOK

LEMMA UnlockAllTurnStep ==
    ASSUME KInv, UnlockAllTurn
    PROVE  KInv'
<1> USE DEF loopVars, prioVars, condVars
<1>1. /\ TypeOK /\ Places /\ Control /\ p_mtxlist[currp] # <<>>
      /\ phase = "all" /\ currp # Idle
      /\ UNCHANGED <<currp, phase, loopVars, prioVars, p_preempt, timed, condVars>>
    BY DEF UnlockAllTurn, KInv, Control
<1>2. ump \in Mutexes
    BY <1>1, TopType
<1>3. CASE Drop /\ UNCHANGED <<ready, p_state>>
  <2>1. /\ m_owner' \in [Mutexes -> Threads \cup {None}]
        /\ p_mtxlist' \in [Threads -> Seq(Mutexes)]
        /\ \A m \in Mutexes : m_owner'[m] = None => m_owner[m] = None \/ m_queue[m] = <<>>
        /\ UNCHANGED <<m_queue, wtobjp>>
      BY <1>1, <1>3, DropType
  <2>2. TypeOK'
      BY <1>1, <1>3, <2>1 DEF TypeOK
  <2>3. Places' /\ Control'
      BY <1>1, <1>3, <2>1 DEF Places, Members, Distinct, Control
  <2>4. Waiting'
      BY <1>3, <2>1, WaitingStep
  <2> QED
      BY <2>2, <2>3, <2>4 DEF KInv
<1>4. CASE /\ m_queue[ump] # <<>> /\ Give
           /\ ready' = Insert(ready, p_prio, Head(m_queue[ump]))
           /\ p_state' = [p_state EXCEPT ![Head(m_queue[ump])] = "READY"]
  <2> DEFINE tp == Head(m_queue[ump])
  <2>1. /\ tp \in Threads /\ tp # currp /\ tp # Idle /\ p_state[tp] = "WTMTX"
      BY <1>2, <1>4, FirstWaiter
  <2>2. /\ m_owner' \in [Mutexes -> Threads \cup {None}]
        /\ p_mtxlist' \in [Threads -> Seq(Mutexes)]
        /\ wtobjp' \in [Threads -> Mutexes \cup Conds \cup {None}]
        /\ \A m \in Mutexes : m_owner'[m] = None => m_owner[m] = None
        /\ \A u \in Threads \ {tp} : wtobjp'[u] = wtobjp[u]
        /\ m_queue' = [m_queue EXCEPT ![ump] = Tail(@)]
      BY <1>1, <1>4, GiveType
  <2>3. /\ p_state' \in [Threads -> States]
        /\ \A u \in Threads : p_state'[u] = IF u = tp THEN "READY" ELSE p_state[u]
      BY <1>1, <1>4, <2>1 DEF TypeOK, States
  <2>4. RunPlaces(ready', p_state', currp')
    <3>1. RunPlaces(ready, p_state, currp)
        BY Runs
    <3>2. tp \notin Members(ready) /\ ready \in Lists
        BY <2>1, <3>1 DEF RunPlaces
    <3>3. ready' \in Lists /\ Members(ready') = Members(ready) \cup {tp}
        BY <1>1, <1>4, <2>1, <3>2, InsertList DEF TypeOK
    <3> QED
        BY <1>1, <2>1, <2>3, <3>1, <3>3 DEF RunPlaces
  <2>5. /\ QueuePlaces(Mutexes, m_queue', "WTMTX", p_state', wtobjp')
        /\ m_queue' \in [Mutexes -> Seq(Threads)]
      BY <1>2, <1>4, <2>1, <2>2, <2>3, MutexPopped
  <2>6. QueuePlaces(Conds, c_queue', "WTCOND", p_state', wtobjp')
      BY <1>1, <2>1, <2>2, <2>3, CondsKept
  <2>7. TypeOK'
    <3>1. ready' \in Seq(Threads)
        BY <2>4 DEF RunPlaces, Lists
    <3> QED
        BY <1>1, <2>2, <2>3, <2>5, <3>1 DEF TypeOK
  <2>8. Places'
      BY <2>4, <2>5, <2>6, <2>7, PlacesAgain
  <2>9. Control'
      BY <1>1, <2>1, <2>3, ThreadsAssumption DEF Control
  <2>10. Waiting'
      BY <2>2, <2>3, WaitingStep
  <2> QED
      BY <2>7, <2>8, <2>9, <2>10 DEF KInv
<1> QED
    BY <1>3, <1>4 DEF UnlockAllTurn

\* Control changes hands, and nobody starts or stops waiting.
LEMMA SwitchOnly ==
    ASSUME KInv, Scheduled,
           \A u \in Threads : \A s \in Asleep : p_state'[u] = s <=> p_state[u] = s,
           UNCHANGED <<wtobjp, condVars, mutexVars, wanted>>,
           cursor' \in Threads \cup Conds \cup {None},
           p_prio' \in [Threads -> Nat], p_realprio' \in [Threads -> Nat]
    PROVE  KInv'
<1> USE DEF condVars, mutexVars
<1>1. /\ ready' \in Seq(Threads) /\ phase' \in Phases
      /\ "WTMTX" \in Asleep /\ "WTCOND" \in Asleep
    BY DEF Scheduled, RunPlaces, Lists, Phases, Asleep
<1>2. TypeOK'
    BY <1>1 DEF KInv, TypeOK, Scheduled
<1>3. QueuePlaces(Mutexes, m_queue', "WTMTX", p_state', wtobjp')
    BY <1>1, MutexesKept
<1>4. QueuePlaces(Conds, c_queue', "WTCOND", p_state', wtobjp')
    BY <1>1, CondsKept
<1>5. Places'
    BY <1>2, <1>3, <1>4, PlacesAgain
<1>6. Control'
  <2>1. p_state'[Idle] \notin Asleep
      BY ThreadsAssumption DEF KInv, Control, Asleep
  <2> QED
      BY <2>1, ScheduledControl DEF KInv, Control
<1>7. Waiting'
    BY <1>1 DEF KInv, Waiting
<1> QED
    BY <1>2, <1>5, <1>6, <1>7 DEF KInv

LEMMA UnlockAllEndStep ==
    ASSUME KInv, UnlockAllEnd
    PROVE  KInv'
<1> DEFINE pr == [p_prio EXCEPT ![currp] = p_realprio[currp]]
<1>1. /\ TypeOK /\ Places /\ RescheduleS(pr) /\ p_prio' = pr
      /\ UNCHANGED <<loopVars, p_realprio, wtobjp, condVars, mutexVars>>
    BY DEF UnlockAllEnd, KInv
<1>2. pr \in [Threads -> Nat]
    BY <1>1 DEF TypeOK
<1>3. /\ Scheduled
      /\ \A u \in Threads : \A s \in Asleep : p_state'[u] = s <=> p_state[u] = s
  <2> HIDE DEF pr
  <2> QED
      BY <1>1, <1>2, RescheduleStep
<1> QED
    BY <1>1, <1>2, <1>3, SwitchOnly DEF loopVars, TypeOK

-----------------------------------------------------------------------------
(* Condition variables.                                                      *)

\* A sleeping thread is put into the ready list.
LEMMA ReadyStep ==
    ASSUME KInv, NEW t \in Threads, p_state[t] \in Asleep, NEW pr \in [Threads -> Nat]
    PROVE  LET rdy == Insert(ready, pr, t)
               st == [p_state EXCEPT ![t] = "READY"]
           IN  /\ RunPlaces(rdy, st, currp)
               /\ rdy \in Seq(Threads) /\ st \in [Threads -> States]
               /\ \A u \in Threads : st[u] = IF u = t THEN "READY" ELSE p_state[u]
<1> DEFINE rdy == Insert(ready, pr, t)
           st == [p_state EXCEPT ![t] = "READY"]
<1>1. RunPlaces(ready, p_state, currp) /\ t # currp
    BY Runs DEF Asleep
<1>2. t \notin Members(ready) /\ ready \in Lists
    BY <1>1 DEF RunPlaces, Asleep
<1>3. rdy \in Lists /\ Members(rdy) = Members(ready) \cup {t}
    BY <1>2, InsertList
<1>4. /\ st \in [Threads -> States]
      /\ \A u \in Threads : st[u] = IF u = t THEN "READY" ELSE p_state[u]
    BY DEF KInv, TypeOK, States
<1>5. RunPlaces(rdy, st, currp)
  <2> HIDE DEF rdy, st
  <2> QED
      BY <1>1, <1>3, <1>4 DEF RunPlaces
<1> QED
    BY <1>3, <1>4, <1>5 DEF Lists

\* The running thread is put into the queue of a condition variable.
LEMMA CondSlept ==
    ASSUME KInv, NEW c \in Conds, NEW pr \in [Threads -> Nat],
           c_queue' = [c_queue EXCEPT ![c] = Insert(@, pr, currp)],
           p_state'[currp] = "WTCOND", wtobjp'[currp] = c,
           \A u \in Threads \ {currp} :
             /\ p_state'[u] = "WTCOND" <=> p_state[u] = "WTCOND"
             /\ p_state[u] = "WTCOND" => wtobjp'[u] = wtobjp[u]
    PROVE  /\ QueuePlaces(Conds, c_queue', "WTCOND", p_state', wtobjp')
           /\ c_queue' \in [Conds -> Seq(Threads)]
<1> DEFINE q == Insert(c_queue[c], pr, currp)
<1>1. /\ QueuePlaces(Conds, c_queue, "WTCOND", p_state, wtobjp)
      /\ currp \in Threads /\ p_state[currp] = "CURRENT"
      /\ currp \notin Members(c_queue[c])
    BY Runs
<1>2. q \in Lists /\ Members(q) = Members(c_queue[c]) \cup {currp}
    BY <1>1, InsertList DEF QueuePlaces
<1> HIDE DEF q
<1>3. \A x \in Conds : c_queue'[x] = IF x = c THEN q ELSE c_queue[x]
    BY DEF KInv, TypeOK, q
<1>4. \A t \in Threads : t \in Members(q) <=> p_state'[t] = "WTCOND" /\ wtobjp'[t] = c
    BY <1>1, <1>2 DEF QueuePlaces
<1>5. \A x \in Conds \ {c} : \A t \in Threads :
        t \in Members(c_queue[x]) <=> p_state'[t] = "WTCOND" /\ wtobjp'[t] = x
    BY <1>1 DEF QueuePlaces
<1>6. \A x \in Conds : c_queue[x] \in Lists
    BY <1>1 DEF QueuePlaces
<1>7. c_queue' \in [Conds -> Seq(Threads)]
    BY <1>2 DEF KInv, TypeOK, Lists, q
<1> QED
    BY <1>2, <1>3, <1>4, <1>5, <1>6, <1>7 DEF QueuePlaces

\* A timeout takes a thread out of the queue of a condition variable.
LEMMA CondRemoved ==
    ASSUME KInv, NEW t \in Threads, p_state[t] = "WTCOND",
           c_queue' = [c_queue EXCEPT ![wtobjp[t]] = Dequeue(@, t)],
           p_state'[t] # "WTCOND",
           \A u \in Threads \ {t} :
             /\ p_state'[u] = "WTCOND" <=> p_state[u] = "WTCOND"
             /\ p_state[u] = "WTCOND" => wtobjp'[u] = wtobjp[u]
    PROVE  /\ QueuePlaces(Conds, c_queue', "WTCOND", p_state', wtobjp')
           /\ c_queue' \in [Conds -> Seq(Threads)]
<1> DEFINE c == wtobjp[t]
           q == Dequeue(c_queue[c], t)
<1>1. QueuePlaces(Conds, c_queue, "WTCOND", p_state, wtobjp) /\ c \in Conds
    BY Runs DEF KInv, Waiting
<1>2. c_queue[c] \in Lists /\ t \in Members(c_queue[c])
    BY <1>1 DEF QueuePlaces
<1>3. q \in Lists /\ Members(q) = Members(c_queue[c]) \ {t}
    BY <1>2, DequeueList
<1>4. c_queue' = [c_queue EXCEPT ![c] = q]
    OBVIOUS
<1> HIDE DEF q
<1>5. \A x \in Conds : c_queue'[x] = IF x = c THEN q ELSE c_queue[x]
    BY <1>4 DEF KInv, TypeOK
<1>6. \A u \in Threads : u \in Members(q) <=> p_state'[u] = "WTCOND" /\ wtobjp'[u] = c
    BY <1>1, <1>3 DEF QueuePlaces
<1>7. \A x \in Conds \ {c} : \A u \in Threads :
        u \in Members(c_queue[x]) <=> p_state'[u] = "WTCOND" /\ wtobjp'[u] = x
    BY <1>1 DEF QueuePlaces
<1>8. \A x \in Conds : c_queue[x] \in Lists
    BY <1>1 DEF QueuePlaces
<1>9. c_queue' \in [Conds -> Seq(Threads)]
    BY <1>1, <1>3, <1>4 DEF KInv, TypeOK, Lists
<1> QED
    BY <1>1, <1>3, <1>5, <1>6, <1>7, <1>8, <1>9 DEF QueuePlaces

LEMMA chCondWaitStep ==
    ASSUME KInv, NEW c \in Conds, NEW timeout \in BOOLEAN, chCondWait(c, timeout)
    PROVE  KInv'
<1>1. /\ TypeOK /\ Places /\ Control /\ p_mtxlist[currp] # <<>>
      /\ phase = "user" /\ currp # Idle
      /\ relock' = [relock EXCEPT ![currp] = ump]
      /\ UNCHANGED <<loopVars, p_realprio>>
    BY CallerType DEF chCondWait, KInv
<1>2. /\ ump \in Mutexes /\ ump # None /\ Rest \in Seq(Mutexes) /\ c \in Conds
      /\ c \notin Mutexes /\ c # None
    BY <1>1, TopType, NoneIsNothing, ThreadsAssumption
<1>3. /\ relock' \in [Threads -> Mutexes \cup {None}]
      /\ relock'[Idle] = None
      /\ \A t \in Threads : relock'[t] = None => relock[t] = None
    BY <1>1, <1>2, ThreadsAssumption DEF TypeOK, Control
<1>4. /\ p_prio \in [Threads -> Nat] /\ p_state \in [Threads -> States]
      /\ "WTMTX" \in Asleep /\ "WTCOND" \in Asleep
    BY <1>1 DEF TypeOK, Asleep
<1>5. CASE /\ m_queue[ump] = <<>>
           /\ m_owner' = [m_owner EXCEPT ![ump] = None]
           /\ p_mtxlist' = [p_mtxlist EXCEPT ![currp] = Rest]
           /\ wtobjp' = [wtobjp EXCEPT ![currp] = c]
           /\ c_queue' = [c_queue EXCEPT ![c] = Insert(@, p_prio, currp)]
           /\ GoSleepS(ready, p_state, "WTCOND", timeout)
           /\ UNCHANGED <<m_queue, p_prio>>
  <2>1. /\ Scheduled
        /\ p_state'[currp] = "WTCOND"
        /\ \A t \in Threads \ {currp} : \A s \in Asleep : p_state'[t] = s <=> p_state[t] = s
      BY <1>1, <1>4, <1>5, Runs, GoSleepStep
  <2>2. /\ m_owner' \in [Mutexes -> Threads \cup {None}]
        /\ \A m \in Mutexes : m_owner'[m] = None => m_owner[m] = None \/ m_queue[m] = <<>>
        /\ p_mtxlist' \in [Threads -> Seq(Mutexes)]
        /\ wtobjp' \in [Threads -> Mutexes \cup Conds \cup {None}]
        /\ wtobjp'[currp] = c
        /\ \A u \in Threads \ {currp} : wtobjp'[u] = wtobjp[u]
      BY <1>1, <1>2, <1>5 DEF TypeOK
  <2>3. /\ QueuePlaces(Conds, c_queue', "WTCOND", p_state', wtobjp')
        /\ c_queue' \in [Conds -> Seq(Threads)]
      BY <1>4, <1>5, <2>1, <2>2, CondSlept
  <2>4. QueuePlaces(Mutexes, m_queue', "WTMTX", p_state', wtobjp')
      BY <1>4, <1>5, <2>1, <2>2, Runs, MutexesKept
  <2>5. TypeOK'
    <3>1. ready' \in Seq(Threads)
        BY <2>1 DEF Scheduled, RunPlaces, Lists
    <3> QED
        BY <1>1, <1>3, <1>5, <2>1, <2>2, <2>3, <3>1 DEF TypeOK, Scheduled, Phases, loopVars
  <2>6. Places'
      BY <2>1, <2>3, <2>4, <2>5, PlacesAgain
  <2>7. Control'
    <3>1. p_state'[Idle] \notin Asleep
        BY <1>1, <2>1, ThreadsAssumption DEF Asleep, Control
    <3> QED
        BY <1>1, <1>3, <2>1, <3>1, ScheduledControl
  <2>8. Waiting'
      BY <1>4, <2>1, <2>2, WaitingStep
  <2> QED
      BY <2>5, <2>6, <2>7, <2>8 DEF KInv
<1>6. CASE /\ m_queue[ump] # <<>>
           /\ m_owner' = [m_owner EXCEPT ![ump] = Head(m_queue[ump])]
           /\ m_queue' = [m_queue EXCEPT ![ump] = Tail(@)]
           /\ p_mtxlist' = [p_mtxlist EXCEPT ![currp] = Rest,
                                             ![Head(m_queue[ump])] = <<ump>> \o @]
           /\ p_prio' = Lowered
           /\ wtobjp' = [wtobjp EXCEPT ![currp] = c, ![Head(m_queue[ump])] = None]
           /\ c_queue' = [c_queue EXCEPT ![c] = Insert(@, Lowered, currp)]
           /\ GoSleepS(Insert(ready, Lowered, Head(m_queue[ump])),
                       [p_state EXCEPT ![Head(m_queue[ump])] = "READY"], "WTCOND", timeout)
  <2> DEFINE tp == Head(m_queue[ump])
             rdy == Insert(ready, Lowered, tp)
             st == [p_state EXCEPT ![tp] = "READY"]
  <2>1. /\ tp \in Threads /\ tp # currp /\ tp # Idle /\ p_state[tp] = "WTMTX"
      BY <1>2, <1>6, FirstWaiter
  <2>2. Lowered \in [Threads -> Nat]
      BY <1>1, LoweredType
  <2>3. /\ RunPlaces(rdy, st, currp) /\ st \in [Threads -> States]
        /\ \A u \in Threads : st[u] = IF u = tp THEN "READY" ELSE p_state[u]
    <3> HIDE DEF tp
    <3> QED
        BY <1>4, <2>1, <2>2, ReadyStep
  <2>4. GoSleepS(rdy, st, "WTCOND", timeout) /\ st[Idle] = "READY"
    <3>1. p_state[Idle] = "READY" /\ Idle \in Threads
        BY <1>1, Runs, ThreadsAssumption
    <3> QED
        BY <1>6, <2>1, <2>3, <3>1
  <2>5. /\ Scheduled
        /\ p_state'[currp] = "WTCOND"
        /\ \A u \in Threads \ {currp} : \A s \in Asleep : p_state'[u] = s <=> st[u] = s
    <3> HIDE DEF rdy, st
    <3> QED
        BY <1>1, <1>4, <2>3, <2>4, GoSleepStep
  <2>6. /\ p_state'[tp] \notin Asleep
        /\ \A u \in Threads \ {currp, tp} : \A s \in Asleep : p_state'[u] = s <=> p_state[u] = s
    <3> HIDE DEF st
    <3> QED
        BY <2>1, <2>3, <2>5 DEF Asleep
  <2> HIDE DEF rdy, st
  <2>7. /\ m_owner' \in [Mutexes -> Threads \cup {None}]
        /\ \A m \in Mutexes : m_owner'[m] = None => m_owner[m] = None
        /\ wtobjp' \in [Threads -> Mutexes \cup Conds \cup {None}]
        /\ wtobjp'[currp] = c
        /\ \A u \in Threads \ {currp, tp} : wtobjp'[u] = wtobjp[u]
      BY <1>1, <1>2, <1>6, <2>1, NoneIsNothing DEF TypeOK
  <2>8. p_mtxlist' \in [Threads -> Seq(Mutexes)]
    <3>1. <<ump>> \o p_mtxlist[tp] \in Seq(Mutexes)
        BY <1>1, <1>2, <2>1, PushMembers DEF TypeOK
    <3>2. p_mtxlist' = [p_mtxlist EXCEPT ![currp] = Rest, ![tp] = <<ump>> \o p_mtxlist[tp]]
        BY <1>6, <2>1 DEF TypeOK
    <3> QED
        BY <1>1, <1>2, <2>1, <3>1, <3>2 DEF TypeOK
  <2>9. \A u \in Threads \ {currp} :
          /\ p_state'[u] = "WTCOND" <=> p_state[u] = "WTCOND"
          /\ p_state[u] = "WTCOND" => wtobjp'[u] = wtobjp[u]
      BY <1>4, <2>1, <2>6, <2>7
  <2>10. p_state'[currp] # "WTMTX" /\ p_state[currp] = "CURRENT" /\ currp \in Threads
      BY <2>5, Runs
  <2>11. \A u \in Threads \ {tp} :
          /\ p_state'[u] = "WTMTX" <=> p_state[u] = "WTMTX"
          /\ p_state[u] = "WTMTX" => wtobjp'[u] = wtobjp[u]
      BY <1>4, <2>6, <2>7, <2>10
  <2>12. /\ QueuePlaces(Conds, c_queue', "WTCOND", p_state', wtobjp')
         /\ c_queue' \in [Conds -> Seq(Threads)]
      BY <1>6, <2>2, <2>5, <2>7, <2>9, CondSlept
  <2>13. /\ QueuePlaces(Mutexes, m_queue', "WTMTX", p_state', wtobjp')
         /\ m_queue' \in [Mutexes -> Seq(Threads)]
      BY <1>2, <1>4, <1>6, <2>6, <2>11, MutexPopped
  <2>14. TypeOK'
    <3>1. ready' \in Seq(Threads)
        BY <2>5 DEF Scheduled, RunPlaces, Lists
    <3> QED
        BY <1>1, <1>3, <1>6, <2>2, <2>5, <2>7, <2>8, <2>12, <2>13, <3>1
           DEF TypeOK, Scheduled, Phases, loopVars
  <2>15. Places'
      BY <2>5, <2>12, <2>13, <2>14, PlacesAgain
  <2>16. Control'
    <3>1. p_state'[Idle] \notin Asleep
        BY <1>1, <2>1, <2>6, ThreadsAssumption DEF Asleep, Control
    <3> QED
        BY <1>1, <1>3, <2>5, <3>1, ScheduledControl
  <2>17. Waiting'
    <3>1. \A u \in Threads : p_state'[u] = "WTMTX" =>
             p_state[u] = "WTMTX" /\ wtobjp'[u] = wtobjp[u]
        BY <1>4, <2>6, <2>10, <2>11
    <3>2. \A u \in Threads : p_state'[u] = "WTCOND" =>
             (p_state[u] = "WTCOND" /\ wtobjp'[u] = wtobjp[u]) \/ wtobjp'[u] \in Conds
        BY <1>2, <2>7, <2>9
    <3> QED
        BY <2>7, <3>1, <3>2, WaitingStep
  <2> QED
      BY <2>14, <2>15, <2>16, <2>17 DEF KInv
<1> QED
    BY <1>5, <1>6 DEF chCondWait

\* The second half of chCondWaitS.
LEMMA RelockStep ==
    ASSUME KInv, Relock
    PROVE  KInv'
<1>1. /\ phase = "relock" /\ LockS(relock[currp])
      /\ relock' = [relock EXCEPT ![currp] = None]
      /\ UNCHANGED <<currp, ready, prioVars, procVars, wtobjp, c_queue>>
    BY DEF Relock
<1>2. /\ currp \in Threads /\ currp # Idle /\ relock[currp] \in Mutexes
    BY <1>1 DEF KInv, TypeOK, Control
<1>3. relock' \in [Threads -> Mutexes \cup {None}] /\ relock'[Idle] = None
    BY <1>1, <1>2, ThreadsAssumption DEF KInv, TypeOK, Control
<1> QED
    BY <1>1, <1>2, <1>3, LockStep

\* The first thread in the queue of c becomes ready and does not run yet.
LEMMA SignalledReady ==
    ASSUME KInv, NEW c \in Conds, Signalled(c),
           ready' = Insert(ready, p_prio, Head(c_queue[c])),
           p_state' = [p_state EXCEPT ![Head(c_queue[c])] = "READY"],
           UNCHANGED <<currp, phase, loopVars, prioVars, p_preempt, timed, relock, mutexVars>>
    PROVE  KInv'
<1> DEFINE tp == Head(c_queue[c])
<1> USE DEF loopVars, prioVars, mutexVars
<1>1. /\ TypeOK /\ Control /\ p_prio \in [Threads -> Nat]
      /\ c_queue[c] # <<>>
      /\ c_queue' = [c_queue EXCEPT ![c] = Tail(@)]
      /\ wtobjp' = [wtobjp EXCEPT ![tp] = None]
    BY DEF Signalled, KInv, TypeOK
<1>2. tp \in Threads /\ tp # Idle /\ tp # currp /\ p_state[tp] = "WTCOND"
    BY <1>1, FirstSignalled
<1>3. /\ RunPlaces(ready', p_state', currp')
      /\ ready' \in Seq(Threads) /\ p_state' \in [Threads -> States]
      /\ \A u \in Threads : p_state'[u] = IF u = tp THEN "READY" ELSE p_state[u]
  <2>1. p_state[tp] \in Asleep
      BY <1>2 DEF Asleep
  <2>2. LET rdy == Insert(ready, p_prio, tp)
            st == [p_state EXCEPT ![tp] = "READY"]
        IN  /\ RunPlaces(rdy, st, currp)
            /\ rdy \in Seq(Threads) /\ st \in [Threads -> States]
            /\ \A u \in Threads : st[u] = IF u = tp THEN "READY" ELSE p_state[u]
    <3> HIDE DEF tp
    <3> QED
        BY <1>1, <1>2, <2>1, ReadyStep
  <2> QED
      BY <2>2
<1>4. /\ wtobjp' \in [Threads -> Mutexes \cup Conds \cup {None}]
      /\ \A u \in Threads \ {tp} : wtobjp'[u] = wtobjp[u]
    BY <1>1, <1>2 DEF TypeOK
<1>5. /\ QueuePlaces(Conds, c_queue', "WTCOND", p_state', wtobjp')
      /\ c_queue' \in [Conds -> Seq(Threads)]
    BY <1>1, <1>2, <1>3, <1>4, CondPopped
<1>6. QueuePlaces(Mutexes, m_queue', "WTMTX", p_state', wtobjp')
    BY <1>2, <1>3, <1>4, MutexesKept
<1>7. TypeOK'
    BY <1>1, <1>3, <1>4, <1>5 DEF TypeOK
<1>8. Places'
    BY <1>3, <1>5, <1>6, <1>7, PlacesAgain
<1>9. Control'
    BY <1>1, <1>2, <1>3, ThreadsAssumption DEF Control
<1>10. Waiting'
    BY <1>2, <1>3, <1>4, WaitingStep
<1> QED
    BY <1>7, <1>8, <1>9, <1>10 DEF KInv

LEMMA chCondSignalIStep ==
    ASSUME KInv, NEW c \in Conds, chCondSignalI(c)
    PROVE  KInv'
BY SignalledReady DEF chCondSignalI

LEMMA BroadcastTurnStep ==
    ASSUME KInv, BroadcastTurn
    PROVE  KInv'
<1>1. cursor \in Conds
    BY DEF BroadcastTurn, KInv, Control
<1> QED
    BY <1>1, SignalledReady DEF BroadcastTurn

LEMMA chCondBroadcastStep ==
    ASSUME KInv, NEW c \in Conds, chCondBroadcast(c)
    PROVE  KInv'
<1>1. /\ TypeOK /\ Control /\ currp # Idle /\ phase' = "cast" /\ cursor' = c
      /\ UNCHANGED <<currp, ready, wanted, prioVars, procVars, wtobjp, condVars, mutexVars>>
    BY CallerType DEF chCondBroadcast, KInv
<1>2. Control'
    BY <1>1 DEF Control, procVars, condVars
<1> QED
    BY <1>1, <1>2, ControlOnly DEF procVars, Phases, TypeOK

LEMMA chCondSignalStep ==
    ASSUME KInv, NEW c \in Conds, chCondSignal(c)
    PROVE  KInv'
<1> DEFINE tp == Head(c_queue[c])
<1> USE DEF loopVars, prioVars, mutexVars
<1>1. /\ TypeOK /\ Places /\ Control /\ p_prio \in [Threads -> Nat]
      /\ c_queue[c] # <<>>
      /\ c_queue' = [c_queue EXCEPT ![c] = Tail(@)]
      /\ wtobjp' = [wtobjp EXCEPT ![tp] = None]
      /\ WakeupS(tp, p_prio)
      /\ UNCHANGED <<loopVars, prioVars, relock, mutexVars>>
    BY DEF chCondSignal, Signalled, KInv, TypeOK
<1>2. tp \in Threads /\ tp # Idle /\ tp # currp /\ p_state[tp] = "WTCOND"
    BY <1>1, FirstSignalled
<1>3. /\ Scheduled
      /\ p_state'[tp] \notin Asleep
      /\ \A u \in Threads \ {tp} : \A s \in Asleep : p_state'[u] = s <=> p_state[u] = s
  <2>1. p_state[tp] \in Asleep
      BY <1>2 DEF Asleep
  <2> QED
      BY <1>1, <1>2, <2>1, WakeupStep
<1>4. /\ wtobjp' \in [Threads -> Mutexes \cup Conds \cup {None}]
      /\ \A u \in Threads \ {tp} : wtobjp'[u] = wtobjp[u]
    BY <1>1, <1>2 DEF TypeOK
<1>5. /\ QueuePlaces(Conds, c_queue', "WTCOND", p_state', wtobjp')
      /\ c_queue' \in [Conds -> Seq(Threads)]
    BY <1>1, <1>3, <1>4, CondPopped DEF Asleep
<1>6. QueuePlaces(Mutexes, m_queue', "WTMTX", p_state', wtobjp')
    BY <1>1, <1>2, <1>3, <1>4, MutexesKept DEF Asleep
<1>7. TypeOK'
  <2>1. ready' \in Seq(Threads)
      BY <1>3 DEF Scheduled, RunPlaces, Lists
  <2> QED
      BY <1>1, <1>3, <1>4, <1>5, <2>1 DEF TypeOK, Scheduled, Phases
<1>8. Places'
    BY <1>3, <1>5, <1>6, <1>7, PlacesAgain
<1>9. Control'
  <2>1. p_state'[Idle] \notin Asleep
      BY <1>1, <1>2, <1>3, ThreadsAssumption DEF Asleep, Control
  <2> QED
      BY <1>1, <1>3, <2>1, ScheduledControl DEF Control
<1>10. Waiting'
    BY <1>1, <1>2, <1>3, <1>4, WaitingStep DEF Asleep
<1> QED
    BY <1>7, <1>8, <1>9, <1>10 DEF KInv

LEMMA BroadcastEndStep ==
    ASSUME KInv, BroadcastEnd
    PROVE  KInv'
<1>1. /\ TypeOK /\ Places /\ RescheduleS(p_prio) /\ cursor' = None
      /\ UNCHANGED <<wanted, prioVars, wtobjp, condVars, mutexVars>>
      /\ p_prio \in [Threads -> Nat] /\ p_realprio \in [Threads -> Nat]
    BY DEF BroadcastEnd, KInv, TypeOK
<1>2. /\ Scheduled
      /\ \A u \in Threads : \A s \in Asleep : p_state'[u] = s <=> p_state[u] = s
    BY <1>1, RescheduleStep
<1> QED
    BY <1>1, <1>2, SwitchOnly DEF prioVars

-----------------------------------------------------------------------------
(* Threads and interrupts.                                                   *)

LEMMA chThdSetPriorityStep ==
    ASSUME KInv, NEW newprio \in Prios, chThdSetPriority(newprio)
    PROVE  KInv'
<1> DEFINE pr == IF p_prio[currp] = p_realprio[currp] \/ newprio > p_prio[currp]
                 THEN [p_prio EXCEPT ![currp] = newprio] ELSE p_prio
<1>1. /\ TypeOK /\ Places /\ RescheduleS(pr) /\ p_prio' = pr
      /\ p_realprio' = [p_realprio EXCEPT ![currp] = newprio]
      /\ UNCHANGED <<loopVars, wtobjp, condVars, mutexVars>>
    BY DEF chThdSetPriority, KInv
<1>2. pr \in [Threads -> Nat] /\ p_realprio' \in [Threads -> Nat]
    BY <1>1, PriorityAssumption DEF TypeOK
<1>3. /\ Scheduled
      /\ \A u \in Threads : \A s \in Asleep : p_state'[u] = s <=> p_state[u] = s
  <2> HIDE DEF pr
  <2> QED
      BY <1>1, <1>2, RescheduleStep
<1> QED
    BY <1>1, <1>2, <1>3, SwitchOnly DEF loopVars, TypeOK

LEMMA chThdSleepStep ==
    ASSUME KInv, NEW timeout \in BOOLEAN, chThdSleep(timeout)
    PROVE  KInv'
<1> USE DEF loopVars, prioVars, condVars, mutexVars
<1>1. /\ TypeOK /\ Control /\ currp # Idle
      /\ GoSleepS(ready, p_state, "SLEEPING", timeout)
      /\ UNCHANGED <<loopVars, prioVars, wtobjp, condVars, mutexVars>>
      /\ p_state \in [Threads -> States]
      /\ "WTMTX" \in Asleep /\ "WTCOND" \in Asleep /\ "SLEEPING" \in Asleep
    BY CallerType DEF chThdSleep, KInv, TypeOK, Asleep
<1>2. /\ Scheduled
      /\ p_state'[currp] = "SLEEPING"
      /\ \A t \in Threads \ {currp} : \A s \in Asleep : p_state'[t] = s <=> p_state[t] = s
    BY <1>1, Runs, GoSleepStep
<1>3. \A u \in Threads : /\ p_state'[u] = "WTMTX" <=> p_state[u] = "WTMTX"
                         /\ p_state'[u] = "WTCOND" <=> p_state[u] = "WTCOND"
    BY <1>1, <1>2, Runs
<1>4. /\ QueuePlaces(Mutexes, m_queue', "WTMTX", p_state', wtobjp')
      /\ QueuePlaces(Conds, c_queue', "WTCOND", p_state', wtobjp')
    BY <1>1, <1>3, MutexesKept, CondsKept
<1>5. TypeOK'
  <2>1. ready' \in Seq(Threads)
      BY <1>2 DEF Scheduled, RunPlaces, Lists
  <2> QED
      BY <1>1, <1>2, <2>1 DEF TypeOK, Scheduled, Phases
<1>6. Places'
    BY <1>2, <1>4, <1>5, PlacesAgain
<1>7. Control'
  <2>1. p_state'[Idle] \notin Asleep
      BY <1>1, <1>2, ThreadsAssumption DEF Asleep, Control
  <2> QED
      BY <1>1, <1>2, <2>1, ScheduledControl DEF Control
<1>8. Waiting'
    BY <1>1, <1>3 DEF KInv, Waiting
<1> QED
    BY <1>5, <1>6, <1>7, <1>8 DEF KInv

LEMMA chThdYieldStep ==
    ASSUME KInv, chThdYield
    PROVE  KInv'
<1>1. /\ TypeOK /\ Places /\ currp # Idle /\ DoRescheduleBehind
      /\ UNCHANGED <<loopVars, prioVars, wtobjp, condVars, mutexVars>>
      /\ p_prio \in [Threads -> Nat] /\ p_realprio \in [Threads -> Nat]
    BY CallerType DEF chThdYield, KInv, TypeOK
<1>2. ready # <<>>
  <2>1. ready \in Lists /\ Idle \in Members(ready)
      BY <1>1, Runs, ThreadsAssumption DEF RunPlaces
  <2> QED
      BY <2>1, EmptyMembers
<1>3. /\ Scheduled
      /\ \A u \in Threads : \A s \in Asleep : p_state'[u] = s <=> p_state[u] = s
    BY <1>1, <1>2, SwapStep
<1> QED
    BY <1>1, <1>3, SwitchOnly DEF loopVars, prioVars, TypeOK

LEMMA chSysTimerHandlerIStep ==
    ASSUME KInv, chSysTimerHandlerI
    PROVE  KInv'
<1> USE DEF loopVars
<1>1. /\ TypeOK /\ Control /\ phase' = "isr"
      /\ p_preempt' = [p_preempt EXCEPT ![currp] = IF @ > 0 THEN @ - 1 ELSE 0]
      /\ UNCHANGED <<currp, ready, loopVars, prioVars, p_state, timed, wtobjp, condVars, mutexVars>>
    BY DEF chSysTimerHandlerI, KInv
<1>2. p_preempt' \in [Threads -> 0 .. Quantum]
    BY <1>1, QuantumAssumption DEF TypeOK
<1>3. Control'
    BY <1>1 DEF Control, condVars
<1> QED
    BY <1>1, <1>2, <1>3, ControlOnly DEF Phases, TypeOK

LEMMA wakeupStep ==
    ASSUME KInv, NEW t \in Users, wakeup(t)
    PROVE  KInv'
<1> USE DEF loopVars, prioVars, mutexVars
<1>1. /\ TypeOK /\ Control /\ p_prio \in [Threads -> Nat]
      /\ t \in Threads /\ t # Idle /\ phase = "isr"
      /\ timed' = [timed EXCEPT ![t] = FALSE]
      /\ UNCHANGED <<currp, phase, loopVars, prioVars, p_preempt, mutexVars>>
      /\ timed' \in [Threads -> BOOLEAN]
    BY DEF wakeup, KInv, TypeOK, Users
<1>2. CASE UNCHANGED <<ready, p_state, wtobjp, relock, c_queue>>
  <2>1. TypeOK'
      BY <1>1, <1>2 DEF TypeOK
  <2>2. Places'
      BY <1>1, <1>2 DEF KInv, Places, Members, Distinct
  <2>3. Control' /\ Waiting'
      BY <1>1, <1>2 DEF KInv, Control, Waiting
  <2> QED
      BY <2>1, <2>2, <2>3 DEF KInv
<1>3. CASE /\ wtobjp' = [wtobjp EXCEPT ![t] = None]
           /\ ready' = Insert(ready, p_prio, t)
           /\ p_state' = [p_state EXCEPT ![t] = "READY"]
           /\ \/ p_state[t] = "SLEEPING" /\ UNCHANGED <<relock, c_queue>>
              \/ /\ p_state[t] = "WTCOND"
                 /\ c_queue' = [c_queue EXCEPT ![wtobjp[t]] = Dequeue(@, t)]
                 /\ relock' = [relock EXCEPT ![t] = None]
  <2>1. p_state[t] \in Asleep /\ p_state[t] # "WTMTX"
      BY <1>3 DEF Asleep
  <2>2. /\ RunPlaces(ready', p_state', currp')
        /\ ready' \in Seq(Threads) /\ p_state' \in [Threads -> States]
        /\ \A u \in Threads : p_state'[u] = IF u = t THEN "READY" ELSE p_state[u]
      BY <1>1, <1>3, <2>1, ReadyStep
  <2>3. /\ wtobjp' \in [Threads -> Mutexes \cup Conds \cup {None}]
        /\ \A u \in Threads \ {t} : wtobjp'[u] = wtobjp[u]
        /\ relock' \in [Threads -> Mutexes \cup {None}]
        /\ relock'[Idle] = None
      BY <1>1, <1>3, ThreadsAssumption DEF TypeOK, Control
  <2>4. QueuePlaces(Mutexes, m_queue', "WTMTX", p_state', wtobjp')
      BY <1>1, <2>1, <2>2, <2>3, MutexesKept
  <2>5. /\ QueuePlaces(Conds, c_queue', "WTCOND", p_state', wtobjp')
        /\ c_queue' \in [Conds -> Seq(Threads)]
    <3>1. CASE p_state[t] = "WTCOND"
        BY <1>1, <1>3, <2>2, <2>3, <3>1, CondRemoved
    <3>2. CASE p_state[t] = "SLEEPING"
      <4>1. c_queue' = c_queue /\ c_queue' \in [Conds -> Seq(Threads)]
          BY <1>1, <1>3, <3>2 DEF TypeOK
      <4> QED
          BY <2>2, <2>3, <3>2, <4>1, CondsKept
    <3> QED
        BY <1>3, <3>1, <3>2
  <2>6. TypeOK'
      BY <1>1, <2>2, <2>3, <2>5 DEF TypeOK
  <2>7. Places'
      BY <2>2, <2>4, <2>5, <2>6, PlacesAgain
  <2>8. Control'
      BY <1>1, <2>2, <2>3, ThreadsAssumption DEF Control
  <2>9. Waiting'
      BY <1>1, <2>2, <2>3, WaitingStep
  <2> QED
      BY <2>6, <2>7, <2>8, <2>9 DEF KInv
<1> QED
    BY <1>2, <1>3 DEF wakeup

LEMMA IsrEpilogueStep ==
    ASSUME KInv, IsrEpilogue
    PROVE  KInv'
<1>1. /\ TypeOK /\ Places
      /\ UNCHANGED <<loopVars, prioVars, wtobjp, condVars, mutexVars>>
      /\ p_prio \in [Threads -> Nat] /\ p_realprio \in [Threads -> Nat]
    BY DEF IsrEpilogue, KInv, TypeOK
<1>2. CASE ready # <<>> /\ (DoRescheduleAhead(p_prio) \/ DoRescheduleBehind)
    BY <1>1, <1>2, SwapStep, SwitchOnly DEF loopVars, prioVars, TypeOK
<1>3. CASE Stay /\ UNCHANGED <<ready, p_state, p_preempt>>
  <2>1. Control'
      BY <1>3, <1>1 DEF KInv, Control, Stay, condVars
  <2> QED
      BY <1>1, <1>3, <2>1, ControlOnly DEF Stay, Phases, loopVars, TypeOK
<1> QED
    BY <1>2, <1>3 DEF IsrEpilogue

-----------------------------------------------------------------------------
(* The initial states.  order lists as many threads as there are, and all of *)
(* them, hence each once.                                                    *)

LEMMA KInitial == Init => KInv
<1> SUFFICES ASSUME Init PROVE KInv
    OBVIOUS
<1> DEFINE N == Cardinality(Threads)
<1>1. N \in Nat /\ N # 0
    BY FS_CardinalityType, FS_EmptySet, ThreadsAssumption
<1>2. PICK order \in [1 .. N -> Threads] :
        /\ Members(order) = Threads
        /\ currp = order[1]
        /\ ready = Tail(order)
    BY DEF Init
<1>3. order \in Seq(Threads) /\ Len(order) = N
    BY <1>1, <1>2
<1>4. Distinct(order)
  <2>1. order \in Surjection(1 .. N, Threads)
      BY <1>2, <1>3 DEF Surjection, Members
  <2>2. IsFiniteSet(1 .. N) /\ Cardinality(1 .. N) = N
      BY <1>1, FS_Interval
  <2>3. order \in Injection(1 .. N, Threads)
    <3> HIDE DEF N
    <3> QED
        BY <2>1, <2>2, FS_Surjection DEF N
  <2> QED
      BY <1>3, <2>3 DEF Injection, IsInjective, Distinct
<1>5. order \in Lists /\ order # <<>> /\ Head(order) = currp
    BY <1>1, <1>2, <1>3, <1>4 DEF Lists
<1>6. ready \in Lists /\ Members(ready) = Threads \ {currp} /\ currp \in Threads
    BY <1>2, <1>5, TailList
<1> USE DEF Init
<1>7. TypeOK
  <2>1. p_prio \in [Threads -> Nat] /\ p_realprio \in [Threads -> Nat]
      BY PriorityAssumption
  <2>2. p_preempt \in [Threads -> 0 .. Quantum]
      BY QuantumType
  <2>3. p_mtxlist \in [Threads -> Seq(Mutexes)] /\ c_queue \in [Conds -> Seq(Threads)]
        /\ m_queue \in [Mutexes -> Seq(Threads)]
    OBVIOUS
  <2> QED
      BY <1>6, <2>1, <2>2, <2>3 DEF TypeOK, Lists, Phases, States
<1>8. Places
  <2>1. /\ RunPlaces(ready, p_state, currp)
        /\ QueuePlaces(Mutexes, m_queue, "WTMTX", p_state, wtobjp)
        /\ QueuePlaces(Conds, c_queue, "WTCOND", p_state, wtobjp)
      BY <1>6, EmptyMembers DEF RunPlaces, QueuePlaces
  <2> QED
      BY <1>7, <2>1, PlacesParts
<1>9. Control /\ Waiting
    BY ThreadsAssumption DEF Control, Waiting
<1> QED
    BY <1>7, <1>8, <1>9 DEF KInv

LEMMA KStep == KInv /\ [Next]_vars => KInv'
<1> SUFFICES ASSUME KInv, [Next]_vars PROVE KInv'
    OBVIOUS
<1>1. CASE KernelStep
    BY <1>1, BoostStep, SleepOnMutexStep, UnlockAllTurnStep, UnlockAllEndStep, RelockStep,
       BroadcastTurnStep, BroadcastEndStep, IsrEpilogueStep DEF KernelStep
<1>2. CASE ThreadCall
    BY <1>2, chMtxLockStep, chMtxTryLockStep, chMtxUnlockStep, UnlockAllBeginStep,
       chCondWaitStep, chCondSignalStep, chCondBroadcastStep, chThdSetPriorityStep,
       chThdSleepStep, chThdYieldStep DEF ThreadCall
<1>3. CASE Interrupt
    BY <1>3, chSysTimerHandlerIStep, wakeupStep, chCondSignalIStep DEF Interrupt
<1>4. CASE UNCHANGED vars
  <2> USE <1>4 DEF vars, loopVars, prioVars, procVars, condVars, mutexVars
  <2>1. TypeOK'
      BY DEF KInv, TypeOK
  <2>2. Places'
      BY DEF KInv, Places, Members, Distinct
  <2>3. Control' /\ Waiting'
      BY DEF KInv, Control, Waiting
  <2> QED
      BY <2>1, <2>2, <2>3 DEF KInv
<1> QED
    BY <1>1, <1>2, <1>3, <1>4 DEF Next

\* The inductive invariant holds in every reachable state.
THEOREM KInvCorrect == Spec => []KInv
<1>1. Init => KInv
    BY KInitial
<1>2. KInv /\ [Next]_vars => KInv'
    BY KStep
<1> QED
    BY <1>1, <1>2, PTL DEF Spec

\* The kernel's records stay within their types: the quantum counter does not
\* underflow, the loop of chMtxLockS follows owners that exist, every list holds
\* threads and every stack mutexes, for any number of them and any priorities.
THEOREM KernelTypes == Spec => []TypeOK
<1>1. KInv => TypeOK
    BY DEF KInv
<1> QED
    BY <1>1, KInvCorrect, PTL

\* Every thread is in exactly the list its state names, and once, between any two
\* steps of any calls: a timeout, a signal, the requeueing of the inheritance loop
\* and the handing over of a mutex never lose a thread or list it twice.
THEOREM ThreadsInPlace == Spec => []Places
<1>1. KInv => Places
    BY DEF KInv
<1> QED
    BY <1>1, KInvCorrect, PTL

-----------------------------------------------------------------------------
(* The two records of who owns a mutex.  Given KInv they are inductive: a    *)
(* mutex is pushed by nobody who has it already, since it is free then, or   *)
(* its first waiter is not the thread that gives it away.                    *)

\* The mutex on top of the stack is the running thread's, and only its.
LEMMA TopOwned ==
    ASSUME KInv, OwnersAgree, p_mtxlist[currp] # <<>>
    PROVE  /\ currp \in Threads /\ ump \in Mutexes /\ m_owner[ump] = currp
           /\ Rest \in Seq(Mutexes) /\ Distinct(Rest)
           /\ Members(Rest) = Members(p_mtxlist[currp]) \ {ump}
           /\ \A t \in Threads \ {currp} : ump \notin Members(p_mtxlist[t])
<1>1. currp \in Threads /\ p_mtxlist[currp] \in Seq(Mutexes)
    BY DEF KInv, TypeOK
<1>2. Distinct(p_mtxlist[currp])
    BY <1>1 DEF OwnersAgree
<1>3. /\ ump \in Mutexes /\ ump \in Members(p_mtxlist[currp])
      /\ Rest \in Seq(Mutexes) /\ Distinct(Rest)
      /\ Members(Rest) = Members(p_mtxlist[currp]) \ {ump}
    BY <1>1, <1>2, TailMembers DEF ump, Rest
<1> QED
    BY <1>1, <1>3 DEF OwnersAgree

LEMMA OwnAgree ==
    ASSUME KInv, OwnersAgree, NEW m \in Mutexes, m_owner[m] = None, Own(currp, m)
    PROVE  OwnersAgree'
<1> DEFINE new == <<m>> \o p_mtxlist[currp]
<1>1. currp \in Threads /\ p_mtxlist[currp] \in Seq(Mutexes) /\ currp # None
    BY NoneIsNothing DEF KInv, TypeOK
<1>2. \A t \in Threads : m \notin Members(p_mtxlist[t])
    BY NoneIsNothing DEF OwnersAgree
<1>3. Distinct(p_mtxlist[currp])
    BY <1>1 DEF OwnersAgree
<1>4. Distinct(new) /\ Members(new) = Members(p_mtxlist[currp]) \cup {m}
    BY <1>1, <1>2, <1>3, PushMembers
<1>5. /\ \A t \in Threads : p_mtxlist'[t] = IF t = currp THEN new ELSE p_mtxlist[t]
      /\ \A n \in Mutexes : m_owner'[n] = IF n = m THEN currp ELSE m_owner[n]
    BY DEF Own, KInv, TypeOK
<1> HIDE DEF new
<1>6. \A t \in Threads : Distinct(p_mtxlist'[t])
    BY <1>4, <1>5 DEF OwnersAgree
<1>7. \A n \in Mutexes, t \in Threads : m_owner'[n] = t <=> n \in Members(p_mtxlist'[t])
    BY <1>1, <1>2, <1>4, <1>5 DEF OwnersAgree
<1> QED
    BY <1>6, <1>7 DEF OwnersAgree, Distinct, Members

LEMMA DropAgree ==
    ASSUME KInv, OwnersAgree, p_mtxlist[currp] # <<>>,
           m_owner' = [m_owner EXCEPT ![ump] = None],
           p_mtxlist' = [p_mtxlist EXCEPT ![currp] = Rest]
    PROVE  OwnersAgree'
<1>1. /\ \A t \in Threads : p_mtxlist'[t] = IF t = currp THEN Rest ELSE p_mtxlist[t]
      /\ \A n \in Mutexes : m_owner'[n] = IF n = ump THEN None ELSE m_owner[n]
    BY DEF KInv, TypeOK
<1>2. \A t \in Threads : Distinct(p_mtxlist'[t])
    BY <1>1, TopOwned DEF OwnersAgree
<1>3. \A n \in Mutexes, t \in Threads : m_owner'[n] = t <=> n \in Members(p_mtxlist'[t])
    BY <1>1, TopOwned, NoneIsNothing DEF OwnersAgree
<1> QED
    BY <1>2, <1>3 DEF OwnersAgree, Distinct, Members

LEMMA HandedAgree ==
    ASSUME OwnersAgree, NEW m \in Mutexes, NEW tp \in Threads, NEW rest, NEW new,
           currp \in Threads, tp # currp, m_owner[m] = currp,
           Distinct(rest), Members(rest) = Members(p_mtxlist[currp]) \ {m},
           Distinct(new), Members(new) = Members(p_mtxlist[tp]) \cup {m},
           \A t \in Threads \ {currp} : m \notin Members(p_mtxlist[t]),
           \A t \in Threads : p_mtxlist'[t] = IF t = tp THEN new
                                              ELSE IF t = currp THEN rest ELSE p_mtxlist[t],
           \A n \in Mutexes : m_owner'[n] = IF n = m THEN tp ELSE m_owner[n]
    PROVE  OwnersAgree'
<1>1. \A t \in Threads : Distinct(p_mtxlist[t])
    BY DEF OwnersAgree
<1>2. \A t \in Threads : Distinct(p_mtxlist'[t])
    BY <1>1
<1>3. ASSUME NEW n \in Mutexes, NEW t \in Threads
      PROVE  m_owner'[n] = t <=> n \in Members(p_mtxlist'[t])
  <2>1. m_owner[n] = t <=> n \in Members(p_mtxlist[t])
      BY DEF OwnersAgree
  <2>2. CASE t = tp
      BY <2>1, <2>2
  <2>3. CASE t = currp
      BY <2>1, <2>3
  <2>4. CASE t # tp /\ t # currp
      BY <2>1, <2>4
  <2> QED
      BY <2>2, <2>3, <2>4
<1> QED
    BY <1>2, <1>3 DEF OwnersAgree, Distinct, Members

LEMMA GiveAgree ==
    ASSUME KInv, OwnersAgree, p_mtxlist[currp] # <<>>, m_queue[ump] # <<>>,
           m_owner' = [m_owner EXCEPT ![ump] = Head(m_queue[ump])],
           p_mtxlist' = [p_mtxlist EXCEPT ![currp] = Rest,
                                          ![Head(m_queue[ump])] = <<ump>> \o @]
    PROVE  OwnersAgree'
<1> DEFINE tp == Head(m_queue[ump])
           new == <<ump>> \o p_mtxlist[tp]
<1>1. tp \in Threads /\ tp # currp
    BY TopOwned, FirstWaiter
<1>2. p_mtxlist[tp] \in Seq(Mutexes) /\ Distinct(p_mtxlist[tp])
    BY <1>1 DEF KInv, TypeOK, OwnersAgree
<1>3. Distinct(new) /\ Members(new) = Members(p_mtxlist[tp]) \cup {ump}
    BY <1>1, <1>2, TopOwned, PushMembers
<1>4. /\ \A t \in Threads : p_mtxlist'[t] = IF t = tp THEN new
                                             ELSE IF t = currp THEN Rest ELSE p_mtxlist[t]
      /\ \A n \in Mutexes : m_owner'[n] = IF n = ump THEN tp ELSE m_owner[n]
    BY <1>1 DEF KInv, TypeOK
<1> HIDE DEF tp, new
<1> QED
    BY <1>1, <1>3, <1>4, TopOwned, HandedAgree

LEMMA OwnersKept ==
    ASSUME OwnersAgree, UNCHANGED <<p_mtxlist, m_owner>>
    PROVE  OwnersAgree'
BY DEF OwnersAgree, Distinct, Members

LEMMA LockAgree ==
    ASSUME KInv, OwnersAgree, NEW m \in Mutexes, LockS(m)
    PROVE  OwnersAgree'
BY OwnAgree, OwnersKept DEF LockS, mutexVars

LEMMA OwnersStep ==
    ASSUME KInv, OwnersAgree, [Next]_vars
    PROVE  OwnersAgree'
<1> USE DEF mutexVars
<1>1. CASE KernelStep
  <2>1. CASE BoostWTMTX \/ BoostWTCOND \/ BoostREADY \/ BoostOther \/ SleepOnMutex
             \/ UnlockAllEnd \/ BroadcastTurn \/ BroadcastEnd \/ IsrEpilogue
      BY <2>1, OwnersKept DEF BoostWTMTX, BoostWTCOND, BoostREADY, BoostOther, SleepOnMutex,
         UnlockAllEnd, BroadcastTurn, BroadcastEnd, IsrEpilogue
  <2>2. CASE UnlockAllTurn
      BY <2>2, DropAgree, GiveAgree DEF UnlockAllTurn, Drop, Give
  <2>3. CASE Relock
    <3>1. relock[currp] \in Mutexes
        BY <2>3 DEF Relock, KInv, TypeOK, Control
    <3> QED
        BY <2>3, <3>1, LockAgree DEF Relock
  <2> QED
      BY <1>1, <2>1, <2>2, <2>3 DEF KernelStep
<1>2. CASE ThreadCall
  <2>1. CASE \E m \in Mutexes : chMtxLock(m) \/ chMtxTryLock(m)
      BY <2>1, LockAgree, OwnAgree DEF chMtxLock, chMtxTryLock
  <2>2. CASE chMtxUnlock
      BY <2>2, DropAgree, GiveAgree DEF chMtxUnlock, Drop, Give
  <2>3. CASE \E c \in Conds : \E timeout \in BOOLEAN : chCondWait(c, timeout)
      BY <2>3, DropAgree, GiveAgree DEF chCondWait
  <2>4. CASE UnlockAllBegin \/ chThdYield
             \/ (\E c \in Conds : chCondSignal(c) \/ chCondBroadcast(c))
             \/ (\E newprio \in Prios : chThdSetPriority(newprio))
             \/ (\E timeout \in BOOLEAN : chThdSleep(timeout))
      BY <2>4, OwnersKept DEF UnlockAllBegin, chThdYield, chCondSignal, chCondBroadcast,
         chThdSetPriority, chThdSleep
  <2> QED
      BY <1>2, <2>1, <2>2, <2>3, <2>4 DEF ThreadCall
<1>3. CASE Interrupt
    BY <1>3, OwnersKept DEF Interrupt, chSysTimerHandlerI, wakeup, chCondSignalI
<1>4. CASE UNCHANGED vars
    BY <1>4, OwnersKept DEF vars
<1> QED
    BY <1>1, <1>2, <1>3, <1>4 DEF Next

\* m_owner and the stacks of owned mutexes always name the same owners, and no
\* stack has a mutex twice, whoever locks, is handed or waits away a mutex.
THEOREM OwnersCorrect == Spec => []OwnersAgree
<1>1. Init => OwnersAgree
  <2> SUFFICES ASSUME Init PROVE OwnersAgree
      OBVIOUS
  <2> QED
      BY EmptyMembers, NoneIsNothing DEF Init, OwnersAgree
<1>2. KInv /\ OwnersAgree /\ [Next]_vars => OwnersAgree'
    BY OwnersStep
<1> QED
    BY <1>1, <1>2, KInvCorrect, PTL DEF Spec

-----------------------------------------------------------------------------
(* The mutexes implement LockService.  Only five kinds of step show there:   *)
(* taking a free mutex, the sleep at the end of chMtxLockS, and an unlock,   *)
(* alone or in chMtxUnlockAll or chCondWaitS, which frees a mutex or hands   *)
(* it over.  Every other step leaves both variables of the service alone.    *)

WaitsFor == [t \in Threads |-> IF p_state[t] = "WTMTX" THEN wtobjp[t] ELSE None]

Hidden == UNCHANGED m_owner /\ WaitsFor' = WaitsFor

\* What an action does to the waiters, seen thread by thread.
SameWaiter(u) == /\ p_state'[u] = "WTMTX" <=> p_state[u] = "WTMTX"
                 /\ p_state[u] = "WTMTX" => wtobjp'[u] = wtobjp[u]

LEMMA SameWaiters ==
    ASSUME \A u \in Threads : SameWaiter(u)
    PROVE  WaitsFor' = WaitsFor
BY DEF SameWaiter, WaitsFor

LEMMA ServiceStep ==
    ASSUME NEW t \in Threads, NEW m \in Mutexes,
           Locks!Take(t, m) \/ Locks!Wait(t, m) \/ Locks!Free(t, m) \/ Locks!HandOver(t, m)
    PROVE  Locks!Next
BY DEF Locks!Next

LEMMA StepTake ==
    ASSUME KInv, NEW m \in Mutexes, m_owner[m] = None, Own(currp, m), WaitsFor' = WaitsFor
    PROVE  Locks!Next
<1>1. currp \in Threads /\ WaitsFor[currp] = None
    BY Runs DEF WaitsFor
<1>2. m_owner' = [m_owner EXCEPT ![m] = currp]
    BY DEF Own
<1>3. Locks!Take(currp, m)
    BY <1>1, <1>2 DEF Locks!Take, WaitsFor
<1> QED
    BY <1>1, <1>3, ServiceStep

\* Nobody waits for the mutex on top of the stack, and it becomes free.
LEMMA StepFree ==
    ASSUME KInv, OwnersAgree, p_mtxlist[currp] # <<>>, m_queue[ump] = <<>>,
           m_owner' = [m_owner EXCEPT ![ump] = None], WaitsFor' = WaitsFor
    PROVE  Locks!Next
<1>1. currp \in Threads /\ WaitsFor[currp] = None
    BY Runs DEF WaitsFor
<1>2. ump \in Mutexes /\ m_owner[ump] = currp
    BY TopOwned
<1>3. \A u \in Threads : WaitsFor[u] # ump
  <2> SUFFICES ASSUME NEW u \in Threads, WaitsFor[u] = ump PROVE FALSE
      OBVIOUS
  <2>1. p_state[u] = "WTMTX" /\ wtobjp[u] = ump
      BY <1>2, NoneIsNothing DEF WaitsFor
  <2>2. u \in Members(m_queue[ump])
      BY <1>2, <2>1, Runs DEF QueuePlaces
  <2> QED
      BY <2>2, EmptyMembers
<1>4. Locks!Free(currp, ump)
    BY <1>1, <1>2, <1>3 DEF Locks!Free, WaitsFor
<1> QED
    BY <1>1, <1>2, <1>4, ServiceStep

\* The first waiter gets the mutex on top of the stack.
LEMMA StepHandOver ==
    ASSUME KInv, OwnersAgree, p_mtxlist[currp] # <<>>, m_queue[ump] # <<>>,
           m_owner' = [m_owner EXCEPT ![ump] = Head(m_queue[ump])],
           p_state'[Head(m_queue[ump])] # "WTMTX",
           \A u \in Threads \ {Head(m_queue[ump])} : SameWaiter(u)
    PROVE  Locks!Next
<1> DEFINE tp == Head(m_queue[ump])
<1>1. currp \in Threads /\ WaitsFor[currp] = None
    BY Runs DEF WaitsFor
<1>2. ump \in Mutexes /\ m_owner[ump] = currp
    BY TopOwned
<1>3. tp \in Threads /\ WaitsFor[tp] = ump
    BY <1>2, FirstWaiter DEF WaitsFor
<1>4. WaitsFor' = [WaitsFor EXCEPT ![tp] = None]
    BY DEF SameWaiter, WaitsFor
<1> HIDE DEF tp
<1>5. m_owner' = [m_owner EXCEPT ![ump] = tp]
    BY DEF tp
<1>6. PICK t \in Threads, m \in Mutexes : t = currp /\ m = ump
    BY <1>1, <1>2
<1>7. Locks!HandOver(t, m)
    BY <1>1, <1>2, <1>3, <1>4, <1>5, <1>6 DEF Locks!HandOver, WaitsFor
<1> QED
    BY <1>7, ServiceStep

LEMMA LockShown ==
    ASSUME KInv, NEW m \in Mutexes, LockS(m), UNCHANGED <<p_state, wtobjp>>
    PROVE  Locks!Next \/ Hidden
<1>1. WaitsFor' = WaitsFor
    BY DEF WaitsFor
<1> QED
    BY <1>1, StepTake DEF LockS, Hidden, mutexVars

LEMMA SleepShown ==
    ASSUME KInv, SleepOnMutex
    PROVE  Locks!Next
<1>1. /\ TypeOK /\ currp \in Threads /\ currp # Idle
      /\ wanted \in Mutexes /\ m_owner[wanted] # None
      /\ p_state \in [Threads -> States]
      /\ "WTMTX" \in Asleep
    BY DEF KInv, SleepOnMutex, Control, TypeOK, Asleep
<1>2. /\ wtobjp' = [wtobjp EXCEPT ![currp] = wanted]
      /\ GoSleepS(ready, p_state, "WTMTX", FALSE)
      /\ UNCHANGED m_owner
    BY DEF SleepOnMutex
<1>3. /\ p_state'[currp] = "WTMTX"
      /\ \A t \in Threads \ {currp} : \A s \in Asleep : p_state'[t] = s <=> p_state[t] = s
    BY <1>1, <1>2, Runs, GoSleepStep
<1>4. WaitsFor[currp] = None
    BY Runs DEF WaitsFor
<1>5. \A t \in Threads : wtobjp'[t] = IF t = currp THEN wanted ELSE wtobjp[t]
    BY <1>1, <1>2 DEF TypeOK
<1>6. WaitsFor' = [WaitsFor EXCEPT ![currp] = wanted]
  <2>1. \A t \in Threads : p_state'[t] = "WTMTX" <=> t = currp \/ p_state[t] = "WTMTX"
      BY <1>1, <1>3
  <2>2. \A t \in Threads : (IF p_state'[t] = "WTMTX" THEN wtobjp'[t] ELSE None)
                            = IF t = currp THEN wanted ELSE WaitsFor[t]
      BY <1>5, <2>1 DEF WaitsFor
  <2> QED
      BY <1>1, <2>2 DEF WaitsFor
<1>7. PICK u \in Threads, m \in Mutexes : u = currp /\ m = wanted
    BY <1>1
<1>8. Locks!Wait(u, m)
  <2>1. WaitsFor' = [t \in Threads |-> IF p_state'[t] = "WTMTX" THEN wtobjp'[t] ELSE None]
      BY DEF WaitsFor
  <2>2. WaitsFor = [t \in Threads |-> IF p_state[t] = "WTMTX" THEN wtobjp[t] ELSE None]
      BY DEF WaitsFor
  <2> QED
      BY <1>1, <1>2, <1>4, <1>6, <1>7, <2>1, <2>2 DEF Locks!Wait
<1> QED
    BY <1>8, ServiceStep

\* A switch that puts nobody to sleep and wakes nobody.
LEMMA SwitchHidden ==
    ASSUME \A u \in Threads : \A s \in Asleep : p_state'[u] = s <=> p_state[u] = s,
           UNCHANGED <<wtobjp, m_owner>>
    PROVE  Hidden
<1>1. \A u \in Threads : SameWaiter(u)
    BY DEF SameWaiter, Asleep
<1> QED
    BY <1>1, SameWaiters DEF Hidden

\* Who waits after an unlock: nobody new, and not the thread that is given the
\* mutex.
HandedOn == /\ p_state'[Head(m_queue[ump])] # "WTMTX"
            /\ \A u \in Threads \ {Head(m_queue[ump])} : SameWaiter(u)

LEMMA UnlockWaiters ==
    ASSUME KInv, OwnersAgree, chMtxUnlock \/ UnlockAllTurn
    PROVE  \/ Drop /\ UNCHANGED p_state
           \/ m_queue[ump] # <<>> /\ Give /\ HandedOn
<1> DEFINE tp == Head(m_queue[ump])
<1>1. p_mtxlist[currp] # <<>>
    BY DEF chMtxUnlock, UnlockAllTurn
<1>2. ASSUME m_queue[ump] # <<>>, Give
      PROVE  /\ tp \in Threads /\ p_state[tp] = "WTMTX"
             /\ \A u \in Threads \ {tp} : wtobjp'[u] = wtobjp[u]
    BY <1>1, <1>2, TopOwned, FirstWaiter, GiveType
<1>3. CASE m_queue[ump] # <<>> /\ Give /\ WakeupS(tp, Lowered)
  <2>1. tp \in Threads /\ p_state[tp] \in Asleep /\ WakeupS(tp, Lowered)
      BY <1>2, <1>3 DEF Asleep
  <2>2. Lowered \in [Threads -> Nat]
      BY <1>1, LoweredType
  <2>3. /\ p_state'[tp] \notin Asleep
        /\ \A u \in Threads \ {tp} : \A s \in Asleep : p_state'[u] = s <=> p_state[u] = s
    <3> HIDE DEF tp
    <3> QED
        BY <2>1, <2>2, WakeupStep DEF KInv
  <2> QED
      BY <1>2, <1>3, <2>3 DEF HandedOn, SameWaiter, Asleep
<1>4. CASE m_queue[ump] # <<>> /\ Give /\ p_state' = [p_state EXCEPT ![tp] = "READY"]
    BY <1>2, <1>4 DEF HandedOn, SameWaiter, KInv, TypeOK
<1>5. CASE Drop /\ UNCHANGED p_state
    BY <1>5
<1> QED
    BY <1>3, <1>4, <1>5 DEF chMtxUnlock, UnlockAllTurn, procVars

LEMMA CondWaitWaiters ==
    ASSUME KInv, OwnersAgree, NEW c \in Conds, NEW timeout \in BOOLEAN, chCondWait(c, timeout)
    PROVE  \/ m_queue[ump] = <<>> /\ \A u \in Threads : SameWaiter(u)
           \/ m_queue[ump] # <<>> /\ HandedOn
<1>1. /\ p_mtxlist[currp] # <<>> /\ TypeOK /\ currp \in Threads /\ currp # Idle
      /\ p_state \in [Threads -> States] /\ p_prio \in [Threads -> Nat]
      /\ "WTMTX" \in Asleep /\ "WTCOND" \in Asleep
    BY CallerType DEF chCondWait, KInv, TypeOK, Asleep
<1>2. ump \in Mutexes
    BY <1>1, TopOwned
<1>3. CASE /\ m_queue[ump] = <<>>
           /\ wtobjp' = [wtobjp EXCEPT ![currp] = c]
           /\ GoSleepS(ready, p_state, "WTCOND", timeout)
  <2>1. /\ p_state'[currp] = "WTCOND"
        /\ \A t \in Threads \ {currp} : \A s \in Asleep : p_state'[t] = s <=> p_state[t] = s
      BY <1>1, <1>3, Runs, GoSleepStep
  <2>2. p_state[currp] # "WTMTX" /\ \A u \in Threads \ {currp} : wtobjp'[u] = wtobjp[u]
      BY <1>1, <1>3, Runs DEF TypeOK
  <2>3. \A u \in Threads : SameWaiter(u)
      BY <1>1, <2>1, <2>2 DEF SameWaiter
  <2> QED
      BY <1>3, <2>3
<1>4. CASE /\ m_queue[ump] # <<>>
           /\ wtobjp' = [wtobjp EXCEPT ![currp] = c, ![Head(m_queue[ump])] = None]
           /\ GoSleepS(Insert(ready, Lowered, Head(m_queue[ump])),
                       [p_state EXCEPT ![Head(m_queue[ump])] = "READY"], "WTCOND", timeout)
  <2> DEFINE tp == Head(m_queue[ump])
             rdy == Insert(ready, Lowered, tp)
             st == [p_state EXCEPT ![tp] = "READY"]
  <2>1. /\ tp \in Threads /\ tp # currp /\ tp # Idle /\ p_state[tp] = "WTMTX"
      BY <1>2, <1>4, FirstWaiter
  <2>2. Lowered \in [Threads -> Nat]
      BY <1>1, LoweredType
  <2>3. /\ RunPlaces(rdy, st, currp) /\ st \in [Threads -> States]
        /\ \A u \in Threads : st[u] = IF u = tp THEN "READY" ELSE p_state[u]
    <3> HIDE DEF tp
    <3> QED
        BY <1>1, <2>1, <2>2, ReadyStep
  <2>4. GoSleepS(rdy, st, "WTCOND", timeout) /\ st[Idle] = "READY"
    <3>1. p_state[Idle] = "READY" /\ Idle \in Threads
        BY <1>1, Runs, ThreadsAssumption
    <3> QED
        BY <1>4, <2>1, <2>3, <3>1
  <2>5. /\ p_state'[currp] = "WTCOND"
        /\ \A u \in Threads \ {currp} : \A s \in Asleep : p_state'[u] = s <=> st[u] = s
    <3> HIDE DEF rdy, st
    <3> QED
        BY <1>1, <2>3, <2>4, GoSleepStep
  <2>6. p_state[currp] # "WTMTX"
      BY Runs
  <2>7. p_state'[tp] # "WTMTX"
    <3> HIDE DEF st
    <3> QED
        BY <1>1, <2>1, <2>3, <2>5
  <2>8. \A u \in Threads \ {tp} : SameWaiter(u)
    <3>1. \A u \in Threads \ {currp, tp} : wtobjp'[u] = wtobjp[u]
        BY <1>1, <1>4, <2>1 DEF TypeOK
    <3> HIDE DEF st
    <3> QED
        BY <1>1, <2>3, <2>5, <2>6, <3>1 DEF SameWaiter
  <2> QED
      BY <1>4, <2>7, <2>8 DEF HandedOn
<1> QED
    BY <1>3, <1>4 DEF chCondWait

LEMMA UnlockShown ==
    ASSUME KInv, OwnersAgree, chMtxUnlock \/ UnlockAllTurn
    PROVE  Locks!Next
<1>1. p_mtxlist[currp] # <<>>
    BY DEF chMtxUnlock, UnlockAllTurn
<1>2. CASE Drop /\ UNCHANGED p_state
  <2>1. WaitsFor' = WaitsFor
      BY <1>2 DEF WaitsFor, Drop
  <2> QED
      BY <1>1, <1>2, <2>1, StepFree DEF Drop
<1>3. CASE m_queue[ump] # <<>> /\ Give /\ HandedOn
    BY <1>1, <1>3, StepHandOver DEF Give, HandedOn
<1> QED
    BY <1>2, <1>3, UnlockWaiters

LEMMA CondWaitShown ==
    ASSUME KInv, OwnersAgree, NEW c \in Conds, NEW timeout \in BOOLEAN, chCondWait(c, timeout)
    PROVE  Locks!Next
<1>1. p_mtxlist[currp] # <<>>
    BY DEF chCondWait
<1>2. CASE m_queue[ump] = <<>> /\ \A u \in Threads : SameWaiter(u)
    BY <1>1, <1>2, SameWaiters, StepFree DEF chCondWait
<1>3. CASE m_queue[ump] # <<>> /\ HandedOn
    BY <1>1, <1>3, StepHandOver DEF chCondWait, HandedOn
<1> QED
    BY <1>2, <1>3, CondWaitWaiters

LEMMA SignalHidden ==
    ASSUME KInv, NEW c \in Conds, Signalled(c), UNCHANGED m_owner,
           \/ p_state' = [p_state EXCEPT ![Head(c_queue[c])] = "READY"]
           \/ WakeupS(Head(c_queue[c]), p_prio)
    PROVE  Hidden
<1> DEFINE tp == Head(c_queue[c])
<1>1. tp \in Threads /\ p_state[tp] = "WTCOND"
    BY FirstSignalled DEF Signalled
<1>2. \A u \in Threads \ {tp} : wtobjp'[u] = wtobjp[u]
    BY <1>1 DEF Signalled, KInv, TypeOK
<1>3. CASE p_state' = [p_state EXCEPT ![tp] = "READY"]
  <2>1. \A u \in Threads : SameWaiter(u)
      BY <1>1, <1>2, <1>3 DEF SameWaiter, KInv, TypeOK
  <2> QED
      BY <2>1, SameWaiters DEF Hidden
<1>4. CASE WakeupS(tp, p_prio)
  <2>1. /\ p_state'[tp] \notin Asleep
        /\ \A u \in Threads \ {tp} : \A s \in Asleep : p_state'[u] = s <=> p_state[u] = s
    <3>1. p_state[tp] \in Asleep /\ TypeOK /\ Places /\ p_prio \in [Threads -> Nat]
        BY <1>1 DEF Asleep, KInv, TypeOK
    <3> HIDE DEF tp
    <3> QED
        BY <1>1, <1>4, <3>1, WakeupStep
  <2>2. \A u \in Threads : SameWaiter(u)
      BY <1>1, <1>2, <2>1 DEF SameWaiter, Asleep
  <2> QED
      BY <2>2, SameWaiters DEF Hidden
<1> QED
    BY <1>3, <1>4

LEMMA ThdSleepHidden ==
    ASSUME KInv, NEW timeout \in BOOLEAN, chThdSleep(timeout)
    PROVE  Hidden
<1>1. /\ TypeOK /\ currp # Idle
      /\ GoSleepS(ready, p_state, "SLEEPING", timeout)
      /\ UNCHANGED <<wtobjp, m_owner>>
      /\ p_state \in [Threads -> States]
      /\ "WTMTX" \in Asleep /\ "SLEEPING" \in Asleep
    BY CallerType DEF chThdSleep, KInv, TypeOK, Asleep, mutexVars
<1>2. /\ p_state'[currp] = "SLEEPING"
      /\ \A t \in Threads \ {currp} : \A s \in Asleep : p_state'[t] = s <=> p_state[t] = s
    BY <1>1, Runs, GoSleepStep
<1>3. \A u \in Threads : SameWaiter(u)
    BY <1>1, <1>2, Runs DEF SameWaiter
<1> QED
    BY <1>1, <1>3, SameWaiters DEF Hidden

LEMMA wakeupHidden ==
    ASSUME KInv, NEW t \in Users, wakeup(t)
    PROVE  Hidden
<1>1. t \in Threads /\ UNCHANGED m_owner
    BY DEF wakeup, Users, mutexVars
<1>2. \A u \in Threads : SameWaiter(u)
    BY <1>1 DEF wakeup, SameWaiter, KInv, TypeOK
<1> QED
    BY <1>1, <1>2, SameWaiters DEF Hidden

LEMMA YieldHidden ==
    ASSUME KInv, chThdYield
    PROVE  Hidden
<1>1. /\ TypeOK /\ Places /\ currp # Idle /\ DoRescheduleBehind
      /\ UNCHANGED <<wtobjp, m_owner>> /\ p_prio \in [Threads -> Nat]
    BY CallerType DEF chThdYield, KInv, TypeOK, mutexVars
<1>2. ready # <<>>
  <2>1. ready \in Lists /\ Idle \in Members(ready)
      BY <1>1, Runs, ThreadsAssumption DEF RunPlaces
  <2> QED
      BY <2>1, EmptyMembers
<1> QED
    BY <1>1, <1>2, SwapStep, SwitchHidden

LEMMA RescheduleHidden ==
    ASSUME KInv, NEW pr \in [Threads -> Nat], RescheduleS(pr), UNCHANGED <<wtobjp, m_owner>>
    PROVE  Hidden
BY RescheduleStep, SwitchHidden DEF KInv

LEMMA EpilogueHidden ==
    ASSUME KInv, IsrEpilogue
    PROVE  Hidden
<1>1. TypeOK /\ Places /\ UNCHANGED <<wtobjp, m_owner>> /\ p_prio \in [Threads -> Nat]
    BY DEF IsrEpilogue, KInv, TypeOK, mutexVars
<1>2. CASE ready # <<>> /\ (DoRescheduleAhead(p_prio) \/ DoRescheduleBehind)
    BY <1>1, <1>2, SwapStep, SwitchHidden
<1>3. CASE UNCHANGED p_state
    BY <1>1, <1>3, SwitchHidden
<1> QED
    BY <1>2, <1>3 DEF IsrEpilogue

\* The three calls that end with chSchRescheduleS.
LEMMA RescheduleCallHidden ==
    ASSUME KInv, UnlockAllEnd \/ BroadcastEnd \/ \E newprio \in Prios : chThdSetPriority(newprio)
    PROVE  Hidden
<1>1. \E pr \in [Threads -> Nat] : RescheduleS(pr)
  <2>1. CASE UnlockAllEnd
    <3>1. PICK pr \in [Threads -> Nat] : RescheduleS(pr)
        BY <2>1 DEF UnlockAllEnd, KInv, TypeOK
    <3> QED
        BY <3>1
  <2>2. CASE BroadcastEnd
      BY <2>2 DEF BroadcastEnd, KInv, TypeOK
  <2>3. CASE \E newprio \in Prios : chThdSetPriority(newprio)
      BY <2>3, PriorityAssumption DEF chThdSetPriority, KInv, TypeOK
  <2> QED
      BY <2>1, <2>2, <2>3
<1>2. UNCHANGED <<wtobjp, m_owner>>
    BY DEF UnlockAllEnd, BroadcastEnd, chThdSetPriority, mutexVars
<1> QED
    BY <1>1, <1>2, RescheduleHidden

LEMMA StepShown ==
    ASSUME KInv, OwnersAgree, [Next]_vars
    PROVE  Locks!Next \/ Hidden
<1> USE DEF mutexVars
<1>1. CASE KernelStep
  <2>1. CASE BoostWTMTX \/ BoostWTCOND \/ BoostREADY \/ BoostOther
    <3>1. UNCHANGED <<p_state, wtobjp, m_owner>>
        BY <2>1 DEF BoostWTMTX, BoostWTCOND, BoostREADY, BoostOther, procVars
    <3> QED
        BY <3>1, SwitchHidden
  <2>2. CASE SleepOnMutex
      BY <2>2, SleepShown
  <2>3. CASE UnlockAllTurn
      BY <2>3, UnlockShown
  <2>4. CASE UnlockAllEnd \/ BroadcastEnd
      BY <2>4, RescheduleCallHidden
  <2>5. CASE Relock
    <3>1. relock[currp] \in Mutexes
        BY <2>5 DEF Relock, KInv, TypeOK, Control
    <3> QED
        BY <2>5, <3>1, LockShown DEF Relock, procVars
  <2>6. CASE BroadcastTurn
    <3>1. cursor \in Conds
        BY <2>6 DEF BroadcastTurn, KInv, Control
    <3> QED
        BY <2>6, <3>1, SignalHidden DEF BroadcastTurn
  <2>7. CASE IsrEpilogue
      BY <2>7, EpilogueHidden
  <2> QED
      BY <1>1, <2>1, <2>2, <2>3, <2>4, <2>5, <2>6, <2>7 DEF KernelStep
<1>2. CASE ThreadCall
  <2>1. CASE \E m \in Mutexes : chMtxLock(m)
      BY <2>1, LockShown DEF chMtxLock, procVars
  <2>2. CASE \E m \in Mutexes : chMtxTryLock(m)
    <3>1. PICK m \in Mutexes : chMtxTryLock(m)
        BY <2>2
    <3>2. WaitsFor' = WaitsFor
        BY <3>1 DEF chMtxTryLock, WaitsFor, procVars
    <3> QED
        BY <3>1, <3>2, StepTake DEF chMtxTryLock
  <2>3. CASE chMtxUnlock
      BY <2>3, UnlockShown
  <2>4. CASE UnlockAllBegin \/ \E c \in Conds : chCondBroadcast(c)
    <3>1. UNCHANGED <<p_state, wtobjp, m_owner>>
        BY <2>4 DEF UnlockAllBegin, chCondBroadcast, procVars
    <3> QED
        BY <3>1, SwitchHidden
  <2>5. CASE \E c \in Conds : \E timeout \in BOOLEAN : chCondWait(c, timeout)
      BY <2>5, CondWaitShown
  <2>6. CASE \E c \in Conds : chCondSignal(c)
      BY <2>6, SignalHidden DEF chCondSignal
  <2>7. CASE \E newprio \in Prios : chThdSetPriority(newprio)
      BY <2>7, RescheduleCallHidden
  <2>8. CASE \E timeout \in BOOLEAN : chThdSleep(timeout)
      BY <2>8, ThdSleepHidden
  <2>9. CASE chThdYield
      BY <2>9, YieldHidden
  <2> QED
      BY <1>2, <2>1, <2>2, <2>3, <2>4, <2>5, <2>6, <2>7, <2>8, <2>9 DEF ThreadCall
<1>3. CASE Interrupt
  <2>1. CASE chSysTimerHandlerI
    <3>1. UNCHANGED <<p_state, wtobjp, m_owner>>
        BY <2>1 DEF chSysTimerHandlerI
    <3> QED
        BY <3>1, SwitchHidden
  <2>2. CASE \E t \in Users : wakeup(t)
      BY <2>2, wakeupHidden
  <2>3. CASE \E c \in Conds : chCondSignalI(c)
      BY <2>3, SignalHidden DEF chCondSignalI
  <2> QED
      BY <1>3, <2>1, <2>2, <2>3 DEF Interrupt
<1>4. CASE UNCHANGED vars
  <2>1. UNCHANGED <<p_state, wtobjp, m_owner>>
      BY <1>4 DEF vars, procVars
  <2> QED
      BY <2>1, SwitchHidden
<1> QED
    BY <1>1, <1>2, <1>3, <1>4 DEF Next

\* Types, places and owners agree in every state.
THEOREM KernelConsistent == Spec => []Consistent
BY KernelTypes, ThreadsInPlace, OwnersCorrect, PTL DEF Consistent

\* The mutexes keep the promise of LockService: one holder each, a lock that is
\* let go goes straight to a waiter, and is free only if there is none.
THEOREM LocksImplemented == Spec => ImplementsLocks
<1>1. Init => Locks!Init
  <2> SUFFICES ASSUME Init PROVE Locks!Init
      OBVIOUS
  <2>1. WaitsFor = [t \in Threads |-> None]
      BY DEF Init, WaitsFor
  <2> QED
      BY <2>1 DEF Init, Locks!Init, WaitsFor
<1>2. KInv /\ OwnersAgree /\ [Next]_vars => [Locks!Next]_(Locks!vars)
  <2> SUFFICES ASSUME KInv, OwnersAgree, [Next]_vars
               PROVE  [Locks!Next]_(Locks!vars)
      OBVIOUS
  <2>1. Hidden => UNCHANGED Locks!vars
      BY DEF Hidden, Locks!vars, WaitsFor
  <2> QED
      BY <2>1, StepShown
<1> QED
    BY <1>1, <1>2, KInvCorrect, OwnersCorrect, PTL DEF Spec, ImplementsLocks, Locks!Spec

-----------------------------------------------------------------------------
(* The order of the lists.  A list is sorted by the priorities pr if no      *)
(* thread stands ahead of a more urgent one.                                 *)

SortedBy(q, pr) == \A i, j \in 1 .. Len(q) : i < j => pr[q[i]] >= pr[q[j]]

\* A thread goes in behind those that are as urgent, or ahead of the equals.
LEMMA PutAtSorted ==
    ASSUME NEW q \in Seq(Threads), NEW pr \in [Threads -> Nat], NEW t \in Threads,
           NEW k \in 1 .. Len(q) + 1, SortedBy(q, pr),
           k <= Len(q) => pr[q[k]] <= pr[t],
           \A i \in 1 .. k - 1 : pr[q[i]] >= pr[t]
    PROVE  SortedBy(PutAt(q, k, t), pr)
<1> DEFINE r == PutAt(q, k, t)
<1>1. Len(q) \in Nat /\ \A i \in 1 .. Len(q) : pr[q[i]] \in Nat
    OBVIOUS
<1>2. \A i \in 1 .. Len(q) + 1 : r[i] = IF i < k THEN q[i] ELSE IF i = k THEN t ELSE q[i - 1]
    BY DEF PutAt
<1>3. Len(r) = Len(q) + 1
    BY PutAtMembers
<1>4. pr[t] \in Nat
    OBVIOUS
<1>5. ASSUME NEW i \in 1 .. Len(q), NEW j \in 1 .. Len(q), i < j PROVE pr[q[i]] >= pr[q[j]]
    BY <1>5 DEF SortedBy
<1>6. ASSUME NEW j \in k .. Len(q) PROVE pr[q[j]] <= pr[t]
    BY <1>1, <1>4, <1>5
<1> SUFFICES ASSUME NEW i \in 1 .. Len(q) + 1, NEW j \in 1 .. Len(q) + 1, i < j
             PROVE  pr[r[i]] >= pr[r[j]]
    BY <1>3 DEF SortedBy
<1> HIDE DEF r
<1>7. CASE j < k
  <2>1. i \in 1 .. Len(q) /\ j \in 1 .. Len(q) /\ r[i] = q[i] /\ r[j] = q[j]
      BY <1>1, <1>2, <1>7
  <2> QED
      BY <2>1, <1>5
<1>8. CASE j = k
    BY <1>1, <1>2, <1>8
<1>9. CASE i < k /\ k < j
  <2>1. j - 1 \in 1 .. Len(q) /\ i \in 1 .. Len(q) /\ i < j - 1 /\ r[i] = q[i] /\ r[j] = q[j - 1]
      BY <1>1, <1>2, <1>9
  <2> QED
      BY <2>1, <1>1, <1>4, <1>5, <1>6, <1>9
<1>10. CASE i = k
  <2>1. j - 1 \in k .. Len(q) /\ r[i] = t /\ r[j] = q[j - 1]
      BY <1>1, <1>2, <1>10
  <2> QED
      BY <2>1, <1>1, <1>4, <1>6
<1>11. CASE k < i
  <2>1. /\ i - 1 \in 1 .. Len(q) /\ j - 1 \in 1 .. Len(q) /\ i - 1 < j - 1
        /\ r[i] = q[i - 1] /\ r[j] = q[j - 1]
      BY <1>1, <1>2, <1>11
  <2> QED
      BY <2>1, <1>5
<1> QED
    BY <1>7, <1>8, <1>9, <1>10, <1>11

LEMMA InsertSorted ==
    ASSUME NEW q \in Lists, NEW pr \in [Threads -> Nat], NEW t \in Threads, SortedBy(q, pr)
    PROVE  SortedBy(Insert(q, pr, t), pr) /\ SortedBy(InsertAhead(q, pr, t), pr)
<1>1. q \in Seq(Threads) /\ pr[t] \in Nat /\ pr[t] + 1 \in Nat
    BY DEF Lists
<1>2. Len(q) \in Nat /\ \A i \in 1 .. Len(q) : pr[q[i]] \in Nat
    BY <1>1
<1>3. SortedBy(Insert(q, pr, t), pr)
  <2> DEFINE k == FirstBelow(q, pr, pr[t])
  <2>1. /\ k \in 1 .. Len(q) + 1
        /\ k <= Len(q) => pr[q[k]] < pr[t]
        /\ \A i \in 1 .. k - 1 : pr[q[i]] >= pr[t]
      BY <1>1, ScanStops
  <2> HIDE DEF k
  <2>2. k <= Len(q) => pr[q[k]] <= pr[t]
      BY <2>1, <1>1, <1>2
  <2>3. SortedBy(PutAt(q, k, t), pr)
      BY <2>1, <2>2, <1>1, PutAtSorted
  <2> QED
      BY <2>3 DEF k, Insert
<1>4. SortedBy(InsertAhead(q, pr, t), pr)
  <2> DEFINE k == FirstBelow(q, pr, pr[t] + 1)
  <2>1. /\ k \in 1 .. Len(q) + 1
        /\ k <= Len(q) => pr[q[k]] < pr[t] + 1
        /\ \A i \in 1 .. k - 1 : pr[q[i]] >= pr[t] + 1
      BY <1>1, ScanStops
  <2> HIDE DEF k
  <2>2. /\ k <= Len(q) => pr[q[k]] <= pr[t]
        /\ \A i \in 1 .. k - 1 : pr[q[i]] >= pr[t]
      BY <2>1, <1>1, <1>2
  <2>3. SortedBy(PutAt(q, k, t), pr)
      BY <2>1, <2>2, <1>1, PutAtSorted
  <2> QED
      BY <2>3 DEF k, InsertAhead
<1> QED
    BY <1>3, <1>4

\* The first thread of a sorted list is the most urgent one.
LEMMA TailSorted ==
    ASSUME NEW q \in Lists, NEW pr \in [Threads -> Nat], q # <<>>, SortedBy(q, pr)
    PROVE  SortedBy(Tail(q), pr) /\ \A t \in Members(q) : pr[t] <= pr[Head(q)]
<1>1. q \in Seq(Threads)
    BY DEF Lists
<1>2. Len(q) \in Nat \ {0} /\ Head(q) = q[1] /\ \A i \in 1 .. Len(q) : pr[q[i]] \in Nat
    BY <1>1
<1>3. Len(Tail(q)) = Len(q) - 1 /\ \A i \in 1 .. Len(q) - 1 : Tail(q)[i] = q[i + 1]
    BY <1>1
<1>4. ASSUME NEW i \in 1 .. Len(q) - 1, NEW j \in 1 .. Len(q) - 1, i < j
      PROVE  pr[Tail(q)[i]] >= pr[Tail(q)[j]]
  <2>1. i + 1 \in 1 .. Len(q) /\ j + 1 \in 1 .. Len(q) /\ i + 1 < j + 1
      BY <1>2, <1>4
  <2> QED
      BY <2>1, <1>3 DEF SortedBy
<1>5. ASSUME NEW t \in Members(q) PROVE pr[t] <= pr[Head(q)]
  <2>1. PICK i \in 1 .. Len(q) : t = q[i]
      BY DEF Members
  <2>2. 1 \in 1 .. Len(q) /\ (i = 1 \/ 1 < i)
      BY <1>2
  <2> QED
      BY <2>1, <2>2, <1>2 DEF SortedBy
<1> QED
    BY <1>3, <1>4, <1>5 DEF SortedBy

\* A list without one of its threads, or with the same priorities, stays sorted.
LEMMA DequeueSorted ==
    ASSUME NEW q \in Lists, NEW pr \in [Threads -> Nat], NEW t \in Members(q), SortedBy(q, pr)
    PROVE  SortedBy(Dequeue(q, t), pr)
<1> DEFINE r == Dequeue(q, t)
           p == Position(q, t)
<1>1. q \in Seq(Threads) /\ Len(q) \in Nat
    BY DEF Lists
<1>2. p \in 1 .. Len(q) /\ q[p] = t
    BY DEF Position, Members
<1>3. \A i \in 1 .. Len(q) - 1 : r[i] = IF i < p THEN q[i] ELSE q[i + 1]
    BY DEF Dequeue
<1>4. Len(r) = Len(q) - 1
  <2>1. Len(q) - 1 \in Nat
      BY <1>1, <1>2
  <2> QED
      BY <2>1 DEF Dequeue
<1> HIDE DEF r, p
<1>5. ASSUME NEW i \in 1 .. Len(q) - 1, NEW j \in 1 .. Len(q) - 1, i < j
      PROVE  pr[r[i]] >= pr[r[j]]
  <2>1. /\ i \in 1 .. Len(q) /\ j \in 1 .. Len(q)
        /\ i + 1 \in 1 .. Len(q) /\ j + 1 \in 1 .. Len(q)
        /\ i < j + 1 /\ i + 1 < j + 1
      BY <1>1, <1>5
  <2>2. (r[i] = q[i] \/ r[i] = q[i + 1]) /\ (r[j] = q[j] \/ r[j] = q[j + 1])
      BY <1>3
  <2>3. CASE j < p
    <3>1. i < p
        BY <1>1, <1>2, <1>5, <2>3
    <3>2. r[i] = q[i] /\ r[j] = q[j]
        BY <1>3, <2>3, <3>1
    <3> QED
        BY <1>5, <2>1, <3>2 DEF SortedBy
  <2>4. CASE ~ (j < p)
      BY <2>1, <2>2, <2>4, <1>3 DEF SortedBy
  <2> QED
      BY <2>3, <2>4
<1> QED
    BY <1>4, <1>5 DEF SortedBy, r

LEMMA SortedAgain ==
    ASSUME NEW q, NEW pr, NEW pr2, SortedBy(q, pr), \A t \in Members(q) : pr2[t] = pr[t]
    PROVE  SortedBy(q, pr2)
BY DEF SortedBy, Members

-----------------------------------------------------------------------------
(* What the scheduler leaves behind: a sorted ready list, and a running      *)
(* thread that nobody in it outranks.                                        *)

Topmost(pr) ==
    /\ SortedBy(ready', pr)
    /\ \A t \in Members(ready') : pr[t] <= pr[currp']

LEMMA GoSleepOrder ==
    ASSUME NEW rdy \in Lists, NEW pr \in [Threads -> Nat], rdy # <<>>, SortedBy(rdy, pr),
           NEW st, NEW newstate, NEW timeout, GoSleepS(rdy, st, newstate, timeout)
    PROVE  Topmost(pr)
<1>1. ready' = Tail(rdy) /\ currp' = Head(rdy)
    BY DEF GoSleepS, Resume
<1>2. Members(Tail(rdy)) \subseteq Members(rdy)
    BY TailList
<1> QED
    BY <1>1, <1>2, TailSorted DEF Topmost

LEMMA WakeupOrder ==
    ASSUME RunPlaces(ready, p_state, currp), currp \in Threads,
           NEW t \in Threads, p_state[t] \in Asleep,
           NEW pr \in [Threads -> Nat], SortedBy(ready, pr), WakeupS(t, pr),
           \A u \in Members(ready) : pr[u] <= pr[currp] \/ pr[u] <= pr[t]
    PROVE  Topmost(pr)
<1>1. /\ ready \in Lists /\ t \notin Members(ready) /\ currp \notin Members(ready)
      /\ Members(ready) \subseteq Threads
    BY EmptyMembers DEF RunPlaces, Asleep, Lists
<1>2. \A u \in Threads : pr[u] \in Nat
    OBVIOUS
<1>3. CASE pr[t] <= pr[currp]
  <2>1. ready' = Insert(ready, pr, t) /\ currp' = currp
      BY <1>3 DEF WakeupS, Stay
  <2>2. Members(ready') = Members(ready) \cup {t}
      BY <2>1, <1>1, InsertList
  <2>3. SortedBy(ready', pr)
      BY <2>1, <1>1, InsertSorted
  <2> QED
      BY <2>1, <2>2, <2>3, <1>1, <1>2, <1>3 DEF Topmost
<1>4. CASE ~ (pr[t] <= pr[currp])
  <2>1. ready' = Insert(ready, pr, currp) /\ currp' = t
      BY <1>4 DEF WakeupS, SwitchTo, Resume
  <2>2. Members(ready') = Members(ready) \cup {currp}
      BY <2>1, <1>1, InsertList
  <2>3. SortedBy(ready', pr)
      BY <2>1, <1>1, InsertSorted
  <2> QED
      BY <2>1, <2>2, <2>3, <1>1, <1>2, <1>4 DEF Topmost
<1> QED
    BY <1>3, <1>4

\* The first ready thread takes over from a running one that is not more urgent.
LEMMA SwapOrder ==
    ASSUME RunPlaces(ready, p_state, currp), currp \in Threads, ready # <<>>,
           NEW pr \in [Threads -> Nat], SortedBy(ready, pr), pr[currp] <= pr[Head(ready)],
           currp' = Head(ready),
           \/ ready' = Insert(Tail(ready), pr, currp)
           \/ ready' = InsertAhead(Tail(ready), pr, currp)
    PROVE  Topmost(pr)
<1>1. ready \in Lists /\ currp \notin Members(ready)
    BY DEF RunPlaces
<1>2. /\ Tail(ready) \in Lists /\ Members(Tail(ready)) = Members(ready) \ {Head(ready)}
      /\ SortedBy(Tail(ready), pr) /\ \A t \in Members(ready) : pr[t] <= pr[Head(ready)]
    BY <1>1, TailList, TailSorted
<1>3. Members(ready') = Members(Tail(ready)) \cup {currp} /\ SortedBy(ready', pr)
    BY <1>1, <1>2, InsertList, InsertSorted
<1> QED
    BY <1>2, <1>3 DEF Topmost

\* The running thread stays if the first ready one does not outrank it.
LEMMA StayOrder ==
    ASSUME RunPlaces(ready, p_state, currp), currp \in Threads,
           NEW pr \in [Threads -> Nat], SortedBy(ready, pr),
           ready # <<>> => pr[Head(ready)] <= pr[currp],
           currp' = currp, ready' = ready
    PROVE  Topmost(pr)
<1>1. ready \in Lists
    BY DEF RunPlaces
<1>2. CASE ready = <<>>
    BY <1>2, EmptyMembers DEF Topmost
<1>3. CASE ready # <<>>
  <2>1. \A t \in Members(ready) : pr[t] <= pr[Head(ready)]
      BY <1>1, <1>3, TailSorted
  <2>2. Members(ready) \subseteq Threads /\ Head(ready) \in Threads
      BY <1>1, <1>3, EmptyMembers, TailList DEF Lists
  <2>3. \A t \in Threads : pr[t] \in Nat
      OBVIOUS
  <2>4. \A t \in Members(ready) : pr[t] <= pr[currp]
      BY <1>3, <2>1, <2>2, <2>3
  <2> QED
      BY <2>4 DEF Topmost
<1> QED
    BY <1>2, <1>3

LEMMA RescheduleOrder ==
    ASSUME RunPlaces(ready, p_state, currp), currp \in Threads,
           NEW pr \in [Threads -> Nat], SortedBy(ready, pr), RescheduleS(pr)
    PROVE  Topmost(pr)
<1>1. ready # <<>> => Head(ready) \in Threads
    BY TailList DEF RunPlaces
<1>2. pr[currp] \in Nat /\ (ready # <<>> => pr[Head(ready)] \in Nat)
    BY <1>1
<1>3. CASE IsRescRequired(pr) /\ DoRescheduleAhead(pr)
  <2>1. ready # <<>> /\ pr[currp] <= pr[Head(ready)]
      BY <1>2, <1>3 DEF IsRescRequired
  <2>2. currp' = Head(ready) /\ ready' = InsertAhead(Tail(ready), pr, currp)
      BY <1>3 DEF DoRescheduleAhead, SwitchTo, Resume
  <2> QED
      BY <2>1, <2>2, SwapOrder
<1>4. CASE ~ IsRescRequired(pr) /\ Stay /\ UNCHANGED ready
  <2>1. ready # <<>> => pr[Head(ready)] <= pr[currp]
      BY <1>2, <1>4 DEF IsRescRequired
  <2>2. currp' = currp /\ ready' = ready
      BY <1>4 DEF Stay
  <2> QED
      BY <2>1, <2>2, StayOrder
<1> QED
    BY <1>3, <1>4 DEF RescheduleS

LEMMA EpilogueOrder ==
    ASSUME KInv, SortedBy(ready, p_prio), IsrEpilogue
    PROVE  Topmost(p_prio)
<1>1. RunPlaces(ready, p_state, currp) /\ currp \in Threads /\ p_prio \in [Threads -> Nat]
    BY Runs DEF KInv, TypeOK
<1>2. ready # <<>> => Head(ready) \in Threads
    BY <1>1, TailList DEF RunPlaces
<1>3. p_prio[currp] \in Nat /\ (ready # <<>> => p_prio[Head(ready)] \in Nat)
    BY <1>1, <1>2
<1>4. CASE /\ ready # <<>> /\ p_prio[Head(ready)] >= p_prio[currp]
           /\ DoRescheduleBehind
  <2>1. currp' = Head(ready) /\ ready' = Insert(Tail(ready), p_prio, currp)
      BY <1>4 DEF DoRescheduleBehind, SwitchTo, Resume
  <2>2. p_prio[currp] <= p_prio[Head(ready)]
      BY <1>3, <1>4
  <2> QED
      BY <1>1, <1>4, <2>1, <2>2, SwapOrder
<1>5. CASE /\ ready # <<>> /\ p_prio[Head(ready)] > p_prio[currp]
           /\ DoRescheduleAhead(p_prio)
  <2>1. currp' = Head(ready) /\ ready' = InsertAhead(Tail(ready), p_prio, currp)
      BY <1>5 DEF DoRescheduleAhead, SwitchTo, Resume
  <2>2. p_prio[currp] <= p_prio[Head(ready)]
      BY <1>3, <1>5
  <2> QED
      BY <1>1, <1>5, <2>1, <2>2, SwapOrder
<1>6. CASE /\ Stay /\ UNCHANGED ready
           /\ ready # <<>> => p_prio[Head(ready)] <= p_prio[currp]
    BY <1>1, <1>6, StayOrder DEF Stay
<1>7. \/ /\ ready # <<>> /\ p_prio[Head(ready)] >= p_prio[currp]
         /\ DoRescheduleBehind
      \/ /\ ready # <<>> /\ p_prio[Head(ready)] > p_prio[currp]
         /\ DoRescheduleAhead(p_prio)
      \/ /\ Stay /\ UNCHANGED ready
         /\ ready # <<>> => p_prio[Head(ready)] <= p_prio[currp]
    BY <1>3 DEF IsrEpilogue
<1> QED
    BY <1>4, <1>5, <1>6, <1>7

-----------------------------------------------------------------------------
(* The order of the lists is kept: ListsSorted by itself, and TopRuns, which *)
(* is HighestRuns for every place of the code that has just scheduled.       *)

QueuesSorted(S, qs, pr) == \A x \in S : SortedBy(qs[x], pr)

TopRuns == phase \in {"user", "relock", "boost", "sleep"} =>
             \A t \in Members(ready) : p_prio[t] <= p_prio[currp]

LEMMA OrderParts ==
    /\ ListsSorted <=> /\ SortedBy(ready, p_prio)
                       /\ QueuesSorted(Mutexes, m_queue, p_prio)
                       /\ QueuesSorted(Conds, c_queue, p_prio)
    /\ ListsSorted' <=> /\ SortedBy(ready', p_prio')
                        /\ QueuesSorted(Mutexes, m_queue', p_prio')
                        /\ QueuesSorted(Conds, c_queue', p_prio')
BY DEF ListsSorted, Sorted, SortedBy, QueuesSorted

LEMMA OrderAgain ==
    ASSUME Topmost(p_prio'), QueuesSorted(Mutexes, m_queue', p_prio'),
           QueuesSorted(Conds, c_queue', p_prio')
    PROVE  ListsSorted' /\ TopRuns'
<1>1. SortedBy(ready', p_prio') /\ \A t \in Members(ready') : p_prio'[t] <= p_prio'[currp']
    BY DEF Topmost
<1>2. ListsSorted'
    BY <1>1, OrderParts
<1> QED
    BY <1>1, <1>2 DEF TopRuns, Members

LEMMA OrderKept ==
    ASSUME ListsSorted, TopRuns, UNCHANGED <<currp, ready, p_prio, m_queue, c_queue>>,
           phase' \in {"user", "relock", "boost", "sleep"} =>
             phase \in {"user", "relock", "boost", "sleep"}
    PROVE  ListsSorted' /\ TopRuns'
BY DEF ListsSorted, Sorted, TopRuns, Members

\* What is known of the lists of a reachable state.
LEMMA ListsInOrder ==
    ASSUME KInv, ListsSorted
    PROVE  /\ RunPlaces(ready, p_state, currp) /\ currp \in Threads
           /\ p_prio \in [Threads -> Nat]
           /\ ready \in Lists /\ SortedBy(ready, p_prio)
           /\ \A m \in Mutexes : m_queue[m] \in Lists /\ SortedBy(m_queue[m], p_prio)
           /\ \A c \in Conds : c_queue[c] \in Lists /\ SortedBy(c_queue[c], p_prio)
<1>1. /\ RunPlaces(ready, p_state, currp) /\ currp \in Threads
      /\ QueuePlaces(Mutexes, m_queue, "WTMTX", p_state, wtobjp)
      /\ QueuePlaces(Conds, c_queue, "WTCOND", p_state, wtobjp)
    BY Runs
<1> QED
    BY <1>1, OrderParts DEF RunPlaces, QueuePlaces, QueuesSorted, KInv, TypeOK

\* The running thread is in no list, so that its own priority orders none.
LEMMA SortedWithout ==
    ASSUME KInv, ListsSorted, NEW pr, \A t \in Threads \ {currp} : pr[t] = p_prio[t]
    PROVE  /\ SortedBy(ready, pr)
           /\ QueuesSorted(Mutexes, m_queue, pr) /\ QueuesSorted(Conds, c_queue, pr)
<1>1. /\ currp \notin Members(ready)
      /\ \A m \in Mutexes : currp \notin Members(m_queue[m])
      /\ \A c \in Conds : currp \notin Members(c_queue[c])
    BY Runs DEF RunPlaces
<1>2. /\ Members(ready) \subseteq Threads
      /\ \A m \in Mutexes : Members(m_queue[m]) \subseteq Threads
      /\ \A c \in Conds : Members(c_queue[c]) \subseteq Threads
    BY ListsInOrder, EmptyMembers DEF Lists
<1>3. SortedBy(ready, pr)
    BY <1>1, <1>2, ListsInOrder, SortedAgain
<1>4. ASSUME NEW m \in Mutexes PROVE SortedBy(m_queue[m], pr)
    BY <1>1, <1>2, ListsInOrder, SortedAgain
<1>5. ASSUME NEW c \in Conds PROVE SortedBy(c_queue[c], pr)
    BY <1>1, <1>2, ListsInOrder, SortedAgain
<1> QED
    BY <1>3, <1>4, <1>5 DEF QueuesSorted

\* The head of a queue leaves it, or a thread enters it.
LEMMA QueuePopped ==
    ASSUME NEW S, NEW qs \in [S -> Lists], NEW pr \in [Threads -> Nat], NEW x \in S,
           QueuesSorted(S, qs, pr), qs[x] # <<>>
    PROVE  QueuesSorted(S, [qs EXCEPT ![x] = Tail(@)], pr)
<1>1. SortedBy(Tail(qs[x]), pr)
    BY TailSorted DEF QueuesSorted
<1> QED
    BY <1>1 DEF QueuesSorted

LEMMA QueueEntered ==
    ASSUME NEW S, NEW qs \in [S -> Lists], NEW pr \in [Threads -> Nat], NEW x \in S,
           NEW t \in Threads, QueuesSorted(S, qs, pr)
    PROVE  QueuesSorted(S, [qs EXCEPT ![x] = Insert(@, pr, t)], pr)
<1>1. SortedBy(Insert(qs[x], pr, t), pr)
    BY InsertSorted DEF QueuesSorted
<1> QED
    BY <1>1 DEF QueuesSorted

LEMMA QueueTypes ==
    ASSUME KInv
    PROVE  m_queue \in [Mutexes -> Lists] /\ c_queue \in [Conds -> Lists]
BY Runs DEF QueuePlaces, KInv, TypeOK

LEMMA SleepOnMutexOrder ==
    ASSUME KInv, ListsSorted, SleepOnMutex
    PROVE  ListsSorted' /\ TopRuns'
<1>1. /\ wanted \in Mutexes /\ currp # Idle /\ ready # <<>>
      /\ currp \in Threads /\ p_prio \in [Threads -> Nat] /\ ready \in Lists
  <2>1. wanted \in Mutexes /\ currp # Idle
      BY DEF KInv, SleepOnMutex, Control
  <2>2. Idle \in Members(ready)
      BY <2>1, Runs, ThreadsAssumption DEF RunPlaces
  <2> QED
      BY <2>1, <2>2, ListsInOrder, EmptyMembers
<1>2. /\ m_queue' = [m_queue EXCEPT ![wanted] = Insert(@, p_prio, currp)]
      /\ p_prio' = p_prio /\ c_queue' = c_queue
      /\ GoSleepS(ready, p_state, "WTMTX", FALSE)
    BY DEF SleepOnMutex, prioVars, condVars
<1>3. Topmost(p_prio)
    BY <1>1, <1>2, ListsInOrder, GoSleepOrder
<1>4. QueuesSorted(Mutexes, m_queue', p_prio)
    BY <1>1, <1>2, OrderParts, QueueTypes, QueueEntered
<1> QED
    BY <1>2, <1>3, <1>4, OrderParts, OrderAgain

\* A thread joins the ready list and nothing is scheduled yet.
LEMMA ReadyOrder ==
    ASSUME KInv, ListsSorted, NEW t \in Threads, ready' = Insert(ready, p_prio, t),
           p_prio' = p_prio, phase' \in {"isr", "all", "cast"},
           QueuesSorted(Mutexes, m_queue', p_prio), QueuesSorted(Conds, c_queue', p_prio)
    PROVE  ListsSorted' /\ TopRuns'
<1>1. SortedBy(ready', p_prio)
    BY ListsInOrder, InsertSorted
<1> QED
    BY <1>1, OrderParts DEF TopRuns

LEMMA UnlockAllTurnOrder ==
    ASSUME KInv, ListsSorted, TopRuns, UnlockAllTurn
    PROVE  ListsSorted' /\ TopRuns'
<1>1. /\ p_mtxlist[currp] # <<>> /\ phase' = "all"
      /\ UNCHANGED <<currp, p_prio, c_queue>>
    BY DEF UnlockAllTurn, prioVars, condVars
<1>2. CASE Drop /\ UNCHANGED ready
    BY <1>1, <1>2, OrderKept DEF Drop
<1>3. CASE m_queue[ump] # <<>> /\ Give /\ ready' = Insert(ready, p_prio, Head(m_queue[ump]))
  <2>1. ump \in Mutexes
      BY <1>1, TopType DEF KInv
  <2>2. m_queue' = [m_queue EXCEPT ![ump] = Tail(@)] /\ Head(m_queue[ump]) \in Threads
      BY <1>3, <2>1, FirstWaiter DEF Give
  <2>3. QueuesSorted(Mutexes, m_queue', p_prio)
      BY <1>3, <2>1, <2>2, ListsInOrder, OrderParts, QueueTypes, QueuePopped
  <2> QED
      BY <1>1, <1>3, <2>2, <2>3, OrderParts, ReadyOrder
<1> QED
    BY <1>2, <1>3 DEF UnlockAllTurn

\* A signal to a condition variable: its first waiter is ready.
LEMMA SignalledOrder ==
    ASSUME KInv, ListsSorted, NEW c \in Conds, Signalled(c)
    PROVE  /\ QueuesSorted(Conds, c_queue', p_prio)
           /\ Head(c_queue[c]) \in Threads /\ p_state[Head(c_queue[c])] \in Asleep
<1>1. c_queue[c] # <<>> /\ c_queue' = [c_queue EXCEPT ![c] = Tail(@)]
    BY DEF Signalled
<1>2. QueuesSorted(Conds, c_queue', p_prio)
    BY <1>1, ListsInOrder, OrderParts, QueueTypes, QueuePopped
<1> QED
    BY <1>1, <1>2, FirstSignalled DEF Asleep

LEMMA SignalOrder ==
    ASSUME KInv, ListsSorted, NEW c \in Conds, Signalled(c), phase \in {"isr", "cast"},
           ready' = Insert(ready, p_prio, Head(c_queue[c])),
           UNCHANGED <<phase, prioVars, mutexVars>>
    PROVE  ListsSorted' /\ TopRuns'
BY SignalledOrder, OrderParts, ReadyOrder DEF prioVars, mutexVars

LEMMA chCondSignalOrder ==
    ASSUME KInv, ListsSorted, TopRuns, NEW c \in Conds, chCondSignal(c)
    PROVE  ListsSorted' /\ TopRuns'
<1>1. /\ Signalled(c) /\ WakeupS(Head(c_queue[c]), p_prio) /\ phase = "user"
      /\ UNCHANGED <<p_prio, m_queue>>
    BY DEF chCondSignal, Calls, prioVars, mutexVars
<1>2. \A u \in Members(ready) : p_prio[u] <= p_prio[currp]
    BY <1>1 DEF TopRuns
<1>3. Topmost(p_prio)
    BY <1>1, <1>2, SignalledOrder, ListsInOrder, WakeupOrder
<1> QED
    BY <1>1, <1>3, SignalledOrder, OrderParts, OrderAgain

\* The calls that end with chSchRescheduleS, one of them with a new priority of
\* the running thread.
LEMMA RescheduleCallOrder ==
    ASSUME KInv, ListsSorted, NEW pr \in [Threads -> Nat],
           \A t \in Threads \ {currp} : pr[t] = p_prio[t],
           RescheduleS(pr), p_prio' = pr, UNCHANGED <<m_queue, c_queue>>
    PROVE  ListsSorted' /\ TopRuns'
<1>1. Topmost(pr)
    BY ListsInOrder, SortedWithout, RescheduleOrder
<1> QED
    BY <1>1, SortedWithout, OrderAgain

LEMMA wakeupOrder ==
    ASSUME KInv, ListsSorted, TopRuns, NEW t \in Users, wakeup(t)
    PROVE  ListsSorted' /\ TopRuns'
<1>1. t \in Threads /\ phase = "isr" /\ UNCHANGED <<currp, phase, p_prio, m_queue>>
    BY DEF wakeup, Users, prioVars, mutexVars
<1>2. CASE UNCHANGED <<ready, c_queue>>
    BY <1>1, <1>2, OrderKept
<1>3. CASE ready' = Insert(ready, p_prio, t) /\ UNCHANGED c_queue
    BY <1>1, <1>3, OrderParts, ReadyOrder
<1>4. CASE /\ ready' = Insert(ready, p_prio, t) /\ p_state[t] = "WTCOND"
           /\ c_queue' = [c_queue EXCEPT ![wtobjp[t]] = Dequeue(@, t)]
  <2>1. wtobjp[t] \in Conds /\ t \in Members(c_queue[wtobjp[t]])
      BY <1>1, <1>4, Runs DEF QueuePlaces, KInv, Waiting
  <2>2. SortedBy(Dequeue(c_queue[wtobjp[t]], t), p_prio)
      BY <2>1, ListsInOrder, DequeueSorted
  <2>3. QueuesSorted(Conds, c_queue', p_prio)
      BY <1>4, <2>1, <2>2, ListsInOrder, QueueTypes DEF QueuesSorted
  <2> QED
      BY <1>1, <1>4, <2>3, OrderParts, ReadyOrder
<1> QED
    BY <1>2, <1>3, <1>4 DEF wakeup

\* A turn of the loop of chMtxLockS: one list at most has the thread, and is put
\* in order again.
LEMMA BoostedLists ==
    ASSUME KInv, LoopGoesOn, NEW q \in Lists, SortedBy(q, p_prio)
    PROVE  /\ cursor \notin Members(q) => SortedBy(q, Boosted)
           /\ cursor \in Members(q) => SortedBy(Requeued(q), Boosted)
<1>1. /\ cursor \in Threads /\ currp \in Threads
      /\ p_prio \in [Threads -> Nat] /\ Boosted \in [Threads -> Nat]
      /\ \A t \in Threads \ {cursor} : Boosted[t] = p_prio[t]
    BY DEF KInv, TypeOK, Control, LoopGoesOn, Boosted
<1>2. Members(q) \subseteq Threads
    BY EmptyMembers DEF Lists
<1>3. ASSUME cursor \notin Members(q) PROVE SortedBy(q, Boosted)
    BY <1>1, <1>2, <1>3, SortedAgain
<1>4. ASSUME cursor \in Members(q) PROVE SortedBy(Requeued(q), Boosted)
  <2>1. /\ Dequeue(q, cursor) \in Lists /\ SortedBy(Dequeue(q, cursor), p_prio)
        /\ Members(Dequeue(q, cursor)) = Members(q) \ {cursor}
      BY <1>1, <1>4, DequeueList, DequeueSorted
  <2>2. SortedBy(Dequeue(q, cursor), Boosted)
      BY <1>1, <1>2, <2>1, SortedAgain
  <2> QED
      BY <1>1, <2>1, <2>2, InsertSorted DEF Requeued
<1> QED
    BY <1>3, <1>4

LEMMA BoostOrder ==
    ASSUME KInv, ListsSorted, TopRuns, BoostWTMTX \/ BoostWTCOND \/ BoostREADY \/ BoostOther
    PROVE  ListsSorted' /\ TopRuns'
<1>1. /\ LoopGoesOn /\ p_prio' = Boosted /\ currp' = currp /\ phase = "boost"
      /\ cursor \in Threads /\ currp \in Threads
    BY DEF BoostWTMTX, BoostWTCOND, BoostREADY, BoostOther, LoopGoesOn, KInv, Control, TypeOK
<1>2. /\ RunPlaces(ready, p_state, currp)
      /\ QueuePlaces(Mutexes, m_queue, "WTMTX", p_state, wtobjp)
      /\ QueuePlaces(Conds, c_queue, "WTCOND", p_state, wtobjp)
    BY Runs
<1>3. m_queue \in [Mutexes -> Lists] /\ c_queue \in [Conds -> Lists]
    BY QueueTypes
<1>4. p_state[cursor] # "READY" => ready' = ready /\ cursor \notin Members(ready)
    BY <1>1, <1>2 DEF RunPlaces, BoostWTMTX, BoostWTCOND, BoostREADY, BoostOther
<1>5. p_state[cursor] = "READY" => ready' = Requeued(ready) /\ cursor \in Members(ready)
    BY <1>1, <1>2 DEF RunPlaces, BoostWTMTX, BoostWTCOND, BoostREADY, BoostOther
<1>6. SortedBy(ready', Boosted)
    BY <1>1, <1>4, <1>5, ListsInOrder, BoostedLists
<1>7. QueuesSorted(Mutexes, m_queue', Boosted)
  <2>1. CASE p_state[cursor] = "WTMTX"
    <3>1. /\ wtobjp[cursor] \in Mutexes
          /\ m_queue' = [m_queue EXCEPT ![wtobjp[cursor]] = Requeued(@)]
        BY <1>1, <2>1 DEF KInv, Waiting, BoostWTMTX, BoostWTCOND, BoostREADY, BoostOther
    <3>2. \A m \in Mutexes : cursor \in Members(m_queue[m]) <=> m = wtobjp[cursor]
        BY <1>1, <1>2, <2>1, <3>1 DEF QueuePlaces
    <3>3. ASSUME NEW m \in Mutexes PROVE SortedBy(m_queue'[m], Boosted)
      <4>1. m_queue'[m] = IF m = wtobjp[cursor] THEN Requeued(m_queue[m]) ELSE m_queue[m]
          BY <1>3, <3>1
      <4> QED
          BY <1>1, <3>2, <4>1, ListsInOrder, BoostedLists
    <3> QED
        BY <3>3 DEF QueuesSorted
  <2>2. CASE p_state[cursor] # "WTMTX"
    <3>1. m_queue' = m_queue
        BY <1>1, <2>2 DEF BoostWTMTX, BoostWTCOND, BoostREADY, BoostOther, mutexVars
    <3>2. \A m \in Mutexes : cursor \notin Members(m_queue[m])
        BY <1>1, <1>2, <2>2 DEF QueuePlaces
    <3> QED
        BY <1>1, <3>1, <3>2, ListsInOrder, BoostedLists DEF QueuesSorted
  <2> QED
      BY <2>1, <2>2
<1>8. QueuesSorted(Conds, c_queue', Boosted)
  <2>1. CASE p_state[cursor] = "WTCOND"
    <3>1. /\ wtobjp[cursor] \in Conds
          /\ c_queue' = [c_queue EXCEPT ![wtobjp[cursor]] = Requeued(@)]
        BY <1>1, <2>1 DEF KInv, Waiting, BoostWTMTX, BoostWTCOND, BoostREADY, BoostOther
    <3>2. \A c \in Conds : cursor \in Members(c_queue[c]) <=> c = wtobjp[cursor]
        BY <1>1, <1>2, <2>1, <3>1 DEF QueuePlaces
    <3>3. ASSUME NEW c \in Conds PROVE SortedBy(c_queue'[c], Boosted)
      <4>1. c_queue'[c] = IF c = wtobjp[cursor] THEN Requeued(c_queue[c]) ELSE c_queue[c]
          BY <1>3, <3>1
      <4> QED
          BY <1>1, <3>2, <4>1, ListsInOrder, BoostedLists
    <3> QED
        BY <3>3 DEF QueuesSorted
  <2>2. CASE p_state[cursor] # "WTCOND"
    <3>1. c_queue' = c_queue
        BY <1>1, <2>2 DEF BoostWTMTX, BoostWTCOND, BoostREADY, BoostOther, condVars
    <3>2. \A c \in Conds : cursor \notin Members(c_queue[c])
        BY <1>1, <1>2, <2>2 DEF QueuePlaces
    <3> QED
        BY <1>1, <3>1, <3>2, ListsInOrder, BoostedLists DEF QueuesSorted
  <2> QED
      BY <2>1, <2>2
<1>9. ASSUME NEW t \in Members(ready') PROVE Boosted[t] <= Boosted[currp]
  <2>1. p_prio \in [Threads -> Nat] /\ p_prio[cursor] < p_prio[currp]
      BY <1>1 DEF LoopGoesOn, KInv, TypeOK
  <2>2. t \in Members(ready) /\ t \in Threads
    <3>1. cursor \in Members(ready) => Members(Requeued(ready)) = Members(ready)
        BY <1>1, ListsInOrder, RequeuedList DEF KInv
    <3>2. t \in Members(ready)
        BY <1>4, <1>5, <1>9, <3>1
    <3> QED
        BY <3>2, ListsInOrder, EmptyMembers DEF Lists
  <2>3. p_prio[t] <= p_prio[currp]
      BY <1>1, <2>2 DEF TopRuns
  <2> QED
      BY <1>1, <2>1, <2>2, <2>3 DEF Boosted
<1> QED
    BY <1>1, <1>6, <1>7, <1>8, <1>9, OrderAgain DEF Topmost

-----------------------------------------------------------------------------
(* Priority inheritance, inside the loops too.  A thread donates its priority *)
(* to the owner of the mutex it waits for; the caller of chMtxLockS does so   *)
(* from the moment it has seen the mutex busy.  NoExcess: a priority is the   *)
(* thread's own or a donor's, except where a loop has yet to lower or to      *)
(* raise it.  LoopDonor: the loop of chMtxLockS raises a thread for a donor.  *)
(* NoLack: no donor is more urgent than the owner, except where the loop has  *)
(* yet to raise it.                                                           *)

Donor(v, t) ==
    \/ p_state[v] = "WTMTX" /\ m_owner[wtobjp[v]] = t
    \/ phase \in {"boost", "sleep"} /\ v = currp /\ m_owner[wanted] = t

Excused(t) ==
    \/ phase = "all" /\ t = currp
    \/ phase = "boost" /\ t = cursor /\ p_prio[t] < p_prio[currp]

Excess(t) == /\ p_prio[t] # p_realprio[t]
             /\ \A v \in Threads : Donor(v, t) => p_prio[v] # p_prio[t]

NoExcess == \A t \in Threads : Excess(t) => Excused(t)

LoopDonor == phase = "boost" =>
               \E v \in Threads : Donor(v, cursor) /\ p_prio[v] = p_prio[currp]

Covers(v, t) == \/ p_prio[v] <= p_prio[t]
                \/ phase = "boost" /\ t = cursor /\ p_prio[v] = p_prio[currp]

NoLack == /\ \A t \in Threads : p_realprio[t] <= p_prio[t]
          /\ \A v, t \in Threads : Donor(v, t) => Covers(v, t)

\* The donors the running thread keeps when it gives its last mutex away.
Keeps(v) == p_state[v] = "WTMTX" /\ m_owner[wtobjp[v]] = currp /\ wtobjp[v] # ump

LEMMA NewPrioFits ==
    ASSUME KInv, OwnersAgree, ListsSorted, p_mtxlist[currp] # <<>>
    PROVE  /\ NewPrio \in Nat /\ p_realprio[currp] <= NewPrio
           /\ NewPrio = p_realprio[currp] \/ \E v \in Threads : Keeps(v) /\ p_prio[v] = NewPrio
           /\ \A v \in Threads : Keeps(v) => p_prio[v] <= NewPrio
<1> DEFINE ps == {p_realprio[currp]} \cup FirstPrios(Members(Rest))
<1>1. /\ currp \in Threads /\ ump \in Mutexes /\ Members(Rest) \subseteq Mutexes
      /\ \A m \in Members(Rest) : m # ump /\ m_owner[m] = currp
      /\ \A m \in Mutexes : m # ump /\ m_owner[m] = currp => m \in Members(Rest)
    BY TopOwned, EmptyMembers DEF OwnersAgree
<1>2. \A m \in Members(Rest) : m_queue[m] # <<>> =>
        /\ Head(m_queue[m]) \in Threads
        /\ p_state[Head(m_queue[m])] = "WTMTX" /\ wtobjp[Head(m_queue[m])] = m
    BY <1>1, FirstWaiter
<1>3. ps \subseteq Nat /\ NewPrio \in ps /\ \A r \in ps : r <= NewPrio
    BY <1>2, NewPrioGreatest DEF KInv
<1>4. ASSUME NewPrio # p_realprio[currp]
      PROVE  \E v \in Threads : Keeps(v) /\ p_prio[v] = NewPrio
  <2>1. PICK m \in Members(Rest) : m_queue[m] # <<>> /\ NewPrio = p_prio[Head(m_queue[m])]
      BY <1>3, <1>4 DEF FirstPrios
  <2> QED
      BY <1>1, <1>2, <2>1 DEF Keeps
<1>5. ASSUME NEW v \in Threads, Keeps(v) PROVE p_prio[v] <= NewPrio
  <2> DEFINE m == wtobjp[v]
  <2>1. m \in Members(Rest) /\ m \in Mutexes
      BY <1>1, <1>5 DEF Keeps, KInv, Waiting
  <2>2. v \in Members(m_queue[m])
      BY <2>1, <1>5, Runs DEF QueuePlaces, Keeps
  <2>3. m_queue[m] # <<>>
      BY <2>2, EmptyMembers
  <2>4. p_prio[v] <= p_prio[Head(m_queue[m])]
      BY <2>1, <2>2, <2>3, ListsInOrder, TailSorted
  <2>5. p_prio[Head(m_queue[m])] \in ps
      BY <2>1, <2>3 DEF FirstPrios
  <2>6. p_prio[v] \in Nat
      BY DEF KInv, TypeOK
  <2> HIDE DEF ps, m
  <2>7. p_prio[Head(m_queue[m])] \in Nat /\ p_prio[Head(m_queue[m])] <= NewPrio /\ NewPrio \in Nat
      BY <1>3, <2>5
  <2> QED
      BY <2>4, <2>6, <2>7
<1> QED
    BY <1>3, <1>4, <1>5

\* The priority of a thread that unlocks is not above both the one it falls back
\* to and that of the new owner.
LEMMA UnlockLevel ==
    ASSUME KInv, OwnersAgree, ListsSorted, NoExcess, phase = "user",
           p_mtxlist[currp] # <<>>, m_queue[ump] # <<>>
    PROVE  p_prio[currp] <= NewPrio \/ p_prio[currp] <= p_prio[Head(m_queue[ump])]
<1>1. /\ currp \in Threads /\ ump \in Mutexes /\ p_prio \in [Threads -> Nat]
      /\ p_realprio \in [Threads -> Nat]
    BY TopOwned DEF KInv, TypeOK
<1>2. NewPrio \in Nat /\ p_realprio[currp] <= NewPrio
      /\ \A v \in Threads : Keeps(v) => p_prio[v] <= NewPrio
    BY NewPrioFits
<1>3. CASE p_prio[currp] = p_realprio[currp]
    BY <1>2, <1>3
<1>4. CASE p_prio[currp] # p_realprio[currp]
  <2>1. PICK v \in Threads : Donor(v, currp) /\ p_prio[v] = p_prio[currp]
      BY <1>1, <1>4 DEF NoExcess, Excess, Excused
  <2>2. p_state[v] = "WTMTX" /\ m_owner[wtobjp[v]] = currp
      BY <2>1 DEF Donor
  <2>3. CASE wtobjp[v] # ump
      BY <1>2, <2>1, <2>2, <2>3 DEF Keeps
  <2>4. CASE wtobjp[v] = ump
    <3>1. v \in Members(m_queue[ump])
        BY <1>1, <2>2, <2>4, Runs DEF QueuePlaces
    <3> QED
        BY <1>1, <2>1, <3>1, ListsInOrder, TailSorted
  <2> QED
      BY <2>3, <2>4
<1> QED
    BY <1>3, <1>4

LEMMA chMtxUnlockOrder ==
    ASSUME KInv, OwnersAgree, ListsSorted, TopRuns, NoExcess, chMtxUnlock
    PROVE  ListsSorted' /\ TopRuns'
<1>1. phase = "user" /\ p_mtxlist[currp] # <<>> /\ UNCHANGED c_queue /\ ump \in Mutexes
    BY TopOwned DEF chMtxUnlock, Calls, condVars
<1>2. CASE Drop /\ UNCHANGED <<currp, ready, phase, p_prio>>
    BY <1>1, <1>2, OrderKept DEF Drop
<1>3. CASE /\ m_queue[ump] # <<>> /\ Give
           /\ p_prio' = Lowered /\ WakeupS(Head(m_queue[ump]), Lowered)
  <2> DEFINE tp == Head(m_queue[ump])
  <2>1. /\ tp \in Threads /\ tp # currp /\ p_state[tp] \in Asleep
        /\ m_queue' = [m_queue EXCEPT ![ump] = Tail(@)]
      BY <1>1, <1>3, FirstWaiter DEF Give, Asleep
  <2>2. /\ Lowered \in [Threads -> Nat] /\ Lowered[currp] = NewPrio
        /\ \A t \in Threads \ {currp} : Lowered[t] = p_prio[t]
      BY <1>1, LoweredType DEF Lowered, KInv, TypeOK
  <2>3. /\ SortedBy(ready, Lowered)
        /\ QueuesSorted(Mutexes, m_queue, Lowered) /\ QueuesSorted(Conds, c_queue, Lowered)
      BY <2>2, SortedWithout
  <2>4. ASSUME NEW u \in Members(ready)
        PROVE  Lowered[u] <= Lowered[currp] \/ Lowered[u] <= Lowered[tp]
    <3>1. u \in Threads /\ u # currp
        BY Runs, ListsInOrder, EmptyMembers DEF RunPlaces, Lists
    <3>2. p_prio[u] <= p_prio[currp]
        BY <1>1 DEF TopRuns
    <3>3. p_prio[currp] <= NewPrio \/ p_prio[currp] <= p_prio[tp]
        BY <1>1, <1>3, UnlockLevel
    <3>4. p_prio[u] \in Nat /\ p_prio[currp] \in Nat /\ p_prio[tp] \in Nat /\ NewPrio \in Nat
        BY <1>1, <2>1, <3>1, NewPrioFits, ListsInOrder
    <3> QED
        BY <2>1, <2>2, <3>1, <3>2, <3>3, <3>4
  <2>5. Topmost(Lowered)
    <3> HIDE DEF tp
    <3>1. WakeupS(tp, Lowered)
        BY <1>3 DEF tp
    <3> QED
        BY <2>1, <2>2, <2>3, <2>4, <3>1, ListsInOrder, WakeupOrder
  <2>6. QueuesSorted(Mutexes, m_queue', Lowered)
      BY <1>1, <1>3, <2>1, <2>2, <2>3, QueueTypes, QueuePopped
  <2> QED
      BY <1>1, <1>3, <2>3, <2>5, <2>6, OrderAgain
<1> QED
    BY <1>2, <1>3 DEF chMtxUnlock

LEMMA chCondWaitOrder ==
    ASSUME KInv, OwnersAgree, ListsSorted, NEW c \in Conds, NEW timeout \in BOOLEAN,
           chCondWait(c, timeout)
    PROVE  ListsSorted' /\ TopRuns'
<1>1. /\ p_mtxlist[currp] # <<>> /\ ump \in Mutexes /\ currp \in Threads /\ currp # Idle
      /\ p_prio \in [Threads -> Nat] /\ ready \in Lists
    BY TopOwned, CallerType, ListsInOrder DEF chCondWait, KInv
<1>2. CASE /\ m_queue[ump] = <<>> /\ UNCHANGED <<m_queue, p_prio>>
           /\ c_queue' = [c_queue EXCEPT ![c] = Insert(@, p_prio, currp)]
           /\ GoSleepS(ready, p_state, "WTCOND", timeout)
  <2>1. ready # <<>>
    <3>1. Idle \in Members(ready)
        BY <1>1, Runs, ThreadsAssumption DEF RunPlaces
    <3> QED
        BY <1>1, <3>1, EmptyMembers
  <2>2. Topmost(p_prio)
      BY <1>1, <1>2, <2>1, ListsInOrder, GoSleepOrder
  <2>3. QueuesSorted(Conds, c_queue', p_prio)
      BY <1>1, <1>2, OrderParts, QueueTypes, QueueEntered
  <2> QED
      BY <1>2, <2>2, <2>3, OrderParts, OrderAgain
<1>3. CASE /\ m_queue[ump] # <<>> /\ p_prio' = Lowered
           /\ m_queue' = [m_queue EXCEPT ![ump] = Tail(@)]
           /\ c_queue' = [c_queue EXCEPT ![c] = Insert(@, Lowered, currp)]
           /\ GoSleepS(Insert(ready, Lowered, Head(m_queue[ump])),
                       [p_state EXCEPT ![Head(m_queue[ump])] = "READY"], "WTCOND", timeout)
  <2> DEFINE tp == Head(m_queue[ump])
             rdy == Insert(ready, Lowered, tp)
  <2>1. tp \in Threads /\ p_state[tp] = "WTMTX"
      BY <1>1, <1>3, FirstWaiter
  <2>2. Lowered \in [Threads -> Nat] /\ \A t \in Threads \ {currp} : Lowered[t] = p_prio[t]
      BY <1>1, LoweredType DEF Lowered, KInv, TypeOK
  <2>3. /\ SortedBy(ready, Lowered)
        /\ QueuesSorted(Mutexes, m_queue, Lowered) /\ QueuesSorted(Conds, c_queue, Lowered)
      BY <2>2, SortedWithout
  <2>4. tp \notin Members(ready)
      BY <2>1, Runs DEF RunPlaces
  <2>5. rdy \in Lists /\ rdy # <<>> /\ SortedBy(rdy, Lowered)
    <3> HIDE DEF tp
    <3>1. rdy \in Lists /\ tp \in Members(rdy)
        BY <1>1, <2>1, <2>2, <2>4, InsertList
    <3>2. SortedBy(rdy, Lowered)
        BY <1>1, <2>1, <2>2, <2>3, InsertSorted
    <3> QED
        BY <3>1, <3>2, EmptyMembers
  <2>6. Topmost(Lowered)
    <3> HIDE DEF rdy
    <3>1. GoSleepS(rdy, [p_state EXCEPT ![tp] = "READY"], "WTCOND", timeout)
        BY <1>3 DEF rdy
    <3> QED
        BY <2>2, <2>5, <3>1, GoSleepOrder
  <2>7. QueuesSorted(Mutexes, m_queue', Lowered)
      BY <1>1, <1>3, <2>2, <2>3, QueueTypes, QueuePopped
  <2>8. QueuesSorted(Conds, c_queue', Lowered)
      BY <1>1, <1>3, <2>2, <2>3, QueueTypes, QueueEntered
  <2> QED
      BY <1>3, <2>6, <2>7, <2>8, OrderAgain
<1> QED
    BY <1>2, <1>3 DEF chCondWait

LEMMA chThdSleepOrder ==
    ASSUME KInv, ListsSorted, NEW timeout \in BOOLEAN, chThdSleep(timeout)
    PROVE  ListsSorted' /\ TopRuns'
<1>1. /\ currp # Idle /\ GoSleepS(ready, p_state, "SLEEPING", timeout)
      /\ UNCHANGED <<p_prio, m_queue, c_queue>>
    BY CallerType DEF chThdSleep, prioVars, condVars, mutexVars, KInv
<1>2. ready # <<>>
  <2>1. Idle \in Members(ready)
      BY <1>1, Runs, ThreadsAssumption DEF RunPlaces
  <2> QED
      BY <2>1, ListsInOrder, EmptyMembers
<1>3. Topmost(p_prio)
    BY <1>1, <1>2, ListsInOrder, GoSleepOrder
<1> QED
    BY <1>1, <1>3, OrderParts, OrderAgain

LEMMA chThdYieldOrder ==
    ASSUME KInv, ListsSorted, chThdYield
    PROVE  ListsSorted' /\ TopRuns'
<1>1. /\ currp # Idle /\ p_prio[Head(ready)] >= p_prio[currp] /\ DoRescheduleBehind
      /\ UNCHANGED <<p_prio, m_queue, c_queue>>
    BY CallerType DEF chThdYield, prioVars, condVars, mutexVars, KInv
<1>2. ready # <<>>
  <2>1. Idle \in Members(ready)
      BY <1>1, Runs, ThreadsAssumption DEF RunPlaces
  <2> QED
      BY <2>1, ListsInOrder, EmptyMembers
<1>3. currp' = Head(ready) /\ ready' = Insert(Tail(ready), p_prio, currp)
    BY <1>1 DEF DoRescheduleBehind, SwitchTo, Resume
<1>4. p_prio[currp] <= p_prio[Head(ready)]
  <2>1. p_prio[currp] \in Nat /\ p_prio[Head(ready)] \in Nat
      BY <1>2, ListsInOrder, TailList
  <2> QED
      BY <1>1, <2>1
<1>5. Topmost(p_prio)
    BY <1>2, <1>3, <1>4, ListsInOrder, SwapOrder
<1> QED
    BY <1>1, <1>5, OrderParts, OrderAgain

LEMMA OrderStep ==
    ASSUME KInv, OwnersAgree, ListsSorted, TopRuns, NoExcess, [Next]_vars
    PROVE  ListsSorted' /\ TopRuns'
<1> USE DEF mutexVars, condVars, prioVars
<1>1. CASE KernelStep
  <2>1. CASE BoostWTMTX \/ BoostWTCOND \/ BoostREADY \/ BoostOther
      BY <2>1, BoostOrder
  <2>2. CASE SleepOnMutex
      BY <2>2, SleepOnMutexOrder
  <2>3. CASE UnlockAllTurn
      BY <2>3, UnlockAllTurnOrder
  <2>4. CASE UnlockAllEnd
    <3> DEFINE pr == [p_prio EXCEPT ![currp] = p_realprio[currp]]
    <3>1. pr \in [Threads -> Nat] /\ \A t \in Threads \ {currp} : pr[t] = p_prio[t]
        BY DEF KInv, TypeOK
    <3> HIDE DEF pr
    <3>2. RescheduleS(pr) /\ p_prio' = pr /\ UNCHANGED <<m_queue, c_queue>>
        BY <2>4 DEF UnlockAllEnd, pr
    <3> QED
        BY <3>1, <3>2, RescheduleCallOrder
  <2>5. CASE Relock
      BY <2>5, OrderKept DEF Relock, LockS
  <2>6. CASE BroadcastTurn
    <3>1. cursor \in Conds
        BY <2>6 DEF BroadcastTurn, KInv, Control
    <3> QED
        BY <2>6, <3>1, SignalOrder DEF BroadcastTurn
  <2>7. CASE BroadcastEnd
      BY <2>7, RescheduleCallOrder DEF BroadcastEnd, KInv, TypeOK
  <2>8. CASE IsrEpilogue
    <3>1. Topmost(p_prio)
        BY <2>8, ListsInOrder, EpilogueOrder
    <3> QED
        BY <2>8, <3>1, OrderParts, OrderAgain DEF IsrEpilogue
  <2> QED
      BY <1>1, <2>1, <2>2, <2>3, <2>4, <2>5, <2>6, <2>7, <2>8 DEF KernelStep
<1>2. CASE ThreadCall
  <2>1. CASE \E m \in Mutexes : chMtxLock(m) \/ chMtxTryLock(m)
      BY <2>1, OrderKept DEF chMtxLock, chMtxTryLock, LockS, Own, Calls
  <2>2. CASE chMtxUnlock
      BY <2>2, chMtxUnlockOrder
  <2>3. CASE UnlockAllBegin \/ \E c \in Conds : chCondBroadcast(c)
      BY <2>3, OrderKept DEF UnlockAllBegin, chCondBroadcast
  <2>4. CASE \E c \in Conds : \E timeout \in BOOLEAN : chCondWait(c, timeout)
      BY <2>4, chCondWaitOrder
  <2>5. CASE \E c \in Conds : chCondSignal(c)
      BY <2>5, chCondSignalOrder
  <2>6. CASE \E newprio \in Prios : chThdSetPriority(newprio)
    <3>1. PICK newprio \in Prios : chThdSetPriority(newprio)
        BY <2>6
    <3> DEFINE pr == IF p_prio[currp] = p_realprio[currp] \/ newprio > p_prio[currp]
                     THEN [p_prio EXCEPT ![currp] = newprio] ELSE p_prio
    <3>2. pr \in [Threads -> Nat] /\ \A t \in Threads \ {currp} : pr[t] = p_prio[t]
        BY PriorityAssumption DEF KInv, TypeOK
    <3> HIDE DEF pr
    <3>3. RescheduleS(pr) /\ p_prio' = pr /\ UNCHANGED <<m_queue, c_queue>>
        BY <3>1 DEF chThdSetPriority, pr
    <3> QED
        BY <3>2, <3>3, RescheduleCallOrder
  <2>7. CASE \E timeout \in BOOLEAN : chThdSleep(timeout)
      BY <2>7, chThdSleepOrder
  <2>8. CASE chThdYield
      BY <2>8, chThdYieldOrder
  <2> QED
      BY <1>2, <2>1, <2>2, <2>3, <2>4, <2>5, <2>6, <2>7, <2>8 DEF ThreadCall
<1>3. CASE Interrupt
  <2>1. CASE chSysTimerHandlerI
      BY <2>1, OrderKept DEF chSysTimerHandlerI
  <2>2. CASE \E t \in Users : wakeup(t)
      BY <2>2, wakeupOrder
  <2>3. CASE \E c \in Conds : chCondSignalI(c)
      BY <2>3, SignalOrder DEF chCondSignalI
  <2> QED
      BY <1>3, <2>1, <2>2, <2>3 DEF Interrupt
<1>4. CASE UNCHANGED vars
    BY <1>4, OrderKept DEF vars
<1> QED
    BY <1>1, <1>2, <1>3, <1>4 DEF Next

\* What a step has to do for the inheritance; only the sufficiency depends on
\* how chThdSetPriority is used.
InheritanceKept ==
    /\ NoExcess' /\ LoopDonor'
    /\ NoLack /\ ~ MayUndercut => NoLack'

LEMMA HiddenWaiters ==
    ASSUME KInv, KInv', WaitsFor' = WaitsFor, NEW u \in Threads
    PROVE  SameWaiter(u)
<1>1. /\ p_state[u] = "WTMTX" => wtobjp[u] # None
      /\ p_state'[u] = "WTMTX" => wtobjp'[u] # None
    BY NoneIsNothing DEF KInv, Waiting
<1>2. /\ WaitsFor[u] = IF p_state[u] = "WTMTX" THEN wtobjp[u] ELSE None
      /\ WaitsFor'[u] = IF p_state'[u] = "WTMTX" THEN wtobjp'[u] ELSE None
    BY DEF WaitsFor
<1> QED
    BY <1>1, <1>2 DEF SameWaiter

\* A step that leaves the priorities, the waiters and the owners they wait for
\* alone.
LEMMA InheritKept ==
    ASSUME KInv, NoExcess, UNCHANGED prioVars,
           phase \notin {"boost", "sleep"}, phase' \notin {"boost", "sleep"},
           phase = "all" => phase' = "all" /\ currp' = currp,
           \A u \in Threads : SameWaiter(u),
           \A u \in Threads : p_state[u] = "WTMTX" => m_owner'[wtobjp[u]] = m_owner[wtobjp[u]]
    PROVE  InheritanceKept
<1>1. \A v, t \in Threads : Donor(v, t)' <=> Donor(v, t)
    BY DEF Donor, SameWaiter
<1>2. \A t \in Threads : Excess(t)' => Excess(t)
    BY <1>1 DEF Excess, prioVars
<1>3. \A t \in Threads : Excused(t) => Excused(t)'
    BY DEF Excused
<1>4. NoExcess' /\ LoopDonor'
    BY <1>2, <1>3 DEF NoExcess, LoopDonor
<1>5. NoLack => NoLack'
    BY <1>1 DEF NoLack, Covers, prioVars
<1> QED
    BY <1>4, <1>5 DEF InheritanceKept

\* The running thread starts to wait for a busy mutex: the loop begins.
LEMMA LockBusyInherits ==
    ASSUME KInv, NoExcess, phase \in {"user", "relock"}, NEW m \in Mutexes,
           m_owner[m] # None, phase' = "boost", wanted' = m, cursor' = m_owner[m],
           UNCHANGED <<currp, prioVars, p_state, wtobjp, m_owner>>
    PROVE  InheritanceKept
<1>1. /\ currp \in Threads /\ m_owner[m] \in Threads
      /\ p_prio \in [Threads -> Nat]
    BY DEF KInv, TypeOK
<1>2. \A v, t \in Threads : Donor(v, t)' <=> Donor(v, t) \/ (v = currp /\ t = cursor')
    BY DEF Donor
<1>3. \A t \in Threads : Excess(t)' => Excess(t)
    BY <1>2 DEF Excess, prioVars
<1>4. NoExcess'
    BY <1>3 DEF NoExcess, Excused
<1>5. Donor(currp, cursor)' /\ LoopDonor'
    BY <1>1, <1>2 DEF LoopDonor, prioVars
<1>6. NoLack => NoLack'
    BY <1>1, <1>2 DEF NoLack, Covers, prioVars
<1> QED
    BY <1>4, <1>5, <1>6 DEF InheritanceKept

\* A turn of the loop raises a thread to the priority of one of its donors; the
\* thread that owns what it waits for is next.
LEMMA BoostInherits ==
    ASSUME KInv, NoExcess, LoopDonor, LoopGoesOn, p_prio' = Boosted,
           UNCHANGED <<p_realprio, p_state, wtobjp, m_owner, currp, wanted>>,
           \/ p_state[cursor] = "WTMTX" /\ phase' = "boost" /\ cursor' = m_owner[wtobjp[cursor]]
           \/ p_state[cursor] # "WTMTX" /\ phase' = "sleep"
    PROVE  InheritanceKept
<1>1. /\ phase = "boost" /\ p_prio[cursor] < p_prio[currp]
      /\ currp \in Threads /\ cursor \in Threads
      /\ p_prio \in [Threads -> Nat] /\ p_realprio \in [Threads -> Nat]
      /\ p_state[cursor] = "WTMTX" => m_owner[wtobjp[cursor]] \in Threads
    BY DEF LoopGoesOn, KInv, TypeOK, Control, Waiting
<1>2. currp # cursor
    BY <1>1
<1>3. /\ \A t \in Threads \ {cursor} : p_prio'[t] = p_prio[t]
      /\ p_prio'[cursor] = p_prio[currp] /\ p_prio'[currp] = p_prio[currp]
    BY <1>1, <1>2 DEF Boosted
<1>4. \A v, t \in Threads : Donor(v, t)' <=> Donor(v, t)
    BY <1>1 DEF Donor
<1>5. PICK d \in Threads : Donor(d, cursor) /\ p_prio[d] = p_prio[currp]
    BY <1>1 DEF LoopDonor
<1>6. d # cursor
    BY <1>1, <1>5
<1>7. \A t \in Threads : Donor(cursor, t) => phase' = "boost" /\ t = cursor'
    BY <1>1, <1>2 DEF Donor
<1>8. ASSUME NEW t \in Threads, Excess(t)' PROVE Excused(t)'
  <2>1. t # cursor
      BY <1>3, <1>4, <1>5, <1>6, <1>8 DEF Excess
  <2>2. CASE Excess(t)
      BY <1>1, <2>1, <2>2 DEF NoExcess, Excused
  <2>3. CASE ~ Excess(t)
    <3>1. p_prio[t] # p_realprio[t]
        BY <1>3, <1>8, <2>1 DEF Excess
    <3>2. PICK v \in Threads : Donor(v, t) /\ p_prio[v] = p_prio[t]
        BY <2>3, <3>1 DEF Excess
    <3>3. v = cursor
        BY <1>3, <1>4, <1>8, <2>1, <3>2 DEF Excess
    <3>4. phase' = "boost" /\ t = cursor'
        BY <1>7, <3>2, <3>3
    <3> QED
        BY <1>1, <1>3, <2>1, <3>2, <3>3, <3>4 DEF Excused
  <2> QED
      BY <2>2, <2>3
<1>9. LoopDonor'
  <2> SUFFICES ASSUME phase' = "boost"
               PROVE  \E v \in Threads : Donor(v, cursor)' /\ p_prio'[v] = p_prio'[currp']
      BY DEF LoopDonor
  <2>1. p_state[cursor] = "WTMTX" /\ cursor' = m_owner[wtobjp[cursor]]
      OBVIOUS
  <2>2. Donor(cursor, cursor')
      BY <2>1 DEF Donor
  <2>3. cursor' \in Threads
      BY <1>1, <2>1
  <2>4. \A v \in Threads : Donor(v, cursor)' <=> Donor(v, cursor')
      BY <1>1 DEF Donor
  <2> QED
      BY <1>1, <1>3, <2>2, <2>4
<1>10. ASSUME NoLack PROVE NoLack'
  <2>1. ASSUME NEW t \in Threads PROVE p_realprio'[t] <= p_prio'[t]
    <3>1. p_realprio[t] <= p_prio[t]
        BY <1>10 DEF NoLack
    <3> QED
        BY <1>1, <1>3, <3>1
  <2>2. ASSUME NEW v \in Threads, NEW t \in Threads, Donor(v, t)'
        PROVE  Covers(v, t)'
    <3>1. Donor(v, t) /\ Covers(v, t)
        BY <1>4, <1>10, <2>2 DEF NoLack
    <3>2. CASE v = cursor
        BY <1>1, <1>3, <1>7, <3>1, <3>2 DEF Covers
    <3>3. CASE v # cursor /\ t = cursor
      <4>1. p_prio[v] <= p_prio[cursor] \/ p_prio[v] = p_prio[currp]
          BY <3>1, <3>3 DEF Covers
      <4>2. p_prio'[v] <= p_prio'[t]
          BY <1>1, <1>3, <3>3, <4>1
      <4> QED
          BY <4>2 DEF Covers
    <3>4. CASE v # cursor /\ t # cursor
        BY <1>3, <3>1, <3>4 DEF Covers
    <3> QED
        BY <3>2, <3>3, <3>4
  <2> QED
      BY <2>1, <2>2 DEF NoLack
<1> QED
    BY <1>8, <1>9, <1>10 DEF InheritanceKept, NoExcess

\* The loop is over: the caller goes on donating as a waiter of the mutex.
LEMMA SleepInherits ==
    ASSUME KInv, NoExcess, SleepOnMutex
    PROVE  InheritanceKept
<1>1. /\ wanted \in Mutexes /\ currp \in Threads /\ currp # Idle
      /\ phase \in {"boost", "sleep"} /\ p_prio \in [Threads -> Nat]
      /\ phase = "boost" => cursor \in Threads /\ ~ (p_prio[cursor] < p_prio[currp])
    BY DEF KInv, SleepOnMutex, LoopGoesOn, Control, TypeOK
<1>2. /\ wtobjp' = [wtobjp EXCEPT ![currp] = wanted]
      /\ GoSleepS(ready, p_state, "WTMTX", FALSE)
      /\ UNCHANGED <<prioVars, m_owner>>
      /\ p_state \in [Threads -> States] /\ "WTMTX" \in Asleep
    BY DEF SleepOnMutex, KInv, TypeOK, Asleep
<1>3. /\ Scheduled /\ p_state'[currp] = "WTMTX"
      /\ \A t \in Threads \ {currp} : \A s \in Asleep : p_state'[t] = s <=> p_state[t] = s
    BY <1>1, <1>2, Runs, GoSleepStep DEF KInv
<1>4. /\ p_state[currp] = "CURRENT" /\ phase' \in {"user", "relock"}
      /\ \A t \in Threads : wtobjp'[t] = IF t = currp THEN wanted ELSE wtobjp[t]
    BY <1>1, <1>2, <1>3, Runs DEF Scheduled, KInv, TypeOK
<1>5. ASSUME NEW v \in Threads, NEW t \in Threads PROVE Donor(v, t)' <=> Donor(v, t)
    BY <1>1, <1>2, <1>3, <1>4 DEF Donor
<1>6. \A t \in Threads : Excess(t)' => Excess(t)
    BY <1>2, <1>5 DEF Excess, prioVars
<1>7. \A t \in Threads : ~ Excused(t)
    BY <1>1 DEF Excused
<1>8. NoExcess' /\ LoopDonor'
    BY <1>4, <1>6, <1>7 DEF NoExcess, LoopDonor
<1>9. ASSUME NEW v \in Threads, NEW t \in Threads, Covers(v, t) PROVE p_prio[v] <= p_prio[t]
    BY <1>1, <1>9 DEF Covers
<1>10. NoLack => NoLack'
    BY <1>2, <1>5, <1>9 DEF NoLack, Covers, prioVars
<1> QED
    BY <1>8, <1>10 DEF InheritanceKept

\* A mutex is handed over: its other waiters now donate to the new owner, who
\* was the most urgent of them, and the running thread keeps the rest.
LEMMA GiveInherits ==
    ASSUME KInv, OwnersAgree, ListsSorted, NoExcess,
           p_mtxlist[currp] # <<>>, m_queue[ump] # <<>>,
           m_owner' = [m_owner EXCEPT ![ump] = Head(m_queue[ump])],
           p_state'[Head(m_queue[ump])] # "WTMTX",
           \A u \in Threads \ {Head(m_queue[ump])} : SameWaiter(u),
           p_realprio' = p_realprio,
           \/ phase = "all" /\ phase' = "all" /\ currp' = currp /\ p_prio' = p_prio
           \/ phase = "user" /\ phase' \in {"user", "relock"} /\ p_prio' = Lowered
    PROVE  InheritanceKept
<1> DEFINE tp == Head(m_queue[ump])
<1>1. /\ currp \in Threads /\ ump \in Mutexes /\ m_owner[ump] = currp
      /\ p_prio \in [Threads -> Nat] /\ p_realprio \in [Threads -> Nat]
    BY TopOwned DEF KInv, TypeOK
<1>2. tp \in Threads /\ tp # currp /\ p_state[tp] = "WTMTX" /\ wtobjp[tp] = ump
    BY <1>1, FirstWaiter
<1>3. \A m \in Mutexes : m_owner'[m] = IF m = ump THEN tp ELSE m_owner[m]
    BY <1>1 DEF KInv, TypeOK
<1>4. \A u \in Threads : p_state[u] = "WTMTX" => u # currp /\ wtobjp[u] \in Mutexes
    BY Runs DEF KInv, Waiting
<1>5. \A u \in Threads \ {currp} : p_prio'[u] = p_prio[u]
    BY DEF Lowered, KInv, TypeOK
<1>6. p_state'[tp] # "WTMTX" /\ \A u \in Threads \ {tp} : SameWaiter(u)
    OBVIOUS
<1>7. /\ phase \notin {"boost", "sleep"} /\ phase' \notin {"boost", "sleep"}
    OBVIOUS
<1> HIDE DEF tp
<1>8. ASSUME NEW v \in Threads, NEW t \in Threads, t # currp, Donor(v, t)
      PROVE  Donor(v, t)' /\ v # currp
  <2>1. p_state[v] = "WTMTX" /\ m_owner[wtobjp[v]] = t
      BY <1>7, <1>8 DEF Donor
  <2>2. v # currp /\ wtobjp[v] \in Mutexes /\ wtobjp[v] # ump /\ v # tp
      BY <1>1, <1>2, <1>4, <1>8, <2>1
  <2> QED
      BY <1>3, <1>6, <2>1, <2>2 DEF Donor, SameWaiter
<1>9. ASSUME NEW v \in Threads, NEW t \in Threads, t = currp, Keeps(v)
      PROVE  Donor(v, t)' /\ v # currp
  <2>1. v # currp /\ wtobjp[v] \in Mutexes /\ v # tp
      BY <1>2, <1>4, <1>9 DEF Keeps
  <2> QED
      BY <1>3, <1>6, <1>9, <2>1 DEF Donor, SameWaiter, Keeps
<1>10. ASSUME NEW v \in Threads, NEW t \in Threads, Donor(v, t)'
       PROVE  /\ v # currp
              /\ \/ t = tp /\ p_prio[v] <= p_prio[tp]
                 \/ t # currp /\ Donor(v, t)
                 \/ t = currp /\ Keeps(v) /\ Donor(v, t)
  <2>1. p_state'[v] = "WTMTX" /\ m_owner'[wtobjp'[v]] = t
      BY <1>7, <1>10 DEF Donor
  <2>2. /\ p_state[v] = "WTMTX" /\ wtobjp'[v] = wtobjp[v]
        /\ v # currp /\ wtobjp[v] \in Mutexes
      BY <1>4, <1>6, <2>1 DEF SameWaiter
  <2>3. CASE wtobjp[v] = ump
    <3>1. t = tp /\ v \in Members(m_queue[ump])
        BY <1>1, <1>3, <2>1, <2>2, <2>3, Runs DEF QueuePlaces
    <3>2. p_prio[v] <= p_prio[tp]
        BY <1>1, <3>1, ListsInOrder, TailSorted DEF tp
    <3> QED
        BY <2>2, <3>1, <3>2
  <2>4. CASE wtobjp[v] # ump
      BY <1>3, <2>1, <2>2, <2>4 DEF Donor, Keeps
  <2> QED
      BY <2>3, <2>4
<1>11. phase = "user" => p_prio'[currp] = NewPrio
    BY <1>1 DEF Lowered
<1>12. NoExcess'
  <2> SUFFICES ASSUME NEW t \in Threads, Excess(t)' PROVE Excused(t)'
      BY DEF NoExcess
  <2>1. CASE t # currp
    <3>1. p_prio[t] # p_realprio[t]
        BY <1>5, <2>1 DEF Excess
    <3>2. \A v \in Threads : Donor(v, t) => p_prio[v] # p_prio[t]
        BY <1>5, <1>8, <2>1 DEF Excess
    <3>3. Excess(t)
        BY <3>1, <3>2 DEF Excess
    <3> QED
        BY <1>7, <2>1, <3>3 DEF NoExcess, Excused
  <2>2. CASE t = currp /\ phase = "user"
    <3>1. NewPrio = p_realprio[currp] \/ \E v \in Threads : Keeps(v) /\ p_prio[v] = NewPrio
        BY NewPrioFits
    <3> QED
        BY <1>5, <1>9, <1>11, <2>2, <3>1 DEF Excess
  <2>3. CASE t = currp /\ phase = "all"
      BY <2>3 DEF Excused
  <2> QED
      BY <2>1, <2>2, <2>3
<1>13. LoopDonor'
    BY <1>7 DEF LoopDonor
<1>14. ASSUME NoLack PROVE NoLack'
  <2>1. ASSUME NEW t \in Threads PROVE p_realprio'[t] <= p_prio'[t]
      BY <1>5, <1>11, <1>14, NewPrioFits DEF NoLack
  <2>2. ASSUME NEW v \in Threads, NEW t \in Threads, Donor(v, t)'
        PROVE  p_prio'[v] <= p_prio'[t]
    <3>1. v # currp /\ p_prio'[v] = p_prio[v]
        BY <1>5, <1>10, <2>2
    <3>2. CASE t = tp /\ p_prio[v] <= p_prio[tp]
        BY <1>2, <1>5, <3>1, <3>2
    <3>3. CASE t # currp /\ Donor(v, t)
        BY <1>5, <1>7, <1>14, <3>1, <3>3 DEF NoLack, Covers
    <3>4. CASE t = currp /\ Keeps(v) /\ Donor(v, t)
      <4>1. p_prio[v] <= p_prio[currp]
          BY <1>1, <1>7, <1>14, <3>4 DEF NoLack, Covers
      <4> QED
          BY <1>11, <3>1, <3>4, <4>1, NewPrioFits
    <3> QED
        BY <1>10, <2>2, <3>2, <3>3, <3>4
  <2> QED
      BY <2>1, <2>2 DEF NoLack, Covers
<1> QED
    BY <1>12, <1>13, <1>14 DEF InheritanceKept

\* At the end of chMtxUnlockAll nobody waits for a mutex of the running thread.
LEMMA UnlockAllEndInherits ==
    ASSUME KInv, KInv', OwnersAgree, NoExcess, UnlockAllEnd
    PROVE  InheritanceKept
<1>1. /\ currp \in Threads /\ p_mtxlist[currp] = <<>> /\ phase = "all"
      /\ p_prio \in [Threads -> Nat] /\ p_realprio \in [Threads -> Nat]
      /\ p_prio' = [p_prio EXCEPT ![currp] = p_realprio[currp]] /\ p_realprio' = p_realprio
    BY DEF UnlockAllEnd, KInv, TypeOK
<1>2. phase' \in {"user", "relock"}
    BY DEF UnlockAllEnd, RescheduleS, DoRescheduleAhead, SwitchTo, Resume, Stay
<1>3. m_owner' = m_owner /\ \A u \in Threads : SameWaiter(u)
    BY RescheduleCallHidden, HiddenWaiters DEF Hidden
<1>4. \A m \in Mutexes : m_owner[m] # currp
    BY <1>1, EmptyMembers DEF OwnersAgree
<1>5. ASSUME NEW v \in Threads, NEW t \in Threads
      PROVE  /\ Donor(v, t)' <=> Donor(v, t)
             /\ Donor(v, t) => v # currp /\ t # currp
  <2>1. p_state[v] = "WTMTX" => v # currp /\ wtobjp[v] \in Mutexes
      BY Runs DEF KInv, Waiting
  <2> QED
      BY <1>1, <1>2, <1>3, <1>4, <2>1 DEF Donor, SameWaiter
<1>6. /\ \A t \in Threads \ {currp} : p_prio'[t] = p_prio[t]
      /\ p_prio'[currp] = p_realprio[currp]
    BY <1>1
<1>7. \A t \in Threads : Excess(t)' => t # currp /\ Excess(t)
    BY <1>1, <1>5, <1>6 DEF Excess
<1>8. NoExcess' /\ LoopDonor'
    BY <1>1, <1>2, <1>7 DEF NoExcess, Excused, LoopDonor
<1>9. ASSUME NoLack PROVE NoLack'
  <2>1. \A t \in Threads : p_realprio'[t] <= p_prio'[t]
      BY <1>1, <1>6, <1>9 DEF NoLack
  <2>2. \A v, t \in Threads : Donor(v, t)' => p_prio'[v] <= p_prio'[t]
      BY <1>1, <1>5, <1>6, <1>9 DEF NoLack, Covers
  <2> QED
      BY <2>1, <2>2 DEF NoLack, Covers
<1> QED
    BY <1>8, <1>9 DEF InheritanceKept

\* chThdSetPriority.  A boosted thread keeps a priority that is above its new
\* one; one that is not boosted may fall below a donor only where MayUndercut
\* allows it.
LEMMA SetPriorityInherits ==
    ASSUME KInv, KInv', NoExcess, NEW newprio \in Prios, chThdSetPriority(newprio)
    PROVE  InheritanceKept
<1>1. /\ currp \in Threads /\ phase = "user" /\ newprio \in Nat
      /\ p_prio \in [Threads -> Nat] /\ p_realprio \in [Threads -> Nat]
      /\ p_realprio' = [p_realprio EXCEPT ![currp] = newprio]
      /\ p_prio' = (IF p_prio[currp] = p_realprio[currp] \/ newprio > p_prio[currp]
                    THEN [p_prio EXCEPT ![currp] = newprio] ELSE p_prio)
      /\ Undercuts(newprio) => MayUndercut
    BY PriorityAssumption DEF chThdSetPriority, Calls, KInv, TypeOK
<1>2. phase' \in {"user", "relock"}
    BY DEF chThdSetPriority, RescheduleS, DoRescheduleAhead, SwitchTo, Resume, Stay
<1>3. m_owner' = m_owner /\ \A u \in Threads : SameWaiter(u)
    BY RescheduleCallHidden, HiddenWaiters DEF Hidden
<1>4. ASSUME NEW v \in Threads, NEW t \in Threads
      PROVE  /\ Donor(v, t)' <=> Donor(v, t)
             /\ Donor(v, t) => v # currp /\ p_state[v] = "WTMTX" /\ m_owner[wtobjp[v]] = t
  <2>1. p_state[v] = "WTMTX" => v # currp
      BY Runs
  <2> QED
      BY <1>1, <1>2, <1>3, <2>1 DEF Donor, SameWaiter
<1>5. /\ \A t \in Threads \ {currp} : p_prio'[t] = p_prio[t] /\ p_realprio'[t] = p_realprio[t]
      /\ p_realprio'[currp] = newprio
      /\ \/ p_prio'[currp] = newprio
         \/ p_prio'[currp] = p_prio[currp] /\ p_prio[currp] # p_realprio[currp]
      /\ p_prio'[currp] = newprio =>
           p_prio[currp] = p_realprio[currp] \/ p_prio[currp] <= newprio
      /\ newprio <= p_prio'[currp]
    BY <1>1
<1>6. \A t \in Threads : Excess(t)' => Excess(t)
    BY <1>4, <1>5 DEF Excess
<1>7. NoExcess' /\ LoopDonor'
    BY <1>1, <1>2, <1>6 DEF NoExcess, Excused, LoopDonor
<1>8. ASSUME NoLack, ~ MayUndercut PROVE NoLack'
  <2>1. \A t \in Threads : p_realprio'[t] <= p_prio'[t]
      BY <1>5, <1>8 DEF NoLack
  <2>2. ASSUME NEW v \in Threads, NEW t \in Threads, Donor(v, t)'
        PROVE  p_prio'[v] <= p_prio'[t]
    <3>1. Donor(v, t) /\ v # currp /\ p_prio'[v] = p_prio[v] /\ p_prio[v] <= p_prio[t]
        BY <1>1, <1>4, <1>5, <1>8, <2>2 DEF NoLack, Covers
    <3>2. CASE t # currp
        BY <1>5, <3>1, <3>2
    <3>3. CASE t = currp
      <4>1. p_prio[v] \in Inherited(currp)
          BY <1>4, <2>2, <3>3 DEF Inherited
      <4>2. p_prio[currp] = p_realprio[currp] => p_prio[v] <= newprio
          BY <1>1, <1>8, <4>1 DEF Undercuts
      <4> QED
          BY <1>1, <1>5, <3>1, <3>3, <4>2
    <3> QED
        BY <3>2, <3>3
  <2> QED
      BY <2>1, <2>2 DEF NoLack, Covers
<1> QED
    BY <1>7, <1>8 DEF InheritanceKept

\* Nobody waits for a mutex that is free, or that becomes free.
LEMMA OwnersWaitedFor ==
    ASSUME KInv, NEW m \in Mutexes, NEW o, m_owner[m] = None \/ m_queue[m] = <<>>,
           m_owner' = [m_owner EXCEPT ![m] = o]
    PROVE  \A u \in Threads : p_state[u] = "WTMTX" => m_owner'[wtobjp[u]] = m_owner[wtobjp[u]]
<1>1. m_owner \in [Mutexes -> Threads \cup {None}]
    BY DEF KInv, TypeOK
<1>2. ASSUME NEW u \in Threads, p_state[u] = "WTMTX" PROVE wtobjp[u] \in Mutexes \ {m}
  <2>1. wtobjp[u] \in Mutexes /\ m_owner[wtobjp[u]] # None
      BY <1>2 DEF KInv, Waiting
  <2>2. u \in Members(m_queue[wtobjp[u]])
      BY <1>2, <2>1, Runs DEF QueuePlaces
  <2>3. m_queue[wtobjp[u]] # <<>>
      BY <2>2, EmptyMembers
  <2> QED
      BY <2>1, <2>3
<1> QED
    BY <1>1, <1>2

LEMMA LockInherits ==
    ASSUME KInv, NoExcess, phase \in {"user", "relock"}, NEW m \in Mutexes, LockS(m),
           UNCHANGED <<currp, prioVars, p_state, wtobjp>>
    PROVE  InheritanceKept
<1>1. \A u \in Threads : SameWaiter(u)
    BY DEF SameWaiter
<1>2. CASE m_owner[m] = None /\ Own(currp, m) /\ phase' = "user"
    BY <1>1, <1>2, OwnersWaitedFor, InheritKept DEF Own
<1>3. CASE /\ m_owner[m] # None /\ phase' = "boost" /\ wanted' = m /\ cursor' = m_owner[m]
           /\ UNCHANGED m_owner
    BY <1>3, LockBusyInherits
<1> QED
    BY <1>2, <1>3 DEF LockS, mutexVars

LEMMA UnlockInherits ==
    ASSUME KInv, OwnersAgree, ListsSorted, NoExcess, chMtxUnlock \/ UnlockAllTurn
    PROVE  InheritanceKept
<1>1. /\ p_mtxlist[currp] # <<>> /\ ump \in Mutexes /\ p_realprio' = p_realprio
      /\ phase \in {"user", "all"}
    BY TopOwned DEF chMtxUnlock, UnlockAllTurn, Calls, prioVars
<1>2. CASE Drop /\ UNCHANGED p_state
  <2>1. m_queue[ump] = <<>> /\ m_owner' = [m_owner EXCEPT ![ump] = None]
      BY <1>2 DEF Drop
  <2>2. UNCHANGED <<phase, currp, p_prio>>
      BY <2>1 DEF chMtxUnlock, UnlockAllTurn, prioVars
  <2>3. \A u \in Threads : SameWaiter(u)
      BY <1>2 DEF SameWaiter, Drop
  <2>4. \A u \in Threads : p_state[u] = "WTMTX" => m_owner'[wtobjp[u]] = m_owner[wtobjp[u]]
      BY <1>1, <2>1, OwnersWaitedFor
  <2>5. UNCHANGED prioVars
      BY <1>1, <2>2 DEF prioVars
  <2> QED
      BY <1>1, <2>2, <2>3, <2>4, <2>5, InheritKept
<1>3. CASE m_queue[ump] # <<>> /\ Give /\ HandedOn
  <2>1. m_owner' = [m_owner EXCEPT ![ump] = Head(m_queue[ump])]
      BY <1>3 DEF Give
  <2>2. \/ phase = "all" /\ phase' = "all" /\ currp' = currp /\ p_prio' = p_prio
        \/ phase = "user" /\ phase' \in {"user", "relock"} /\ p_prio' = Lowered
      BY <1>3 DEF chMtxUnlock, UnlockAllTurn, Drop, Calls, prioVars, WakeupS, SwitchTo,
         Resume, Stay
  <2> QED
      BY <1>1, <1>3, <2>1, <2>2, GiveInherits DEF HandedOn
<1> QED
    BY <1>2, <1>3, UnlockWaiters

LEMMA CondWaitInherits ==
    ASSUME KInv, OwnersAgree, ListsSorted, NoExcess,
           NEW c \in Conds, NEW timeout \in BOOLEAN, chCondWait(c, timeout)
    PROVE  InheritanceKept
<1>1. /\ p_mtxlist[currp] # <<>> /\ ump \in Mutexes /\ p_realprio' = p_realprio
      /\ phase = "user"
    BY TopOwned DEF chCondWait, Calls
<1>2. phase' \in {"user", "relock"}
    BY DEF chCondWait, GoSleepS, Resume
<1>3. CASE m_queue[ump] = <<>> /\ \A u \in Threads : SameWaiter(u)
  <2>1. m_owner' = [m_owner EXCEPT ![ump] = None] /\ p_prio' = p_prio
      BY <1>3 DEF chCondWait
  <2>2. \A u \in Threads : p_state[u] = "WTMTX" => m_owner'[wtobjp[u]] = m_owner[wtobjp[u]]
      BY <1>1, <1>3, <2>1, OwnersWaitedFor
  <2>3. UNCHANGED prioVars
      BY <1>1, <2>1 DEF prioVars
  <2> QED
      BY <1>1, <1>2, <1>3, <2>2, <2>3, InheritKept
<1>4. CASE m_queue[ump] # <<>> /\ HandedOn
  <2>1. m_owner' = [m_owner EXCEPT ![ump] = Head(m_queue[ump])] /\ p_prio' = Lowered
      BY <1>4 DEF chCondWait
  <2> QED
      BY <1>1, <1>2, <1>4, <2>1, GiveInherits DEF HandedOn
<1> QED
    BY <1>3, <1>4, CondWaitWaiters

\* A step that shows nothing in the mutexes and changes no priority.
LEMMA HiddenInherits ==
    ASSUME KInv, KInv', NoExcess, Hidden, UNCHANGED prioVars,
           phase \notin {"boost", "sleep", "all"}, phase' \notin {"boost", "sleep"}
    PROVE  InheritanceKept
<1>1. m_owner' = m_owner /\ \A u \in Threads : SameWaiter(u)
    BY HiddenWaiters DEF Hidden
<1> QED
    BY <1>1, InheritKept

LEMMA SignalInherits ==
    ASSUME KInv, KInv', NoExcess,
           \/ BroadcastTurn
           \/ \E c \in Conds : chCondSignal(c) \/ chCondSignalI(c)
    PROVE  InheritanceKept
<1>1. CASE BroadcastTurn
  <2>1. cursor \in Conds
      BY <1>1 DEF BroadcastTurn, KInv, Control
  <2>2. Hidden
      BY <1>1, <2>1, SignalHidden DEF BroadcastTurn, mutexVars
  <2> QED
      BY <1>1, <2>2, HiddenInherits DEF BroadcastTurn
<1>2. ASSUME NEW c \in Conds, chCondSignal(c) PROVE InheritanceKept
  <2>1. Hidden
      BY <1>2, SignalHidden DEF chCondSignal, mutexVars
  <2>2. phase = "user" /\ phase' \in {"user", "relock"} /\ UNCHANGED prioVars
      BY <1>2 DEF chCondSignal, Calls, WakeupS, SwitchTo, Resume, Stay
  <2> QED
      BY <2>1, <2>2, HiddenInherits
<1>3. ASSUME NEW c \in Conds, chCondSignalI(c) PROVE InheritanceKept
  <2>1. Hidden
      BY <1>3, SignalHidden DEF chCondSignalI, mutexVars
  <2> QED
      BY <1>3, <2>1, HiddenInherits DEF chCondSignalI
<1> QED
    BY <1>1, <1>2, <1>3

LEMMA InheritStep ==
    ASSUME KInv, KInv', OwnersAgree, ListsSorted, NoExcess, LoopDonor, [Next]_vars
    PROVE  InheritanceKept
<1> USE DEF mutexVars, condVars, procVars
<1>1. CASE KernelStep
  <2>1. CASE BoostWTMTX \/ BoostWTCOND \/ BoostREADY \/ BoostOther
    <3>1. /\ LoopGoesOn /\ p_prio' = Boosted
          /\ UNCHANGED <<p_realprio, p_state, wtobjp, m_owner, currp, wanted>>
          /\ \/ /\ p_state[cursor] = "WTMTX" /\ phase' = phase
                /\ cursor' = m_owner[wtobjp[cursor]]
             \/ p_state[cursor] # "WTMTX" /\ phase' = "sleep"
        BY <2>1 DEF BoostWTMTX, BoostWTCOND, BoostREADY, BoostOther
    <3>2. phase = "boost"
        BY <3>1 DEF LoopGoesOn
    <3> QED
        BY <3>1, <3>2, BoostInherits
  <2>2. CASE SleepOnMutex
      BY <2>2, SleepInherits
  <2>3. CASE UnlockAllTurn
      BY <2>3, UnlockInherits
  <2>4. CASE UnlockAllEnd
      BY <2>4, UnlockAllEndInherits
  <2>5. CASE Relock
    <3>1. relock[currp] \in Mutexes
        BY <2>5 DEF Relock, KInv, TypeOK, Control
    <3> QED
        BY <2>5, <3>1, LockInherits DEF Relock
  <2>6. CASE BroadcastTurn
      BY <2>6, SignalInherits
  <2>7. CASE BroadcastEnd
    <3>1. phase = "cast" /\ phase' \in {"user", "relock"} /\ UNCHANGED prioVars
        BY <2>7 DEF BroadcastEnd, RescheduleS, DoRescheduleAhead, SwitchTo, Resume, Stay
    <3> QED
        BY <2>7, <3>1, RescheduleCallHidden, HiddenInherits
  <2>8. CASE IsrEpilogue
    <3>1. phase = "isr" /\ phase' \in {"user", "relock"} /\ UNCHANGED prioVars
        BY <2>8 DEF IsrEpilogue, DoRescheduleBehind, DoRescheduleAhead, SwitchTo, Resume, Stay
    <3> QED
        BY <2>8, <3>1, EpilogueHidden, HiddenInherits
  <2> QED
      BY <1>1, <2>1, <2>2, <2>3, <2>4, <2>5, <2>6, <2>7, <2>8 DEF KernelStep
<1>2. CASE ThreadCall
  <2>1. CASE \E m \in Mutexes : chMtxLock(m)
      BY <2>1, LockInherits DEF chMtxLock, Calls
  <2>2. CASE \E m \in Mutexes : chMtxTryLock(m)
    <3>1. PICK m \in Mutexes : chMtxTryLock(m)
        BY <2>2
    <3>2. /\ m_owner[m] = None /\ m_owner' = [m_owner EXCEPT ![m] = currp] /\ phase = "user"
          /\ UNCHANGED <<currp, phase, prioVars>> /\ \A u \in Threads : SameWaiter(u)
        BY <3>1 DEF chMtxTryLock, Own, Calls, SameWaiter
    <3>3. \A u \in Threads : p_state[u] = "WTMTX" => m_owner'[wtobjp[u]] = m_owner[wtobjp[u]]
        BY <3>2, OwnersWaitedFor
    <3> QED
        BY <3>2, <3>3, InheritKept
  <2>3. CASE chMtxUnlock
      BY <2>3, UnlockInherits
  <2>4. CASE UnlockAllBegin \/ \E c \in Conds : chCondBroadcast(c)
    <3>1. /\ UNCHANGED <<p_state, wtobjp, m_owner, prioVars>>
          /\ phase = "user" /\ phase' \in {"all", "cast"}
        BY <2>4 DEF UnlockAllBegin, chCondBroadcast, Calls
    <3> QED
        BY <3>1, SwitchHidden, HiddenInherits
  <2>5. CASE \E c \in Conds : \E timeout \in BOOLEAN : chCondWait(c, timeout)
      BY <2>5, CondWaitInherits
  <2>6. CASE \E c \in Conds : chCondSignal(c)
      BY <2>6, SignalInherits
  <2>7. CASE \E newprio \in Prios : chThdSetPriority(newprio)
      BY <2>7, SetPriorityInherits
  <2>8. CASE \E timeout \in BOOLEAN : chThdSleep(timeout)
    <3>1. phase = "user" /\ phase' \in {"user", "relock"} /\ UNCHANGED prioVars
        BY <2>8 DEF chThdSleep, Calls, GoSleepS, Resume
    <3> QED
        BY <2>8, <3>1, ThdSleepHidden, HiddenInherits
  <2>9. CASE chThdYield
    <3>1. phase = "user" /\ phase' \in {"user", "relock"} /\ UNCHANGED prioVars
        BY <2>9 DEF chThdYield, Calls, DoRescheduleBehind, SwitchTo, Resume
    <3> QED
        BY <2>9, <3>1, YieldHidden, HiddenInherits
  <2> QED
      BY <1>2, <2>1, <2>2, <2>3, <2>4, <2>5, <2>6, <2>7, <2>8, <2>9 DEF ThreadCall
<1>3. CASE Interrupt
  <2>1. CASE chSysTimerHandlerI
    <3>1. /\ UNCHANGED <<p_state, wtobjp, m_owner, prioVars>>
          /\ phase = "user" /\ phase' = "isr"
        BY <2>1 DEF chSysTimerHandlerI
    <3> QED
        BY <3>1, SwitchHidden, HiddenInherits
  <2>2. CASE \E t \in Users : wakeup(t)
    <3>1. phase = "isr" /\ phase' = "isr" /\ UNCHANGED prioVars
        BY <2>2 DEF wakeup
    <3> QED
        BY <2>2, <3>1, wakeupHidden, HiddenInherits
  <2>3. CASE \E c \in Conds : chCondSignalI(c)
      BY <2>3, SignalInherits
  <2> QED
      BY <1>3, <2>1, <2>2, <2>3 DEF Interrupt
<1>4. CASE UNCHANGED vars
  <2>1. /\ UNCHANGED <<phase, currp, loopVars, p_prio, p_realprio, p_state, wtobjp, m_owner>>
      BY <1>4 DEF vars, prioVars
  <2>2. /\ \A v, t \in Threads : Donor(v, t)' <=> Donor(v, t)
        /\ \A t \in Threads : Excused(t)' <=> Excused(t)
      BY <2>1 DEF Donor, Excused, loopVars
  <2>3. NoExcess'
      BY <2>1, <2>2 DEF NoExcess, Excess
  <2>4. LoopDonor'
      BY <2>1 DEF LoopDonor, Donor, loopVars
  <2>5. NoLack => NoLack'
      BY <2>1, <2>2 DEF NoLack, Covers, loopVars
  <2> QED
      BY <2>3, <2>4, <2>5 DEF InheritanceKept
<1> QED
    BY <1>1, <1>2, <1>3, <1>4 DEF Next

-----------------------------------------------------------------------------
(* The theorems about priorities.                                            *)

Ranked == ListsSorted /\ TopRuns /\ NoExcess /\ LoopDonor

LEMMA RankedInitially == Init => Ranked /\ NoLack
<1> SUFFICES ASSUME Init PROVE Ranked /\ NoLack
    OBVIOUS
<1>1. /\ phase = "user" /\ p_prio = Base /\ p_realprio = Base
      /\ p_state = [t \in Threads |-> IF t = currp THEN "CURRENT" ELSE "READY"]
      /\ \A m \in Mutexes : m_queue[m] = <<>>
      /\ \A c \in Conds : c_queue[c] = <<>>
      /\ \A t \in Threads : Base[t] \in Nat
    BY PriorityAssumption DEF Init
<1>2. PICK order \in [1 .. Cardinality(Threads) -> Threads] :
        /\ Members(order) = Threads
        /\ \A i, j \in DOMAIN order : i < j => Base[order[i]] >= Base[order[j]]
        /\ currp = order[1]
        /\ ready = Tail(order)
    BY DEF Init
<1>3. Cardinality(Threads) \in Nat
    BY ThreadsAssumption, FS_CardinalityType
<1>4. order \in Seq(Threads) /\ Len(order) = Cardinality(Threads) /\ order # <<>>
  <2>1. order \in Seq(Threads) /\ Len(order) = Cardinality(Threads)
      BY <1>2, <1>3
  <2>2. order # <<>>
      BY <1>2, EmptyMembers, ThreadsAssumption
  <2> QED
      BY <2>1, <2>2
<1>5. /\ Len(ready) = Len(order) - 1 /\ \A i \in 1 .. Len(ready) : ready[i] = order[i + 1]
      /\ Len(order) \in Nat \ {0}
    BY <1>2, <1>4
<1>6. \A i, j \in 1 .. Len(order) : i < j => Base[order[i]] >= Base[order[j]]
    BY <1>2, <1>4
<1>7. ListsSorted
  <2>1. ASSUME NEW i \in 1 .. Len(ready), NEW j \in 1 .. Len(ready), i < j
        PROVE  Base[ready[i]] >= Base[ready[j]]
    <3>1. i + 1 \in 1 .. Len(order) /\ j + 1 \in 1 .. Len(order) /\ i + 1 < j + 1
        BY <1>5, <2>1
    <3> QED
        BY <1>5, <1>6, <3>1
  <2>2. Len(<<>>) = 0
      OBVIOUS
  <2> QED
      BY <1>1, <2>1, <2>2 DEF ListsSorted, Sorted
<1>8. TopRuns
  <2> SUFFICES ASSUME NEW t \in Members(ready) PROVE Base[t] <= Base[currp]
      BY <1>1 DEF TopRuns
  <2>1. PICK i \in 1 .. Len(ready) : t = ready[i]
      BY DEF Members
  <2>2. i + 1 \in 1 .. Len(order) /\ 1 \in 1 .. Len(order) /\ 1 < i + 1
      BY <1>5
  <2>3. t \in Threads /\ currp \in Threads
      BY <1>2, <1>4, <1>5, <2>1, <2>2
  <2> QED
      BY <1>1, <1>2, <1>5, <1>6, <2>1, <2>2, <2>3
<1>9. NoExcess /\ LoopDonor
    BY <1>1 DEF NoExcess, Excess, LoopDonor
<1>10. NoLack
    BY <1>1 DEF NoLack, Donor
<1> QED
    BY <1>7, <1>8, <1>9, <1>10 DEF Ranked

LEMMA RankedStep ==
    ASSUME KInv, KInv', OwnersAgree, Ranked, [Next]_vars
    PROVE  Ranked' /\ (NoLack /\ ~ MayUndercut => NoLack')
<1>1. ListsSorted' /\ TopRuns'
    BY OrderStep DEF Ranked
<1>2. InheritanceKept
    BY InheritStep DEF Ranked
<1> QED
    BY <1>1, <1>2 DEF Ranked, InheritanceKept

THEOREM RankedCorrect == Spec => []Ranked
<1>1. Init => Ranked
    BY RankedInitially
<1>2. KInv /\ KInv' /\ OwnersAgree /\ Ranked /\ [Next]_vars => Ranked'
    BY RankedStep
<1> QED
    BY <1>1, <1>2, KInvCorrect, OwnersCorrect, PTL DEF Spec

\* The ready list and all the queues stay in the order of the priorities whatever
\* raises or lowers them, and whenever a thread runs with interrupts enabled no
\* ready thread is more urgent (chschd.h): for any use of the calls, those that
\* MayUndercut names included.
THEOREM PrioritiesInOrder == Spec => []InOrder
<1>1. Ranked => InOrder
    BY DEF Ranked, InOrder, HighestRuns, TopRuns
<1> QED
    BY <1>1, RankedCorrect, PTL

\* Priority inheritance is exact between two calls (chmtx.c:65): a thread has its
\* own priority or the highest of those waiting for its mutexes, provided that
\* chThdSetPriority is not used as Undercuts says.
THEOREM InheritanceIsExact ==
    ASSUME ~ MayUndercut
    PROVE  Spec => []InheritanceExact
<1>1. KInv /\ Ranked /\ NoLack => InheritanceExact
  <2> SUFFICES ASSUME KInv, Ranked, NoLack, phase \in {"user", "isr"}, NEW t \in Threads
               PROVE  /\ p_prio[t] \in {p_realprio[t]} \cup Inherited(t)
                      /\ \A p \in {p_realprio[t]} \cup Inherited(t) : p <= p_prio[t]
      BY DEF InheritanceExact
  <2>1. \A v \in Threads : Donor(v, t) <=> p_state[v] = "WTMTX" /\ m_owner[wtobjp[v]] = t
      BY DEF Donor
  <2>2. ~ Excess(t)
      BY DEF Ranked, NoExcess, Excused
  <2>3. p_prio[t] \in {p_realprio[t]} \cup Inherited(t)
      BY <2>1, <2>2 DEF Excess, Inherited
  <2>4. \A v \in Threads : Donor(v, t) => p_prio[v] <= p_prio[t]
      BY DEF NoLack, Covers
  <2>5. p_realprio[t] <= p_prio[t]
      BY DEF NoLack
  <2> QED
      BY <2>1, <2>3, <2>4, <2>5 DEF Inherited
<1>2. Init => NoLack
    BY RankedInitially
<1>3. KInv /\ KInv' /\ OwnersAgree /\ Ranked /\ NoLack /\ [Next]_vars => NoLack'
    BY RankedStep
<1> QED
    BY <1>1, <1>2, <1>3, KInvCorrect, OwnersCorrect, RankedCorrect, PTL DEF Spec

\* A thread stops waiting for a mutex only by being given it.
LEMMA WaiterLeaves ==
    ASSUME KInv, KInv', OwnersAgree, [Next]_vars,
           NEW t \in Threads, p_state[t] = "WTMTX", p_state'[t] # "WTMTX"
    PROVE  /\ wtobjp[t] \in Mutexes /\ m_owner[wtobjp[t]] # None
           /\ m_owner'[wtobjp[t]] = t /\ m_owner[wtobjp[t]] # t
<1>1. wtobjp[t] \in Mutexes /\ m_owner[wtobjp[t]] # None /\ wtobjp[t] # None
    BY NoneIsNothing DEF KInv, Waiting
<1>2. WaitsFor[t] = wtobjp[t] /\ WaitsFor'[t] = None
    BY DEF WaitsFor
<1>3. WaitsFor' # WaitsFor
    BY <1>1, <1>2
<1>4. Locks!Next
    BY <1>3, StepShown DEF Hidden
<1>5. PICK o \in Threads, m \in Mutexes :
        Locks!Take(o, m) \/ Locks!Wait(o, m) \/ Locks!Free(o, m) \/ Locks!HandOver(o, m)
    BY <1>4 DEF Locks!Next
<1>6. /\ WaitsFor = [u \in Threads |-> IF p_state[u] = "WTMTX" THEN wtobjp[u] ELSE None]
      /\ WaitsFor' = [u \in Threads |-> IF p_state'[u] = "WTMTX" THEN wtobjp'[u] ELSE None]
    BY DEF WaitsFor
<1>7. ~ Locks!Take(o, m) /\ ~ Locks!Free(o, m)
    BY <1>3, <1>6 DEF Locks!Take, Locks!Free
<1>8. ~ Locks!Wait(o, m)
  <2> SUFFICES ASSUME Locks!Wait(o, m) PROVE FALSE
      OBVIOUS
  <2>1. WaitsFor[o] = None /\ WaitsFor' = [WaitsFor EXCEPT ![o] = m]
      BY <1>6 DEF Locks!Wait
  <2>2. o # t
      BY <1>1, <1>2, <2>1
  <2> QED
      BY <1>1, <1>2, <2>1, <2>2 DEF WaitsFor
<1>9. PICK u \in Threads :
        /\ WaitsFor[o] = None /\ m_owner[m] = o /\ WaitsFor[u] = m
        /\ m_owner' = [m_owner EXCEPT ![m] = u]
        /\ WaitsFor' = [WaitsFor EXCEPT ![u] = None]
    BY <1>5, <1>6, <1>7, <1>8 DEF Locks!HandOver
<1>10. u = t
    BY <1>1, <1>2, <1>9 DEF WaitsFor
<1> QED
    BY <1>1, <1>2, <1>9, <1>10 DEF KInv, TypeOK

\* Only the unlocking calls move a mutex from one thread to another.
LEMMA OwnerMoves ==
    ASSUME KInv, [Next]_vars, NEW m \in Mutexes,
           m_owner[m] # None, m_owner'[m] # None, m_owner'[m] # m_owner[m]
    PROVE  /\ p_mtxlist[currp] # <<>> /\ m_queue[ump] # <<>> /\ m = ump
           /\ m_queue' = [m_queue EXCEPT ![ump] = Tail(@)]
           /\ p_mtxlist' = [p_mtxlist EXCEPT ![currp] = Rest,
                                             ![Head(m_queue[ump])] = <<ump>> \o @]
           /\ m_owner' = [m_owner EXCEPT ![ump] = Head(m_queue[ump])]
<1> USE DEF mutexVars
<1>1. m_owner \in [Mutexes -> Threads \cup {None}]
    BY DEF KInv, TypeOK
<1>2. m_owner' # m_owner
    OBVIOUS
<1>3. \A n \in Mutexes : m_owner[n] = None => ~ Own(currp, n)
    BY <1>1 DEF Own
<1>4. \A n \in Mutexes : ~ LockS(n)
    BY <1>2, <1>3 DEF LockS
<1>5. p_mtxlist[currp] # <<>> => m_owner' # [m_owner EXCEPT ![ump] = None]
    BY <1>1
<1>6. CASE KernelStep
  <2>1. UnlockAllTurn
    <3>1. ~ Relock
        BY <1>4 DEF Relock, KInv, TypeOK, Control
    <3> QED
        BY <1>2, <1>6, <3>1 DEF KernelStep, BoostWTMTX, BoostWTCOND, BoostREADY, BoostOther,
           SleepOnMutex, UnlockAllEnd, BroadcastTurn, BroadcastEnd, IsrEpilogue
  <2>2. p_mtxlist[currp] # <<>> /\ m_queue[ump] # <<>> /\ Give
      BY <1>5, <2>1 DEF UnlockAllTurn, Drop
  <2> QED
      BY <1>1, <2>2 DEF Give
<1>7. CASE ThreadCall
  <2>1. CASE chMtxUnlock
    <3>1. p_mtxlist[currp] # <<>> /\ m_queue[ump] # <<>> /\ Give
        BY <1>5, <2>1 DEF chMtxUnlock, Drop
    <3> QED
        BY <1>1, <3>1 DEF Give
  <2>2. CASE \E c \in Conds : \E timeout \in BOOLEAN : chCondWait(c, timeout)
    <3>1. PICK c \in Conds : \E timeout \in BOOLEAN : chCondWait(c, timeout)
        BY <2>2
    <3>2. /\ p_mtxlist[currp] # <<>> /\ m_queue[ump] # <<>>
          /\ m_owner' = [m_owner EXCEPT ![ump] = Head(m_queue[ump])]
          /\ m_queue' = [m_queue EXCEPT ![ump] = Tail(@)]
          /\ p_mtxlist' = [p_mtxlist EXCEPT ![currp] = Rest,
                                            ![Head(m_queue[ump])] = <<ump>> \o @]
        BY <1>5, <3>1 DEF chCondWait
    <3> QED
        BY <1>1, <3>2
  <2>3. ~ (\E n \in Mutexes : chMtxLock(n) \/ chMtxTryLock(n))
      BY <1>3, <1>4 DEF chMtxLock, chMtxTryLock
  <2>4. ~ (UnlockAllBegin \/ chThdYield
             \/ (\E c \in Conds : chCondSignal(c) \/ chCondBroadcast(c))
             \/ (\E newprio \in Prios : chThdSetPriority(newprio))
             \/ (\E timeout \in BOOLEAN : chThdSleep(timeout)))
      BY <1>2 DEF UnlockAllBegin, chThdYield, chCondSignal, chCondBroadcast,
         chThdSetPriority, chThdSleep
  <2> QED
      BY <1>7, <2>1, <2>2, <2>3, <2>4 DEF ThreadCall
<1>8. ~ Interrupt
    BY <1>2 DEF Interrupt, chSysTimerHandlerI, wakeup, chCondSignalI
<1>9. ~ UNCHANGED vars
    BY <1>2 DEF vars
<1> QED
    BY <1>6, <1>7, <1>8, <1>9 DEF Next

\* A thread leaves the queue of a mutex only as its owner, with the mutex on top
\* of its stack, and leaves no more urgent waiter behind (chmtx.c:45-47).
THEOREM HandsOverByPriority == Spec => HandOverByPriority
<1> DEFINE Handed(t) ==
      p_state[t] = "WTMTX" /\ p_state'[t] # "WTMTX" =>
        LET m == wtobjp[t] IN
        /\ m_owner'[m] = t
        /\ p_mtxlist'[t] # <<>> /\ Head(p_mtxlist'[t]) = m
        /\ \A w \in Members(m_queue'[m]) : p_prio[w] <= p_prio[t]
<1>1. KInv /\ KInv' /\ OwnersAgree /\ Ranked /\ [Next]_vars => [\A t \in Threads : Handed(t)]_vars
  <2> SUFFICES ASSUME KInv, KInv', OwnersAgree, Ranked, [Next]_vars,
                      NEW t \in Threads, p_state[t] = "WTMTX", p_state'[t] # "WTMTX"
               PROVE  /\ m_owner'[wtobjp[t]] = t
                      /\ p_mtxlist'[t] # <<>> /\ Head(p_mtxlist'[t]) = wtobjp[t]
                      /\ \A w \in Members(m_queue'[wtobjp[t]]) : p_prio[w] <= p_prio[t]
      OBVIOUS
  <2>1. /\ wtobjp[t] \in Mutexes /\ m_owner[wtobjp[t]] # None
        /\ m_owner'[wtobjp[t]] = t /\ m_owner[wtobjp[t]] # t /\ t # None
      BY WaiterLeaves, NoneIsNothing
  <2>2. /\ p_mtxlist[currp] # <<>> /\ m_queue[ump] # <<>> /\ wtobjp[t] = ump
        /\ m_queue' = [m_queue EXCEPT ![ump] = Tail(@)]
        /\ p_mtxlist' = [p_mtxlist EXCEPT ![currp] = Rest,
                                          ![Head(m_queue[ump])] = <<ump>> \o @]
        /\ m_owner' = [m_owner EXCEPT ![ump] = Head(m_queue[ump])]
      BY <2>1, OwnerMoves
  <2>3. ump \in Mutexes /\ t = Head(m_queue[ump]) /\ t # currp
      BY <2>1, <2>2, Runs DEF KInv, TypeOK
  <2>4. p_mtxlist[t] \in Seq(Mutexes) /\ p_mtxlist'[t] = <<ump>> \o p_mtxlist[t]
      BY <2>2, <2>3 DEF KInv, TypeOK
  <2>5. p_mtxlist'[t] # <<>> /\ Head(p_mtxlist'[t]) = ump
      BY <2>3, <2>4
  <2>6. m_queue'[ump] = Tail(m_queue[ump])
      BY <2>2, <2>3 DEF KInv, TypeOK
  <2>7. \A w \in Members(m_queue'[ump]) : p_prio[w] <= p_prio[t]
      BY <2>2, <2>3, <2>6, ListsInOrder, TailList, TailSorted DEF Ranked
  <2> QED
      BY <2>1, <2>2, <2>5, <2>7
<1> QED
    BY <1>1, KInvCorrect, OwnersCorrect, RankedCorrect, PTL DEF Spec, HandOverByPriority

=============================================================================
