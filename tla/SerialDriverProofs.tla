------------------------- MODULE SerialDriverProofs -------------------------
(***************************************************************************)
(* What holds of the I/O queues, the event listener and the serial driver  *)
(* for any threads, any size of the buffers and any length of the calls:   *)
(* counters and pointers agree, no event is lost or waited for in vain,    *)
(* and the interrupts that have to be on are.                              *)
(***************************************************************************)
EXTENDS SerialDriver, SequenceTheorems, FiniteSetTheorems, TLAPS

-----------------------------------------------------------------------------
(***************************************************************************)
(* A queue of threads: what the steps into it and out of it do.            *)
(***************************************************************************)
\* The threads of W wait in q, each once.
OnceEach(q, W) ==
    /\ \A i \in 1 .. Len(q) : q[i] \in W
    /\ \A i, j \in 1 .. Len(q) : q[i] = q[j] => i = j
    /\ \A t \in W : \E i \in 1 .. Len(q) : q[i] = t

IsQueueOf(q, W) == q \in Seq(W) /\ OnceEach(q, W)

LEMMA EmptyQueue == IsQueueOf(<<>>, {})
<1>1. <<>> \in Seq({}) /\ Len(<<>>) = 0
  BY EmptySeq
<1> QED
  BY <1>1 DEF IsQueueOf, OnceEach

LEMMA QueueOfNobody ==
    ASSUME NEW W, NEW q, IsQueueOf(q, W)
    PROVE  /\ Len(q) \in Nat
           /\ Len(q) = 0 <=> W = {}
           /\ Len(q) = 0 <=> q = <<>>
<1>a. OnceEach(q, W)
  BY DEF IsQueueOf
<1>1. q \in Seq(W)
  BY DEF IsQueueOf
<1>2. Len(q) \in Nat /\ (q # <<>> => Len(q) \in Nat \ {0}) /\ (q = <<>> => Len(q) = 0)
  BY <1>1, EmptySeq, LenProperties
<1>3. Len(q) = 0 => W = {}
  BY <1>a DEF OnceEach
<1>4. Len(q) # 0 => q[1] \in W
  BY <1>a, <1>2 DEF OnceEach
<1> QED
  BY <1>2, <1>3, <1>4

\* A thread joins at the end.
LEMMA JoinQueue ==
    ASSUME NEW W, NEW q, IsQueueOf(q, W), NEW t, t \notin W
    PROVE  /\ IsQueueOf(Append(q, t), W \cup {t})
           /\ Len(Append(q, t)) = Len(q) + 1
<1>a. OnceEach(q, W)
  BY DEF IsQueueOf
<1> DEFINE r == Append(q, t)
<1>1. q \in Seq(W) /\ Len(q) \in Nat
  BY QueueOfNobody DEF IsQueueOf
<1>2. /\ r \in Seq(W \cup {t}) /\ Len(r) = Len(q) + 1
      /\ \A i \in 1 .. Len(q) : r[i] = q[i]
      /\ r[Len(q) + 1] = t
  <2>1. q \in Seq(W \cup {t}) /\ t \in W \cup {t}
    BY <1>1, SeqMonotonic
  <2> QED
    BY <2>1, AppendProperties
<1> HIDE DEF r
<1>3. \A i \in 1 .. Len(r) : i \in 1 .. Len(q) \/ i = Len(q) + 1
  BY <1>1, <1>2
<1>4. \A i \in 1 .. Len(q) : r[i] \in W /\ r[i] # t /\ i \in 1 .. Len(r)
  <2>1. \A i \in 1 .. Len(q) : q[i] \in W /\ q[i] # t
    BY <1>a DEF OnceEach
  <2>2. Len(r) = Len(q) + 1 /\ Len(q) \in Nat /\ \A i \in 1 .. Len(q) : r[i] = q[i]
    BY <1>1, <1>2
  <2> QED
    BY <2>1, <2>2
<1>5. \A i \in 1 .. Len(r) : r[i] \in W \cup {t}
  BY <1>2, <1>3, <1>4
<1>6. \A i, j \in 1 .. Len(r) : r[i] = r[j] => i = j
  BY <1>a, <1>2, <1>3, <1>4 DEF OnceEach
<1>7. \A u \in W \cup {t} : \E i \in 1 .. Len(r) : r[i] = u
  <2>1. Len(q) + 1 \in 1 .. Len(r)
    BY <1>1, <1>2
  <2> QED
    BY <1>a, <1>2, <1>4, <2>1 DEF OnceEach
<1> QED
  BY <1>2, <1>5, <1>6, <1>7 DEF IsQueueOf, OnceEach, r

\* The part of a queue from a to b is the queue of the threads in it.
Part(q, a, b) == {q[i] : i \in a .. b}

LEMMA PartQueue ==
    ASSUME NEW W, NEW q, IsQueueOf(q, W), NEW a \in 1 .. Len(q) + 1, NEW b \in a - 1 .. Len(q)
    PROVE  /\ IsQueueOf(SubSeq(q, a, b), Part(q, a, b))
           /\ Len(SubSeq(q, a, b)) = b - a + 1
           /\ \A i \in 1 .. b - a + 1 : SubSeq(q, a, b)[i] = q[a + i - 1]
<1>a. OnceEach(q, W)
  BY DEF IsQueueOf
<1> DEFINE r == SubSeq(q, a, b)
<1>1. q \in Seq(W) /\ Len(q) \in Nat
  BY QueueOfNobody DEF IsQueueOf
<1>2. a \in Int /\ b \in Int /\ b - a + 1 \in Nat /\ \A i \in a .. b : q[i] \in Part(q, a, b)
  BY <1>1 DEF Part
<1>3. /\ r \in Seq(Part(q, a, b))
      /\ Len(r) = b - a + 1
      /\ \A i \in 1 .. b - a + 1 : r[i] = q[a + i - 1]
  BY <1>2, SubSeqProperties
<1> HIDE DEF r
<1>4. \A i \in 1 .. Len(r) : a + i - 1 \in a .. b /\ a + i - 1 \in 1 .. Len(q)
  BY <1>1, <1>2, <1>3
<1>5. \A i \in 1 .. Len(r) : r[i] \in Part(q, a, b)
  BY <1>3, <1>4 DEF Part
<1>6. \A i, j \in 1 .. Len(r) : r[i] = r[j] => i = j
  <2> SUFFICES ASSUME NEW i \in 1 .. Len(r), NEW j \in 1 .. Len(r), r[i] = r[j] PROVE i = j
    OBVIOUS
  <2>1. q[a + i - 1] = q[a + j - 1]
    BY <1>3
  <2>2. a + i - 1 = a + j - 1
    BY <1>a, <1>4, <2>1 DEF OnceEach
  <2> QED
    BY <1>2, <1>3, <2>2
<1>7. ASSUME NEW t \in Part(q, a, b) PROVE \E i \in 1 .. Len(r) : r[i] = t
  <2>1. PICK i \in a .. b : q[i] = t
    BY DEF Part
  <2>2. i - a + 1 \in 1 .. Len(r) /\ a + (i - a + 1) - 1 = i
    BY <1>2, <1>3
  <2> QED
    BY <1>3, <2>1, <2>2
<1> QED
  BY <1>3, <1>5, <1>6, <1>7 DEF IsQueueOf, OnceEach, r

\* The front of a queue and its rest are different threads.
LEMMA Parts ==
    ASSUME NEW W, NEW q, IsQueueOf(q, W), NEW m \in 0 .. Len(q)
    PROVE  /\ Part(q, 1, m) = W \ Part(q, m + 1, Len(q))
           /\ Part(q, m + 1, Len(q)) = W \ Part(q, 1, m)
<1>a. OnceEach(q, W)
  BY DEF IsQueueOf
<1>1. Len(q) \in Nat
  BY QueueOfNobody
<1>2. \A i \in 1 .. Len(q) : i \in 1 .. m \/ i \in m + 1 .. Len(q)
  BY <1>1
<1>3. /\ \A i \in 1 .. m : i \in 1 .. Len(q)
      /\ \A i \in m + 1 .. Len(q) : i \in 1 .. Len(q) /\ i \notin 1 .. m
  BY <1>1
<1>4. Part(q, 1, m) \cup Part(q, m + 1, Len(q)) = W
  BY <1>a, <1>2, <1>3 DEF Part, OnceEach
<1>5. Part(q, 1, m) \cap Part(q, m + 1, Len(q)) = {}
  BY <1>a, <1>3 DEF Part, OnceEach
<1> QED
  BY <1>4, <1>5

\* The first leaves.
LEMMA HeadLeaves ==
    ASSUME NEW W, NEW q, IsQueueOf(q, W), Len(q) # 0
    PROVE  /\ Head(q) = q[1] /\ Head(q) \in W
           /\ IsQueueOf(Tail(q), W \ {Head(q)})
           /\ Len(Tail(q)) = Len(q) - 1
<1>a. OnceEach(q, W)
  BY DEF IsQueueOf
<1>1. q \in Seq(W) /\ Len(q) \in Nat /\ Len(q) >= 1 /\ q # <<>>
  BY QueueOfNobody DEF IsQueueOf
<1>2. Tail(q) = SubSeq(q, 2, Len(q))
  BY <1>1, TailIsSubSeq
<1>3. IsQueueOf(Tail(q), Part(q, 2, Len(q))) /\ Len(Tail(q)) = Len(q) - 1
  <2>1. 2 \in 1 .. Len(q) + 1 /\ Len(q) \in 2 - 1 .. Len(q)
    BY <1>1
  <2>2. PICK a \in 1 .. Len(q) + 1 : a = 2
    BY <2>1
  <2>3. PICK b \in a - 1 .. Len(q) : b = Len(q)
    BY <2>1, <2>2
  <2>4. IsQueueOf(SubSeq(q, a, b), Part(q, a, b)) /\ Len(SubSeq(q, a, b)) = b - a + 1
    BY PartQueue
  <2>5. SubSeq(q, a, b) = Tail(q) /\ Part(q, a, b) = Part(q, 2, Len(q))
    BY <1>2, <2>2, <2>3, Zenon
  <2>6. b - a + 1 = Len(q) - 1
    BY <1>1, <2>2, <2>3
  <2> QED
    BY <2>4, <2>5, <2>6, Zenon
<1>4. Part(q, 2, Len(q)) = W \ Part(q, 1, 1)
  <2>1. 1 \in 0 .. Len(q) /\ 1 + 1 = 2
    BY <1>1
  <2>2. Part(q, 1 + 1, Len(q)) = W \ Part(q, 1, 1)
    BY <2>1, Parts
  <2> QED
    BY <2>1, <2>2
<1>5. Part(q, 1, 1) = {q[1]}
  BY DEF Part
<1>6. Head(q) = q[1]
  BY <1>1
<1>7. q[1] \in W
  BY <1>a, <1>1 DEF OnceEach
<1> QED
  BY <1>3, <1>4, <1>5, <1>6, <1>7

\* A thread leaves from anywhere.
LEMMA LeaveQueue ==
    ASSUME NEW W, NEW q, IsQueueOf(q, W), NEW t \in W
    PROVE  /\ IsQueueOf(Dequeue(q, t), W \ {t})
           /\ Len(Dequeue(q, t)) = Len(q) - 1
<1>a. OnceEach(q, W)
  BY DEF IsQueueOf
<1> DEFINE p == CHOOSE i \in DOMAIN q : q[i] = t
           front == SubSeq(q, 1, p - 1)
           back == SubSeq(q, p + 1, Len(q))
           r == front \o back
<1>1. q \in Seq(W) /\ Len(q) \in Nat /\ DOMAIN q = 1 .. Len(q)
  BY QueueOfNobody, LenProperties DEF IsQueueOf
<1>2. p \in 1 .. Len(q) /\ q[p] = t
  <2>1. \E i \in DOMAIN q : q[i] = t
    BY <1>a, <1>1 DEF OnceEach
  <2> QED
    BY <1>1, <2>1
<1> HIDE DEF p
<1>3. /\ IsQueueOf(front, Part(q, 1, p - 1)) /\ Len(front) = p - 1
      /\ \A i \in 1 .. p - 1 : front[i] = q[i]
  <2>1. 1 \in 1 .. Len(q) + 1 /\ p - 1 \in 1 - 1 .. Len(q)
    BY <1>1, <1>2
  <2> QED
    BY <1>1, <1>2, <2>1, PartQueue
<1>4. /\ IsQueueOf(back, Part(q, p + 1, Len(q))) /\ Len(back) = Len(q) - p
      /\ \A i \in 1 .. Len(q) - p : back[i] = q[p + i]
  <2>1. p + 1 \in 1 .. Len(q) + 1 /\ Len(q) \in p + 1 - 1 .. Len(q)
    BY <1>1, <1>2
  <2>2. /\ IsQueueOf(back, Part(q, p + 1, Len(q))) /\ Len(back) = Len(q) - (p + 1) + 1
        /\ \A i \in 1 .. Len(q) - (p + 1) + 1 : back[i] = q[(p + 1) + i - 1]
    BY <2>1, PartQueue
  <2>3. Len(q) - (p + 1) + 1 = Len(q) - p /\ \A i \in 1 .. Len(q) - p : (p + 1) + i - 1 = p + i
    BY <1>1, <1>2
  <2> QED
    BY <2>2, <2>3
<1> HIDE DEF front, back
<1>5. /\ r \in Seq(W) /\ Len(r) = Len(q) - 1
      /\ \A i \in 1 .. Len(q) - 1 : r[i] = IF i <= p - 1 THEN front[i] ELSE back[i - (p - 1)]
  <2>1. Part(q, 1, p - 1) \subseteq W /\ Part(q, p + 1, Len(q)) \subseteq W
    BY <1>a, <1>1, <1>2 DEF OnceEach, Part
  <2>2. front \in Seq(Part(q, 1, p - 1)) /\ back \in Seq(Part(q, p + 1, Len(q)))
    BY <1>3, <1>4 DEF IsQueueOf
  <2>3. front \in Seq(W) /\ back \in Seq(W)
    BY <2>1, <2>2, SeqMonotonic
  <2>4. Len(front) + Len(back) = Len(q) - 1
    BY <1>1, <1>2, <1>3, <1>4
  <2> QED
    BY <1>3, <2>3, <2>4, ConcatProperties
<1>6. \A i \in 1 .. Len(q) - 1 : r[i] = IF i < p THEN q[i] ELSE q[i + 1]
  <2> SUFFICES ASSUME NEW i \in 1 .. Len(q) - 1 PROVE r[i] = IF i < p THEN q[i] ELSE q[i + 1]
    OBVIOUS
  <2>1. CASE i < p
    BY <1>1, <1>2, <1>3, <1>5, <2>1
  <2>2. CASE ~ (i < p)
    <3>1. i - (p - 1) \in 1 .. Len(q) - p /\ p + (i - (p - 1)) = i + 1 /\ ~ (i <= p - 1)
      BY <1>1, <1>2, <2>2
    <3> QED
      BY <1>4, <1>5, <2>2, <3>1
  <2> QED
    BY <2>1, <2>2
<1> HIDE DEF r
<1>0. ASSUME NEW i \in 1 .. Len(r)
      PROVE  \E a \in 1 .. Len(q) : r[i] = q[a] /\ a = (IF i < p THEN i ELSE i + 1) /\ a # p
  <2>1. CASE i < p
    <3>1. i \in 1 .. Len(q) /\ r[i] = q[i] /\ i # p
      BY <1>1, <1>2, <1>5, <1>6, <2>1
    <3> QED
      BY <2>1, <3>1
  <2>2. CASE ~ (i < p)
    <3>1. i + 1 \in 1 .. Len(q) /\ r[i] = q[i + 1] /\ i + 1 # p
      BY <1>1, <1>2, <1>5, <1>6, <2>2
    <3> QED
      BY <2>2, <3>1
  <2> QED
    BY <2>1, <2>2
<1>7. \A i \in 1 .. Len(r) : r[i] \in W \ {t}
  BY <1>a, <1>0, <1>2 DEF OnceEach
<1>8. \A i, j \in 1 .. Len(r) : r[i] = r[j] => i = j
  <2> SUFFICES ASSUME NEW i \in 1 .. Len(r), NEW j \in 1 .. Len(r), r[i] = r[j] PROVE i = j
    OBVIOUS
  <2>1. PICK a \in 1 .. Len(q) : r[i] = q[a] /\ a = IF i < p THEN i ELSE i + 1
    BY <1>0
  <2>2. PICK b \in 1 .. Len(q) : r[j] = q[b] /\ b = IF j < p THEN j ELSE j + 1
    BY <1>0
  <2>3. a = b
    BY <1>a, <2>1, <2>2 DEF OnceEach
  <2> QED
    BY <1>1, <1>2, <1>5, <2>1, <2>2, <2>3
<1>9. ASSUME NEW u \in W \ {t} PROVE \E i \in 1 .. Len(r) : r[i] = u
  <2>1. PICK h \in 1 .. Len(q) : q[h] = u
    BY <1>a DEF OnceEach
  <2>2. h # p
    BY <1>2, <2>1
  <2>3. CASE h < p
    <3>1. h \in 1 .. Len(r) /\ r[h] = q[h]
      BY <1>1, <1>2, <1>5, <1>6, <2>3
    <3> QED
      BY <2>1, <3>1
  <2>4. CASE h > p
    <3>1. h - 1 \in 1 .. Len(r) /\ r[h - 1] = q[(h - 1) + 1] /\ (h - 1) + 1 = h
      BY <1>1, <1>2, <1>5, <1>6, <2>4
    <3> QED
      BY <2>1, <3>1
  <2> QED
    BY <1>2, <2>1, <2>2, <2>3, <2>4
<1>10. r = Dequeue(q, t)
  BY DEF Dequeue, r, front, back, p
<1>11. IsQueueOf(r, W \ {t})
  <2>1. r \in Seq(W \ {t})
    BY <1>5, <1>7, LenProperties, IsASeq
  <2> QED
    BY <1>7, <1>8, <1>9, <2>1 DEF IsQueueOf, OnceEach
<1> QED
  BY <1>5, <1>10, <1>11

\* A queue is a record of the four fields; its waiting list is not looked into.
Shape(q) == q = [counter |-> q.counter, rd |-> q.rd, wr |-> q.wr, waiting |-> q.waiting]

IsQueue(q) ==
    /\ Shape(q)
    /\ q.counter \in 0..Size /\ q.rd \in 0..(Size - 1) /\ q.wr \in 0..(Size - 1)

ThreadStates == [dir : {"none", "read", "write"},
                 at : {"out", "running", "waiting", "woken"}, left : Int,
                 rdymsg : {"Q_OK", "Q_TIMEOUT", "Q_RESET"}]

Listeners == [pending : SUBSET Evts, at : {"running", "waiting", "woken"},
              kind : {"one", "any", "all"}, mask : Masks,
              rdymsg : {"RDY_OK", "RDY_TIMEOUT"}, result : SUBSET Evts,
              flags : SUBSET (Flags \cup SdFlags), on : BOOLEAN]

Drivers == [on : BOOLEAN, rxne : BOOLEAN, err : BOOLEAN, txeie : BOOLEAN,
            tcie : BOOLEAN, tc : BOOLEAN, out : 0..2]

-----------------------------------------------------------------------------
(***************************************************************************)
(* The ring.                                                               *)
(***************************************************************************)
\* The remainders a ring of n slots computes with.
LEMMA Remainders ==
    ASSUME NEW n \in Nat \ {0}, NEW x \in Nat, x < 2 * n
    PROVE  /\ x < n => x % n = x
           /\ x >= n => x % n = x - n
BY SMT

LEMMA AdvanceIn ==
    ASSUME NEW p \in 0..(Size - 1)
    PROVE  /\ Advance(p) \in 0..(Size - 1)
           /\ Advance(p) = IF p = Size - 1 THEN 0 ELSE p + 1
<1>1. Size \in Nat \ {0} /\ p + 1 \in Nat /\ p + 1 < 2 * Size
  BY QueueAssumption
<1>2. p + 1 < Size => Advance(p) = p + 1
  BY <1>1, Remainders DEF Advance
<1>3. p + 1 >= Size => Advance(p) = p + 1 - Size
  BY <1>1, Remainders DEF Advance
<1> QED
  BY <1>1, <1>2, <1>3

\* Adding an item: the pointer behind the items moves with the count of them.
LEMMA OneMore ==
    ASSUME NEW p \in 0..(Size - 1), NEW c \in 0..(Size - 1)
    PROVE  Advance((p + c) % Size) = (p + c + 1) % Size
<1>1. /\ Size \in Nat \ {0} /\ p + c \in Nat /\ p + c + 1 \in Nat
      /\ p + c < 2 * Size /\ p + c + 1 < 2 * Size
  BY QueueAssumption
<1>2. CASE p + c + 1 < Size
  <2>1. p + c < Size
    BY <1>1, <1>2
  <2>2. (p + c) % Size = p + c
    BY <1>1, <2>1, Remainders
  <2>3. (p + c + 1) % Size = p + c + 1
    BY <1>1, <1>2, Remainders
  <2> QED
    BY <1>1, <1>2, <2>2, <2>3, AdvanceIn
<1>3. CASE p + c + 1 = Size
  <2>1. (p + c) % Size = p + c /\ (p + c + 1) % Size = 0
    BY <1>1, <1>3, Remainders
  <2> QED
    BY <1>1, <1>3, <2>1, AdvanceIn
<1>4. CASE p + c >= Size
  <2>1. p + c + 1 >= Size
    BY <1>1, <1>4
  <2>2. (p + c) % Size = p + c - Size
    <3>1. PICK d \in Nat : d = p + c
      BY <1>1
    <3>2. d < 2 * Size /\ d >= Size
      BY <1>1, <1>4, <3>1
    <3>3. d % Size = d - Size
      BY <1>1, <3>2, Remainders
    <3> QED
      BY <1>1, <3>1, <3>3
  <2>3. (p + c + 1) % Size = p + c + 1 - Size
    BY <1>1, <2>1, Remainders
  <2> QED
    <3>1. p + c - Size \in 0..(Size - 1) /\ p + c - Size # Size - 1
      BY <1>1, <1>4
    <3>2. Advance(p + c - Size) = p + c - Size + 1
      BY <3>1, AdvanceIn
    <3> QED
      BY <1>1, <2>2, <2>3, <3>2
<1> QED
  BY <1>1, <1>2, <1>3, <1>4

\* Taking one: the pointer before the items moves, the one behind them stays.
LEMMA OneLess ==
    ASSUME NEW p \in 0..(Size - 1), NEW c \in 1..Size
    PROVE  (Advance(p) + c - 1) % Size = (p + c) % Size
<1>1. /\ Size \in Nat \ {0} /\ p + c \in Nat /\ p + c < 2 * Size
      /\ Advance(p) = IF p = Size - 1 THEN 0 ELSE p + 1
  BY QueueAssumption, AdvanceIn
<1>2. CASE p = Size - 1
  <2>1. Advance(p) + c - 1 = c - 1 /\ c - 1 \in Nat /\ c - 1 < 2 * Size /\ c - 1 < Size
    BY <1>1, <1>2
  <2>2. (c - 1) % Size = c - 1
    BY <1>1, <2>1, Remainders
  <2>3. (p + c) % Size = p + c - Size
    <3>1. PICK d \in Nat : d = p + c
      BY <1>1
    <3>2. d < 2 * Size /\ d >= Size
      BY <1>1, <1>2, <3>1
    <3>3. d % Size = d - Size
      BY <1>1, <3>2, Remainders
    <3> QED
      BY <1>1, <3>1, <3>3
  <2>4. p + c - Size = c - 1
    BY <1>1, <1>2
  <2> QED
    BY <2>1, <2>2, <2>3, <2>4
<1>3. CASE p # Size - 1
  <2>1. Advance(p) + c - 1 = p + c
    BY <1>1, <1>3
  <2> QED
    BY <2>1
<1> QED
  BY <1>2, <1>3

\* The pointers meet when there is nothing between them, or everything.
LEMMA PointersMeet ==
    ASSUME NEW p \in 0..(Size - 1), NEW c \in 0..Size
    PROVE  (p + c) % Size = p <=> c \in {0, Size}
<1>1. Size \in Nat \ {0} /\ p + c \in Nat /\ p + c < 2 * Size
  BY QueueAssumption
<1>2. PICK d \in Nat : d = p + c
  BY <1>1
<1>3. d % Size = p <=> c \in {0, Size}
  <2>1. CASE d < Size
    <3>1. d % Size = d
      BY <1>1, <2>1, Remainders
    <3> QED
      BY <1>1, <1>2, <2>1, <3>1
  <2>2. CASE d >= Size
    <3>1. d % Size = d - Size
      BY <1>1, <1>2, <2>2, Remainders
    <3>2. d - Size = p <=> c = Size
      BY <1>1, <1>2
    <3>3. c # 0
      BY <1>1, <1>2, <2>2
    <3> QED
      BY <3>1, <3>2, <3>3
  <2> QED
    BY <1>1, <2>1, <2>2
<1> QED
  BY <1>2, <1>3

-----------------------------------------------------------------------------
(***************************************************************************)
(* The two queues.                                                         *)
(***************************************************************************)
RingIn(q) == q.wr = (q.rd + q.counter) % Size
RingOut(q) == q.wr = (q.rd + (Size - q.counter)) % Size

QueuesOK == IsQueue(iq) /\ IsQueue(oq) /\ RingsAgree

LEMMA RingsAsOperators == RingsAgree <=> RingIn(iq) /\ RingOut(oq)
BY DEF RingsAgree, RingIn, RingOut

\* chIQIsFullI and chOQIsEmptyI, which look at the pointers, say what the counter
\* says.
LEMMA FilledByCounter ==
    ASSUME NEW q, IsQueue(q), RingIn(q) \/ RingOut(q)
    PROVE  Filled(q) <=> q.counter = Size
<1>1. q.counter \in 0..Size /\ q.rd \in 0..(Size - 1) /\ Size - q.counter \in 0..Size /\ Size # 0
  BY QueueAssumption DEF IsQueue
<1>2. CASE RingIn(q)
  <2>1. q.wr = q.rd <=> q.counter \in {0, Size}
    BY <1>1, <1>2, PointersMeet DEF RingIn
  <2> QED
    BY <1>1, <2>1 DEF Filled
<1>3. CASE RingOut(q)
  <2>1. q.wr = q.rd <=> Size - q.counter \in {0, Size}
    BY <1>1, <1>3, PointersMeet DEF RingOut
  <2>2. Size - q.counter \in {0, Size} <=> q.counter \in {0, Size}
    BY <1>1, QueueAssumption
  <2> QED
    BY <1>1, <2>1, <2>2 DEF Filled
<1> QED
  BY <1>2, <1>3

\* What a change of the waiting list alone does to a queue: nothing.
LEMMA SameRing ==
    ASSUME NEW q, NEW r, IsQueue(q), Shape(r),
           r.counter = q.counter, r.rd = q.rd, r.wr = q.wr
    PROVE  /\ IsQueue(r)
           /\ RingIn(q) => RingIn(r)
           /\ RingOut(q) => RingOut(r)
BY DEF IsQueue, RingIn, RingOut

\* A byte into or out of either queue.
LEMMA ByteIn ==
    ASSUME NEW q, NEW r, IsQueue(q), Shape(r), RingIn(q), q.counter < Size,
           r.counter = q.counter + 1, r.rd = q.rd, r.wr = Advance(q.wr)
    PROVE  IsQueue(r) /\ RingIn(r)
<1>1. q.counter \in 0..(Size - 1) /\ q.rd \in 0..(Size - 1) /\ q.wr \in 0..(Size - 1)
  BY QueueAssumption DEF IsQueue
<1>2. Advance((q.rd + q.counter) % Size) = (q.rd + q.counter + 1) % Size
  BY <1>1, OneMore
<1>3. q.rd + q.counter + 1 = r.rd + r.counter
  BY <1>1
<1>4. r.counter \in 0..Size /\ r.wr \in 0..(Size - 1)
  BY <1>1, AdvanceIn, QueueAssumption
<1> QED
  BY <1>1, <1>2, <1>3, <1>4 DEF IsQueue, RingIn

LEMMA ByteOut ==
    ASSUME NEW q, NEW r, IsQueue(q), Shape(r), RingIn(q), q.counter # 0,
           r.counter = q.counter - 1, r.rd = Advance(q.rd), r.wr = q.wr
    PROVE  IsQueue(r) /\ RingIn(r)
<1>1. q.counter \in 1..Size /\ q.rd \in 0..(Size - 1) /\ q.wr \in 0..(Size - 1)
  BY QueueAssumption DEF IsQueue
<1>2. (Advance(q.rd) + q.counter - 1) % Size = (q.rd + q.counter) % Size
  BY <1>1, OneLess
<1>3. r.rd + r.counter = Advance(q.rd) + q.counter - 1
  BY <1>1
<1>4. r.counter \in 0..Size /\ r.rd \in 0..(Size - 1)
  BY <1>1, AdvanceIn, QueueAssumption
<1> QED
  BY <1>1, <1>2, <1>3, <1>4 DEF IsQueue, RingIn

LEMMA PlaceTaken ==
    ASSUME NEW q, NEW r, IsQueue(q), Shape(r), RingOut(q), q.counter # 0,
           r.counter = q.counter - 1, r.rd = q.rd, r.wr = Advance(q.wr)
    PROVE  IsQueue(r) /\ RingOut(r)
<1>1. /\ q.counter \in 1..Size /\ q.rd \in 0..(Size - 1) /\ q.wr \in 0..(Size - 1)
      /\ Size - q.counter \in 0..(Size - 1)
  BY QueueAssumption DEF IsQueue
<1>2. Advance((q.rd + (Size - q.counter)) % Size) = (q.rd + (Size - q.counter) + 1) % Size
  BY <1>1, OneMore
<1>3. q.rd + (Size - q.counter) + 1 = r.rd + (Size - r.counter)
  BY <1>1, QueueAssumption
<1>4. r.counter \in 0..Size /\ r.wr \in 0..(Size - 1)
  BY <1>1, AdvanceIn, QueueAssumption
<1> QED
  BY <1>1, <1>2, <1>3, <1>4 DEF IsQueue, RingOut

LEMMA PlaceFreed ==
    ASSUME NEW q, NEW r, IsQueue(q), Shape(r), RingOut(q), q.counter < Size,
           r.counter = q.counter + 1, r.rd = Advance(q.rd), r.wr = q.wr
    PROVE  IsQueue(r) /\ RingOut(r)
<1>1. /\ q.counter \in 0..(Size - 1) /\ q.rd \in 0..(Size - 1) /\ q.wr \in 0..(Size - 1)
      /\ Size - q.counter \in 1..Size
  BY QueueAssumption DEF IsQueue
<1>2. (Advance(q.rd) + (Size - q.counter) - 1) % Size = (q.rd + (Size - q.counter)) % Size
  BY <1>1, OneLess
<1>3. r.rd + (Size - r.counter) = Advance(q.rd) + (Size - q.counter) - 1
  BY <1>1, QueueAssumption, AdvanceIn
<1>4. r.counter \in 0..Size /\ r.rd \in 0..(Size - 1)
  BY <1>1, AdvanceIn, QueueAssumption
<1> QED
  BY <1>1, <1>2, <1>3, <1>4 DEF IsQueue, RingOut

\* The empty queues.
LEMMA NewQueues ==
    /\ IsQueue(NewQueue(0)) /\ RingIn(NewQueue(0))
    /\ IsQueue(NewQueue(Size)) /\ RingOut(NewQueue(Size))
<1>1. 0 % Size = 0
  BY QueueAssumption, Remainders
<1> QED
  BY <1>1, QueueAssumption DEF NewQueue, IsQueue, Shape, RingIn, RingOut


\* A turn of a read or a write, a timeout and a reset.
LEMMA ReadKeepsQueues ==
    ASSUME NEW t, QueuesOK, Read(t)
    PROVE  QueuesOK' /\ oq' = oq /\ iq'.counter <= iq.counter
<1> USE RingsAsOperators
<1>1. IsQueue(iq) /\ RingIn(iq) /\ IsQueue(oq) /\ RingOut(oq)
  BY DEF QueuesOK
<1>2. CASE Empty
  <2>1. iq' = [iq EXCEPT !.waiting = Append(@, t)] /\ oq' = oq
    BY <1>2 DEF Read
  <2>2. Shape(iq') /\ iq'.counter = iq.counter /\ iq'.rd = iq.rd /\ iq'.wr = iq.wr
    BY <1>1, <2>1 DEF IsQueue, Shape
  <2>3. IsQueue(iq') /\ RingIn(iq')
    BY <1>1, <2>2, SameRing
  <2> QED
    BY <1>1, <2>1, <2>2, <2>3 DEF QueuesOK, RingsAgree, RingIn, RingOut, IsQueue
<1>3. CASE ~ Empty
  <2>1. iq' = [iq EXCEPT !.counter = @ - 1, !.rd = Advance(@)] /\ oq' = oq
    BY <1>3 DEF Read
  <2>2. Shape(iq') /\ iq'.counter = iq.counter - 1 /\ iq'.rd = Advance(iq.rd) /\ iq'.wr = iq.wr
    BY <1>1, <2>1 DEF IsQueue, Shape
  <2>3. IsQueue(iq') /\ RingIn(iq')
    BY <1>1, <1>3, <2>2, ByteOut DEF Empty
  <2> QED
    BY <1>1, <2>1, <2>2, <2>3 DEF QueuesOK, RingsAgree, RingIn, RingOut, IsQueue
<1> QED
  BY <1>2, <1>3

LEMMA WriteKeepsQueues ==
    ASSUME NEW t, QueuesOK, Write(t)
    PROVE  QueuesOK' /\ iq' = iq /\ (Full => oq'.counter = oq.counter)
<1> USE RingsAsOperators
<1>1. IsQueue(iq) /\ RingIn(iq) /\ IsQueue(oq) /\ RingOut(oq)
  BY DEF QueuesOK
<1>2. CASE Full
  <2>1. oq' = [oq EXCEPT !.waiting = Append(@, t)] /\ iq' = iq
    BY <1>2 DEF Write
  <2>2. Shape(oq') /\ oq'.counter = oq.counter /\ oq'.rd = oq.rd /\ oq'.wr = oq.wr
    BY <1>1, <2>1 DEF IsQueue, Shape
  <2>3. IsQueue(oq') /\ RingOut(oq')
    BY <1>1, <2>2, SameRing
  <2> QED
    BY <1>1, <2>1, <2>2, <2>3 DEF QueuesOK, RingsAgree, RingIn, RingOut, IsQueue
<1>3. CASE ~ Full
  <2>1. oq' = [oq EXCEPT !.counter = @ - 1, !.wr = Advance(@)] /\ iq' = iq
    BY <1>3 DEF Write
  <2>2. Shape(oq') /\ oq'.counter = oq.counter - 1 /\ oq'.rd = oq.rd /\ oq'.wr = Advance(oq.wr)
    BY <1>1, <2>1 DEF IsQueue, Shape
  <2>3. IsQueue(oq') /\ RingOut(oq')
    BY <1>1, <1>3, <2>2, PlaceTaken DEF Full
  <2> QED
    BY <1>1, <1>3, <2>1, <2>2, <2>3 DEF QueuesOK, RingsAgree, RingIn, RingOut, IsQueue
<1> QED
  BY <1>2, <1>3

LEMMA TimeoutKeepsQueues ==
    ASSUME NEW t, QueuesOK, QTimeout(t)
    PROVE  QueuesOK' /\ iq'.counter = iq.counter /\ oq'.counter = oq.counter
<1>1. IsQueue(iq) /\ RingIn(iq) /\ IsQueue(oq) /\ RingOut(oq)
  BY RingsAsOperators DEF QueuesOK
<1>2. /\ iq' = [iq EXCEPT !.waiting = Dequeue(@, t)] \/ iq' = iq
      /\ oq' = [oq EXCEPT !.waiting = Dequeue(@, t)] \/ oq' = oq
  BY DEF QTimeout
<1>3. /\ Shape(iq') /\ iq'.counter = iq.counter /\ iq'.rd = iq.rd /\ iq'.wr = iq.wr
      /\ Shape(oq') /\ oq'.counter = oq.counter /\ oq'.rd = oq.rd /\ oq'.wr = oq.wr
  BY <1>1, <1>2 DEF IsQueue, Shape
<1>4. IsQueue(iq') /\ RingIn(iq') /\ IsQueue(oq') /\ RingOut(oq')
  BY <1>1, <1>3, SameRing
<1> QED
  BY <1>3, <1>4 DEF QueuesOK, RingsAgree, RingIn, RingOut, IsQueue

LEMMA ResetKeepsQueues ==
    ASSUME QReset
    PROVE  QueuesOK' /\ iq'.counter = 0 /\ oq'.counter = Size
<1>1. iq' = NewQueue(0) /\ oq' = NewQueue(Size)
  BY DEF QReset
<1>2. IsQueue(iq') /\ RingIn(iq') /\ IsQueue(oq') /\ RingOut(oq')
  BY <1>1, NewQueues
<1> QED
  BY <1>1, <1>2 DEF QueuesOK, RingsAgree, RingIn, RingOut, IsQueue, NewQueue

\* The interrupt handler: at most a byte into one and out of the other.
LEMMA ServiceKeepsQueues ==
    ASSUME QueuesOK, ServeInterrupt
    PROVE  /\ QueuesOK'
           /\ oq'.counter = IF Sent THEN oq.counter + 1 ELSE oq.counter
           /\ iq'.counter = IF Stored THEN iq.counter + 1 ELSE iq.counter
<1>1. IsQueue(iq) /\ RingIn(iq) /\ IsQueue(oq) /\ RingOut(oq)
  BY RingsAsOperators DEF QueuesOK
<1>0. /\ Stored => iq.counter < Size
      /\ Sent => oq.counter < Size
  <2>1. Filled(iq) <=> iq.counter = Size
    BY <1>1, FilledByCounter
  <2>2. Filled(oq) <=> oq.counter = Size
    BY <1>1, FilledByCounter
  <2>3. iq.counter \in 0..Size /\ oq.counter \in 0..Size
    BY <1>1 DEF IsQueue
  <2> QED
    BY <2>1, <2>2, <2>3, QueueAssumption DEF Stored, Sent
<1>2. iq' = (IF Stored THEN Input ELSE iq) /\ oq' = (IF Sent THEN Output ELSE oq)
  BY DEF ServeInterrupt
<1>3. IsQueue(iq') /\ RingIn(iq') /\ iq'.counter = IF Stored THEN iq.counter + 1 ELSE iq.counter
  <2>1. CASE Stored
    <3>1. iq' = [iq EXCEPT !.counter = @ + 1, !.wr = Advance(@), !.waiting = Rest(iq)]
      BY <1>2, <2>1 DEF Input
    <3>2. /\ Shape(iq') /\ iq'.counter = iq.counter + 1 /\ iq'.rd = iq.rd
          /\ iq'.wr = Advance(iq.wr)
      BY <1>1, <3>1 DEF IsQueue, Shape
    <3> QED
      BY <1>1, <1>0, <2>1, <3>2, ByteIn
  <2> QED
    BY <1>1, <1>2, <2>1
<1>4. IsQueue(oq') /\ RingOut(oq') /\ oq'.counter = IF Sent THEN oq.counter + 1 ELSE oq.counter
  <2>1. CASE Sent
    <3>1. oq' = [oq EXCEPT !.counter = @ + 1, !.rd = Advance(@), !.waiting = Rest(oq)]
      BY <1>2, <2>1 DEF Output
    <3>2. /\ Shape(oq') /\ oq'.counter = oq.counter + 1 /\ oq'.rd = Advance(oq.rd)
          /\ oq'.wr = oq.wr
      BY <1>1, <3>1 DEF IsQueue, Shape
    <3> QED
      BY <1>1, <1>0, <2>1, <3>2, PlaceFreed
  <2> QED
    BY <1>1, <1>2, <2>1
<1> QED
  BY <1>3, <1>4 DEF QueuesOK, RingsAgree, RingIn, RingOut


-----------------------------------------------------------------------------
(***************************************************************************)
(* The listener.                                                           *)
(***************************************************************************)
ListenerOK(e) ==
    /\ e \in Listeners
    /\ e.at = "waiting" => ~ Satisfied(e)
    /\ e.at = "woken" /\ e.rdymsg = "RDY_OK" => Satisfied(e)

LEMMA SignalKeepsListener ==
    ASSUME NEW e, ListenerOK(e), NEW m \in SUBSET Evts
    PROVE  /\ ListenerOK(SignalI(e, m))
           /\ SignalI(e, m).on = e.on /\ SignalI(e, m).flags = e.flags
           /\ e.pending \subseteq SignalI(e, m).pending
<1> DEFINE n == [e EXCEPT !.pending = @ \cup m]
<1>1. /\ n \in Listeners /\ n.at = e.at /\ n.rdymsg = e.rdymsg /\ n.kind = e.kind
      /\ n.mask = e.mask /\ n.pending = e.pending \cup m /\ n.on = e.on /\ n.flags = e.flags
  BY DEF ListenerOK, Listeners
<1>2. Satisfied(e) => Satisfied(n)
  BY <1>1 DEF Satisfied
<1>3. CASE n.at = "waiting" /\ Satisfied(n)
  <2>1. SignalI(e, m) = [n EXCEPT !.at = "woken", !.rdymsg = "RDY_OK"]
    BY <1>3 DEF SignalI
  <2>2. Satisfied(SignalI(e, m)) /\ SignalI(e, m) \in Listeners
    BY <1>1, <1>3, <2>1 DEF Satisfied, Listeners
  <2> QED
    BY <1>1, <2>1, <2>2 DEF ListenerOK, Listeners
<1>4. CASE ~ (n.at = "waiting" /\ Satisfied(n))
  <2>1. SignalI(e, m) = n
    BY <1>4 DEF SignalI
  <2> QED
    BY <1>1, <1>2, <1>4, <2>1 DEF ListenerOK
<1> QED
  BY <1>3, <1>4

LEMMA BroadcastKeepsListener ==
    ASSUME NEW e, ListenerOK(e), NEW f \in SUBSET (Flags \cup SdFlags)
    PROVE  /\ ListenerOK(BroadcastFlagsI(e, f))
           /\ BroadcastFlagsI(e, f).on = e.on
           /\ BroadcastFlagsI(e, f).flags = IF e.on THEN e.flags \cup f ELSE e.flags
           /\ e.pending \subseteq BroadcastFlagsI(e, f).pending
<1> DEFINE n == [e EXCEPT !.flags = @ \cup f]
<1>1. /\ n \in Listeners /\ n.at = e.at /\ n.rdymsg = e.rdymsg /\ n.kind = e.kind
      /\ n.mask = e.mask /\ n.pending = e.pending /\ n.on = e.on /\ n.flags = e.flags \cup f
  BY DEF ListenerOK, Listeners
<1>2. ListenerOK(n)
  BY <1>1 DEF ListenerOK, Satisfied
<1>3. {Source} \in SUBSET Evts
  BY DEF Evts
<1>4. CASE e.on
  <2>1. BroadcastFlagsI(e, f) = SignalI(n, {Source})
    BY <1>4 DEF BroadcastFlagsI
  <2>2. /\ ListenerOK(SignalI(n, {Source}))
        /\ SignalI(n, {Source}).on = n.on /\ SignalI(n, {Source}).flags = n.flags
        /\ n.pending \subseteq SignalI(n, {Source}).pending
    <3> HIDE DEF n
    <3> QED
      BY <1>2, <1>3, SignalKeepsListener
  <2> QED
    BY <1>1, <1>4, <2>1, <2>2
<1>5. CASE ~ e.on
  BY <1>5 DEF BroadcastFlagsI
<1> QED
  BY <1>4, <1>5

LEMMA TakeKeepsListener ==
    ASSUME NEW e \in Listeners
    PROVE  /\ ListenerOK(Take(e)) /\ Take(e).on = e.on /\ Take(e).flags = e.flags
           /\ Take(e).mask = e.mask
           /\ Take(e).pending = e.pending \ Take(e).result
           /\ Take(e).result \cap e.pending \subseteq e.mask
<1>1. Taken(e) \in SUBSET Evts /\ Taken(e) \cap e.pending \subseteq e.mask
  BY DEF Taken, Lowest, Listeners, Masks, Evts
<1>2. Take(e) = [e EXCEPT !.at = "running", !.result = Taken(e), !.pending = @ \ Taken(e)]
  BY DEF Take
<1>3. Take(e) \in Listeners
  BY <1>1, <1>2 DEF Listeners
<1>4. /\ Take(e).at = "running" /\ Take(e).on = e.on /\ Take(e).flags = e.flags
      /\ Take(e).mask = e.mask /\ Take(e).result = Taken(e)
      /\ Take(e).pending = e.pending \ Taken(e)
  BY <1>2 DEF Listeners
<1> QED
  BY <1>1, <1>3, <1>4 DEF ListenerOK

\* Every step of the listening thread, and what others signal.
ListenerSteps ==
    \/ \E kind \in {"one", "any", "all"}, m \in Masks : EvtWait(kind, m)
    \/ EvtWaitReturn \/ EvtTimeout
    \/ EvtRegister \/ EvtUnregister \/ EvtGetAndClearFlags
    \/ \E m \in Masks : EvtGetAndClear(m) \/ EvtAdd(m)
    \/ EvtSignal({Other})
    \/ \E f \in Flags : EvtBroadcast({f})

\* Whatever leaves the pending events has been taken.
KeptStep ==
    \A x \in evt.pending \ evt'.pending :
      \/ x \in evt'.result /\ x \in evt'.mask
      \/ \E m \in Masks : x \in m /\ EvtGetAndClear(m)

LEMMA ListenerKept ==
    ASSUME ListenerOK(evt), ListenerSteps
    PROVE  ListenerOK(evt') /\ KeptStep
<1>0. evt \in Listeners
  BY DEF ListenerOK
<1>1. ASSUME NEW kind \in {"one", "any", "all"}, NEW m \in Masks, EvtWait(kind, m)
      PROVE  ListenerOK(evt') /\ KeptStep
  <2> DEFINE w == [evt EXCEPT !.kind = kind, !.mask = m]
  <2>1. w \in Listeners /\ w.pending = evt.pending /\ w.mask = m /\ w.at = "running"
    BY <1>0, <1>1 DEF Listeners, EvtWait
  <2>2. CASE Satisfied(w)
    <3>1. evt' = Take(w)
      BY <1>1, <2>2 DEF EvtWait
    <3> QED
      BY <2>1, <3>1, TakeKeepsListener DEF KeptStep
  <2>3. CASE ~ Satisfied(w)
    <3>1. evt' = [w EXCEPT !.at = "waiting"]
      BY <1>1, <2>3 DEF EvtWait
    <3>2. /\ evt' \in Listeners /\ evt'.at = "waiting" /\ evt'.pending = w.pending
          /\ evt'.kind = w.kind /\ evt'.mask = w.mask
      BY <2>1, <3>1 DEF Listeners
    <3> QED
      BY <2>1, <2>3, <3>2 DEF ListenerOK, Satisfied, KeptStep
  <2> QED
    BY <2>2, <2>3
<1>2. ASSUME EvtWaitReturn PROVE ListenerOK(evt') /\ KeptStep
  <2>1. CASE evt.rdymsg = "RDY_OK"
    <3>1. evt' = Take(evt)
      BY <1>2, <2>1 DEF EvtWaitReturn
    <3> QED
      BY <1>0, <3>1, TakeKeepsListener DEF KeptStep
  <2>2. CASE evt.rdymsg # "RDY_OK"
    <3>1. evt' = [evt EXCEPT !.at = "running", !.result = {}]
      BY <1>2, <2>2 DEF EvtWaitReturn
    <3> QED
      BY <1>0, <3>1 DEF ListenerOK, Listeners, KeptStep
  <2> QED
    BY <2>1, <2>2
<1>3. ASSUME EvtTimeout PROVE ListenerOK(evt') /\ KeptStep
  BY <1>0, <1>3 DEF EvtTimeout, ListenerOK, Listeners, KeptStep
<1>4. ASSUME EvtRegister \/ EvtUnregister \/ EvtGetAndClearFlags
      PROVE  ListenerOK(evt') /\ KeptStep
  <2>1. /\ evt' \in Listeners /\ evt'.at = "running" /\ evt'.pending = evt.pending
    BY <1>0, <1>4 DEF EvtRegister, EvtUnregister, EvtGetAndClearFlags, Listeners
  <2> QED
    BY <2>1 DEF ListenerOK, KeptStep
<1>5. ASSUME NEW m \in Masks, EvtGetAndClear(m) PROVE ListenerOK(evt') /\ KeptStep
  <2>1. evt' \in Listeners /\ evt'.at = "running" /\ evt'.pending = evt.pending \ m
    BY <1>0, <1>5 DEF EvtGetAndClear, Listeners
  <2>2. \A x \in evt.pending \ evt'.pending : x \in m
    BY <2>1
  <2> QED
    BY <1>5, <2>1, <2>2 DEF ListenerOK, KeptStep
<1>6. ASSUME NEW m \in Masks, EvtAdd(m) PROVE ListenerOK(evt') /\ KeptStep
  <2>1. evt' \in Listeners /\ evt'.at = "running" /\ evt'.pending = evt.pending \cup m
    BY <1>0, <1>6 DEF EvtAdd, Listeners, Masks
  <2> QED
    BY <2>1 DEF ListenerOK, KeptStep
<1>7. ASSUME EvtSignal({Other}) PROVE ListenerOK(evt') /\ KeptStep
  <2>1. {Other} \in SUBSET Evts /\ evt' = SignalI(evt, {Other})
    BY <1>7 DEF EvtSignal, Evts
  <2> QED
    BY <2>1, SignalKeepsListener DEF KeptStep
<1>8. ASSUME NEW f \in Flags, EvtBroadcast({f}) PROVE ListenerOK(evt') /\ KeptStep
  <2>1. evt' = BroadcastFlagsI(evt, {f}) /\ {f} \in SUBSET (Flags \cup SdFlags)
    BY <1>8 DEF EvtBroadcast
  <2> QED
    BY <2>1, BroadcastKeepsListener DEF KeptStep
<1> QED
  BY <1>1, <1>2, <1>3, <1>4, <1>5, <1>6, <1>7, <1>8 DEF ListenerSteps


-----------------------------------------------------------------------------
(***************************************************************************)
(* The invariant. Unless the client is careless a stopped driver has       *)
(* nothing queued for it and nobody on the way into its output queue; a    *)
(* listener is registered from the start where input is looked at.         *)
(***************************************************************************)
StoppedIsQuiet ==
    ~ sd.on =>
      /\ oq.counter = Size
      /\ \A t \in Threads : thr[t].dir = "write" =>
           thr[t].at = "waiting" \/ (thr[t].at = "woken" /\ thr[t].rdymsg # "Q_OK")

\* What a client gets who neither starts a driver that sends nor stops one under a
\* thread on its way into the output queue.
Orderly == ~ Careless => TransmitEnabled /\ StoppedIsQuiet

Registered == use = "input" => evt.on

Inv ==
    /\ QueuesOK
    /\ ListenerOK(evt)
    /\ thr \in [Threads -> ThreadStates]
    /\ sd \in Drivers
    /\ told \in BOOLEAN
    /\ Orderly
    /\ Registered
    /\ InputAnnounced

LEMMA InitInv == Init => Inv
<1> SUFFICES ASSUME Init PROVE Inv
  OBVIOUS
<1>1. iq = NewQueue(0) /\ oq = NewQueue(Size) /\ thr = [t \in Threads |-> Outside]
  BY DEF Init, QInit
<1>2. QueuesOK
  BY <1>1, NewQueues, RingsAsOperators DEF QueuesOK
<1>3. evt = NewListener(use = "input")
  BY DEF Init
<1>4. ListenerOK(evt) /\ Registered
  <2>1. PICK b \in BOOLEAN : b <=> (use = "input")
    OBVIOUS
  <2>2. b = (use = "input")
    BY <2>1, Zenon
  <2>3. evt = NewListener(b)
    BY <1>3, <2>2, Zenon
  <2>4. {Source} \in Masks /\ {} \in SUBSET Evts /\ {} \in SUBSET (Flags \cup SdFlags)
    BY DEF Masks, Evts
  <2>5. evt \in Listeners /\ evt.at = "running" /\ evt.on = b
    BY <2>3, <2>4 DEF NewListener, Listeners
  <2> QED
    BY <2>1, <2>5 DEF ListenerOK, Registered
<1>5. thr \in [Threads -> ThreadStates] /\ \A t \in Threads : thr[t].dir = "none"
  <2>1. Outside \in ThreadStates /\ Outside.dir = "none"
    BY DEF Outside, ThreadStates
  <2> QED
    BY <1>1, <2>1
<1>6. sd \in Drivers /\ ~ sd.on /\ told \in BOOLEAN
  <2>1. Quiet \in Drivers /\ Quiet.on = FALSE
    BY DEF Quiet, Drivers
  <2> QED
    BY <2>1 DEF Init
<1>7. iq.counter = 0 /\ oq.counter = Size
  BY <1>1 DEF NewQueue
<1>8. Orderly
  BY <1>5, <1>6, <1>7 DEF Orderly, StoppedIsQuiet, TransmitEnabled
<1>9. InputAnnounced
  BY <1>7 DEF InputAnnounced
<1> QED
  BY <1>2, <1>4, <1>5, <1>6, <1>8, <1>9 DEF Inv

\* Threads that are made ready keep the shape of a thread.
LEMMA WokenThreads ==
    ASSUME thr \in [Threads -> ThreadStates], NEW ts,
           NEW msg \in {"Q_OK", "Q_TIMEOUT", "Q_RESET"}
    PROVE  /\ WokenWith(msg, ts) \in [Threads -> ThreadStates]
           /\ \A t \in Threads :
                /\ WokenWith(msg, ts)[t].dir = thr[t].dir
                /\ t \notin ts => WokenWith(msg, ts)[t] = thr[t]
                /\ t \in ts => /\ WokenWith(msg, ts)[t].at = "woken"
                               /\ WokenWith(msg, ts)[t].rdymsg = msg
<1> DEFINE w == WokenWith(msg, ts)
           r(t) == [thr[t] EXCEPT !.at = "woken", !.rdymsg = msg]
<1>1. ASSUME NEW t \in Threads
      PROVE  r(t) \in ThreadStates /\ r(t).dir = thr[t].dir /\ r(t).at = "woken" /\ r(t).rdymsg = msg
  <2>1. thr[t] \in ThreadStates
    OBVIOUS
  <2> QED
    BY <2>1 DEF ThreadStates
<1>2. ASSUME NEW t \in Threads
      PROVE  /\ t \in ts => w[t] = r(t)
             /\ t \notin ts => w[t] = thr[t]
  BY DEF WokenWith
<1>3. w = [t \in Threads |-> w[t]]
  BY DEF WokenWith
<1> HIDE DEF w, r
<1>4. ASSUME NEW t \in Threads
      PROVE  /\ w[t] \in ThreadStates /\ w[t].dir = thr[t].dir
             /\ t \notin ts => w[t] = thr[t]
             /\ t \in ts => w[t].at = "woken" /\ w[t].rdymsg = msg
  <2>1. CASE t \in ts
    BY <1>1, <1>2, <2>1
  <2>2. CASE t \notin ts
    <3>1. w[t] = thr[t] /\ thr[t] \in ThreadStates
      BY <1>2, <2>2
    <3> QED
      BY <2>2, <3>1
  <2> QED
    BY <2>1, <2>2
<1>5. w \in [Threads -> ThreadStates]
  BY <1>3, <1>4
<1> QED
  BY <1>4, <1>5 DEF w

\* What a turn of a call does to its thread.
LEMMA TurnThreads ==
    ASSUME thr \in [Threads -> ThreadStates], NEW t \in Threads,
           NEW dir \in {"read", "write"}, Turn(t, dir), QWait(t) \/ ByteDone(t)
    PROVE  /\ thr' \in [Threads -> ThreadStates]
           /\ \A u \in Threads \ {t} : thr'[u] = thr[u]
           /\ thr'[t].dir \in {"none", dir}
<1>1. thr[t] \in ThreadStates
  OBVIOUS
<1>2. /\ [thr[t] EXCEPT !.at = "waiting"] \in ThreadStates
      /\ [thr[t] EXCEPT !.at = "waiting"].dir = dir
  BY <1>1 DEF ThreadStates, Turn
<1>3. /\ [thr[t] EXCEPT !.at = "running", !.left = thr[t].left - 1] \in ThreadStates
      /\ [thr[t] EXCEPT !.at = "running", !.left = thr[t].left - 1].dir = dir
  <2>1. PICK n \in Int : n = thr[t].left - 1
    BY <1>1 DEF ThreadStates
  <2>2. /\ [thr[t] EXCEPT !.at = "running", !.left = n] \in ThreadStates
        /\ [thr[t] EXCEPT !.at = "running", !.left = n].dir = dir
    BY <1>1 DEF ThreadStates, Turn
  <2> QED
    BY <2>1, <2>2, Zenon
<1>4. Outside \in ThreadStates /\ Outside.dir = "none"
  BY DEF Outside, ThreadStates
<1>5. PICK r \in ThreadStates : r.dir \in {"none", dir} /\ thr' = [thr EXCEPT ![t] = r]
  <2>1. CASE QWait(t)
    <3>1. thr' = [thr EXCEPT ![t] = [thr[t] EXCEPT !.at = "waiting"]]
      BY <2>1 DEF QWait
    <3> QED
      BY <1>2, <3>1
  <2>2. CASE ByteDone(t)
    <3>1. \/ thr' = [thr EXCEPT ![t] = Outside]
          \/ thr' = [thr EXCEPT ![t] = [thr[t] EXCEPT !.at = "running", !.left = thr[t].left - 1]]
      <4>1. CASE thr[t].left = 1
        BY <2>2, <4>1 DEF ByteDone
      <4>2. CASE thr[t].left # 1
        BY <2>2, <4>2 DEF ByteDone
      <4> QED
        BY <4>1, <4>2
    <3> QED
      BY <1>3, <1>4, <3>1
  <2> QED
    BY <2>1, <2>2
<1> QED
  BY <1>5

-----------------------------------------------------------------------------
(***************************************************************************)
(* Each step keeps the invariant.                                          *)
(***************************************************************************)
LEMMA StartKeepsInv == Inv /\ sdStart => Inv'
<1> SUFFICES ASSUME Inv, sdStart PROVE Inv'
  OBVIOUS
<1>1. /\ iq' = iq /\ oq' = oq /\ thr' = thr /\ evt' = evt
      /\ told' = told /\ use' = use
  BY DEF sdStart
<1>2. sd' \in Drivers /\ sd'.on
  <2>1. \A n \in 0..2 : /\ [Quiet EXCEPT !.on = TRUE, !.out = n] \in Drivers
                        /\ [Quiet EXCEPT !.on = TRUE, !.out = n].on
    BY DEF Quiet, Drivers
  <2>2. PICK n \in 0..2 : n = IF use = "output" THEN 1 ELSE 0
    OBVIOUS
  <2>3. CASE sd.on
    <3>1. sd' = [sd EXCEPT !.txeie = FALSE, !.tcie = FALSE, !.tc = FALSE, !.err = FALSE]
      BY <2>3 DEF sdStart
    <3> QED
      BY <2>3, <3>1 DEF Inv, Drivers
  <2>4. CASE ~ sd.on
    <3>1. sd' = [Quiet EXCEPT !.on = TRUE, !.out = n]
      BY <2>2, <2>4 DEF sdStart
    <3> QED
      BY <2>1, <3>1
  <2> QED
    BY <2>3, <2>4
<1>3. QueuesOK' /\ ListenerOK(evt')
  BY <1>1 DEF Inv, QueuesOK, RingsAgree
<1>4. Orderly'
  <2> SUFFICES ASSUME ~ Careless PROVE TransmitEnabled' /\ StoppedIsQuiet'
    BY DEF Orderly
  <2>1. TransmitEnabled /\ StoppedIsQuiet /\ (sd.on => ~ Sending)
    BY DEF Inv, Orderly, sdStart
  <2>2. ~ (oq.counter < Size)
    BY <2>1, QueueAssumption DEF TransmitEnabled, StoppedIsQuiet, Sending
  <2> QED
    BY <1>1, <1>2, <2>2 DEF TransmitEnabled, StoppedIsQuiet
<1>5. Registered' /\ InputAnnounced'
  BY <1>1 DEF Inv, Registered, InputAnnounced
<1> QED
  BY <1>1, <1>2, <1>3, <1>4, <1>5 DEF Inv

LEMMA StopKeepsInv == Inv /\ sdStop => Inv'
<1> SUFFICES ASSUME Inv, sdStop PROVE Inv'
  OBVIOUS
<1>1. QReset /\ evt' = evt /\ use' = use /\ told' = FALSE /\ sd' = Quiet
  BY DEF sdStop
<1>2. sd' \in Drivers /\ ~ sd'.on /\ told' \in BOOLEAN
  <2>1. Quiet \in Drivers /\ Quiet.on = FALSE
    BY DEF Quiet, Drivers
  <2> QED
    BY <1>1, <2>1
<1>3. QueuesOK' /\ iq'.counter = 0 /\ oq'.counter = Size
  BY <1>1, ResetKeepsQueues
<1> DEFINE ts == Range(iq.waiting) \cup Range(oq.waiting)
<1>4. thr' = WokenWith("Q_RESET", ts)
  BY <1>1 DEF QReset
<1> HIDE DEF ts
<1>5. /\ thr' \in [Threads -> ThreadStates]
      /\ \A t \in Threads : /\ thr'[t].dir = thr[t].dir
                            /\ t \notin ts => thr'[t] = thr[t]
                            /\ t \in ts => thr'[t].at = "woken" /\ thr'[t].rdymsg = "Q_RESET"
  BY <1>4, WokenThreads DEF Inv
<1>6. ~ Careless => StoppedIsQuiet'
  <2>1. ASSUME ~ Careless, NEW t \in Threads, thr'[t].dir = "write"
        PROVE  thr'[t].at = "waiting" \/ (thr'[t].at = "woken" /\ thr'[t].rdymsg # "Q_OK")
    <3>1. thr[t].at = "waiting"
      BY <1>5, <2>1 DEF sdStop
    <3>2. CASE t \in ts
      BY <1>5, <3>2
    <3>3. CASE t \notin ts
      <4>1. thr'[t] = thr[t]
        BY <1>5, <3>3
      <4> QED
        BY <3>1, <4>1
    <3> QED
      BY <3>2, <3>3
  <2> QED
    BY <1>3, <2>1 DEF StoppedIsQuiet
<1>7. Orderly' /\ InputAnnounced'
  BY <1>2, <1>3, <1>6 DEF Orderly, TransmitEnabled, InputAnnounced
<1>8. ListenerOK(evt') /\ Registered'
  BY <1>1 DEF Inv, Registered
<1> QED
  BY <1>2, <1>3, <1>5, <1>7, <1>8 DEF Inv

\* A turn of the listening thread.
LEMMA ListenerKeepsInv == Inv /\ Listener => Inv'
<1> SUFFICES ASSUME Inv, Listener PROVE Inv'
  OBVIOUS
<1>1. iq' = iq /\ oq' = oq /\ thr' = thr /\ sd' = sd /\ use' = use
  BY DEF Listener
<1>2. ListenerSteps
  <2>1. {Source} \in Masks
    BY DEF Masks, Evts
  <2> QED
    BY <2>1 DEF Listener, ListenerCall, OthersSignal, ListenerSteps
<1>3. ListenerOK(evt')
  BY <1>2, ListenerKept DEF Inv
<1>4. told' \in BOOLEAN
  BY Zenon DEF Listener
<1>5. use = "input" => evt'.on = evt.on
  <2> SUFFICES ASSUME use = "input" PROVE evt'.on = evt.on
    OBVIOUS
  <2>0. evt \in Listeners
    BY DEF Inv, ListenerOK
  <2>1. CASE EvtWaitReturn
    <3>1. evt' = Take(evt) \/ evt' = [evt EXCEPT !.at = "running", !.result = {}]
      BY <2>1 DEF EvtWaitReturn
    <3> QED
      BY <2>0, <3>1, TakeKeepsListener DEF Listeners
  <2>2. CASE EvtTimeout \/ EvtGetAndClearFlags
    BY <2>0, <2>2 DEF EvtTimeout, EvtGetAndClearFlags, Listeners
  <2>3. CASE EvtWait("any", {Source})
    <3> DEFINE w == [evt EXCEPT !.kind = "any", !.mask = {Source}]
    <3>1. w \in Listeners /\ w.on = evt.on
      BY <2>0 DEF Listeners, Masks, Evts
    <3>2. evt' = Take(w) \/ evt' = [w EXCEPT !.at = "waiting"]
      BY <2>3 DEF EvtWait
    <3> HIDE DEF w
    <3> QED
      BY <3>1, <3>2, TakeKeepsListener DEF Listeners
  <2> QED
    BY <2>1, <2>2, <2>3 DEF Listener
<1>6. Registered'
  BY <1>1, <1>5 DEF Inv, Registered
<1>7. InputAnnounced'
  <2> SUFFICES ASSUME use = "input", iq.counter > 0
               PROVE  told' \/ "INPUT_AVAILABLE" \in evt'.flags
    BY <1>1 DEF InputAnnounced
  <2>1. told \/ "INPUT_AVAILABLE" \in evt.flags
    BY DEF Inv, InputAnnounced
  <2>2. told' <=> (told \/ "INPUT_AVAILABLE" \in evt.flags \ evt'.flags)
    BY DEF Listener
  <2> QED
    BY <2>1, <2>2
<1>8. QueuesOK' /\ Orderly'
  BY <1>1 DEF Inv, QueuesOK, RingsAgree, Orderly, TransmitEnabled, StoppedIsQuiet
<1> QED
  BY <1>1, <1>3, <1>4, <1>6, <1>7, <1>8 DEF Inv

\* The steps of a call.
LEMMA CallKeepsInv ==
    ASSUME Inv, NEW t \in Threads, SdCall(t)
    PROVE  Inv'
<1>1. /\ sd.on /\ iq' = iq /\ oq' = oq /\ evt' = evt /\ sd' = sd /\ told' = told /\ use' = use
  BY DEF SdCall, QCall
<1>2. thr' \in [Threads -> ThreadStates]
  <2>1. PICK n \in 1..MaxCall, dir \in {"read", "write"} : QCall(t, dir, n)
    BY DEF SdCall
  <2>2. [dir |-> dir, at |-> "running", left |-> n, rdymsg |-> "Q_OK"] \in ThreadStates
    BY DEF ThreadStates
  <2>3. thr' = [thr EXCEPT ![t] = [dir |-> dir, at |-> "running", left |-> n, rdymsg |-> "Q_OK"]]
    BY <2>1 DEF QCall
  <2> QED
    BY <2>2, <2>3 DEF Inv
<1>3. QueuesOK' /\ InputAnnounced' /\ Registered' /\ ListenerOK(evt')
  BY <1>1 DEF Inv, QueuesOK, RingsAgree, InputAnnounced, Registered
<1>4. Orderly'
  BY <1>1 DEF Inv, Orderly, TransmitEnabled, StoppedIsQuiet
<1> QED
  BY <1>1, <1>2, <1>3, <1>4 DEF Inv

LEMMA ReadKeepsInv ==
    ASSUME Inv, NEW t \in Threads, SdRead(t)
    PROVE  Inv'
<1>1. /\ Read(t) /\ evt' = evt /\ sd' = sd /\ use' = use
      /\ told' = (told /\ iq'.counter > 0)
  BY DEF SdRead
<1>2. QueuesOK' /\ oq' = oq /\ iq'.counter <= iq.counter
  BY <1>1, ReadKeepsQueues DEF Inv
<1>3. /\ thr' \in [Threads -> ThreadStates]
      /\ \A u \in Threads \ {t} : thr'[u] = thr[u]
      /\ thr'[t].dir \in {"none", "read"}
  <2>1. Turn(t, "read") /\ (QWait(t) \/ ByteDone(t))
    BY <1>1 DEF Read
  <2> QED
    BY <2>1, TurnThreads DEF Inv
<1>4. Registered' /\ ListenerOK(evt')
  BY <1>1 DEF Inv, Registered
<1>5. Orderly'
  BY <1>1, <1>2, <1>3 DEF Inv, Orderly, TransmitEnabled, StoppedIsQuiet
<1>6. told' \in BOOLEAN
  BY <1>1, Zenon
<1>7. InputAnnounced'
  <2>1. iq.counter \in Nat /\ iq'.counter \in Nat
    BY <1>2, QueueAssumption DEF Inv, QueuesOK, IsQueue
  <2>2. iq'.counter > 0 => iq.counter > 0
    BY <1>2, <2>1
  <2>3. iq'.counter > 0 => (told' <=> told)
    BY <1>1, Zenon
  <2> QED
    BY <1>1, <2>2, <2>3 DEF Inv, InputAnnounced
<1> QED
  BY <1>1, <1>2, <1>3, <1>4, <1>5, <1>6, <1>7 DEF Inv

LEMMA WriteKeepsInv ==
    ASSUME Inv, NEW t \in Threads, SdWrite(t)
    PROVE  Inv'
<1>1. Write(t) /\ evt' = evt /\ use' = use /\ told' = told
  BY DEF SdWrite
<1>2. QueuesOK' /\ iq' = iq /\ (Full => oq'.counter = oq.counter)
  BY <1>1, WriteKeepsQueues DEF Inv
<1>3. Turn(t, "write") /\ (QWait(t) \/ ByteDone(t))
  BY <1>1 DEF Write
<1>4. thr' \in [Threads -> ThreadStates]
  BY <1>3, TurnThreads DEF Inv
\* Nobody is on the way into the output queue of a stopped driver.
<1>5. ~ Careless => sd.on
  BY <1>3 DEF Inv, Orderly, StoppedIsQuiet, Turn
<1>6. /\ sd' \in Drivers /\ sd'.on = sd.on
      /\ Full => sd' = sd
      /\ ~ Full => sd'.txeie = sd.on
  <2>1. CASE Full
    BY <2>1 DEF SdWrite, Inv
  <2>2. CASE ~ Full
    <3>1. sd' = [sd EXCEPT !.txeie = sd.on] /\ sd \in Drivers
      BY <2>2 DEF SdWrite, Inv
    <3> QED
      BY <2>2, <3>1 DEF Drivers
  <2> QED
    BY <2>1, <2>2
<1>7. Orderly'
  BY <1>2, <1>5, <1>6 DEF Inv, Orderly, TransmitEnabled, StoppedIsQuiet
<1>8. Registered' /\ InputAnnounced' /\ ListenerOK(evt')
  BY <1>1, <1>2 DEF Inv, Registered, InputAnnounced
<1> QED
  BY <1>1, <1>2, <1>4, <1>6, <1>7, <1>8 DEF Inv

LEMMA ReturnKeepsInv ==
    ASSUME Inv, NEW t \in Threads, SdReturn(t)
    PROVE  Inv'
<1>1. /\ iq' = iq /\ oq' = oq /\ evt' = evt /\ sd' = sd /\ told' = told /\ use' = use
      /\ thr' = [thr EXCEPT ![t] = Outside]
  BY DEF SdReturn, GiveUp
<1>2. Outside \in ThreadStates /\ Outside.dir = "none"
  BY DEF Outside, ThreadStates
<1>3. /\ thr' \in [Threads -> ThreadStates]
      /\ \A u \in Threads : u = t \/ thr'[u] = thr[u]
      /\ thr'[t].dir = "none"
  BY <1>1, <1>2 DEF Inv
<1>4. QueuesOK' /\ InputAnnounced' /\ Registered' /\ ListenerOK(evt')
  BY <1>1 DEF Inv, QueuesOK, RingsAgree, InputAnnounced, Registered
<1>5. Orderly'
  BY <1>1, <1>3 DEF Inv, Orderly, TransmitEnabled, StoppedIsQuiet
<1> QED
  BY <1>1, <1>3, <1>4, <1>5 DEF Inv

LEMMA TimeoutKeepsInv ==
    ASSUME Inv, NEW t \in Threads, SdTimeout(t)
    PROVE  Inv'
<1>1. QTimeout(t) /\ evt' = evt /\ sd' = sd /\ told' = told /\ use' = use
  BY DEF SdTimeout
<1>2. QueuesOK' /\ iq'.counter = iq.counter /\ oq'.counter = oq.counter
  BY <1>1, TimeoutKeepsQueues DEF Inv
<1>3. /\ thr' \in [Threads -> ThreadStates]
      /\ \A u \in Threads : /\ thr'[u].dir = thr[u].dir
                            /\ u \notin {t} => thr'[u] = thr[u]
                            /\ u \in {t} => thr'[u].at = "woken" /\ thr'[u].rdymsg = "Q_TIMEOUT"
  <2>1. thr' = WokenWith("Q_TIMEOUT", {t})
    BY <1>1 DEF QTimeout
  <2> QED
    BY <2>1, WokenThreads DEF Inv
<1>4. InputAnnounced' /\ Registered' /\ ListenerOK(evt')
  BY <1>1, <1>2 DEF Inv, InputAnnounced, Registered
<1>5. Orderly'
  BY <1>1, <1>2, <1>3 DEF Inv, Orderly, TransmitEnabled, StoppedIsQuiet
<1> QED
  BY <1>1, <1>2, <1>3, <1>4, <1>5 DEF Inv

\* The interrupt handler. It writes CR1 back from its copy, and takes TXEIE away
\* only where the output queue is empty.
LEMMA ServiceKeepsInv == Inv /\ ServeInterrupt => Inv'
<1> SUFFICES ASSUME Inv, ServeInterrupt PROVE Inv'
  OBVIOUS
<1>0. /\ sd.on /\ evt' = AddFlagsI(evt, Raised) /\ sd' = AfterService
      /\ told' = told /\ use' = use
  BY DEF ServeInterrupt, Request
<1>1. /\ QueuesOK'
      /\ oq'.counter = IF Sent THEN oq.counter + 1 ELSE oq.counter
      /\ iq'.counter = IF Stored THEN iq.counter + 1 ELSE iq.counter
  BY ServiceKeepsQueues DEF Inv
<1>2. thr' \in [Threads -> ThreadStates]
  <2> DEFINE ts == (IF Stored THEN First(iq) ELSE {}) \cup (IF Sent THEN First(oq) ELSE {})
  <2>1. thr' = WokenWith("Q_OK", ts)
    BY DEF ServeInterrupt
  <2> HIDE DEF ts
  <2> QED
    BY <2>1, WokenThreads DEF Inv
<1>3. /\ sd' \in Drivers /\ sd'.on
      /\ sd'.txeie <=> (sd.txeie /\ (sd.tc \/ ~ Drained))
  <2>1. PICK a \in BOOLEAN : a = (sd.txeie /\ (sd.tc \/ ~ Drained))
    BY Zenon
  <2>2. PICK b \in BOOLEAN : b = ((sd.tcie \/ Drained) /\ ~ sd.tc)
    BY Zenon
  <2>3. PICK n \in 0..2 : n = IF Sent THEN sd.out + 1 ELSE sd.out
    BY DEF Sent, TxEmpty, Inv, Drivers
  <2>4. sd' = [sd EXCEPT !.rxne = FALSE, !.err = FALSE, !.tc = FALSE, !.txeie = a,
                         !.tcie = b, !.out = n]
    BY <1>0, <2>1, <2>2, <2>3 DEF AfterService
  <2>5. sd' \in Drivers /\ sd'.on = sd.on /\ sd'.txeie = a
    BY <2>4 DEF Inv, Drivers
  <2> QED
    BY <1>0, <2>1, <2>5
<1>4. TransmitEnabled => TransmitEnabled'
  <2> SUFFICES ASSUME TransmitEnabled, oq'.counter < Size PROVE sd'.txeie
    BY DEF TransmitEnabled
  <2>1. oq.counter < Size /\ oq.counter # Size
    BY <1>1, QueueAssumption DEF Inv, QueuesOK, IsQueue
  <2>2. sd.txeie
    BY <1>0, <2>1 DEF TransmitEnabled
  <2>3. ~ Drained
    <3>1. Filled(oq) <=> oq.counter = Size
      BY FilledByCounter, RingsAsOperators DEF Inv, QueuesOK
    <3> QED
      BY <2>1, <3>1 DEF Drained
  <2> QED
    BY <1>3, <2>2, <2>3
<1>5. /\ ListenerOK(evt') /\ evt'.on = evt.on
      /\ evt'.flags = IF evt.on THEN evt.flags \cup Raised ELSE evt.flags
  <2>1. Raised \in SUBSET (Flags \cup SdFlags)
    BY DEF Raised, SdFlags
  <2>2. CASE Raised = {}
    BY <1>0, <2>2 DEF AddFlagsI, Inv
  <2>3. CASE Raised # {}
    <3>1. evt' = BroadcastFlagsI(evt, Raised)
      BY <1>0, <2>3 DEF AddFlagsI
    <3> QED
      BY <2>1, <3>1, BroadcastKeepsListener DEF Inv
  <2> QED
    BY <2>2, <2>3
<1>6. Registered'
  BY <1>0, <1>5 DEF Inv, Registered
<1>7. InputAnnounced'
  <2> SUFFICES ASSUME use = "input", iq'.counter > 0
               PROVE  told \/ "INPUT_AVAILABLE" \in evt'.flags
    BY <1>0 DEF InputAnnounced
  <2>1. CASE iq.counter > 0
    BY <1>5, <2>1 DEF Inv, InputAnnounced
  <2>2. CASE ~ (iq.counter > 0)
    <3>1. iq.counter = 0 /\ Stored
      BY <1>1, <2>2, QueueAssumption DEF Inv, QueuesOK, IsQueue
    <3>2. "INPUT_AVAILABLE" \in Raised
      BY <3>1 DEF Raised, Stored, Empty
    <3> QED
      BY <1>5, <3>2 DEF Inv, Registered
  <2> QED
    BY <2>1, <2>2
<1>8. Orderly'
  BY <1>3, <1>4 DEF Inv, Orderly, StoppedIsQuiet
<1> QED
  BY <1>0, <1>1, <1>2, <1>3, <1>5, <1>6, <1>7, <1>8 DEF Inv

\* The line.
LEMMA LineKeepsInv == Inv /\ (ByteArrives \/ FrameOut) => Inv'
<1> SUFFICES ASSUME Inv, ByteArrives \/ FrameOut PROVE Inv'
  OBVIOUS
<1>1. /\ iq' = iq /\ oq' = oq /\ thr' = thr /\ evt' = evt /\ told' = told /\ use' = use
  BY DEF ByteArrives, FrameOut
<1>2. sd' \in Drivers /\ sd'.on = sd.on /\ sd'.txeie = sd.txeie
  <2>0. sd \in Drivers
    BY DEF Inv
  <2>1. CASE ByteArrives
    <3>1. sd' = [sd EXCEPT !.err = TRUE] \/ sd' = [sd EXCEPT !.rxne = TRUE]
      BY <2>1 DEF ByteArrives
    <3> QED
      BY <2>0, <3>1 DEF Drivers
  <2>2. CASE FrameOut
    <3>1. PICK b \in BOOLEAN : b = (sd.out = 1)
      BY Zenon
    <3>2. sd' = [sd EXCEPT !.out = sd.out - 1, !.tc = b]
      BY <2>2, <3>1 DEF FrameOut
    <3>3. PICK n \in 0..2 : n = sd.out - 1
      BY <2>0, <2>2 DEF FrameOut, Drivers
    <3>4. sd' = [sd EXCEPT !.out = n, !.tc = b]
      BY <3>2, <3>3
    <3> QED
      BY <2>0, <3>4 DEF Drivers
  <2> QED
    BY <2>1, <2>2
<1>3. QueuesOK' /\ InputAnnounced' /\ Registered' /\ ListenerOK(evt')
  BY <1>1, <1>2 DEF Inv, QueuesOK, RingsAgree, InputAnnounced, Registered
<1>4. Orderly'
  BY <1>1, <1>2 DEF Inv, Orderly, TransmitEnabled, StoppedIsQuiet
<1> QED
  BY <1>1, <1>2, <1>3, <1>4 DEF Inv

LEMMA StepKeepsInv == Inv /\ [Next]_vars => Inv'
<1> SUFFICES ASSUME Inv, [Next]_vars PROVE Inv'
  OBVIOUS
<1>1. CASE sdStart
  BY <1>1, StartKeepsInv
<1>2. CASE sdStop
  BY <1>2, StopKeepsInv
<1>3. CASE Listener
  BY <1>3, ListenerKeepsInv
<1>4. ASSUME NEW t \in Threads, SdCall(t) \/ SdRead(t) \/ SdWrite(t) \/ SdReturn(t) \/ SdTimeout(t)
      PROVE  Inv'
  BY <1>4, CallKeepsInv, ReadKeepsInv, WriteKeepsInv, ReturnKeepsInv, TimeoutKeepsInv
<1>5. CASE ServeInterrupt
  BY <1>5, ServiceKeepsInv
<1>6. CASE ByteArrives \/ FrameOut
  BY <1>6, LineKeepsInv
<1>7. CASE UNCHANGED vars
  BY <1>7 DEF vars, Inv, QueuesOK, RingsAgree, Orderly, TransmitEnabled, StoppedIsQuiet,
              Registered, InputAnnounced
<1> QED
  BY <1>1, <1>2, <1>3, <1>4, <1>5, <1>6, <1>7 DEF Next

LEMMA InvHolds == Spec => []Inv
<1> QED
  BY InitInv, StepKeepsInv, PTL DEF Spec

-----------------------------------------------------------------------------
\* The counter and the pointers of both rings agree whatever calls, interrupts,
\* timeouts and stops interleave, for any size of the rings.
THEOREM RingsCorrect == Spec => []RingsAgree
<1>1. Inv => RingsAgree
  BY DEF Inv, QueuesOK
<1> QED
  BY <1>1, InvHolds, PTL

\* The listening thread sleeps only while what it waits for is missing, and finds
\* it when it has been woken.
THEOREM EventsCorrect == Spec => []EventsAgree
<1>1. Inv => EventsAgree
  BY DEF Inv, ListenerOK, EventsAgree
<1> QED
  BY <1>1, InvHolds, PTL

\* A pending event stays pending until the listening thread takes it.
THEOREM EventsNotLost == Spec => EventsKept
<1>1. Inv /\ [Next]_vars => [KeptStep]_evt
  <2> SUFFICES ASSUME Inv, Next, evt' # evt PROVE KeptStep
    BY DEF vars
  <2>1. CASE Listener
    <3>1. {Source} \in Masks
      BY DEF Masks, Evts
    <3>2. ListenerSteps
      BY <2>1, <3>1 DEF Listener, ListenerCall, OthersSignal, ListenerSteps
    <3> QED
      BY <3>2, ListenerKept DEF Inv
  <2>2. CASE ServeInterrupt
    <3>1. Raised \in SUBSET (Flags \cup SdFlags)
      BY DEF Raised, SdFlags
    <3>2. evt' = BroadcastFlagsI(evt, Raised)
      BY <2>2 DEF ServeInterrupt, AddFlagsI
    <3>3. evt.pending \subseteq evt'.pending
      BY <3>1, <3>2, BroadcastKeepsListener DEF Inv
    <3> QED
      BY <3>3 DEF KeptStep
  <2> QED
    BY <2>1, <2>2 DEF Next, sdStart, sdStop, SdCall, SdRead, SdWrite, SdReturn, SdTimeout,
                      ByteArrives, FrameOut
<1> QED
  BY <1>1, InvHolds, PTL DEF Spec, EventsKept, KeptStep

\* While bytes wait in the output queue of a started driver the transmit interrupt
\* is on, although every pass of the handler writes CR1 back from a copy, for a client
\* who neither starts a driver that sends nor stops one under a thread on its way into
\* the output queue. The condition is needed: sdStart writes CR1 without TXEIE,
\* and nobody else switches the interrupt on for the threads that sleep.
THEOREM TransmitInterruptOn ==
    ASSUME Careless = FALSE
    PROVE  Spec => []TransmitEnabled
<1>1. Inv => TransmitEnabled
  BY DEF Inv, Orderly
<1> QED
  BY <1>1, InvHolds, PTL

\* A listener registered from the start never misses the bytes in the input queue.
THEOREM InputIsAnnounced == Spec => []InputAnnounced
<1>1. Inv => InputAnnounced
  BY DEF Inv
<1> QED
  BY <1>1, InvHolds, PTL

-----------------------------------------------------------------------------
(***************************************************************************)
(* The threads that wait in the two queues, and those made ready for a     *)
(* byte. A side is a queue with the threads that wait in it, W, and those  *)
(* that were made ready for one of its bytes and have not run, K.          *)
(***************************************************************************)
WaitsIn(dir) == {t \in Threads : thr[t].dir = dir /\ thr[t].at = "waiting"}

SideOK(q, W, K) ==
    /\ IsQueueOf(q.waiting, W)
    /\ q.waiting # <<>> => q.counter <= Cardinality(K)

SidesOK ==
    /\ SideOK(iq, WaitsIn("read"), WokenOk("read"))
    /\ SideOK(oq, WaitsIn("write"), WokenOk("write"))

LEMMA FewThreads ==
    ASSUME NEW K \in SUBSET Threads
    PROVE  IsFiniteSet(K) /\ Cardinality(K) \in Nat
BY QueueAssumption, FS_Subset, FS_CardinalityType

\* The last byte is gone: a thread joins the queue.
LEMMA SideJoined ==
    ASSUME NEW q, NEW W, NEW K \in SUBSET Threads, SideOK(q, W, K), NEW t, t \notin W,
           NEW r, r.waiting = Append(q.waiting, t), r.counter = 0
    PROVE  SideOK(r, W \cup {t}, K \ {t})
<1>1. IsQueueOf(r.waiting, W \cup {t})
  BY JoinQueue DEF SideOK
<1>2. Cardinality(K \ {t}) \in Nat
  BY FewThreads
<1> QED
  BY <1>1, <1>2 DEF SideOK

\* A byte is taken, by one of those made ready or by another.
LEMMA SideServed ==
    ASSUME NEW q, NEW W, NEW K \in SUBSET Threads, SideOK(q, W, K), NEW t, q.counter \in Int,
           NEW r, r.waiting = q.waiting, r.counter = q.counter - 1
    PROVE  SideOK(r, W, K \ {t})
<1>1. Cardinality(K \ {t}) >= Cardinality(K) - 1
  BY FewThreads, FS_RemoveElement
<1>2. Cardinality(K) \in Nat /\ Cardinality(K \ {t}) \in Nat
  BY FewThreads
<1> QED
  BY <1>1, <1>2 DEF SideOK

\* A thread that waits leaves.
LEMMA SideLeft ==
    ASSUME NEW q, NEW W, NEW K \in SUBSET Threads, SideOK(q, W, K), NEW t \in W,
           NEW r, r.waiting = Dequeue(q.waiting, t), r.counter = q.counter
    PROVE  SideOK(r, W \ {t}, K)
<1>1. IsQueueOf(r.waiting, W \ {t})
  BY LeaveQueue DEF SideOK
<1>2. q.waiting # <<>>
  BY QueueOfNobody DEF SideOK
<1> QED
  BY <1>1, <1>2 DEF SideOK

\* A byte comes; the first of the threads that wait is made ready for it.
LEMMA SideFed ==
    ASSUME NEW q, NEW W \in SUBSET Threads, NEW K \in SUBSET Threads, SideOK(q, W, K),
           W \cap K = {}, q.counter \in Int,
           NEW r, r.waiting = Rest(q), r.counter = q.counter + 1
    PROVE  SideOK(r, W \ First(q), K \cup First(q)) /\ First(q) \subseteq W
<1>1. CASE q.waiting = <<>>
  <2>1. First(q) = {} /\ r.waiting = q.waiting
    BY <1>1 DEF First, Rest
  <2> QED
    BY <1>1, <2>1 DEF SideOK
<1>2. CASE q.waiting # <<>>
  <2>1. First(q) = {Head(q.waiting)} /\ r.waiting = Tail(q.waiting)
    BY <1>2 DEF First, Rest
  <2>2. Len(q.waiting) # 0
    BY <1>2, QueueOfNobody DEF SideOK
  <2>3. Head(q.waiting) \in W /\ IsQueueOf(r.waiting, W \ {Head(q.waiting)})
    BY <2>1, <2>2, HeadLeaves DEF SideOK
  <2>4. Cardinality(K \cup {Head(q.waiting)}) = Cardinality(K) + 1
    <3>1. Head(q.waiting) \notin K
      BY <2>3
    <3> QED
      BY <3>1, FewThreads, FS_AddElement
  <2>5. q.counter <= Cardinality(K) /\ Cardinality(K) \in Nat
    BY <1>2, FewThreads DEF SideOK
  <2> QED
    BY <2>1, <2>3, <2>4, <2>5 DEF SideOK
<1> QED
  BY <1>1, <1>2

LEMMA SideNew ==
    ASSUME NEW n, NEW K
    PROVE  SideOK(NewQueue(n), {}, K)
BY EmptyQueue DEF SideOK, NewQueue

\* What becomes of the two sets when one thread, or some of those that wait, changes.
LEMMA OneMoves ==
    ASSUME thr \in [Threads -> ThreadStates], NEW t \in Threads, NEW c,
           thr' = [thr EXCEPT ![t] = c], NEW dir
    PROVE  /\ WaitsIn(dir)' = IF c.dir = dir /\ c.at = "waiting" THEN WaitsIn(dir) \cup {t}
                              ELSE WaitsIn(dir) \ {t}
           /\ WokenOk(dir)' = IF c.dir = dir /\ c.at = "woken" /\ c.rdymsg = "Q_OK"
                              THEN WokenOk(dir) \cup {t} ELSE WokenOk(dir) \ {t}
<1>1. thr'[t] = c /\ \A u \in Threads \ {t} : thr'[u] = thr[u]
  OBVIOUS
<1> QED
  BY <1>1 DEF WaitsIn, WokenOk

LEMMA StaysOut ==
    ASSUME thr \in [Threads -> ThreadStates], NEW t \in Threads, NEW c,
           thr' = [thr EXCEPT ![t] = c], NEW dir
    PROVE  /\ ~ (c.dir = dir /\ c.at = "waiting") /\ t \notin WaitsIn(dir)
                => WaitsIn(dir)' = WaitsIn(dir)
           /\ ~ (c.dir = dir /\ c.at = "woken" /\ c.rdymsg = "Q_OK") /\ t \notin WokenOk(dir)
                => WokenOk(dir)' = WokenOk(dir)
           /\ ~ (c.dir = dir /\ c.at = "woken" /\ c.rdymsg = "Q_OK")
                => WokenOk(dir)' = WokenOk(dir) \ {t}
<1>1. thr'[t] = c /\ \A u \in Threads \ {t} : thr'[u] = thr[u]
  OBVIOUS
<1> QED
  BY <1>1 DEF WaitsIn, WokenOk

LEMMA SomeWoken ==
    ASSUME thr \in [Threads -> ThreadStates], NEW ts,
           NEW msg \in {"Q_OK", "Q_TIMEOUT", "Q_RESET"}, thr' = WokenWith(msg, ts), NEW dir
    PROVE  /\ WaitsIn(dir)' = WaitsIn(dir) \ ts
           /\ msg = "Q_OK" => WokenOk(dir)' = WokenOk(dir) \cup {t \in Threads : t \in ts /\ thr[t].dir = dir}
           /\ msg # "Q_OK" => WokenOk(dir)' = WokenOk(dir) \ ts
<1>1. \A t \in Threads : /\ thr'[t].dir = thr[t].dir
                         /\ t \notin ts => thr'[t] = thr[t]
                         /\ t \in ts => thr'[t].at = "woken" /\ thr'[t].rdymsg = msg
  BY WokenThreads
<1> QED
  BY <1>1 DEF WaitsIn, WokenOk

LEMMA SetsOfThreads ==
    \A dir : /\ WaitsIn(dir) \in SUBSET Threads /\ WokenOk(dir) \in SUBSET Threads
            /\ WaitsIn(dir) \cap WokenOk(dir) = {}
            /\ \A d : d # dir => WaitsIn(d) \cap WaitsIn(dir) = {} /\ WokenOk(d) \cap WokenOk(dir) = {}
BY DEF WaitsIn, WokenOk

\* The calls of the threads.
CallsOK ==
    \A t \in Threads : \/ thr[t].at = "out" /\ thr[t].left = 0
                       \/ /\ thr[t].at # "out" /\ thr[t].left \in 1 .. MaxCall
                          /\ thr[t].dir \in {"read", "write"}

\* The call of one thread changes.
LEMMA CallMoves ==
    ASSUME CallsOK, thr \in [Threads -> ThreadStates], NEW t \in Threads, NEW c,
           thr' = [thr EXCEPT ![t] = c],
           \/ c.at = "out" /\ c.left = 0
           \/ c.at # "out" /\ c.left \in 1 .. MaxCall /\ c.dir \in {"read", "write"}
    PROVE  CallsOK'
<1>1. thr'[t] = c /\ \A u \in Threads \ {t} : thr'[u] = thr[u]
  OBVIOUS
<1> QED
  BY <1>1 DEF CallsOK

\* Threads of calls are made ready.
LEMMA CallsWoken ==
    ASSUME CallsOK, thr \in [Threads -> ThreadStates], NEW ts,
           NEW msg \in {"Q_OK", "Q_TIMEOUT", "Q_RESET"}, thr' = WokenWith(msg, ts),
           \A t \in Threads : t \in ts => thr[t].at # "out"
    PROVE  CallsOK'
<1>1. ASSUME NEW t \in Threads
      PROVE  thr'[t] = IF t \in ts THEN [thr[t] EXCEPT !.at = "woken", !.rdymsg = msg] ELSE thr[t]
  BY DEF WokenWith
<1>2. ASSUME NEW t \in Threads, t \in ts
      PROVE  thr'[t].at = "woken" /\ thr'[t].left = thr[t].left /\ thr'[t].dir = thr[t].dir
  <2>1. thr[t] \in ThreadStates
    OBVIOUS
  <2> QED
    BY <1>1, <1>2, <2>1 DEF ThreadStates
<1>3. ASSUME NEW t \in Threads, t \notin ts PROVE thr'[t] = thr[t]
  BY <1>1, <1>3
<1> QED
  BY <1>2, <1>3 DEF CallsOK

SidesAndCalls == SidesOK /\ CallsOK /\ thr \in [Threads -> ThreadStates]

\* A call begins or returns, which touches no queue.
LEMMA OutsideMoves ==
    ASSUME SidesAndCalls, NEW t \in Threads, NEW c, thr' = [thr EXCEPT ![t] = c],
           iq' = iq, oq' = oq,
           thr[t].at # "waiting", ~ (thr[t].at = "woken" /\ thr[t].rdymsg = "Q_OK"),
           c.at \in {"out", "running"}
    PROVE  SidesOK'
<1>1. /\ WaitsIn("read")' = WaitsIn("read") /\ WaitsIn("write")' = WaitsIn("write")
      /\ WokenOk("read")' = WokenOk("read") /\ WokenOk("write")' = WokenOk("write")
  <2>1. \A d \in {"read", "write"} : t \notin WaitsIn(d) /\ t \notin WokenOk(d)
    BY DEF WaitsIn, WokenOk
  <2> QED
    BY <2>1, StaysOut DEF SidesAndCalls
<1> QED
  BY <1>1 DEF SidesAndCalls, SidesOK

LEMMA CallSides ==
    ASSUME SidesAndCalls, NEW t \in Threads, NEW dir \in {"read", "write"}, NEW n \in 1 .. MaxCall,
           QCall(t, dir, n)
    PROVE  SidesOK' /\ CallsOK'
<1> DEFINE c == [dir |-> dir, at |-> "running", left |-> n, rdymsg |-> "Q_OK"]
<1>1. /\ thr' = [thr EXCEPT ![t] = c] /\ iq' = iq /\ oq' = oq /\ thr[t].at = "out"
      /\ c.at = "running" /\ c.left = n /\ c.dir = dir
  BY DEF QCall
<1> HIDE DEF c
<1>2. SidesOK'
  BY <1>1, OutsideMoves
<1>3. CallsOK'
  BY <1>1, CallMoves DEF SidesAndCalls
<1> QED
  BY <1>2, <1>3

LEMMA GiveUpSides ==
    ASSUME SidesAndCalls, NEW t \in Threads, GiveUp(t)
    PROVE  SidesOK' /\ CallsOK'
<1>1. /\ thr' = [thr EXCEPT ![t] = Outside] /\ iq' = iq /\ oq' = oq
      /\ thr[t].at = "woken" /\ thr[t].rdymsg # "Q_OK"
      /\ Outside.at = "out" /\ Outside.left = 0
  BY DEF GiveUp, Outside
<1>2. SidesOK'
  BY <1>1, OutsideMoves
<1>3. CallsOK'
  BY <1>1, CallMoves DEF SidesAndCalls
<1> QED
  BY <1>2, <1>3

\* The record that a turn of a call leaves.
LEMMA TurnRecord ==
    ASSUME SidesAndCalls, NEW t \in Threads, NEW dir \in {"read", "write"}, Turn(t, dir)
    PROVE  /\ QWait(t) =>
                \E c : /\ thr' = [thr EXCEPT ![t] = c] /\ c.dir = dir /\ c.at = "waiting"
                       /\ c.left \in 1 .. MaxCall
           /\ ByteDone(t) =>
                \E c : /\ thr' = [thr EXCEPT ![t] = c]
                       /\ \/ c.at = "out" /\ c.left = 0
                          \/ c.at = "running" /\ c.dir = dir /\ c.left \in 1 .. MaxCall
<1>1. /\ thr[t] \in ThreadStates /\ thr[t].dir = dir /\ thr[t].left \in 1 .. MaxCall
  BY DEF SidesAndCalls, CallsOK, Turn
<1>2. ASSUME QWait(t)
      PROVE  \E c : /\ thr' = [thr EXCEPT ![t] = c] /\ c.dir = dir /\ c.at = "waiting"
                    /\ c.left \in 1 .. MaxCall
  <2> DEFINE c == [thr[t] EXCEPT !.at = "waiting"]
  <2>1. thr' = [thr EXCEPT ![t] = c]
    BY <1>2 DEF QWait
  <2>2. c.dir = dir /\ c.at = "waiting" /\ c.left = thr[t].left
    BY <1>1 DEF ThreadStates
  <2> HIDE DEF c
  <2> QED
    BY <1>1, <2>1, <2>2
<1>3. ASSUME ByteDone(t)
      PROVE  \E c : /\ thr' = [thr EXCEPT ![t] = c]
                    /\ \/ c.at = "out" /\ c.left = 0
                       \/ c.at = "running" /\ c.dir = dir /\ c.left \in 1 .. MaxCall
  <2>1. CASE thr[t].left = 1
    <3>1. thr' = [thr EXCEPT ![t] = Outside] /\ Outside.at = "out" /\ Outside.left = 0
      BY <1>3, <2>1 DEF ByteDone, Outside
    <3> QED
      BY <3>1
  <2>2. CASE thr[t].left # 1
    <3>1. PICK n \in 1 .. MaxCall : n = thr[t].left - 1
      BY <1>1, <2>2, QueueAssumption
    <3> DEFINE c == [thr[t] EXCEPT !.at = "running", !.left = n]
    <3>2. thr' = [thr EXCEPT ![t] = c]
      BY <1>3, <2>2, <3>1 DEF ByteDone
    <3>3. c.at = "running" /\ c.dir = dir /\ c.left = n
      BY <1>1 DEF ThreadStates
    <3> HIDE DEF c
    <3> QED
      BY <3>2, <3>3
  <2> QED
    BY <2>1, <2>2
<1> QED
  BY <1>2, <1>3

\* A turn at a queue, of which side dir is: the other side stays as it is.
LEMMA TurnSides ==
    ASSUME SidesAndCalls, NEW t \in Threads, NEW dir \in {"read", "write"}, Turn(t, dir),
           NEW q, NEW r, SideOK(q, WaitsIn(dir), WokenOk(dir)), q.counter \in Int,
           \/ QWait(t) /\ r.waiting = Append(q.waiting, t) /\ r.counter = 0
           \/ ByteDone(t) /\ r.waiting = q.waiting /\ r.counter = q.counter - 1
    PROVE  /\ SideOK(r, WaitsIn(dir)', WokenOk(dir)')
           /\ \A d \in {"read", "write"} : d # dir => /\ WaitsIn(d)' = WaitsIn(d)
                                                      /\ WokenOk(d)' = WokenOk(d)
           /\ CallsOK'
<1>1. t \notin WaitsIn("read") /\ t \notin WaitsIn("write")
  BY DEF Turn, WaitsIn
<1>2. \A d \in {"read", "write"} : d # dir => t \notin WokenOk(d)
  BY DEF Turn, WokenOk
<1>3. WokenOk(dir) \in SUBSET Threads
  BY SetsOfThreads
<1>4. CASE QWait(t) /\ r.waiting = Append(q.waiting, t) /\ r.counter = 0
  <2>1. PICK c : /\ thr' = [thr EXCEPT ![t] = c] /\ c.dir = dir /\ c.at = "waiting"
                 /\ c.left \in 1 .. MaxCall
    BY <1>4, TurnRecord
  <2>2. SideOK(r, WaitsIn(dir) \cup {t}, WokenOk(dir) \ {t})
    BY <1>1, <1>3, <1>4, SideJoined
  <2>3. WaitsIn(dir)' = WaitsIn(dir) \cup {t} /\ WokenOk(dir)' = WokenOk(dir) \ {t}
    BY <2>1, OneMoves DEF SidesAndCalls
  <2>4. \A d \in {"read", "write"} : d # dir => WaitsIn(d)' = WaitsIn(d) /\ WokenOk(d)' = WokenOk(d)
    <3> SUFFICES ASSUME NEW d \in {"read", "write"}, d # dir
                 PROVE  WaitsIn(d)' = WaitsIn(d) /\ WokenOk(d)' = WokenOk(d)
      OBVIOUS
    <3>1. ~ (c.dir = d /\ c.at = "waiting") /\ ~ (c.dir = d /\ c.at = "woken" /\ c.rdymsg = "Q_OK")
      BY <2>1
    <3> QED
      BY <1>1, <1>2, <2>1, <3>1, StaysOut DEF SidesAndCalls
  <2>5. CallsOK'
    BY <2>1, CallMoves DEF SidesAndCalls
  <2> QED
    BY <2>2, <2>3, <2>4, <2>5
<1>5. CASE ByteDone(t) /\ r.waiting = q.waiting /\ r.counter = q.counter - 1
  <2>1. PICK c : /\ thr' = [thr EXCEPT ![t] = c]
                 /\ \/ c.at = "out" /\ c.left = 0
                    \/ c.at = "running" /\ c.dir = dir /\ c.left \in 1 .. MaxCall
    BY <1>5, TurnRecord
  <2>2. SideOK(r, WaitsIn(dir), WokenOk(dir) \ {t})
    BY <1>3, <1>5, SideServed
  <2>3. WaitsIn(dir)' = WaitsIn(dir) /\ WokenOk(dir)' = WokenOk(dir) \ {t}
    BY <1>1, <2>1, StaysOut DEF SidesAndCalls
  <2>4. \A d \in {"read", "write"} : d # dir => WaitsIn(d)' = WaitsIn(d) /\ WokenOk(d)' = WokenOk(d)
    <3> SUFFICES ASSUME NEW d \in {"read", "write"}, d # dir
                 PROVE  WaitsIn(d)' = WaitsIn(d) /\ WokenOk(d)' = WokenOk(d)
      OBVIOUS
    <3>1. ~ (c.dir = d /\ c.at = "waiting") /\ ~ (c.dir = d /\ c.at = "woken" /\ c.rdymsg = "Q_OK")
      BY <2>1
    <3> QED
      BY <1>1, <1>2, <2>1, <3>1, StaysOut DEF SidesAndCalls
  <2>5. CallsOK'
    BY <2>1, CallMoves DEF SidesAndCalls
  <2> QED
    BY <2>2, <2>3, <2>4, <2>5
<1> QED
  BY <1>4, <1>5

LEMMA ReadSides ==
    ASSUME SidesAndCalls, QueuesOK, NEW t \in Threads, Read(t)
    PROVE  SidesOK' /\ CallsOK'
<1>1. /\ Turn(t, "read") /\ oq' = oq
      /\ SideOK(iq, WaitsIn("read"), WokenOk("read"))
      /\ SideOK(oq, WaitsIn("write"), WokenOk("write"))
  BY DEF Read, SidesAndCalls, SidesOK
<1>2. iq.counter \in Int /\ Shape(iq)
  BY QueueAssumption DEF QueuesOK, IsQueue
<1>3. \/ QWait(t) /\ iq'.waiting = Append(iq.waiting, t) /\ iq'.counter = 0
      \/ ByteDone(t) /\ iq'.waiting = iq.waiting /\ iq'.counter = iq.counter - 1
  <2>1. CASE Empty
    <3>1. QWait(t) /\ iq' = [iq EXCEPT !.waiting = Append(@, t)] /\ iq.counter = 0
      BY <2>1 DEF Read, Empty
    <3> QED
      BY <1>2, <3>1 DEF Shape
  <2>2. CASE ~ Empty
    <3>1. ByteDone(t) /\ iq' = [iq EXCEPT !.counter = @ - 1, !.rd = Advance(@)]
      BY <2>2 DEF Read
    <3> QED
      BY <1>2, <3>1 DEF Shape
  <2> QED
    BY <2>1, <2>2
<1>4. PICK r : r = iq'
  OBVIOUS
<1>5. /\ SideOK(r, WaitsIn("read")', WokenOk("read")')
      /\ \A d \in {"read", "write"} : d # "read" => WaitsIn(d)' = WaitsIn(d) /\ WokenOk(d)' = WokenOk(d)
      /\ CallsOK'
  <2>1. \/ QWait(t) /\ r.waiting = Append(iq.waiting, t) /\ r.counter = 0
        \/ ByteDone(t) /\ r.waiting = iq.waiting /\ r.counter = iq.counter - 1
    BY <1>3, <1>4
  <2> QED
    BY <1>1, <1>2, <2>1, TurnSides
<1>6. WaitsIn("write")' = WaitsIn("write") /\ WokenOk("write")' = WokenOk("write")
  BY <1>5
<1> QED
  BY <1>1, <1>4, <1>5, <1>6 DEF SidesOK

LEMMA WriteSides ==
    ASSUME SidesAndCalls, QueuesOK, NEW t \in Threads, Write(t)
    PROVE  SidesOK' /\ CallsOK'
<1>1. /\ Turn(t, "write") /\ iq' = iq
      /\ SideOK(oq, WaitsIn("write"), WokenOk("write"))
      /\ SideOK(iq, WaitsIn("read"), WokenOk("read"))
  BY DEF Write, SidesAndCalls, SidesOK
<1>2. oq.counter \in Int /\ Shape(oq)
  BY QueueAssumption DEF QueuesOK, IsQueue
<1>3. \/ QWait(t) /\ oq'.waiting = Append(oq.waiting, t) /\ oq'.counter = 0
      \/ ByteDone(t) /\ oq'.waiting = oq.waiting /\ oq'.counter = oq.counter - 1
  <2>1. CASE Full
    <3>1. QWait(t) /\ oq' = [oq EXCEPT !.waiting = Append(@, t)] /\ oq.counter = 0
      BY <2>1 DEF Write, Full
    <3> QED
      BY <1>2, <3>1 DEF Shape
  <2>2. CASE ~ Full
    <3>1. ByteDone(t) /\ oq' = [oq EXCEPT !.counter = @ - 1, !.wr = Advance(@)]
      BY <2>2 DEF Write
    <3> QED
      BY <1>2, <3>1 DEF Shape
  <2> QED
    BY <2>1, <2>2
<1>4. PICK r : r = oq'
  OBVIOUS
<1>5. /\ SideOK(r, WaitsIn("write")', WokenOk("write")')
      /\ \A d \in {"read", "write"} : d # "write" => WaitsIn(d)' = WaitsIn(d) /\ WokenOk(d)' = WokenOk(d)
      /\ CallsOK'
  <2>1. \/ QWait(t) /\ r.waiting = Append(oq.waiting, t) /\ r.counter = 0
        \/ ByteDone(t) /\ r.waiting = oq.waiting /\ r.counter = oq.counter - 1
    BY <1>3, <1>4
  <2> QED
    BY <1>1, <1>2, <2>1, TurnSides
<1>6. WaitsIn("read")' = WaitsIn("read") /\ WokenOk("read")' = WokenOk("read")
  BY <1>5
<1> QED
  BY <1>1, <1>4, <1>5, <1>6 DEF SidesOK

LEMMA TimeoutSides ==
    ASSUME SidesAndCalls, QueuesOK, NEW t \in Threads, QTimeout(t)
    PROVE  SidesOK' /\ CallsOK'
<1>1. /\ thr' = WokenWith("Q_TIMEOUT", {t}) /\ thr[t].at = "waiting"
      /\ iq' = IF thr[t].dir = "read" THEN [iq EXCEPT !.waiting = Dequeue(@, t)] ELSE iq
      /\ oq' = IF thr[t].dir = "write" THEN [oq EXCEPT !.waiting = Dequeue(@, t)] ELSE oq
  BY DEF QTimeout
<1>2. /\ WaitsIn("read")' = WaitsIn("read") \ {t} /\ WokenOk("read")' = WokenOk("read") \ {t}
      /\ WaitsIn("write")' = WaitsIn("write") \ {t} /\ WokenOk("write")' = WokenOk("write") \ {t}
  BY <1>1, SomeWoken DEF SidesAndCalls
<1>3. /\ WokenOk("read") \ {t} = WokenOk("read") /\ WokenOk("write") \ {t} = WokenOk("write")
      /\ WokenOk("read") \in SUBSET Threads /\ WokenOk("write") \in SUBSET Threads
  BY <1>1 DEF WokenOk
<1>4. SideOK(iq, WaitsIn("read"), WokenOk("read")) /\ SideOK(oq, WaitsIn("write"), WokenOk("write"))
  BY DEF SidesAndCalls, SidesOK
<1>5. SideOK(iq', WaitsIn("read") \ {t}, WokenOk("read"))
  <2>1. CASE thr[t].dir = "read"
    <3>1. iq'.waiting = Dequeue(iq.waiting, t) /\ iq'.counter = iq.counter
      BY <1>1, <2>1 DEF QueuesOK, IsQueue, Shape
    <3>2. t \in WaitsIn("read")
      BY <1>1, <2>1 DEF WaitsIn
    <3> QED
      BY <1>3, <1>4, <3>1, <3>2, SideLeft
  <2>2. CASE thr[t].dir # "read"
    <3>1. iq' = iq /\ WaitsIn("read") \ {t} = WaitsIn("read")
      BY <1>1, <2>2 DEF WaitsIn
    <3> QED
      BY <1>4, <3>1
  <2> QED
    BY <2>1, <2>2
<1>6. SideOK(oq', WaitsIn("write") \ {t}, WokenOk("write"))
  <2>1. CASE thr[t].dir = "write"
    <3>1. oq'.waiting = Dequeue(oq.waiting, t) /\ oq'.counter = oq.counter
      BY <1>1, <2>1 DEF QueuesOK, IsQueue, Shape
    <3>2. t \in WaitsIn("write")
      BY <1>1, <2>1 DEF WaitsIn
    <3> QED
      BY <1>3, <1>4, <3>1, <3>2, SideLeft
  <2>2. CASE thr[t].dir # "write"
    <3>1. oq' = oq /\ WaitsIn("write") \ {t} = WaitsIn("write")
      BY <1>1, <2>2 DEF WaitsIn
    <3> QED
      BY <1>4, <3>1
  <2> QED
    BY <2>1, <2>2
<1>7. CallsOK'
  BY <1>1, CallsWoken DEF SidesAndCalls
<1> QED
  BY <1>2, <1>3, <1>5, <1>6, <1>7 DEF SidesOK

LEMMA QueueRange ==
    ASSUME NEW W, NEW q, IsQueueOf(q, W)
    PROVE  Range(q) = W
<1>1. OnceEach(q, W) /\ DOMAIN q = 1 .. Len(q)
  BY LenProperties DEF IsQueueOf
<1>2. PICK n : n = Len(q)
  OBVIOUS
<1>3. Range(q) = {q[i] : i \in 1 .. n}
  BY <1>1, <1>2 DEF Range
<1>4. /\ \A i \in 1 .. n : q[i] \in W
      /\ \A t \in W : \E i \in 1 .. n : q[i] = t
  BY <1>1, <1>2 DEF OnceEach
<1> QED
  BY <1>3, <1>4

LEMMA ResetSides ==
    ASSUME SidesAndCalls, QReset
    PROVE  SidesOK' /\ CallsOK'
<1> DEFINE ts == Range(iq.waiting) \cup Range(oq.waiting)
<1>1. /\ thr' = WokenWith("Q_RESET", ts) /\ iq' = NewQueue(0) /\ oq' = NewQueue(Size)
  BY DEF QReset
<1>2. Range(iq.waiting) = WaitsIn("read") /\ Range(oq.waiting) = WaitsIn("write")
  BY QueueRange DEF SidesAndCalls, SidesOK, SideOK
<1>3. \A t \in Threads : t \in ts => thr[t].at # "out"
  BY <1>2 DEF WaitsIn
<1>4. /\ WaitsIn("read") \ ts = {} /\ WaitsIn("write") \ ts = {}
  BY <1>2
<1> HIDE DEF ts
<1>5. WaitsIn("read")' = {} /\ WaitsIn("write")' = {}
  BY <1>1, <1>4, SomeWoken DEF SidesAndCalls
<1>6. CallsOK'
  BY <1>1, <1>3, CallsWoken DEF SidesAndCalls
<1> QED
  BY <1>1, <1>5, <1>6, SideNew DEF SidesOK

\* The handler makes ready at most one thread of each side.
LEMMA ServiceSides ==
    ASSUME SidesAndCalls, QueuesOK, ServeInterrupt
    PROVE  SidesOK' /\ CallsOK'
<1> DEFINE in == IF Stored THEN First(iq) ELSE {}
           out == IF Sent THEN First(oq) ELSE {}
<1>1. /\ thr' = WokenWith("Q_OK", in \cup out)
      /\ iq' = (IF Stored THEN Input ELSE iq) /\ oq' = (IF Sent THEN Output ELSE oq)
  BY DEF ServeInterrupt
<1>2. /\ Shape(iq) /\ iq.counter \in Int /\ Shape(oq) /\ oq.counter \in Int
  BY QueueAssumption DEF QueuesOK, IsQueue
<1>3. /\ SideOK(iq, WaitsIn("read"), WokenOk("read"))
      /\ SideOK(oq, WaitsIn("write"), WokenOk("write"))
  BY DEF SidesAndCalls, SidesOK
<1>4. /\ WaitsIn("read") \in SUBSET Threads /\ WokenOk("read") \in SUBSET Threads
      /\ WaitsIn("write") \in SUBSET Threads /\ WokenOk("write") \in SUBSET Threads
      /\ WaitsIn("read") \cap WokenOk("read") = {} /\ WaitsIn("write") \cap WokenOk("write") = {}
  BY SetsOfThreads
<1>5. SideOK(iq', WaitsIn("read") \ in, WokenOk("read") \cup in) /\ in \subseteq WaitsIn("read")
  <2>1. CASE Stored
    <3>1. iq'.waiting = Rest(iq) /\ iq'.counter = iq.counter + 1
      BY <1>1, <1>2, <2>1 DEF Input, Shape
    <3> QED
      BY <1>2, <1>3, <1>4, <2>1, <3>1, SideFed
  <2>2. CASE ~ Stored
    BY <1>1, <1>3, <2>2
  <2> QED
    BY <2>1, <2>2
<1>6. SideOK(oq', WaitsIn("write") \ out, WokenOk("write") \cup out) /\ out \subseteq WaitsIn("write")
  <2>1. CASE Sent
    <3>1. oq'.waiting = Rest(oq) /\ oq'.counter = oq.counter + 1
      BY <1>1, <1>2, <2>1 DEF Output, Shape
    <3> QED
      BY <1>2, <1>3, <1>4, <2>1, <3>1, SideFed
  <2>2. CASE ~ Sent
    BY <1>1, <1>3, <2>2
  <2> QED
    BY <2>1, <2>2
<1> HIDE DEF in, out
<1> DEFINE ts == in \cup out
<1>7. /\ {t \in Threads : t \in ts /\ thr[t].dir = "read"} = in
      /\ {t \in Threads : t \in ts /\ thr[t].dir = "write"} = out
      /\ WaitsIn("read") \ ts = WaitsIn("read") \ in
      /\ WaitsIn("write") \ ts = WaitsIn("write") \ out
      /\ \A t \in Threads : t \in ts => thr[t].at # "out"
  BY <1>5, <1>6 DEF WaitsIn
<1> HIDE DEF ts
<1>8. thr' = WokenWith("Q_OK", ts)
  BY <1>1 DEF ts
<1>9. /\ WaitsIn("read")' = WaitsIn("read") \ in /\ WokenOk("read")' = WokenOk("read") \cup in
      /\ WaitsIn("write")' = WaitsIn("write") \ out /\ WokenOk("write")' = WokenOk("write") \cup out
  <2>1. /\ WaitsIn("read")' = WaitsIn("read") \ ts
        /\ WokenOk("read")' = WokenOk("read") \cup {t \in Threads : t \in ts /\ thr[t].dir = "read"}
    BY <1>8, SomeWoken DEF SidesAndCalls
  <2>2. /\ WaitsIn("write")' = WaitsIn("write") \ ts
        /\ WokenOk("write")' = WokenOk("write") \cup {t \in Threads : t \in ts /\ thr[t].dir = "write"}
    BY <1>8, SomeWoken DEF SidesAndCalls
  <2> QED
    BY <1>7, <2>1, <2>2
<1>10. CallsOK'
  BY <1>7, <1>8, CallsWoken DEF SidesAndCalls
<1> QED
  BY <1>5, <1>6, <1>9, <1>10 DEF SidesOK

\* The invariant, strengthened.
Inv2 ==
    /\ Inv
    /\ SidesOK
    /\ CallsOK
    /\ ended \in BOOLEAN /\ use \in Uses

LEMMA Init2 == Init => Inv2
<1> SUFFICES ASSUME Init PROVE Inv2
  OBVIOUS
<1>1. Inv
  BY InitInv
<1>2. \A t \in Threads : thr[t] = Outside
  BY DEF Init, QInit
<1>3. Outside.at = "out" /\ Outside.left = 0
  BY DEF Outside
<1>4. WaitsIn("read") = {} /\ WaitsIn("write") = {}
  BY <1>2, <1>3 DEF WaitsIn
<1>5. SidesOK
  BY <1>4, SideNew DEF Init, QInit, SidesOK
<1>6. CallsOK
  BY <1>2, <1>3 DEF CallsOK
<1> QED
  BY <1>1, <1>5, <1>6 DEF Init, Inv2

LEMMA StepKeepsSides ==
    ASSUME SidesAndCalls, QueuesOK, [Next]_vars
    PROVE  SidesOK' /\ CallsOK'
<1>1. ASSUME iq' = iq, oq' = oq, thr' = thr PROVE SidesOK' /\ CallsOK'
  BY <1>1 DEF SidesAndCalls, SidesOK, CallsOK, WaitsIn, WokenOk
<1>2. CASE sdStart \/ Listener \/ ByteArrives \/ FrameOut \/ UNCHANGED vars
  BY <1>1, <1>2 DEF sdStart, Listener, ByteArrives, FrameOut, vars
<1>3. CASE sdStop
  BY <1>3, ResetSides DEF sdStop
<1>4. ASSUME NEW t \in Threads, SdCall(t) PROVE SidesOK' /\ CallsOK'
  <2>1. PICK n \in 1 .. MaxCall, dir \in {"read", "write"} : QCall(t, dir, n)
    BY <1>4 DEF SdCall
  <2> QED
    BY <2>1, CallSides
<1>5. ASSUME NEW t \in Threads, SdRead(t) \/ SdWrite(t) \/ SdReturn(t) \/ SdTimeout(t)
      PROVE  SidesOK' /\ CallsOK'
  BY <1>5, ReadSides, WriteSides, GiveUpSides, TimeoutSides DEF SdRead, SdWrite, SdReturn, SdTimeout
<1>6. CASE ServeInterrupt
  BY <1>6, ServiceSides
<1> QED
  BY <1>2, <1>3, <1>4, <1>5, <1>6 DEF Next

LEMMA StepKeepsInv2 == Inv2 /\ [Next]_vars => Inv2'
<1> SUFFICES ASSUME Inv2, [Next]_vars PROVE Inv2'
  OBVIOUS
<1>1. Inv'
  BY StepKeepsInv DEF Inv2
<1>2. SidesOK' /\ CallsOK'
  BY StepKeepsSides DEF Inv2, Inv, SidesAndCalls
<1>3. use' = use
  BY DEF Next, vars, sdStart, sdStop, Listener, SdCall, SdRead, SdWrite, SdReturn, SdTimeout,
         ServeInterrupt, ByteArrives, FrameOut
<1>4. ended' \in BOOLEAN
  <2>1. \/ ended' = ended \/ ended' = TRUE \/ ended' = FALSE
        \/ ended' = (ended \/ "TRANSMISSION_END" \in Raised)
    <3>1. CASE sdStop \/ ServeInterrupt
      BY <3>1, Zenon DEF sdStop, ServeInterrupt
    <3>2. ASSUME NEW t \in Threads, SdWrite(t) PROVE ended' = ended \/ ended' = FALSE
      BY <3>2 DEF SdWrite
    <3>3. CASE ended' = ended
      BY <3>3
    <3> QED
      BY <3>1, <3>2, <3>3 DEF Next, vars, sdStart, Listener, SdCall, SdRead, SdReturn, SdTimeout,
                              ByteArrives, FrameOut
  <2> QED
    BY <2>1, Zenon DEF Inv2
<1> QED
  BY <1>1, <1>2, <1>3, <1>4 DEF Inv2

LEMMA Inv2Holds == Spec => []Inv2
<1> QED
  BY Init2, StepKeepsInv2, PTL DEF Spec

\* Every variable keeps its shape, and the data agree: the counters and pointers of the
\* rings, and the listener and what it waits for.
THEOREM DataAgree == Spec => []Consistent
<1>1. Inv2 => Consistent
  <2> SUFFICES ASSUME Inv2 PROVE Consistent
    OBVIOUS
  <2>1. RingsAgree /\ EventsAgree
    BY DEF Inv2, Inv, QueuesOK, ListenerOK, EventsAgree
  <2>2. EvtTypeOK
    <3>1. SUBSET (Flags \cup SdFlags) = SUBSET Flags
      BY UsesAssumption
    <3> QED
      BY <3>1 DEF Inv2, Inv, ListenerOK, Listeners, EvtTypeOK
  <2>3. \A q \in {iq, oq} : /\ q.counter \in 0..Size
                            /\ q.rd \in 0..(Size - 1) /\ q.wr \in 0..(Size - 1)
                            /\ q.waiting \in Seq(Threads)
    <3>1. iq.waiting \in Seq(Threads) /\ oq.waiting \in Seq(Threads)
      <4>1. iq.waiting \in Seq(WaitsIn("read")) /\ oq.waiting \in Seq(WaitsIn("write"))
        BY DEF Inv2, SidesOK, SideOK, IsQueueOf
      <4>2. WaitsIn("read") \subseteq Threads /\ WaitsIn("write") \subseteq Threads
        BY DEF WaitsIn
      <4> QED
        BY <4>1, <4>2, SeqMonotonic
    <3> QED
      BY <3>1 DEF Inv2, Inv, QueuesOK, IsQueue
  <2>4. thr \in [Threads -> [dir : {"none", "read", "write"},
                             at : {"out", "running", "waiting", "woken"}, left : 0..MaxCall,
                             rdymsg : {"Q_OK", "Q_TIMEOUT", "Q_RESET"}]]
    <3>1. thr \in [Threads -> ThreadStates]
      BY DEF Inv2, Inv
    <3>2. \A t \in Threads : thr[t].left \in 0..MaxCall
      BY QueueAssumption DEF Inv2, CallsOK
    <3>3. \A t \in Threads : thr[t] \in [dir : {"none", "read", "write"},
                             at : {"out", "running", "waiting", "woken"}, left : 0..MaxCall,
                             rdymsg : {"Q_OK", "Q_TIMEOUT", "Q_RESET"}]
      BY <3>1, <3>2 DEF ThreadStates
    <3> QED
      BY <3>1, <3>3
  <2>5. QTypeOK
    BY <2>3, <2>4 DEF QTypeOK
  <2> QED
    BY <2>1, <2>2, <2>5 DEF Inv2, Inv, Drivers, Consistent, TypeOK
<1> QED
  BY <1>1, Inv2Holds, PTL

\* No wakeup of the I/O queues is lost: while threads wait, every byte, or free place,
\* that is there has a thread already made ready for it, whoever gets ahead of it and
\* whatever timeouts and stops interleave.
THEOREM WakeupsKept == Spec => []NoLostWakeup
<1>1. Inv2 => NoLostWakeup
  BY DEF Inv2, SidesOK, SideOK, NoLostWakeup
<1> QED
  BY <1>1, Inv2Holds, PTL

=============================================================================
