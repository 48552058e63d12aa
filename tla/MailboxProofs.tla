---------------------------- MODULE MailboxProofs ----------------------------
(***************************************************************************)
(* What holds of semaphores and of the mailbox on them for any finite set  *)
(* of threads, any semaphores, messages and size of the ring: counters and *)
(* queues agree, threads are served in the order they came, no slot is     *)
(* lost, and the mailbox is the bounded queue of MailboxService.           *)
(***************************************************************************)
EXTENDS Mailbox, SequenceTheorems, FiniteSetTheorems, TLAPS

-----------------------------------------------------------------------------
(***************************************************************************)
(* A queue of threads: what the steps into it and out of it do.            *)
(***************************************************************************)
\* The threads of W wait in q, each once.
OnceEach(q, W) ==
    /\ \A i \in 1 .. Len(q) : q[i] \in W
    /\ \A i, j \in 1 .. Len(q) : q[i] = q[j] => i = j
    /\ \A t \in W : \E i \in 1 .. Len(q) : q[i] = t

IsQueueOf(q, W) == q \in Seq(W) /\ OnceEach(q, W)

LEMMA QueueEach == \A W, q : IsQueueOf(q, W) => OnceEach(q, W)
BY DEF IsQueueOf

LEMMA EmptyQueue == IsQueueOf(<<>>, {})
<1>1. <<>> \in Seq({}) /\ Len(<<>>) = 0
  BY EmptySeq
<1> QED
  BY <1>1 DEF IsQueueOf, OnceEach

LEMMA QueueOfNobody ==
    ASSUME NEW W, NEW q, IsQueueOf(q, W)
    PROVE  /\ Len(q) \in Nat
           /\ Len(q) = 0 <=> W = {}
           /\ Len(q) = 0 <=> q = <<>>
<1>a. OnceEach(q, W)
  BY DEF IsQueueOf
<1>1. q \in Seq(W)
  BY DEF IsQueueOf
<1>2. Len(q) \in Nat /\ (q # <<>> => Len(q) \in Nat \ {0}) /\ (q = <<>> => Len(q) = 0)
  BY <1>1, EmptySeq, LenProperties
<1>3. Len(q) = 0 => W = {}
  BY <1>a DEF OnceEach
<1>4. Len(q) # 0 => q[1] \in W
  BY <1>a, <1>2 DEF OnceEach
<1> QED
  BY <1>2, <1>3, <1>4

\* A thread joins at the end.
LEMMA JoinQueue ==
    ASSUME NEW W, NEW q, IsQueueOf(q, W), NEW t, t \notin W
    PROVE  /\ IsQueueOf(Append(q, t), W \cup {t})
           /\ Len(Append(q, t)) = Len(q) + 1
<1>a. OnceEach(q, W)
  BY DEF IsQueueOf
<1> DEFINE r == Append(q, t)
<1>1. q \in Seq(W) /\ Len(q) \in Nat
  BY QueueOfNobody DEF IsQueueOf
<1>2. /\ r \in Seq(W \cup {t}) /\ Len(r) = Len(q) + 1
      /\ \A i \in 1 .. Len(q) : r[i] = q[i]
      /\ r[Len(q) + 1] = t
  <2>1. q \in Seq(W \cup {t}) /\ t \in W \cup {t}
    BY <1>1, SeqMonotonic
  <2> QED
    BY <2>1, AppendProperties
<1> HIDE DEF r
<1>3. \A i \in 1 .. Len(r) : i \in 1 .. Len(q) \/ i = Len(q) + 1
  BY <1>1, <1>2
<1>4. \A i \in 1 .. Len(q) : r[i] \in W /\ r[i] # t /\ i \in 1 .. Len(r)
  <2>1. \A i \in 1 .. Len(q) : q[i] \in W /\ q[i] # t
    BY <1>a DEF OnceEach
  <2>2. Len(r) = Len(q) + 1 /\ Len(q) \in Nat /\ \A i \in 1 .. Len(q) : r[i] = q[i]
    BY <1>1, <1>2
  <2> QED
    BY <2>1, <2>2
<1>5. \A i \in 1 .. Len(r) : r[i] \in W \cup {t}
  BY <1>2, <1>3, <1>4
<1>6. \A i, j \in 1 .. Len(r) : r[i] = r[j] => i = j
  BY <1>a, <1>2, <1>3, <1>4 DEF OnceEach
<1>7. \A u \in W \cup {t} : \E i \in 1 .. Len(r) : r[i] = u
  <2>1. Len(q) + 1 \in 1 .. Len(r)
    BY <1>1, <1>2
  <2> QED
    BY <1>a, <1>2, <1>4, <2>1 DEF OnceEach
<1> QED
  BY <1>2, <1>5, <1>6, <1>7 DEF IsQueueOf, OnceEach, r

\* The part of a queue from a to b is the queue of the threads in it.
Part(q, a, b) == {q[i] : i \in a .. b}

LEMMA PartQueue ==
    ASSUME NEW W, NEW q, IsQueueOf(q, W), NEW a \in 1 .. Len(q) + 1, NEW b \in a - 1 .. Len(q)
    PROVE  /\ IsQueueOf(SubSeq(q, a, b), Part(q, a, b))
           /\ Len(SubSeq(q, a, b)) = b - a + 1
           /\ \A i \in 1 .. b - a + 1 : SubSeq(q, a, b)[i] = q[a + i - 1]
<1>a. OnceEach(q, W)
  BY DEF IsQueueOf
<1> DEFINE r == SubSeq(q, a, b)
<1>1. q \in Seq(W) /\ Len(q) \in Nat
  BY QueueOfNobody DEF IsQueueOf
<1>2. a \in Int /\ b \in Int /\ b - a + 1 \in Nat /\ \A i \in a .. b : q[i] \in Part(q, a, b)
  BY <1>1 DEF Part
<1>3. /\ r \in Seq(Part(q, a, b))
      /\ Len(r) = b - a + 1
      /\ \A i \in 1 .. b - a + 1 : r[i] = q[a + i - 1]
  BY <1>2, SubSeqProperties
<1> HIDE DEF r
<1>4. \A i \in 1 .. Len(r) : a + i - 1 \in a .. b /\ a + i - 1 \in 1 .. Len(q)
  BY <1>1, <1>2, <1>3
<1>5. \A i \in 1 .. Len(r) : r[i] \in Part(q, a, b)
  BY <1>3, <1>4 DEF Part
<1>6. \A i, j \in 1 .. Len(r) : r[i] = r[j] => i = j
  <2> SUFFICES ASSUME NEW i \in 1 .. Len(r), NEW j \in 1 .. Len(r), r[i] = r[j] PROVE i = j
    OBVIOUS
  <2>1. q[a + i - 1] = q[a + j - 1]
    BY <1>3
  <2>2. a + i - 1 = a + j - 1
    BY <1>a, <1>4, <2>1 DEF OnceEach
  <2> QED
    BY <1>2, <1>3, <2>2
<1>7. ASSUME NEW t \in Part(q, a, b) PROVE \E i \in 1 .. Len(r) : r[i] = t
  <2>1. PICK i \in a .. b : q[i] = t
    BY DEF Part
  <2>2. i - a + 1 \in 1 .. Len(r) /\ a + (i - a + 1) - 1 = i
    BY <1>2, <1>3
  <2> QED
    BY <1>3, <2>1, <2>2
<1> QED
  BY <1>3, <1>5, <1>6, <1>7 DEF IsQueueOf, OnceEach, r

\* The front of a queue and its rest are different threads.
LEMMA Parts ==
    ASSUME NEW W, NEW q, IsQueueOf(q, W), NEW m \in 0 .. Len(q)
    PROVE  /\ Part(q, 1, m) = W \ Part(q, m + 1, Len(q))
           /\ Part(q, m + 1, Len(q)) = W \ Part(q, 1, m)
<1>a. OnceEach(q, W)
  BY DEF IsQueueOf
<1>1. Len(q) \in Nat
  BY QueueOfNobody
<1>2. \A i \in 1 .. Len(q) : i \in 1 .. m \/ i \in m + 1 .. Len(q)
  BY <1>1
<1>3. /\ \A i \in 1 .. m : i \in 1 .. Len(q)
      /\ \A i \in m + 1 .. Len(q) : i \in 1 .. Len(q) /\ i \notin 1 .. m
  BY <1>1
<1>4. Part(q, 1, m) \cup Part(q, m + 1, Len(q)) = W
  BY <1>a, <1>2, <1>3 DEF Part, OnceEach
<1>5. Part(q, 1, m) \cap Part(q, m + 1, Len(q)) = {}
  BY <1>a, <1>3 DEF Part, OnceEach
<1> QED
  BY <1>4, <1>5

\* The first leaves.
LEMMA HeadLeaves ==
    ASSUME NEW W, NEW q, IsQueueOf(q, W), Len(q) # 0
    PROVE  /\ Head(q) = q[1] /\ Head(q) \in W
           /\ IsQueueOf(Tail(q), W \ {Head(q)})
           /\ Len(Tail(q)) = Len(q) - 1
<1>a. OnceEach(q, W)
  BY DEF IsQueueOf
<1>1. q \in Seq(W) /\ Len(q) \in Nat /\ Len(q) >= 1 /\ q # <<>>
  BY QueueOfNobody DEF IsQueueOf
<1>2. Tail(q) = SubSeq(q, 2, Len(q))
  BY <1>1, TailIsSubSeq
<1>3. IsQueueOf(Tail(q), Part(q, 2, Len(q))) /\ Len(Tail(q)) = Len(q) - 1
  <2>1. 2 \in 1 .. Len(q) + 1 /\ Len(q) \in 2 - 1 .. Len(q)
    BY <1>1
  <2>2. PICK a \in 1 .. Len(q) + 1 : a = 2
    BY <2>1
  <2>3. PICK b \in a - 1 .. Len(q) : b = Len(q)
    BY <2>1, <2>2
  <2>4. IsQueueOf(SubSeq(q, a, b), Part(q, a, b)) /\ Len(SubSeq(q, a, b)) = b - a + 1
    BY PartQueue
  <2>5. SubSeq(q, a, b) = Tail(q) /\ Part(q, a, b) = Part(q, 2, Len(q))
    BY <1>2, <2>2, <2>3, Zenon
  <2>6. b - a + 1 = Len(q) - 1
    BY <1>1, <2>2, <2>3
  <2> QED
    BY <2>4, <2>5, <2>6, Zenon
<1>4. Part(q, 2, Len(q)) = W \ Part(q, 1, 1)
  <2>1. 1 \in 0 .. Len(q) /\ 1 + 1 = 2
    BY <1>1
  <2>2. Part(q, 1 + 1, Len(q)) = W \ Part(q, 1, 1)
    BY <2>1, Parts
  <2> QED
    BY <2>1, <2>2
<1>5. Part(q, 1, 1) = {q[1]}
  BY DEF Part
<1>6. Head(q) = q[1]
  BY <1>1
<1>7. q[1] \in W
  BY <1>a, <1>1 DEF OnceEach
<1> QED
  BY <1>3, <1>4, <1>5, <1>6, <1>7

\* A thread leaves from anywhere.
LEMMA LeaveQueue ==
    ASSUME NEW W, NEW q, IsQueueOf(q, W), NEW t \in W
    PROVE  /\ IsQueueOf(Dequeue(q, t), W \ {t})
           /\ Len(Dequeue(q, t)) = Len(q) - 1
<1>a. OnceEach(q, W)
  BY DEF IsQueueOf
<1> DEFINE p == CHOOSE i \in DOMAIN q : q[i] = t
           front == SubSeq(q, 1, p - 1)
           back == SubSeq(q, p + 1, Len(q))
           r == front \o back
<1>1. q \in Seq(W) /\ Len(q) \in Nat /\ DOMAIN q = 1 .. Len(q)
  BY QueueOfNobody, LenProperties DEF IsQueueOf
<1>2. p \in 1 .. Len(q) /\ q[p] = t
  <2>1. \E i \in DOMAIN q : q[i] = t
    BY <1>a, <1>1 DEF OnceEach
  <2> QED
    BY <1>1, <2>1
<1> HIDE DEF p
<1>3. /\ IsQueueOf(front, Part(q, 1, p - 1)) /\ Len(front) = p - 1
      /\ \A i \in 1 .. p - 1 : front[i] = q[i]
  <2>1. 1 \in 1 .. Len(q) + 1 /\ p - 1 \in 1 - 1 .. Len(q)
    BY <1>1, <1>2
  <2> QED
    BY <1>1, <1>2, <2>1, PartQueue
<1>4. /\ IsQueueOf(back, Part(q, p + 1, Len(q))) /\ Len(back) = Len(q) - p
      /\ \A i \in 1 .. Len(q) - p : back[i] = q[p + i]
  <2>1. p + 1 \in 1 .. Len(q) + 1 /\ Len(q) \in p + 1 - 1 .. Len(q)
    BY <1>1, <1>2
  <2>2. /\ IsQueueOf(back, Part(q, p + 1, Len(q))) /\ Len(back) = Len(q) - (p + 1) + 1
        /\ \A i \in 1 .. Len(q) - (p + 1) + 1 : back[i] = q[(p + 1) + i - 1]
    BY <2>1, PartQueue
  <2>3. Len(q) - (p + 1) + 1 = Len(q) - p /\ \A i \in 1 .. Len(q) - p : (p + 1) + i - 1 = p + i
    BY <1>1, <1>2
  <2> QED
    BY <2>2, <2>3
<1> HIDE DEF front, back
<1>5. /\ r \in Seq(W) /\ Len(r) = Len(q) - 1
      /\ \A i \in 1 .. Len(q) - 1 : r[i] = IF i <= p - 1 THEN front[i] ELSE back[i - (p - 1)]
  <2>1. Part(q, 1, p - 1) \subseteq W /\ Part(q, p + 1, Len(q)) \subseteq W
    BY <1>a, <1>1, <1>2 DEF OnceEach, Part
  <2>2. front \in Seq(Part(q, 1, p - 1)) /\ back \in Seq(Part(q, p + 1, Len(q)))
    BY <1>3, <1>4 DEF IsQueueOf
  <2>3. front \in Seq(W) /\ back \in Seq(W)
    BY <2>1, <2>2, SeqMonotonic
  <2>4. Len(front) + Len(back) = Len(q) - 1
    BY <1>1, <1>2, <1>3, <1>4
  <2> QED
    BY <1>3, <2>3, <2>4, ConcatProperties
<1>6. \A i \in 1 .. Len(q) - 1 : r[i] = IF i < p THEN q[i] ELSE q[i + 1]
  <2> SUFFICES ASSUME NEW i \in 1 .. Len(q) - 1 PROVE r[i] = IF i < p THEN q[i] ELSE q[i + 1]
    OBVIOUS
  <2>1. CASE i < p
    BY <1>1, <1>2, <1>3, <1>5, <2>1
  <2>2. CASE ~ (i < p)
    <3>1. i - (p - 1) \in 1 .. Len(q) - p /\ p + (i - (p - 1)) = i + 1 /\ ~ (i <= p - 1)
      BY <1>1, <1>2, <2>2
    <3> QED
      BY <1>4, <1>5, <2>2, <3>1
  <2> QED
    BY <2>1, <2>2
<1> HIDE DEF r
<1>0. ASSUME NEW i \in 1 .. Len(r)
      PROVE  \E a \in 1 .. Len(q) : r[i] = q[a] /\ a = (IF i < p THEN i ELSE i + 1) /\ a # p
  <2>1. CASE i < p
    <3>1. i \in 1 .. Len(q) /\ r[i] = q[i] /\ i # p
      BY <1>1, <1>2, <1>5, <1>6, <2>1
    <3> QED
      BY <2>1, <3>1
  <2>2. CASE ~ (i < p)
    <3>1. i + 1 \in 1 .. Len(q) /\ r[i] = q[i + 1] /\ i + 1 # p
      BY <1>1, <1>2, <1>5, <1>6, <2>2
    <3> QED
      BY <2>2, <3>1
  <2> QED
    BY <2>1, <2>2
<1>7. \A i \in 1 .. Len(r) : r[i] \in W \ {t}
  BY <1>a, <1>0, <1>2 DEF OnceEach
<1>8. \A i, j \in 1 .. Len(r) : r[i] = r[j] => i = j
  <2> SUFFICES ASSUME NEW i \in 1 .. Len(r), NEW j \in 1 .. Len(r), r[i] = r[j] PROVE i = j
    OBVIOUS
  <2>1. PICK a \in 1 .. Len(q) : r[i] = q[a] /\ a = IF i < p THEN i ELSE i + 1
    BY <1>0
  <2>2. PICK b \in 1 .. Len(q) : r[j] = q[b] /\ b = IF j < p THEN j ELSE j + 1
    BY <1>0
  <2>3. a = b
    BY <1>a, <2>1, <2>2 DEF OnceEach
  <2> QED
    BY <1>1, <1>2, <1>5, <2>1, <2>2, <2>3
<1>9. ASSUME NEW u \in W \ {t} PROVE \E i \in 1 .. Len(r) : r[i] = u
  <2>1. PICK h \in 1 .. Len(q) : q[h] = u
    BY <1>a DEF OnceEach
  <2>2. h # p
    BY <1>2, <2>1
  <2>3. CASE h < p
    <3>1. h \in 1 .. Len(r) /\ r[h] = q[h]
      BY <1>1, <1>2, <1>5, <1>6, <2>3
    <3> QED
      BY <2>1, <3>1
  <2>4. CASE h > p
    <3>1. h - 1 \in 1 .. Len(r) /\ r[h - 1] = q[(h - 1) + 1] /\ (h - 1) + 1 = h
      BY <1>1, <1>2, <1>5, <1>6, <2>4
    <3> QED
      BY <2>1, <3>1
  <2> QED
    BY <1>2, <2>1, <2>2, <2>3, <2>4
<1>10. r = Dequeue(q, t)
  BY DEF Dequeue, r, front, back, p
<1>11. IsQueueOf(r, W \ {t})
  <2>1. r \in Seq(W \ {t})
    BY <1>5, <1>7, LenProperties, IsASeq
  <2> QED
    BY <1>7, <1>8, <1>9, <2>1 DEF IsQueueOf, OnceEach
<1> QED
  BY <1>5, <1>10, <1>11

-----------------------------------------------------------------------------
(***************************************************************************)
(* The calls on semaphores.                                                *)
(***************************************************************************)
KernelStates == [s_cnt : [Sems -> Int], s_queue : [Sems -> Seq(Threads)],
                 wtobjp : [Threads -> Sems \cup {None}],
                 rdymsg : [Threads -> Answers], timed : [Threads -> BOOLEAN]]

LEMMA KernelState ==
    ASSUME NEW cnt \in [Sems -> Int], NEW queue \in [Sems -> Seq(Threads)],
           NEW obj \in [Threads -> Sems \cup {None}], NEW msg \in [Threads -> Answers],
           NEW timed \in [Threads -> BOOLEAN]
    PROVE  [s_cnt |-> cnt, s_queue |-> queue, wtobjp |-> obj, rdymsg |-> msg, timed |-> timed]
             \in KernelStates
BY DEF KernelStates

Waiters(j, s) == {t \in Threads : j.wtobjp[t] = s}

LEMMA QueueOfThreads ==
    ASSUME NEW W \in SUBSET Threads, NEW q, IsQueueOf(q, W)
    PROVE  q \in Seq(Threads)
BY SeqMonotonic DEF IsQueueOf

\* The types, and SemaphoresConsistent, of a state of the kernel.
KernelOK(j) ==
    /\ j \in KernelStates
    /\ \A s \in Sems : /\ IsQueueOf(j.s_queue[s], Waiters(j, s))
                      /\ Len(j.s_queue[s]) = Pos(-j.s_cnt[s])

\* i is j after the counter of s has become c and the threads ts have been made
\* ready with msg.
Changed(j, i, s, c, ts, msg) ==
    /\ i.s_cnt = [j.s_cnt EXCEPT ![s] = c]
    /\ i.wtobjp = [t \in Threads |-> IF t \in ts THEN None ELSE j.wtobjp[t]]
    /\ i.rdymsg = [t \in Threads |-> IF t \in ts THEN msg ELSE j.rdymsg[t]]

LEMMA NoneIsNoSem == None \notin Sems /\ None \notin Threads
BY SemAssumption

\* Whatever the call, the queue of the semaphore loses the threads made ready.
LEMMA ReadyStep ==
    ASSUME NEW j, KernelOK(j), NEW s \in Sems, NEW c \in Int,
           NEW ts \in SUBSET Waiters(j, s), NEW q, IsQueueOf(q, Waiters(j, s) \ ts),
           Len(q) = Pos(-c), NEW msg \in Answers, NEW i,
           i = Ready([j EXCEPT !.s_cnt[s] = c, !.s_queue[s] = q], ts, msg)
    PROVE  KernelOK(i) /\ Changed(j, i, s, c, ts, msg)
<1>1. j \in KernelStates
  BY DEF KernelOK
<1>2. q \in Seq(Threads)
  <2>1. Waiters(j, s) \ ts \in SUBSET Threads
    BY DEF Waiters
  <2> QED
    BY <2>1, QueueOfThreads
<1>3. i = [s_cnt |-> [j.s_cnt EXCEPT ![s] = c], s_queue |-> [j.s_queue EXCEPT ![s] = q],
           wtobjp |-> [t \in Threads |-> IF t \in ts THEN None ELSE j.wtobjp[t]],
           rdymsg |-> [t \in Threads |-> IF t \in ts THEN msg ELSE j.rdymsg[t]],
           timed |-> j.timed]
  BY <1>1 DEF Ready, KernelStates
<1>4. i \in KernelStates
  <2> DEFINE cnt == [j.s_cnt EXCEPT ![s] = c]
             queue == [j.s_queue EXCEPT ![s] = q]
             obj == [t \in Threads |-> IF t \in ts THEN None ELSE j.wtobjp[t]]
             ans == [t \in Threads |-> IF t \in ts THEN msg ELSE j.rdymsg[t]]
             timer == j.timed
  <2>1. cnt \in [Sems -> Int]
    BY <1>1 DEF KernelStates
  <2>2. queue \in [Sems -> Seq(Threads)]
    BY <1>1, <1>2 DEF KernelStates
  <2>3. obj \in [Threads -> Sems \cup {None}]
    BY <1>1 DEF KernelStates
  <2>4. ans \in [Threads -> Answers]
    BY <1>1 DEF KernelStates
  <2>5. timer \in [Threads -> BOOLEAN]
    BY <1>1 DEF KernelStates
  <2>6. i = [s_cnt |-> cnt, s_queue |-> queue, wtobjp |-> obj, rdymsg |-> ans, timed |-> timer]
    BY <1>3, Zenon
  <2> HIDE DEF cnt, queue, obj, ans, timer
  <2>7. [s_cnt |-> cnt, s_queue |-> queue, wtobjp |-> obj, rdymsg |-> ans, timed |-> timer]
          \in KernelStates
    BY <2>1, <2>2, <2>3, <2>4, <2>5, KernelState
  <2> QED
    BY <2>6, <2>7, Zenon
<1>5. Changed(j, i, s, c, ts, msg)
  BY <1>3 DEF Changed
<1>6. Waiters(i, s) = Waiters(j, s) \ ts
  BY <1>3, NoneIsNoSem DEF Waiters
<1>7. \A x \in Sems \ {s} : Waiters(i, x) = Waiters(j, x)
  BY <1>3, NoneIsNoSem DEF Waiters
<1>8. ASSUME NEW x \in Sems
      PROVE  IsQueueOf(i.s_queue[x], Waiters(i, x)) /\ Len(i.s_queue[x]) = Pos(-i.s_cnt[x])
  <2>1. CASE x = s
    <3>1. i.s_queue[x] = q /\ i.s_cnt[x] = c
      BY <1>1, <1>3, <2>1 DEF KernelStates
    <3> QED
      BY <1>6, <2>1, <3>1
  <2>2. CASE x # s
    <3>1. i.s_queue[x] = j.s_queue[x] /\ i.s_cnt[x] = j.s_cnt[x]
      BY <1>1, <1>3, <2>2 DEF KernelStates
    <3> QED
      BY <1>7, <2>2, <3>1 DEF KernelOK
  <2> QED
    BY <2>1, <2>2
<1> QED
  BY <1>4, <1>5, <1>8 DEF KernelOK

\* The counter alone.
LEMMA CountStep ==
    ASSUME NEW j, KernelOK(j), NEW s \in Sems, NEW c \in Int, Pos(-c) = Pos(-j.s_cnt[s]),
           NEW msg, NEW i, i = [j EXCEPT !.s_cnt[s] = c]
    PROVE  KernelOK(i) /\ Changed(j, i, s, c, {}, msg)
<1>1. j \in KernelStates
  BY DEF KernelOK
<1>2. i = [s_cnt |-> [j.s_cnt EXCEPT ![s] = c], s_queue |-> j.s_queue,
           wtobjp |-> j.wtobjp, rdymsg |-> j.rdymsg, timed |-> j.timed]
  BY <1>1 DEF KernelStates
<1>3. i \in KernelStates
  <2> DEFINE cnt == [j.s_cnt EXCEPT ![s] = c]
  <2>1. cnt \in [Sems -> Int]
    BY <1>1 DEF KernelStates
  <2>2. i = [s_cnt |-> cnt, s_queue |-> j.s_queue,
             wtobjp |-> j.wtobjp, rdymsg |-> j.rdymsg, timed |-> j.timed]
    BY <1>2, Zenon
  <2> HIDE DEF cnt
  <2>3. [s_cnt |-> cnt, s_queue |-> j.s_queue,
         wtobjp |-> j.wtobjp, rdymsg |-> j.rdymsg, timed |-> j.timed] \in KernelStates
    BY <1>1, <2>1, KernelState DEF KernelStates
  <2> QED
    BY <2>2, <2>3, Zenon
<1>4. /\ j.wtobjp = [t \in Threads |-> IF t \in {} THEN None ELSE j.wtobjp[t]]
      /\ j.rdymsg = [t \in Threads |-> IF t \in {} THEN msg ELSE j.rdymsg[t]]
  BY <1>1 DEF KernelStates
<1>5. Changed(j, i, s, c, {}, msg)
  BY <1>2, <1>4 DEF Changed
<1>6. \A x \in Sems : /\ Waiters(i, x) = Waiters(j, x)
                     /\ i.s_queue[x] = j.s_queue[x]
                     /\ Pos(-i.s_cnt[x]) = Pos(-j.s_cnt[x])
  BY <1>1, <1>2 DEF Waiters, KernelStates
<1> QED
  BY <1>3, <1>5, <1>6 DEF KernelOK

\* A thread that nobody sleeps before is not passed over: with a thread of a
\* queue all those before it are made ready.
InTurn(j, s, ts) ==
    \A i \in 1 .. Len(j.s_queue[s]) :
      j.s_queue[s][i] \in ts => \A h \in 1 .. i : j.s_queue[s][h] \in ts

LEMMA SignalStep ==
    ASSUME NEW j, KernelOK(j), NEW s \in Sems
    PROVE  /\ KernelOK(SignalI(j, s))
           /\ \E ts \in SUBSET Waiters(j, s) :
                /\ Changed(j, SignalI(j, s), s, j.s_cnt[s] + 1, ts, "RDY_OK")
                /\ j.s_cnt[s] >= 0 => ts = {}
                /\ j.s_cnt[s] < 0 => \E t \in Waiters(j, s) : ts = {t}
                /\ InTurn(j, s, ts)
<1> DEFINE c == j.s_cnt[s] + 1
           q == j.s_queue[s]
<1>1. j \in KernelStates /\ j.s_cnt[s] \in Int /\ c \in Int /\ "RDY_OK" \in Answers
  BY DEF KernelOK, KernelStates, Answers
<1>2. IsQueueOf(q, Waiters(j, s)) /\ Len(q) = Pos(-j.s_cnt[s])
  BY DEF KernelOK
<1>3. [j EXCEPT !.s_cnt[s] = @ + 1] = [j EXCEPT !.s_cnt[s] = c]
  BY <1>1 DEF KernelStates
<1>4. [j EXCEPT !.s_cnt[s] = c].s_cnt[s] = c
  BY <1>1 DEF KernelStates
<1>5. CASE c > 0
  <2>1. SignalI(j, s) = [j EXCEPT !.s_cnt[s] = c]
    BY <1>3, <1>4, <1>5 DEF SignalI
  <2>2. Pos(-c) = Pos(-j.s_cnt[s])
    BY <1>1, <1>5 DEF Pos
  <2>3. KernelOK(SignalI(j, s)) /\ Changed(j, SignalI(j, s), s, c, {}, "RDY_OK")
    BY <1>1, <2>1, <2>2, CountStep
  <2> QED
    BY <1>1, <1>5, <2>3 DEF InTurn
<1>6. CASE ~ (c > 0)
  <2>1. Len(q) # 0 /\ Len(q) - 1 = Pos(-c)
    BY <1>1, <1>2, <1>6 DEF Pos
  <2>2. Head(q) = q[1] /\ Head(q) \in Waiters(j, s) /\ IsQueueOf(Tail(q), Waiters(j, s) \ {Head(q)})
        /\ Len(Tail(q)) = Pos(-c)
    BY <1>2, <2>1, HeadLeaves
  <2>3. SignalI(j, s) = Ready([j EXCEPT !.s_cnt[s] = c, !.s_queue[s] = Tail(q)], {Head(q)}, "RDY_OK")
    <3>1. [[j EXCEPT !.s_cnt[s] = c] EXCEPT !.s_queue[s] = Tail(@)]
             = [j EXCEPT !.s_cnt[s] = c, !.s_queue[s] = Tail(q)]
      BY <1>1 DEF KernelStates
    <3> QED
      BY <1>3, <1>4, <1>6, <3>1 DEF SignalI
  <2>4. {Head(q)} \in SUBSET Waiters(j, s)
    BY <2>2
  <2>5. KernelOK(SignalI(j, s)) /\ Changed(j, SignalI(j, s), s, c, {Head(q)}, "RDY_OK")
    BY <1>1, <2>2, <2>3, <2>4, ReadyStep
  <2>6. InTurn(j, s, {Head(q)})
    BY <1>2, <2>1, <2>2 DEF InTurn, IsQueueOf
  <2> QED
    BY <1>1, <1>6, <2>2, <2>4, <2>5, <2>6
<1> QED
  BY <1>5, <1>6

LEMMA AddCounterStep ==
    ASSUME NEW j, KernelOK(j), NEW s \in Sems, NEW n \in Nat
    PROVE  /\ KernelOK(AddCounterI(j, s, n))
           /\ \E ts \in SUBSET Waiters(j, s) :
                /\ Changed(j, AddCounterI(j, s, n), s, j.s_cnt[s] + n, ts, "RDY_OK")
                /\ InTurn(j, s, ts)
<1> DEFINE c == j.s_cnt[s] + n
           q == j.s_queue[s]
           m == IF n <= Pos(-j.s_cnt[s]) THEN n ELSE Pos(-j.s_cnt[s])
<1>1. j \in KernelStates /\ j.s_cnt[s] \in Int /\ c \in Int /\ "RDY_OK" \in Answers
  BY DEF KernelOK, KernelStates, Answers
<1>2. IsQueueOf(q, Waiters(j, s)) /\ Len(q) = Pos(-j.s_cnt[s]) /\ Len(q) \in Nat
  BY QueueOfNobody DEF KernelOK
<1>3. m \in 0 .. Len(q) /\ Len(q) - m = Pos(-c)
  BY <1>1, <1>2 DEF Pos
<1>4. AddCounterI(j, s, n) =
        Ready([j EXCEPT !.s_cnt[s] = c, !.s_queue[s] = SubSeq(q, m + 1, Len(q))],
              Part(q, 1, m), "RDY_OK")
  <2>1. [j EXCEPT !.s_cnt[s] = @ + n, !.s_queue[s] = SubSeq(@, m + 1, Len(@))]
          = [j EXCEPT !.s_cnt[s] = c, !.s_queue[s] = SubSeq(q, m + 1, Len(q))]
    BY <1>1 DEF KernelStates
  <2> QED
    BY <2>1 DEF AddCounterI, Part
<1> HIDE DEF m
<1>5. /\ IsQueueOf(SubSeq(q, m + 1, Len(q)), Part(q, m + 1, Len(q)))
      /\ Len(SubSeq(q, m + 1, Len(q))) = Pos(-c)
  <2>1. m + 1 \in 1 .. Len(q) + 1 /\ Len(q) \in (m + 1) - 1 .. Len(q)
        /\ Len(q) - (m + 1) + 1 = Len(q) - m
    BY <1>2, <1>3
  <2>2. PICK a \in 1 .. Len(q) + 1 : a = m + 1
    BY <2>1
  <2>3. Len(q) \in a - 1 .. Len(q)
    BY <2>1, <2>2
  <2>4. IsQueueOf(SubSeq(q, a, Len(q)), Part(q, a, Len(q))) /\ Len(SubSeq(q, a, Len(q))) = Len(q) - a + 1
    BY <1>2, <2>3, PartQueue
  <2>5. Len(q) - a + 1 = Pos(-c)
    BY <1>2, <1>3, <2>2
  <2> QED
    BY <2>2, <2>4, <2>5
<1>6. Part(q, m + 1, Len(q)) = Waiters(j, s) \ Part(q, 1, m) /\ Part(q, 1, m) \in SUBSET Waiters(j, s)
  BY <1>2, <1>3, Parts
<1>7. /\ KernelOK(AddCounterI(j, s, n))
      /\ Changed(j, AddCounterI(j, s, n), s, c, Part(q, 1, m), "RDY_OK")
  BY <1>1, <1>4, <1>5, <1>6, ReadyStep
<1>8. InTurn(j, s, Part(q, 1, m))
  <2> SUFFICES ASSUME NEW i \in 1 .. Len(q), q[i] \in Part(q, 1, m), NEW h \in 1 .. i
               PROVE  q[h] \in Part(q, 1, m)
    BY DEF InTurn
  <2>1. PICK g \in 1 .. m : q[g] = q[i]
    BY DEF Part
  <2>2. g \in 1 .. Len(q)
    BY <1>2, <1>3
  <2>3. g = i
    BY <1>2, <2>1, <2>2, QueueEach DEF OnceEach
  <2> QED
    BY <1>3, <2>3 DEF Part
<1> QED
  BY <1>6, <1>7, <1>8

LEMMA ResetStep ==
    ASSUME NEW j, KernelOK(j), NEW s \in Sems, NEW n \in Nat
    PROVE  /\ KernelOK(ResetI(j, s, n))
           /\ Changed(j, ResetI(j, s, n), s, n, Waiters(j, s), "RDY_RESET")
<1> DEFINE q == j.s_queue[s]
           left == Len(q) - Pos(-j.s_cnt[s])
<1>1. j \in KernelStates /\ "RDY_RESET" \in Answers
  BY DEF KernelOK, Answers
<1>2. IsQueueOf(q, Waiters(j, s)) /\ Len(q) \in Nat /\ left = 0
  BY QueueOfNobody DEF KernelOK
<1>3. Waiters(j, s) = {q[i] : i \in left + 1 .. Len(q)}
  BY <1>2, QueueEach DEF OnceEach
<1>4. IsQueueOf(SubSeq(q, 1, left), {}) /\ Len(SubSeq(q, 1, left)) = Pos(-n)
  <2>1. SubSeq(q, 1, 0) = <<>>
    BY <1>2, SubSeqEmpty DEF IsQueueOf
  <2>2. Pos(-n) = 0 /\ Len(<<>>) = 0
    BY DEF Pos
  <2> QED
    BY <1>2, <2>1, <2>2, EmptyQueue
<1>5. ResetI(j, s, n) =
        Ready([j EXCEPT !.s_cnt[s] = n, !.s_queue[s] = SubSeq(q, 1, left)], Waiters(j, s), "RDY_RESET")
  <2>1. [j EXCEPT !.s_cnt[s] = n, !.s_queue[s] = SubSeq(@, 1, left)]
          = [j EXCEPT !.s_cnt[s] = n, !.s_queue[s] = SubSeq(q, 1, left)]
    BY <1>1 DEF KernelStates
  <2> QED
    BY <1>3, <2>1 DEF ResetI
<1> HIDE DEF left
<1>6. Waiters(j, s) \ Waiters(j, s) = {} /\ Waiters(j, s) \in SUBSET Waiters(j, s) /\ n \in Int
  OBVIOUS
<1>7. PICK r : r = SubSeq(q, 1, left)
  OBVIOUS
<1>8. IsQueueOf(r, Waiters(j, s) \ Waiters(j, s)) /\ Len(r) = Pos(-n)
  BY <1>4, <1>6, <1>7
<1> QED
  BY <1>1, <1>5, <1>6, <1>7, <1>8, ReadyStep

LEMMA TakeStep ==
    ASSUME NEW j, KernelOK(j), NEW s \in Sems, j.s_cnt[s] > 0
    PROVE  /\ KernelOK(Take(j, s))
           /\ Changed(j, Take(j, s), s, j.s_cnt[s] - 1, {}, "RDY_OK")
           /\ Take(j, s).s_queue = j.s_queue
<1> DEFINE c == j.s_cnt[s] - 1
<1>1. j \in KernelStates /\ j.s_cnt[s] \in Int /\ c \in Int
  BY DEF KernelOK, KernelStates
<1>2. Take(j, s) = [j EXCEPT !.s_cnt[s] = c]
  BY <1>1 DEF Take, KernelStates
<1>3. Pos(-c) = Pos(-j.s_cnt[s])
  BY <1>1 DEF Pos
<1>4. Take(j, s).s_queue = j.s_queue
  BY <1>1, <1>2 DEF KernelStates
<1> QED
  BY <1>1, <1>2, <1>3, <1>4, CountStep

\* A timer that is disarmed is none of the semaphores' business.
LEMMA TimerStep ==
    ASSUME NEW j, KernelOK(j), NEW t \in Threads, NEW i, i = [j EXCEPT !.timed[t] = FALSE]
    PROVE  /\ KernelOK(i)
           /\ i.s_cnt = j.s_cnt /\ i.s_queue = j.s_queue
           /\ i.wtobjp = j.wtobjp /\ i.rdymsg = j.rdymsg
<1>1. j \in KernelStates
  BY DEF KernelOK
<1>2. i = [s_cnt |-> j.s_cnt, s_queue |-> j.s_queue, wtobjp |-> j.wtobjp,
           rdymsg |-> j.rdymsg, timed |-> [j.timed EXCEPT ![t] = FALSE]]
  BY <1>1 DEF KernelStates
<1>3. /\ i.s_cnt = j.s_cnt /\ i.s_queue = j.s_queue
      /\ i.wtobjp = j.wtobjp /\ i.rdymsg = j.rdymsg
  BY <1>2
<1>4. i \in KernelStates
  <2> DEFINE timer == [j.timed EXCEPT ![t] = FALSE]
  <2>1. timer \in [Threads -> BOOLEAN]
    BY <1>1 DEF KernelStates
  <2>2. i = [s_cnt |-> j.s_cnt, s_queue |-> j.s_queue, wtobjp |-> j.wtobjp,
             rdymsg |-> j.rdymsg, timed |-> timer]
    BY <1>2, Zenon
  <2> HIDE DEF timer
  <2>3. [s_cnt |-> j.s_cnt, s_queue |-> j.s_queue, wtobjp |-> j.wtobjp,
         rdymsg |-> j.rdymsg, timed |-> timer] \in KernelStates
    BY <1>1, <2>1, KernelState DEF KernelStates
  <2> QED
    BY <2>2, <2>3, Zenon
<1> QED
  BY <1>3, <1>4 DEF KernelOK, Waiters

LEMMA TimeoutStep ==
    ASSUME NEW j, KernelOK(j), NEW t \in Threads
    PROVE  /\ KernelOK(Timeout(j, t))
           /\ j.wtobjp[t] = None => /\ Timeout(j, t).s_cnt = j.s_cnt
                                    /\ Timeout(j, t).wtobjp = j.wtobjp
                                    /\ Timeout(j, t).rdymsg = j.rdymsg
           /\ j.wtobjp[t] # None =>
                /\ j.wtobjp[t] \in Sems /\ t \in Waiters(j, j.wtobjp[t])
                /\ j.s_cnt[j.wtobjp[t]] < 0
                /\ Changed(j, Timeout(j, t), j.wtobjp[t], j.s_cnt[j.wtobjp[t]] + 1, {t}, "RDY_TIMEOUT")
<1> DEFINE s == j.wtobjp[t]
           i == [j EXCEPT !.timed[t] = FALSE]
           c == j.s_cnt[s] + 1
           q == i.s_queue[s]
<1>1. j \in KernelStates /\ "RDY_TIMEOUT" \in Answers
  BY DEF KernelOK, Answers
<1>2. PICK n : n = i
  OBVIOUS
<1>3. /\ KernelOK(n) /\ n.s_cnt = j.s_cnt /\ n.s_queue = j.s_queue
      /\ n.wtobjp = j.wtobjp /\ n.rdymsg = j.rdymsg
  BY <1>2, TimerStep
<1>4. CASE s = None
  <2>1. Timeout(j, t) = n
    BY <1>2, <1>4 DEF Timeout
  <2> QED
    BY <1>3, <1>4, <2>1
<1>5. CASE s # None
  <2>1. s \in Sems /\ t \in Waiters(j, s)
    BY <1>1, <1>5 DEF KernelStates, Waiters
  <2>2. /\ IsQueueOf(n.s_queue[s], Waiters(n, s)) /\ Len(n.s_queue[s]) = Pos(-n.s_cnt[s])
        /\ n.s_cnt[s] \in Int /\ Waiters(n, s) = Waiters(j, s)
    BY <1>3, <2>1 DEF KernelOK, KernelStates, Waiters
  <2>3. PICK r : r = Dequeue(n.s_queue[s], t)
    OBVIOUS
  <2>4. IsQueueOf(r, Waiters(n, s) \ {t}) /\ Len(r) = Len(n.s_queue[s]) - 1
    BY <2>1, <2>2, <2>3, LeaveQueue
  <2>5. Len(n.s_queue[s]) \in Nat /\ Len(r) \in Nat
    BY <2>2, <2>4, QueueOfNobody
  <2>6. n.s_cnt[s] < 0 /\ Len(r) = Pos(-(n.s_cnt[s] + 1)) /\ n.s_cnt[s] + 1 \in Int
    BY <2>2, <2>4, <2>5 DEF Pos
  <2>7. Timeout(j, t) = Ready([n EXCEPT !.s_cnt[s] = n.s_cnt[s] + 1, !.s_queue[s] = r], {t}, "RDY_TIMEOUT")
    <3>1. n \in KernelStates
      BY <1>3 DEF KernelOK
    <3>2. [n EXCEPT !.s_cnt[s] = @ + 1, !.s_queue[s] = Dequeue(@, t)]
            = [n EXCEPT !.s_cnt[s] = n.s_cnt[s] + 1, !.s_queue[s] = r]
      BY <2>3, <3>1 DEF KernelStates
    <3> QED
      BY <1>2, <1>5, <3>2 DEF Timeout
  <2>8. {t} \in SUBSET Waiters(n, s)
    BY <2>1, <2>2
  <2>9. /\ KernelOK(Timeout(j, t))
        /\ Changed(n, Timeout(j, t), s, n.s_cnt[s] + 1, {t}, "RDY_TIMEOUT")
    BY <1>1, <1>3, <2>1, <2>4, <2>6, <2>7, <2>8, ReadyStep
  <2>10. Changed(j, Timeout(j, t), s, c, {t}, "RDY_TIMEOUT") /\ j.s_cnt[s] < 0
    BY <1>3, <2>6, <2>9 DEF Changed
  <2> QED
    BY <1>5, <2>1, <2>9, <2>10
<1> QED
  BY <1>4, <1>5

\* A thread goes to sleep on s.
LEMMA SleepStep ==
    ASSUME NEW j, KernelOK(j), NEW s \in Sems, j.s_cnt[s] <= 0,
           NEW t \in Threads, j.wtobjp[t] = None, NEW timeout \in BOOLEAN
    PROVE  LET i == Sleep(j, t, s, timeout) IN
           /\ KernelOK(i)
           /\ i.s_cnt = [j.s_cnt EXCEPT ![s] = j.s_cnt[s] - 1]
           /\ i.wtobjp = [j.wtobjp EXCEPT ![t] = s]
           /\ i.rdymsg = j.rdymsg
<1> DEFINE i == Sleep(j, t, s, timeout)
           cnt == [j.s_cnt EXCEPT ![s] = j.s_cnt[s] - 1]
           queue == [j.s_queue EXCEPT ![s] = Append(j.s_queue[s], t)]
           obj == [j.wtobjp EXCEPT ![t] = s]
           ans == j.rdymsg
           timer == [j.timed EXCEPT ![t] = timeout]
<1>1. j \in KernelStates /\ j.s_cnt[s] \in Int
  BY DEF KernelOK, KernelStates
<1>2. i = [s_cnt |-> cnt, s_queue |-> queue, wtobjp |-> obj, rdymsg |-> ans, timed |-> timer]
  <2>1. i = [j EXCEPT !.s_cnt = cnt, !.s_queue = queue, !.wtobjp = obj, !.timed = timer]
    BY <1>1 DEF Sleep, KernelStates
  <2> HIDE DEF i, cnt, queue, obj, timer
  <2> QED
    BY <1>1, <2>1 DEF KernelStates
<1>3. IsQueueOf(j.s_queue[s], Waiters(j, s)) /\ Len(j.s_queue[s]) = Pos(-j.s_cnt[s])
  BY DEF KernelOK
<1>4. t \notin Waiters(j, s)
  BY NoneIsNoSem DEF Waiters
<1>5. PICK q : q = Append(j.s_queue[s], t)
  OBVIOUS
<1>6. IsQueueOf(q, Waiters(j, s) \cup {t}) /\ Len(q) = Len(j.s_queue[s]) + 1
  BY <1>3, <1>4, <1>5, JoinQueue
<1>7. Len(q) = Pos(-(j.s_cnt[s] - 1))
  BY <1>1, <1>3, <1>6 DEF Pos
<1>8. cnt \in [Sems -> Int] /\ cnt[s] = j.s_cnt[s] - 1 /\ \A x \in Sems \ {s} : cnt[x] = j.s_cnt[x]
  BY <1>1 DEF KernelStates
<1>9. /\ queue \in [Sems -> Seq(Threads)] /\ queue[s] = q
      /\ \A x \in Sems \ {s} : queue[x] = j.s_queue[x]
  <2>1. Waiters(j, s) \cup {t} \in SUBSET Threads
    BY DEF Waiters
  <2>2. q \in Seq(Threads)
    BY <1>6, <2>1, QueueOfThreads
  <2> QED
    BY <1>1, <1>5, <2>2 DEF KernelStates
<1>10. obj \in [Threads -> Sems \cup {None}]
  BY <1>1 DEF KernelStates
<1>11. /\ {u \in Threads : obj[u] = s} = Waiters(j, s) \cup {t}
       /\ \A x \in Sems \ {s} : {u \in Threads : obj[u] = x} = Waiters(j, x)
  BY <1>1, NoneIsNoSem DEF KernelStates, Waiters
<1>12. ans \in [Threads -> Answers] /\ timer \in [Threads -> BOOLEAN]
  BY <1>1 DEF KernelStates
<1>13. i.s_cnt = cnt /\ i.s_queue = queue /\ i.wtobjp = obj /\ i.rdymsg = ans
  BY <1>2
<1> HIDE DEF cnt, queue, obj, ans, timer
<1>14. [s_cnt |-> cnt, s_queue |-> queue, wtobjp |-> obj, rdymsg |-> ans, timed |-> timer] \in KernelStates
  BY <1>8, <1>9, <1>10, <1>12, KernelState
<1>15. i \in KernelStates
  BY <1>2, <1>14, Zenon
<1> HIDE DEF i
<1>16. ASSUME NEW x \in Sems
       PROVE  IsQueueOf(i.s_queue[x], Waiters(i, x)) /\ Len(i.s_queue[x]) = Pos(-i.s_cnt[x])
  <2>1. CASE x = s
    <3>1. Waiters(i, x) = Waiters(j, s) \cup {t}
      BY <1>11, <1>13, <2>1 DEF Waiters
    <3> QED
      BY <1>6, <1>7, <1>8, <1>9, <1>13, <2>1, <3>1
  <2>2. CASE x # s
    <3>1. Waiters(i, x) = Waiters(j, x)
      BY <1>11, <1>13, <2>2 DEF Waiters
    <3>2. i.s_queue[x] = j.s_queue[x] /\ i.s_cnt[x] = j.s_cnt[x]
      BY <1>8, <1>9, <1>13, <2>2
    <3> QED
      BY <3>1, <3>2 DEF KernelOK
  <2> QED
    BY <2>1, <2>2
<1>17. KernelOK(i)
  BY <1>15, <1>16 DEF KernelOK
<1> QED
  BY <1>13, <1>17 DEF i, cnt, obj, ans

-----------------------------------------------------------------------------
(***************************************************************************)
(* Order: nobody in a queue is passed over.                                *)
(***************************************************************************)
\* ServedInOrder, of a step from j to i.
OrderKept(j, i) ==
    \A s \in Sems :
      LET q == j.s_queue[s] IN
      \A n \in 1 .. Len(q) :
        i.wtobjp[q[n]] = None /\ i.rdymsg[q[n]] = "RDY_OK" =>
          \A h \in 1 .. n : i.wtobjp[q[h]] # s

LEMMA OrderOfCall ==
    ASSUME NEW j, KernelOK(j), NEW i, NEW s \in Sems, NEW c, NEW ts \in SUBSET Waiters(j, s), NEW msg,
           Changed(j, i, s, c, ts, msg), msg = "RDY_OK" => InTurn(j, s, ts)
    PROVE  OrderKept(j, i)
<1> SUFFICES ASSUME NEW x \in Sems, NEW n \in 1 .. Len(j.s_queue[x]),
                    i.wtobjp[j.s_queue[x][n]] = None, i.rdymsg[j.s_queue[x][n]] = "RDY_OK",
                    NEW h \in 1 .. n
             PROVE  i.wtobjp[j.s_queue[x][h]] # x
  BY DEF OrderKept
<1> DEFINE t == j.s_queue[x][n]
           u == j.s_queue[x][h]
<1>1. t \in Waiters(j, x) /\ u \in Waiters(j, x) /\ h \in 1 .. Len(j.s_queue[x])
  <2>1. IsQueueOf(j.s_queue[x], Waiters(j, x)) /\ Len(j.s_queue[x]) \in Nat
    BY QueueOfNobody DEF KernelOK
  <2>2. h \in 1 .. Len(j.s_queue[x])
    BY <2>1
  <2> QED
    BY <2>1, <2>2 DEF IsQueueOf
<1>2. t \in ts
  BY <1>1, NoneIsNoSem DEF Changed, Waiters
<1>3. x = s /\ msg = "RDY_OK"
  BY <1>1, <1>2 DEF Changed, Waiters
<1>4. u \in ts
  BY <1>2, <1>3 DEF InTurn
<1> QED
  BY <1>1, <1>4, NoneIsNoSem DEF Changed, Waiters

\* Who is in a queue waits for its semaphore.
LEMMA QueuedWaits ==
    ASSUME NEW j, KernelOK(j), NEW x \in Sems, NEW n \in 1 .. Len(j.s_queue[x])
    PROVE  j.s_queue[x][n] \in Threads /\ j.wtobjp[j.s_queue[x][n]] = x
<1>1. OnceEach(j.s_queue[x], Waiters(j, x))
  BY QueueEach DEF KernelOK
<1>2. j.s_queue[x][n] \in Waiters(j, x)
  BY <1>1 DEF OnceEach
<1> QED
  BY <1>2 DEF Waiters

LEMMA OrderOfNothing ==
    ASSUME NEW j, KernelOK(j), NEW i, i.wtobjp = j.wtobjp
    PROVE  OrderKept(j, i)
<1> SUFFICES ASSUME NEW x \in Sems, NEW n \in 1 .. Len(j.s_queue[x])
             PROVE  i.wtobjp[j.s_queue[x][n]] # None
  BY DEF OrderKept
<1> QED
  BY NoneIsNoSem, QueuedWaits

-----------------------------------------------------------------------------
(***************************************************************************)
(* Units: what a semaphore has left and what it has given to threads that  *)
(* have yet to use it. Two semaphores of different calls do not meet.      *)
(***************************************************************************)
BoxSems == {empty, full}

CallsOf(s) ==
    IF s = empty THEN PostCalls ELSE IF s = full THEN {"fetch"} ELSE {"wait"}

\* A thread sleeps on a semaphore in one of the calls that use it.
InPlace(j, p) == \A t \in Threads : j.wtobjp[t] # None => p[t] \in CallsOf(j.wtobjp[t])

Adm(j, p, s) ==
    {t \in Threads : /\ p[t] \in CallsOf(s)
                     /\ j.wtobjp[t] = None
                     /\ j.rdymsg[t] = "RDY_OK"}

Units(j, p, s) == Pos(j.s_cnt[s]) + Cardinality(Adm(j, p, s))

\* The pairs of states of the kernel and pc before and after a step: the units of
\* s change by d, and those of the other semaphore of the mailbox do not.
UnitsPlus(j, p, i, r, s, d) ==
    \A x \in BoxSems : Units(i, r, x) = Units(j, p, x) + (IF x = s THEN d ELSE 0)

UnitsSame(j, p, i, r) == \A x \in BoxSems : Units(i, r, x) = Units(j, p, x)

\* t has returned: if it had a unit, that is used now.
UnitUsed(j, p, r, t) ==
    \A x \in BoxSems : Units(j, r, x) = Units(j, p, x) - (IF t \in Adm(j, p, x) THEN 1 ELSE 0)

\* pc becomes call for t.
PcStep(p, r, t, call) == r[t] = call /\ \A u \in Threads \ {t} : r[u] = p[u]

\* All that waited for s have been told that it was reset, and it counts n.
WasReset(j, p, i, s, n) ==
    /\ \A t \in Threads :
         /\ j.wtobjp[t] = None => i.wtobjp[t] = None /\ i.rdymsg[t] = j.rdymsg[t]
         /\ j.wtobjp[t] # None /\ i.wtobjp[t] = None => i.rdymsg[t] = "RDY_RESET"
    /\ \A x \in BoxSems : /\ Adm(i, p, x) = Adm(j, p, x)
                         /\ i.s_cnt[x] = IF x = s THEN n ELSE j.s_cnt[x]

LEMMA CallsDiffer ==
    ASSUME NEW x \in BoxSems, NEW s \in Sems
    PROVE  /\ x # s => CallsOf(x) \cap CallsOf(s) = {}
           /\ "idle" \notin CallsOf(s)
           /\ x \in Sems
BY MailboxAssumption DEF BoxSems, CallsOf, PostCalls

LEMMA AdmFinite ==
    ASSUME NEW j, NEW p, NEW s
    PROVE  IsFiniteSet(Adm(j, p, s)) /\ Cardinality(Adm(j, p, s)) \in Nat
<1>1. Adm(j, p, s) \in SUBSET Threads
  BY DEF Adm
<1>2. IsFiniteSet(Adm(j, p, s))
  BY <1>1, FS_Subset, MailboxAssumption
<1> QED
  BY <1>2, FS_CardinalityType

\* What a call that makes ts ready with msg does to those who have been admitted.
AdmChanged(j, i, p, s, c, ts, msg) ==
    /\ InPlace(i, p)
    /\ \A x \in BoxSems :
         /\ i.s_cnt[x] = IF x = s THEN c ELSE j.s_cnt[x]
         /\ Adm(j, p, x) \cap ts = {}
         /\ Adm(i, p, x) = IF x = s /\ msg = "RDY_OK" THEN Adm(j, p, x) \cup ts
                                                     ELSE Adm(j, p, x)

LEMMA AdmOfCall ==
    ASSUME NEW j, KernelOK(j), NEW p, InPlace(j, p), NEW i, NEW s \in Sems, NEW c,
           NEW ts \in SUBSET Waiters(j, s), NEW msg, Changed(j, i, s, c, ts, msg)
    PROVE  AdmChanged(j, i, p, s, c, ts, msg)
<1>1. j \in KernelStates
  BY DEF KernelOK
<1>2. InPlace(i, p)
  BY DEF InPlace, Changed
<1>3. ASSUME NEW x \in BoxSems PROVE i.s_cnt[x] = IF x = s THEN c ELSE j.s_cnt[x]
  BY <1>1, CallsDiffer DEF Changed, KernelStates
<1>4. \A t \in ts : t \in Threads /\ j.wtobjp[t] = s /\ p[t] \in CallsOf(s)
  BY NoneIsNoSem DEF Waiters, InPlace
<1>5. ASSUME NEW x \in BoxSems PROVE Adm(j, p, x) \cap ts = {}
  BY <1>4, NoneIsNoSem DEF Adm
<1>6. ASSUME NEW x \in BoxSems
      PROVE  Adm(i, p, x) = IF x = s /\ msg = "RDY_OK" THEN Adm(j, p, x) \cup ts ELSE Adm(j, p, x)
  <2>1. ASSUME NEW t \in Threads, t \in ts
        PROVE  t \notin Adm(j, p, x) /\ (t \in Adm(i, p, x) <=> x = s /\ msg = "RDY_OK")
    <3>1. i.wtobjp[t] = None /\ i.rdymsg[t] = msg
      BY <2>1 DEF Changed
    <3>2. p[t] \in CallsOf(x) <=> x = s
      BY <1>4, <2>1, CallsDiffer
    <3> QED
      BY <1>5, <2>1, <3>1, <3>2 DEF Adm
  <2>2. ASSUME NEW t \in Threads, t \notin ts PROVE t \in Adm(i, p, x) <=> t \in Adm(j, p, x)
    BY <2>2 DEF Adm, Changed
  <2>3. Adm(i, p, x) \subseteq Threads /\ Adm(j, p, x) \subseteq Threads /\ ts \subseteq Threads
    BY DEF Adm, Waiters
  <2>4. CASE x = s /\ msg = "RDY_OK"
    BY <2>1, <2>2, <2>3, <2>4
  <2>5. CASE ~ (x = s /\ msg = "RDY_OK")
    BY <2>1, <2>2, <2>3, <2>5
  <2> QED
    BY <2>4, <2>5
<1> QED
  BY <1>2, <1>3, <1>5, <1>6 DEF AdmChanged

LEMMA SignalUnits ==
    ASSUME NEW j, KernelOK(j), NEW p, InPlace(j, p), NEW s \in Sems
    PROVE  /\ KernelOK(SignalI(j, s)) /\ InPlace(SignalI(j, s), p)
           /\ OrderKept(j, SignalI(j, s))
           /\ UnitsPlus(j, p, SignalI(j, s), p, s, 1)
<1> DEFINE i == SignalI(j, s)
<1>1. KernelOK(i)
  BY SignalStep
<1>2. PICK ts \in SUBSET Waiters(j, s) :
             /\ Changed(j, i, s, j.s_cnt[s] + 1, ts, "RDY_OK")
             /\ j.s_cnt[s] >= 0 => ts = {}
             /\ j.s_cnt[s] < 0 => \E t \in Waiters(j, s) : ts = {t}
             /\ InTurn(j, s, ts)
  BY SignalStep
<1> HIDE DEF i
<1>3. OrderKept(j, i)
  BY <1>2, OrderOfCall
<1>4. /\ InPlace(i, p)
      /\ \A x \in BoxSems :
           /\ i.s_cnt[x] = IF x = s THEN j.s_cnt[s] + 1 ELSE j.s_cnt[x]
           /\ Adm(j, p, x) \cap ts = {}
           /\ Adm(i, p, x) = IF x = s THEN Adm(j, p, x) \cup ts ELSE Adm(j, p, x)
  <2>1. PICK c, msg : c = j.s_cnt[s] + 1 /\ msg = "RDY_OK"
    OBVIOUS
  <2>2. Changed(j, i, s, c, ts, msg)
    BY <1>2, <2>1
  <2>3. AdmChanged(j, i, p, s, c, ts, msg)
    BY <2>2, AdmOfCall
  <2> QED
    BY <2>1, <2>3 DEF AdmChanged
<1>5. ASSUME NEW x \in BoxSems
      PROVE  Units(i, p, x) = Units(j, p, x) + (IF x = s THEN 1 ELSE 0)
  <2>1. IsFiniteSet(Adm(j, p, x)) /\ Cardinality(Adm(j, p, x)) \in Nat /\ j.s_cnt[s] \in Int
        /\ j.s_cnt[x] \in Int
    BY AdmFinite, CallsDiffer DEF KernelOK, KernelStates
  <2>2. CASE x # s
    BY <1>4, <2>1, <2>2 DEF Units, Pos
  <2>3. CASE x = s /\ j.s_cnt[s] >= 0
    BY <1>2, <1>4, <2>1, <2>3 DEF Units, Pos
  <2>4. CASE x = s /\ j.s_cnt[s] < 0
    <3>1. PICK t : ts = {t}
      BY <1>2, <2>4
    <3>2. t \notin Adm(j, p, x) /\ Adm(i, p, x) = Adm(j, p, x) \cup {t}
      BY <1>4, <2>4, <3>1
    <3>3. Cardinality(Adm(i, p, x)) = Cardinality(Adm(j, p, x)) + 1
      BY <2>1, <3>2, FS_AddElement
    <3> QED
      BY <1>4, <2>1, <2>4, <3>3 DEF Units, Pos
  <2> QED
    BY <2>1, <2>2, <2>3, <2>4
<1> QED
  BY <1>1, <1>3, <1>4, <1>5 DEF i, UnitsPlus

LEMMA TakeUnits ==
    ASSUME NEW j, KernelOK(j), NEW p, InPlace(j, p), NEW s \in Sems, j.s_cnt[s] > 0
    PROVE  /\ KernelOK(Take(j, s)) /\ InPlace(Take(j, s), p)
           /\ Take(j, s).wtobjp = j.wtobjp /\ Take(j, s).rdymsg = j.rdymsg
           /\ Take(j, s).s_queue = j.s_queue
           /\ UnitsPlus(j, p, Take(j, s), p, s, -1)
<1> DEFINE i == Take(j, s)
<1>1. KernelOK(i) /\ Changed(j, i, s, j.s_cnt[s] - 1, {}, "RDY_OK") /\ i.s_queue = j.s_queue
  BY TakeStep
<1> HIDE DEF i
<1>2. i.wtobjp = j.wtobjp /\ i.rdymsg = j.rdymsg
  BY <1>1 DEF Changed, KernelOK, KernelStates
<1>3. i.s_cnt = [j.s_cnt EXCEPT ![s] = j.s_cnt[s] - 1] /\ j.s_cnt \in [Sems -> Int]
  BY <1>1 DEF Changed, KernelOK, KernelStates
<1>4. InPlace(i, p)
  BY <1>2 DEF InPlace
<1>5. ASSUME NEW x \in BoxSems
      PROVE  Units(i, p, x) = Units(j, p, x) + (IF x = s THEN -1 ELSE 0)
  <2>1. Adm(i, p, x) = Adm(j, p, x)
    BY <1>2 DEF Adm
  <2>2. j.s_cnt[x] \in Int /\ i.s_cnt[x] = (IF x = s THEN j.s_cnt[s] - 1 ELSE j.s_cnt[x])
    BY <1>3, CallsDiffer
  <2>3. Cardinality(Adm(j, p, x)) \in Nat
    BY AdmFinite
  <2> QED
    BY <2>1, <2>2, <2>3 DEF Units, Pos
<1> QED
  BY <1>1, <1>2, <1>4, <1>5 DEF i, UnitsPlus

LEMMA TimeoutUnits ==
    ASSUME NEW j, KernelOK(j), NEW p, InPlace(j, p), NEW t \in Threads
    PROVE  /\ KernelOK(Timeout(j, t)) /\ InPlace(Timeout(j, t), p)
           /\ OrderKept(j, Timeout(j, t))
           /\ UnitsSame(j, p, Timeout(j, t), p)
<1> DEFINE i == Timeout(j, t)
           s == j.wtobjp[t]
<1>1. KernelOK(i)
  BY TimeoutStep
<1>2. CASE s = None
  <2>1. i.s_cnt = j.s_cnt /\ i.wtobjp = j.wtobjp /\ i.rdymsg = j.rdymsg
    BY <1>2, TimeoutStep
  <2>2. OrderKept(j, i)
    BY <2>1, OrderOfNothing
  <2> HIDE DEF i
  <2>3. InPlace(i, p) /\ \A x \in BoxSems : Adm(i, p, x) = Adm(j, p, x)
    BY <2>1 DEF InPlace, Adm
  <2> QED
    BY <1>1, <2>1, <2>2, <2>3 DEF i, UnitsSame, Units
<1>3. CASE s # None
  <2>1. s \in Sems /\ t \in Waiters(j, s) /\ j.s_cnt[s] < 0 /\ Changed(j, i, s, j.s_cnt[s] + 1, {t}, "RDY_TIMEOUT")
    BY <1>3, TimeoutStep
  <2> HIDE DEF i, s
  <2>2. PICK c, msg, ts : c = j.s_cnt[s] + 1 /\ msg = "RDY_TIMEOUT" /\ ts = {t}
    OBVIOUS
  <2>3. Changed(j, i, s, c, ts, msg) /\ msg # "RDY_OK" /\ ts \in SUBSET Waiters(j, s)
    BY <2>1, <2>2
  <2>4. OrderKept(j, i)
    BY <2>1, <2>3, OrderOfCall
  <2>5. AdmChanged(j, i, p, s, c, ts, msg)
    BY <2>1, <2>3, AdmOfCall
  <2>6. InPlace(i, p) /\ \A x \in BoxSems : Adm(i, p, x) = Adm(j, p, x)
    BY <2>3, <2>5 DEF AdmChanged
  <2>7. j.s_cnt[s] \in Int /\ j.s_cnt[s] < 0
    BY <2>1 DEF KernelOK, KernelStates
  <2>8. ASSUME NEW x \in BoxSems PROVE Pos(i.s_cnt[x]) = Pos(j.s_cnt[x])
    BY <2>2, <2>5, <2>7 DEF Pos, AdmChanged
  <2> QED
    BY <1>1, <2>4, <2>6, <2>8 DEF i, UnitsSame, Units
<1> QED
  BY <1>2, <1>3

LEMMA ResetUnits ==
    ASSUME NEW j, KernelOK(j), NEW p, InPlace(j, p), NEW s \in Sems, NEW n \in Nat
    PROVE  /\ KernelOK(ResetI(j, s, n)) /\ InPlace(ResetI(j, s, n), p)
           /\ OrderKept(j, ResetI(j, s, n))
           /\ WasReset(j, p, ResetI(j, s, n), s, n)
<1> DEFINE i == ResetI(j, s, n)
<1>1. KernelOK(i) /\ Changed(j, i, s, n, Waiters(j, s), "RDY_RESET")
  BY ResetStep
<1> HIDE DEF i
<1>2. PICK c, msg, ts : c = n /\ msg = "RDY_RESET" /\ ts = Waiters(j, s)
  OBVIOUS
<1>3. Changed(j, i, s, c, ts, msg) /\ msg # "RDY_OK" /\ ts \in SUBSET Waiters(j, s)
  BY <1>1, <1>2
<1>4. OrderKept(j, i)
  BY <1>3, OrderOfCall
<1>5. AdmChanged(j, i, p, s, c, ts, msg)
  BY <1>3, AdmOfCall
<1>6. ASSUME NEW t \in Threads
      PROVE  /\ j.wtobjp[t] = None => i.wtobjp[t] = None /\ i.rdymsg[t] = j.rdymsg[t]
             /\ j.wtobjp[t] # None /\ i.wtobjp[t] = None => i.rdymsg[t] = "RDY_RESET"
  BY <1>1, NoneIsNoSem DEF Changed, Waiters
<1> QED
  BY <1>1, <1>2, <1>3, <1>4, <1>5, <1>6 DEF i, AdmChanged, WasReset

LEMMA AddCounterUnits ==
    ASSUME NEW j, KernelOK(j), NEW p, InPlace(j, p), NEW s \in Sems, NEW n \in Nat
    PROVE  /\ KernelOK(AddCounterI(j, s, n)) /\ InPlace(AddCounterI(j, s, n), p)
           /\ OrderKept(j, AddCounterI(j, s, n))
           /\ \A x \in BoxSems \ {s} : Units(AddCounterI(j, s, n), p, x) = Units(j, p, x)
<1> DEFINE i == AddCounterI(j, s, n)
<1>1. KernelOK(i)
  BY AddCounterStep
<1>2. PICK ts \in SUBSET Waiters(j, s) :
        Changed(j, i, s, j.s_cnt[s] + n, ts, "RDY_OK") /\ InTurn(j, s, ts)
  BY AddCounterStep
<1> HIDE DEF i
<1>3. PICK c, msg : c = j.s_cnt[s] + n /\ msg = "RDY_OK"
  OBVIOUS
<1>4. Changed(j, i, s, c, ts, msg)
  BY <1>2, <1>3
<1>5. OrderKept(j, i)
  BY <1>2, <1>4, OrderOfCall
<1>6. AdmChanged(j, i, p, s, c, ts, msg)
  BY <1>4, AdmOfCall
<1>7. ASSUME NEW x \in BoxSems, x # s PROVE Units(i, p, x) = Units(j, p, x)
  BY <1>6, <1>7 DEF Units, AdmChanged
<1> QED
  BY <1>1, <1>5, <1>6, <1>7 DEF i, AdmChanged

LEMMA TimerUnits ==
    ASSUME NEW j, KernelOK(j), NEW p, InPlace(j, p), NEW t \in Threads, NEW i, i = [j EXCEPT !.timed[t] = FALSE]
    PROVE  /\ KernelOK(i) /\ InPlace(i, p)
           /\ i.s_queue = j.s_queue /\ i.wtobjp = j.wtobjp /\ i.rdymsg = j.rdymsg
           /\ \A x \in Sems : /\ i.s_cnt[x] = j.s_cnt[x]
                             /\ Adm(i, p, x) = Adm(j, p, x) /\ Units(i, p, x) = Units(j, p, x)
<1>1. /\ KernelOK(i) /\ i.s_cnt = j.s_cnt /\ i.s_queue = j.s_queue
      /\ i.wtobjp = j.wtobjp /\ i.rdymsg = j.rdymsg
  BY TimerStep
<1> QED
  BY <1>1 DEF InPlace, Adm, Units

LEMMA UnitsNat ==
    ASSUME NEW j, KernelOK(j), NEW p, NEW x \in Sems
    PROVE  /\ Units(j, p, x) \in Nat /\ Pos(j.s_cnt[x]) \in Nat
           /\ j.s_cnt[x] > 0 => Units(j, p, x) >= 1
           /\ \A t \in Adm(j, p, x) : Units(j, p, x) >= 1
<1>1. j.s_cnt[x] \in Int
  BY DEF KernelOK, KernelStates
<1>2. IsFiniteSet(Adm(j, p, x)) /\ Cardinality(Adm(j, p, x)) \in Nat
  BY AdmFinite
<1>3. \A t \in Adm(j, p, x) : Cardinality(Adm(j, p, x)) # 0
  BY <1>2, FS_EmptySet
<1> QED
  BY <1>1, <1>2, <1>3 DEF Units, Pos

\* A thread goes back to its own code.
LEMMA ReturnUnits ==
    ASSUME NEW j, KernelOK(j), NEW p, InPlace(j, p), NEW t \in Threads, j.wtobjp[t] = None,
           NEW r, PcStep(p, r, t, "idle")
    PROVE  InPlace(j, r) /\ UnitUsed(j, p, r, t)
<1>1. r[t] = "idle" /\ \A u \in Threads \ {t} : r[u] = p[u]
  BY DEF PcStep
<1>2. InPlace(j, r)
  BY <1>1 DEF InPlace
<1>3. ASSUME NEW x \in BoxSems
      PROVE  Units(j, r, x) = Units(j, p, x) - (IF t \in Adm(j, p, x) THEN 1 ELSE 0)
  <2>0. x \in Sems /\ "idle" \notin CallsOf(x)
    BY MailboxAssumption, CallsDiffer DEF BoxSems
  <2>1. Adm(j, r, x) = Adm(j, p, x) \ {t}
    BY <1>1, <2>0 DEF Adm
  <2>2. IsFiniteSet(Adm(j, p, x)) /\ Cardinality(Adm(j, p, x)) \in Nat /\ j.s_cnt[x] \in Int
    BY <2>0, AdmFinite DEF KernelOK, KernelStates
  <2>3. Cardinality(Adm(j, r, x)) =
          IF t \in Adm(j, p, x) THEN Cardinality(Adm(j, p, x)) - 1 ELSE Cardinality(Adm(j, p, x))
    BY <2>1, <2>2, FS_RemoveElement
  <2> QED
    BY <2>2, <2>3 DEF Units, Pos
<1> QED
  BY <1>2, <1>3 DEF UnitUsed

LEMMA SleepUnits ==
    ASSUME NEW j, KernelOK(j), NEW p, InPlace(j, p), NEW s \in Sems, j.s_cnt[s] <= 0,
           NEW t \in Threads, p[t] = "idle", NEW timeout \in BOOLEAN,
           NEW call \in CallsOf(s), NEW r, PcStep(p, r, t, call)
    PROVE  /\ KernelOK(Sleep(j, t, s, timeout)) /\ InPlace(Sleep(j, t, s, timeout), r)
           /\ j.wtobjp[t] = None
           /\ Sleep(j, t, s, timeout).rdymsg = j.rdymsg
           /\ Sleep(j, t, s, timeout).wtobjp = [j.wtobjp EXCEPT ![t] = s]
           /\ UnitsSame(j, p, Sleep(j, t, s, timeout), r)
<1> DEFINE i == Sleep(j, t, s, timeout)
<1>1. j.wtobjp[t] = None
  <2>1. j.wtobjp[t] # None => j.wtobjp[t] \in Sems
    BY DEF KernelOK, KernelStates
  <2> QED
    BY <2>1, CallsDiffer, MailboxAssumption DEF InPlace, BoxSems, CallsOf, PostCalls
<1>2. /\ KernelOK(i)
      /\ i.s_cnt = [j.s_cnt EXCEPT ![s] = j.s_cnt[s] - 1]
      /\ i.wtobjp = [j.wtobjp EXCEPT ![t] = s]
      /\ i.rdymsg = j.rdymsg
  BY <1>1, SleepStep
<1> HIDE DEF i
<1>3. r[t] = call /\ \A u \in Threads \ {t} : r[u] = p[u]
  BY DEF PcStep
<1>4. j.s_cnt \in [Sems -> Int] /\ j.wtobjp \in [Threads -> Sems \cup {None}]
  BY DEF KernelOK, KernelStates
<1>5. InPlace(i, r)
  BY <1>2, <1>3, <1>4 DEF InPlace
<1>6. ASSUME NEW x \in BoxSems PROVE Units(i, r, x) = Units(j, p, x)
  <2>1. x \in Sems /\ Pos(i.s_cnt[x]) = Pos(j.s_cnt[x])
    BY <1>2, <1>4, CallsDiffer DEF Pos
  <2>2. Adm(i, r, x) = Adm(j, p, x)
    BY <1>2, <1>3, <1>4, CallsDiffer, NoneIsNoSem DEF Adm
  <2> QED
    BY <2>1, <2>2 DEF Units
<1> QED
  BY <1>1, <1>2, <1>5, <1>6 DEF i, UnitsSame

-----------------------------------------------------------------------------
(***************************************************************************)
(* The steps, as far as threads and semaphores go.                         *)
(***************************************************************************)
Kept ==
    /\ KernelOK(k)
    /\ pc \in [Threads -> {"idle", "wait", "fetch"} \cup PostCalls]
    /\ InPlace(k, pc)

Same == UnitsSame(k, pc, k', pc')

\* A unit of a becomes one of b.
Moved(a, b) ==
    /\ Units(k, pc, a) >= 1
    /\ Units(k', pc', a) = Units(k, pc, a) - 1
    /\ Units(k', pc', b) = Units(k, pc, b) + 1

LEMMA OrderBefore ==
    ASSUME NEW j, NEW h, NEW i, h.s_queue = j.s_queue, OrderKept(h, i)
    PROVE  OrderKept(j, i)
BY DEF OrderKept

LEMMA CallOutright ==
    ASSUME Kept, NEW a \in BoxSems, NEW b \in BoxSems, a # b, k.s_cnt[a] > 0,
           k' = SignalI(Take(k, a), b), pc' = pc
    PROVE  Kept' /\ OrderKept(k, k') /\ Moved(a, b)
<1> DEFINE j == Take(k, a)
<1>1. a \in Sems /\ b \in Sems
  BY MailboxAssumption DEF BoxSems
<1>2. /\ KernelOK(j) /\ InPlace(j, pc) /\ j.s_queue = k.s_queue
      /\ UnitsPlus(k, pc, j, pc, a, -1)
  BY <1>1, TakeUnits DEF Kept
<1> HIDE DEF j
<1>3. k' = SignalI(j, b)
  BY DEF j
<1>4. /\ KernelOK(k') /\ InPlace(k', pc) /\ OrderKept(j, k')
      /\ UnitsPlus(j, pc, k', pc, b, 1)
  BY <1>1, <1>2, <1>3, SignalUnits
<1>5. OrderKept(k, k')
  BY <1>2, <1>4, OrderBefore
<1>6. Units(k, pc, a) \in Nat /\ Units(k, pc, b) \in Nat /\ Units(k, pc, a) >= 1
  BY <1>1, UnitsNat DEF Kept
<1>7. Moved(a, b)
  BY <1>2, <1>4, <1>6 DEF Moved, UnitsPlus
<1>8. Kept'
  BY <1>4 DEF Kept
<1> QED
  BY <1>5, <1>7, <1>8

LEMMA CallSleeps ==
    ASSUME Kept, NEW s \in Sems, k.s_cnt[s] <= 0, NEW t \in Threads, pc[t] = "idle",
           NEW timeout \in BOOLEAN, NEW call \in CallsOf(s),
           k' = Sleep(k, t, s, timeout), pc' = [pc EXCEPT ![t] = call]
    PROVE  Kept' /\ OrderKept(k, k') /\ Same
<1>1. PcStep(pc, pc', t, call) /\ call \in {"wait", "fetch"} \cup PostCalls
  BY DEF Kept, CallsOf, PostCalls, PcStep
<1>2. /\ KernelOK(k') /\ InPlace(k', pc') /\ k.wtobjp[t] = None
      /\ k'.rdymsg = k.rdymsg
      /\ k'.wtobjp = [k.wtobjp EXCEPT ![t] = s]
      /\ Same
  BY <1>1, SleepUnits DEF Kept, Same
<1>3. OrderKept(k, k')
  <2>1. ASSUME NEW x \in Sems, NEW n \in 1 .. Len(k.s_queue[x])
        PROVE  k'.wtobjp[k.s_queue[x][n]] # None
    <3>1. k.s_queue[x][n] \in Waiters(k, x)
      BY DEF Kept, KernelOK, IsQueueOf
    <3> QED
      BY <1>2, <3>1, NoneIsNoSem DEF Waiters, Kept, KernelOK, KernelStates
  <2> QED
    BY <2>1 DEF OrderKept
<1>4. Kept'
  BY <1>1, <1>2 DEF Kept
<1> QED
  BY <1>2, <1>3, <1>4

\* A thread that has been admitted goes on.
LEMMA CallGoesOn ==
    ASSUME Kept, NEW a \in BoxSems, NEW b \in BoxSems, a # b, NEW t \in Threads,
           pc[t] \in CallsOf(a), k.wtobjp[t] = None, k.rdymsg[t] = "RDY_OK",
           k' = SignalI([k EXCEPT !.timed[t] = FALSE], b), pc' = [pc EXCEPT ![t] = "idle"]
    PROVE  Kept' /\ OrderKept(k, k') /\ Moved(a, b)
<1> DEFINE j == [k EXCEPT !.timed[t] = FALSE]
<1>1. a \in Sems /\ b \in Sems /\ PcStep(pc, pc', t, "idle")
  BY MailboxAssumption DEF BoxSems, Kept, PcStep
<1>2. /\ KernelOK(j) /\ InPlace(j, pc)
      /\ j.s_queue = k.s_queue /\ j.wtobjp = k.wtobjp /\ j.rdymsg = k.rdymsg
      /\ \A x \in Sems : Adm(j, pc, x) = Adm(k, pc, x) /\ Units(j, pc, x) = Units(k, pc, x)
  BY TimerUnits DEF Kept
<1> HIDE DEF j
<1>3. k' = SignalI(j, b)
  BY DEF j
<1>4. InPlace(j, pc') /\ UnitUsed(j, pc, pc', t)
  BY <1>1, <1>2, ReturnUnits
<1>5. t \in Adm(k, pc, a) /\ t \notin Adm(k, pc, b)
  BY <1>1, CallsDiffer DEF Adm
<1>6. /\ KernelOK(k') /\ InPlace(k', pc') /\ OrderKept(j, k')
      /\ UnitsPlus(j, pc', k', pc', b, 1)
  BY <1>1, <1>2, <1>3, <1>4, SignalUnits
<1>7. OrderKept(k, k')
  BY <1>2, <1>6, OrderBefore
<1>8. Units(k, pc, a) \in Nat /\ Units(k, pc, b) \in Nat /\ Units(k, pc, a) >= 1
  BY <1>1, <1>5, UnitsNat DEF Kept
<1>9. Moved(a, b)
  <2>1. Units(j, pc', a) = Units(k, pc, a) - 1
    BY <1>1, <1>2, <1>4, <1>5 DEF UnitUsed
  <2>2. Units(j, pc', b) = Units(k, pc, b) - 0
    BY <1>1, <1>2, <1>4, <1>5 DEF UnitUsed
  <2>3. Units(k', pc', a) = Units(j, pc', a) + 0 /\ Units(k', pc', b) = Units(j, pc', b) + 1
    BY <1>6 DEF UnitsPlus
  <2> QED
    BY <1>8, <2>1, <2>2, <2>3 DEF Moved
<1>10. Kept'
  BY <1>6 DEF Kept
<1> QED
  BY <1>7, <1>9, <1>10

\* A thread that was not gives up, or comes back from a semaphore of its own.
LEMMA CallReturns ==
    ASSUME Kept, NEW t \in Threads, k.wtobjp[t] = None, pc[t] = "wait" \/ k.rdymsg[t] # "RDY_OK",
           k' = [k EXCEPT !.timed[t] = FALSE], pc' = [pc EXCEPT ![t] = "idle"]
    PROVE  Kept' /\ OrderKept(k, k') /\ Same
<1>1. PcStep(pc, pc', t, "idle")
  BY DEF Kept, PcStep
<1>2. /\ KernelOK(k') /\ InPlace(k', pc)
      /\ k'.wtobjp = k.wtobjp /\ k'.rdymsg = k.rdymsg
      /\ \A x \in Sems : Adm(k', pc, x) = Adm(k, pc, x) /\ Units(k', pc, x) = Units(k, pc, x)
  BY TimerUnits DEF Kept
<1>3. InPlace(k', pc') /\ UnitUsed(k', pc, pc', t)
  BY <1>1, <1>2, ReturnUnits
<1>4. \A x \in BoxSems : x \in Sems /\ t \notin Adm(k, pc, x)
  BY MailboxAssumption DEF Adm, CallsOf, PostCalls, BoxSems
<1>5. Same
  <2> SUFFICES ASSUME NEW x \in BoxSems PROVE Units(k', pc', x) = Units(k, pc, x)
    BY DEF Same, UnitsSame
  <2>1. Units(k, pc, x) \in Nat
    BY <1>4, UnitsNat DEF Kept
  <2>2. Units(k', pc', x) = Units(k', pc, x) - 0
    BY <1>2, <1>3, <1>4 DEF UnitUsed
  <2>3. Units(k', pc, x) = Units(k, pc, x)
    BY <1>2, <1>4
  <2> QED
    BY <2>1, <2>2, <2>3
<1>6. OrderKept(k, k')
  BY <1>2, OrderOfNothing DEF Kept
<1>7. Kept'
  BY <1>2, <1>3 DEF Kept
<1> QED
  BY <1>5, <1>6, <1>7

\* Both semaphores are reset: what was admitted stays admitted.
LEMMA BoxReset ==
    ASSUME Kept, k' = ResetI(ResetI(k, empty, Size), full, 0), pc' = pc
    PROVE  /\ Kept' /\ OrderKept(k, k')
           /\ Units(k', pc', empty) = Size + Cardinality(Adm(k, pc, empty))
           /\ Units(k', pc', full) = Cardinality(Adm(k, pc, full))
<1> DEFINE j == ResetI(k, empty, Size)
<1>1. empty \in Sems /\ full \in Sems /\ empty # full /\ Size \in Nat /\ Size > 0 /\ 0 \in Nat
  BY MailboxAssumption
<1>2. /\ KernelOK(j) /\ InPlace(j, pc) /\ OrderKept(k, j)
      /\ WasReset(k, pc, j, empty, Size)
  BY <1>1, ResetUnits DEF Kept
<1> HIDE DEF j
<1>3. k' = ResetI(j, full, 0)
  BY DEF j
<1>5. /\ KernelOK(k') /\ InPlace(k', pc) /\ OrderKept(j, k')
      /\ WasReset(j, pc, k', full, 0)
  BY <1>1, <1>2, <1>3, ResetUnits
<1>6. OrderKept(k, k')
  <2>1. ASSUME NEW x \in Sems, NEW n \in 1 .. Len(k.s_queue[x]),
               k'.wtobjp[k.s_queue[x][n]] = None, k'.rdymsg[k.s_queue[x][n]] = "RDY_OK"
        PROVE  FALSE
    <3>1. PICK t \in Threads : t = k.s_queue[x][n] /\ k.wtobjp[t] # None
      BY NoneIsNoSem, QueuedWaits DEF Kept
    <3>2. CASE j.wtobjp[t] = None
      BY <1>2, <1>5, <2>1, <3>1, <3>2 DEF WasReset
    <3>3. CASE j.wtobjp[t] # None
      BY <1>5, <2>1, <3>1, <3>3 DEF WasReset
    <3> QED
      BY <3>2, <3>3
  <2> QED
    BY <2>1 DEF OrderKept
<1>7. Kept'
  BY <1>5 DEF Kept
<1>8. /\ Units(k', pc, empty) = Size + Cardinality(Adm(k, pc, empty))
      /\ Units(k', pc, full) = Cardinality(Adm(k, pc, full))
  <2>1. Adm(k', pc, empty) = Adm(k, pc, empty) /\ Adm(k', pc, full) = Adm(k, pc, full)
    BY <1>2, <1>5 DEF BoxSems, WasReset
  <2>2. k'.s_cnt[empty] = Size /\ k'.s_cnt[full] = 0
    BY <1>1, <1>2, <1>5 DEF BoxSems, WasReset
  <2>3. Cardinality(Adm(k, pc, full)) \in Nat
    BY AdmFinite
  <2> QED
    BY <1>1, <2>1, <2>2, <2>3 DEF Units, Pos
<1> QED
  BY <1>6, <1>7, <1>8

LEMMA UserSem ==
    ASSUME NEW s \in UserSems
    PROVE  s \in Sems /\ s \notin BoxSems /\ "wait" \in CallsOf(s)
BY DEF UserSems, BoxSems, CallsOf

LEMMA SemCallKeeps ==
    ASSUME Kept, NEW s \in UserSems, SemCall(s)
    PROVE  Kept' /\ OrderKept(k, k') /\ Same
<1>1. s \in Sems /\ s \notin BoxSems /\ "wait" \in CallsOf(s)
  BY UserSem
<1>2. ASSUME NEW t \in Threads, NEW timeout \in BOOLEAN, chSemWait(t, s, timeout)
      PROVE  Kept' /\ OrderKept(k, k') /\ Same
  <2>1. CASE k.s_cnt[s] > 0 /\ k' = Take(k, s) /\ pc' = pc
    <3>1. /\ KernelOK(k') /\ InPlace(k', pc) /\ k'.wtobjp = k.wtobjp
          /\ UnitsPlus(k, pc, k', pc, s, -1)
      BY <1>1, <2>1, TakeUnits DEF Kept
    <3>2. \A x \in BoxSems : x \in Sems /\ Units(k, pc, x) \in Nat
      BY UnitsNat, MailboxAssumption DEF Kept, BoxSems
    <3>3. Same
      BY <1>1, <2>1, <3>1, <3>2 DEF Same, UnitsSame, UnitsPlus
    <3>4. OrderKept(k, k')
      BY <3>1, OrderOfNothing DEF Kept
    <3> QED
      BY <2>1, <3>1, <3>3, <3>4 DEF Kept
  <2>2. CASE k.s_cnt[s] <= 0 /\ k' = Sleep(k, t, s, timeout) /\ pc' = [pc EXCEPT ![t] = "wait"]
    <3>1. PICK call \in CallsOf(s) : call = "wait"
      BY <1>1
    <3>2. pc[t] = "idle" /\ pc' = [pc EXCEPT ![t] = call]
      BY <1>2, <2>2, <3>1 DEF chSemWait, Calls
    <3> QED
      BY <1>1, <2>2, <3>2, CallSleeps, Zenon
  <2> QED
    BY <1>2, <2>1, <2>2 DEF chSemWait
<1>3. CASE chSemSignal(s)
  <2>1. k' = SignalI(k, s) /\ pc' = pc
    BY <1>3 DEF chSemSignal
  <2>2. /\ KernelOK(k') /\ InPlace(k', pc) /\ OrderKept(k, k')
        /\ UnitsPlus(k, pc, k', pc, s, 1)
    BY <1>1, <2>1, SignalUnits DEF Kept
  <2>3. \A x \in BoxSems : x \in Sems /\ Units(k, pc, x) \in Nat
    BY UnitsNat, MailboxAssumption DEF Kept, BoxSems
  <2>4. Same
    BY <1>1, <2>1, <2>2, <2>3 DEF Same, UnitsSame, UnitsPlus
  <2> QED
    BY <2>1, <2>2, <2>4 DEF Kept
<1>4. ASSUME NEW n \in 1 .. MaxCount, chSemAddCounterI(s, n)
      PROVE  Kept' /\ OrderKept(k, k') /\ Same
  <2>1. k' = AddCounterI(k, s, n) /\ pc' = pc /\ n \in Nat
    BY <1>4, SemAssumption DEF chSemAddCounterI
  <2>2. /\ KernelOK(k') /\ InPlace(k', pc) /\ OrderKept(k, k')
        /\ \A x \in BoxSems \ {s} : Units(k', pc, x) = Units(k, pc, x)
    BY <1>1, <2>1, AddCounterUnits DEF Kept
  <2>3. Same
    BY <1>1, <2>1, <2>2 DEF Same, UnitsSame
  <2> QED
    BY <2>1, <2>2, <2>3 DEF Kept
<1>5. ASSUME NEW n \in 0 .. MaxCount, chSemReset(s, n)
      PROVE  Kept' /\ OrderKept(k, k') /\ Same
  <2>1. k' = ResetI(k, s, n) /\ pc' = pc /\ n \in Nat
    BY <1>5, SemAssumption DEF chSemReset
  <2>2. /\ KernelOK(k') /\ InPlace(k', pc) /\ OrderKept(k, k')
        /\ WasReset(k, pc, k', s, n)
    BY <1>1, <2>1, ResetUnits DEF Kept
  <2>3. Same
    BY <1>1, <2>1, <2>2 DEF Same, UnitsSame, WasReset, Units
  <2> QED
    BY <2>1, <2>2, <2>3 DEF Kept
<1> QED
  BY <1>2, <1>3, <1>4, <1>5 DEF SemCall

LEMMA SignalWaitKeeps ==
    ASSUME Kept, NEW t \in Threads, NEW sps \in UserSems, NEW spw \in UserSems,
           chSemSignalWait(t, sps, spw)
    PROVE  Kept' /\ OrderKept(k, k') /\ Same
<1> DEFINE j == SignalI(k, sps)
<1>1. /\ sps \in Sems /\ sps \notin BoxSems
      /\ spw \in Sems /\ spw \notin BoxSems /\ "wait" \in CallsOf(spw)
  BY UserSem
<1>2. /\ KernelOK(j) /\ InPlace(j, pc) /\ OrderKept(k, j)
      /\ UnitsPlus(k, pc, j, pc, sps, 1)
  BY <1>1, SignalUnits DEF Kept
<1>3. /\ pc[t] = "idle"
      /\ \/ j.s_cnt[spw] > 0 /\ k' = Take(j, spw) /\ pc' = pc
         \/ /\ j.s_cnt[spw] <= 0
            /\ k' = Sleep(j, t, spw, FALSE) /\ pc' = [pc EXCEPT ![t] = "wait"]
  BY DEF chSemSignalWait, Calls
<1> HIDE DEF j
<1>4. \A x \in BoxSems : x \in Sems /\ Units(k, pc, x) \in Nat
  BY UnitsNat, MailboxAssumption DEF Kept, BoxSems
<1>5. UnitsSame(k, pc, j, pc)
  BY <1>1, <1>2, <1>4 DEF UnitsSame, UnitsPlus
<1>6. CASE j.s_cnt[spw] > 0 /\ k' = Take(j, spw) /\ pc' = pc
  <2>1. /\ KernelOK(k') /\ InPlace(k', pc) /\ k'.wtobjp = j.wtobjp /\ k'.rdymsg = j.rdymsg
        /\ UnitsPlus(j, pc, k', pc, spw, -1)
    BY <1>1, <1>2, <1>6, TakeUnits
  <2>2. Same
    BY <1>1, <1>4, <1>5, <1>6, <2>1 DEF Same, UnitsSame, UnitsPlus
  <2>3. OrderKept(k, k')
    BY <1>2, <2>1 DEF OrderKept
  <2> QED
    BY <1>6, <2>1, <2>2, <2>3 DEF Kept
<1>7. CASE /\ j.s_cnt[spw] <= 0
           /\ k' = Sleep(j, t, spw, FALSE) /\ pc' = [pc EXCEPT ![t] = "wait"]
  <2>1. PICK call \in CallsOf(spw), timeout \in BOOLEAN : call = "wait" /\ timeout = FALSE
    BY <1>1
  <2>2. PcStep(pc, pc', t, call) /\ k' = Sleep(j, t, spw, timeout)
    BY <1>7, <2>1 DEF Kept, PcStep
  <2>3. /\ KernelOK(k') /\ InPlace(k', pc')
        /\ j.wtobjp[t] = None
        /\ k'.rdymsg = j.rdymsg
        /\ k'.wtobjp = [j.wtobjp EXCEPT ![t] = spw]
        /\ UnitsSame(j, pc, k', pc')
    <3>1. PICK i, p, r : i = Sleep(j, t, spw, timeout) /\ p = pc /\ r = pc'
      OBVIOUS
    <3>2. KernelOK(j) /\ InPlace(j, p) /\ j.s_cnt[spw] <= 0 /\ p[t] = "idle" /\ PcStep(p, r, t, call)
      BY <1>2, <1>3, <1>7, <2>2, <3>1
    <3>3. /\ KernelOK(i) /\ InPlace(i, r) /\ j.wtobjp[t] = None
          /\ i.rdymsg = j.rdymsg /\ i.wtobjp = [j.wtobjp EXCEPT ![t] = spw]
          /\ UnitsSame(j, p, i, r)
      BY <1>1, <3>1, <3>2, SleepUnits
    <3> QED
      BY <2>2, <3>1, <3>3
  <2>4. Same
    BY <1>5, <2>3 DEF Same, UnitsSame
  <2>5. OrderKept(k, k')
    <3>1. k.wtobjp[t] = None
      <4>1. k.wtobjp[t] # None => k.wtobjp[t] \in Sems
        BY DEF Kept, KernelOK, KernelStates
      <4> QED
        BY <1>3, <4>1 DEF Kept, InPlace, CallsOf, PostCalls
    <3>2. \A x \in Sems : \A n \in 1 .. Len(k.s_queue[x]) :
            k.s_queue[x][n] \in Threads /\ k.s_queue[x][n] # t
      BY <3>1, NoneIsNoSem, QueuedWaits DEF Kept
    <3>3. \A u \in Threads \ {t} : k'.wtobjp[u] = j.wtobjp[u]
      BY <1>2, <2>3 DEF KernelOK, KernelStates
    <3>4. SUFFICES ASSUME NEW x \in Sems, NEW n \in 1 .. Len(k.s_queue[x]),
                          k'.wtobjp[k.s_queue[x][n]] = None, k'.rdymsg[k.s_queue[x][n]] = "RDY_OK",
                          NEW h \in 1 .. n
                   PROVE  k'.wtobjp[k.s_queue[x][h]] # x
      BY DEF OrderKept
    <3>5. Len(k.s_queue[x]) \in Nat
      BY QueueOfNobody DEF Kept, KernelOK
    <3>6. h \in 1 .. Len(k.s_queue[x])
      BY <3>5
    <3>7. j.wtobjp[k.s_queue[x][n]] = None /\ j.rdymsg[k.s_queue[x][n]] = "RDY_OK"
      BY <2>3, <3>2, <3>3, <3>4
    <3>8. j.wtobjp[k.s_queue[x][h]] # x
      BY <1>2, <3>7 DEF OrderKept
    <3> QED
      BY <3>2, <3>3, <3>6, <3>8
  <2>6. pc' \in [Threads -> {"idle", "wait", "fetch"} \cup PostCalls]
    BY <1>7 DEF Kept
  <2> QED
    BY <2>3, <2>4, <2>5, <2>6 DEF Kept
<1> QED
  BY <1>3, <1>6, <1>7

LEMMA SemStepKeeps ==
    ASSUME Kept, SemStep
    PROVE  Kept' /\ OrderKept(k, k') /\ Same
<1>1. CASE \E s \in UserSems : SemCall(s)
  BY <1>1, SemCallKeeps
<1>2. CASE \E t \in Threads, sps, spw \in UserSems : chSemSignalWait(t, sps, spw)
  BY <1>2, SignalWaitKeeps
<1>3. ASSUME NEW t \in Threads, WaitReturn(t)
      PROVE  Kept' /\ OrderKept(k, k') /\ Same
  <2>1. /\ k.wtobjp[t] = None /\ pc[t] = "wait"
        /\ k' = [k EXCEPT !.timed[t] = FALSE] /\ pc' = [pc EXCEPT ![t] = "idle"]
    BY <1>3 DEF WaitReturn, Woken
  <2> QED
    BY <2>1, CallReturns
<1>4. ASSUME NEW t \in Threads, wakeup(t)
      PROVE  Kept' /\ OrderKept(k, k') /\ Same
  <2>1. k' = Timeout(k, t) /\ pc' = pc
    BY <1>4 DEF wakeup
  <2>2. KernelOK(k') /\ InPlace(k', pc) /\ OrderKept(k, k') /\ UnitsSame(k, pc, k', pc)
    BY <2>1, TimeoutUnits DEF Kept
  <2> QED
    BY <2>1, <2>2 DEF Kept, Same
<1> QED
  BY <1>1, <1>2, <1>3, <1>4 DEF SemStep

-----------------------------------------------------------------------------
(***************************************************************************)
(* The steps of the mailbox. A step leaves the ring alone, or stores, or   *)
(* takes, or resets it.                                                    *)
(***************************************************************************)
\* m is stored.
Stores(m) ==
    /\ \E call \in PostCalls : Store(call, m)
    /\ Moved(empty, full)
    /\ out' = out

Takes == Take1 /\ Moved(full, empty)

Resets ==
    /\ mb_wrptr' = 0 /\ mb_rdptr' = 0 /\ UNCHANGED <<mb_buffer, out>>
    /\ Units(k', pc', empty) = Size + Cardinality(Adm(k, pc, empty))
    /\ Units(k', pc', full) = Cardinality(Adm(k, pc, full))
    /\ RacyReset \/ Admitted(PostCalls \cup {"fetch"}) = {}

Rests == UNCHANGED <<ring, out>> /\ Same

\* What a thread in a post wants to store is a message.
ItemsOK ==
    /\ item \in [Threads -> Msgs \cup {None}]
    /\ \A t \in Threads : pc[t] \in PostCalls => item[t] \in Msgs

PlainInv == Kept /\ ItemsOK

Stepped ==
    /\ Kept' /\ OrderKept(k, k') /\ ItemsOK'
    /\ Takes \/ Resets \/ Rests \/ \E m \in Msgs : Stores(m)

LEMMA BoxCalls ==
    /\ empty \in Sems /\ full \in Sems /\ empty \in BoxSems /\ full \in BoxSems /\ empty # full
    /\ CallsOf(empty) = PostCalls /\ CallsOf(full) = {"fetch"}
BY MailboxAssumption DEF BoxSems, CallsOf

LEMMA PostSteps ==
    ASSUME PlainInv, NEW t \in Threads, NEW call \in PostCalls, NEW m \in Msgs,
           NEW timeout \in BOOLEAN, Post(t, call, m, timeout)
    PROVE  Stepped
<1>1. out' = out /\ pc[t] = "idle"
  BY DEF Post, Calls
<1>2. CASE /\ k.s_cnt[empty] > 0 /\ Store(call, m)
           /\ k' = SignalI(Take(k, empty), full) /\ pc' = pc /\ item' = item
  <2>1. Kept' /\ OrderKept(k, k') /\ Moved(empty, full)
    BY <1>2, BoxCalls, CallOutright DEF PlainInv
  <2>2. ItemsOK'
    BY <1>2 DEF PlainInv, ItemsOK
  <2>3. Stores(m)
    BY <1>1, <1>2, <2>1 DEF Stores
  <2> QED
    BY <2>1, <2>2, <2>3 DEF Stepped
<1>3. CASE /\ k.s_cnt[empty] <= 0 /\ k' = Sleep(k, t, empty, timeout)
           /\ pc' = [pc EXCEPT ![t] = call] /\ item' = [item EXCEPT ![t] = m]
           /\ UNCHANGED ring
  <2>1. call \in CallsOf(empty)
    BY BoxCalls
  <2>2. Kept' /\ OrderKept(k, k') /\ Same
    BY <1>1, <1>3, <2>1, BoxCalls, CallSleeps DEF PlainInv
  <2>3. ItemsOK'
    BY <1>3 DEF PlainInv, ItemsOK, Kept
  <2> QED
    BY <1>1, <1>3, <2>2, <2>3 DEF Stepped, Rests
<1> QED
  BY <1>2, <1>3 DEF Post

LEMMA PostResumeSteps ==
    ASSUME PlainInv, NEW t \in Threads, PostResume(t)
    PROVE  Stepped
<1>1. PICK call \in PostCalls :
        /\ Woken(t, call)
        /\ \/ /\ k.rdymsg[t] = "RDY_OK" /\ Store(call, item[t])
              /\ k' = SignalI([k EXCEPT !.timed[t] = FALSE], full)
           \/ k.rdymsg[t] # "RDY_OK" /\ k' = [k EXCEPT !.timed[t] = FALSE] /\ UNCHANGED ring
  BY DEF PostResume
<1>2. /\ pc' = [pc EXCEPT ![t] = "idle"] /\ item' = [item EXCEPT ![t] = None] /\ out' = out
      /\ pc[t] = call /\ k.wtobjp[t] = None
  BY <1>1 DEF PostResume, Woken
<1>3. ItemsOK'
  BY <1>2 DEF PlainInv, ItemsOK, Kept, PostCalls
<1>4. CASE /\ k.rdymsg[t] = "RDY_OK" /\ Store(call, item[t])
           /\ k' = SignalI([k EXCEPT !.timed[t] = FALSE], full)
  <2>1. Kept' /\ OrderKept(k, k') /\ Moved(empty, full)
    BY <1>2, <1>4, BoxCalls, CallGoesOn DEF PlainInv
  <2>2. item[t] \in Msgs
    BY <1>2 DEF PlainInv, ItemsOK
  <2>3. Stores(item[t])
    BY <1>2, <1>4, <2>1 DEF Stores
  <2> QED
    BY <1>3, <2>1, <2>2, <2>3 DEF Stepped
<1>5. CASE k.rdymsg[t] # "RDY_OK" /\ k' = [k EXCEPT !.timed[t] = FALSE] /\ UNCHANGED ring
  <2>1. Kept' /\ OrderKept(k, k') /\ Same
    BY <1>2, <1>5, CallReturns DEF PlainInv
  <2> QED
    BY <1>2, <1>3, <1>5, <2>1 DEF Stepped, Rests
<1> QED
  BY <1>1, <1>4, <1>5

LEMMA FetchSteps ==
    ASSUME PlainInv, NEW t \in Threads, NEW timeout \in BOOLEAN, Fetch(t, timeout)
    PROVE  Stepped
<1>1. item' = item /\ pc[t] = "idle"
  BY DEF Fetch, Calls
<1>2. CASE /\ k.s_cnt[full] > 0 /\ Take1
           /\ k' = SignalI(Take(k, full), empty) /\ pc' = pc
  <2>1. Kept' /\ OrderKept(k, k') /\ Moved(full, empty)
    BY <1>2, BoxCalls, CallOutright DEF PlainInv
  <2>2. ItemsOK'
    BY <1>1, <1>2 DEF PlainInv, ItemsOK
  <2> QED
    BY <1>2, <2>1, <2>2 DEF Stepped, Takes
<1>3. CASE /\ k.s_cnt[full] <= 0 /\ k' = Sleep(k, t, full, timeout)
           /\ pc' = [pc EXCEPT ![t] = "fetch"] /\ UNCHANGED <<ring, out>>
  <2>1. PICK call \in CallsOf(full) : call = "fetch"
    BY BoxCalls
  <2>2. pc' = [pc EXCEPT ![t] = call]
    BY <1>3, <2>1
  <2>3. Kept' /\ OrderKept(k, k') /\ Same
    BY <1>1, <1>3, <2>2, BoxCalls, CallSleeps DEF PlainInv
  <2>4. ItemsOK'
    BY <1>1, <1>3 DEF PlainInv, ItemsOK, Kept, PostCalls
  <2> QED
    BY <1>3, <2>3, <2>4 DEF Stepped, Rests
<1> QED
  BY <1>2, <1>3 DEF Fetch

LEMMA FetchResumeSteps ==
    ASSUME PlainInv, NEW t \in Threads, FetchResume(t)
    PROVE  Stepped
<1>1. /\ pc' = [pc EXCEPT ![t] = "idle"] /\ item' = item
      /\ pc[t] = "fetch" /\ k.wtobjp[t] = None
      /\ \/ /\ k.rdymsg[t] = "RDY_OK" /\ Take1
            /\ k' = SignalI([k EXCEPT !.timed[t] = FALSE], empty)
         \/ k.rdymsg[t] # "RDY_OK" /\ k' = [k EXCEPT !.timed[t] = FALSE] /\ UNCHANGED <<ring, out>>
  BY DEF FetchResume, Woken
<1>2. ItemsOK'
  BY <1>1 DEF PlainInv, ItemsOK, Kept, PostCalls
<1>3. CASE /\ k.rdymsg[t] = "RDY_OK" /\ Take1
           /\ k' = SignalI([k EXCEPT !.timed[t] = FALSE], empty)
  <2>1. pc[t] \in CallsOf(full)
    BY <1>1, BoxCalls
  <2>2. Kept' /\ OrderKept(k, k') /\ Moved(full, empty)
    BY <1>1, <1>3, <2>1, BoxCalls, CallGoesOn DEF PlainInv
  <2> QED
    BY <1>2, <1>3, <2>2 DEF Stepped, Takes
<1>4. CASE k.rdymsg[t] # "RDY_OK" /\ k' = [k EXCEPT !.timed[t] = FALSE] /\ UNCHANGED <<ring, out>>
  <2>1. Kept' /\ OrderKept(k, k') /\ Same
    BY <1>1, <1>4, CallReturns DEF PlainInv
  <2> QED
    BY <1>2, <1>4, <2>1 DEF Stepped, Rests
<1> QED
  BY <1>1, <1>3, <1>4

LEMMA EveryStep ==
    ASSUME PlainInv, Next
    PROVE  Stepped
<1>1. CASE PostCall
  BY <1>1, PostSteps DEF PostCall
<1>2. CASE FetchCall
  BY <1>2, FetchSteps DEF FetchCall
<1>3. ASSUME NEW call \in PostCalls, NEW m \in Msgs, PostI(call, m)
      PROVE  Stepped
  <2>1. /\ k.s_cnt[empty] > 0 /\ Store(call, m) /\ k' = SignalI(Take(k, empty), full)
        /\ pc' = pc /\ item' = item /\ out' = out
    BY <1>3 DEF PostI
  <2>2. Kept' /\ OrderKept(k, k') /\ Moved(empty, full)
    BY <2>1, BoxCalls, CallOutright DEF PlainInv
  <2>3. ItemsOK'
    BY <2>1 DEF PlainInv, ItemsOK
  <2>4. Stores(m)
    BY <2>1, <2>2 DEF Stores
  <2> QED
    BY <2>2, <2>3, <2>4 DEF Stepped
<1>4. CASE FetchI
  <2>1. /\ k.s_cnt[full] > 0 /\ Take1 /\ k' = SignalI(Take(k, full), empty)
        /\ pc' = pc /\ item' = item
    BY <1>4 DEF FetchI
  <2>2. Kept' /\ OrderKept(k, k') /\ Moved(full, empty)
    BY <2>1, BoxCalls, CallOutright DEF PlainInv
  <2>3. ItemsOK'
    BY <2>1 DEF PlainInv, ItemsOK
  <2> QED
    BY <2>1, <2>2, <2>3 DEF Stepped, Takes
<1>5. CASE Resume
  BY <1>5, PostResumeSteps, FetchResumeSteps DEF Resume
<1>6. CASE chMBReset
  <2>1. /\ RacyReset \/ Admitted(PostCalls \cup {"fetch"}) = {}
        /\ mb_wrptr' = 0 /\ mb_rdptr' = 0 /\ k' = ResetI(ResetI(k, empty, Size), full, 0)
        /\ pc' = pc /\ mb_buffer' = mb_buffer /\ item' = item /\ out' = out
    BY <1>6 DEF chMBReset
  <2>2. /\ Kept' /\ OrderKept(k, k')
        /\ Units(k', pc', empty) = Size + Cardinality(Adm(k, pc, empty))
        /\ Units(k', pc', full) = Cardinality(Adm(k, pc, full))
    BY <2>1, BoxReset DEF PlainInv
  <2>3. ItemsOK'
    BY <2>1 DEF PlainInv, ItemsOK
  <2> QED
    BY <2>1, <2>2, <2>3 DEF Stepped, Resets
<1>7. CASE SemStep
  <2>1. Kept' /\ OrderKept(k, k') /\ Same
    BY <1>7, SemStepKeeps DEF PlainInv
  <2>2. UNCHANGED <<ring, item, out>>
    BY <1>7 DEF SemStep
  <2>3. \A t \in Threads : pc'[t] \in PostCalls => pc[t] = pc'[t]
    <3>1. \/ pc' = pc
          \/ \E t \in Threads : pc' = [pc EXCEPT ![t] = "wait"] \/ pc' = [pc EXCEPT ![t] = "idle"]
      BY <1>7 DEF SemStep, SemCall, chSemWait, chSemSignal, chSemAddCounterI, chSemReset,
                  chSemSignalWait, WaitReturn, wakeup
    <3> QED
      BY <3>1 DEF PlainInv, Kept, PostCalls
  <2>4. ItemsOK'
    BY <2>2, <2>3 DEF PlainInv, ItemsOK
  <2> QED
    BY <2>1, <2>2, <2>4 DEF Stepped, Rests
<1> QED
  BY <1>1, <1>2, <1>3, <1>4, <1>5, <1>6, <1>7 DEF Next, Handler

-----------------------------------------------------------------------------
(***************************************************************************)
(* The ring: n messages from the read pointer on.                          *)
(***************************************************************************)
Cells == Msgs \cup {None}

Boxed(buf, rd, n) == [i \in 1 .. n |-> buf[(rd + i - 1) % Size]]

LEMMA Remainders ==
    ASSUME NEW n \in Nat \ {0}, NEW x \in Nat, x < 2 * n
    PROVE  /\ x < n => x % n = x
           /\ x >= n => x % n = x - n
BY SMT

\* The i-th slot after rd.
LEMMA SlotAfter ==
    ASSUME NEW rd \in Slots, NEW i \in 0 .. Size
    PROVE  /\ (rd + i) % Size \in Slots
           /\ (rd + i) % Size = IF rd + i < Size THEN rd + i ELSE rd + i - Size
<1>1. Size \in Nat \ {0} /\ rd + i \in Nat /\ rd + i < 2 * Size
  BY MailboxAssumption DEF Slots
<1>2. PICK n \in Nat \ {0}, x \in Nat : n = Size /\ x = rd + i
  BY <1>1
<1>3. (x < n => x % n = x) /\ (x >= n => x % n = x - n)
  BY <1>1, <1>2, Remainders
<1>4. (rd + i) % Size = x % n
  BY <1>2
<1> QED
  BY <1>1, <1>2, <1>3, <1>4 DEF Slots

LEMMA BoxedSeq ==
    ASSUME NEW buf \in [Slots -> Cells], NEW rd \in Slots, NEW n \in 0 .. Size
    PROVE  /\ Boxed(buf, rd, n) \in Seq(Cells)
           /\ Len(Boxed(buf, rd, n)) = n
           /\ \A i \in 1 .. n : Boxed(buf, rd, n)[i] = buf[(rd + i - 1) % Size]
<1>1. Size \in Nat /\ n \in Nat
  BY MailboxAssumption
<1>2. ASSUME NEW i \in 1 .. n PROVE buf[(rd + i - 1) % Size] \in Cells
  <2>1. i - 1 \in 0 .. Size /\ rd + (i - 1) = rd + i - 1
    BY <1>1 DEF Slots
  <2>2. (rd + (i - 1)) % Size \in Slots
    BY <2>1, SlotAfter
  <2> QED
    BY <2>1, <2>2
<1>3. Boxed(buf, rd, n) \in [1 .. n -> Cells]
  BY <1>2 DEF Boxed
<1> QED
  BY <1>1, <1>3 DEF Boxed

LEMMA AppendToRing ==
    ASSUME NEW buf \in [Slots -> Cells], NEW rd \in Slots, NEW n \in 0 .. Size - 1,
           NEW wr, wr = (rd + n) % Size, NEW m \in Cells
    PROVE  /\ Boxed([buf EXCEPT ![wr] = m], rd, n + 1) = Append(Boxed(buf, rd, n), m)
           /\ wr \in Slots
           /\ (IF wr + 1 >= Size THEN 0 ELSE wr + 1) = (rd + (n + 1)) % Size
<1>1. Size \in Nat \ {0} /\ n \in 0 .. Size /\ n + 1 \in 0 .. Size /\ rd \in 0 .. Size - 1
  BY MailboxAssumption DEF Slots
<1>2. /\ wr \in Slots
      /\ wr = IF rd + n < Size THEN rd + n ELSE rd + n - Size
  BY <1>1, SlotAfter
<1>3. (rd + (n + 1)) % Size = IF rd + (n + 1) < Size THEN rd + (n + 1) ELSE rd + (n + 1) - Size
  BY <1>1, SlotAfter
<1>4. (IF wr + 1 >= Size THEN 0 ELSE wr + 1) = (rd + (n + 1)) % Size
  BY <1>1, <1>2, <1>3
<1> DEFINE b == [buf EXCEPT ![wr] = m]
<1>5. b \in [Slots -> Cells] /\ b[wr] = m /\ \A x \in Slots \ {wr} : b[x] = buf[x]
  BY <1>2
<1> HIDE DEF b
<1>6. /\ Boxed(b, rd, n + 1) \in Seq(Cells)
      /\ Len(Boxed(b, rd, n + 1)) = n + 1
      /\ \A i \in 1 .. n + 1 : Boxed(b, rd, n + 1)[i] = b[(rd + i - 1) % Size]
  BY <1>1, <1>5, BoxedSeq
<1>7. /\ Boxed(buf, rd, n) \in Seq(Cells)
      /\ Len(Boxed(buf, rd, n)) = n
      /\ \A i \in 1 .. n : Boxed(buf, rd, n)[i] = buf[(rd + i - 1) % Size]
  BY <1>1, BoxedSeq
<1>8. /\ Append(Boxed(buf, rd, n), m) \in Seq(Cells)
      /\ Len(Append(Boxed(buf, rd, n), m)) = n + 1
      /\ \A i \in 1 .. n : Append(Boxed(buf, rd, n), m)[i] = Boxed(buf, rd, n)[i]
      /\ Append(Boxed(buf, rd, n), m)[n + 1] = m
  BY <1>7, AppendProperties
<1>9. ASSUME NEW i \in 1 .. n + 1
      PROVE  Boxed(b, rd, n + 1)[i] = Append(Boxed(buf, rd, n), m)[i]
  <2>0. i - 1 \in 0 .. Size /\ rd + (i - 1) = rd + i - 1
    BY <1>1
  <2>1. (rd + i - 1) % Size \in Slots
        /\ (rd + i - 1) % Size = IF rd + (i - 1) < Size THEN rd + (i - 1) ELSE rd + (i - 1) - Size
    BY <2>0, SlotAfter
  <2>2. CASE i = n + 1
    <3>1. (rd + i - 1) % Size = wr
      BY <1>1, <1>2, <2>1, <2>2
    <3> QED
      BY <1>5, <1>6, <1>8, <2>2, <3>1
  <2>3. CASE i # n + 1
    <3>1. i \in 1 .. n /\ (rd + i - 1) % Size # wr
      BY <1>1, <1>2, <2>1, <2>3
    <3> QED
      BY <1>5, <1>6, <1>7, <1>8, <2>1, <3>1
  <2> QED
    BY <2>2, <2>3
<1>10. Boxed(b, rd, n + 1) = Append(Boxed(buf, rd, n), m)
  <2>1. PICK x \in Seq(Cells), y \in Seq(Cells) : x = Boxed(b, rd, n + 1) /\ y = Append(Boxed(buf, rd, n), m)
    BY <1>6, <1>8
  <2>2. Len(x) = Len(y) /\ \A i \in 1 .. Len(x) : x[i] = y[i]
    BY <1>6, <1>8, <1>9, <2>1
  <2> QED
    BY <2>1, <2>2, SeqEqual
<1> QED
  BY <1>2, <1>4, <1>10 DEF b

LEMMA PutAheadInRing ==
    ASSUME NEW buf \in [Slots -> Cells], NEW rd \in Slots, NEW n \in 0 .. Size - 1, NEW m \in Cells,
           NEW r, r = IF rd - 1 < 0 THEN Size - 1 ELSE rd - 1
    PROVE  /\ Boxed([buf EXCEPT ![r] = m], r, n + 1) = <<m>> \o Boxed(buf, rd, n)
           /\ r \in Slots
           /\ (r + (n + 1)) % Size = (rd + n) % Size
<1>1. Size \in Nat \ {0} /\ n \in 0 .. Size /\ n + 1 \in 0 .. Size /\ rd \in 0 .. Size - 1
  BY MailboxAssumption DEF Slots
<1>2. r \in Slots /\ r \in 0 .. Size - 1
  BY <1>1 DEF Slots
<1>3. ASSUME NEW i \in 0 .. Size - 1
      PROVE  /\ (rd + i) % Size \in Slots
             /\ (r + (i + 1)) % Size = (rd + i) % Size
             /\ (i + 1 # Size => (rd + i) % Size # r)
  <2>1. i \in 0 .. Size /\ i + 1 \in 0 .. Size
    BY <1>1
  <2>2. /\ (rd + i) % Size \in Slots
        /\ (rd + i) % Size = IF rd + i < Size THEN rd + i ELSE rd + i - Size
    BY <2>1, SlotAfter
  <2>3. (r + (i + 1)) % Size = IF r + (i + 1) < Size THEN r + (i + 1) ELSE r + (i + 1) - Size
    BY <1>2, <2>1, SlotAfter
  <2> QED
    BY <1>1, <2>2, <2>3
<1>4. r % Size = r
  <2>1. r + 0 = r /\ 0 \in 0 .. Size
    BY <1>1, <1>2
  <2>2. (r + 0) % Size = IF r + 0 < Size THEN r + 0 ELSE r + 0 - Size
    BY <1>2, <2>1, SlotAfter
  <2> QED
    BY <1>1, <1>2, <2>1, <2>2
<1> DEFINE b == [buf EXCEPT ![r] = m]
<1>5. b \in [Slots -> Cells] /\ b[r] = m /\ \A x \in Slots \ {r} : b[x] = buf[x]
  BY <1>2
<1> HIDE DEF b
<1>6. /\ Boxed(b, r, n + 1) \in Seq(Cells)
      /\ Len(Boxed(b, r, n + 1)) = n + 1
      /\ \A i \in 1 .. n + 1 : Boxed(b, r, n + 1)[i] = b[(r + i - 1) % Size]
  BY <1>1, <1>2, <1>5, BoxedSeq
<1>7. /\ Boxed(buf, rd, n) \in Seq(Cells)
      /\ Len(Boxed(buf, rd, n)) = n
      /\ \A i \in 1 .. n : Boxed(buf, rd, n)[i] = buf[(rd + i - 1) % Size]
  BY <1>1, BoxedSeq
<1>8. PICK q : q = Boxed(buf, rd, n)
  OBVIOUS
<1>9. PICK y : y = <<m>> \o q
  OBVIOUS
<1>10. y \in Seq(Cells) /\ Len(y) = n + 1 /\ y[1] = m /\ \A i \in 2 .. n + 1 : y[i] = q[i - 1]
  <2>1. <<m>> \in Seq(Cells) /\ Len(<<m>>) = 1 /\ <<m>>[1] = m
    OBVIOUS
  <2>2. PICK o \in Seq(Cells) : o = <<m>>
    BY <2>1
  <2>3. q \in Seq(Cells) /\ Len(q) = n
    BY <1>7, <1>8
  <2>4. /\ o \o q \in Seq(Cells)
        /\ Len(o \o q) = Len(o) + Len(q)
        /\ \A i \in 1 .. Len(o) + Len(q) : (o \o q)[i] = IF i <= Len(o) THEN o[i] ELSE q[i - Len(o)]
    BY <2>3, ConcatProperties
  <2>5. y = o \o q /\ Len(o) = 1 /\ o[1] = m
    BY <1>9, <2>1, <2>2
  <2> QED
    BY <1>1, <2>3, <2>4, <2>5
<1>11. ASSUME NEW i \in 1 .. n + 1 PROVE Boxed(b, r, n + 1)[i] = y[i]
  <2>1. CASE i = 1
    <3>1. r + i - 1 = r
      BY <1>2, <2>1
    <3> QED
      BY <1>4, <1>5, <1>6, <1>10, <2>1, <3>1
  <2>2. CASE i # 1
    <3>1. i \in 2 .. n + 1 /\ i - 1 \in 1 .. n /\ i - 2 \in 0 .. Size - 1 /\ (i - 2) + 1 # Size
          /\ r + ((i - 2) + 1) = r + i - 1 /\ rd + (i - 2) = rd + (i - 1) - 1
      BY <1>1, <1>2, <2>2
    <3>2. PICK h \in 0 .. Size - 1 : h = i - 2
      BY <3>1
    <3>3. /\ (rd + h) % Size \in Slots
          /\ (r + (h + 1)) % Size = (rd + h) % Size
          /\ (rd + h) % Size # r
      BY <1>3, <3>1, <3>2
    <3>4. r + i - 1 = r + (h + 1) /\ rd + (i - 1) - 1 = rd + h
      BY <1>1, <1>2, <3>1, <3>2
    <3>5. b[(r + i - 1) % Size] = buf[(rd + (i - 1) - 1) % Size]
      BY <1>5, <3>3, <3>4
    <3>6. y[i] = q[i - 1] /\ q[i - 1] = buf[(rd + (i - 1) - 1) % Size]
      BY <1>7, <1>8, <1>10, <3>1
    <3> QED
      BY <1>6, <3>5, <3>6
  <2> QED
    BY <2>1, <2>2
<1>12. Boxed(b, r, n + 1) = y
  <2>1. PICK x \in Seq(Cells) : x = Boxed(b, r, n + 1)
    BY <1>6
  <2>2. Len(x) = Len(y) /\ \A i \in 1 .. Len(x) : x[i] = y[i]
    BY <1>6, <1>10, <1>11, <2>1
  <2> QED
    BY <1>10, <2>1, <2>2, SeqEqual
<1> QED
  BY <1>2, <1>3, <1>8, <1>9, <1>12 DEF b

LEMMA TakeFromRing ==
    ASSUME NEW buf \in [Slots -> Cells], NEW rd \in Slots, NEW n \in 1 .. Size,
           NEW r, r = IF rd + 1 >= Size THEN 0 ELSE rd + 1
    PROVE  /\ Boxed(buf, rd, n) # <<>>
           /\ buf[rd] = Head(Boxed(buf, rd, n))
           /\ Boxed(buf, r, n - 1) = Tail(Boxed(buf, rd, n))
           /\ r \in Slots
           /\ (r + (n - 1)) % Size = (rd + n) % Size
<1>1. Size \in Nat \ {0} /\ n \in 0 .. Size /\ n - 1 \in 0 .. Size /\ rd \in 0 .. Size - 1
  BY MailboxAssumption DEF Slots
<1>2. r \in Slots /\ r \in 0 .. Size - 1
  BY <1>1 DEF Slots
<1>3. ASSUME NEW i \in 1 .. Size PROVE (r + (i - 1)) % Size = (rd + i) % Size
  <2>1. i \in 0 .. Size /\ i - 1 \in 0 .. Size
    BY <1>1
  <2>2. (rd + i) % Size = IF rd + i < Size THEN rd + i ELSE rd + i - Size
    BY <2>1, SlotAfter
  <2>3. (r + (i - 1)) % Size = IF r + (i - 1) < Size THEN r + (i - 1) ELSE r + (i - 1) - Size
    BY <1>2, <2>1, SlotAfter
  <2> QED
    BY <1>1, <2>2, <2>3
<1>4. rd % Size = rd
  <2>1. rd + 0 = rd /\ 0 \in 0 .. Size
    BY <1>1
  <2>2. (rd + 0) % Size = IF rd + 0 < Size THEN rd + 0 ELSE rd + 0 - Size
    BY <2>1, SlotAfter
  <2> QED
    BY <1>1, <2>1, <2>2
<1>5. /\ Boxed(buf, rd, n) \in Seq(Cells)
      /\ Len(Boxed(buf, rd, n)) = n
      /\ \A i \in 1 .. n : Boxed(buf, rd, n)[i] = buf[(rd + i - 1) % Size]
  BY <1>1, BoxedSeq
<1>6. /\ Boxed(buf, r, n - 1) \in Seq(Cells)
      /\ Len(Boxed(buf, r, n - 1)) = n - 1
      /\ \A i \in 1 .. n - 1 : Boxed(buf, r, n - 1)[i] = buf[(r + i - 1) % Size]
  BY <1>1, <1>2, BoxedSeq
<1>7. PICK q : q = Boxed(buf, rd, n)
  OBVIOUS
<1>8. q \in Seq(Cells) /\ q # <<>> /\ Len(q) = n
  BY <1>1, <1>5, <1>7, EmptySeq
<1>9. buf[rd] = Head(q)
  <2>1. 1 \in 1 .. n /\ rd + 1 - 1 = rd
    BY <1>1
  <2>2. q[1] = buf[rd]
    BY <1>4, <1>5, <1>7, <2>1
  <2> QED
    BY <1>8, <2>2
<1>10. Tail(q) \in Seq(Cells) /\ Len(Tail(q)) = n - 1 /\ \A i \in 1 .. n - 1 : Tail(q)[i] = q[i + 1]
  BY <1>8, HeadTailProperties
<1>11. ASSUME NEW i \in 1 .. n - 1 PROVE Boxed(buf, r, n - 1)[i] = Tail(q)[i]
  <2>1. i + 1 \in 1 .. n /\ i \in 1 .. Size /\ rd + (i + 1) - 1 = rd + i /\ r + (i - 1) = r + i - 1
    BY <1>1, <1>2
  <2>2. q[i + 1] = buf[(rd + i) % Size]
    BY <1>5, <1>7, <2>1
  <2> QED
    BY <1>3, <1>6, <1>10, <2>1, <2>2
<1>12. Boxed(buf, r, n - 1) = Tail(q)
  <2>1. PICK x \in Seq(Cells), y \in Seq(Cells) : x = Boxed(buf, r, n - 1) /\ y = Tail(q)
    BY <1>6, <1>10
  <2>2. Len(x) = Len(y) /\ \A i \in 1 .. Len(x) : x[i] = y[i]
    BY <1>6, <1>10, <1>11, <2>1
  <2> QED
    BY <2>1, <2>2, SeqEqual
<1> QED
  BY <1>2, <1>3, <1>7, <1>8, <1>9, <1>12

-----------------------------------------------------------------------------
(***************************************************************************)
(* The invariants.                                                         *)
(***************************************************************************)
RingOK ==
    /\ mb_buffer \in [Slots -> Cells]
    /\ mb_wrptr \in Slots /\ mb_rdptr \in Slots
    /\ out \in Cells

Inv == PlainInv /\ RingOK

\* What holds when no reset meets a thread that has been admitted.
BoxInv ==
    /\ Units(k, pc, empty) + Units(k, pc, full) = Size
    /\ mb_wrptr = (mb_rdptr + Units(k, pc, full)) % Size

LEMMA StoredUnits ==
    /\ Admitted(PostCalls) = Adm(k, pc, empty) /\ Admitted({"fetch"}) = Adm(k, pc, full)
    /\ Stored = Units(k, pc, full)
<1>1. Admitted(PostCalls) = Adm(k, pc, empty) /\ Admitted({"fetch"}) = Adm(k, pc, full)
  BY BoxCalls DEF Admitted, Adm
<1> QED
  BY <1>1 DEF Stored, Units

LEMMA InitHolds == Init => Inv /\ BoxInv
<1> SUFFICES ASSUME Init PROVE Inv /\ BoxInv
  OBVIOUS
<1>1. Size \in Nat \ {0} /\ 0 \in Slots
  BY MailboxAssumption DEF Slots
<1>2. /\ k = [s_cnt |-> [s \in Sems |-> IF s = empty THEN Size ELSE 0],
              s_queue |-> [s \in Sems |-> <<>>],
              wtobjp |-> [t \in Threads |-> None],
              rdymsg |-> [t \in Threads |-> "RDY_OK"],
              timed |-> [t \in Threads |-> FALSE]]
      /\ pc = [t \in Threads |-> "idle"]
  BY DEF Init, SemInit
<1>3. k \in KernelStates
  BY <1>1, <1>2 DEF KernelStates, Answers
<1>4. \A s \in Sems : Waiters(k, s) = {} /\ k.s_queue[s] = <<>> /\ Len(<<>>) = Pos(-k.s_cnt[s])
  BY <1>1, <1>2, NoneIsNoSem DEF Waiters, Pos
<1>5. KernelOK(k)
  BY <1>3, <1>4, EmptyQueue DEF KernelOK
<1>6. Kept
  BY <1>2, <1>5 DEF Kept, InPlace
<1>7. PlainInv /\ RingOK
  BY <1>1, <1>2, <1>6 DEF PlainInv, RingOK, ItemsOK, Init, PostCalls, Cells
<1>8. \A x \in BoxSems : Adm(k, pc, x) = {}
  BY <1>2 DEF Adm, CallsOf, PostCalls
<1>9. Units(k, pc, empty) = Size /\ Units(k, pc, full) = 0
  <2>1. k.s_cnt[empty] = Size /\ k.s_cnt[full] = 0 /\ Cardinality({}) = 0
    BY <1>2, BoxCalls, FS_EmptySet
  <2>2. Adm(k, pc, empty) = {} /\ Adm(k, pc, full) = {}
    BY <1>8, BoxCalls
  <2> QED
    BY <1>1, <2>1, <2>2 DEF Units, Pos
<1>10. (0 + 0) % Size = 0
  BY <1>1, Remainders
<1>11. BoxInv
  BY <1>1, <1>9, <1>10 DEF BoxInv, Init
<1> QED
  BY <1>7, <1>11 DEF Inv

LEMMA RingStep ==
    ASSUME Inv, Next
    PROVE  Inv' /\ Stepped
<1>1. Stepped
  BY EveryStep DEF Inv
<1>2. PlainInv'
  BY <1>1 DEF Stepped, PlainInv
<1>3. Size \in Nat \ {0} /\ Slots = 0 .. Size - 1 /\ RingOK
  BY MailboxAssumption DEF Slots, Inv
<1>4. ASSUME Takes PROVE RingOK'
  BY <1>3, <1>4 DEF RingOK, Takes, Take1
<1>5. ASSUME Resets PROVE RingOK'
  BY <1>3, <1>5 DEF RingOK, Resets
<1>6. ASSUME Rests PROVE RingOK'
  BY <1>3, <1>6 DEF RingOK, Rests, ring
<1>7. ASSUME NEW m \in Msgs, Stores(m) PROVE RingOK'
  <2>1. (StoreAtEnd(m) \/ StoreAhead(m)) /\ out' = out
    BY <1>7 DEF Stores, Store
  <2>2. CASE StoreAtEnd(m)
    BY <1>3, <2>1, <2>2 DEF RingOK, StoreAtEnd, Cells
  <2>3. CASE StoreAhead(m)
    BY <1>3, <2>1, <2>3 DEF RingOK, StoreAhead, Cells
  <2> QED
    BY <2>1, <2>2, <2>3
<1>8. RingOK'
  BY <1>1, <1>4, <1>5, <1>6, <1>7 DEF Stepped
<1> QED
  BY <1>1, <1>2, <1>8 DEF Inv

LEMMA InvHolds == Spec => []Inv
<1>1. Inv /\ UNCHANGED vars => Inv'
  BY DEF Inv, PlainInv, Kept, ItemsOK, RingOK, InPlace, vars, ring
<1> QED
  BY <1>1, InitHolds, RingStep, PTL DEF Spec

LEMMA InvIsConsistent == Inv => Consistent
<1> SUFFICES ASSUME Inv PROVE Consistent
  OBVIOUS
<1>1. k \in KernelStates
  BY DEF Inv, PlainInv, Kept, KernelOK
<1>2. SemTypeOK
  BY <1>1 DEF SemTypeOK, KernelStates
<1>3. SemaphoresConsistent
  <2> SUFFICES ASSUME NEW s \in Sems
               PROVE  LET q == k.s_queue[s] IN
                      /\ Len(q) = Pos(-k.s_cnt[s])
                      /\ \A i \in DOMAIN q : k.wtobjp[q[i]] = s
                      /\ \A i, j \in DOMAIN q : q[i] = q[j] => i = j
                      /\ \A t \in Threads : k.wtobjp[t] = s => \E i \in DOMAIN q : q[i] = t
    BY DEF SemaphoresConsistent
  <2>1. IsQueueOf(k.s_queue[s], Waiters(k, s)) /\ Len(k.s_queue[s]) = Pos(-k.s_cnt[s])
    BY DEF Inv, PlainInv, Kept, KernelOK
  <2>2. DOMAIN k.s_queue[s] = 1 .. Len(k.s_queue[s])
    BY <2>1, LenProperties DEF IsQueueOf
  <2>3. OnceEach(k.s_queue[s], Waiters(k, s))
    BY <2>1, QueueEach
  <2> QED
    BY <2>1, <2>2, <2>3 DEF OnceEach, Waiters
<1> QED
  BY <1>2, <1>3 DEF Consistent, Inv, PlainInv, Kept, ItemsOK, RingOK, Cells

-----------------------------------------------------------------------------
(***************************************************************************)
(* The theorems.                                                           *)
(***************************************************************************)
\* The assertion of the functions of chsem.c, in full: a negative counter
\* counts the threads of the queue, which are those that sleep on the semaphore,
\* each once, through every call of a thread or a handler, every timeout and
\* every reset; and the pointers of the mailbox stay within its buffer.
THEOREM SemaphoresAgree == Spec => []Consistent
BY InvHolds, InvIsConsistent, PTL

\* First come, first served, on every semaphore, with or without timeouts, for
\* any number of threads (ServedInOrder).
THEOREM NobodyOvertakes == Spec => ServedInOrder
<1>1. ASSUME OrderKept(k, k'), Inv
      PROVE  \A s \in Sems, t \in Threads :
               LET q == k.s_queue[s] IN
               \A i \in DOMAIN q :
                 q[i] = t /\ k'.wtobjp[t] = None /\ k'.rdymsg[t] = "RDY_OK" =>
                   \A h \in 1..i : k'.wtobjp[q[h]] # s
  <2>1. \A s \in Sems : DOMAIN k.s_queue[s] = 1 .. Len(k.s_queue[s])
    BY <1>1, LenProperties DEF Inv, PlainInv, Kept, KernelOK, IsQueueOf
  <2> QED
    BY <1>1, <2>1 DEF OrderKept
<1>2. Inv /\ Next => OrderKept(k, k')
  BY RingStep DEF Stepped
<1>3. UNCHANGED vars => UNCHANGED k
  BY DEF vars
<1> QED
  BY <1>1, <1>2, <1>3, InvHolds, PTL DEF Spec, ServedInOrder

-----------------------------------------------------------------------------
(***************************************************************************)
(* The mailbox as a queue, when chMBReset meets no admitted thread.        *)
(***************************************************************************)
Box == Boxed(mb_buffer, mb_rdptr, Units(k, pc, full))

\* What a step does to the queue.
BoxStep ==
    \/ \E m \in Msgs : /\ Len(Box) < Size /\ out' = out
                       /\ Box' = Append(Box, m) \/ Box' = <<m>> \o Box
    \/ Box # <<>> /\ out' = Head(Box) /\ Box' = Tail(Box)
    \/ Box' = <<>> /\ out' = out
    \/ Box' = Box /\ out' = out

LEMMA BoxKept ==
    ASSUME ~RacyReset, Inv, BoxInv, Next
    PROVE  BoxInv' /\ BoxStep
<1> DEFINE n == Units(k, pc, full)
           e == Units(k, pc, empty)
<1>0. Inv' /\ Stepped
  BY RingStep
<1>1. Size \in Nat \ {0} /\ n \in Nat /\ e \in Nat /\ e + n = Size
  BY BoxCalls, UnitsNat, MailboxAssumption DEF Inv, PlainInv, Kept, BoxInv
<1>2. /\ mb_buffer \in [Slots -> Cells] /\ mb_rdptr \in Slots /\ n \in 0 .. Size
      /\ mb_wrptr = (mb_rdptr + n) % Size
      /\ mb_buffer' \in [Slots -> Cells] /\ mb_rdptr' \in Slots
  BY <1>0, <1>1 DEF Inv, RingOK, BoxInv
<1>3. Len(Box) = n
  BY <1>2, BoxedSeq DEF Box
<1>4. ASSUME NEW m \in Msgs, Stores(m)
      PROVE  BoxInv' /\ BoxStep
  <2>1. /\ Units(k', pc', empty) = e - 1 /\ Units(k', pc', full) = n + 1 /\ e >= 1 /\ out' = out
        /\ StoreAtEnd(m) \/ StoreAhead(m)
    BY <1>4 DEF Stores, Store, Moved
  <2>2. n \in 0 .. Size - 1 /\ n < Size /\ m \in Cells /\ (e - 1) + (n + 1) = Size
    BY <1>1, <2>1 DEF Cells
  <2> HIDE DEF n, e
  <2>3. CASE StoreAtEnd(m)
    <3>1. PICK w : w = mb_wrptr
      OBVIOUS
    <3>2. /\ mb_buffer' = [mb_buffer EXCEPT ![w] = m] /\ mb_rdptr' = mb_rdptr
          /\ mb_wrptr' = (IF w + 1 >= Size THEN 0 ELSE w + 1)
      BY <2>3, <3>1 DEF StoreAtEnd
    <3>3. /\ Boxed([mb_buffer EXCEPT ![w] = m], mb_rdptr, n + 1) = Append(Boxed(mb_buffer, mb_rdptr, n), m)
          /\ (IF w + 1 >= Size THEN 0 ELSE w + 1) = (mb_rdptr + (n + 1)) % Size
      <4>1. PICK buf \in [Slots -> Cells], rd \in Slots, c \in 0 .. Size - 1, x \in Cells :
              buf = mb_buffer /\ rd = mb_rdptr /\ c = n /\ x = m
        BY <1>2, <2>2
      <4>2. w = (rd + c) % Size
        BY <1>2, <3>1, <4>1
      <4>3. /\ Boxed([buf EXCEPT ![w] = x], rd, c + 1) = Append(Boxed(buf, rd, c), x)
            /\ (IF w + 1 >= Size THEN 0 ELSE w + 1) = (rd + (c + 1)) % Size
        BY <4>2, AppendToRing
      <4> QED
        BY <4>1, <4>3
    <3>4. Box' = Append(Box, m)
      BY <2>1, <3>2, <3>3 DEF Box, n
    <3>5. mb_wrptr' = (mb_rdptr' + Units(k', pc', full)) % Size
      BY <2>1, <3>2, <3>3
    <3>6. BoxInv'
      BY <2>1, <2>2, <3>5 DEF BoxInv
    <3> QED
      BY <1>3, <2>1, <2>2, <3>4, <3>6 DEF BoxStep
  <2>4. CASE StoreAhead(m)
    <3>1. PICK r : r = IF mb_rdptr - 1 < 0 THEN Size - 1 ELSE mb_rdptr - 1
      OBVIOUS
    <3>2. /\ mb_buffer' = [mb_buffer EXCEPT ![r] = m] /\ mb_rdptr' = r /\ mb_wrptr' = mb_wrptr
      BY <2>4, <3>1 DEF StoreAhead
    <3>3. /\ Boxed([mb_buffer EXCEPT ![r] = m], r, n + 1) = <<m>> \o Boxed(mb_buffer, mb_rdptr, n)
          /\ (r + (n + 1)) % Size = (mb_rdptr + n) % Size
      <4>1. PICK buf \in [Slots -> Cells], rd \in Slots, c \in 0 .. Size - 1, x \in Cells :
              buf = mb_buffer /\ rd = mb_rdptr /\ c = n /\ x = m
        BY <1>2, <2>2
      <4>2. r = IF rd - 1 < 0 THEN Size - 1 ELSE rd - 1
        BY <3>1, <4>1
      <4>3. /\ Boxed([buf EXCEPT ![r] = x], r, c + 1) = <<x>> \o Boxed(buf, rd, c)
            /\ (r + (c + 1)) % Size = (rd + c) % Size
        BY <4>2, PutAheadInRing
      <4> QED
        BY <4>1, <4>3
    <3>4. Box' = <<m>> \o Box
      BY <2>1, <3>2, <3>3 DEF Box, n
    <3>5. mb_wrptr' = (mb_rdptr' + Units(k', pc', full)) % Size
      BY <1>2, <2>1, <3>2, <3>3
    <3>6. BoxInv'
      BY <2>1, <2>2, <3>5 DEF BoxInv
    <3> QED
      BY <1>3, <2>1, <2>2, <3>4, <3>6 DEF BoxStep
  <2> QED
    BY <2>1, <2>3, <2>4
<1>5. CASE Takes
  <2>1. /\ Units(k', pc', empty) = e + 1 /\ Units(k', pc', full) = n - 1 /\ n >= 1
        /\ out' = mb_buffer[mb_rdptr] /\ mb_buffer' = mb_buffer /\ mb_wrptr' = mb_wrptr
        /\ mb_rdptr' = IF mb_rdptr + 1 >= Size THEN 0 ELSE mb_rdptr + 1
    BY <1>5 DEF Takes, Take1, Moved
  <2>2. n \in 1 .. Size /\ (e + 1) + (n - 1) = Size
    BY <1>1, <2>1
  <2> HIDE DEF n, e
  <2>3. PICK r : r = mb_rdptr'
    OBVIOUS
  <2>4. /\ Boxed(mb_buffer, mb_rdptr, n) # <<>>
        /\ mb_buffer[mb_rdptr] = Head(Boxed(mb_buffer, mb_rdptr, n))
        /\ Boxed(mb_buffer, r, n - 1) = Tail(Boxed(mb_buffer, mb_rdptr, n))
        /\ (r + (n - 1)) % Size = (mb_rdptr + n) % Size
    BY <1>2, <2>1, <2>2, <2>3, TakeFromRing
  <2>5. Box' = Tail(Box) /\ Box # <<>> /\ out' = Head(Box)
    BY <2>1, <2>3, <2>4 DEF Box, n
  <2>6. mb_wrptr' = (mb_rdptr' + Units(k', pc', full)) % Size
    BY <1>2, <2>1, <2>3, <2>4
  <2>7. BoxInv'
    BY <2>1, <2>2, <2>6 DEF BoxInv
  <2> QED
    BY <2>5, <2>7 DEF BoxStep
<1>6. CASE Resets
  <2>1. Admitted(PostCalls \cup {"fetch"}) = {}
    BY <1>6 DEF Resets
  <2>2. Adm(k, pc, empty) = {} /\ Adm(k, pc, full) = {} /\ Cardinality({}) = 0
    BY <2>1, StoredUnits, FS_EmptySet DEF Admitted
  <2>3. Units(k', pc', empty) = Size /\ Units(k', pc', full) = 0
    BY <1>1, <1>6, <2>2 DEF Resets
  <2>4. mb_wrptr' = 0 /\ mb_rdptr' = 0 /\ out' = out /\ (0 + 0) % Size = 0
    BY <1>1, <1>6, Remainders DEF Resets
  <2>5. BoxInv'
    BY <1>1, <2>3, <2>4 DEF BoxInv
  <2>6. Box' = <<>>
    <3>1. Box' = Boxed(mb_buffer', 0, 0)
      BY <2>3, <2>4 DEF Box
    <3>2. 0 \in Slots /\ 0 \in 0 .. Size
      BY <1>1 DEF Slots
    <3>3. Box' \in Seq(Cells) /\ Len(Box') = 0
      BY <1>2, <3>1, <3>2, BoxedSeq
    <3>4. PICK b : b = Box'
      OBVIOUS
    <3>5. b = <<>>
      BY <3>3, <3>4, EmptySeq
    <3> QED
      BY <3>4, <3>5
  <2> QED
    BY <2>4, <2>5, <2>6 DEF BoxStep
<1>7. CASE Rests
  <2>1. /\ Units(k', pc', empty) = e /\ Units(k', pc', full) = n
        /\ mb_buffer' = mb_buffer /\ mb_wrptr' = mb_wrptr /\ mb_rdptr' = mb_rdptr /\ out' = out
    BY <1>7, BoxCalls DEF Rests, Same, UnitsSame, ring
  <2>2. Box' = Box
    BY <2>1 DEF Box
  <2>3. BoxInv'
    BY <2>1 DEF BoxInv
  <2> QED
    BY <2>1, <2>2, <2>3 DEF BoxStep
<1> QED
  BY <1>0, <1>4, <1>5, <1>6, <1>7 DEF Stepped

LEMMA BoxHolds ==
    ASSUME ~RacyReset
    PROVE  Spec => [](Inv /\ BoxInv)
<1>1. Inv /\ BoxInv /\ UNCHANGED vars => (Inv /\ BoxInv)'
  BY DEF Inv, PlainInv, Kept, ItemsOK, RingOK, InPlace, vars, ring, BoxInv
<1>2. Inv /\ BoxInv /\ Next => (Inv /\ BoxInv)'
  BY BoxKept, RingStep
<1> QED
  BY <1>1, <1>2, InitHolds, PTL DEF Spec

\* No slot of the mailbox is ever lost: each is counted as empty, holds a
\* message or is kept for a poster that has been told of it, whatever the order
\* of posts, fetches, timeouts and returns (NoSlotLost). Not so, when chMBReset
\* is called while a thread is admitted: that is the run mailbox_reset's finding.
THEOREM SlotsKept ==
    ASSUME ~RacyReset
    PROVE  Spec => []NoSlotLost
<1>1. Inv /\ BoxInv => NoSlotLost
  <2> SUFFICES ASSUME Inv, BoxInv PROVE NoSlotLost
    OBVIOUS
  <2>1. Units(k, pc, empty) = Pos(k.s_cnt[empty]) + Cardinality(Admitted(PostCalls))
    BY StoredUnits DEF Units
  <2>2. /\ Pos(k.s_cnt[empty]) \in Nat /\ Cardinality(Admitted(PostCalls)) \in Nat
        /\ Units(k, pc, full) \in Nat
    BY StoredUnits, BoxCalls, UnitsNat, AdmFinite DEF Inv, PlainInv, Kept
  <2> QED
    BY <2>1, <2>2, StoredUnits DEF BoxInv, NoSlotLost
<1> QED
  BY <1>1, BoxHolds, PTL

\* A poster that has been admitted finds a slot (SlotForEveryPoster).
THEOREM PostersFindSlots ==
    ASSUME ~RacyReset
    PROVE  Spec => []SlotForEveryPoster
<1>1. Inv /\ BoxInv => SlotForEveryPoster
  <2> SUFFICES ASSUME Inv, BoxInv PROVE SlotForEveryPoster
    OBVIOUS
  <2>1. Units(k, pc, empty) = Pos(k.s_cnt[empty]) + Cardinality(Admitted(PostCalls))
    BY StoredUnits DEF Units
  <2>2. /\ Pos(k.s_cnt[empty]) \in Nat /\ Cardinality(Admitted(PostCalls)) \in Nat
        /\ Units(k, pc, full) \in Nat
    BY StoredUnits, BoxCalls, UnitsNat, AdmFinite DEF Inv, PlainInv, Kept
  <2> QED
    BY <2>1, <2>2, StoredUnits DEF BoxInv, SlotForEveryPoster
<1> QED
  BY <1>1, BoxHolds, PTL

\* The mailbox is the bounded queue of MailboxService: nothing is lost, read
\* twice or overwritten, and the order is kept, for any size of the buffer and
\* any number of threads that sleep, give up and return in it (ImplementsQueue).
THEOREM MailboxIsQueue ==
    ASSUME ~RacyReset
    PROVE  Spec => ImplementsQueue
<1> DEFINE Mapped == Box = [i \in 1..Stored |-> mb_buffer[(mb_rdptr + i - 1) % Size]]
<1>a. Mapped
  BY StoredUnits DEF Box, Boxed
<1> HIDE DEF Mapped
<1>b. Mapped'
  BY <1>a, PTL
<1>1. Box = [i \in 1..Stored |-> mb_buffer[(mb_rdptr + i - 1) % Size]]
  BY <1>a DEF Mapped
<1>2. Box' = [i \in 1..Stored |-> mb_buffer[(mb_rdptr + i - 1) % Size]]'
  BY <1>b DEF Mapped
<1>3. Init => Queue!Init
  <2> SUFFICES ASSUME Init PROVE Queue!Init
    OBVIOUS
  <2>1. Inv /\ BoxInv
    BY InitHolds
  <2>2. PICK b, n : b = Box /\ n = Units(k, pc, full)
    OBVIOUS
  <2>3. n = 0
    <3>1. Size \in Nat \ {0} /\ n \in Nat
      BY <2>1, <2>2, BoxCalls, UnitsNat, MailboxAssumption DEF Inv, PlainInv, Kept
    <3>2. k.s_cnt[empty] = Size /\ Pos(Size) = Size
      BY <3>1, BoxCalls DEF Init, SemInit, Pos
    <3>3. Cardinality(Adm(k, pc, empty)) \in Nat
      BY AdmFinite
    <3> QED
      BY <2>1, <2>2, <3>1, <3>2, <3>3 DEF BoxInv, Units
  <2>4. b \in Seq(Cells) /\ Len(b) = 0
    <3>1. mb_buffer \in [Slots -> Cells] /\ mb_rdptr \in Slots /\ n \in 0 .. Size
      BY <2>1, <2>3, MailboxAssumption DEF Inv, RingOK
    <3> QED
      BY <2>2, <2>3, <3>1, BoxedSeq DEF Box
  <2>5. Box = <<>>
    BY <2>2, <2>4, EmptySeq
  <2> QED
    BY <1>1, <2>5, MailboxAssumption DEF Init, Queue!Init
<1>4. Inv /\ BoxInv /\ Next => [Queue!Next]_(Queue!boxvars)
  <2> SUFFICES ASSUME Inv, BoxInv, Next PROVE [Queue!Next]_(Queue!boxvars)
    OBVIOUS
  <2>1. BoxStep
    BY BoxKept
  <2> QED
    BY <1>1, <1>2, <2>1 DEF BoxStep, Queue!Next, Queue!boxvars, Queue!Post, Queue!PostAhead,
                            Queue!Fetch, Queue!Reset
<1>5. UNCHANGED vars => UNCHANGED Queue!boxvars
  BY <1>1, <1>2 DEF vars, ring, Box, Queue!boxvars
<1> QED
  BY <1>3, <1>4, <1>5, BoxHolds, PTL DEF Spec, ImplementsQueue, Queue!Spec

=============================================================================
