------------------------------ MODULE IoQueues ------------------------------
(***************************************************************************)
(* The input and output queues of the kernel (chqueues.c) between threads  *)
(* and an interrupt handler: the ring's counter and pointers, the threads  *)
(* that wait, and calls of n bytes that give up the lock after each byte.  *)
(* The bytes themselves are left out.                                      *)
(***************************************************************************)
EXTENDS ThreadsQueue, FiniteSets, Functions

CONSTANTS
    Threads,
    Size,       \* bytes in each buffer
    MaxCall     \* longest call (a bound)

ASSUME QueueAssumption ==
    Size \in Nat \ {0} /\ MaxCall \in Nat \ {0} /\ IsFiniteSet(Threads)

VARIABLES
    iq, oq,     \* InputQueue and OutputQueue: counter, rdptr, wrptr, waiting
    thr         \* threads: where in a call, bytes to go, rdymsg

Advance(p) == (p + 1) % Size

NewQueue(counter) == [counter |-> counter, rd |-> 0, wr |-> 0, waiting |-> <<>>]

Outside == [dir |-> "none", at |-> "out", left |-> 0, rdymsg |-> "Q_OK"]

QInit ==
    /\ iq = NewQueue(0)             \* chIQInit
    /\ oq = NewQueue(Size)          \* chOQInit
    /\ thr = [t \in Threads |-> Outside]

\* The threads after some that waited have been made ready.
WokenWith(msg, ts) ==
    [t \in Threads |-> IF t \in ts THEN [thr[t] EXCEPT !.at = "woken", !.rdymsg = msg]
                       ELSE thr[t]]

\* The first of the waiting threads.
First(q) == IF q.waiting = <<>> THEN {} ELSE {Head(q.waiting)}

Rest(q) == IF q.waiting = <<>> THEN <<>> ELSE Tail(q.waiting)

\* chIQPutI on a queue that is not full; First(iq) is made ready.
Input == [iq EXCEPT !.counter = @ + 1, !.wr = Advance(@), !.waiting = Rest(iq)]

\* chOQGetI on a queue that is not empty; First(oq) is made ready.
Output == [oq EXCEPT !.counter = @ + 1, !.rd = Advance(@), !.waiting = Rest(oq)]

\* chIQIsFullI and chOQIsEmptyI, which look at the pointers, unlike Empty and
\* Full below.
Filled(q) == q.wr = q.rd /\ q.counter # 0

-----------------------------------------------------------------------------
(***************************************************************************)
(* Calls: chIQReadTimeout and chOQWriteTimeout of n bytes, chIQGetTimeout  *)
(* and chOQPutTimeout of one. Every turn of their loops is a lock zone. A  *)
(* call without a timeout is one whose timeout does not come.              *)
(***************************************************************************)
QCall(t, dir, n) ==
    /\ thr[t].at = "out"
    /\ thr' = [thr EXCEPT ![t] = [dir |-> dir, at |-> "running", left |-> n, rdymsg |-> "Q_OK"]]
    /\ UNCHANGED <<iq, oq>>

\* Thread t begins a turn: after the byte before, or after a wait.
Turn(t, dir) ==
    thr[t].dir = dir /\ (thr[t].at = "running" \/ (thr[t].at = "woken" /\ thr[t].rdymsg = "Q_OK"))

\* qwait: to the end of the queue's list.
QWait(t) == thr' = [thr EXCEPT ![t].at = "waiting"]

ByteDone(t) ==
    thr' = [thr EXCEPT ![t] =
                 IF thr[t].left = 1 THEN Outside
                 ELSE [thr[t] EXCEPT !.at = "running", !.left = thr[t].left - 1]]

\* The wait ended with a timeout or a reset: the call returns what it has.
GiveUp(t) ==
    /\ thr[t].at = "woken" /\ thr[t].rdymsg # "Q_OK"
    /\ thr' = [thr EXCEPT ![t] = Outside]
    /\ UNCHANGED <<iq, oq>>

Empty == iq.counter = 0

Full == oq.counter = 0

Read(t) ==
    /\ Turn(t, "read")
    /\ IF Empty
         THEN QWait(t) /\ iq' = [iq EXCEPT !.waiting = Append(@, t)]
         ELSE ByteDone(t) /\ iq' = [iq EXCEPT !.counter = @ - 1, !.rd = Advance(@)]
    /\ UNCHANGED oq

\* The output driver is notified of every byte: see SerialDriver.
Write(t) ==
    /\ Turn(t, "write")
    /\ IF Full
         THEN QWait(t) /\ oq' = [oq EXCEPT !.waiting = Append(@, t)]
         ELSE ByteDone(t) /\ oq' = [oq EXCEPT !.counter = @ - 1, !.wr = Advance(@)]
    /\ UNCHANGED iq

\* Mutant: the thread is not taken out of the list.
QTimeoutStaysListed(t) ==
    /\ thr[t].at = "waiting"
    /\ thr' = WokenWith("Q_TIMEOUT", {t})
    /\ UNCHANGED <<iq, oq>>

\* wakeup of chschd.c on a thread that waits on a queue; with TIME_IMMEDIATE, at
\* once.
QTimeout(t) ==
    /\ thr[t].at = "waiting"
    /\ thr' = WokenWith("Q_TIMEOUT", {t})
    /\ iq' = IF thr[t].dir = "read" THEN [iq EXCEPT !.waiting = Dequeue(@, t)] ELSE iq
    /\ oq' = IF thr[t].dir = "write" THEN [oq EXCEPT !.waiting = Dequeue(@, t)] ELSE oq

\* Mutant: the read pointers are not rewound.
QResetKeepingPointers ==
    /\ iq' = [NewQueue(0) EXCEPT !.rd = iq.rd]
    /\ oq' = [NewQueue(Size) EXCEPT !.rd = oq.rd]
    /\ thr' = WokenWith("Q_RESET", Range(iq.waiting) \cup Range(oq.waiting))

\* chIQResetI and chOQResetI, which sdStop calls together.
QReset ==
    /\ iq' = NewQueue(0)
    /\ oq' = NewQueue(Size)
    /\ thr' = WokenWith("Q_RESET", Range(iq.waiting) \cup Range(oq.waiting))

-----------------------------------------------------------------------------
QTypeOK ==
    /\ \A q \in {iq, oq} : /\ q.counter \in 0..Size
                           /\ q.rd \in 0..(Size - 1) /\ q.wr \in 0..(Size - 1)
                           /\ q.waiting \in Seq(Threads)
    /\ thr \in [Threads -> [dir : {"none", "read", "write"},
                            at : {"out", "running", "waiting", "woken"}, left : 0..MaxCall,
                            rdymsg : {"Q_OK", "Q_TIMEOUT", "Q_RESET"}]]

\* The threads made ready for a byte that have not run yet.
WokenOk(dir) == {t \in Threads : thr[t].dir = dir /\ thr[t].at = "woken"
                                         /\ thr[t].rdymsg = "Q_OK"}

\* Counter and pointers of each ring agree, whatever calls, interrupts,
\* timeouts and resets interleave.
RingsAgree ==
    /\ iq.wr = (iq.rd + iq.counter) % Size
    /\ oq.wr = (oq.rd + Size - oq.counter) % Size

\* No wakeup is lost: while threads wait, every byte (or free place) that is
\* there has a thread already made ready for it, even if another thread got
\* ahead of the one woken before and it has to wait again.
NoLostWakeup ==
    /\ iq.waiting # <<>> => iq.counter <= Cardinality(WokenOk("read"))
    /\ oq.waiting # <<>> => oq.counter <= Cardinality(WokenOk("write"))

=============================================================================
