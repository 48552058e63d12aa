----------------------------- MODULE Semaphores -----------------------------
(***************************************************************************)
(* Counting semaphores (chsem.c) with the part of the scheduler and the    *)
(* timers they use: threads go to sleep in a semaphore's queue, with or    *)
(* without a timeout, and are made ready with a message.                   *)
(*                                                                         *)
(* A call runs with interrupts masked and is one step, up to the point     *)
(* where the thread sleeps; what the code does once the thread runs again  *)
(* is another step. Which ready thread runs is left open (KernelMutex is   *)
(* about that). The calls are functions of the kernel's state, because a   *)
(* mailbox makes several of them in one step.                              *)
(***************************************************************************)
EXTENDS ThreadsQueue

CONSTANTS
    Threads,        \* the threads that call
    Sems,           \* the semaphores
    None,           \* no object
    MaxCount        \* bound on the counter of a semaphore that is signalled

ASSUME SemAssumption == /\ None \notin Sems \cup Threads
                        /\ MaxCount \in Nat

VARIABLES
    k,              \* the kernel's state: s_cnt and s_queue of each semaphore,
                    \* and of each thread wtobjp (None: not in state WTSEM),
                    \* rdymsg, and is the timer of its sleep armed?
    pc              \* the call that a thread sleeps in or comes back from

Answers == {"RDY_OK", "RDY_TIMEOUT", "RDY_RESET"}

Pos(n) == IF n > 0 THEN n ELSE 0

-----------------------------------------------------------------------------
(* The calls, as functions of the kernel's state.                            *)

(* chSchReadyI of a thread that has been taken off its queue. *)
Ready(j, ts, msg) ==
    [j EXCEPT !.wtobjp = [t \in Threads |-> IF t \in ts THEN None ELSE @[t]],
              !.rdymsg = [t \in Threads |-> IF t \in ts THEN msg ELSE @[t]]]

(* Mutant: the last comer is served first. *)
SignalLifo(j, s) ==
    LET n == Len(j.s_queue[s])
        i == [j EXCEPT !.s_cnt[s] = @ + 1]
    IN  IF i.s_cnt[s] > 0 THEN i
        ELSE Ready([i EXCEPT !.s_queue[s] = SubSeq(@, 1, n - 1)], {j.s_queue[s][n]}, "RDY_OK")

(* chSemSignalI: the first of the queue, if there is one, is made ready. *)
SignalI(j, s) ==
    LET i == [j EXCEPT !.s_cnt[s] = @ + 1]
    IN  IF i.s_cnt[s] > 0 THEN i
        ELSE Ready([i EXCEPT !.s_queue[s] = Tail(@)], {Head(j.s_queue[s])}, "RDY_OK")

(* chSemAddCounterI: n signals. *)
AddCounterI(j, s, n) ==
    LET q == j.s_queue[s]
        m == IF n <= Pos(-j.s_cnt[s]) THEN n ELSE Pos(-j.s_cnt[s])
    IN  Ready([j EXCEPT !.s_cnt[s] = @ + n, !.s_queue[s] = SubSeq(@, m + 1, Len(@))],
              {q[i] : i \in 1..m}, "RDY_OK")

(* chSemResetI: as many threads as the counter says are waiting are taken    *)
(* off the end of the queue.                                                 *)
ResetI(j, s, n) ==
    LET q == j.s_queue[s]
        left == Len(q) - Pos(-j.s_cnt[s])
    IN  Ready([j EXCEPT !.s_cnt[s] = n, !.s_queue[s] = SubSeq(@, 1, left)],
              {q[i] : i \in left + 1 .. Len(q)}, "RDY_RESET")

(* The two ways through chSemWaitTimeoutS: the semaphore is taken, or the    *)
(* thread sleeps in its queue, with a timer if timeout.                      *)
Take(j, s) == [j EXCEPT !.s_cnt[s] = @ - 1]

Sleep(j, t, s, timeout) ==
    [j EXCEPT !.s_cnt[s] = @ - 1, !.s_queue[s] = Append(@, t),
              !.wtobjp[t] = s, !.timed[t] = timeout]

(* Mutant: the handler does not give the unit back. *)
TimeoutKeepsCount(j, t) ==
    LET s == j.wtobjp[t]
        i == [j EXCEPT !.timed[t] = FALSE]
    IN  IF s = None THEN i
        ELSE Ready([i EXCEPT !.s_queue[s] = Dequeue(@, t)], {t}, "RDY_TIMEOUT")

(* wakeup, the handler of a timeout. A thread that has been made ready        *)
(* meanwhile, and has not run yet, is left alone.                            *)
Timeout(j, t) ==
    LET s == j.wtobjp[t]
        i == [j EXCEPT !.timed[t] = FALSE]
    IN  IF s = None THEN i
        ELSE Ready([i EXCEPT !.s_cnt[s] = @ + 1,
                             !.s_queue[s] = Dequeue(@, t)],
                   {t}, "RDY_TIMEOUT")

-----------------------------------------------------------------------------
SemInit(n) ==
    /\ k = [s_cnt |-> n,
            s_queue |-> [s \in Sems |-> <<>>],
            wtobjp |-> [t \in Threads |-> None],
            rdymsg |-> [t \in Threads |-> "RDY_OK"],
            timed |-> [t \in Threads |-> FALSE]]
    /\ pc = [t \in Threads |-> "idle"]

(* Threads that run their own code, and such as are in the middle of a call   *)
(* but no longer asleep.                                                     *)
Calls(t) == pc[t] = "idle"
Woken(t, call) == pc[t] = call /\ k.wtobjp[t] = None

(* chSemWait, chSemWaitTimeout. *)
chSemWait(t, s, timeout) ==
    /\ Calls(t)
    /\ \/ /\ k.s_cnt[s] > 0
          /\ k' = Take(k, s)
          /\ UNCHANGED pc
       \/ /\ k.s_cnt[s] <= 0
          /\ k' = Sleep(k, t, s, timeout)
          /\ pc' = [pc EXCEPT ![t] = "wait"]

(* chSchGoSleepTimeoutS disarms a timer that is still armed. *)
WaitReturn(t) ==
    /\ Woken(t, "wait")
    /\ k' = [k EXCEPT !.timed[t] = FALSE]
    /\ pc' = [pc EXCEPT ![t] = "idle"]

(* chSemSignal of a thread, chSemSignalI of a handler: they differ in when     *)
(* the woken thread runs.                                                    *)
chSemSignal(s) ==
    /\ k.s_cnt[s] < MaxCount
    /\ k' = SignalI(k, s)
    /\ UNCHANGED pc

chSemAddCounterI(s, n) ==
    /\ k.s_cnt[s] + n <= MaxCount
    /\ k' = AddCounterI(k, s, n)
    /\ UNCHANGED pc

chSemReset(s, n) ==
    /\ k' = ResetI(k, s, n)
    /\ UNCHANGED pc

chSemSignalWait(t, sps, spw) ==
    LET j == SignalI(k, sps) IN
    /\ Calls(t)
    /\ k.s_cnt[sps] < MaxCount
    /\ \/ /\ j.s_cnt[spw] > 0
          /\ k' = Take(j, spw)
          /\ UNCHANGED pc
       \/ /\ j.s_cnt[spw] <= 0
          /\ k' = Sleep(j, t, spw, FALSE)
          /\ pc' = [pc EXCEPT ![t] = "wait"]

wakeup(t) ==
    /\ k.timed[t]
    /\ k' = Timeout(k, t)
    /\ UNCHANGED pc

SemCall(s) ==
    \/ \E t \in Threads, timeout \in BOOLEAN : chSemWait(t, s, timeout)
    \/ chSemSignal(s)
    \/ \E n \in 1..MaxCount : chSemAddCounterI(s, n)
    \/ \E n \in 0..MaxCount : chSemReset(s, n)

-----------------------------------------------------------------------------
(* The assertion of every function of chsem.c: the counter is not negative   *)
(* and nobody waits, or it is negative and somebody does (chsem.c:132). More *)
(* exactly, a negative counter counts the threads in the queue, which are    *)
(* those that sleep on the semaphore, each once.                             *)
SemaphoresConsistent ==
    \A s \in Sems :
      LET q == k.s_queue[s] IN
      /\ Len(q) = Pos(-k.s_cnt[s])
      /\ \A i \in DOMAIN q : k.wtobjp[q[i]] = s
      /\ \A i, j \in DOMAIN q : q[i] = q[j] => i = j
      /\ \A t \in Threads : k.wtobjp[t] = s => \E i \in DOMAIN q : q[i] = t

(* First come, first served (CH_USE_SEMAPHORES_PRIORITY is FALSE): a thread   *)
(* is given a semaphore only when everyone before it in the queue has left   *)
(* or leaves too.                                                            *)
ServedInOrder ==
    [][\A s \in Sems, t \in Threads :
         LET q == k.s_queue[s] IN
         \A i \in DOMAIN q :
           q[i] = t /\ k'.wtobjp[t] = None /\ k'.rdymsg[t] = "RDY_OK" =>
             \A h \in 1..i : k'.wtobjp[q[h]] # s]_k

SemTypeOK ==
    /\ DOMAIN k = {"s_cnt", "s_queue", "wtobjp", "rdymsg", "timed"}
    /\ k.s_cnt \in [Sems -> Int]
    /\ k.s_queue \in [Sems -> Seq(Threads)]
    /\ k.wtobjp \in [Threads -> Sems \cup {None}]
    /\ k.rdymsg \in [Threads -> Answers]
    /\ k.timed \in [Threads -> BOOLEAN]

=============================================================================
