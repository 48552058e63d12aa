---------------------------- MODULE KernelMutex ----------------------------
(***************************************************************************)
(* The scheduler of ChibiOS/RT 2.6.8 (chschd.c), its mutexes with priority *)
(* inheritance (chmtx.c), its condition variables (chcond.c) and           *)
(* chThdSetPriority, chThdSleep and chThdYield (chthreads.c), with the     *)
(* options of demos/BikeTracker/chconf.h: round robin, no priority order   *)
(* on semaphores and messages, condition variables with timeouts.          *)
(*                                                                         *)
(* The kernel runs with interrupts masked.  A call is one action, except   *)
(* where the code loops over the lists: every turn of such a loop is an    *)
(* action, and phase says which loop is running, so that nothing else      *)
(* happens meanwhile.                                                      *)
(***************************************************************************)
EXTENDS Integers, Sequences, FiniteSets

CONSTANTS Threads,    \* the threads, the idle thread among them
          Idle,       \* IDLEPRIO, never sleeps and uses nothing
          Mutexes,
          Conds,      \* condition variables
          None,       \* NULL
          Base,       \* the priority each thread is created with
          Prios,      \* what chThdSetPriority is called with
          Quantum,    \* CH_TIME_QUANTUM
          MayUndercut \* see Undercuts

ASSUME ThreadsAssumption ==
  /\ Idle \in Threads
  /\ IsFiniteSet(Threads)
  /\ None \notin Threads \cup Mutexes \cup Conds
  /\ Mutexes \cap Conds = {}
ASSUME PriorityAssumption ==
  /\ Base \in [Threads -> Nat \ {0}]
  /\ Prios \subseteq Nat \ {0, 1}
  /\ Base[Idle] = 1
  /\ \A t \in Threads \ {Idle} : Base[t] > 1
ASSUME QuantumAssumption == Quantum \in Nat \ {0}
ASSUME UndercutAssumption == MayUndercut \in BOOLEAN

VARIABLES
  currp,        \* the running thread
  ready,        \* rlist: the ready list
  phase,        \* who has the processor, see Phases
  wanted,       \* mp of the chMtxLockS that is running
  cursor,       \* tp of its loop; c_queue of a broadcast that is running
  p_prio, p_realprio, p_state, p_preempt,
  wtobjp,       \* p_u.wtobjp
  relock,       \* the mutex chCondWaitS will lock again
  timed,        \* is the timer of chSchGoSleepTimeoutS armed?
  p_mtxlist,    \* the stack of owned mutexes
  m_owner, m_queue,
  c_queue

prioVars == <<p_prio, p_realprio>>
mutexVars == <<p_mtxlist, m_owner, m_queue>>
condVars == <<relock, c_queue>>
loopVars == <<wanted, cursor>>
procVars == <<p_state, p_preempt, timed>>
vars == <<currp, ready, phase, loopVars, prioVars, procVars, wtobjp, condVars,
          mutexVars>>

(* The places control can be in between two actions.                         *)
(*   "user"    the running thread, interrupts enabled                        *)
(*   "isr"     an interrupt handler, before its epilogue                     *)
(*   "boost"   the head of the loop of chMtxLockS                            *)
(*   "sleep"   that loop has been left with break                            *)
(*   "all"     the head of the loop of chMtxUnlockAll                        *)
(*   "cast"    the head of the loop of chCondBroadcastI                      *)
(*   "relock"  chCondWaitS after its sleep, before its chMtxLockS            *)
Phases == {"user", "isr", "boost", "sleep", "all", "cast", "relock"}
States == {"CURRENT", "READY", "WTMTX", "WTCOND", "SLEEPING"}

Users == Threads \ {Idle}

-----------------------------------------------------------------------------
(* Lists.  The scan goes from the front to the first thread that has less   *)
(* than the given priority, or to the end.                                  *)

FirstBelow(q, pr, p) ==
  CHOOSE k \in 1 .. Len(q) + 1 :
    /\ k <= Len(q) => pr[q[k]] < p
    /\ \A i \in 1 .. k - 1 : pr[q[i]] >= p

PutAt(q, k, t) == [i \in 1 .. Len(q) + 1 |->
                     IF i < k THEN q[i] ELSE IF i = k THEN t ELSE q[i - 1]]

InsertFifoMutant(q, pr, t) == PutAt(q, Len(q) + 1, t)

(* Behind the threads of the same priority (prio_insert, chSchReadyI). *)
Insert(q, pr, t) == PutAt(q, FirstBelow(q, pr, pr[t]), t)

(* Ahead of the threads of the same priority (chSchDoRescheduleAhead). *)
InsertAhead(q, pr, t) == PutAt(q, FirstBelow(q, pr, pr[t] + 1), t)

Position(q, t) == CHOOSE k \in 1 .. Len(q) : q[k] = t

Dequeue(q, t) == [i \in 1 .. Len(q) - 1 |->
                    IF i < Position(q, t) THEN q[i] ELSE q[i + 1]]

Members(q) == {q[i] : i \in 1 .. Len(q)}

-----------------------------------------------------------------------------
(* The scheduler.  rdy, st and pr are the ready list, the states and the     *)
(* priorities at the time of the call.                                       *)

(* A thread that is switched in continues where it slept: it resets the      *)
(* timer it may have armed and goes on in chCondWaitS if it waited there,    *)
(* else it unlocks the kernel.                                               *)
Resume(t) == /\ currp' = t
             /\ phase' = IF relock[t] # None THEN "relock" ELSE "user"

SwitchTo(t) == Resume(t) /\ timed' = [timed EXCEPT ![t] = FALSE]

Stay == UNCHANGED <<currp, timed>> /\ phase' = "user"

(* chSchGoSleepS and, with a timer, chSchGoSleepTimeoutS. *)
GoSleepS(rdy, st, newstate, timeout) ==
  /\ Resume(Head(rdy))
  /\ timed' = [timed EXCEPT ![currp] = timeout, ![Head(rdy)] = FALSE]
  /\ ready' = Tail(rdy)
  /\ p_state' = [st EXCEPT ![currp] = newstate, ![Head(rdy)] = "CURRENT"]
  /\ p_preempt' = [p_preempt EXCEPT ![currp] = Quantum]

WakeupS(t, pr) ==
  /\ IF pr[t] <= pr[currp]
     THEN /\ Stay
          /\ ready' = Insert(ready, pr, t)
          /\ p_state' = [p_state EXCEPT ![t] = "READY"]
     ELSE /\ SwitchTo(t)
          /\ ready' = Insert(ready, pr, currp)
          /\ p_state' = [p_state EXCEPT ![currp] = "READY", ![t] = "CURRENT"]
  /\ UNCHANGED p_preempt

AheadRefillsMutant(pr) ==
  /\ SwitchTo(Head(ready))
  /\ ready' = InsertAhead(Tail(ready), pr, currp)
  /\ p_state' = [p_state EXCEPT ![currp] = "READY", ![Head(ready)] = "CURRENT"]
  /\ p_preempt' = [p_preempt EXCEPT ![currp] = Quantum]

DoRescheduleAhead(pr) ==
  /\ SwitchTo(Head(ready))
  /\ ready' = InsertAhead(Tail(ready), pr, currp)
  /\ p_state' = [p_state EXCEPT ![currp] = "READY", ![Head(ready)] = "CURRENT"]
  /\ UNCHANGED p_preempt

DoRescheduleBehind ==
  /\ SwitchTo(Head(ready))
  /\ ready' = Insert(Tail(ready), p_prio, currp)
  /\ p_state' = [p_state EXCEPT ![currp] = "READY", ![Head(ready)] = "CURRENT"]
  /\ p_preempt' = [p_preempt EXCEPT ![currp] = Quantum]

IsRescRequired(pr) == ready # <<>> /\ pr[Head(ready)] > pr[currp]

RescheduleS(pr) ==
  \/ IsRescRequired(pr) /\ DoRescheduleAhead(pr)
  \/ ~IsRescRequired(pr) /\ Stay /\ UNCHANGED <<ready, p_state, p_preempt>>

-----------------------------------------------------------------------------
TypeOK ==
  /\ currp \in Threads
  /\ ready \in Seq(Threads)
  /\ phase \in Phases
  /\ wanted \in Mutexes \cup {None}
  /\ cursor \in Threads \cup Conds \cup {None}
  /\ p_prio \in [Threads -> Nat]
  /\ p_realprio \in [Threads -> Nat]
  /\ p_state \in [Threads -> States]
  /\ p_preempt \in [Threads -> 0 .. Quantum]
  /\ wtobjp \in [Threads -> Mutexes \cup Conds \cup {None}]
  /\ relock \in [Threads -> Mutexes \cup {None}]
  /\ timed \in [Threads -> BOOLEAN]
  /\ p_mtxlist \in [Threads -> Seq(Mutexes)]
  /\ m_owner \in [Mutexes -> Threads \cup {None}]
  /\ m_queue \in [Mutexes -> Seq(Threads)]
  /\ c_queue \in [Conds -> Seq(Threads)]

(* The threads as they are created: all ready, ordered by priority, the first *)
(* of them running.                                                           *)
Init ==
  /\ \E order \in [1 .. Cardinality(Threads) -> Threads] :
       /\ Members(order) = Threads
       /\ \A i, j \in DOMAIN order : i < j => Base[order[i]] >= Base[order[j]]
       /\ currp = order[1]
       /\ ready = Tail(order)
  /\ phase = "user"
  /\ wanted = None
  /\ cursor = None
  /\ p_prio = Base
  /\ p_realprio = Base
  /\ p_state = [t \in Threads |-> IF t = currp THEN "CURRENT" ELSE "READY"]
  /\ p_preempt = [t \in Threads |-> Quantum]
  /\ wtobjp = [t \in Threads |-> None]
  /\ relock = [t \in Threads |-> None]
  /\ timed = [t \in Threads |-> FALSE]
  /\ p_mtxlist = [t \in Threads |-> <<>>]
  /\ m_owner = [m \in Mutexes |-> None]
  /\ m_queue = [m \in Mutexes |-> <<>>]
  /\ c_queue = [c \in Conds |-> <<>>]

Calls == phase = "user" /\ currp \in Users

-----------------------------------------------------------------------------
(* Mutexes.                                                                  *)

Own(t, m) == /\ m_owner' = [m_owner EXCEPT ![m] = t]
             /\ p_mtxlist' = [p_mtxlist EXCEPT ![t] = <<m>> \o @]

(* chMtxLockS up to its loop; called by chMtxLock and by chCondWaitS.        *)
LockS(m) ==
  \/ /\ m_owner[m] = None
     /\ Own(currp, m)
     /\ phase' = "user"
     /\ UNCHANGED <<m_queue, loopVars>>
  \/ /\ m_owner[m] # None
     /\ phase' = "boost"
     /\ wanted' = m
     /\ cursor' = m_owner[m]
     /\ UNCHANGED mutexVars

chMtxLock(m) ==
  /\ Calls
  /\ LockS(m)
  /\ UNCHANGED <<currp, ready, prioVars, procVars, wtobjp, condVars>>

chMtxTryLock(m) ==
  /\ Calls
  /\ m_owner[m] = None
  /\ Own(currp, m)
  /\ UNCHANGED <<currp, ready, phase, loopVars, prioVars, procVars,
                 wtobjp, condVars, m_queue>>

(* One turn of the loop: tp gets the priority of the running thread and its  *)
(* place in the list it is in.  Only a thread that waits for a mutex leads   *)
(* on to another, the other states leave the loop.                           *)
LoopGoesOnEqualMutant == phase = "boost" /\ p_prio[cursor] <= p_prio[currp]

LoopGoesOn == phase = "boost" /\ p_prio[cursor] < p_prio[currp]

Boosted == [p_prio EXCEPT ![cursor] = p_prio[currp]]

RequeuedNotMutant(q) == q

Requeued(q) == Insert(Dequeue(q, cursor), Boosted, cursor)

BoostWTMTX ==
  /\ LoopGoesOn
  /\ p_state[cursor] = "WTMTX"
  /\ p_prio' = Boosted
  /\ m_queue' = [m_queue EXCEPT ![wtobjp[cursor]] = Requeued(@)]
  /\ cursor' = m_owner[wtobjp[cursor]]
  /\ UNCHANGED <<currp, ready, phase, wanted, p_realprio, procVars,
                 wtobjp, condVars, p_mtxlist, m_owner>>

BoostWTCOND ==
  /\ LoopGoesOn
  /\ p_state[cursor] = "WTCOND"
  /\ p_prio' = Boosted
  /\ c_queue' = [c_queue EXCEPT ![wtobjp[cursor]] = Requeued(@)]
  /\ phase' = "sleep"
  /\ cursor' = None
  /\ UNCHANGED <<currp, ready, wanted, p_realprio, procVars, wtobjp,
                 relock, timed, mutexVars>>

BoostREADY ==
  /\ LoopGoesOn
  /\ p_state[cursor] = "READY"
  /\ p_prio' = Boosted
  /\ ready' = Requeued(ready)
  /\ phase' = "sleep"
  /\ cursor' = None
  /\ UNCHANGED <<currp, wanted, p_realprio, procVars, wtobjp,
                 condVars, mutexVars>>

BoostOther ==
  /\ LoopGoesOn
  /\ p_state[cursor] \notin {"WTMTX", "WTCOND", "READY"}
  /\ p_prio' = Boosted
  /\ phase' = "sleep"
  /\ cursor' = None
  /\ UNCHANGED <<currp, ready, wanted, p_realprio, procVars, wtobjp,
                 condVars, mutexVars>>

(* The loop is over: the thread queues itself on the mutex and sleeps.       *)
SleepOnMutex ==
  /\ phase = "sleep" \/ (phase = "boost" /\ ~LoopGoesOn)
  /\ m_queue' = [m_queue EXCEPT ![wanted] = Insert(@, p_prio, currp)]
  /\ wtobjp' = [wtobjp EXCEPT ![currp] = wanted]
  /\ GoSleepS(ready, p_state, "WTMTX", FALSE)
  /\ wanted' = None
  /\ cursor' = None
  /\ UNCHANGED <<prioVars, condVars, p_mtxlist, m_owner>>

(* The mutex on top of the stack is popped.  If nobody waits for it, it is   *)
(* free, else the first waiter becomes its owner (Give) and the running      *)
(* thread falls back to the highest priority that its own, or the first      *)
(* waiter of a mutex it still has, gives it.                                 *)
ump == Head(p_mtxlist[currp])
Rest == Tail(p_mtxlist[currp])

FirstPrios(ms) == {p_prio[Head(m_queue[m])] : m \in {n \in ms : m_queue[n] # <<>>}}

NewPrio == LET ps == {p_realprio[currp]} \cup FirstPrios(Members(Rest))
           IN  CHOOSE p \in ps : \A r \in ps : r <= p

Lowered == [p_prio EXCEPT ![currp] = NewPrio]

DropQueueMutant == /\ m_owner' = [m_owner EXCEPT ![ump] = None]
                   /\ p_mtxlist' = [p_mtxlist EXCEPT ![currp] = Rest]
                   /\ UNCHANGED <<m_queue, wtobjp>>

Drop == /\ m_queue[ump] = <<>>
        /\ m_owner' = [m_owner EXCEPT ![ump] = None]
        /\ p_mtxlist' = [p_mtxlist EXCEPT ![currp] = Rest]
        /\ UNCHANGED <<m_queue, wtobjp>>

Give == LET tp == Head(m_queue[ump]) IN
        /\ m_owner' = [m_owner EXCEPT ![ump] = tp]
        /\ m_queue' = [m_queue EXCEPT ![ump] = Tail(@)]
        /\ p_mtxlist' = [p_mtxlist EXCEPT ![currp] = Rest, ![tp] = <<ump>> \o @]
        /\ wtobjp' = [wtobjp EXCEPT ![tp] = None]

chMtxUnlock ==
  /\ Calls
  /\ p_mtxlist[currp] # <<>>
  /\ \/ /\ Drop
        /\ UNCHANGED <<currp, ready, phase, p_prio, procVars>>
     \/ /\ m_queue[ump] # <<>>
        /\ Give
        /\ p_prio' = Lowered
        /\ WakeupS(Head(m_queue[ump]), Lowered)
  /\ UNCHANGED <<loopVars, p_realprio, condVars>>

(* chMtxUnlockAll is a loop without the computation of priorities.           *)
UnlockAllBegin ==
  /\ Calls
  /\ p_mtxlist[currp] # <<>>
  /\ phase' = "all"
  /\ UNCHANGED <<currp, ready, loopVars, prioVars, procVars, wtobjp,
                 condVars, mutexVars>>

UnlockAllTurn ==
  /\ phase = "all"
  /\ p_mtxlist[currp] # <<>>
  /\ \/ Drop /\ UNCHANGED <<ready, p_state>>
     \/ LET tp == Head(m_queue[ump]) IN
        /\ m_queue[ump] # <<>>
        /\ Give
        /\ ready' = Insert(ready, p_prio, tp)
        /\ p_state' = [p_state EXCEPT ![tp] = "READY"]
  /\ UNCHANGED <<currp, phase, loopVars, prioVars, p_preempt, timed, condVars>>

UnlockAllEnd ==
  LET pr == [p_prio EXCEPT ![currp] = p_realprio[currp]] IN
  /\ phase = "all"
  /\ p_mtxlist[currp] = <<>>
  /\ p_prio' = pr
  /\ RescheduleS(pr)
  /\ UNCHANGED <<loopVars, p_realprio, wtobjp, condVars, mutexVars>>

-----------------------------------------------------------------------------
(* Condition variables.                                                      *)

(* chMtxUnlockS, then the sleep; the mutex is locked again on the way out.   *)
chCondWait(c, timeout) ==
  LET tp == Head(m_queue[ump]) IN
  /\ Calls
  /\ p_mtxlist[currp] # <<>>
  /\ relock' = [relock EXCEPT ![currp] = ump]
  /\ \/ /\ m_queue[ump] = <<>>
        /\ m_owner' = [m_owner EXCEPT ![ump] = None]
        /\ p_mtxlist' = [p_mtxlist EXCEPT ![currp] = Rest]
        /\ wtobjp' = [wtobjp EXCEPT ![currp] = c]
        /\ c_queue' = [c_queue EXCEPT ![c] = Insert(@, p_prio, currp)]
        /\ GoSleepS(ready, p_state, "WTCOND", timeout)
        /\ UNCHANGED <<m_queue, p_prio>>
     \/ /\ m_queue[ump] # <<>>
        /\ m_owner' = [m_owner EXCEPT ![ump] = tp]
        /\ m_queue' = [m_queue EXCEPT ![ump] = Tail(@)]
        /\ p_mtxlist' = [p_mtxlist EXCEPT ![currp] = Rest, ![tp] = <<ump>> \o @]
        /\ p_prio' = Lowered
        /\ wtobjp' = [wtobjp EXCEPT ![currp] = c, ![tp] = None]
        /\ c_queue' = [c_queue EXCEPT ![c] = Insert(@, Lowered, currp)]
        /\ GoSleepS(Insert(ready, Lowered, tp),
                    [p_state EXCEPT ![tp] = "READY"], "WTCOND", timeout)
  /\ UNCHANGED <<loopVars, p_realprio>>

(* The thread that was woken runs again, still in chCondWaitS.               *)
Relock ==
  /\ phase = "relock"
  /\ LockS(relock[currp])
  /\ relock' = [relock EXCEPT ![currp] = None]
  /\ UNCHANGED <<currp, ready, prioVars, procVars, wtobjp, c_queue>>

Signalled(c) ==
  LET tp == Head(c_queue[c]) IN
  /\ c_queue[c] # <<>>
  /\ c_queue' = [c_queue EXCEPT ![c] = Tail(@)]
  /\ wtobjp' = [wtobjp EXCEPT ![tp] = None]

chCondSignal(c) ==
  /\ Calls
  /\ Signalled(c)
  /\ WakeupS(Head(c_queue[c]), p_prio)
  /\ UNCHANGED <<loopVars, prioVars, relock, mutexVars>>

chCondSignalI(c) ==
  /\ phase = "isr"
  /\ Signalled(c)
  /\ ready' = Insert(ready, p_prio, Head(c_queue[c]))
  /\ p_state' = [p_state EXCEPT ![Head(c_queue[c])] = "READY"]
  /\ UNCHANGED <<currp, phase, loopVars, prioVars, p_preempt, timed, relock, mutexVars>>

chCondBroadcast(c) ==
  /\ Calls
  /\ phase' = "cast"
  /\ cursor' = c
  /\ UNCHANGED <<currp, ready, wanted, prioVars, procVars, wtobjp,
                 condVars, mutexVars>>

BroadcastTurn ==
  /\ phase = "cast"
  /\ Signalled(cursor)
  /\ ready' = Insert(ready, p_prio, Head(c_queue[cursor]))
  /\ p_state' = [p_state EXCEPT ![Head(c_queue[cursor])] = "READY"]
  /\ UNCHANGED <<currp, phase, loopVars, prioVars, p_preempt, timed, relock, mutexVars>>

BroadcastEnd ==
  /\ phase = "cast"
  /\ c_queue[cursor] = <<>>
  /\ cursor' = None
  /\ RescheduleS(p_prio)
  /\ UNCHANGED <<wanted, prioVars, wtobjp, condVars, mutexVars>>

-----------------------------------------------------------------------------
(* Threads and interrupts.                                                   *)

(* The priorities of the threads that wait for a mutex of t. *)
Inherited(t) == {p_prio[w] : w \in {v \in Threads : /\ p_state[v] = "WTMTX"
                                                    /\ m_owner[wtobjp[v]] = t}}

(* The one use that chThdSetPriority does not cope with (MayUndercut): a     *)
(* thread whose priority is its own, but also that of a thread waiting for a *)
(* mutex of its, lowers it.                                                  *)
Undercuts(newprio) == /\ p_prio[currp] = p_realprio[currp]
                      /\ \E p \in Inherited(currp) : newprio < p

SetPriorityUnboostMutant(newprio) ==
  LET pr == [p_prio EXCEPT ![currp] = newprio] IN
  /\ Calls
  /\ Undercuts(newprio) => MayUndercut
  /\ p_prio' = pr
  /\ p_realprio' = [p_realprio EXCEPT ![currp] = newprio]
  /\ RescheduleS(pr)
  /\ UNCHANGED <<loopVars, wtobjp, condVars, mutexVars>>

chThdSetPriority(newprio) ==
  LET pr == IF p_prio[currp] = p_realprio[currp] \/ newprio > p_prio[currp]
            THEN [p_prio EXCEPT ![currp] = newprio] ELSE p_prio
  IN
  /\ Calls
  /\ Undercuts(newprio) => MayUndercut
  /\ p_prio' = pr
  /\ p_realprio' = [p_realprio EXCEPT ![currp] = newprio]
  /\ RescheduleS(pr)
  /\ UNCHANGED <<loopVars, wtobjp, condVars, mutexVars>>

(* With TIME_INFINITE there is no timer. *)
chThdSleep(timeout) ==
  /\ Calls
  /\ GoSleepS(ready, p_state, "SLEEPING", timeout)
  /\ UNCHANGED <<loopVars, prioVars, wtobjp, condVars, mutexVars>>

chThdYield ==
  /\ Calls
  /\ p_prio[Head(ready)] >= p_prio[currp]
  /\ DoRescheduleBehind
  /\ UNCHANGED <<loopVars, prioVars, wtobjp, condVars, mutexVars>>

(* The tick. *)
chSysTimerHandlerI ==
  /\ phase = "user"
  /\ phase' = "isr"
  /\ p_preempt' = [p_preempt EXCEPT ![currp] = IF @ > 0 THEN @ - 1 ELSE 0]
  /\ UNCHANGED <<currp, ready, loopVars, prioVars, p_state, timed, wtobjp,
                 condVars, mutexVars>>

WakeupReadyTooMutant(t) ==
  /\ phase = "isr"
  /\ timed[t]
  /\ timed' = [timed EXCEPT ![t] = FALSE]
  /\ wtobjp' = [wtobjp EXCEPT ![t] = None]
  /\ ready' = Insert(ready, p_prio, t)
  /\ p_state' = [p_state EXCEPT ![t] = "READY"]
  /\ \/ p_state[t] # "WTCOND" /\ UNCHANGED <<relock, c_queue>>
     \/ /\ p_state[t] = "WTCOND"
        /\ c_queue' = [c_queue EXCEPT ![wtobjp[t]] = Dequeue(@, t)]
        /\ relock' = [relock EXCEPT ![t] = None]
  /\ UNCHANGED <<currp, phase, loopVars, prioVars, p_preempt, mutexVars>>

(* A timer expires.  A thread that has been made ready meanwhile, and has    *)
(* not run yet, is left alone; one that the timeout takes off a condition    *)
(* variable does not lock its mutex again.                                   *)
wakeup(t) ==
  /\ phase = "isr"
  /\ timed[t]
  /\ timed' = [timed EXCEPT ![t] = FALSE]
  /\ \/ /\ p_state[t] = "READY"
        /\ UNCHANGED <<ready, p_state, wtobjp, relock, c_queue>>
     \/ /\ p_state[t] # "READY"
        /\ wtobjp' = [wtobjp EXCEPT ![t] = None]
        /\ ready' = Insert(ready, p_prio, t)
        /\ p_state' = [p_state EXCEPT ![t] = "READY"]
        /\ \/ p_state[t] = "SLEEPING" /\ UNCHANGED <<relock, c_queue>>
           \/ /\ p_state[t] = "WTCOND"
              /\ c_queue' = [c_queue EXCEPT ![wtobjp[t]] = Dequeue(@, t)]
              /\ relock' = [relock EXCEPT ![t] = None]
  /\ UNCHANGED <<currp, phase, loopVars, prioVars, p_preempt, mutexVars>>

(* The epilogue: chSchIsPreemptionRequired and chSchDoReschedule.            *)
IsrEpilogue ==
  LET p1 == p_prio[Head(ready)]
      p2 == p_prio[currp]
      elapsed == p_preempt[currp] = 0
      required == ready # <<>> /\ IF elapsed THEN p1 >= p2 ELSE p1 > p2
  IN
  /\ phase = "isr"
  /\ \/ required /\ elapsed /\ DoRescheduleBehind
     \/ required /\ ~elapsed /\ DoRescheduleAhead(p_prio)
     \/ ~required /\ Stay /\ UNCHANGED <<ready, p_state, p_preempt>>
  /\ UNCHANGED <<loopVars, prioVars, wtobjp, condVars, mutexVars>>

-----------------------------------------------------------------------------
(* What runs with interrupts masked or in a handler.                         *)
KernelStep ==
  \/ BoostWTMTX \/ BoostWTCOND \/ BoostREADY \/ BoostOther \/ SleepOnMutex
  \/ UnlockAllTurn \/ UnlockAllEnd
  \/ Relock \/ BroadcastTurn \/ BroadcastEnd
  \/ IsrEpilogue

ThreadCall ==
  \/ \E m \in Mutexes : chMtxLock(m) \/ chMtxTryLock(m)
  \/ chMtxUnlock \/ UnlockAllBegin
  \/ \E c \in Conds :
       \/ \E timeout \in BOOLEAN : chCondWait(c, timeout)
       \/ chCondSignal(c)
       \/ chCondBroadcast(c)
  \/ \E newprio \in Prios : chThdSetPriority(newprio)
  \/ \E timeout \in BOOLEAN : chThdSleep(timeout)
  \/ chThdYield

Interrupt == \/ chSysTimerHandlerI
             \/ \E t \in Users : wakeup(t)
             \/ \E c \in Conds : chCondSignalI(c)

Next == KernelStep \/ ThreadCall \/ Interrupt

(* The kernel's loops run on; the tick stays pending while interrupts are    *)
(* masked and is then served.  Nothing is assumed of the threads.            *)
Fairness == WF_vars(KernelStep) /\ SF_vars(chSysTimerHandlerI)

Spec == Init /\ [][Next]_vars /\ Fairness

-----------------------------------------------------------------------------
(* Every thread is in exactly the list its state says, and once: the running *)
(* thread in none, a waiter in the queue of what it waits for.               *)
Distinct(q) == \A i, j \in 1 .. Len(q) : q[i] = q[j] => i = j

Places ==
  /\ Distinct(ready)
  /\ \A m \in Mutexes : Distinct(m_queue[m])
  /\ \A c \in Conds : Distinct(c_queue[c])
  /\ \A t \in Threads :
       /\ (t = currp) <=> (p_state[t] = "CURRENT")
       /\ (t \in Members(ready)) <=> (p_state[t] = "READY")
       /\ \A m \in Mutexes :
            (t \in Members(m_queue[m])) <=> (p_state[t] = "WTMTX" /\ wtobjp[t] = m)
       /\ \A c \in Conds :
            (t \in Members(c_queue[c])) <=> (p_state[t] = "WTCOND" /\ wtobjp[t] = c)

(* The lists are in the order of the priorities, whatever raised them. *)
Sorted(q) == \A i, j \in 1 .. Len(q) : i < j => p_prio[q[i]] >= p_prio[q[j]]

ListsSorted == /\ Sorted(ready)
               /\ \A m \in Mutexes : Sorted(m_queue[m])
               /\ \A c \in Conds : Sorted(c_queue[c])

(* Whenever a thread runs with interrupts enabled, no thread that could run  *)
(* has a higher priority (chschd.h: "The running thread").                   *)
HighestRuns == phase = "user" =>
                 \A t \in Members(ready) : p_prio[t] <= p_prio[currp]

(* The two views of ownership agree: m_owner, and the stacks of the threads. *)
OwnersAgree ==
  /\ \A t \in Threads : Distinct(p_mtxlist[t])
  /\ \A m \in Mutexes, t \in Threads :
       (m_owner[m] = t) <=> (m \in Members(p_mtxlist[t]))

(* The records agree: every variable has its shape, every thread is in the    *)
(* list of its state, and a mutex and its owner know of each other.          *)
Consistent == TypeOK /\ Places /\ OwnersAgree

(* The lists are in order, and so the first of those that are ready runs.    *)
InOrder == ListsSorted /\ HighestRuns

(* Priority inheritance: between two calls, a thread has exactly its own     *)
(* priority or that of the most urgent thread waiting for a mutex of its,    *)
(* which may itself be inherited (chmtx.c:65).                               *)
InheritanceExact ==
  phase \in {"user", "isr"} =>
    \A t \in Threads : /\ p_prio[t] \in {p_realprio[t]} \cup Inherited(t)
                       /\ \A p \in {p_realprio[t]} \cup Inherited(t) : p <= p_prio[t]

(* chmtx.c:45-47 and the assertions of chMtxLockS: a thread leaves the queue *)
(* of a mutex only as its owner, with the mutex on top of its stack, and no  *)
(* waiter left behind is more urgent.                                        *)
HandOverByPriority ==
  [][\A t \in Threads :
       p_state[t] = "WTMTX" /\ p_state'[t] # "WTMTX" =>
         LET m == wtobjp[t] IN
         /\ m_owner'[m] = t
         /\ p_mtxlist'[t] # <<>> /\ Head(p_mtxlist'[t]) = m
         /\ \A w \in Members(m_queue'[m]) : p_prio[w] <= p_prio[t]]_vars

(* The kernel is never locked for ever: the loop of chMtxLockS ends even when *)
(* the threads that own what they wait for form a circle.                     *)
KernelUnlocks == []<>(phase = "user")

(* Round robin: a ready thread is not passed over for ever in favour of a     *)
(* thread of the same priority that uses up time, however often both are     *)
(* preempted in between by more urgent threads (chschd.c:365-375): what is   *)
(* left of a quantum is kept, and who has used his up goes behind.           *)
UsesTime(u) == chSysTimerHandlerI /\ currp = u

RoundRobin ==
  \A t, u \in Threads :
    <>[](p_prio[u] = p_prio[t]) /\ []<><<UsesTime(u)>>_vars => []<>(p_state[t] # "READY")

(* The mutexes keep the promise of LockService. *)
Locks == INSTANCE LockService WITH
           holder <- m_owner,
           waiting <- [t \in Threads |-> IF p_state[t] = "WTMTX" THEN wtobjp[t] ELSE None]
ImplementsLocks == Locks!Spec

=============================================================================
