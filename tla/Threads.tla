------------------------------ MODULE Threads ------------------------------
(***************************************************************************)
(* Lifetimes of threads: creation in static memory, from the heap and from *)
(* a memory pool, exit, chThdWait, reference counting and the registry     *)
(* (chthreads.c, chdynamic.c, chregistry.c, chmempools.c), composed with   *)
(* the heap the memory comes from, and, on their own, the heap under       *)
(* plain calls and the messages between threads.                           *)
(*                                                                         *)
(* A thread is known by its memory, <<"heap", address>>, <<"pool", n>> or  *)
(* <<"static", n>>, as it is to the code: a thread made where another has  *)
(* been freed is that other to a pointer left over. Calls are cut into     *)
(* steps where they leave the lock zone. Threads run in any order, the     *)
(* interleavings of every choice of priorities.                            *)
(*                                                                         *)
(* chThdRelease goes on outside the lock zone, where two things can happen *)
(* that it does not survive. Races says which of them a behaviour may      *)
(* have: a walk of the registry that takes a reference to the thread       *)
(* ("walk"), or another change of the registry in its midst ("unlink").    *)
(***************************************************************************)
EXTENDS Heap, Messages

CONSTANTS
    Statics,    \* static working areas besides that of main
    PoolSize,   \* objects in the memory pool
    ThreadCore, \* units of core memory where threads are made of it
    Area,       \* units in a working area on the heap
    Uses,       \* what a behaviour shows, of {"heap", "threads", "messages"}
    Races       \* what may come between the steps of chThdRelease

ASSUME ThreadsAssumption ==
    /\ Statics \in Nat /\ PoolSize \in Nat
    /\ ThreadCore \in 1..CoreSize /\ Area \in Nat
    /\ Uses \subseteq {"heap", "threads", "messages"}
    /\ Races \subseteq {"walk", "unlink"}

VARIABLES
    pool,       \* the free objects of the memory pool, mp_next first
    th,         \* the Thread objects: p_state, p_refs, p_waiting
    registry,   \* p_newer and p_older of each thread, r_newer and r_older
    held,       \* who holds a reference to whom, as its own or in a walk
    job,        \* where each thread is in a call
    use

vars == <<heap, msgqueue, mstate, pool, th, registry, held, job, use>>

Main == <<"static", 0>>

ThreadIds ==
    ({"heap"} \X (0..ThreadCore - 1)) \cup ({"pool"} \X (1..PoolSize))
      \cup ({"static"} \X (0..Statics))

Dynamic(x) == x[1] # "static"

\* What the links of the registry point to: the threads, and rlist.
RList == <<"rlist", 0>>

Links == ThreadIds \cup {RList}

\* Bounds: only the threads in static memory call anything but chThdExit, only
\* main walks the registry, and references are added to dynamic threads only.
Callers == {x \in ThreadIds : ~ Dynamic(x)}
Walker == Main

NoThread == [state |-> "NONE", refs |-> 0, waiting |-> {}]

Idle == [at |-> "idle", x |-> Main, n |-> 0]

At(w, x) == [at |-> w, x |-> x, n |-> 0]

Init ==
    /\ use \in Uses
    /\ \E provided \in BOOLEAN :
         /\ use # "heap" => provided
         /\ HeapInit(IF use = "threads" THEN ThreadCore ELSE CoreSize, provided)
    /\ MsgInit
    /\ pool = [i \in 1..PoolSize |-> <<"pool", i>>]       \* chPoolLoadArray
    /\ th = [x \in ThreadIds |-> IF x = Main THEN [NoThread EXCEPT !.state = "LIVE", !.refs = 1]
                                 ELSE NoThread]
    /\ registry = [x \in Links |-> IF x = RList THEN [newer |-> Main, older |-> Main]
                                  ELSE [newer |-> RList, older |-> RList]]
    /\ held = {<<Main, Main, "own">>}
    /\ job = [x \in ThreadIds |-> Idle]

Free(t) == th[t].state = "LIVE" /\ job[t] = Idle

\* A thread whose last reference has been given up, until its memory is free.
Releasing(x) ==
    \E u \in ThreadIds :
      job[u].at \in {"released", "unlinking", "relinking", "freeing"} /\ job[u].x = x

\* Nobody is in REG_REMOVE outside a lock zone.
Undisturbed == \A u \in ThreadIds : job[u].at \notin {"unlinking", "relinking"}

\* A walk of the registry from rlist comes to x.
Registered(x) ==
    \A S \in SUBSET Links : RList \in S /\ (\A y \in S : registry[y].newer \in S) => x \in S

\* REG_INSERT: the thread becomes the newest.
Inserted(x) ==
    [registry EXCEPT ![x] = [newer |-> RList, older |-> registry[RList].older],
                     ![registry[RList].older].newer = x, ![RList].older = x]

\* REG_REMOVE, one statement and the other.
Unlinked(x) == [registry EXCEPT ![registry[x].older].newer = registry[x].newer]

Relinked(r, x) == [r EXCEPT ![r[x].newer].older = r[x].older]

-----------------------------------------------------------------------------
(***************************************************************************)
(* Creation. _thread_init sets one reference, the creator's, and inserts   *)
(* the thread in the registry; it runs at once.                            *)
(***************************************************************************)
\* chThdCreateI and chSchWakeupS in one lock zone.
Start(t, x) ==
    /\ "unlink" \notin Races => Undisturbed
    /\ th' = [th EXCEPT ![x] = [state |-> "LIVE", refs |-> 1, waiting |-> {}]]
    /\ registry' = Inserted(x)
    /\ held' = held \cup {<<t, x, "own">>}
    /\ job' = [job EXCEPT ![t] = Idle]

\* A working area is used again only when nobody refers to its last thread.
chThdCreateStatic(t, x) ==
    /\ Free(t) /\ ~ Dynamic(x)
    /\ th[x].state \in {"NONE", "FINAL"} /\ th[x].refs = 0 /\ ~ Releasing(x)
    /\ Start(t, x)
    /\ UNCHANGED <<heap, pool>>

\* chThdCreateFromHeap: chHeapAlloc finds a block or turns to the provider.
CreateFromHeap(t) ==
    /\ Free(t)
    /\ \/ \E a \in 0..heap.end - 1 :
            FindBlock(Area, a) /\ job' = [job EXCEPT ![t] = At("made", <<"heap", a>>)]
       \/ /\ Fits(Area) = {}
          /\ job' = [job EXCEPT ![t] = [Idle EXCEPT !.at = "asking", !.n = Area]]
          /\ UNCHANGED heap
    /\ UNCHANGED <<pool, th, registry, held>>

\* The provider's answer, after the heap's mutex has been released.
AskCore(t) ==
    /\ job[t].at = "asking"
    /\ \/ \E a \in 0..heap.end - 1 :
            /\ CoreBlock(job[t].n, a)
            /\ job' = [job EXCEPT ![t] = IF use = "heap" THEN Idle ELSE At("made", <<"heap", a>>)]
       \/ CoreFull(job[t].n) /\ job' = [job EXCEPT ![t] = Idle] /\ UNCHANGED heap
    /\ UNCHANGED <<pool, th, registry, held>>

\* chThdCreateFromMemoryPool, up to the object; no object, no thread.
CreateFromPool(t) ==
    /\ Free(t) /\ pool # <<>>
    /\ pool' = Tail(pool)                                   \* chPoolAllocI
    /\ job' = [job EXCEPT ![t] = At("made", Head(pool))]
    /\ UNCHANGED <<heap, th, registry, held>>

StartMade(t) ==
    /\ job[t].at = "made"
    /\ Start(t, job[t].x)
    /\ UNCHANGED <<heap, pool>>

-----------------------------------------------------------------------------
(***************************************************************************)
(* References.                                                             *)
(***************************************************************************)
\* chThdAddRef, for another thread to keep.
chThdAddRef(t, u, x) ==
    /\ Free(t) /\ <<t, x, "own">> \in held
    /\ Dynamic(x) /\ u \in Callers /\ th[u].state = "LIVE" /\ <<u, x, "own">> \notin held
    /\ th' = [th EXCEPT ![x].refs = @ + 1]
    /\ held' = held \cup {<<u, x, "own">>}
    /\ UNCHANGED <<heap, pool, registry, job>>

\* chThdRelease, its lock zone: a reference less. The local refs is 0 if the
\* call goes on.
Drop(t, x, kind) ==
    /\ th' = [th EXCEPT ![x].refs = @ - 1]
    /\ held' = held \ {<<t, x, kind>>}
    /\ job' = [job EXCEPT ![t] = IF th[x].refs = 1 THEN At("released", x) ELSE Idle]

chThdRelease(t, x, kind) ==
    /\ Free(t) /\ <<t, x, kind>> \in held
    /\ Drop(t, x, kind)
    /\ UNCHANGED <<heap, pool, registry>>

\* Mutant: the memory of a thread that still runs is given back too.
ReleasedWhileLive(t) ==
    /\ job[t].at = "released"
    /\ job' = [job EXCEPT ![t] = IF Dynamic(job[t].x) THEN At("unlinking", job[t].x) ELSE Idle]
    /\ UNCHANGED <<heap, pool, th, registry, held>>

\* The rest, outside the lock zone: p_state and the memory mode are looked at,
Released(t) ==
    /\ job[t].at = "released"
    /\ LET x == job[t].x
           gone == th[x].state = "FINAL" /\ Dynamic(x)
       IN  /\ gone /\ "unlink" \notin Races => Undisturbed
           /\ job' = [job EXCEPT ![t] = IF gone THEN At("unlinking", x) ELSE Idle]
    /\ UNCHANGED <<heap, pool, th, registry, held>>

\* REG_REMOVE in two steps,
Unlink(t) ==
    /\ job[t].at = "unlinking"
    /\ registry' = Unlinked(job[t].x)
    /\ job' = [job EXCEPT ![t].at = "relinking"]
    /\ UNCHANGED <<heap, pool, th, held>>

\* Mutant: the newer thread still points back to the one that is gone.
RelinkForgotten(t) ==
    /\ job[t].at = "relinking"
    /\ job' = [job EXCEPT ![t].at = "freeing"]
    /\ UNCHANGED <<heap, pool, th, registry, held>>

Relink(t) ==
    /\ job[t].at = "relinking"
    /\ registry' = Relinked(registry, job[t].x)
    /\ job' = [job EXCEPT ![t].at = "freeing"]
    /\ UNCHANGED <<heap, pool, th, held>>

\* and chHeapFree or chPoolFree.
FreeMemory(t) ==
    /\ job[t].at = "freeing"
    /\ LET x == job[t].x
       IN  /\ IF x[1] = "heap" THEN HeapFree(BlockAt(x[2])) /\ UNCHANGED pool
              ELSE pool' = <<x>> \o pool /\ UNCHANGED heap
           /\ th' = [th EXCEPT ![x] = NoThread]
    /\ job' = [job EXCEPT ![t] = Idle]
    /\ UNCHANGED <<registry, held>>

-----------------------------------------------------------------------------
(***************************************************************************)
(* Exit and wait.                                                          *)
(***************************************************************************)
\* Mutant: only one of the waiting threads is made ready.
ExitWakesOne(t) ==
    /\ Free(t) /\ t # Main
    /\ \A h \in held : h[1] # t
    /\ LET first == IF th[t].waiting = {} THEN {} ELSE {CHOOSE u \in th[t].waiting : TRUE}
       IN  th' = [x \in ThreadIds |->
             IF x = t THEN [th[t] EXCEPT !.state = "FINAL", !.waiting = {}]
             ELSE IF x \in first THEN [th[x] EXCEPT !.state = "LIVE"] ELSE th[x]]
    /\ ~ Dynamic(t) /\ "unlink" \notin Races => Undisturbed
    /\ registry' = IF Dynamic(t) THEN registry ELSE Relinked(Unlinked(t), t)
    /\ UNCHANGED <<heap, pool, held, job>>

\* chThdExitS. A thread gives up its references before (its own duty). Static
\* threads leave the registry now, the others when they are freed.
chThdExit(t) ==
    /\ Free(t) /\ t # Main
    /\ \A h \in held : h[1] # t
    /\ th' = [x \in ThreadIds |->
         IF x = t THEN [th[t] EXCEPT !.state = "FINAL", !.waiting = {}]
         ELSE IF x \in th[t].waiting THEN [th[x] EXCEPT !.state = "LIVE"] ELSE th[x]]
    /\ ~ Dynamic(t) /\ "unlink" \notin Races => Undisturbed
    /\ registry' = IF Dynamic(t) THEN registry ELSE Relinked(Unlinked(t), t)
    /\ UNCHANGED <<heap, pool, held, job>>

\* chThdWait, its lock zone up to chSchGoSleepS.
chThdWait(t, x) ==
    /\ Free(t) /\ <<t, x, "own">> \in held /\ x # t
    /\ job' = [job EXCEPT ![t] = At("waiting", x)]
    /\ th' = IF th[x].state = "FINAL" THEN th
             ELSE [th EXCEPT ![x].waiting = @ \cup {t}, ![t].state = "WTEXIT"]
    /\ UNCHANGED <<heap, pool, registry, held>>

\* It has the exit code and releases the thread.
WaitEnds(t) ==
    /\ job[t].at = "waiting" /\ th[t].state = "LIVE"
    /\ Drop(t, job[t].x, "own")
    /\ UNCHANGED <<heap, pool, registry>>

-----------------------------------------------------------------------------
(***************************************************************************)
(* Walks of the registry. A walker takes a reference to the thread it is   *)
(* at. The links of a thread that has left the registry still lead where   *)
(* they led.                                                               *)
(***************************************************************************)
Walks(t) == \E x \in ThreadIds : <<t, x, "walk">> \in held

\* Whatever is there, the walker counts one reference more to it.
Visit(t, x) ==
    /\ "walk" \notin Races => Registered(x) /\ ~ Releasing(x)
    /\ th' = [th EXCEPT ![x].refs = @ + 1]
    /\ held' = held \cup {<<t, x, "walk">>}

chRegFirstThread(t) ==
    /\ t = Walker /\ Free(t) /\ ~ Walks(t)
    /\ Visit(t, registry[RList].newer)
    /\ UNCHANGED <<heap, pool, registry, job>>

\* chRegNextThread, its lock zone: a reference to the thread after x, if any.
chRegNextThread(t, x) ==
    /\ Free(t) /\ <<t, x, "walk">> \in held
    /\ LET ntp == registry[x].newer
       IN  IF ntp = RList THEN UNCHANGED <<held, th>> ELSE Visit(t, ntp)
    /\ job' = [job EXCEPT ![t] = At("leaving", x)]
    /\ UNCHANGED <<heap, pool, registry>>

\* Then it releases x.
NextReleases(t) ==
    /\ job[t].at = "leaving"
    /\ Drop(t, job[t].x, "walk")
    /\ UNCHANGED <<heap, pool, registry>>

-----------------------------------------------------------------------------
Alone == UNCHANGED <<msgqueue, mstate, use>>

\* What a thread does when it goes on in a call it has begun.
GoesOn(t) ==
    /\ use = "threads" /\ Alone
    /\ \/ AskCore(t) \/ StartMade(t) \/ Released(t) \/ Unlink(t) \/ Relink(t)
       \/ FreeMemory(t) \/ WaitEnds(t) \/ NextReleases(t)

\* Calls it makes. The reference main has to itself stays.
Calls(t) ==
    /\ use = "threads" /\ Alone
    /\ \/ chThdExit(t)
       \/ /\ t \in Callers
          /\ \/ CreateFromHeap(t) \/ CreateFromPool(t) \/ chRegFirstThread(t)
             \/ \E x \in ThreadIds :
                  \/ chThdCreateStatic(t, x) \/ chThdWait(t, x) \/ chRegNextThread(t, x)
                  \/ \E u \in ThreadIds : chThdAddRef(t, u, x)
                  \/ chThdRelease(t, x, "walk")
                  \/ <<t, x>> # <<Main, Main>> /\ chThdRelease(t, x, "own")

\* The heap on its own: blocks of any size asked for and given back by the main
\* thread and one that preempts it between the heap and the core.
HeapCalls(t) ==
    /\ use = "heap" /\ Alone
    /\ UNCHANGED <<pool, th, registry, held>>
    /\ \/ AskCore(t)
       \/ /\ job[t] = Idle
          /\ \/ \E n \in 0..MaxRequest :
                  \/ \E a \in 0..heap.end - 1 : FindBlock(n, a) /\ UNCHANGED job
                  \/ /\ Fits(n) = {} /\ heap.next < heap.end
                     /\ job' = [job EXCEPT ![t] = [Idle EXCEPT !.at = "asking", !.n = n]]
                     /\ UNCHANGED heap
             \/ \E b \in heap.used : HeapFree(b) /\ UNCHANGED job

Sends(c) ==
    /\ use = "messages"
    /\ \E s \in Servers : chMsgSend(c, s)
    /\ UNCHANGED <<heap, pool, th, registry, held, job, use>>

\* A server that owes answers gives them before it sleeps (its own duty).
Serves(s) ==
    /\ use = "messages"
    /\ msgqueue[s] # <<>> \/ \A c \in Clients : mstate[c] # "SNDMSG"
    /\ chMsgWait(s) \/ chMsgWaitWoken(s)
    /\ UNCHANGED <<heap, pool, th, registry, held, job, use>>

Answers(s, c) ==
    /\ use = "messages"
    /\ chMsgRelease(s, c)
    /\ UNCHANGED <<heap, pool, th, registry, held, job, use>>

Next ==
    \/ \E t \in ThreadIds : GoesOn(t) \/ Calls(t)
    \/ \E t \in Callers : HeapCalls(t)
    \/ \E c \in Clients : Sends(c)
    \/ \E s \in Servers : Serves(s) \/ \E c \in Clients : Answers(s, c)

Spec == Init /\ [][Next]_vars

\* Threads that are ready get to run; servers take messages and answer them.
FairSpec ==
    /\ Spec
    /\ \A t \in Callers : WF_vars(GoesOn(t))
    /\ \A s \in Servers : SF_vars(Serves(s)) /\ \A c \in Clients : SF_vars(Answers(s, c))

-----------------------------------------------------------------------------
TypeOK ==
    /\ use \in Uses
    /\ HeapTypeOK
    /\ \A i \in DOMAIN pool : pool[i] \in {"pool"} \X (1..PoolSize)
    /\ th \in [ThreadIds -> [state : {"NONE", "LIVE", "WTEXIT", "FINAL"},
                             refs : Nat, waiting : SUBSET ThreadIds]]
    /\ registry \in [Links -> [newer : Links, older : Links]]
    /\ held \subseteq (ThreadIds \X ThreadIds \X {"own", "walk"})
    /\ job \in [ThreadIds -> [at : {"idle", "asking", "made", "released", "unlinking", "relinking",
                                    "freeing", "waiting", "leaving"},
                              x : ThreadIds, n : 0..Area + MaxRequest]]
    /\ msgqueue \in [Servers -> Seq(Clients)]
    /\ mstate \in [Peers -> {"READY", "WTMSG", "SNDMSGQ", "SNDMSG", "woken"}]

\* Memory that has been handed out and not been given back.
Taken == {<<"heap", b.at>> : b \in heap.used} \cup
           (({"pool"} \X (1..PoolSize)) \ Range(pool))

\* The memory of a thread is given back once, after the thread is over, and not while
\* somebody has a reference to it (chdynamic.c counts under the lock and looks at
\* p_state after it). It takes that no walk comes to a thread being released ("walk"
\* not in Races), whatever chregistry.c:108-109 says of a walk's reference.
ReferenceKeepsThread ==
    /\ \A h \in held : Dynamic(h[2]) => h[2] \in Taken
    /\ \A x \in ThreadIds : Dynamic(x) /\ th[x].state # "NONE" => x \in Taken
    /\ \A t \in Callers :
         job[t].at \in {"unlinking", "relinking", "freeing"} => th[job[t].x].state = "FINAL"
    /\ \A t \in Callers : job[t].at = "freeing" =>
         /\ job[t].x \in Taken
         /\ \A u \in Callers \ {t} : job[u].x = job[t].x =>
              job[u].at \notin {"released", "unlinking", "relinking", "freeing"}

\* Memory a thread was made of can always be got back: the thread is in the registry,
\* where a walk finds it when nobody refers to it, or some call has it in hand
\* (chThdExitS takes only static threads out).
NothingLeaks ==
    use = "threads" =>
      \A x \in Taken : Registered(x) \/ \E t \in ThreadIds :
          job[t].at \in {"made", "relinking", "freeing"} /\ job[t].x = x

\* "A double linked list that holds all the active threads in the system"
\* (chregistry.c:36-37): a walk from rlist comes to every thread that has begun and not
\* ended, whatever was put in and taken out before and between the two statements of
\* REG_REMOVE. It takes that nobody changes the registry there ("unlink" not in Races).
RegistryHoldsActive ==
    use = "threads" =>
      \A x \in ThreadIds : th[x].state \in {"LIVE", "WTEXIT"} => Registered(x)

\* No memory is lost, counted twice or left to nobody, whatever steps interleave; and
\* the shape of every variable.
MemoryWhole == TypeOK /\ HeapExact /\ NothingLeaks

\* chThdWait returns once the thread it waits for has ended, to every waiter.
WaitReturns ==
    \A t \in Callers :
      (job[t].at = "waiting" /\ th[job[t].x].state = "FINAL") ~> job[t].at # "waiting"

\* Every message is answered, also when others keep sending to the same server
\* (chMsgSend queues at the tail; CH_USE_MESSAGES_PRIORITY is FALSE).
SenderAnswered == \A c \in Clients : mstate[c] = "SNDMSGQ" ~> mstate[c] = "READY"

\* Nobody who sleeps for another thread is forgotten when that thread does its part.
SleepersWoken == WaitReturns /\ SenderAnswered

=============================================================================
