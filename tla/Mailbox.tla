------------------------------- MODULE Mailbox -------------------------------
(***************************************************************************)
(* A mailbox (chmboxes.c): a ring of messages and two semaphores that      *)
(* count its empty and its full slots. A poster or a fetcher that has      *)
(* slept is made ready before it touches the ring: between the two it has  *)
(* been admitted, and whatever happens meanwhile must leave it its slot or *)
(* its message. Other semaphores are used next to those of the mailbox, by *)
(* the same threads.                                                       *)
(***************************************************************************)
EXTENDS Semaphores, FiniteSets

CONSTANTS
    Msgs,
    Size,           \* mb_top - mb_buffer
    empty, full,    \* mb_emptysem, mb_fullsem
    RacyReset       \* chMBReset also while a thread is admitted?

ASSUME MailboxAssumption ==
    /\ Size \in Nat \ {0}
    /\ None \notin Msgs
    /\ empty \in Sems /\ full \in Sems /\ empty # full
    /\ RacyReset \in BOOLEAN
    /\ IsFiniteSet(Threads)

UserSems == Sems \ {empty, full}

VARIABLES
    mb_buffer, mb_wrptr, mb_rdptr,      \* pointers as indices
    item,           \* what a thread in a post wants to store
    out             \* *msgp of the last fetch

ring == <<mb_buffer, mb_wrptr, mb_rdptr>>
vars == <<k, pc, ring, item, out>>

Slots == 0 .. Size - 1
PostCalls == {"post", "ahead"}

Init ==
    /\ SemInit([s \in Sems |-> IF s = empty THEN Size ELSE 0])
    /\ mb_buffer = [i \in Slots |-> None]
    /\ mb_wrptr = 0 /\ mb_rdptr = 0
    /\ item = [t \in Threads |-> None]
    /\ out = None

(* The ring, for chMBPostS, chMBPostAheadS and chMBFetchS and their I-class  *)
(* variants.                                                                 *)
StoreAtEnd(m) ==
    /\ mb_buffer' = [mb_buffer EXCEPT ![mb_wrptr] = m]
    /\ mb_wrptr' = IF mb_wrptr + 1 >= Size THEN 0 ELSE mb_wrptr + 1
    /\ UNCHANGED mb_rdptr

StoreAhead(m) ==
    LET rd == IF mb_rdptr - 1 < 0 THEN Size - 1 ELSE mb_rdptr - 1 IN
    /\ mb_rdptr' = rd
    /\ mb_buffer' = [mb_buffer EXCEPT ![rd] = m]
    /\ UNCHANGED mb_wrptr

Store(call, m) ==
    \/ call = "post" /\ StoreAtEnd(m)
    \/ call = "ahead" /\ StoreAhead(m)

Take1 ==
    /\ out' = mb_buffer[mb_rdptr]
    /\ mb_rdptr' = IF mb_rdptr + 1 >= Size THEN 0 ELSE mb_rdptr + 1
    /\ UNCHANGED <<mb_buffer, mb_wrptr>>

(* chMBPost and chMBPostAhead, as far as they get without sleeping.          *)
Post(t, call, m, timeout) ==
    /\ Calls(t)
    /\ \/ /\ k.s_cnt[empty] > 0
          /\ Store(call, m)
          /\ k' = SignalI(Take(k, empty), full)
          /\ UNCHANGED <<pc, item>>
       \/ /\ k.s_cnt[empty] <= 0
          /\ k' = Sleep(k, t, empty, timeout)
          /\ pc' = [pc EXCEPT ![t] = call]
          /\ item' = [item EXCEPT ![t] = m]
          /\ UNCHANGED ring
    /\ UNCHANGED out

(* Mutant: a poster stores whatever it is told. *)
PostResumeUncheckedMutant(t) ==
    /\ \E call \in PostCalls : Woken(t, call) /\ Store(call, item[t])
    /\ k' = SignalI([k EXCEPT !.timed[t] = FALSE], full)
    /\ pc' = [pc EXCEPT ![t] = "idle"]
    /\ item' = [item EXCEPT ![t] = None]
    /\ UNCHANGED out

(* The rest of them, once the thread has been made ready and runs.           *)
PostResume(t) ==
    LET j == [k EXCEPT !.timed[t] = FALSE] IN
    /\ \E call \in PostCalls :
         /\ Woken(t, call)
         /\ \/ k.rdymsg[t] = "RDY_OK" /\ Store(call, item[t]) /\ k' = SignalI(j, full)
            \/ k.rdymsg[t] # "RDY_OK" /\ k' = j /\ UNCHANGED ring
    /\ pc' = [pc EXCEPT ![t] = "idle"]
    /\ item' = [item EXCEPT ![t] = None]
    /\ UNCHANGED out

Fetch(t, timeout) ==
    /\ Calls(t)
    /\ \/ /\ k.s_cnt[full] > 0
          /\ Take1
          /\ k' = SignalI(Take(k, full), empty)
          /\ UNCHANGED pc
       \/ /\ k.s_cnt[full] <= 0
          /\ k' = Sleep(k, t, full, timeout)
          /\ pc' = [pc EXCEPT ![t] = "fetch"]
          /\ UNCHANGED <<ring, out>>
    /\ UNCHANGED item

FetchResume(t) ==
    LET j == [k EXCEPT !.timed[t] = FALSE] IN
    /\ Woken(t, "fetch")
    /\ \/ k.rdymsg[t] = "RDY_OK" /\ Take1 /\ k' = SignalI(j, empty)
       \/ k.rdymsg[t] # "RDY_OK" /\ k' = j /\ UNCHANGED <<ring, out>>
    /\ pc' = [pc EXCEPT ![t] = "idle"]
    /\ UNCHANGED item

(* The calls of handlers; without a slot or a message they change nothing.   *)
PostI(call, m) ==
    /\ k.s_cnt[empty] > 0
    /\ Store(call, m)
    /\ k' = SignalI(Take(k, empty), full)
    /\ UNCHANGED <<pc, item, out>>

FetchI ==
    /\ k.s_cnt[full] > 0
    /\ Take1
    /\ k' = SignalI(Take(k, full), empty)
    /\ UNCHANGED <<pc, item>>

(* The threads that have been given a unit of the semaphore and have yet to  *)
(* use it.                                                                   *)
Admitted(calls) ==
    {t \in Threads : /\ pc[t] \in calls
                     /\ k.wtobjp[t] = None
                     /\ k.rdymsg[t] = "RDY_OK"}

(* Mutant: the slots are not given back. *)
ResetOneSemMutant ==
    /\ RacyReset \/ Admitted(PostCalls \cup {"fetch"}) = {}
    /\ mb_wrptr' = 0 /\ mb_rdptr' = 0
    /\ k' = ResetI(k, full, 0)
    /\ UNCHANGED <<pc, mb_buffer, item, out>>

(* With an admitted thread the reset breaks the mailbox: see RacyReset.      *)
chMBReset ==
    /\ RacyReset \/ Admitted(PostCalls \cup {"fetch"}) = {}
    /\ mb_wrptr' = 0 /\ mb_rdptr' = 0
    /\ k' = ResetI(ResetI(k, empty, Size), full, 0)
    /\ UNCHANGED <<pc, mb_buffer, item, out>>

-----------------------------------------------------------------------------
PostCall == \E t \in Threads, call \in PostCalls, m \in Msgs, timeout \in BOOLEAN :
              Post(t, call, m, timeout)
FetchCall == \E t \in Threads, timeout \in BOOLEAN : Fetch(t, timeout)
Handler == (\E call \in PostCalls, m \in Msgs : PostI(call, m)) \/ FetchI
Resume == \E t \in Threads : PostResume(t) \/ FetchResume(t)

SemStep ==
    /\ \/ \E s \in UserSems : SemCall(s)
       \/ \E t \in Threads, sps, spw \in UserSems : chSemSignalWait(t, sps, spw)
       \/ \E t \in Threads : WaitReturn(t) \/ wakeup(t)
    /\ UNCHANGED <<ring, item, out>>

Next == PostCall \/ FetchCall \/ Handler \/ Resume \/ chMBReset \/ SemStep

Spec == Init /\ [][Next]_vars

-----------------------------------------------------------------------------
(* The shape of every variable, and semaphores that agree with their queues. *)
Consistent ==
    /\ SemTypeOK /\ SemaphoresConsistent
    /\ pc \in [Threads -> {"idle", "wait", "fetch"} \cup PostCalls]
    /\ mb_buffer \in [Slots -> Msgs \cup {None}]
    /\ mb_wrptr \in Slots /\ mb_rdptr \in Slots
    /\ item \in [Threads -> Msgs \cup {None}]
    /\ out \in Msgs \cup {None}

(* The messages the mailbox holds: those that are free to take, and those    *)
(* that a fetcher has been admitted for.                                     *)
Stored == Pos(k.s_cnt[full]) + Cardinality(Admitted({"fetch"}))

(* chmboxes.c:104: a poster "waits until a empty slot in the mailbox becomes *)
(* available". Whoever has been told that there is one finds it empty when   *)
(* it runs, whatever others have posted, fetched or given up meanwhile.      *)
SlotForEveryPoster == Stored + Cardinality(Admitted(PostCalls)) <= Size

(* No slot gets lost either: a slot is counted as empty, holds a message or  *)
(* is kept for a poster.                                                     *)
NoSlotLost ==
    Pos(k.s_cnt[empty]) + Stored + Cardinality(Admitted(PostCalls)) = Size

(* A thread that waits for a slot without a timeout gets its turn if          *)
(* messages go on being fetched, whoever else posts, ahead or not, and       *)
(* however many others give up.                                              *)
Posting(t) == k.wtobjp[t] = empty
PosterServed ==
    []<><<Stored' < Stored>>_vars => \A t \in Threads : ~<>[]Posting(t)

(* Nobody is passed over: by a later waiter, or for ever.                     *)
NobodyPassedOver == ServedInOrder /\ PosterServed

(* The mailbox is the bounded queue of MailboxService: nothing is lost, read *)
(* twice or overwritten, and the order is kept.                              *)
Queue == INSTANCE MailboxService WITH
           box <- [i \in 1..Stored |-> mb_buffer[(mb_rdptr + i - 1) % Size]]
ImplementsQueue == Queue!Spec

=============================================================================
