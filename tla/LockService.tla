---------------------------- MODULE LockService ----------------------------
(***************************************************************************)
(* What the mutexes of the kernel promise the threads that use them: a     *)
(* lock has at most one holder, a thread that finds it taken waits, a      *)
(* holder that lets go hands the lock straight to one of the waiters and   *)
(* only a lock nobody waits for becomes free.  Which waiter is chosen is   *)
(* the subject of HandOverByPriority of KernelMutex.                       *)
(***************************************************************************)
CONSTANTS Threads, Mutexes, None

VARIABLES holder,   \* the thread that has the lock, or None
          waiting   \* the lock a thread waits for, or None

vars == <<holder, waiting>>

TypeOK == /\ holder \in [Mutexes -> Threads \cup {None}]
          /\ waiting \in [Threads -> Mutexes \cup {None}]

Init == /\ holder = [m \in Mutexes |-> None]
        /\ waiting = [t \in Threads |-> None]

Take(t, m) == /\ waiting[t] = None
              /\ holder[m] = None
              /\ holder' = [holder EXCEPT ![m] = t]
              /\ UNCHANGED waiting

Wait(t, m) == /\ waiting[t] = None
              /\ holder[m] # None
              /\ waiting' = [waiting EXCEPT ![t] = m]
              /\ UNCHANGED holder

Free(t, m) == /\ waiting[t] = None
              /\ holder[m] = t
              /\ \A u \in Threads : waiting[u] # m
              /\ holder' = [holder EXCEPT ![m] = None]
              /\ UNCHANGED waiting

HandOver(t, m) == /\ waiting[t] = None
                  /\ holder[m] = t
                  /\ \E u \in Threads :
                       /\ waiting[u] = m
                       /\ holder' = [holder EXCEPT ![m] = u]
                       /\ waiting' = [waiting EXCEPT ![u] = None]

Next == \E t \in Threads, m \in Mutexes :
          Take(t, m) \/ Wait(t, m) \/ Free(t, m) \/ HandOver(t, m)

Spec == Init /\ [][Next]_vars

=============================================================================
