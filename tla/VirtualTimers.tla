---------------------------- MODULE VirtualTimers ----------------------------
(***************************************************************************)
(* The virtual timers (chvt.c, chvt.h): a list of the armed timers in      *)
(* which each keeps the ticks between its predecessor's expiry and its     *)
(* own, so that a tick only counts down the first. The handler of the tick *)
(* lets go of the lock around every callback, and there the list may       *)
(* change. A thread that works in periods, with chThdSleepUntil            *)
(* (chthreads.c), is one of the users. systime_t wraps around.             *)
(***************************************************************************)
EXTENDS Integers, Sequences, SequencesExt

CONSTANTS
    Timers,
    Sleeper,    \* the timer of the periodic thread's sleep
    Range32,    \* number of values of systime_t, 2^32 in the code
    Period,     \* of the periodic thread
    Work        \* how many ticks its work may take

ASSUME TimersAssumption ==
    /\ Sleeper \in Timers
    /\ Range32 \in Nat /\ Period \in Nat \ {0} /\ Work \in Nat
    /\ Period < Range32
    /\ Work <= Period

VARIABLES
    vt_list,        \* the timers from vtlist.vt_next on
    vt_time,        \* of each timer, the ticks after its predecessor
    armed,          \* vt_func # NULL
    vt_systime,
    phase,          \* "thread": no handler runs; "tick": the handler has the
                    \* lock; "callback": it has released it
    time,           \* the periodic thread: its next deadline
    turn            \* and whether it works or sleeps

periodic == <<time, turn>>
vars == <<vt_list, vt_time, armed, vt_systime, phase, periodic>>

Times == 0 .. Range32 - 1
Minus(a, b) == (a - b) % Range32            \* unsigned subtraction

Init ==
    /\ vt_list = <<>>
    /\ vt_time = [v \in Timers |-> 0]
    /\ armed = [v \in Timers |-> FALSE]
    /\ vt_systime = 0
    /\ phase = "thread"
    /\ time = 0 /\ turn = "work"

-----------------------------------------------------------------------------
(* When the i-th timer of the list expires, in ticks from now.               *)
Sums(list, ticks) ==
    LET sum[i \in 0..Len(list)] ==
          IF i = 0 THEN 0 ELSE sum[i - 1] + ticks[list[i]]
    IN  sum

ExpiryOf(i) == Sums(vt_list, vt_time)[i]

\* chVTSetI: behind the timers that expire earlier and before all others.
chVTSetI(v, n) ==
    LET later == {i \in 1..Len(vt_list) : n <= ExpiryOf(i)}
        at == IF later = {} THEN Len(vt_list) + 1
              ELSE CHOOSE i \in later : \A j \in later : i <= j
        rest == n - ExpiryOf(at - 1)
    IN  /\ vt_list' = InsertAt(vt_list, at, v)
        /\ vt_time' = [u \in Timers |-> IF u = v THEN rest
                                        ELSE IF later # {} /\ u = vt_list[at]
                                          THEN Minus(vt_time[u], rest)
                                          ELSE vt_time[u]]
        /\ armed' = [armed EXCEPT ![v] = TRUE]

\* Mutant: the ticks of the timer that is taken out are lost.
ResetLosesTicksMutant(v) ==
    LET at == CHOOSE i \in 1..Len(vt_list) : vt_list[i] = v IN
    /\ armed[v]
    /\ vt_list' = RemoveAt(vt_list, at)
    /\ armed' = [armed EXCEPT ![v] = FALSE]
    /\ UNCHANGED vt_time

\* chVTResetI of a timer that is armed.
chVTResetI(v) ==
    LET at == CHOOSE i \in 1..Len(vt_list) : vt_list[i] = v IN
    /\ armed[v]
    /\ vt_list' = RemoveAt(vt_list, at)
    /\ vt_time' = IF at = Len(vt_list) THEN vt_time
                  ELSE [vt_time EXCEPT ![vt_list[at + 1]] = @ + vt_time[v]]
    /\ armed' = [armed EXCEPT ![v] = FALSE]

\* Threads, callbacks and other handlers set timers that are not armed and
\* reset such as are (chVTReset asks chVTIsArmedI first).
Unlocked == phase \in {"thread", "callback"}

Use(v) ==
    /\ Unlocked
    /\ v # Sleeper
    /\ \/ ~ armed[v] /\ \E n \in Times \ {0} : chVTSetI(v, n)
       \/ chVTResetI(v)
    /\ UNCHANGED <<vt_systime, phase, periodic>>

-----------------------------------------------------------------------------
\* The periodic thread is back in time for its next deadline.
InTime == turn = "work" => Minus(vt_systime, time) < Work

\* Mutant: the system time does not wrap around.
TickUnwrappedMutant ==
    /\ phase = "thread" /\ InTime
    /\ vt_systime' = vt_systime + 1
    /\ vt_time' = IF vt_list = <<>> THEN vt_time
                  ELSE [vt_time EXCEPT ![Head(vt_list)] = Minus(@, 1)]
    /\ phase' = IF vt_list = <<>> THEN "thread" ELSE "tick"
    /\ UNCHANGED <<vt_list, armed, periodic>>

\* chVTDoTickI, up to its loop.
Tick ==
    /\ phase = "thread" /\ InTime
    /\ vt_systime' = (vt_systime + 1) % Range32
    /\ vt_time' = IF vt_list = <<>> THEN vt_time
                  ELSE [vt_time EXCEPT ![Head(vt_list)] = Minus(@, 1)]
    /\ phase' = IF vt_list = <<>> THEN "thread" ELSE "tick"
    /\ UNCHANGED <<vt_list, armed, periodic>>

\* Its loop: the first timer of the list is due and is taken out; the lock is
\* released for its callback. That of the sleep makes its thread ready.
Expire ==
    /\ phase = "tick" /\ vt_list # <<>>
    /\ vt_time[Head(vt_list)] = 0
    /\ vt_list' = Tail(vt_list)
    /\ armed' = [armed EXCEPT ![Head(vt_list)] = FALSE]
    /\ phase' = "callback"
    /\ turn' = IF Head(vt_list) = Sleeper THEN "work" ELSE turn
    /\ UNCHANGED <<vt_time, vt_systime, time>>

\* Mutant: one timer is served in a tick.
CallbackLastMutant ==
    /\ phase = "callback"
    /\ phase' = "thread"
    /\ UNCHANGED <<vt_list, vt_time, armed, vt_systime, periodic>>

CallbackReturn ==
    /\ phase = "callback"
    /\ phase' = "tick"
    /\ UNCHANGED <<vt_list, vt_time, armed, vt_systime, periodic>>

TickEnd ==
    /\ phase = "tick"
    /\ vt_list # <<>> => vt_time[Head(vt_list)] # 0
    /\ phase' = "thread"
    /\ UNCHANGED <<vt_list, vt_time, armed, vt_systime, periodic>>

\* Mutant: the thread sleeps for a whole period.
SleepUntilWholeMutant ==
    LET next == (time + Period) % Range32 IN
    /\ phase = "thread" /\ turn = "work"
    /\ time' = next
    /\ chVTSetI(Sleeper, Period) /\ turn' = "sleep"
    /\ UNCHANGED <<vt_systime, phase>>

\* A turn of the periodic thread ends: time += Period, chThdSleepUntil(time).
chThdSleepUntil ==
    LET next == (time + Period) % Range32
        n == Minus(next, vt_systime)
    IN
    /\ phase = "thread" /\ turn = "work"
    /\ time' = next
    /\ \/ n > 0 /\ chVTSetI(Sleeper, n) /\ turn' = "sleep"
       \/ n = 0 /\ UNCHANGED <<vt_list, vt_time, armed, turn>>
    /\ UNCHANGED <<vt_systime, phase>>

Next == \/ \E v \in Timers : Use(v)
        \/ Tick \/ Expire \/ CallbackReturn \/ TickEnd
        \/ chThdSleepUntil

(* Ticks come, their handler runs to its end, and the periodic thread gets to *)
(* the end of its work.                                                      *)
Fairness == /\ SF_vars(Tick)
            /\ WF_vars(Expire \/ CallbackReturn \/ TickEnd)
            /\ SF_vars(chThdSleepUntil)

Spec == Init /\ [][Next]_vars /\ Fairness

-----------------------------------------------------------------------------
\* The shape of every variable; a timer that is set is in the list, once.
Consistent ==
    /\ \A v \in Timers : armed[v] <=> v \in Range(vt_list)
    /\ IsInjective(vt_list)
    /\ vt_list \in Seq(Timers)
    /\ vt_time \in [Timers -> Times]
    /\ armed \in [Timers -> BOOLEAN]
    /\ vt_systime \in Times
    /\ phase \in {"thread", "tick", "callback"}
    /\ time \in Times /\ turn \in {"work", "sleep"}

\* The ticks that a timer has to go.
Left(v) ==
    IF armed[v] THEN ExpiryOf(CHOOSE i \in 1..Len(vt_list) : vt_list[i] = v) ELSE -1

\* The list keeps the promise of TimerService.
Service == INSTANCE TimerService WITH
             MaxTime <- Range32 - 1,
             left <- [v \in Timers |-> Left(v)]
ImplementsTimers == Service!Spec

\* chthreads.c:302: the thread sleeps "until the system time arrives to the
\* specified value": for no longer than a period, and exactly up to its
\* deadline, also when the system time wraps around in between. A thread whose
\* work takes longer than its period misses a deadline, and then the unsigned
\* difference of chThdSleepUntil is almost the whole range of systime_t.
DeadlineKept ==
    turn = "sleep" => /\ Left(Sleeper) <= Period
                      /\ Left(Sleeper) = Minus(time, vt_systime)

\* A timer that is set expires or is reset, however often others are set ahead
\* of it.
TimerEnds == \A v \in Timers : armed[v] ~> ~ armed[v]

\* chTimeIsWithin, in a handler or a thread.
chTimeIsWithin(start, end) == Minus(vt_systime, start) < Minus(end, start)

\* chvt.h:229-239: true from start on, start included and end not included,
\* for windows that wrap around as well.
WindowExact ==
    \A start \in Times, n \in 1 .. Range32 - 1 :
      chTimeIsWithin(start, (start + n) % Range32)
        <=> \E i \in 0 .. n - 1 : vt_systime = (start + i) % Range32

\* The system time may wrap around at any instant.
WrapIsHarmless == DeadlineKept /\ WindowExact

=============================================================================
