---------------------------- MODULE TimerService ----------------------------
(***************************************************************************)
(* What virtual timers promise: a timer that is set for n ticks and not    *)
(* reset expires at the n-th tick from then, neither earlier nor later,    *)
(* whatever happens to the other timers.                                   *)
(***************************************************************************)
EXTENDS Integers

CONSTANTS Timers, MaxTime

VARIABLE left       \* ticks to go, Off if not set

Off == -1

Init == left = [v \in Timers |-> Off]

Set(v, time) == left[v] = Off /\ left' = [left EXCEPT ![v] = time]

Reset(v) == left[v] # Off /\ left' = [left EXCEPT ![v] = Off]

\* A tick comes only when what was due at the tick before has expired.
Tick == /\ \A v \in Timers : left[v] # 0
        /\ left' = [v \in Timers |-> IF left[v] = Off THEN Off ELSE left[v] - 1]

Expire(v) == left[v] = 0 /\ left' = [left EXCEPT ![v] = Off]

Next == \/ Tick
        \/ \E v \in Timers : \/ Reset(v) \/ Expire(v)
                             \/ \E time \in 1..MaxTime : Set(v, time)

Spec == Init /\ [][Next]_left

=============================================================================
