------------------------------- MODULE Events -------------------------------
(***************************************************************************)
(* Event flags of the kernel (chevents.c) as one listening thread uses     *)
(* them: its pending events, its waits for one, any or all of a mask, with *)
(* or without a timeout, and the listener through which an event source    *)
(* passes its flags to it. Each action is a lock zone; a thread made ready *)
(* returns from its wait in an action of its own.                          *)
(***************************************************************************)
EXTENDS Naturals, FiniteSets

CONSTANTS
    Flags,      \* the flags of the event source
    Source      \* the event the listener is registered with

Other == "other"            \* an event other threads signal directly

Evts == {Source, Other}

Masks == (SUBSET Evts) \ {{}}

VARIABLE evt    \* p_epending, p_u.ewmask, state, rdymsg, the wait's kind, its
                \* result, and the listener: el_flags, registered

NewListener(on) ==
    [pending |-> {}, at |-> "running", kind |-> "any", mask |-> {Source},
     rdymsg |-> "RDY_OK", result |-> {}, flags |-> {}, on |-> on]

\* What the wait waits for is there.
Satisfied(e) == IF e.kind = "all" THEN e.mask \subseteq e.pending ELSE e.mask \cap e.pending # {}

\* chEvtSignalI.
SignalI(e, m) ==
    LET n == [e EXCEPT !.pending = @ \cup m]
    IN  IF n.at = "waiting" /\ Satisfied(n)
        THEN [n EXCEPT !.at = "woken", !.rdymsg = "RDY_OK"] ELSE n

\* chEvtBroadcastFlagsI.
BroadcastFlagsI(e, f) == IF e.on THEN SignalI([e EXCEPT !.flags = @ \cup f], {Source}) ELSE e

\* chnAddFlagsI called once for every flag raised, or not at all.
AddFlagsI(e, f) == IF f = {} THEN e ELSE BroadcastFlagsI(e, f)

\* The event with the lowest number of a set: Source is registered as event 0.
Lowest(m) == IF Source \in m THEN {Source} ELSE m

\* What a satisfied wait takes: one event, all there are, or the whole mask.
Taken(e) ==
    CASE e.kind = "one" -> Lowest(e.pending \cap e.mask)
      [] e.kind = "any" -> e.pending \cap e.mask
      [] OTHER          -> e.mask

Take(e) == [e EXCEPT !.at = "running", !.result = Taken(e), !.pending = @ \ Taken(e)]

-----------------------------------------------------------------------------
\* chEvtWaitOne, WaitAny and WaitAll, and the same with a timeout.
EvtWait(kind, m) ==
    /\ evt.at = "running"
    /\ LET w == [evt EXCEPT !.kind = kind, !.mask = m]
       IN  evt' = IF Satisfied(w) THEN Take(w) ELSE [w EXCEPT !.at = "waiting"]

EvtWaitReturn ==
    /\ evt.at = "woken"
    /\ evt' = IF evt.rdymsg = "RDY_OK" THEN Take(evt)
              ELSE [evt EXCEPT !.at = "running", !.result = {}]

\* wakeup of chschd.c on a thread that waits for events.
EvtTimeout ==
    /\ evt.at = "waiting"
    /\ evt' = [evt EXCEPT !.at = "woken", !.rdymsg = "RDY_TIMEOUT"]

\* chEvtSignal and chEvtBroadcastFlags by another thread.
EvtSignal(m) == evt' = SignalI(evt, m)

EvtBroadcast(f) == evt' = BroadcastFlagsI(evt, f)

\* chEvtRegisterMask and chEvtUnregister.
EvtRegister ==
    /\ evt.at = "running" /\ ~ evt.on
    /\ evt' = [evt EXCEPT !.on = TRUE, !.flags = {}]

EvtUnregister ==
    /\ evt.at = "running"
    /\ evt' = [evt EXCEPT !.on = FALSE]

\* chEvtGetAndClearEvents and chEvtAddEvents.
EvtGetAndClear(m) ==
    /\ evt.at = "running"
    /\ evt' = [evt EXCEPT !.pending = @ \ m]

EvtAdd(m) ==
    /\ evt.at = "running"
    /\ evt' = [evt EXCEPT !.pending = @ \cup m]

\* chEvtGetAndClearFlags.
EvtGetAndClearFlags ==
    /\ evt.at = "running"
    /\ evt' = [evt EXCEPT !.flags = {}]

\* Every call of the listening thread.
ListenerCall ==
    \/ \E kind \in {"one", "any", "all"}, m \in Masks : EvtWait(kind, m)
    \/ EvtRegister \/ EvtUnregister \/ EvtGetAndClearFlags
    \/ \E m \in Masks : EvtGetAndClear(m) \/ EvtAdd(m)

OthersSignal ==
    \/ EvtSignal({Other})
    \/ \E f \in Flags : EvtBroadcast({f})

-----------------------------------------------------------------------------
EvtTypeOK ==
    evt \in [pending : SUBSET Evts, at : {"running", "waiting", "woken"},
             kind : {"one", "any", "all"}, mask : Masks,
             rdymsg : {"RDY_OK", "RDY_TIMEOUT"}, result : SUBSET Evts,
             flags : SUBSET Flags, on : BOOLEAN]

\* No wakeup is lost and none is premature: a thread sleeps only while what it
\* waits for is missing, and finds it there when it has been woken, although it
\* reads its events only when it runs again.
EventsAgree ==
    /\ evt.at = "waiting" => ~ Satisfied(evt)
    /\ evt.at = "woken" /\ evt.rdymsg = "RDY_OK" => Satisfied(evt)

\* An event that is pending stays so until the listening thread takes it, in a
\* wait whose mask names it or with chEvtGetAndClearEvents.
EventsKept ==
    [][\A x \in evt.pending \ evt'.pending :
         \/ x \in evt'.result /\ x \in evt'.mask
         \/ \E m \in Masks : x \in m /\ EvtGetAndClear(m)]_evt

=============================================================================
