---------------------------- MODULE SerialDriver ----------------------------
(***************************************************************************)
(* The serial driver of ChibiOS: os/hal/src/serial.c over                  *)
(* os/hal/platforms/STM32/USARTv2/serial_lld.c, composed of the kernel's   *)
(* I/O queues, the event source that tells a listening thread about the    *)
(* line, and the USART with its one interrupt handler. The tracker's own   *)
(* configuration leaves it out; it drives the same USART.                  *)
(*                                                                         *)
(* The handler reads CR1 and the status once and works on that copy; no    *)
(* thread runs meanwhile, so that it is one action.                        *)
(***************************************************************************)
EXTENDS IoQueues, Events

CONSTANTS
    Uses,       \* what the threads do: subset of {"input", "output", "events"}
    Careless    \* whether the client starts a driver that is sending, or stops it
                \* while a thread is on its way into the output queue

\* The flags the driver raises for its event source.
SdFlags == {"INPUT_AVAILABLE", "ERROR", "OUTPUT_EMPTY", "TRANSMISSION_END"}

ASSUME UsesAssumption == Uses \subseteq {"input", "output", "events"} /\ SdFlags \subseteq Flags
ASSUME CarelessAssumption == Careless \in BOOLEAN

VARIABLES
    sd,         \* the driver and its USART: on (SD_READY), RXNE, an error flag,
                \* TXEIE, TCIE, TC, and the frames in TDR and shifter
    ended,      \* CHN_TRANSMISSION_END has been broadcast since the last write
    told,       \* the listener has taken CHN_INPUT_AVAILABLE since the input
                \* queue was last empty
    use         \* which of Uses this behaviour shows

vars == <<iq, oq, thr, evt, sd, ended, told, use>>

Quiet == [on |-> FALSE, rxne |-> FALSE, err |-> FALSE, txeie |-> FALSE, tcie |-> FALSE,
          tc |-> FALSE, out |-> 0]

\* sdObjectInit. A listener is registered from the start where input is looked
\* at, and registers itself where its calls are.
Init ==
    /\ QInit
    /\ use \in Uses
    /\ evt = NewListener(use = "input")
    /\ sd = Quiet
    /\ ended = TRUE
    /\ told = FALSE

(***************************************************************************)
(* Threads.                                                                *)
(***************************************************************************)
\* The driver has bytes to send, or has yet to report that the last has left.
Sending == sd.txeie \/ sd.tcie

\* sdStart: usart_init. In a stopped driver setting TE sends an idle frame, which is
\* left out where only input is looked at; in one that runs CR1 is written without
\* TXEIE and TCIE, and ICR clears all flags but RXNE.
sdStart ==
    /\ use # "events"
    /\ sd.on => Careless \/ ~ Sending
    /\ sd' = IF sd.on
               THEN [sd EXCEPT !.txeie = FALSE, !.tcie = FALSE, !.tc = FALSE, !.err = FALSE]
               ELSE [Quiet EXCEPT !.on = TRUE, !.out = IF use = "output" THEN 1 ELSE 0]
    /\ UNCHANGED <<iq, oq, thr, evt, ended, told, use>>

\* sdStop. A thread on its way into the output queue stores its byte after the reset.
sdStop ==
    /\ Careless \/ \A t \in Threads : thr[t].dir = "write" => thr[t].at = "waiting"
    /\ sd' = Quiet
    /\ QReset
    /\ ended' = TRUE
    /\ told' = FALSE
    /\ UNCHANGED <<evt, use>>

SdRead(t) ==
    /\ Read(t)
    /\ told' = (told /\ iq'.counter > 0)
    /\ UNCHANGED <<evt, sd, ended, use>>

\* Mutant: the interrupt is enabled only when the queue was empty.
SdWriteNotifyOnce(t) ==
    /\ Write(t)
    /\ IF Full THEN UNCHANGED <<sd, ended>>
       ELSE sd' = [sd EXCEPT !.txeie = sd.on /\ oq.counter = Size] /\ ended' = FALSE
    /\ UNCHANGED <<evt, told, use>>

\* A write and, if a byte was stored, the output notification (notify1), which does
\* nothing to a USART without a clock.
SdWrite(t) ==
    /\ Write(t)
    /\ IF Full THEN UNCHANGED <<sd, ended>>
       ELSE sd' = [sd EXCEPT !.txeie = sd.on] /\ ended' = FALSE
    /\ UNCHANGED <<evt, told, use>>

SdCall(t) ==
    /\ sd.on
    /\ \E n \in 1..MaxCall :
         \/ use = "input" /\ QCall(t, "read", n)
         \/ use = "output" /\ QCall(t, "write", n)
    /\ UNCHANGED <<evt, sd, ended, told, use>>

SdReturn(t) == GiveUp(t) /\ UNCHANGED <<evt, sd, ended, told, use>>

SdTimeout(t) == QTimeout(t) /\ UNCHANGED <<evt, sd, ended, told, use>>

\* The listening thread: it waits for the driver's event and takes the flags,
\* or makes any call there is.
Listener ==
    /\ \/ EvtWaitReturn \/ EvtTimeout
       \/ use = "events" /\ (ListenerCall \/ OthersSignal)
       \/ use = "input" /\ (EvtWait("any", {Source}) \/ EvtGetAndClearFlags)
    /\ told' = (use = "input" /\ (told \/ "INPUT_AVAILABLE" \in evt.flags \ evt'.flags))
    /\ UNCHANGED <<iq, oq, thr, sd, ended, use>>

(***************************************************************************)
(* The interrupt handler, serve_interrupt.                                 *)
(***************************************************************************)
TxEmpty == sd.txeie /\ sd.out < 2

Request == sd.on /\ (sd.rxne \/ sd.err \/ TxEmpty \/ (sd.tcie /\ sd.tc))

\* sdIncomingDataI: a byte for the queue, or an overrun.
Stored == sd.rxne /\ ~ Filled(iq)

\* sdRequestDataI as the handler writes it: a byte for the USART, or none left.
Sent == TxEmpty /\ ~ Filled(oq)

Drained == TxEmpty /\ Filled(oq)

QueueEmptyAfter == Filled(IF Sent THEN Output ELSE oq)

\* Mutant: the byte is stored before the queue is tested.
RaisedAfterStoring ==
    (IF sd.err \/ (sd.rxne /\ ~ Stored) THEN {"ERROR"} ELSE {})
      \cup (IF Drained THEN {"OUTPUT_EMPTY"} ELSE {})
      \cup (IF sd.tc /\ QueueEmptyAfter THEN {"TRANSMISSION_END"} ELSE {})

Raised ==
    (IF sd.err \/ (sd.rxne /\ ~ Stored) THEN {"ERROR"} ELSE {})
      \cup (IF sd.rxne /\ Empty THEN {"INPUT_AVAILABLE"} ELSE {})
      \cup (IF Drained THEN {"OUTPUT_EMPTY"} ELSE {})
      \cup (IF sd.tc /\ QueueEmptyAfter THEN {"TRANSMISSION_END"} ELSE {})

\* Mutant: the end of the last frame does not interrupt.
AfterServiceNoTcie ==
    [sd EXCEPT !.rxne = FALSE, !.err = FALSE, !.tc = FALSE,
               !.txeie = @ /\ (sd.tc \/ ~ Drained),
               !.tcie = @ /\ ~ sd.tc,
               !.out = IF Sent THEN @ + 1 ELSE @]

\* CR1 is written from the copy: the TC branch undoes what the TXE branch wrote.
AfterService ==
    [sd EXCEPT !.rxne = FALSE, !.err = FALSE, !.tc = FALSE,
               !.txeie = @ /\ (sd.tc \/ ~ Drained),
               !.tcie = (@ \/ Drained) /\ ~ sd.tc,
               !.out = IF Sent THEN @ + 1 ELSE @]

ServeInterrupt ==
    /\ Request
    /\ iq' = IF Stored THEN Input ELSE iq
    /\ oq' = IF Sent THEN Output ELSE oq
    /\ thr' = WokenWith("Q_OK", (IF Stored THEN First(iq) ELSE {}) \cup (IF Sent THEN First(oq) ELSE {}))
    /\ evt' = AddFlagsI(evt, Raised)
    /\ sd' = AfterService
    /\ ended' = (ended \/ "TRANSMISSION_END" \in Raised)
    /\ UNCHANGED <<told, use>>

(***************************************************************************)
(* The line.                                                               *)
(***************************************************************************)
ByteArrives ==
    /\ sd.on /\ use = "input"
    /\ sd' = IF sd.rxne THEN [sd EXCEPT !.err = TRUE] ELSE [sd EXCEPT !.rxne = TRUE]
    /\ UNCHANGED <<iq, oq, thr, evt, ended, told, use>>

FrameOut ==
    /\ sd.out > 0
    /\ sd' = [sd EXCEPT !.out = @ - 1, !.tc = sd.out = 1]
    /\ UNCHANGED <<iq, oq, thr, evt, ended, told, use>>

-----------------------------------------------------------------------------
Next ==
    \/ sdStart \/ sdStop \/ Listener
    \/ \E t \in Threads : SdCall(t) \/ SdRead(t) \/ SdWrite(t) \/ SdReturn(t) \/ SdTimeout(t)
    \/ ServeInterrupt \/ ByteArrives \/ FrameOut

\* The handler is served, frames leave the USART, a thread that can run does.
Fairness ==
    /\ WF_vars(ServeInterrupt)
    /\ WF_vars(FrameOut)
    /\ \A t \in Threads : WF_vars(SdRead(t) \/ SdWrite(t) \/ SdReturn(t))

Spec == Init /\ [][Next]_vars /\ Fairness

-----------------------------------------------------------------------------
\* The shape of every variable.
TypeOK ==
    /\ QTypeOK
    /\ EvtTypeOK
    /\ sd \in [on : BOOLEAN, rxne : BOOLEAN, err : BOOLEAN, txeie : BOOLEAN,
               tcie : BOOLEAN, tc : BOOLEAN, out : 0..2]
    /\ ended \in BOOLEAN /\ told \in BOOLEAN
    /\ use \in Uses

\* The data agree: every variable has its shape, and so do the counters and pointers
\* of the rings, and the listener and what it waits for.
Consistent == TypeOK /\ RingsAgree /\ EventsAgree

\* The transmit interrupt is on while bytes wait to be sent: threads set it and
\* every pass of the handler writes CR1 back from a copy.
TransmitEnabled == sd.on /\ oq.counter < Size => sd.txeie

\* Another thread stores a byte in the place t has been woken for.
Overtaken(t) ==
    thr[t].at = "woken" /\ \E u \in Threads \ {t} : SdWrite(u) /\ ~ Full

\* "The operation completes when the specified amount of data has been transferred or
\* after the specified timeout or if the queue has been reset" (chqueues.c:384-387): a
\* write returns, although others take its places, unless they do so for ever.
WriterServed ==
    \A t \in Threads :
      (thr[t].dir = "write" ~> thr[t].dir # "write") \/ []<><<Overtaken(t)>>_vars

\* Once everything written has left, CHN_TRANSMISSION_END has been broadcast.
EndReported ==
    (oq.counter = Size /\ sd.out = 0) ~> (ended \/ oq.counter < Size \/ ~ sd.on)

\* Bytes in the input queue are never a secret: while there are some the
\* listening thread has CHN_INPUT_AVAILABLE to take or has taken it since the
\* queue was last empty, although it is raised for the first of them only.
InputAnnounced ==
    use = "input" /\ iq.counter > 0 => told \/ "INPUT_AVAILABLE" \in evt.flags

=============================================================================
