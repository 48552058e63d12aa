----------------------------- MODULE UartDriver -----------------------------
(***************************************************************************)
(* The ChibiOS UART driver the tracker talks to its GSM and GPS modules    *)
(* with: os/hal/src/uart.c over os/hal/platforms/STM32/USARTv2/uart_lld.c, *)
(* the two DMA channels of stm32_dma.c that move the bytes, the interrupt  *)
(* vector the channels share on an STM32F0, and the USART itself.          *)
(*                                                                         *)
(* The processor is in one place at a time (cpu): in thread code, in a     *)
(* kernel lock zone (interrupts masked, one API call each), or at one of   *)
(* the points of the interrupt handlers where control is given away, the   *)
(* calls of the user's callbacks. The DMA channels and the USART make      *)
(* their steps at any time, lock zones and handlers included.              *)
(***************************************************************************)
EXTENDS Integers

CONSTANTS
    MaxSize,    \* largest buffer a client hands to the driver (a bound)
    TxEnd1Cb,   \* which callbacks of UARTConfig are not NULL
    TxEnd2Cb,
    RxEndCb,
    RxCharCb,
    RxErrCb

ASSUME SizeAssumption == MaxSize \in Nat \ {0}
ASSUME CallbackAssumption ==
    {TxEnd1Cb, TxEnd2Cb, RxEndCb, RxCharCb, RxErrCb} \subseteq BOOLEAN

VARIABLES
    drv,        \* the UARTDriver object: state, txstate, rxstate
    tx, rx,     \* the DMA channels dmatx and dmarx
    usart,      \* the USART: frames in TDR and shifter, TC, TCIE, error flags
    pend,       \* interrupts pending in the NVIC
    cpu,        \* where the processor is
    use         \* how a behaviour uses the line: "full", both directions at once, or
                \* "half", half-duplex and without rxchar_cb

driverVars == <<drv, tx, rx, usart, pend, cpu>>

vars == <<driverVars, use>>

Sizes == 1..MaxSize

\* Is rxchar_cb not NULL? A half-duplex client has none, and the tracker none at all.
CharCb == RxCharCb /\ use = "full"

(***************************************************************************)
(* DMA channels. left is CNDTR, size its reload value; ht and tc are the   *)
(* half- and full-transfer flags of DMA1->ISR, which the hardware sets     *)
(* whether or not their interrupt is enabled; tcie enables the second.     *)
(***************************************************************************)
Channels == [en : BOOLEAN, tcie : BOOLEAN, circ : BOOLEAN,
             ht : BOOLEAN, tc : BOOLEAN, left : 0..MaxSize, size : 0..MaxSize]

ResetChannel == [en |-> FALSE, tcie |-> FALSE, circ |-> FALSE,
                 ht |-> FALSE, tc |-> FALSE, left |-> 0, size |-> 0]

\* Mutant of Disable: the flags are left as they were.
DisableKeepingFlags(c) == [c EXCEPT !.en = FALSE, !.tcie = FALSE]

\* dmaStreamDisable: the interrupt enables and EN go, the flags are cleared.
Disable(c) == [c EXCEPT !.en = FALSE, !.tcie = FALSE, !.ht = FALSE, !.tc = FALSE]

\* Mutant: one transfer too many.
ProgramOneMore(c, n, circ, tcie) ==
    [c EXCEPT !.en = TRUE, !.tcie = tcie, !.circ = circ, !.left = n + 1, !.size = n + 1]

\* Programming a channel for n items and enabling it; the flags stay.
Program(c, n, circ, tcie) ==
    [c EXCEPT !.en = TRUE, !.tcie = tcie, !.circ = circ, !.left = n, !.size = n]

\* Mutant: the idle loop stops after a byte.
IdleLoopOnce(c) == Program(c, 1, FALSE, CharCb)

\* set_rx_idle_loop: one-byte circular reception into rxbuf.
IdleLoop(c) == Program(c, 1, TRUE, CharCb)

Flagged(c) == c.ht \/ c.tc

Running(c) == c.en /\ c.left > 0

\* One item moved by the hardware.
Transfer(c) ==
    [c EXCEPT !.left = IF c.circ /\ c.left = 1 THEN c.size ELSE c.left - 1,
              !.ht   = c.ht \/ 2 * (c.left - 1) <= c.size,
              !.tc   = c.tc \/ c.left = 1]

(***************************************************************************)
(* Interrupts. A request that rises is latched in the NVIC and stays       *)
(* pending until its handler is entered, even if the request goes low. A   *)
(* request still high when the handler returns is latched again.           *)
(***************************************************************************)
Requests(t, r, u) ==
    (IF (t.tcie /\ t.tc) \/ (r.tcie /\ r.tc) THEN {"DMA"} ELSE {})
      \cup (IF (u.tcie /\ u.tc) \/ u.err THEN {"USART"} ELSE {})

\* What a step does to the NVIC; Entered are the vectors it enters or resets.
Latch(Entered) ==
    pend' = (pend \ Entered) \cup
              (Requests(tx', rx', usart') \
                 IF cpu' \in {"thread", "locked"} THEN {} ELSE Requests(tx, rx, usart))

-----------------------------------------------------------------------------
\* uartObjectInit, uart_lld_init, dmaInit: everything off.
Init ==
    /\ drv = [state |-> "STOP", txstate |-> "IDLE", rxstate |-> "IDLE"]
    /\ tx = ResetChannel
    /\ rx = ResetChannel
    /\ usart = [out |-> 0, tc |-> FALSE, tcie |-> FALSE, err |-> FALSE]
    /\ pend = {}
    /\ cpu = "thread"
    /\ use \in {"full", "half"}

(***************************************************************************)
(* The API. A thread enters a lock zone, which it can only reach with no   *)
(* interrupt pending, makes one call and leaves it; a callback makes the   *)
(* I-class calls directly. A NULL callback makes none.                     *)
(***************************************************************************)
Callbacks ==
    (IF TxEnd1Cb THEN {"txend1"} ELSE {}) \cup (IF TxEnd2Cb THEN {"txend2"} ELSE {})
      \cup (IF RxEndCb THEN {"rxend"} ELSE {})
      \cup (IF CharCb THEN {"rxchar"} ELSE {})
      \cup (IF RxErrCb THEN {"rxerr", "rxerrTC"} ELSE {})

Lock ==
    /\ cpu = "thread" /\ pend = {}
    /\ cpu' = "locked"
    /\ UNCHANGED <<drv, tx, rx, usart, pend>>

\* Client calls come from a lock zone or from a callback.
Client ==
    /\ cpu \in {"locked"} \cup Callbacks
    /\ cpu' = IF cpu = "locked" THEN "thread" ELSE cpu

\* uartStart / uart_lld_start / usart_start. Enabling TE sends an idle frame.
UartStart ==
    /\ cpu = "locked" /\ Client
    /\ drv' = [state |-> "READY", txstate |-> "IDLE", rxstate |-> "IDLE"]
    /\ tx' = Disable(tx)
    /\ rx' = IdleLoop(Disable(rx))
    /\ usart' = [out |-> 1, tc |-> FALSE, tcie |-> FALSE, err |-> FALSE]
    /\ Latch(IF drv.state = "STOP" THEN {"DMA", "USART"} ELSE {})

\* uartStop / uart_lld_stop / usart_stop; the vectors are disabled.
UartStop ==
    /\ cpu = "locked" /\ Client
    /\ drv' = [state |-> "STOP", txstate |-> "IDLE", rxstate |-> "IDLE"]
    /\ tx' = Disable(tx)
    /\ rx' = Disable(rx)
    /\ usart' = [out |-> 0, tc |-> FALSE, tcie |-> FALSE, err |-> FALSE]
    /\ pend' = {}

\* uartStartSend[I]. The asserted precondition, READY and not ACTIVE, is the
\* client's obligation.
UartStartSend(n) ==
    /\ Client
    /\ drv.state = "READY" /\ drv.txstate # "ACTIVE"
    /\ tx' = Program(tx, n, FALSE, TRUE)
    /\ drv' = [drv EXCEPT !.txstate = "ACTIVE"]
    /\ UNCHANGED <<rx, usart>>
    /\ Latch({})

\* uartStopSend[I].
UartStopSend ==
    /\ Client
    /\ drv.state = "READY"
    /\ IF drv.txstate = "ACTIVE"
         THEN tx' = Disable(tx) /\ drv' = [drv EXCEPT !.txstate = "IDLE"]
         ELSE UNCHANGED <<tx, drv>>
    /\ UNCHANGED <<rx, usart>>
    /\ Latch({})

\* Mutant: the receive is started without its interrupt.
UartStartReceiveSilent(n) ==
    /\ Client
    /\ drv.state = "READY" /\ drv.rxstate # "ACTIVE"
    /\ rx' = Program(Disable(rx), n, FALSE, FALSE)
    /\ drv' = [drv EXCEPT !.rxstate = "ACTIVE"]
    /\ UNCHANGED <<tx, usart>>
    /\ Latch({})

\* uartStartReceive[I].
UartStartReceive(n) ==
    /\ Client
    /\ drv.state = "READY" /\ drv.rxstate # "ACTIVE"
    /\ rx' = Program(Disable(rx), n, FALSE, TRUE)
    /\ drv' = [drv EXCEPT !.rxstate = "ACTIVE"]
    /\ UNCHANGED <<tx, usart>>
    /\ Latch({})

\* uartStopReceive[I].
UartStopReceive ==
    /\ Client
    /\ drv.state = "READY"
    /\ IF drv.rxstate = "ACTIVE"
         THEN rx' = IdleLoop(Disable(rx)) /\ drv' = [drv EXCEPT !.rxstate = "IDLE"]
         ELSE UNCHANGED <<rx, drv>>
    /\ UNCHANGED <<tx, usart>>
    /\ Latch({})

ClientCall ==
    \/ UartStart \/ UartStop \/ UartStopSend \/ UartStopReceive
    \/ \E n \in Sizes : UartStartSend(n) \/ UartStartReceive(n)

(***************************************************************************)
(* Vector68, the handler shared by the channels 2 (TX) and 3 (RX). It      *)
(* looks at the flags of each channel, not at which interrupt is enabled,  *)
(* and calls the channel's service function if any flag is up.             *)
(***************************************************************************)
\* Mutant: the interrupt of the physical end is not enabled.
TxServiceNoTcie ==
    /\ cpu = "thread" /\ "DMA" \in pend /\ Flagged(tx)
    /\ tx' = Disable(tx)
    /\ drv' = [drv EXCEPT !.txstate = "COMPLETE"]
    /\ cpu' = "txend1"
    /\ UNCHANGED <<rx, usart>>
    /\ Latch({"DMA"})

\* Entry with a TX flag up: uart_lld_serve_tx_end_irq up to its callback.
TxService ==
    /\ cpu = "thread" /\ "DMA" \in pend /\ Flagged(tx)
    /\ tx' = Disable(tx)
    /\ usart' = [usart EXCEPT !.tcie = @ \/ TxEnd2Cb]
    /\ drv' = [drv EXCEPT !.txstate = "COMPLETE"]
    /\ cpu' = "txend1"
    /\ UNCHANGED rx
    /\ Latch({"DMA"})

\* Entry with no TX flag up.
TxNoFlag ==
    /\ cpu = "thread" /\ "DMA" \in pend /\ ~ Flagged(tx)
    /\ cpu' = "rxcheck"
    /\ UNCHANGED <<drv, tx, rx, usart>>
    /\ Latch({"DMA"})

\* txend1_cb has returned: back to IDLE unless it started another send.
TxEnd1Return ==
    /\ cpu = "txend1"
    /\ drv' = [drv EXCEPT !.txstate = IF @ = "COMPLETE" THEN "IDLE" ELSE @]
    /\ cpu' = "rxcheck"
    /\ UNCHANGED <<tx, rx, usart>>
    /\ Latch({})

\* An RX flag is up and no receive is in progress: a character came in.
RxService ==
    /\ cpu = "rxcheck" /\ Flagged(rx)
    /\ IF drv.rxstate = "IDLE"
         THEN /\ rx' = [rx EXCEPT !.ht = FALSE, !.tc = FALSE]
              /\ cpu' = "rxchar"
              /\ UNCHANGED drv
         ELSE /\ rx' = Disable(rx)
              /\ cpu' = "rxend"
              /\ drv' = [drv EXCEPT !.rxstate = "COMPLETE"]
    /\ UNCHANGED <<tx, usart>>
    /\ Latch({})

RxNoFlag ==
    /\ cpu = "rxcheck" /\ ~ Flagged(rx)
    /\ cpu' = "thread"
    /\ UNCHANGED <<drv, tx, rx, usart>>
    /\ Latch({})

\* rxend_cb has returned: idle loop unless it started another receive.
RxEndReturn ==
    /\ cpu = "rxend"
    /\ IF drv.rxstate = "COMPLETE"
         THEN rx' = IdleLoop(rx) /\ drv' = [drv EXCEPT !.rxstate = "IDLE"]
         ELSE UNCHANGED <<rx, drv>>
    /\ cpu' = "thread"
    /\ UNCHANGED <<tx, usart>>
    /\ Latch({})

(***************************************************************************)
(* The USART vector: serve_usart_irq. The DMA vector has the same priority *)
(* and the lower number, so it goes first when both are pending.           *)
(***************************************************************************)
TcSeen == usart.tc /\ usart.tcie

UsartService ==
    /\ cpu = "thread" /\ "USART" \in pend /\ "DMA" \notin pend
    /\ usart' = [usart EXCEPT !.tc = FALSE, !.err = FALSE,
                              !.tcie = @ /\ (usart.err \/ ~ TcSeen)]
    /\ cpu' = IF usart.err THEN (IF TcSeen THEN "rxerrTC" ELSE "rxerr")
              ELSE IF TcSeen THEN "txend2" ELSE "thread"
    /\ UNCHANGED <<drv, tx, rx>>
    /\ Latch({"USART"})

\* rxerr_cb has returned and the end of transmission was seen with the error.
RxErrTcReturn ==
    /\ cpu = "rxerrTC"
    /\ usart' = [usart EXCEPT !.tcie = FALSE]
    /\ cpu' = "txend2"
    /\ UNCHANGED <<drv, tx, rx>>
    /\ Latch({})

\* rxchar_cb, rxerr_cb or txend2_cb has returned.
CallbackReturn ==
    /\ cpu \in {"rxchar", "rxerr", "txend2"}
    /\ cpu' = "thread"
    /\ UNCHANGED <<drv, tx, rx, usart>>
    /\ Latch({})

Handler ==
    \/ TxService \/ TxNoFlag \/ TxEnd1Return \/ RxService \/ RxNoFlag
    \/ RxEndReturn \/ UsartService \/ RxErrTcReturn \/ CallbackReturn

(***************************************************************************)
(* The hardware.                                                           *)
(***************************************************************************)
\* A byte arrives and the RX channel stores it.
RxByte ==
    /\ Running(rx)
    /\ rx' = Transfer(rx)
    /\ UNCHANGED <<drv, tx, usart, cpu>>
    /\ Latch({})

\* A line error, or a byte nobody took: ORE, PE, FE, NE or LBD.
LineError ==
    /\ drv.state = "READY"
    /\ usart' = [usart EXCEPT !.err = TRUE]
    /\ UNCHANGED <<drv, tx, rx, cpu>>
    /\ Latch({})

\* The TX channel writes a byte to TDR, which clears TC.
TxByte ==
    /\ Running(tx) /\ usart.out < 2
    /\ tx' = Transfer(tx)
    /\ usart' = [usart EXCEPT !.out = @ + 1, !.tc = FALSE]
    /\ UNCHANGED <<drv, rx, cpu>>
    /\ Latch({})

\* A frame leaves the shifter; TC rises after the last one.
FrameOut ==
    /\ usart.out > 0
    /\ usart' = [usart EXCEPT !.out = @ - 1, !.tc = usart.out = 1]
    /\ UNCHANGED <<drv, tx, rx, cpu>>
    /\ Latch({})

Hardware == RxByte \/ LineError \/ TxByte \/ FrameOut

-----------------------------------------------------------------------------
Steps == Lock \/ ClientCall \/ Handler \/ Hardware

(***************************************************************************)
(* A line used half-duplex. The client, from a thread, starts a send and   *)
(* then the receive of the answer, and no other send before that receive   *)
(* is over; rxend_cb may start the next receive. The far end answers after *)
(* the command, a byte time or more, so that the interrupt of the send has *)
(* been served. The client starts the driver only when it is stopped.      *)
(***************************************************************************)
HalfDuplexUse ==
    /\ drv'.txstate = "ACTIVE" /\ drv.txstate # "ACTIVE" =>
         cpu = "locked" /\ drv.rxstate # "ACTIVE"
    /\ drv'.rxstate = "ACTIVE" /\ drv.rxstate # "ACTIVE" =>
         cpu = "locked" \/ drv.rxstate = "COMPLETE"
    /\ RxByte /\ drv.rxstate = "ACTIVE" =>
         drv.txstate # "ACTIVE" /\ "DMA" \notin pend /\ cpu \notin {"txend1", "rxcheck"}
    /\ UartStart => drv.state = "STOP"

\* The client keeps to its use of the line.
LineUse == use' = use /\ (use = "half" => HalfDuplexUse)

Next == Steps /\ LineUse

Spec == Init /\ [][Next]_vars

\* Handlers run to completion and are entered when pending and not masked, a
\* lock zone ends, and the USART shifts out what it is given. Bytes take much
\* longer than handlers, so the DMA vector leaves the processor now and then
\* and does not starve the USART's.
Fairness ==
    /\ WF_driverVars(Handler)
    /\ []<>(cpu = "thread" /\ "DMA" \notin pend)
    /\ SF_driverVars(UsartService)
    /\ WF_driverVars(cpu = "locked" /\ ClientCall)
    /\ WF_driverVars(TxByte)
    /\ WF_driverVars(FrameOut)

FairSpec == Spec /\ Fairness

-----------------------------------------------------------------------------
\* The shape of every variable.
TypeOK ==
    /\ drv \in [state : {"STOP", "READY"}, txstate : {"IDLE", "ACTIVE", "COMPLETE"},
                rxstate : {"IDLE", "ACTIVE", "COMPLETE"}]
    /\ tx \in Channels
    /\ rx \in Channels
    /\ usart \in [out : 0..2, tc : BOOLEAN, tcie : BOOLEAN, err : BOOLEAN]
    /\ pend \subseteq {"DMA", "USART"}
    /\ cpu \in {"thread", "locked", "txend1", "rxcheck", "rxend", "rxchar",
                "rxerr", "rxerrTC", "txend2"}
    /\ use \in {"full", "half"}

\* The DMA writes into a client's buffer only while its receive is ACTIVE:
\* once uartStopReceive or rxend_cb has given the buffer back, late bytes go
\* to the driver's own rxbuf, or nowhere.
BufferNotWrittenAfterwards ==
    Running(rx) /\ ~ rx.circ => drv.rxstate = "ACTIVE"

\* The same for the buffer being transmitted: uartStopSend gives it back.
BufferNotReadAfterwards == Running(tx) => drv.txstate = "ACTIVE"

\* A buffer given back to the client, by a stop or by a callback, is left alone.
BuffersGivenBack == BufferNotWrittenAfterwards /\ BufferNotReadAfterwards

\* "Stopping a transmission also suppresses the transmission callbacks"
\* (uart.c:191): the TX service function has no state check of its own, so an
\* interrupt latched before uartStopSend must find no flag.
TxEndOnlyIfActive ==
    [][cpu # "txend1" /\ cpu' = "txend1" => drv.txstate = "ACTIVE"]_vars

\* The same for reception (uart.c:301).
RxEndOnlyIfActive ==
    [][cpu # "rxend" /\ cpu' = "rxend" => drv.rxstate = "ACTIVE"]_vars

\* A transfer that has been stopped stays silent, in either direction.
StoppedIsSilent == TxEndOnlyIfActive /\ RxEndOnlyIfActive

\* "Receive buffer filled callback" (uart_lld.h:345): rxend_cb runs when every
\* item asked for is in the buffer.
RxEndMeansFull ==
    cpu = "rxend" /\ drv.rxstate = "COMPLETE" => rx.left = 0

\* "End of transmission buffer callback" (uart_lld.h:337): txend1_cb runs when
\* the whole buffer has been handed to the USART.
TxEndMeansSent ==
    cpu = "txend1" /\ drv.txstate = "COMPLETE" => tx.left = 0

\* On a half-duplex line both callbacks mean that all of the buffer has been moved.
EndMeansDone == use = "half" => RxEndMeansFull /\ TxEndMeansSent

\* A completed receive cannot get stuck: its interrupt is neither lost to the
\* vector shared with TX nor masked by a flag cleared on the other's behalf.
FullReceiveEnds ==
    (drv.rxstate = "ACTIVE" /\ rx.left = 0) ~> drv.rxstate # "ACTIVE"

\* Every send ends, by its callback or because the client stopped it.
SendEnds == drv.txstate = "ACTIVE" ~> drv.txstate # "ACTIVE"

\* No transfer gets stuck in the vector that the two directions share.
TransfersEnd == FullReceiveEnds /\ SendEnds

\* Every finished send on a half-duplex line is followed by the physical-end
\* callback, unless the client stops the driver or starts another send first.
PhysicalEndReported ==
    (use = "half" /\ TxEnd2Cb /\ cpu = "txend1")
      ~> (cpu = "txend2" \/ drv.state = "STOP" \/ drv.txstate = "ACTIVE")

-----------------------------------------------------------------------------
\* The promise to a half-duplex client, as he sees the driver: what is left of the
\* transfer while a direction is ACTIVE, and the end-of-buffer callbacks. Nothing is
\* said of another's behaviours.
Half == use = "half"

Service == INSTANCE UartService WITH
    Idle <- -1,
    snd  <- IF Half /\ drv.txstate = "ACTIVE" THEN tx.left ELSE -1,
    rcv  <- IF Half /\ drv.rxstate = "ACTIVE" THEN rx.left ELSE -1,
    note <- CASE Half /\ cpu = "txend1" -> "send" [] Half /\ cpu = "rxend" -> "receive"
              [] OTHER -> "none"

\* Every transfer ends silently when it is stopped, and with one callback when,
\* and only when, all of it has been moved: what uart.c:191, uart.c:301,
\* uart_lld.h:337 and uart_lld.h:345 say together.
ImplementsService == Service!Spec

=============================================================================
