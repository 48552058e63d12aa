------------------------------ MODULE I2cDriver ------------------------------
(***************************************************************************)
(* The I2C driver the tracker reads its accelerometer with:                *)
(* os/hal/src/i2c.c over os/hal/platforms/STM32/I2Cv2/i2c_lld.c, its two   *)
(* DMA channels, which share a vector on an STM32F0, the safety timer of a *)
(* transfer, and the I2C peripheral on a bus with a slave and perhaps      *)
(* another master.                                                         *)
(*                                                                         *)
(* The I2C and DMA handlers have the lowest interrupt priority and hold no *)
(* lock, the system tick preempts them: a handler is cut into a step each  *)
(* time the timeout of the transfer can make a difference to what follows. *)
(* A lock zone of the thread is one action. A byte counts as moved when    *)
(* its DMA transfer and its acknowledge are over.                          *)
(***************************************************************************)
EXTENDS Integers

CONSTANTS
    MaxBytes,           \* longest transfer in each direction (a bound)
    Restarts            \* the answers after which the client may start the driver again
                        \* without stopping it first: i2c_lld.c:613 forbids RDY_TIMEOUT

ASSUME BytesAssumption == MaxBytes \in Nat \ {0}
ASSUME RestartsAssumption == Restarts \subseteq {"RDY_OK", "RDY_RESET", "RDY_TIMEOUT"}

VARIABLES
    drv,            \* I2CDriver: state, errors
    op,             \* the operation called: bytes to send, to receive, timed
    pc,             \* the calling thread: ready, busy (waiting for BUSY), asleep, woken
    rdymsg,         \* what it was woken with, and what the call returned
    vt,             \* the safety timer: off, armed, fired
    bus,            \* the peripheral: phase, bytes to go, flags, CR1.TCIE
    dmatx, dmarx,   \* the DMA channels
    isr,            \* the handler the processor is in: where it is, the flags it has
                    \* read from ISR and, at enable and start, the length it has read
    moved           \* bytes moved and errors met since the operation began; since the
                    \* driver was started, berr: a bus error, cut: a timeout that came
                    \* between reading that the write phase is over and the read phase

vars == <<drv, op, pc, rdymsg, vt, bus, dmatx, dmarx, isr, moved>>

Lengths == 0..MaxBytes

Operations == [tx : Lengths, rx : Lengths, timed : BOOLEAN]

(***************************************************************************)
(* DMA channels: EN, TCIE, CNDTR with its value at the start, and the half *)
(* and full flags. The flags rise whether or not they interrupt, and only  *)
(* dmaStreamDisable clears them.                                           *)
(***************************************************************************)
Channels == [en : BOOLEAN, tcie : BOOLEAN, left : Lengths, size : Lengths,
             half : BOOLEAN, full : BOOLEAN]

Off == [en |-> FALSE, tcie |-> FALSE, left |-> 0, size |-> 0, half |-> FALSE, full |-> FALSE]

\* dmaStreamDisable: CNDTR stays.
Disable(c) == [c EXCEPT !.en = FALSE, !.tcie = FALSE, !.half = FALSE, !.full = FALSE]

\* dmaStreamSetMode and dmaStreamSetTransactionSize: the flags stay.
SetUp(c, n) == [c EXCEPT !.en = FALSE, !.tcie = TRUE, !.left = n, !.size = n]

\* dmaStreamEnable.
Enable(c) == [c EXCEPT !.en = TRUE]

\* Mutant: the counter goes down twice.
TransferTwice(c) == [c EXCEPT !.left = @ - 2, !.half = TRUE, !.full = c.left = 1]

\* One byte of a transfer.
Transfer(c) == [c EXCEPT !.left = @ - 1, !.half = @ \/ 2 * (c.left - 1) <= c.size,
                         !.full = @ \/ c.left = 1]

Running(c) == c.en /\ c.left > 0

(***************************************************************************)
(* The peripheral. BUSY is set in every phase but idle; hold is TC, the    *)
(* bus held until the next START or STOP; lost is a bus another master has *)
(* won. Clearing CR1.PE resets all of it but CR1.                          *)
(***************************************************************************)
Reset(b) == [b EXCEPT !.phase = "idle", !.left = 0, !.start = "none",
                      !.nackf = FALSE, !.stopf = FALSE, !.error = "none"]

\* CR2.START: at once on a bus that is free or held, else when it is free.
StartCondition(b, phase, n) ==
    IF b.phase \in {"idle", "hold"} THEN [b EXCEPT !.phase = phase, !.left = n]
    ELSE [b EXCEPT !.start = phase, !.left = n]

\* The bus is free: a START that waits is sent.
Free(b) == [b EXCEPT !.phase = IF b.start = "none" THEN "idle" ELSE b.start, !.start = "none"]

\* CR2.STOP, which does nothing on a bus the peripheral does not hold.
StopCondition(b) == [b EXCEPT !.phase = IF @ \in {"tx", "rx", "hold"} THEN "stop" ELSE @]

DmaRequest == (dmatx.tcie /\ dmatx.full) \/ (dmarx.tcie /\ dmarx.full)

I2cRequest ==
    bus.nackf \/ bus.stopf \/ bus.error # "none" \/ (bus.phase = "hold" /\ bus.tcie)

\* No handler runs.
Idle == [at |-> "none", flags |-> {}, n |-> 0]

\* Thread code runs, and can mask interrupts, when none is pending.
ThreadRuns == isr = Idle /\ ~ DmaRequest /\ ~ I2cRequest

-----------------------------------------------------------------------------
NoOp == [tx |-> 0, rx |-> 0, timed |-> FALSE]

\* i2cObjectInit, i2c_lld_init.
Init ==
    /\ drv = [state |-> "STOP", errors |-> {}]
    /\ op = NoOp
    /\ pc = "ready"
    /\ rdymsg = "RDY_OK"
    /\ vt = "off"
    /\ bus = [phase |-> "idle", left |-> 0, start |-> "none", nackf |-> FALSE, stopf |-> FALSE,
              error |-> "none", tcie |-> FALSE]
    /\ dmatx = Off /\ dmarx = Off
    /\ isr = Idle
    /\ moved = [tx |-> 0, rx |-> 0, failed |-> FALSE, berr |-> FALSE, cut |-> FALSE]

(***************************************************************************)
(* The thread.                                                             *)
(***************************************************************************)
\* dmaStreamAllocate in a stopped driver; one that was not keeps its DMA channels
\* as they are, flags and all.
i2cStart ==
    /\ ThreadRuns /\ pc = "ready"
    /\ drv.state = "STOP" \/ rdymsg \in Restarts
    /\ drv' = [drv EXCEPT !.state = "READY"]
    /\ bus' = [Reset(bus) EXCEPT !.tcie = FALSE]
    /\ IF drv.state = "STOP"
         THEN dmatx' = Disable(dmatx) /\ dmarx' = Disable(dmarx)
         ELSE UNCHANGED <<dmatx, dmarx>>
    /\ moved' = [moved EXCEPT !.berr = FALSE, !.cut = FALSE]
    /\ UNCHANGED <<op, pc, rdymsg, vt, isr>>

i2cStop ==
    /\ ThreadRuns /\ pc = "ready" /\ drv.state # "STOP"
    /\ drv' = [drv EXCEPT !.state = "STOP"]
    /\ bus' = Reset(bus)
    /\ dmatx' = Disable(dmatx) /\ dmarx' = Disable(dmarx)
    /\ UNCHANGED <<op, pc, rdymsg, vt, isr, moved>>

\* i2cMasterTransmitTimeout (o.tx > 0) and i2cMasterReceiveTimeout, up to the
\* unlock before the wait for BUSY.
Call(o) ==
    /\ ThreadRuns /\ pc = "ready" /\ drv.state = "READY"
    /\ o.tx > 0 \/ o.rx > 0
    /\ drv' = [state |-> IF o.tx > 0 THEN "ACTIVE_TX" ELSE "ACTIVE_RX", errors |-> {}]
    /\ op' = o
    /\ pc' = "busy"
    /\ vt' = IF o.timed THEN "armed" ELSE "off"
    /\ UNCHANGED <<rdymsg, bus, dmatx, dmarx, isr, moved>>

TimedOut == op.timed /\ vt # "armed"

Return(msg, errors) ==
    /\ pc' = "ready"
    /\ rdymsg' = msg
    /\ vt' = "off"
    /\ drv' = [state |-> IF msg = "RDY_TIMEOUT" THEN "LOCKED" ELSE "READY",
               errors |-> errors]

\* The wait for BUSY ends because the timer has fired.
BusyTimeout ==
    /\ ThreadRuns /\ pc = "busy"
    /\ bus.phase # "idle" /\ TimedOut
    /\ Return("RDY_TIMEOUT", drv.errors)
    /\ UNCHANGED <<op, bus, dmatx, dmarx, isr, moved>>

\* The channels are programmed and the first of them is enabled; then the
\* transfer is started unless the timer has fired meanwhile.
Program ==
    /\ IF op.tx > 0
         THEN dmatx' = Enable(SetUp(dmatx, op.tx)) /\ dmarx' = SetUp(dmarx, op.rx)
         ELSE dmatx' = dmatx /\ dmarx' = Enable(SetUp(dmarx, op.rx))
    /\ moved' = [moved EXCEPT !.tx = 0, !.rx = 0, !.failed = FALSE]
    /\ IF TimedOut
         THEN Return("RDY_TIMEOUT", {}) /\ UNCHANGED bus
         ELSE /\ bus' = IF op.tx > 0
                          THEN [StartCondition(bus, "tx", op.tx) EXCEPT !.tcie = TRUE]
                          ELSE StartCondition(bus, "rx", op.rx)
              /\ pc' = "asleep"
              /\ drv' = [drv EXCEPT !.errors = {}]
              /\ UNCHANGED <<rdymsg, vt>>

\* Mutant: the STOP of the operation before is not waited for.
SetupAtOnce ==
    /\ ThreadRuns /\ pc = "busy"
    /\ Program
    /\ UNCHANGED <<op, isr>>

\* BUSY is clear: the rest of the call, up to the wait.
Setup ==
    /\ ThreadRuns /\ pc = "busy" /\ bus.phase = "idle"
    /\ Program
    /\ UNCHANGED <<op, isr>>

\* chSchGoSleepS has returned.
Finish ==
    /\ ThreadRuns /\ pc = "woken"
    /\ Return(rdymsg, drv.errors)
    /\ UNCHANGED <<op, bus, dmatx, dmarx, isr, moved>>

(***************************************************************************)
(* Interrupts.                                                             *)
(***************************************************************************)
\* wakeup_isr: nothing if nobody waits.
Wake(msg) ==
    IF pc = "asleep" THEN pc' = "woken" /\ rdymsg' = msg ELSE UNCHANGED <<pc, rdymsg>>

\* The handler has seen that the write phase is over and has yet to enable the read.
BetweenPhases == isr.at = "enable" \/ (isr.at = "event" /\ "tc" \in isr.flags)

\* Mutant: the timer only marks itself fired.
SafetyTimeoutDeaf ==
    /\ vt = "armed"
    /\ vt' = "fired"
    /\ UNCHANGED <<drv, op, pc, rdymsg, bus, dmatx, dmarx, isr, moved>>

\* Mutant: without i2c_lld_abort_operation.
SafetyTimeoutNoAbort ==
    /\ vt = "armed"
    /\ vt' = "fired"
    /\ Wake("RDY_TIMEOUT")
    /\ UNCHANGED <<drv, op, bus, dmatx, dmarx, isr, moved>>

\* i2c_lld_safety_timeout, with i2c_lld_abort_operation; it preempts handlers.
SafetyTimeout ==
    /\ vt = "armed"
    /\ vt' = "fired"
    /\ IF pc = "asleep"
         THEN /\ bus' = Reset(bus)
              /\ dmatx' = Disable(dmatx) /\ dmarx' = Disable(dmarx)
         ELSE UNCHANGED <<bus, dmatx, dmarx>>
    /\ moved' = [moved EXCEPT !.cut = @ \/ BetweenPhases]
    /\ Wake("RDY_TIMEOUT")
    /\ UNCHANGED <<drv, op, isr>>

\* The vector the two channels share: whichever flag of a channel is up,
\* i2c_lld_serve_tx_end_irq and the first half of i2c_lld_serve_rx_end_irq.
DmaIrq ==
    /\ isr = Idle /\ DmaRequest
    /\ dmatx' = IF dmatx.half \/ dmatx.full THEN Disable(dmatx) ELSE dmatx
    /\ dmarx' = IF dmarx.half \/ dmarx.full THEN Disable(dmarx) ELSE dmarx
    /\ isr' = IF dmarx.half \/ dmarx.full THEN [Idle EXCEPT !.at = "rxend"] ELSE Idle
    /\ UNCHANGED <<drv, op, pc, rdymsg, vt, bus, moved>>

RxEnd ==
    /\ isr.at = "rxend"
    /\ bus' = StopCondition(bus)
    /\ Wake("RDY_OK")
    /\ isr' = Idle
    /\ UNCHANGED <<drv, op, vt, dmatx, dmarx, moved>>

\* The I2C vector, which the DMA one precedes: it reads ISR and clears the flags
\* that it has read; TC stays as long as the bus is held.
Enter(at, flags) ==
    /\ isr = Idle /\ ~ DmaRequest /\ I2cRequest
    /\ isr' = [at |-> at, flags |-> flags, n |-> 0]
    /\ bus' = [bus EXCEPT !.nackf = FALSE, !.stopf = FALSE, !.error = "none"]
    /\ UNCHANGED <<drv, op, pc, rdymsg, vt, dmatx, dmarx, moved>>

\* An error hides the events that come with it.
EnterError == bus.error # "none" /\ Enter("error", {bus.error})

EnterEvent ==
    /\ bus.error = "none"
    /\ Enter("event", (IF bus.phase = "hold" THEN {"tc"} ELSE {})
                       \cup (IF bus.nackf THEN {"nack"} ELSE {})
                       \cup (IF bus.stopf THEN {"stop"} ELSE {}))

\* i2c_lld_serve_error_interrupt.
ErrorIrq ==
    /\ isr.at = "error"
    /\ dmatx' = Disable(dmatx) /\ dmarx' = Disable(dmarx)
    /\ drv' = [drv EXCEPT !.errors = @ \cup isr.flags]
    /\ Wake("RDY_RESET")
    /\ isr' = Idle
    /\ UNCHANGED <<op, vt, bus, moved>>

\* i2c_lld_serve_interrupt, TC, up to the read of the length of the read phase; the
\* STOP if there is none.
TransferComplete ==
    /\ isr.at = "event"
    /\ IF "tc" \notin isr.flags \/ drv.state # "ACTIVE_TX"
         THEN isr' = [isr EXCEPT !.at = "rest"] /\ UNCHANGED bus
         ELSE IF dmarx.left > 0
         THEN /\ isr' = [isr EXCEPT !.at = "enable", !.n = dmarx.left]
              /\ bus' = [bus EXCEPT !.tcie = FALSE]
         ELSE /\ isr' = [isr EXCEPT !.at = "rest"]
              /\ bus' = [StopCondition(bus) EXCEPT !.tcie = FALSE]
    /\ UNCHANGED <<drv, op, pc, rdymsg, vt, dmatx, dmarx, moved>>

\* The read phase: the receive channel is enabled.
EnableRead ==
    /\ isr.at = "enable"
    /\ drv' = [drv EXCEPT !.state = "ACTIVE_RX"]
    /\ dmarx' = Enable(dmarx)
    /\ isr' = [isr EXCEPT !.at = "start"]
    /\ UNCHANGED <<op, pc, rdymsg, vt, bus, dmatx, moved>>

\* Its START, with the length read before.
StartRead ==
    /\ isr.at = "start"
    /\ bus' = StartCondition(bus, "rx", isr.n)
    /\ isr' = [isr EXCEPT !.at = "rest", !.n = 0]
    /\ UNCHANGED <<drv, op, pc, rdymsg, vt, dmatx, dmarx, moved>>

\* i2c_lld_serve_interrupt, NACKF and STOPF.
EventIrq ==
    /\ isr.at = "rest"
    /\ IF "nack" \in isr.flags
         THEN bus' = StopCondition(bus) /\ drv' = [drv EXCEPT !.errors = @ \cup {"ack"}]
         ELSE UNCHANGED <<bus, drv>>
    /\ IF "stop" \in isr.flags
         THEN /\ dmatx' = Disable(dmatx) /\ dmarx' = Disable(dmarx)
              /\ Wake(IF drv'.errors = {} THEN "RDY_OK" ELSE "RDY_RESET")
         ELSE UNCHANGED <<dmatx, dmarx, pc, rdymsg>>
    /\ isr' = Idle
    /\ UNCHANGED <<op, vt, moved>>

Interrupt ==
    \/ DmaIrq \/ RxEnd \/ EnterError \/ EnterEvent \/ ErrorIrq
    \/ TransferComplete \/ EnableRead \/ StartRead \/ EventIrq

(***************************************************************************)
(* The bus. The slave may hold the clock for ever: no step has to happen.  *)
(***************************************************************************)
Others == <<drv, op, pc, rdymsg, vt, isr>>

Left(b) == [b EXCEPT !.left = @ - 1, !.phase = IF b.left = 1 THEN "hold" ELSE @]

ByteSent ==
    /\ bus.phase = "tx" /\ Running(dmatx)
    /\ bus' = Left(bus)
    /\ dmatx' = Transfer(dmatx)
    /\ moved' = [moved EXCEPT !.tx = @ + 1]
    /\ UNCHANGED <<Others, dmarx>>

ByteReceived ==
    /\ bus.phase = "rx" /\ Running(dmarx)
    /\ bus' = Left(bus)
    /\ dmarx' = Transfer(dmarx)
    /\ moved' = [moved EXCEPT !.rx = @ + 1]
    /\ UNCHANGED <<Others, dmatx>>

\* The address or a byte sent is not acknowledged: the peripheral sends a STOP.
Nack ==
    /\ bus.phase = "tx" \/ (bus.phase = "rx" /\ moved.rx = 0)
    /\ bus' = [bus EXCEPT !.nackf = TRUE, !.phase = "stop"]
    /\ moved' = [moved EXCEPT !.failed = TRUE]
    /\ UNCHANGED <<Others, dmatx, dmarx>>

StopSent ==
    /\ bus.phase = "stop"
    /\ bus' = [Free(bus) EXCEPT !.stopf = TRUE]
    /\ UNCHANGED <<Others, dmatx, dmarx, moved>>

\* BERR does not end the transfer, an arbitration lost does.
BusError ==
    /\ bus.phase \in {"tx", "rx", "hold"}
    /\ bus' = [bus EXCEPT !.error = "bus"]
    /\ moved' = [moved EXCEPT !.failed = TRUE, !.berr = TRUE]
    /\ UNCHANGED <<Others, dmatx, dmarx>>

ArbitrationLost ==
    /\ bus.phase \in {"tx", "rx"}
    /\ bus' = [bus EXCEPT !.error = "arlo", !.phase = "lost"]
    /\ moved' = [moved EXCEPT !.failed = TRUE]
    /\ UNCHANGED <<Others, dmatx, dmarx>>

OtherMasterStops ==
    /\ bus.phase = "lost"
    /\ bus' = Free(bus)
    /\ UNCHANGED <<Others, dmatx, dmarx, moved>>

Bus ==
    \/ ByteSent \/ ByteReceived \/ Nack \/ StopSent
    \/ BusError \/ ArbitrationLost \/ OtherMasterStops

-----------------------------------------------------------------------------
Next ==
    \/ i2cStart \/ i2cStop \/ (\E o \in Operations : Call(o))
    \/ BusyTimeout \/ Setup \/ Finish
    \/ SafetyTimeout \/ Interrupt \/ Bus

HandlerEnds == Interrupt /\ isr' = Idle /\ bus'.error = "none"

\* The processor runs what is ready and the tick goes on. Events on the bus are
\* bit times apart, handlers are shorter: what they delay is done between them, and
\* not every handler ends with another error to serve.
Fairness ==
    /\ WF_vars(Interrupt) /\ SF_vars(EnterEvent) /\ SF_vars(HandlerEnds)
    /\ SF_vars(BusyTimeout \/ Setup \/ Finish)
    /\ WF_vars(SafetyTimeout)

Spec == Init /\ [][Next]_vars /\ Fairness

-----------------------------------------------------------------------------
\* The shape of every variable.
TypeOK ==
    /\ drv \in [state : {"STOP", "READY", "ACTIVE_TX", "ACTIVE_RX", "LOCKED"},
                errors : SUBSET {"ack", "bus", "arlo"}]
    /\ op \in Operations
    /\ pc \in {"ready", "busy", "asleep", "woken"}
    /\ rdymsg \in {"RDY_OK", "RDY_RESET", "RDY_TIMEOUT"}
    /\ vt \in {"off", "armed", "fired"}
    /\ bus \in [phase : {"idle", "tx", "rx", "hold", "stop", "lost"}, left : Lengths,
                start : {"none", "tx", "rx"}, nackf : BOOLEAN, stopf : BOOLEAN,
                error : {"none", "bus", "arlo"}, tcie : BOOLEAN]
    /\ dmatx \in Channels /\ dmarx \in Channels
    /\ isr \in [at : {"none", "rxend", "error", "event", "enable", "start", "rest"},
                flags : SUBSET {"tc", "nack", "stop", "bus", "arlo"}, n : Lengths]
    /\ moved \in [tx : Lengths, rx : Lengths, failed : BOOLEAN, berr : BOOLEAN, cut : BOOLEAN]

\* RDY_OK says that this operation has moved every byte asked for: it is not
\* the STOP of the operation before, a half-transfer flag seen on the other
\* channel's behalf, or a STOP the peripheral sent by itself after a NACK.
OkMeansTransferred ==
    pc = "woken" /\ rdymsg = "RDY_OK" => moved.tx = op.tx /\ moved.rx = op.rx

\* "RDY_RESET if one or more I2C errors occurred" (i2c.c:179): in this
\* operation, not in what was left of the one before.
ResetMeansError == pc = "woken" /\ rdymsg = "RDY_RESET" => moved.failed

\* The message a call returns with is true of this operation.
AnswerIsTrue == OkMeansTransferred /\ ResetMeansError

\* After the call no byte goes to or comes from the caller's buffers, except after
\* a bus error, which wakes the caller while the transfer goes on, and after a
\* timeout in the middle of the handler that starts the read phase, whose abort the handler
\* then undoes although the abort "stops the associated DMA streams" (i2c_lld.c:132).
BuffersGivenBack ==
    [][pc = "ready" /\ ~ moved.berr /\ ~ moved.cut => ~ ByteSent /\ ~ ByteReceived]_vars

\* An operation with a timeout returns, whatever the slave does, unless the processor
\* is caught in the handler: a receive that a bus error has cut off from its channel
\* ends with TC, which a write that failed has left enabled and no branch serves.
CaughtInHandler ==
    /\ pc = "woken" /\ drv.state = "ACTIVE_RX"
    /\ bus.phase = "hold" /\ bus.tcie /\ ~ dmarx.tcie

TimedCallReturns == (pc = "busy" /\ op.timed) ~> (pc = "ready" \/ CaughtInHandler)

=============================================================================
