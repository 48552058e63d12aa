--------------------------- MODULE I2cDriverProofs ---------------------------
(***************************************************************************)
(* What holds of the I2C driver for transfers of any length: the answers   *)
(* of the calls are true and the caller's buffers are his own again when   *)
(* a call has returned, whatever the bus, the slave, the other master and  *)
(* the safety timer do between the steps of the handlers, for a client who *)
(* stops the driver after an error before he starts it again.              *)
(***************************************************************************)
EXTENDS I2cDriver, TLAPS

\* The client never starts the driver again without stopping it, except after RDY_OK.
Polite == Restarts \subseteq {"RDY_OK"}

Drivers == [state : {"STOP", "READY", "ACTIVE_TX", "ACTIVE_RX", "LOCKED"},
            errors : SUBSET {"ack", "bus", "arlo"}]

Buses == [phase : {"idle", "tx", "rx", "hold", "stop", "lost"}, left : Lengths,
          start : {"none", "tx", "rx"}, nackf : BOOLEAN, stopf : BOOLEAN,
          error : {"none", "bus", "arlo"}, tcie : BOOLEAN]

Handlers == [at : {"none", "rxend", "error", "event", "enable", "start", "rest"},
             flags : SUBSET {"tc", "nack", "stop", "bus", "arlo"}, n : Lengths]

Moves == [tx : Lengths, rx : Lengths, failed : BOOLEAN, berr : BOOLEAN, cut : BOOLEAN]

\* The handler has found that the write phase is over and has not sent the next START.
Reading == isr.at \in {"enable", "start"} \/ (isr.at = "event" /\ "tc" \in isr.flags)

\* The peripheral has as many bytes to go as its channel; a transfer that is
\* complete holds the bus.
BusOK ==
    /\ bus.start = "none"
    /\ bus.phase = "tx" => bus.left = dmatx.left /\ bus.left > 0
    /\ bus.phase = "rx" => bus.left = dmarx.left /\ bus.left > 0
    /\ moved.tx + dmatx.left <= MaxBytes /\ moved.rx + dmarx.left <= MaxBytes

\* What the handler knows of the bus.
HandlersOK ==
    /\ isr.at = "none" => isr = Idle
    /\ isr.at = "event" => "tc" \in isr.flags \/ "nack" \in isr.flags \/ "stop" \in isr.flags
    /\ Reading => /\ bus.phase \in {"hold", "idle"} /\ isr.flags = {"tc"}
                  /\ ~ bus.stopf /\ ~ bus.nackf
    /\ isr.at \in {"enable", "start"} => isr.n = dmarx.left /\ isr.n > 0 /\ ~ bus.tcie
    /\ isr.at = "error" => isr.flags = {"bus"} \/ isr.flags = {"arlo"}

\* No flag of a channel is up.
Down(c) == ~ c.half /\ ~ c.full

\* The flags of a channel are those of a transfer that was enabled, and an interrupt
\* is to come that clears them.
ChannelOK(c) ==
    /\ ~ c.en => Down(c)
    /\ c.full => c.left = 0 /\ bus.phase = "hold" /\ isr.at \in {"none", "error", "rest"}
    /\ c.en \/ c.full => c.tcie \/ ~ bus.tcie
    /\ isr.at = "rxend" => bus.phase \in {"hold", "idle"} /\ Down(c)
    /\ c.half => \/ bus.phase \in {"tx", "rx", "hold", "stop"}
                 \/ bus.stopf \/ bus.error # "none"
                 \/ isr.at = "error" \/ "stop" \in isr.flags

\* STOP and NACK, pending or read by the handler, are signs of a transfer that is over.
EventsOK ==
    /\ bus.stopf \/ "stop" \in isr.flags => bus.phase = "idle"
    /\ "stop" \in isr.flags => ~ bus.nackf
    /\ bus.nackf \/ "nack" \in isr.flags => bus.phase \in {"stop", "idle"}
    /\ "nack" \in isr.flags \/ "stop" \in isr.flags => "tc" \notin isr.flags

\* An error that was not a bus error has freed the bus.
ErrorsOK ==
    /\ bus.error = "bus" \/ "bus" \in isr.flags => moved.berr
    /\ (bus.error = "arlo" \/ "arlo" \in isr.flags) /\ ~ moved.berr =>
         bus.phase \in {"lost", "idle"} /\ ~ Reading

\* The thread is in a call: what it asked for.
CallOK ==
    /\ pc \in {"busy", "asleep"} => op.tx > 0 \/ op.rx > 0
    /\ pc = "busy" /\ op.tx = 0 => drv.state # "ACTIVE_TX"

\* The thread sleeps: how far the operation is.
Complete == moved.tx = op.tx /\ moved.rx = op.rx

SleepOK ==
    pc = "asleep" =>
      /\ op.tx > 0 => moved.tx + dmatx.left = op.tx
      /\ op.tx = 0 => moved.tx = 0
      /\ moved.rx + dmarx.left = op.rx
      /\ bus.phase = "tx" => op.tx > 0 /\ ~ dmarx.en
      /\ Reading => bus.phase = "hold"
      /\ bus.phase = "hold" /\ drv.state = "ACTIVE_TX" => op.tx > 0 /\ dmatx.left = 0
      /\ isr.at = "enable" => drv.state = "ACTIVE_TX"
      /\ dmarx.en \/ bus.phase = "rx" \/ isr.at = "start" =>
           moved.tx = op.tx /\ ~ dmatx.full /\ drv.state # "ACTIVE_TX"
      /\ isr.at = "rxend" => Complete
      /\ bus.stopf \/ "stop" \in isr.flags \/ bus.phase = "stop" =>
           \/ bus.nackf \/ "nack" \in isr.flags \/ "ack" \in drv.errors
           \/ Complete \/ isr.at = "error"
      /\ bus.nackf \/ "nack" \in isr.flags \/ bus.error # "none" \/ isr.at = "error"
           \/ drv.errors # {} => moved.failed

\* The thread does not sleep: nothing moves unless there was a bus error, or a timeout
\* in the middle of the handler.
QuietOK ==
    pc # "asleep" /\ ~ moved.berr /\ ~ moved.cut =>
      /\ bus.phase \notin {"tx", "hold"}
      /\ Reading => isr.at = "start"
      /\ bus.phase = "rx" \/ isr.at = "start" => ~ dmarx.en

\* The thread has its answer: nothing moves after RDY_OK, bus error or not.
AnswerOK ==
    /\ AnswerIsTrue
    /\ pc \in {"ready", "woken"} /\ rdymsg = "RDY_OK" =>
         bus.phase \in {"idle", "stop"} /\ ~ Reading /\ Down(dmatx) /\ Down(dmarx)

\* What holds whatever the client does.
Shape == TypeOK /\ BusOK /\ HandlersOK /\ EventsOK /\ CallOK

\* What a client who stops the driver after an error can count on.
Order ==
    /\ ChannelOK(dmatx) /\ ChannelOK(dmarx) /\ ErrorsOK
    /\ SleepOK /\ QuietOK /\ AnswerOK

Inv == Shape /\ (Polite => Order)

-----------------------------------------------------------------------------
(***************************************************************************)
(* What the operations on the channels and on the peripheral do.           *)
(***************************************************************************)
LEMMA DisableFields ==
    ASSUME NEW c \in Channels
    PROVE  /\ Disable(c) \in Channels /\ Disable(c).left = c.left
           /\ ~ Disable(c).en /\ ~ Disable(c).half /\ ~ Disable(c).full
BY DEF Disable, Channels

LEMMA SetUpFields ==
    ASSUME NEW c \in Channels, NEW n \in Lengths
    PROVE  /\ SetUp(c, n) \in Channels /\ SetUp(c, n).left = n /\ ~ SetUp(c, n).en
           /\ SetUp(c, n).half = c.half /\ SetUp(c, n).full = c.full /\ SetUp(c, n).tcie
BY DEF SetUp, Channels

LEMMA EnableFields ==
    ASSUME NEW c \in Channels
    PROVE  /\ Enable(c) \in Channels /\ Enable(c).left = c.left /\ Enable(c).en
           /\ Enable(c).half = c.half /\ Enable(c).full = c.full /\ Enable(c).tcie = c.tcie
BY DEF Enable, Channels

LEMMA OffFields ==
    Off \in Channels /\ ~ Off.en /\ ~ Off.half /\ ~ Off.full /\ Off.left = 0
<1>1. PICK z \in Lengths : z = 0
  BY BytesAssumption DEF Lengths
<1>2. Off = [en |-> FALSE, tcie |-> FALSE, left |-> z, size |-> z, half |-> FALSE,
             full |-> FALSE]
  BY <1>1 DEF Off
<1> QED
  BY <1>1, <1>2 DEF Channels

LEMMA TransferFields ==
    ASSUME NEW c \in Channels, Running(c)
    PROVE  /\ Transfer(c) \in Channels /\ Transfer(c).left = c.left - 1 /\ Transfer(c).en
           /\ Transfer(c).full <=> (c.full \/ c.left = 1)
           /\ Transfer(c).tcie = c.tcie
<1>1. PICK n \in Lengths : n = c.left - 1
  BY BytesAssumption DEF Channels, Running, Lengths
<1>2. PICK h \in BOOLEAN : h <=> (c.half \/ 2 * (c.left - 1) <= c.size)
  OBVIOUS
<1>3. PICK f \in BOOLEAN : f <=> (c.full \/ c.left = 1)
  OBVIOUS
<1>4. c.half \in BOOLEAN /\ c.full \in BOOLEAN
  BY DEF Channels
<1>5. (2 * (c.left - 1) <= c.size) \in BOOLEAN /\ (c.left = 1) \in BOOLEAN
  BY BytesAssumption DEF Channels, Lengths
<1>6. h = (c.half \/ 2 * (c.left - 1) <= c.size) /\ f = (c.full \/ c.left = 1)
  BY <1>2, <1>3, <1>4, <1>5, Zenon
<1>7. Transfer(c) = [c EXCEPT !.left = n, !.half = h, !.full = f]
  BY <1>1, <1>6, Zenon DEF Transfer
<1> QED
  BY <1>1, <1>2, <1>3, <1>7 DEF Channels, Running

LEMMA LeftFields ==
    ASSUME NEW b \in Buses, b.left > 0
    PROVE  /\ Left(b) \in Buses /\ Left(b).left = b.left - 1 /\ Left(b).start = b.start
           /\ Left(b).phase = IF b.left = 1 THEN "hold" ELSE b.phase
           /\ Left(b).nackf = b.nackf /\ Left(b).stopf = b.stopf /\ Left(b).error = b.error
           /\ Left(b).tcie = b.tcie
<1>1. PICK n \in Lengths : n = b.left - 1
  BY BytesAssumption DEF Buses, Lengths
<1>2. PICK p \in {"idle", "tx", "rx", "hold", "stop", "lost"} :
        p = IF b.left = 1 THEN "hold" ELSE b.phase
  BY DEF Buses
<1>3. Left(b) = [b EXCEPT !.left = n, !.phase = p]
  BY <1>1, <1>2 DEF Left
<1> QED
  BY <1>1, <1>2, <1>3 DEF Buses

LEMMA ResetFields ==
    ASSUME NEW b \in Buses
    PROVE  /\ Reset(b) \in Buses /\ Reset(b).phase = "idle" /\ Reset(b).left = 0
           /\ Reset(b).start = "none" /\ ~ Reset(b).nackf /\ ~ Reset(b).stopf
           /\ Reset(b).error = "none" /\ Reset(b).tcie = b.tcie
<1>1. PICK z \in Lengths : z = 0
  BY BytesAssumption DEF Lengths
<1>2. Reset(b) = [b EXCEPT !.phase = "idle", !.left = z, !.start = "none",
                           !.nackf = FALSE, !.stopf = FALSE, !.error = "none"]
  BY <1>1 DEF Reset
<1> QED
  BY <1>1, <1>2 DEF Buses

\* No START waits: the bus is free or held whenever one is sent.
LEMMA StartFields ==
    ASSUME NEW b \in Buses, b.phase \in {"idle", "hold"}, NEW d \in {"tx", "rx"},
           NEW n \in Lengths
    PROVE  LET s == StartCondition(b, d, n)
           IN  /\ s \in Buses /\ s.phase = d /\ s.left = n /\ s.start = b.start
               /\ s.nackf = b.nackf /\ s.stopf = b.stopf /\ s.error = b.error /\ s.tcie = b.tcie
BY DEF StartCondition, Buses

LEMMA FreeFields ==
    ASSUME NEW b \in Buses, b.start = "none"
    PROVE  /\ Free(b) \in Buses /\ Free(b).phase = "idle" /\ Free(b).left = b.left
           /\ Free(b).start = "none" /\ Free(b).nackf = b.nackf /\ Free(b).stopf = b.stopf
           /\ Free(b).error = b.error /\ Free(b).tcie = b.tcie
BY DEF Free, Buses

LEMMA StopFields ==
    ASSUME NEW b \in Buses
    PROVE  LET s == StopCondition(b)
           IN  /\ s \in Buses /\ s.left = b.left /\ s.start = b.start
               /\ s.phase = IF b.phase \in {"tx", "rx", "hold"} THEN "stop" ELSE b.phase
               /\ s.nackf = b.nackf /\ s.stopf = b.stopf /\ s.error = b.error /\ s.tcie = b.tcie
<1>1. PICK p \in {"idle", "tx", "rx", "hold", "stop", "lost"} :
        p = IF b.phase \in {"tx", "rx", "hold"} THEN "stop" ELSE b.phase
  BY DEF Buses
<1>2. StopCondition(b) = [b EXCEPT !.phase = p]
  BY <1>1 DEF StopCondition
<1> QED
  BY <1>1, <1>2 DEF Buses

\* The handler: none, or one that goes on to its next place.
LEMMA IdleFields == Idle \in Handlers /\ Idle.at = "none" /\ Idle.flags = {} /\ Idle.n = 0
<1>1. PICK z \in Lengths : z = 0
  BY BytesAssumption DEF Lengths
<1>2. Idle = [at |-> "none", flags |-> {}, n |-> z]
  BY <1>1 DEF Idle
<1> QED
  BY <1>1, <1>2 DEF Handlers

LEMMA MoveOn ==
    ASSUME NEW h \in Handlers,
           NEW p \in {"none", "rxend", "error", "event", "enable", "start", "rest"}
    PROVE  LET g == [h EXCEPT !.at = p]
           IN  g \in Handlers /\ g.at = p /\ g.flags = h.flags /\ g.n = h.n
BY DEF Handlers

\* The parts of the type invariant.
LEMMA Types ==
    TypeOK <=> /\ drv \in Drivers /\ op \in Operations
               /\ pc \in {"ready", "busy", "asleep", "woken"}
               /\ rdymsg \in {"RDY_OK", "RDY_RESET", "RDY_TIMEOUT"}
               /\ vt \in {"off", "armed", "fired"}
               /\ bus \in Buses /\ dmatx \in Channels /\ dmarx \in Channels
               /\ isr \in Handlers /\ moved \in Moves
BY DEF TypeOK, Drivers, Buses, Handlers, Moves

\* The numbers and the truth values of a state.
LEMMA Values ==
    ASSUME TypeOK
    PROVE  /\ op.tx \in Nat /\ op.rx \in Nat /\ op.tx <= MaxBytes /\ op.rx <= MaxBytes
           /\ op.timed \in BOOLEAN
           /\ bus.left \in Nat /\ bus.nackf \in BOOLEAN /\ bus.stopf \in BOOLEAN
           /\ bus.tcie \in BOOLEAN
           /\ dmatx.left \in Nat /\ dmarx.left \in Nat
           /\ moved.tx \in Nat /\ moved.rx \in Nat
           /\ moved.failed \in BOOLEAN /\ moved.berr \in BOOLEAN /\ moved.cut \in BOOLEAN
BY BytesAssumption DEF TypeOK, Operations, Channels, Lengths

-----------------------------------------------------------------------------
(***************************************************************************)
(* Each step keeps the invariant.                                          *)
(***************************************************************************)
\* A byte goes out.
LEMMA ByteSentKeepsInv == Inv /\ ByteSent => Inv'
<1> SUFFICES ASSUME Inv, ByteSent PROVE Inv'
  OBVIOUS
<1>0. /\ TypeOK /\ BusOK /\ HandlersOK /\ EventsOK /\ CallOK
      /\ Polite => /\ ChannelOK(dmatx) /\ ChannelOK(dmarx) /\ ErrorsOK
                   /\ SleepOK /\ QuietOK /\ AnswerOK
  BY DEF Inv, Shape, Order
<1>1. /\ bus' \in Buses /\ bus'.phase = (IF bus.left = 1 THEN "hold" ELSE bus.phase)
      /\ bus'.left = bus.left - 1 /\ bus'.start = bus.start
      /\ bus'.nackf = bus.nackf /\ bus'.stopf = bus.stopf /\ bus'.error = bus.error
      /\ bus'.tcie = bus.tcie
  BY <1>0, Types, LeftFields DEF ByteSent, BusOK
<1>2. /\ dmatx' \in Channels /\ dmatx'.left = dmatx.left - 1 /\ dmatx'.en
      /\ dmatx'.full <=> (dmatx.full \/ dmatx.left = 1)
      /\ dmatx'.tcie = dmatx.tcie
  BY <1>0, Types, TransferFields DEF ByteSent
<1>3. /\ moved' \in Moves /\ moved'.tx = moved.tx + 1 /\ moved'.rx = moved.rx
      /\ moved'.failed = moved.failed /\ moved'.berr = moved.berr /\ moved'.cut = moved.cut
  <2>1. PICK n \in Lengths : n = moved.tx + 1
    BY <1>0, Values, BytesAssumption DEF ByteSent, BusOK, Running, Lengths
  <2>2. moved' = [moved EXCEPT !.tx = n] /\ moved \in Moves
    BY <1>0, <2>1, Types DEF ByteSent
  <2> QED
    BY <2>1, <2>2 DEF Moves
<1>4. /\ drv' = drv /\ op' = op /\ pc' = pc /\ rdymsg' = rdymsg /\ vt' = vt /\ isr' = isr
      /\ dmarx' = dmarx /\ bus.phase = "tx" /\ dmatx.en /\ dmatx.left > 0
  BY DEF ByteSent, Others, Running
<1>5. Polite => /\ isr.at \in {"none", "error", "rest"} /\ "stop" \notin isr.flags /\ ~ Reading
                /\ ~ dmatx.full /\ ~ dmarx.full /\ ~ bus.stopf
  BY <1>0, <1>4, Types DEF HandlersOK, EventsOK, ChannelOK, Reading, Handlers
<1>6. /\ op.tx \in Nat /\ op.rx \in Nat /\ bus.left \in Nat /\ dmatx.left \in Nat
      /\ dmarx.left \in Nat /\ moved.tx \in Nat /\ moved.rx \in Nat /\ MaxBytes \in Nat
  BY <1>0, Values, BytesAssumption
<1>7. TypeOK'
  BY <1>0, <1>1, <1>2, <1>3, <1>4, <1>5, <1>6, Types DEF TypeOK, Drivers, Buses, Handlers, Moves
<1>8. BusOK'
  BY <1>0, <1>1, <1>2, <1>3, <1>4, <1>5, <1>6 DEF BusOK, HandlersOK, Reading
<1>9. HandlersOK'
  BY <1>0, <1>1, <1>2, <1>3, <1>4, <1>5, <1>6 DEF HandlersOK, Reading, BusOK, EventsOK
<1>10. Polite => ChannelOK(dmatx)' /\ ChannelOK(dmarx)'
  <2>1. Polite => ChannelOK(dmarx)'
    BY <1>0, <1>1, <1>4, <1>5 DEF ChannelOK, Down
  <2>2. Polite => (dmatx'.full => dmatx'.left = 0 /\ bus'.phase = "hold")
    BY <1>0, <1>1, <1>2, <1>4, <1>5, <1>6 DEF BusOK
  <2>3. Polite => (isr'.at = "rxend" => bus'.phase \in {"hold", "idle"} /\ Down(dmatx)')
    BY <1>4, <1>5
  <2>4. Polite => (dmatx'.en \/ dmatx'.full => dmatx'.tcie \/ ~ bus'.tcie)
    BY <1>0, <1>1, <1>2, <1>4 DEF ChannelOK
  <2> QED
    BY <1>1, <1>2, <1>4, <1>5, <2>1, <2>2, <2>3, <2>4 DEF ChannelOK, Down
<1>11. EventsOK'
  BY <1>0, <1>1, <1>2, <1>3, <1>4, <1>5, <1>6 DEF EventsOK, BusOK, HandlersOK, Reading
<1>12. Polite => ErrorsOK'
  BY <1>0, <1>1, <1>2, <1>3, <1>4, <1>5, <1>6 DEF ErrorsOK, BusOK, HandlersOK, EventsOK, Reading
<1>13. CallOK'
  BY <1>0, <1>1, <1>2, <1>3, <1>4, <1>5, <1>6 DEF CallOK
<1>14. Polite => SleepOK'
  BY <1>0, <1>1, <1>2, <1>3, <1>4, <1>5, <1>6 DEF SleepOK, Complete, Reading, Down, BusOK,
     HandlersOK, ChannelOK, EventsOK, ErrorsOK, CallOK
<1>15. Polite => QuietOK'
  BY <1>0, <1>1, <1>2, <1>3, <1>4, <1>5, <1>6 DEF QuietOK, SleepOK, ErrorsOK, EventsOK,
     Reading, BusOK, HandlersOK, ChannelOK
<1>16. Polite => AnswerOK'
  BY <1>0, <1>1, <1>2, <1>3, <1>4, <1>5, <1>6 DEF AnswerOK, AnswerIsTrue, OkMeansTransferred,
     ResetMeansError, SleepOK, Complete, Down, Reading, BusOK, HandlersOK, EventsOK, ErrorsOK,
     ChannelOK
<1> QED
  BY <1>7, <1>8, <1>9, <1>10, <1>11, <1>12, <1>13, <1>14, <1>15, <1>16 DEF Inv, Shape, Order

\* A byte comes in.
LEMMA ByteReceivedKeepsInv == Inv /\ ByteReceived => Inv'
<1> SUFFICES ASSUME Inv, ByteReceived PROVE Inv'
  OBVIOUS
<1>0. /\ TypeOK /\ BusOK /\ HandlersOK /\ EventsOK /\ CallOK
      /\ Polite => /\ ChannelOK(dmatx) /\ ChannelOK(dmarx) /\ ErrorsOK
                   /\ SleepOK /\ QuietOK /\ AnswerOK
  BY DEF Inv, Shape, Order
<1>1. /\ bus' \in Buses /\ bus'.phase = (IF bus.left = 1 THEN "hold" ELSE bus.phase)
      /\ bus'.left = bus.left - 1 /\ bus'.start = bus.start
      /\ bus'.nackf = bus.nackf /\ bus'.stopf = bus.stopf /\ bus'.error = bus.error
      /\ bus'.tcie = bus.tcie
  BY <1>0, Types, LeftFields DEF ByteReceived, BusOK
<1>2. /\ dmarx' \in Channels /\ dmarx'.left = dmarx.left - 1 /\ dmarx'.en
      /\ dmarx'.full <=> (dmarx.full \/ dmarx.left = 1)
      /\ dmarx'.tcie = dmarx.tcie
  BY <1>0, Types, TransferFields DEF ByteReceived
<1>3. /\ moved' \in Moves /\ moved'.rx = moved.rx + 1 /\ moved'.tx = moved.tx
      /\ moved'.failed = moved.failed /\ moved'.berr = moved.berr /\ moved'.cut = moved.cut
  <2>1. PICK n \in Lengths : n = moved.rx + 1
    BY <1>0, Values, BytesAssumption DEF ByteReceived, BusOK, Running, Lengths
  <2>2. moved' = [moved EXCEPT !.rx = n] /\ moved \in Moves
    BY <1>0, <2>1, Types DEF ByteReceived
  <2> QED
    BY <2>1, <2>2 DEF Moves
<1>4. /\ drv' = drv /\ op' = op /\ pc' = pc /\ rdymsg' = rdymsg /\ vt' = vt /\ isr' = isr
      /\ dmatx' = dmatx /\ bus.phase = "rx" /\ dmarx.en /\ dmarx.left > 0
  BY DEF ByteReceived, Others, Running
<1>5. Polite => /\ isr.at \in {"none", "error", "rest"} /\ "stop" \notin isr.flags /\ ~ Reading
                /\ ~ dmatx.full /\ ~ dmarx.full /\ ~ bus.stopf
  BY <1>0, <1>4, Types DEF HandlersOK, EventsOK, ChannelOK, Reading, Handlers
<1>6. /\ op.tx \in Nat /\ op.rx \in Nat /\ bus.left \in Nat /\ dmatx.left \in Nat
      /\ dmarx.left \in Nat /\ moved.tx \in Nat /\ moved.rx \in Nat /\ MaxBytes \in Nat
  BY <1>0, Values, BytesAssumption
<1>7. TypeOK'
  BY <1>0, <1>1, <1>2, <1>3, <1>4, <1>5, <1>6, Types DEF TypeOK, Drivers, Buses, Handlers, Moves
<1>8. BusOK'
  BY <1>0, <1>1, <1>2, <1>3, <1>4, <1>5, <1>6 DEF BusOK, HandlersOK, Reading
<1>9. HandlersOK'
  BY <1>0, <1>1, <1>2, <1>3, <1>4, <1>5, <1>6 DEF HandlersOK, Reading, BusOK, EventsOK
<1>10. Polite => ChannelOK(dmatx)' /\ ChannelOK(dmarx)'
  <2>1. Polite => ChannelOK(dmatx)'
    BY <1>0, <1>1, <1>4, <1>5 DEF ChannelOK, Down
  <2>2. Polite => (dmarx'.full => dmarx'.left = 0 /\ bus'.phase = "hold")
    BY <1>0, <1>1, <1>2, <1>4, <1>5, <1>6 DEF BusOK
  <2>3. Polite => (isr'.at = "rxend" => bus'.phase \in {"hold", "idle"} /\ Down(dmarx)')
    BY <1>4, <1>5
  <2>4. Polite => (dmarx'.en \/ dmarx'.full => dmarx'.tcie \/ ~ bus'.tcie)
    BY <1>0, <1>1, <1>2, <1>4 DEF ChannelOK
  <2> QED
    BY <1>1, <1>2, <1>4, <1>5, <2>1, <2>2, <2>3, <2>4 DEF ChannelOK, Down
<1>11. EventsOK'
  BY <1>0, <1>1, <1>2, <1>3, <1>4, <1>5, <1>6 DEF EventsOK, BusOK, HandlersOK, Reading
<1>12. Polite => ErrorsOK'
  BY <1>0, <1>1, <1>2, <1>3, <1>4, <1>5, <1>6 DEF ErrorsOK, BusOK, HandlersOK, EventsOK, Reading
<1>13. CallOK'
  BY <1>0, <1>1, <1>2, <1>3, <1>4, <1>5, <1>6 DEF CallOK
<1>14. Polite => SleepOK'
  BY <1>0, <1>1, <1>2, <1>3, <1>4, <1>5, <1>6 DEF SleepOK, Complete, Reading, Down, BusOK,
     HandlersOK, ChannelOK, EventsOK, ErrorsOK, CallOK
<1>15. Polite => QuietOK'
  BY <1>0, <1>1, <1>2, <1>3, <1>4, <1>5, <1>6 DEF QuietOK, SleepOK, ErrorsOK, EventsOK,
     Reading, BusOK, HandlersOK, ChannelOK
<1>16. Polite => AnswerOK'
  BY <1>0, <1>1, <1>2, <1>3, <1>4, <1>5, <1>6 DEF AnswerOK, AnswerIsTrue, OkMeansTransferred,
     ResetMeansError, SleepOK, Complete, Down, Reading, BusOK, HandlersOK, EventsOK, ErrorsOK,
     ChannelOK
<1> QED
  BY <1>7, <1>8, <1>9, <1>10, <1>11, <1>12, <1>13, <1>14, <1>15, <1>16 DEF Inv, Shape, Order

\* The slave does not acknowledge.
LEMMA NackKeepsInv == Inv /\ Nack => Inv'
<1> SUFFICES ASSUME Inv, Nack PROVE Inv'
  OBVIOUS
<1>0. /\ TypeOK /\ BusOK /\ HandlersOK /\ EventsOK /\ CallOK
      /\ Polite => /\ ChannelOK(dmatx) /\ ChannelOK(dmarx) /\ ErrorsOK
                   /\ SleepOK /\ QuietOK /\ AnswerOK
  BY DEF Inv, Shape, Order
<1>1. /\ bus' \in Buses /\ bus'.phase = "stop" /\ bus'.left = bus.left /\ bus'.start = bus.start
      /\ bus'.nackf /\ bus'.stopf = bus.stopf /\ bus'.error = bus.error /\ bus'.tcie = bus.tcie
  BY <1>0, Types DEF Nack, Buses
<1>2. /\ moved' \in Moves /\ moved'.tx = moved.tx /\ moved'.rx = moved.rx
      /\ moved'.failed /\ moved'.berr = moved.berr /\ moved'.cut = moved.cut
  BY <1>0, Types DEF Nack, Moves
<1>3. /\ drv' = drv /\ op' = op /\ pc' = pc /\ rdymsg' = rdymsg /\ vt' = vt /\ isr' = isr
      /\ dmatx' = dmatx /\ dmarx' = dmarx /\ bus.phase \in {"tx", "rx"}
  BY DEF Nack, Others
<1>4. /\ op.tx \in Nat /\ op.rx \in Nat /\ bus.left \in Nat /\ dmatx.left \in Nat
      /\ dmarx.left \in Nat /\ moved.tx \in Nat /\ moved.rx \in Nat /\ MaxBytes \in Nat
  BY <1>0, Values, BytesAssumption
<1>5. TypeOK'
  BY <1>0, <1>1, <1>2, <1>3, <1>4, Types DEF TypeOK, Drivers, Buses, Handlers, Moves
<1>6. BusOK'
  BY <1>0, <1>1, <1>2, <1>3, <1>4 DEF BusOK, HandlersOK, Reading
<1>7. HandlersOK'
  BY <1>0, <1>1, <1>2, <1>3, <1>4 DEF HandlersOK, Reading, BusOK, EventsOK
<1>8. Polite => ChannelOK(dmatx)' /\ ChannelOK(dmarx)'
  BY <1>0, <1>1, <1>2, <1>3, <1>4 DEF ChannelOK, Down, BusOK, HandlersOK, EventsOK, SleepOK,
     AnswerOK, Reading
<1>9. EventsOK'
  BY <1>0, <1>1, <1>2, <1>3, <1>4 DEF EventsOK, BusOK, HandlersOK, Reading
<1>10. Polite => ErrorsOK'
  BY <1>0, <1>1, <1>2, <1>3, <1>4 DEF ErrorsOK, BusOK, HandlersOK, EventsOK, Reading
<1>11. CallOK'
  BY <1>0, <1>1, <1>2, <1>3, <1>4 DEF CallOK
<1>12. Polite => SleepOK'
  BY <1>0, <1>1, <1>2, <1>3, <1>4 DEF SleepOK, Complete, Reading, Down, BusOK, HandlersOK,
     ChannelOK, EventsOK, ErrorsOK, CallOK
<1>13. Polite => QuietOK'
  BY <1>0, <1>1, <1>2, <1>3, <1>4 DEF QuietOK, SleepOK, ErrorsOK, EventsOK, Reading, BusOK,
     HandlersOK, ChannelOK
<1>14. Polite => AnswerOK'
  BY <1>0, <1>1, <1>2, <1>3, <1>4 DEF AnswerOK, AnswerIsTrue, OkMeansTransferred,
     ResetMeansError, SleepOK, Complete, Down, Reading, BusOK, HandlersOK, EventsOK, ErrorsOK,
     ChannelOK
<1> QED
  BY <1>5, <1>6, <1>7, <1>8, <1>9, <1>10, <1>11, <1>12, <1>13, <1>14 DEF Inv, Shape, Order

\* The STOP is over and the bus free.
LEMMA StopSentKeepsInv == Inv /\ StopSent => Inv'
<1> SUFFICES ASSUME Inv, StopSent PROVE Inv'
  OBVIOUS
<1>0. /\ TypeOK /\ BusOK /\ HandlersOK /\ EventsOK /\ CallOK
      /\ Polite => /\ ChannelOK(dmatx) /\ ChannelOK(dmarx) /\ ErrorsOK
                   /\ SleepOK /\ QuietOK /\ AnswerOK
  BY DEF Inv, Shape, Order
<1>1. /\ bus' \in Buses /\ bus'.phase = "idle" /\ bus'.left = bus.left /\ bus'.start = bus.start
      /\ bus'.nackf = bus.nackf /\ bus'.stopf /\ bus'.error = bus.error /\ bus'.tcie = bus.tcie
  <2>1. PICK f : f = Free(bus)
    OBVIOUS
  <2>2. f \in Buses /\ bus' = [f EXCEPT !.stopf = TRUE]
    BY <1>0, <2>1, Types, FreeFields DEF StopSent, BusOK
  <2>3. /\ f.phase = "idle" /\ f.left = bus.left /\ f.start = bus.start /\ f.nackf = bus.nackf
        /\ f.error = bus.error /\ f.tcie = bus.tcie
    BY <1>0, <2>1, Types, FreeFields DEF BusOK
  <2> QED
    BY <2>2, <2>3 DEF Buses
<1>2. /\ drv' = drv /\ op' = op /\ pc' = pc /\ rdymsg' = rdymsg /\ vt' = vt /\ isr' = isr
      /\ dmatx' = dmatx /\ dmarx' = dmarx /\ bus.phase = "stop" /\ moved' = moved
  BY DEF StopSent, Others
<1>3. /\ op.tx \in Nat /\ op.rx \in Nat /\ bus.left \in Nat /\ dmatx.left \in Nat
      /\ dmarx.left \in Nat /\ moved.tx \in Nat /\ moved.rx \in Nat /\ MaxBytes \in Nat
  BY <1>0, Values, BytesAssumption
<1>4. TypeOK'
  BY <1>0, <1>1, <1>2, <1>3, Types DEF TypeOK, Drivers, Buses, Handlers, Moves
<1>5. BusOK'
  BY <1>0, <1>1, <1>2, <1>3 DEF BusOK, HandlersOK, Reading
<1>6. HandlersOK'
  BY <1>0, <1>1, <1>2, <1>3 DEF HandlersOK, Reading, BusOK, EventsOK
<1>7. Polite => ChannelOK(dmatx)' /\ ChannelOK(dmarx)'
  BY <1>0, <1>1, <1>2, <1>3 DEF ChannelOK, Down, BusOK, HandlersOK, EventsOK, SleepOK,
     AnswerOK, Reading
<1>8. EventsOK'
  BY <1>0, <1>1, <1>2, <1>3 DEF EventsOK, BusOK, HandlersOK, Reading
<1>9. Polite => ErrorsOK'
  BY <1>0, <1>1, <1>2, <1>3 DEF ErrorsOK, BusOK, HandlersOK, EventsOK, Reading
<1>10. CallOK'
  BY <1>0, <1>1, <1>2, <1>3 DEF CallOK
<1>11. Polite => SleepOK'
  BY <1>0, <1>1, <1>2, <1>3 DEF SleepOK, Complete, Reading, Down, BusOK, HandlersOK, ChannelOK,
     EventsOK, ErrorsOK, CallOK
<1>12. Polite => QuietOK'
  BY <1>0, <1>1, <1>2, <1>3 DEF QuietOK, SleepOK, ErrorsOK, EventsOK, Reading, BusOK,
     HandlersOK, ChannelOK
<1>13. Polite => AnswerOK'
  BY <1>0, <1>1, <1>2, <1>3 DEF AnswerOK, AnswerIsTrue, OkMeansTransferred, ResetMeansError,
     SleepOK, Complete, Down, Reading, BusOK, HandlersOK, EventsOK, ErrorsOK, ChannelOK
<1> QED
  BY <1>4, <1>5, <1>6, <1>7, <1>8, <1>9, <1>10, <1>11, <1>12, <1>13 DEF Inv, Shape, Order

\* A misplaced START or STOP.
LEMMA BusErrorKeepsInv == Inv /\ BusError => Inv'
<1> SUFFICES ASSUME Inv, BusError PROVE Inv'
  OBVIOUS
<1>0. /\ TypeOK /\ BusOK /\ HandlersOK /\ EventsOK /\ CallOK
      /\ Polite => /\ ChannelOK(dmatx) /\ ChannelOK(dmarx) /\ ErrorsOK
                   /\ SleepOK /\ QuietOK /\ AnswerOK
  BY DEF Inv, Shape, Order
<1>1. /\ bus' \in Buses /\ bus'.phase = bus.phase /\ bus'.left = bus.left
      /\ bus'.start = bus.start
      /\ bus'.nackf = bus.nackf /\ bus'.stopf = bus.stopf /\ bus'.error = "bus"
      /\ bus'.tcie = bus.tcie
  BY <1>0, Types DEF BusError, Buses
<1>2. /\ moved' \in Moves /\ moved'.tx = moved.tx /\ moved'.rx = moved.rx
      /\ moved'.failed /\ moved'.berr /\ moved'.cut = moved.cut
  BY <1>0, Types DEF BusError, Moves
<1>3. /\ drv' = drv /\ op' = op /\ pc' = pc /\ rdymsg' = rdymsg /\ vt' = vt /\ isr' = isr
      /\ dmatx' = dmatx /\ dmarx' = dmarx /\ bus.phase \in {"tx", "rx", "hold"}
  BY DEF BusError, Others
<1>4. /\ op.tx \in Nat /\ op.rx \in Nat /\ bus.left \in Nat /\ dmatx.left \in Nat
      /\ dmarx.left \in Nat /\ moved.tx \in Nat /\ moved.rx \in Nat /\ MaxBytes \in Nat
  BY <1>0, Values, BytesAssumption
<1>5. TypeOK'
  BY <1>0, <1>1, <1>2, <1>3, <1>4, Types DEF TypeOK, Drivers, Buses, Handlers, Moves
<1>6. BusOK'
  BY <1>0, <1>1, <1>2, <1>3, <1>4 DEF BusOK, HandlersOK, Reading
<1>7. HandlersOK'
  BY <1>0, <1>1, <1>2, <1>3, <1>4 DEF HandlersOK, Reading, BusOK, EventsOK
<1>8. Polite => ChannelOK(dmatx)' /\ ChannelOK(dmarx)'
  BY <1>0, <1>1, <1>2, <1>3, <1>4 DEF ChannelOK, Down, BusOK, HandlersOK, EventsOK, SleepOK,
     AnswerOK, Reading
<1>9. EventsOK'
  BY <1>0, <1>1, <1>2, <1>3, <1>4 DEF EventsOK, BusOK, HandlersOK, Reading
<1>10. Polite => ErrorsOK'
  BY <1>0, <1>1, <1>2, <1>3, <1>4 DEF ErrorsOK, BusOK, HandlersOK, EventsOK, Reading
<1>11. CallOK'
  BY <1>0, <1>1, <1>2, <1>3, <1>4 DEF CallOK
<1>12. Polite => SleepOK'
  BY <1>0, <1>1, <1>2, <1>3, <1>4 DEF SleepOK, Complete, Reading, Down, BusOK, HandlersOK,
     ChannelOK, EventsOK, ErrorsOK, CallOK
<1>13. Polite => QuietOK'
  BY <1>0, <1>1, <1>2, <1>3, <1>4 DEF QuietOK, SleepOK, ErrorsOK, EventsOK, Reading, BusOK,
     HandlersOK, ChannelOK
<1>14. Polite => AnswerOK'
  BY <1>0, <1>1, <1>2, <1>3, <1>4 DEF AnswerOK, AnswerIsTrue, OkMeansTransferred,
     ResetMeansError, SleepOK, Complete, Down, Reading, BusOK, HandlersOK, EventsOK, ErrorsOK,
     ChannelOK
<1> QED
  BY <1>5, <1>6, <1>7, <1>8, <1>9, <1>10, <1>11, <1>12, <1>13, <1>14 DEF Inv, Shape, Order

\* Another master wins the bus.
LEMMA ArbitrationLostKeepsInv == Inv /\ ArbitrationLost => Inv'
<1> SUFFICES ASSUME Inv, ArbitrationLost PROVE Inv'
  OBVIOUS
<1>0. /\ TypeOK /\ BusOK /\ HandlersOK /\ EventsOK /\ CallOK
      /\ Polite => /\ ChannelOK(dmatx) /\ ChannelOK(dmarx) /\ ErrorsOK
                   /\ SleepOK /\ QuietOK /\ AnswerOK
  BY DEF Inv, Shape, Order
<1>1. /\ bus' \in Buses /\ bus'.phase = "lost" /\ bus'.left = bus.left /\ bus'.start = bus.start
      /\ bus'.nackf = bus.nackf /\ bus'.stopf = bus.stopf /\ bus'.error = "arlo"
      /\ bus'.tcie = bus.tcie
  BY <1>0, Types DEF ArbitrationLost, Buses
<1>2. /\ moved' \in Moves /\ moved'.tx = moved.tx /\ moved'.rx = moved.rx
      /\ moved'.failed /\ moved'.berr = moved.berr /\ moved'.cut = moved.cut
  BY <1>0, Types DEF ArbitrationLost, Moves
<1>3. /\ drv' = drv /\ op' = op /\ pc' = pc /\ rdymsg' = rdymsg /\ vt' = vt /\ isr' = isr
      /\ dmatx' = dmatx /\ dmarx' = dmarx /\ bus.phase \in {"tx", "rx"}
  BY DEF ArbitrationLost, Others
<1>4. /\ op.tx \in Nat /\ op.rx \in Nat /\ bus.left \in Nat /\ dmatx.left \in Nat
      /\ dmarx.left \in Nat /\ moved.tx \in Nat /\ moved.rx \in Nat /\ MaxBytes \in Nat
  BY <1>0, Values, BytesAssumption
<1>5. TypeOK'
  BY <1>0, <1>1, <1>2, <1>3, <1>4, Types DEF TypeOK, Drivers, Buses, Handlers, Moves
<1>6. BusOK'
  BY <1>0, <1>1, <1>2, <1>3, <1>4 DEF BusOK, HandlersOK, Reading
<1>7. HandlersOK'
  BY <1>0, <1>1, <1>2, <1>3, <1>4 DEF HandlersOK, Reading, BusOK, EventsOK
<1>8. Polite => ChannelOK(dmatx)' /\ ChannelOK(dmarx)'
  BY <1>0, <1>1, <1>2, <1>3, <1>4 DEF ChannelOK, Down, BusOK, HandlersOK, EventsOK, SleepOK,
     AnswerOK, Reading
<1>9. EventsOK'
  BY <1>0, <1>1, <1>2, <1>3, <1>4 DEF EventsOK, BusOK, HandlersOK, Reading
<1>10. Polite => ErrorsOK'
  BY <1>0, <1>1, <1>2, <1>3, <1>4 DEF ErrorsOK, BusOK, HandlersOK, EventsOK, Reading
<1>11. CallOK'
  BY <1>0, <1>1, <1>2, <1>3, <1>4 DEF CallOK
<1>12. Polite => SleepOK'
  BY <1>0, <1>1, <1>2, <1>3, <1>4 DEF SleepOK, Complete, Reading, Down, BusOK, HandlersOK,
     ChannelOK, EventsOK, ErrorsOK, CallOK
<1>13. Polite => QuietOK'
  BY <1>0, <1>1, <1>2, <1>3, <1>4 DEF QuietOK, SleepOK, ErrorsOK, EventsOK, Reading, BusOK,
     HandlersOK, ChannelOK
<1>14. Polite => AnswerOK'
  BY <1>0, <1>1, <1>2, <1>3, <1>4 DEF AnswerOK, AnswerIsTrue, OkMeansTransferred,
     ResetMeansError, SleepOK, Complete, Down, Reading, BusOK, HandlersOK, EventsOK, ErrorsOK,
     ChannelOK
<1> QED
  BY <1>5, <1>6, <1>7, <1>8, <1>9, <1>10, <1>11, <1>12, <1>13, <1>14 DEF Inv, Shape, Order

\* The other master leaves it.
LEMMA OtherMasterStopsKeepsInv == Inv /\ OtherMasterStops => Inv'
<1> SUFFICES ASSUME Inv, OtherMasterStops PROVE Inv'
  OBVIOUS
<1>0. /\ TypeOK /\ BusOK /\ HandlersOK /\ EventsOK /\ CallOK
      /\ Polite => /\ ChannelOK(dmatx) /\ ChannelOK(dmarx) /\ ErrorsOK
                   /\ SleepOK /\ QuietOK /\ AnswerOK
  BY DEF Inv, Shape, Order
<1>1. /\ bus' \in Buses /\ bus'.phase = "idle" /\ bus'.left = bus.left /\ bus'.start = bus.start
      /\ bus'.nackf = bus.nackf /\ bus'.stopf = bus.stopf /\ bus'.error = bus.error
      /\ bus'.tcie = bus.tcie
  BY <1>0, Types, FreeFields DEF OtherMasterStops, BusOK
<1>2. /\ drv' = drv /\ op' = op /\ pc' = pc /\ rdymsg' = rdymsg /\ vt' = vt /\ isr' = isr
      /\ dmatx' = dmatx /\ dmarx' = dmarx /\ bus.phase = "lost" /\ moved' = moved
  BY DEF OtherMasterStops, Others
<1>3. /\ op.tx \in Nat /\ op.rx \in Nat /\ bus.left \in Nat /\ dmatx.left \in Nat
      /\ dmarx.left \in Nat /\ moved.tx \in Nat /\ moved.rx \in Nat /\ MaxBytes \in Nat
  BY <1>0, Values, BytesAssumption
<1>4. TypeOK'
  BY <1>0, <1>1, <1>2, <1>3, Types DEF TypeOK, Drivers, Buses, Handlers, Moves
<1>5. BusOK'
  BY <1>0, <1>1, <1>2, <1>3 DEF BusOK, HandlersOK, Reading
<1>6. HandlersOK'
  BY <1>0, <1>1, <1>2, <1>3 DEF HandlersOK, Reading, BusOK, EventsOK
<1>7. Polite => ChannelOK(dmatx)' /\ ChannelOK(dmarx)'
  BY <1>0, <1>1, <1>2, <1>3 DEF ChannelOK, Down, BusOK, HandlersOK, EventsOK, SleepOK,
     AnswerOK, Reading
<1>8. EventsOK'
  BY <1>0, <1>1, <1>2, <1>3 DEF EventsOK, BusOK, HandlersOK, Reading
<1>9. Polite => ErrorsOK'
  BY <1>0, <1>1, <1>2, <1>3 DEF ErrorsOK, BusOK, HandlersOK, EventsOK, Reading
<1>10. CallOK'
  BY <1>0, <1>1, <1>2, <1>3 DEF CallOK
<1>11. Polite => SleepOK'
  BY <1>0, <1>1, <1>2, <1>3 DEF SleepOK, Complete, Reading, Down, BusOK, HandlersOK, ChannelOK,
     EventsOK, ErrorsOK, CallOK
<1>12. Polite => QuietOK'
  BY <1>0, <1>1, <1>2, <1>3 DEF QuietOK, SleepOK, ErrorsOK, EventsOK, Reading, BusOK,
     HandlersOK, ChannelOK
<1>13. Polite => AnswerOK'
  BY <1>0, <1>1, <1>2, <1>3 DEF AnswerOK, AnswerIsTrue, OkMeansTransferred, ResetMeansError,
     SleepOK, Complete, Down, Reading, BusOK, HandlersOK, EventsOK, ErrorsOK, ChannelOK
<1> QED
  BY <1>4, <1>5, <1>6, <1>7, <1>8, <1>9, <1>10, <1>11, <1>12, <1>13 DEF Inv, Shape, Order

\* The timer fires while the thread sleeps: the operation is aborted.
LEMMA SafetyTimeoutAsleepKeepsInv == Inv /\ SafetyTimeout /\ pc = "asleep" => Inv'
<1> SUFFICES ASSUME Inv, SafetyTimeout /\ pc = "asleep" PROVE Inv'
  OBVIOUS
<1>0. /\ TypeOK /\ BusOK /\ HandlersOK /\ EventsOK /\ CallOK
      /\ Polite => /\ ChannelOK(dmatx) /\ ChannelOK(dmarx) /\ ErrorsOK
                   /\ SleepOK /\ QuietOK /\ AnswerOK
  BY DEF Inv, Shape, Order
<1>1. /\ bus' \in Buses /\ bus'.phase = "idle" /\ bus'.left = 0 /\ bus'.start = "none"
      /\ ~ bus'.nackf /\ ~ bus'.stopf /\ bus'.error = "none" /\ bus'.tcie = bus.tcie
  BY <1>0, Types, ResetFields DEF SafetyTimeout
<1>2. /\ dmatx' \in Channels /\ dmatx'.left = dmatx.left /\ ~ dmatx'.en /\ ~ dmatx'.half
      /\ ~ dmatx'.full
      /\ dmarx' \in Channels /\ dmarx'.left = dmarx.left /\ ~ dmarx'.en /\ ~ dmarx'.half
      /\ ~ dmarx'.full
  BY <1>0, Types, DisableFields DEF SafetyTimeout
<1>3. /\ moved' \in Moves /\ moved'.tx = moved.tx /\ moved'.rx = moved.rx
      /\ moved'.failed = moved.failed /\ moved'.berr = moved.berr
      /\ moved'.cut <=> (moved.cut \/ BetweenPhases)
  <2>1. PICK c \in BOOLEAN : c <=> (moved.cut \/ BetweenPhases)
    OBVIOUS
  <2>2. moved.cut \in BOOLEAN /\ BetweenPhases \in BOOLEAN
    BY <1>0, Types DEF Moves, BetweenPhases
  <2>3. c = (moved.cut \/ BetweenPhases)
    BY <2>1, <2>2, Zenon
  <2>4. moved' = [moved EXCEPT !.cut = c] /\ moved \in Moves
    BY <1>0, <2>3, Types, Zenon DEF SafetyTimeout
  <2> QED
    BY <2>1, <2>4 DEF Moves
<1>4. /\ drv' = drv /\ op' = op /\ isr' = isr /\ vt' = "fired"
      /\ pc' = "woken" /\ rdymsg' = "RDY_TIMEOUT" /\ pc = "asleep"
  BY DEF SafetyTimeout, Wake
<1>5. /\ op.tx \in Nat /\ op.rx \in Nat /\ bus.left \in Nat /\ dmatx.left \in Nat
      /\ dmarx.left \in Nat /\ moved.tx \in Nat /\ moved.rx \in Nat /\ MaxBytes \in Nat
  BY <1>0, Values, BytesAssumption
<1>6. TypeOK'
  BY <1>0, <1>1, <1>2, <1>3, <1>4, <1>5, Types DEF TypeOK, Drivers, Buses, Handlers, Moves
<1>7. BusOK'
  BY <1>0, <1>1, <1>2, <1>3, <1>4, <1>5 DEF BusOK, HandlersOK, Reading, BetweenPhases
<1>8. HandlersOK'
  BY <1>0, <1>1, <1>2, <1>3, <1>4, <1>5 DEF HandlersOK, Reading, BetweenPhases, BusOK, EventsOK
<1>9. Polite => ChannelOK(dmatx)' /\ ChannelOK(dmarx)'
  BY <1>0, <1>1, <1>2, <1>3, <1>4, <1>5 DEF ChannelOK, Down, BusOK, HandlersOK, EventsOK,
     SleepOK, AnswerOK, Reading, BetweenPhases
<1>10. EventsOK'
  BY <1>0, <1>1, <1>2, <1>3, <1>4, <1>5 DEF EventsOK, BusOK, HandlersOK, Reading, BetweenPhases
<1>11. Polite => ErrorsOK'
  BY <1>0, <1>1, <1>2, <1>3, <1>4, <1>5 DEF ErrorsOK, BusOK, HandlersOK, EventsOK, Reading,
     BetweenPhases
<1>12. CallOK'
  BY <1>0, <1>1, <1>2, <1>3, <1>4, <1>5 DEF CallOK
<1>13. Polite => SleepOK'
  BY <1>0, <1>1, <1>2, <1>3, <1>4, <1>5 DEF SleepOK, Complete, Reading, BetweenPhases, Down,
     BusOK, HandlersOK, ChannelOK, EventsOK, ErrorsOK, CallOK
<1>14. Polite => QuietOK'
  BY <1>0, <1>1, <1>2, <1>3, <1>4, <1>5 DEF QuietOK, SleepOK, ErrorsOK, EventsOK, Reading,
     BetweenPhases, BusOK, HandlersOK, ChannelOK
<1>15. Polite => AnswerOK'
  BY <1>0, <1>1, <1>2, <1>3, <1>4, <1>5 DEF AnswerOK, AnswerIsTrue, OkMeansTransferred,
     ResetMeansError, SleepOK, Complete, Down, Reading, BetweenPhases, BusOK, HandlersOK,
     EventsOK, ErrorsOK, ChannelOK
<1> QED
  BY <1>6, <1>7, <1>8, <1>9, <1>10, <1>11, <1>12, <1>13, <1>14, <1>15 DEF Inv, Shape, Order

\* The timer fires when the thread has its answer already, or does not sleep yet.
LEMMA SafetyTimeoutAwakeKeepsInv == Inv /\ SafetyTimeout /\ pc # "asleep" => Inv'
<1> SUFFICES ASSUME Inv, SafetyTimeout /\ pc # "asleep" PROVE Inv'
  OBVIOUS
<1>0. /\ TypeOK /\ BusOK /\ HandlersOK /\ EventsOK /\ CallOK
      /\ Polite => /\ ChannelOK(dmatx) /\ ChannelOK(dmarx) /\ ErrorsOK
                   /\ SleepOK /\ QuietOK /\ AnswerOK
  BY DEF Inv, Shape, Order
<1>1. /\ moved' \in Moves /\ moved'.tx = moved.tx /\ moved'.rx = moved.rx
      /\ moved'.failed = moved.failed /\ moved'.berr = moved.berr
      /\ moved'.cut <=> (moved.cut \/ BetweenPhases)
  <2>1. PICK c \in BOOLEAN : c <=> (moved.cut \/ BetweenPhases)
    OBVIOUS
  <2>2. moved.cut \in BOOLEAN /\ BetweenPhases \in BOOLEAN
    BY <1>0, Types DEF Moves, BetweenPhases
  <2>3. c = (moved.cut \/ BetweenPhases)
    BY <2>1, <2>2, Zenon
  <2>4. moved' = [moved EXCEPT !.cut = c] /\ moved \in Moves
    BY <1>0, <2>3, Types, Zenon DEF SafetyTimeout
  <2> QED
    BY <2>1, <2>4 DEF Moves
<1>2. /\ drv' = drv /\ op' = op /\ isr' = isr /\ vt' = "fired" /\ pc # "asleep"
      /\ pc' = pc /\ rdymsg' = rdymsg /\ bus' = bus /\ dmatx' = dmatx /\ dmarx' = dmarx
  BY DEF SafetyTimeout, Wake
<1>3. /\ op.tx \in Nat /\ op.rx \in Nat /\ bus.left \in Nat /\ dmatx.left \in Nat
      /\ dmarx.left \in Nat /\ moved.tx \in Nat /\ moved.rx \in Nat /\ MaxBytes \in Nat
  BY <1>0, Values, BytesAssumption
<1>4. TypeOK'
  BY <1>0, <1>1, <1>2, <1>3, Types DEF TypeOK, Drivers, Buses, Handlers, Moves
<1>5. BusOK'
  BY <1>0, <1>1, <1>2, <1>3 DEF BusOK, HandlersOK, Reading, BetweenPhases
<1>6. HandlersOK'
  BY <1>0, <1>1, <1>2, <1>3 DEF HandlersOK, Reading, BetweenPhases, BusOK, EventsOK
<1>7. Polite => ChannelOK(dmatx)' /\ ChannelOK(dmarx)'
  BY <1>0, <1>1, <1>2, <1>3 DEF ChannelOK, Down, BusOK, HandlersOK, EventsOK, SleepOK,
     AnswerOK, Reading, BetweenPhases
<1>8. EventsOK'
  BY <1>0, <1>1, <1>2, <1>3 DEF EventsOK, BusOK, HandlersOK, Reading, BetweenPhases
<1>9. Polite => ErrorsOK'
  BY <1>0, <1>1, <1>2, <1>3 DEF ErrorsOK, BusOK, HandlersOK, EventsOK, Reading, BetweenPhases
<1>10. CallOK'
  BY <1>0, <1>1, <1>2, <1>3 DEF CallOK
<1>11. Polite => SleepOK'
  BY <1>0, <1>1, <1>2, <1>3 DEF SleepOK, Complete, Reading, BetweenPhases, Down, BusOK,
     HandlersOK, ChannelOK, EventsOK, ErrorsOK, CallOK
<1>12. Polite => QuietOK'
  BY <1>0, <1>1, <1>2, <1>3 DEF QuietOK, SleepOK, ErrorsOK, EventsOK, Reading, BetweenPhases,
     BusOK, HandlersOK, ChannelOK
<1>13. Polite => AnswerOK'
  BY <1>0, <1>1, <1>2, <1>3 DEF AnswerOK, AnswerIsTrue, OkMeansTransferred, ResetMeansError,
     SleepOK, Complete, Down, Reading, BetweenPhases, BusOK, HandlersOK, EventsOK, ErrorsOK,
     ChannelOK
<1> QED
  BY <1>4, <1>5, <1>6, <1>7, <1>8, <1>9, <1>10, <1>11, <1>12, <1>13 DEF Inv, Shape, Order

\* The shared DMA vector: a full flag is up, so that nothing is left to move.
LEMMA DmaIrqKeepsInv == Inv /\ DmaIrq => Inv'
<1> SUFFICES ASSUME Inv, DmaIrq PROVE Inv'
  OBVIOUS
<1>0. /\ TypeOK /\ BusOK /\ HandlersOK /\ EventsOK /\ CallOK
      /\ Polite => /\ ChannelOK(dmatx) /\ ChannelOK(dmarx) /\ ErrorsOK
                   /\ SleepOK /\ QuietOK /\ AnswerOK
  BY DEF Inv, Shape, Order
<1>1. /\ dmatx' \in Channels /\ dmatx'.left = dmatx.left
      /\ ~ dmatx'.half /\ ~ dmatx'.full /\ (dmatx'.en => dmatx' = dmatx)
  BY <1>0, Types, DisableFields DEF DmaIrq
<1>2. /\ dmarx' \in Channels /\ dmarx'.left = dmarx.left
      /\ ~ dmarx'.half /\ ~ dmarx'.full /\ (dmarx'.en => dmarx' = dmarx)
  BY <1>0, Types, DisableFields DEF DmaIrq
<1>3. /\ isr' \in Handlers /\ isr'.flags = {} /\ isr'.at \in {"none", "rxend"}
      /\ isr'.at = "none" => isr' = Idle
      /\ isr'.at = "rxend" => dmarx.half \/ dmarx.full
  <2>1. CASE dmarx.half \/ dmarx.full
    BY <2>1, IdleFields, MoveOn DEF DmaIrq
  <2>2. CASE ~ (dmarx.half \/ dmarx.full)
    BY <2>2, IdleFields DEF DmaIrq
  <2> QED
    BY <2>1, <2>2
<1>4. /\ drv' = drv /\ op' = op /\ pc' = pc /\ rdymsg' = rdymsg /\ vt' = vt /\ moved' = moved
      /\ bus' = bus /\ isr.at = "none" /\ isr.flags = {} /\ (dmatx.full \/ dmarx.full)
  BY IdleFields DEF DmaIrq, DmaRequest
<1>5. /\ op.tx \in Nat /\ op.rx \in Nat /\ bus.left \in Nat /\ dmatx.left \in Nat
      /\ dmarx.left \in Nat /\ moved.tx \in Nat /\ moved.rx \in Nat /\ MaxBytes \in Nat
  BY <1>0, Values, BytesAssumption
<1>6. TypeOK'
  BY <1>0, <1>1, <1>2, <1>3, <1>4, <1>5, Types DEF TypeOK, Drivers, Buses, Handlers, Moves
<1>7. BusOK'
  BY <1>0, <1>1, <1>2, <1>3, <1>4, <1>5 DEF BusOK, HandlersOK, Reading
<1>8. HandlersOK'
  BY <1>0, <1>1, <1>2, <1>3, <1>4, <1>5 DEF HandlersOK, Reading, BusOK, EventsOK
<1>9. Polite => ChannelOK(dmatx)' /\ ChannelOK(dmarx)'
  BY <1>0, <1>1, <1>2, <1>3, <1>4, <1>5 DEF ChannelOK, Down, BusOK, HandlersOK, EventsOK,
     SleepOK, AnswerOK, Reading
<1>10. EventsOK'
  BY <1>0, <1>1, <1>2, <1>3, <1>4, <1>5 DEF EventsOK, BusOK, HandlersOK, Reading
<1>11. Polite => ErrorsOK'
  BY <1>0, <1>1, <1>2, <1>3, <1>4, <1>5 DEF ErrorsOK, BusOK, HandlersOK, EventsOK, Reading
<1>12. CallOK'
  BY <1>0, <1>1, <1>2, <1>3, <1>4, <1>5 DEF CallOK
<1>13. Polite => SleepOK'
  BY <1>0, <1>1, <1>2, <1>3, <1>4, <1>5 DEF SleepOK, Complete, Reading, Down, BusOK,
     HandlersOK, ChannelOK, EventsOK, ErrorsOK, CallOK
<1>14. Polite => QuietOK'
  BY <1>0, <1>1, <1>2, <1>3, <1>4, <1>5 DEF QuietOK, SleepOK, ErrorsOK, EventsOK, Reading,
     BusOK, HandlersOK, ChannelOK
<1>15. Polite => AnswerOK'
  BY <1>0, <1>1, <1>2, <1>3, <1>4, <1>5 DEF AnswerOK, AnswerIsTrue, OkMeansTransferred,
     ResetMeansError, SleepOK, Complete, Down, Reading, BusOK, HandlersOK, EventsOK, ErrorsOK,
     ChannelOK
<1> QED
  BY <1>6, <1>7, <1>8, <1>9, <1>10, <1>11, <1>12, <1>13, <1>14, <1>15 DEF Inv, Shape, Order

\* The end of a reception, after the timeout may have come between.
LEMMA RxEndKeepsInv == Inv /\ RxEnd => Inv'
<1> SUFFICES ASSUME Inv, RxEnd PROVE Inv'
  OBVIOUS
<1>0. /\ TypeOK /\ BusOK /\ HandlersOK /\ EventsOK /\ CallOK
      /\ Polite => /\ ChannelOK(dmatx) /\ ChannelOK(dmarx) /\ ErrorsOK
                   /\ SleepOK /\ QuietOK /\ AnswerOK
  BY DEF Inv, Shape, Order
<1>1. /\ bus' \in Buses
      /\ bus'.phase = (IF bus.phase \in {"tx", "rx", "hold"} THEN "stop" ELSE bus.phase)
      /\ bus'.left = bus.left /\ bus'.start = bus.start
      /\ bus'.nackf = bus.nackf /\ bus'.stopf = bus.stopf /\ bus'.error = bus.error
      /\ bus'.tcie = bus.tcie
  BY <1>0, Types, StopFields DEF RxEnd
<1>2. /\ drv' = drv /\ op' = op /\ vt' = vt /\ dmatx' = dmatx /\ dmarx' = dmarx
      /\ moved' = moved /\ isr.at = "rxend"
      /\ isr' = Idle /\ isr'.at = "none" /\ isr'.flags = {} /\ isr' \in Handlers
  BY IdleFields DEF RxEnd
<1>3. /\ pc = "asleep" => pc' = "woken" /\ rdymsg' = "RDY_OK"
      /\ pc # "asleep" => pc' = pc /\ rdymsg' = rdymsg
  BY DEF RxEnd, Wake
<1>4. /\ op.tx \in Nat /\ op.rx \in Nat /\ bus.left \in Nat /\ dmatx.left \in Nat
      /\ dmarx.left \in Nat /\ moved.tx \in Nat /\ moved.rx \in Nat /\ MaxBytes \in Nat
  BY <1>0, Values, BytesAssumption
<1>5. TypeOK'
  BY <1>0, <1>1, <1>2, <1>3, <1>4, Types DEF TypeOK, Drivers, Buses, Handlers, Moves
<1>6. BusOK'
  BY <1>0, <1>1, <1>2, <1>3, <1>4 DEF BusOK, HandlersOK, Reading
<1>7. HandlersOK'
  BY <1>0, <1>1, <1>2, <1>3, <1>4 DEF HandlersOK, Reading, BusOK, EventsOK
<1>8. Polite => ChannelOK(dmatx)' /\ ChannelOK(dmarx)'
  BY <1>0, <1>1, <1>2, <1>3, <1>4 DEF ChannelOK, Down, BusOK, HandlersOK, EventsOK, SleepOK,
     AnswerOK, Reading
<1>9. EventsOK'
  BY <1>0, <1>1, <1>2, <1>3, <1>4 DEF EventsOK, BusOK, HandlersOK, Reading
<1>10. Polite => ErrorsOK'
  BY <1>0, <1>1, <1>2, <1>3, <1>4 DEF ErrorsOK, BusOK, HandlersOK, EventsOK, Reading
<1>11. CallOK'
  BY <1>0, <1>1, <1>2, <1>3, <1>4 DEF CallOK
<1>12. Polite => SleepOK'
  BY <1>0, <1>1, <1>2, <1>3, <1>4 DEF SleepOK, Complete, Reading, Down, BusOK, HandlersOK,
     ChannelOK, EventsOK, ErrorsOK, CallOK
<1>13. Polite => QuietOK'
  BY <1>0, <1>1, <1>2, <1>3, <1>4 DEF QuietOK, SleepOK, ErrorsOK, EventsOK, Reading, BusOK,
     HandlersOK, ChannelOK
<1>14. Polite => AnswerOK'
  BY <1>0, <1>1, <1>2, <1>3, <1>4 DEF AnswerOK, AnswerIsTrue, OkMeansTransferred,
     ResetMeansError, SleepOK, Complete, Down, Reading, BusOK, HandlersOK, EventsOK, ErrorsOK,
     ChannelOK
<1> QED
  BY <1>5, <1>6, <1>7, <1>8, <1>9, <1>10, <1>11, <1>12, <1>13, <1>14 DEF Inv, Shape, Order

\* An interrupt with an error.
LEMMA EnterErrorKeepsInv == Inv /\ EnterError => Inv'
<1> SUFFICES ASSUME Inv, EnterError PROVE Inv'
  OBVIOUS
<1>0. /\ TypeOK /\ BusOK /\ HandlersOK /\ EventsOK /\ CallOK
      /\ Polite => /\ ChannelOK(dmatx) /\ ChannelOK(dmarx) /\ ErrorsOK
                   /\ SleepOK /\ QuietOK /\ AnswerOK
  BY DEF Inv, Shape, Order
<1>1. /\ bus' \in Buses /\ bus'.phase = bus.phase /\ bus'.left = bus.left
      /\ bus'.start = bus.start
      /\ ~ bus'.nackf /\ ~ bus'.stopf /\ bus'.error = "none" /\ bus'.tcie = bus.tcie
  BY <1>0, Types DEF EnterError, Enter, Buses
<1>2. /\ drv' = drv /\ op' = op /\ vt' = vt /\ moved' = moved /\ pc' = pc /\ rdymsg' = rdymsg
      /\ dmatx' = dmatx /\ dmarx' = dmarx
  BY DEF EnterError, Enter
<1>3. /\ isr' \in Handlers /\ isr'.at = "error" /\ isr'.flags = {bus.error}
      /\ isr.at = "none" /\ isr.flags = {} /\ bus.error \in {"bus", "arlo"}
  <2>1. bus.error \in {"bus", "arlo"}
    BY <1>0, Types DEF EnterError, Buses
  <2>2. {bus.error} \in SUBSET {"tc", "nack", "stop", "bus", "arlo"}
    BY <2>1
  <2>3. PICK z \in Lengths : z = 0
    BY BytesAssumption DEF Lengths
  <2>4. isr' = [at |-> "error", flags |-> {bus.error}, n |-> z] /\ isr = Idle
    BY <2>3 DEF EnterError, Enter
  <2> QED
    BY <2>1, <2>2, <2>4, IdleFields DEF Handlers
<1>4. /\ op.tx \in Nat /\ op.rx \in Nat /\ bus.left \in Nat /\ dmatx.left \in Nat
      /\ dmarx.left \in Nat /\ moved.tx \in Nat /\ moved.rx \in Nat /\ MaxBytes \in Nat
  BY <1>0, Values, BytesAssumption
<1>5. TypeOK'
  BY <1>0, <1>1, <1>2, <1>3, <1>4, Types DEF TypeOK, Drivers, Buses, Handlers, Moves
<1>6. BusOK'
  BY <1>0, <1>1, <1>2, <1>3, <1>4 DEF BusOK, HandlersOK, Reading
<1>7. HandlersOK'
  BY <1>0, <1>1, <1>2, <1>3, <1>4 DEF HandlersOK, Reading, BusOK, EventsOK
<1>8. Polite => ChannelOK(dmatx)' /\ ChannelOK(dmarx)'
  BY <1>0, <1>1, <1>2, <1>3, <1>4 DEF ChannelOK, Down, BusOK, HandlersOK, EventsOK, SleepOK,
     AnswerOK, Reading
<1>9. EventsOK'
  BY <1>0, <1>1, <1>2, <1>3, <1>4 DEF EventsOK, BusOK, HandlersOK, Reading
<1>10. Polite => ErrorsOK'
  BY <1>0, <1>1, <1>2, <1>3, <1>4 DEF ErrorsOK, BusOK, HandlersOK, EventsOK, Reading
<1>11. CallOK'
  BY <1>0, <1>1, <1>2, <1>3, <1>4 DEF CallOK
<1>12. Polite => SleepOK'
  BY <1>0, <1>1, <1>2, <1>3, <1>4 DEF SleepOK, Complete, Reading, Down, BusOK, HandlersOK,
     ChannelOK, EventsOK, ErrorsOK, CallOK
<1>13. Polite => QuietOK'
  BY <1>0, <1>1, <1>2, <1>3, <1>4 DEF QuietOK, SleepOK, ErrorsOK, EventsOK, Reading, BusOK,
     HandlersOK, ChannelOK
<1>14. Polite => AnswerOK'
  BY <1>0, <1>1, <1>2, <1>3, <1>4 DEF AnswerOK, AnswerIsTrue, OkMeansTransferred,
     ResetMeansError, SleepOK, Complete, Down, Reading, BusOK, HandlersOK, EventsOK, ErrorsOK,
     ChannelOK
<1> QED
  BY <1>5, <1>6, <1>7, <1>8, <1>9, <1>10, <1>11, <1>12, <1>13, <1>14 DEF Inv, Shape, Order

\* An interrupt without one.
LEMMA EnterEventKeepsInv == Inv /\ EnterEvent => Inv'
<1> SUFFICES ASSUME Inv, EnterEvent PROVE Inv'
  OBVIOUS
<1>0. /\ TypeOK /\ BusOK /\ HandlersOK /\ EventsOK /\ CallOK
      /\ Polite => /\ ChannelOK(dmatx) /\ ChannelOK(dmarx) /\ ErrorsOK
                   /\ SleepOK /\ QuietOK /\ AnswerOK
  BY DEF Inv, Shape, Order
<1>1. /\ bus' \in Buses /\ bus'.phase = bus.phase /\ bus'.left = bus.left
      /\ bus'.start = bus.start
      /\ ~ bus'.nackf /\ ~ bus'.stopf /\ bus'.error = "none" /\ bus'.tcie = bus.tcie
  BY <1>0, Types DEF EnterEvent, Enter, Buses
<1>2. /\ drv' = drv /\ op' = op /\ vt' = vt /\ moved' = moved /\ pc' = pc /\ rdymsg' = rdymsg
      /\ dmatx' = dmatx /\ dmarx' = dmarx
  BY DEF EnterEvent, Enter
<1>3. /\ isr' \in Handlers /\ isr'.at = "event" /\ isr.at = "none" /\ isr.flags = {}
      /\ "tc" \in isr'.flags <=> bus.phase = "hold"
      /\ "nack" \in isr'.flags <=> bus.nackf
      /\ "stop" \in isr'.flags <=> bus.stopf
      /\ "bus" \notin isr'.flags /\ "arlo" \notin isr'.flags
      /\ bus.error = "none"
      /\ (bus.phase = "hold" /\ ~ bus.nackf /\ ~ bus.stopf => isr'.flags = {"tc"})
      /\ (bus.phase = "hold" /\ bus.tcie) \/ bus.nackf \/ bus.stopf
      /\ ~ (dmatx.tcie /\ dmatx.full) /\ ~ (dmarx.tcie /\ dmarx.full)
  <2> DEFINE fl == (IF bus.phase = "hold" THEN {"tc"} ELSE {})
                   \cup (IF bus.nackf THEN {"nack"} ELSE {})
                   \cup (IF bus.stopf THEN {"stop"} ELSE {})
  <2>1. fl \in SUBSET {"tc", "nack", "stop", "bus", "arlo"}
    OBVIOUS
  <2>2. /\ "tc" \in fl <=> bus.phase = "hold"
        /\ "nack" \in fl <=> bus.nackf
        /\ "stop" \in fl <=> bus.stopf
        /\ "bus" \notin fl /\ "arlo" \notin fl
    OBVIOUS
  <2>3. PICK z \in Lengths : z = 0
    BY BytesAssumption DEF Lengths
  <2>4. isr' = [at |-> "event", flags |-> fl, n |-> z] /\ isr = Idle
    BY <2>3 DEF EnterEvent, Enter
  <2>5. bus.phase = "hold" /\ ~ bus.nackf /\ ~ bus.stopf => fl = {"tc"}
    OBVIOUS
  <2>6. /\ (bus.phase = "hold" /\ bus.tcie) \/ bus.nackf \/ bus.stopf
        /\ ~ (dmatx.tcie /\ dmatx.full) /\ ~ (dmarx.tcie /\ dmarx.full)
    BY DEF EnterEvent, Enter, I2cRequest, DmaRequest
  <2> HIDE DEF fl
  <2> QED
    BY <2>1, <2>2, <2>4, <2>5, <2>6, IdleFields DEF Handlers, EnterEvent
<1>4. /\ op.tx \in Nat /\ op.rx \in Nat /\ bus.left \in Nat /\ dmatx.left \in Nat
      /\ dmarx.left \in Nat /\ moved.tx \in Nat /\ moved.rx \in Nat /\ MaxBytes \in Nat
  BY <1>0, Values, BytesAssumption
<1>5. TypeOK'
  BY <1>0, <1>1, <1>2, <1>3, <1>4, Types DEF TypeOK, Drivers, Buses, Handlers, Moves
<1>6. BusOK'
  BY <1>0, <1>1, <1>2, <1>3, <1>4 DEF BusOK, HandlersOK, Reading
<1>7. HandlersOK'
  BY <1>0, <1>1, <1>2, <1>3, <1>4 DEF HandlersOK, Reading, BusOK, EventsOK
<1>8. Polite => ChannelOK(dmatx)' /\ ChannelOK(dmarx)'
  BY <1>0, <1>1, <1>2, <1>3, <1>4 DEF ChannelOK, Down, BusOK, HandlersOK, EventsOK, SleepOK,
     AnswerOK, Reading
<1>9. EventsOK'
  BY <1>0, <1>1, <1>2, <1>3, <1>4 DEF EventsOK, BusOK, HandlersOK, Reading
<1>10. Polite => ErrorsOK'
  BY <1>0, <1>1, <1>2, <1>3, <1>4 DEF ErrorsOK, BusOK, HandlersOK, EventsOK, Reading
<1>11. CallOK'
  BY <1>0, <1>1, <1>2, <1>3, <1>4 DEF CallOK
<1>12. Polite => SleepOK'
  BY <1>0, <1>1, <1>2, <1>3, <1>4 DEF SleepOK, Complete, Reading, Down, BusOK, HandlersOK,
     ChannelOK, EventsOK, ErrorsOK, CallOK
<1>13. Polite => QuietOK'
  BY <1>0, <1>1, <1>2, <1>3, <1>4 DEF QuietOK, SleepOK, ErrorsOK, EventsOK, Reading, BusOK,
     HandlersOK, ChannelOK
<1>14. Polite => AnswerOK'
  BY <1>0, <1>1, <1>2, <1>3, <1>4 DEF AnswerOK, AnswerIsTrue, OkMeansTransferred,
     ResetMeansError, SleepOK, Complete, Down, Reading, BusOK, HandlersOK, EventsOK, ErrorsOK,
     ChannelOK
<1> QED
  BY <1>5, <1>6, <1>7, <1>8, <1>9, <1>10, <1>11, <1>12, <1>13, <1>14 DEF Inv, Shape, Order

\* The error handler.
LEMMA ErrorIrqKeepsInv == Inv /\ ErrorIrq => Inv'
<1> SUFFICES ASSUME Inv, ErrorIrq PROVE Inv'
  OBVIOUS
<1>0. /\ TypeOK /\ BusOK /\ HandlersOK /\ EventsOK /\ CallOK
      /\ Polite => /\ ChannelOK(dmatx) /\ ChannelOK(dmarx) /\ ErrorsOK
                   /\ SleepOK /\ QuietOK /\ AnswerOK
  BY DEF Inv, Shape, Order
<1>1. /\ dmatx' \in Channels /\ dmatx'.left = dmatx.left /\ ~ dmatx'.en /\ ~ dmatx'.half
      /\ ~ dmatx'.full
      /\ dmarx' \in Channels /\ dmarx'.left = dmarx.left /\ ~ dmarx'.en /\ ~ dmarx'.half
      /\ ~ dmarx'.full
  BY <1>0, Types, DisableFields DEF ErrorIrq
<1>2. drv' \in Drivers /\ drv'.state = drv.state /\ drv'.errors # {}
  <2>1. isr.flags = {"bus"} \/ isr.flags = {"arlo"}
    BY <1>0 DEF ErrorIrq, HandlersOK
  <2>2. isr.flags \in SUBSET {"ack", "bus", "arlo"} /\ isr.flags # {}
    BY <2>1
  <2> QED
    BY <1>0, <2>2, Types DEF ErrorIrq, Drivers
<1>3. /\ op' = op /\ vt' = vt /\ moved' = moved /\ bus' = bus /\ isr.at = "error"
      /\ isr' = Idle /\ isr'.at = "none" /\ isr'.flags = {} /\ isr' \in Handlers
  BY IdleFields DEF ErrorIrq
<1>4. /\ pc = "asleep" => pc' = "woken" /\ rdymsg' = "RDY_RESET"
      /\ pc # "asleep" => pc' = pc /\ rdymsg' = rdymsg
  BY DEF ErrorIrq, Wake
<1>5. /\ op.tx \in Nat /\ op.rx \in Nat /\ bus.left \in Nat /\ dmatx.left \in Nat
      /\ dmarx.left \in Nat /\ moved.tx \in Nat /\ moved.rx \in Nat /\ MaxBytes \in Nat
  BY <1>0, Values, BytesAssumption
<1>6. TypeOK'
  BY <1>0, <1>1, <1>2, <1>3, <1>4, <1>5, Types DEF TypeOK, Drivers, Buses, Handlers, Moves
<1>7. BusOK'
  BY <1>0, <1>1, <1>2, <1>3, <1>4, <1>5 DEF BusOK, HandlersOK, Reading
<1>8. HandlersOK'
  BY <1>0, <1>1, <1>2, <1>3, <1>4, <1>5 DEF HandlersOK, Reading, BusOK, EventsOK
<1>9. Polite => ChannelOK(dmatx)' /\ ChannelOK(dmarx)'
  BY <1>0, <1>1, <1>2, <1>3, <1>4, <1>5 DEF ChannelOK, Down, BusOK, HandlersOK, EventsOK,
     SleepOK, AnswerOK, Reading
<1>10. EventsOK'
  BY <1>0, <1>1, <1>2, <1>3, <1>4, <1>5 DEF EventsOK, BusOK, HandlersOK, Reading
<1>11. Polite => ErrorsOK'
  BY <1>0, <1>1, <1>2, <1>3, <1>4, <1>5 DEF ErrorsOK, BusOK, HandlersOK, EventsOK, Reading
<1>12. CallOK'
  BY <1>0, <1>1, <1>2, <1>3, <1>4, <1>5 DEF CallOK
<1>13. Polite => SleepOK'
  BY <1>0, <1>1, <1>2, <1>3, <1>4, <1>5 DEF SleepOK, Complete, Reading, Down, BusOK,
     HandlersOK, ChannelOK, EventsOK, ErrorsOK, CallOK
<1>14. Polite => QuietOK'
  BY <1>0, <1>1, <1>2, <1>3, <1>4, <1>5 DEF QuietOK, SleepOK, ErrorsOK, EventsOK, Reading,
     BusOK, HandlersOK, ChannelOK
<1>15. Polite => AnswerOK'
  BY <1>0, <1>1, <1>2, <1>3, <1>4, <1>5 DEF AnswerOK, AnswerIsTrue, OkMeansTransferred,
     ResetMeansError, SleepOK, Complete, Down, Reading, BusOK, HandlersOK, EventsOK, ErrorsOK,
     ChannelOK
<1> QED
  BY <1>6, <1>7, <1>8, <1>9, <1>10, <1>11, <1>12, <1>13, <1>14, <1>15 DEF Inv, Shape, Order

\* The write phase is not over, or not this operation's.
LEMMA NoTransferCompleteKeepsInv ==
    Inv /\ TransferComplete /\ ("tc" \notin isr.flags \/ drv.state # "ACTIVE_TX") => Inv'
<1> SUFFICES ASSUME Inv, TransferComplete /\ ("tc" \notin isr.flags \/ drv.state # "ACTIVE_TX")
             PROVE  Inv'
  OBVIOUS
<1>0. /\ TypeOK /\ BusOK /\ HandlersOK /\ EventsOK /\ CallOK
      /\ Polite => /\ ChannelOK(dmatx) /\ ChannelOK(dmarx) /\ ErrorsOK
                   /\ SleepOK /\ QuietOK /\ AnswerOK
  BY DEF Inv, Shape, Order
<1>1. /\ drv' = drv /\ op' = op /\ vt' = vt /\ pc' = pc /\ rdymsg' = rdymsg /\ moved' = moved
      /\ dmatx' = dmatx /\ dmarx' = dmarx /\ isr.at = "event" /\ bus' = bus
      /\ "tc" \notin isr.flags \/ drv.state # "ACTIVE_TX"
  BY DEF TransferComplete
<1>2. /\ isr' \in Handlers /\ isr'.at = "rest" /\ isr'.flags = isr.flags /\ isr'.n = isr.n
  <2>1. isr' = [isr EXCEPT !.at = "rest"] /\ isr \in Handlers
    BY <1>0, <1>1, Types DEF TransferComplete
  <2> QED
    BY <2>1, MoveOn
<1>3. /\ op.tx \in Nat /\ op.rx \in Nat /\ bus.left \in Nat /\ dmatx.left \in Nat
      /\ dmarx.left \in Nat /\ moved.tx \in Nat /\ moved.rx \in Nat /\ MaxBytes \in Nat
  BY <1>0, Values, BytesAssumption
<1>4. TypeOK'
  BY <1>0, <1>1, <1>2, <1>3, Types DEF TypeOK, Drivers, Buses, Handlers, Moves
<1>5. BusOK'
  BY <1>0, <1>1, <1>2, <1>3 DEF BusOK, HandlersOK, Reading
<1>6. HandlersOK'
  BY <1>0, <1>1, <1>2, <1>3 DEF HandlersOK, Reading, BusOK, EventsOK
<1>7. Polite => ChannelOK(dmatx)' /\ ChannelOK(dmarx)'
  BY <1>0, <1>1, <1>2, <1>3 DEF ChannelOK, Down, BusOK, HandlersOK, EventsOK, SleepOK,
     AnswerOK, Reading
<1>8. EventsOK'
  BY <1>0, <1>1, <1>2, <1>3 DEF EventsOK, BusOK, HandlersOK, Reading
<1>9. Polite => ErrorsOK'
  BY <1>0, <1>1, <1>2, <1>3 DEF ErrorsOK, BusOK, HandlersOK, EventsOK, Reading
<1>10. CallOK'
  BY <1>0, <1>1, <1>2, <1>3 DEF CallOK
<1>11. Polite => SleepOK'
  BY <1>0, <1>1, <1>2, <1>3 DEF SleepOK, Complete, Reading, Down, BusOK, HandlersOK, ChannelOK,
     EventsOK, ErrorsOK, CallOK
<1>12. Polite => QuietOK'
  BY <1>0, <1>1, <1>2, <1>3 DEF QuietOK, SleepOK, ErrorsOK, EventsOK, Reading, BusOK,
     HandlersOK, ChannelOK
<1>13. Polite => AnswerOK'
  BY <1>0, <1>1, <1>2, <1>3 DEF AnswerOK, AnswerIsTrue, OkMeansTransferred, ResetMeansError,
     SleepOK, Complete, Down, Reading, BusOK, HandlersOK, EventsOK, ErrorsOK, ChannelOK
<1> QED
  BY <1>4, <1>5, <1>6, <1>7, <1>8, <1>9, <1>10, <1>11, <1>12, <1>13 DEF Inv, Shape, Order

\* It is over, and a read phase follows.
LEMMA ReadPhaseKeepsInv ==
    ASSUME Inv,
    TransferComplete /\ "tc" \in isr.flags /\ drv.state = "ACTIVE_TX" /\ dmarx.left > 0
    PROVE  Inv'
<1>0. /\ TypeOK /\ BusOK /\ HandlersOK /\ EventsOK /\ CallOK
      /\ Polite => /\ ChannelOK(dmatx) /\ ChannelOK(dmarx) /\ ErrorsOK
                   /\ SleepOK /\ QuietOK /\ AnswerOK
  BY DEF Inv, Shape, Order
<1>1. /\ drv' = drv /\ op' = op /\ vt' = vt /\ pc' = pc /\ rdymsg' = rdymsg /\ moved' = moved
      /\ dmatx' = dmatx /\ dmarx' = dmarx /\ isr.at = "event"
      /\ "tc" \in isr.flags /\ drv.state = "ACTIVE_TX" /\ dmarx.left > 0
  BY DEF TransferComplete
<1>2. /\ bus' \in Buses /\ bus'.phase = bus.phase /\ bus'.left = bus.left
      /\ bus'.start = bus.start /\ bus'.nackf = bus.nackf /\ bus'.stopf = bus.stopf
      /\ bus'.error = bus.error /\ ~ bus'.tcie
  BY <1>0, <1>1, Types DEF TransferComplete, Buses
<1>3. /\ isr' \in Handlers /\ isr'.at = "enable" /\ isr'.flags = isr.flags
      /\ isr'.n = dmarx.left
  <2>1. dmarx.left \in Lengths
    BY <1>0, Types DEF Channels
  <2> QED
    BY <1>0, <1>1, <2>1, Types DEF TransferComplete, Handlers
<1>4. /\ op.tx \in Nat /\ op.rx \in Nat /\ bus.left \in Nat /\ dmatx.left \in Nat
      /\ dmarx.left \in Nat /\ moved.tx \in Nat /\ moved.rx \in Nat /\ MaxBytes \in Nat
  BY <1>0, Values, BytesAssumption
<1>5. TypeOK'
  BY <1>0, <1>1, <1>2, <1>3, <1>4, Types DEF TypeOK, Drivers, Buses, Handlers, Moves
<1>6. BusOK'
  BY <1>0, <1>1, <1>2, <1>3, <1>4 DEF BusOK, HandlersOK, Reading
<1>7. HandlersOK'
  BY <1>0, <1>1, <1>2, <1>3, <1>4 DEF HandlersOK, Reading, BusOK, EventsOK
<1>8. Polite => ChannelOK(dmatx)' /\ ChannelOK(dmarx)'
  BY <1>0, <1>1, <1>2, <1>3, <1>4 DEF ChannelOK, Down, BusOK, HandlersOK, EventsOK, SleepOK,
     AnswerOK, Reading
<1>9. EventsOK'
  BY <1>0, <1>1, <1>2, <1>3, <1>4 DEF EventsOK, BusOK, HandlersOK, Reading
<1>10. Polite => ErrorsOK'
  BY <1>0, <1>1, <1>2, <1>3, <1>4 DEF ErrorsOK, BusOK, HandlersOK, EventsOK, Reading
<1>11. CallOK'
  BY <1>0, <1>1, <1>2, <1>3, <1>4 DEF CallOK
<1>12. Polite => SleepOK'
  BY <1>0, <1>1, <1>2, <1>3, <1>4 DEF SleepOK, Complete, Reading, Down, BusOK, HandlersOK,
     ChannelOK, EventsOK, ErrorsOK, CallOK
<1>13. Polite => QuietOK'
  BY <1>0, <1>1, <1>2, <1>3, <1>4 DEF QuietOK, SleepOK, ErrorsOK, EventsOK, Reading, BusOK,
     HandlersOK, ChannelOK
<1>14. Polite => AnswerOK'
  BY <1>0, <1>1, <1>2, <1>3, <1>4 DEF AnswerOK, AnswerIsTrue, OkMeansTransferred,
     ResetMeansError, SleepOK, Complete, Down, Reading, BusOK, HandlersOK, EventsOK, ErrorsOK,
     ChannelOK
<1> QED
  BY <1>5, <1>6, <1>7, <1>8, <1>9, <1>10, <1>11, <1>12, <1>13, <1>14 DEF Inv, Shape, Order

\* It is over, and nothing is to be read.
LEMMA StopAfterWriteKeepsInv ==
    ASSUME Inv,
    TransferComplete /\ "tc" \in isr.flags /\ drv.state = "ACTIVE_TX" /\ ~ (dmarx.left > 0)
    PROVE  Inv'
<1>0. /\ TypeOK /\ BusOK /\ HandlersOK /\ EventsOK /\ CallOK
      /\ Polite => /\ ChannelOK(dmatx) /\ ChannelOK(dmarx) /\ ErrorsOK
                   /\ SleepOK /\ QuietOK /\ AnswerOK
  BY DEF Inv, Shape, Order
<1>1. /\ drv' = drv /\ op' = op /\ vt' = vt /\ pc' = pc /\ rdymsg' = rdymsg /\ moved' = moved
      /\ dmatx' = dmatx /\ dmarx' = dmarx /\ isr.at = "event"
      /\ "tc" \in isr.flags /\ drv.state = "ACTIVE_TX" /\ ~ (dmarx.left > 0)
  BY DEF TransferComplete
<1>2. /\ bus' \in Buses
      /\ bus'.phase = (IF bus.phase \in {"tx", "rx", "hold"} THEN "stop" ELSE bus.phase)
      /\ bus'.left = bus.left /\ bus'.start = bus.start /\ bus'.nackf = bus.nackf
      /\ bus'.stopf = bus.stopf /\ bus'.error = bus.error /\ ~ bus'.tcie
  <2>1. PICK b : b = StopCondition(bus)
    OBVIOUS
  <2>2. /\ b \in Buses /\ b.left = bus.left /\ b.start = bus.start
        /\ b.phase = IF bus.phase \in {"tx", "rx", "hold"} THEN "stop" ELSE bus.phase
        /\ b.nackf = bus.nackf /\ b.stopf = bus.stopf /\ b.error = bus.error
    BY <1>0, <2>1, Types, StopFields
  <2>3. bus' = [b EXCEPT !.tcie = FALSE]
    BY <1>1, <2>1 DEF TransferComplete
  <2> QED
    BY <2>2, <2>3 DEF Buses
<1>3. /\ isr' \in Handlers /\ isr'.at = "rest" /\ isr'.flags = isr.flags /\ isr'.n = isr.n
  <2>1. isr' = [isr EXCEPT !.at = "rest"] /\ isr \in Handlers
    BY <1>0, <1>1, Types DEF TransferComplete
  <2> QED
    BY <2>1, MoveOn
<1>4. /\ op.tx \in Nat /\ op.rx \in Nat /\ bus.left \in Nat /\ dmatx.left \in Nat
      /\ dmarx.left \in Nat /\ moved.tx \in Nat /\ moved.rx \in Nat /\ MaxBytes \in Nat
  BY <1>0, Values, BytesAssumption
<1>5. TypeOK'
  BY <1>0, <1>1, <1>2, <1>3, <1>4, Types DEF TypeOK, Drivers, Buses, Handlers, Moves
<1>6. BusOK'
  BY <1>0, <1>1, <1>2, <1>3, <1>4 DEF BusOK, HandlersOK, Reading
<1>7. HandlersOK'
  BY <1>0, <1>1, <1>2, <1>3, <1>4 DEF HandlersOK, Reading, BusOK, EventsOK
<1>8. Polite => ChannelOK(dmatx)' /\ ChannelOK(dmarx)'
  BY <1>0, <1>1, <1>2, <1>3, <1>4 DEF ChannelOK, Down, BusOK, HandlersOK, EventsOK, SleepOK,
     AnswerOK, Reading
<1>9. EventsOK'
  BY <1>0, <1>1, <1>2, <1>3, <1>4 DEF EventsOK, BusOK, HandlersOK, Reading
<1>10. Polite => ErrorsOK'
  BY <1>0, <1>1, <1>2, <1>3, <1>4 DEF ErrorsOK, BusOK, HandlersOK, EventsOK, Reading
<1>11. CallOK'
  BY <1>0, <1>1, <1>2, <1>3, <1>4 DEF CallOK
<1>12. Polite => SleepOK'
  BY <1>0, <1>1, <1>2, <1>3, <1>4 DEF SleepOK, Complete, Reading, Down, BusOK, HandlersOK,
     ChannelOK, EventsOK, ErrorsOK, CallOK
<1>13. Polite => QuietOK'
  BY <1>0, <1>1, <1>2, <1>3, <1>4 DEF QuietOK, SleepOK, ErrorsOK, EventsOK, Reading, BusOK,
     HandlersOK, ChannelOK
<1>14. Polite => AnswerOK'
  BY <1>0, <1>1, <1>2, <1>3, <1>4 DEF AnswerOK, AnswerIsTrue, OkMeansTransferred,
     ResetMeansError, SleepOK, Complete, Down, Reading, BusOK, HandlersOK, EventsOK, ErrorsOK,
     ChannelOK
<1> QED
  BY <1>5, <1>6, <1>7, <1>8, <1>9, <1>10, <1>11, <1>12, <1>13, <1>14 DEF Inv, Shape, Order

\* The receive channel is enabled.
LEMMA EnableReadKeepsInv == Inv /\ EnableRead => Inv'
<1> SUFFICES ASSUME Inv, EnableRead PROVE Inv'
  OBVIOUS
<1>0. /\ TypeOK /\ BusOK /\ HandlersOK /\ EventsOK /\ CallOK
      /\ Polite => /\ ChannelOK(dmatx) /\ ChannelOK(dmarx) /\ ErrorsOK
                   /\ SleepOK /\ QuietOK /\ AnswerOK
  BY DEF Inv, Shape, Order
<1>1. /\ op' = op /\ vt' = vt /\ pc' = pc /\ rdymsg' = rdymsg /\ moved' = moved
      /\ dmatx' = dmatx /\ bus' = bus /\ isr.at = "enable"
  BY DEF EnableRead
<1>2. dmarx' \in Channels /\ dmarx'.left = dmarx.left /\ dmarx'.en
      /\ dmarx'.half = dmarx.half /\ dmarx'.full = dmarx.full /\ dmarx'.tcie = dmarx.tcie
  BY <1>0, Types, EnableFields DEF EnableRead
<1>3. drv' \in Drivers /\ drv'.state = "ACTIVE_RX" /\ drv'.errors = drv.errors
  BY <1>0, Types DEF EnableRead, Drivers
<1>4. /\ isr' \in Handlers /\ isr'.at = "start" /\ isr'.flags = isr.flags /\ isr'.n = isr.n
  BY <1>0, Types, MoveOn DEF EnableRead
<1>5. /\ op.tx \in Nat /\ op.rx \in Nat /\ bus.left \in Nat /\ dmatx.left \in Nat
      /\ dmarx.left \in Nat /\ moved.tx \in Nat /\ moved.rx \in Nat /\ MaxBytes \in Nat
  BY <1>0, Values, BytesAssumption
<1>6. TypeOK'
  BY <1>0, <1>1, <1>2, <1>3, <1>4, <1>5, Types DEF TypeOK, Drivers, Buses, Handlers, Moves
<1>7. BusOK'
  BY <1>0, <1>1, <1>2, <1>3, <1>4, <1>5 DEF BusOK, HandlersOK, Reading
<1>8. HandlersOK'
  BY <1>0, <1>1, <1>2, <1>3, <1>4, <1>5 DEF HandlersOK, Reading, BusOK, EventsOK
<1>9. Polite => ChannelOK(dmatx)' /\ ChannelOK(dmarx)'
  BY <1>0, <1>1, <1>2, <1>3, <1>4, <1>5 DEF ChannelOK, Down, BusOK, HandlersOK, EventsOK,
     SleepOK, AnswerOK, Reading
<1>10. EventsOK'
  BY <1>0, <1>1, <1>2, <1>3, <1>4, <1>5 DEF EventsOK, BusOK, HandlersOK, Reading
<1>11. Polite => ErrorsOK'
  BY <1>0, <1>1, <1>2, <1>3, <1>4, <1>5 DEF ErrorsOK, BusOK, HandlersOK, EventsOK, Reading
<1>12. CallOK'
  BY <1>0, <1>1, <1>2, <1>3, <1>4, <1>5 DEF CallOK
<1>13. Polite => SleepOK'
  BY <1>0, <1>1, <1>2, <1>3, <1>4, <1>5 DEF SleepOK, Complete, Reading, Down, BusOK,
     HandlersOK, ChannelOK, EventsOK, ErrorsOK, CallOK
<1>14. Polite => QuietOK'
  BY <1>0, <1>1, <1>2, <1>3, <1>4, <1>5 DEF QuietOK, SleepOK, ErrorsOK, EventsOK, Reading,
     BusOK, HandlersOK, ChannelOK
<1>15. Polite => AnswerOK'
  BY <1>0, <1>1, <1>2, <1>3, <1>4, <1>5 DEF AnswerOK, AnswerIsTrue, OkMeansTransferred,
     ResetMeansError, SleepOK, Complete, Down, Reading, BusOK, HandlersOK, EventsOK, ErrorsOK,
     ChannelOK
<1> QED
  BY <1>6, <1>7, <1>8, <1>9, <1>10, <1>11, <1>12, <1>13, <1>14, <1>15 DEF Inv, Shape, Order

\* The read phase is started.
LEMMA StartReadKeepsInv == Inv /\ StartRead => Inv'
<1> SUFFICES ASSUME Inv, StartRead PROVE Inv'
  OBVIOUS
<1>0. /\ TypeOK /\ BusOK /\ HandlersOK /\ EventsOK /\ CallOK
      /\ Polite => /\ ChannelOK(dmatx) /\ ChannelOK(dmarx) /\ ErrorsOK
                   /\ SleepOK /\ QuietOK /\ AnswerOK
  BY DEF Inv, Shape, Order
<1>1. /\ drv' = drv /\ op' = op /\ vt' = vt /\ pc' = pc /\ rdymsg' = rdymsg /\ moved' = moved
      /\ dmatx' = dmatx /\ dmarx' = dmarx /\ isr.at = "start"
  BY DEF StartRead
<1>2. bus.phase \in {"idle", "hold"} /\ isr.n \in Lengths /\ isr.n = dmarx.left /\ isr.n > 0
  BY <1>0, <1>1, Types DEF HandlersOK, Reading, Handlers
<1>3. /\ bus' \in Buses /\ bus'.phase = "rx" /\ bus'.left = dmarx.left
      /\ bus'.start = bus.start
      /\ bus'.nackf = bus.nackf /\ bus'.stopf = bus.stopf /\ bus'.error = bus.error
      /\ bus'.tcie = bus.tcie
  BY <1>0, <1>2, Types, StartFields DEF StartRead
<1>4. /\ isr' \in Handlers /\ isr'.at = "rest" /\ isr'.flags = isr.flags
  <2>1. PICK z \in Lengths : z = 0
    BY BytesAssumption DEF Lengths
  <2>2. isr' = [isr EXCEPT !.at = "rest", !.n = z] /\ isr \in Handlers
    BY <1>0, <2>1, Types DEF StartRead
  <2> QED
    BY <2>2 DEF Handlers
<1>5. /\ op.tx \in Nat /\ op.rx \in Nat /\ bus.left \in Nat /\ dmatx.left \in Nat
      /\ dmarx.left \in Nat /\ moved.tx \in Nat /\ moved.rx \in Nat /\ MaxBytes \in Nat
  BY <1>0, Values, BytesAssumption
<1>6. TypeOK'
  BY <1>0, <1>1, <1>2, <1>3, <1>4, <1>5, Types DEF TypeOK, Drivers, Buses, Handlers, Moves
<1>7. BusOK'
  BY <1>0, <1>1, <1>2, <1>3, <1>4, <1>5 DEF BusOK, HandlersOK, Reading
<1>8. HandlersOK'
  BY <1>0, <1>1, <1>2, <1>3, <1>4, <1>5 DEF HandlersOK, Reading, BusOK, EventsOK
<1>9. Polite => ChannelOK(dmatx)' /\ ChannelOK(dmarx)'
  BY <1>0, <1>1, <1>2, <1>3, <1>4, <1>5 DEF ChannelOK, Down, BusOK, HandlersOK, EventsOK,
     SleepOK, AnswerOK, Reading
<1>10. EventsOK'
  BY <1>0, <1>1, <1>2, <1>3, <1>4, <1>5 DEF EventsOK, BusOK, HandlersOK, Reading
<1>11. Polite => ErrorsOK'
  BY <1>0, <1>1, <1>2, <1>3, <1>4, <1>5 DEF ErrorsOK, BusOK, HandlersOK, EventsOK, Reading
<1>12. CallOK'
  BY <1>0, <1>1, <1>2, <1>3, <1>4, <1>5 DEF CallOK
<1>13. Polite => SleepOK'
  BY <1>0, <1>1, <1>2, <1>3, <1>4, <1>5 DEF SleepOK, Complete, Reading, Down, BusOK,
     HandlersOK, ChannelOK, EventsOK, ErrorsOK, CallOK
<1>14. Polite => QuietOK'
  BY <1>0, <1>1, <1>2, <1>3, <1>4, <1>5 DEF QuietOK, SleepOK, ErrorsOK, EventsOK, Reading,
     BusOK, HandlersOK, ChannelOK
<1>15. Polite => AnswerOK'
  BY <1>0, <1>1, <1>2, <1>3, <1>4, <1>5 DEF AnswerOK, AnswerIsTrue, OkMeansTransferred,
     ResetMeansError, SleepOK, Complete, Down, Reading, BusOK, HandlersOK, EventsOK, ErrorsOK,
     ChannelOK
<1> QED
  BY <1>6, <1>7, <1>8, <1>9, <1>10, <1>11, <1>12, <1>13, <1>14, <1>15 DEF Inv, Shape, Order

\* A NACK, with or without the STOP.
LEMMA NackIrqKeepsInv == Inv /\ EventIrq /\ "nack" \in isr.flags => Inv'
<1> SUFFICES ASSUME Inv, EventIrq /\ "nack" \in isr.flags PROVE Inv'
  OBVIOUS
<1>0. /\ TypeOK /\ BusOK /\ HandlersOK /\ EventsOK /\ CallOK
      /\ Polite => /\ ChannelOK(dmatx) /\ ChannelOK(dmarx) /\ ErrorsOK
                   /\ SleepOK /\ QuietOK /\ AnswerOK
  BY DEF Inv, Shape, Order
<1>1. /\ op' = op /\ vt' = vt /\ moved' = moved /\ isr.at = "rest"
      /\ isr' = Idle /\ isr'.at = "none" /\ isr'.flags = {} /\ isr' \in Handlers
      /\ "nack" \in isr.flags
  BY IdleFields DEF EventIrq
<1>2. /\ bus' \in Buses /\ bus'.left = bus.left /\ bus'.start = bus.start
      /\ bus'.phase = (IF bus.phase \in {"tx", "rx", "hold"} THEN "stop" ELSE bus.phase)
      /\ bus'.nackf = bus.nackf /\ bus'.stopf = bus.stopf /\ bus'.error = bus.error
      /\ bus'.tcie = bus.tcie
  BY <1>0, <1>1, Types, StopFields DEF EventIrq
<1>3. drv' \in Drivers /\ drv'.state = drv.state /\ "ack" \in drv'.errors
  BY <1>0, <1>1, Types DEF EventIrq, Drivers
<1>4. /\ dmatx' \in Channels /\ dmatx'.left = dmatx.left /\ dmarx' \in Channels
      /\ dmarx'.left = dmarx.left
      /\ "stop" \in isr.flags => ~ dmatx'.en /\ Down(dmatx)' /\ ~ dmarx'.en /\ Down(dmarx)'
      /\ "stop" \notin isr.flags => dmatx' = dmatx /\ dmarx' = dmarx
  BY <1>0, Types, DisableFields DEF EventIrq, Down
<1>5. /\ "stop" \in isr.flags /\ pc = "asleep" =>
           pc' = "woken" /\ rdymsg' = IF drv'.errors = {} THEN "RDY_OK" ELSE "RDY_RESET"
      /\ "stop" \notin isr.flags \/ pc # "asleep" => pc' = pc /\ rdymsg' = rdymsg
  BY DEF EventIrq, Wake
<1>6. /\ op.tx \in Nat /\ op.rx \in Nat /\ bus.left \in Nat /\ dmatx.left \in Nat
      /\ dmarx.left \in Nat /\ moved.tx \in Nat /\ moved.rx \in Nat /\ MaxBytes \in Nat
  BY <1>0, Values, BytesAssumption
<1>7. TypeOK'
  BY <1>0, <1>1, <1>2, <1>3, <1>4, <1>5, <1>6, Types DEF TypeOK, Drivers, Buses, Handlers, Moves
<1>8. BusOK'
  BY <1>0, <1>1, <1>2, <1>3, <1>4, <1>5, <1>6 DEF BusOK, HandlersOK, Reading
<1>9. HandlersOK'
  BY <1>0, <1>1, <1>2, <1>3, <1>4, <1>5, <1>6 DEF HandlersOK, Reading, BusOK, EventsOK
<1>10. Polite => ChannelOK(dmatx)' /\ ChannelOK(dmarx)'
  BY <1>0, <1>1, <1>2, <1>3, <1>4, <1>5, <1>6 DEF ChannelOK, Down, BusOK, HandlersOK, EventsOK,
     SleepOK, AnswerOK, Reading
<1>11. EventsOK'
  BY <1>0, <1>1, <1>2, <1>3, <1>4, <1>5, <1>6 DEF EventsOK, BusOK, HandlersOK, Reading
<1>12. Polite => ErrorsOK'
  BY <1>0, <1>1, <1>2, <1>3, <1>4, <1>5, <1>6 DEF ErrorsOK, BusOK, HandlersOK, EventsOK, Reading
<1>13. CallOK'
  BY <1>0, <1>1, <1>2, <1>3, <1>4, <1>5, <1>6 DEF CallOK
<1>14. Polite => SleepOK'
  BY <1>0, <1>1, <1>2, <1>3, <1>4, <1>5, <1>6 DEF SleepOK, Complete, Reading, Down, BusOK,
     HandlersOK, ChannelOK, EventsOK, ErrorsOK, CallOK
<1>15. Polite => QuietOK'
  BY <1>0, <1>1, <1>2, <1>3, <1>4, <1>5, <1>6 DEF QuietOK, SleepOK, ErrorsOK, EventsOK,
     Reading, BusOK, HandlersOK, ChannelOK
<1>16. Polite => AnswerOK'
  BY <1>0, <1>1, <1>2, <1>3, <1>4, <1>5, <1>6 DEF AnswerOK, AnswerIsTrue, OkMeansTransferred,
     ResetMeansError, SleepOK, Complete, Down, Reading, BusOK, HandlersOK, EventsOK, ErrorsOK,
     ChannelOK
<1> QED
  BY <1>7, <1>8, <1>9, <1>10, <1>11, <1>12, <1>13, <1>14, <1>15, <1>16 DEF Inv, Shape, Order

\* The STOP without a NACK, or neither.
LEMMA StopIrqKeepsInv == Inv /\ EventIrq /\ "nack" \notin isr.flags => Inv'
<1> SUFFICES ASSUME Inv, EventIrq /\ "nack" \notin isr.flags PROVE Inv'
  OBVIOUS
<1>0. /\ TypeOK /\ BusOK /\ HandlersOK /\ EventsOK /\ CallOK
      /\ Polite => /\ ChannelOK(dmatx) /\ ChannelOK(dmarx) /\ ErrorsOK
                   /\ SleepOK /\ QuietOK /\ AnswerOK
  BY DEF Inv, Shape, Order
<1>1. /\ op' = op /\ vt' = vt /\ moved' = moved /\ isr.at = "rest"
      /\ isr' = Idle /\ isr'.at = "none" /\ isr'.flags = {} /\ isr' \in Handlers
      /\ "nack" \notin isr.flags
  BY IdleFields DEF EventIrq
<1>2. bus' = bus /\ drv' = drv
  BY <1>1 DEF EventIrq
<1>3. /\ dmatx' \in Channels /\ dmatx'.left = dmatx.left /\ dmarx' \in Channels
      /\ dmarx'.left = dmarx.left
      /\ "stop" \in isr.flags => ~ dmatx'.en /\ Down(dmatx)' /\ ~ dmarx'.en /\ Down(dmarx)'
      /\ "stop" \notin isr.flags => dmatx' = dmatx /\ dmarx' = dmarx
  BY <1>0, Types, DisableFields DEF EventIrq, Down
<1>4. /\ "stop" \in isr.flags /\ pc = "asleep" =>
           pc' = "woken" /\ rdymsg' = IF drv'.errors = {} THEN "RDY_OK" ELSE "RDY_RESET"
      /\ "stop" \notin isr.flags \/ pc # "asleep" => pc' = pc /\ rdymsg' = rdymsg
  BY DEF EventIrq, Wake
<1>5. /\ op.tx \in Nat /\ op.rx \in Nat /\ bus.left \in Nat /\ dmatx.left \in Nat
      /\ dmarx.left \in Nat /\ moved.tx \in Nat /\ moved.rx \in Nat /\ MaxBytes \in Nat
  BY <1>0, Values, BytesAssumption
<1>6. TypeOK'
  BY <1>0, <1>1, <1>2, <1>3, <1>4, <1>5, Types DEF TypeOK, Drivers, Buses, Handlers, Moves
<1>7. BusOK'
  BY <1>0, <1>1, <1>2, <1>3, <1>4, <1>5 DEF BusOK, HandlersOK, Reading
<1>8. HandlersOK'
  BY <1>0, <1>1, <1>2, <1>3, <1>4, <1>5 DEF HandlersOK, Reading, BusOK, EventsOK
<1>9. Polite => ChannelOK(dmatx)' /\ ChannelOK(dmarx)'
  BY <1>0, <1>1, <1>2, <1>3, <1>4, <1>5 DEF ChannelOK, Down, BusOK, HandlersOK, EventsOK,
     SleepOK, AnswerOK, Reading
<1>10. EventsOK'
  BY <1>0, <1>1, <1>2, <1>3, <1>4, <1>5 DEF EventsOK, BusOK, HandlersOK, Reading
<1>11. Polite => ErrorsOK'
  BY <1>0, <1>1, <1>2, <1>3, <1>4, <1>5 DEF ErrorsOK, BusOK, HandlersOK, EventsOK, Reading
<1>12. CallOK'
  BY <1>0, <1>1, <1>2, <1>3, <1>4, <1>5 DEF CallOK
<1>13. Polite => SleepOK'
  BY <1>0, <1>1, <1>2, <1>3, <1>4, <1>5 DEF SleepOK, Complete, Reading, Down, BusOK,
     HandlersOK, ChannelOK, EventsOK, ErrorsOK, CallOK
<1>14. Polite => QuietOK'
  BY <1>0, <1>1, <1>2, <1>3, <1>4, <1>5 DEF QuietOK, SleepOK, ErrorsOK, EventsOK, Reading,
     BusOK, HandlersOK, ChannelOK
<1>15. Polite => AnswerOK'
  <2>1. CASE "stop" \in isr.flags /\ pc = "asleep"
    <3>1. Polite => (drv.errors = {} => Complete)
      <4>1. Polite => Complete \/ "ack" \in drv.errors
        BY <1>0, <1>1, <2>1 DEF SleepOK, EventsOK
      <4> QED
        BY <4>1
    <3>4. Polite => (drv.errors # {} => moved.failed)
      BY <1>0, <1>1, <2>1 DEF SleepOK
    <3>2. bus'.phase = "idle" /\ ~ Reading'
      BY <1>0, <1>1, <1>2, <2>1 DEF EventsOK, Reading
    <3>3. pc' = "woken" /\ rdymsg' = IF drv.errors = {} THEN "RDY_OK" ELSE "RDY_RESET"
      BY <1>2, <1>4, <2>1
    <3> QED
      BY <1>1, <1>3, <2>1, <3>1, <3>2, <3>3, <3>4
         DEF AnswerOK, AnswerIsTrue, OkMeansTransferred, ResetMeansError, Complete
  <2>2. CASE ~ ("stop" \in isr.flags /\ pc = "asleep")
    BY <2>2, <1>0, <1>1, <1>2, <1>3, <1>4, <1>5 DEF AnswerOK, AnswerIsTrue, OkMeansTransferred,
       ResetMeansError, Down, Reading
  <2> QED
    BY <2>1, <2>2
<1> QED
  BY <1>6, <1>7, <1>8, <1>9, <1>10, <1>11, <1>12, <1>13, <1>14, <1>15 DEF Inv, Shape, Order

\* The driver is started: after an error only when it has been stopped.
LEMMA StartKeepsInv == Inv /\ i2cStart => Inv'
<1> SUFFICES ASSUME Inv, i2cStart PROVE Inv'
  OBVIOUS
<1>0. /\ TypeOK /\ BusOK /\ HandlersOK /\ EventsOK /\ CallOK
      /\ Polite => /\ ChannelOK(dmatx) /\ ChannelOK(dmarx) /\ ErrorsOK
                   /\ SleepOK /\ QuietOK /\ AnswerOK
  BY DEF Inv, Shape, Order
<1>1. /\ bus' \in Buses /\ bus'.phase = "idle" /\ bus'.start = "none"
      /\ ~ bus'.nackf /\ ~ bus'.stopf /\ bus'.error = "none" /\ ~ bus'.tcie
  <2>1. PICK b : b = Reset(bus)
    OBVIOUS
  <2>2. /\ b \in Buses /\ b.phase = "idle" /\ b.start = "none" /\ ~ b.nackf /\ ~ b.stopf
        /\ b.error = "none"
    BY <1>0, <2>1, Types, ResetFields
  <2>3. bus' = [b EXCEPT !.tcie = FALSE]
    BY <2>1 DEF i2cStart
  <2> QED
    BY <2>2, <2>3 DEF Buses
<1>2. drv' \in Drivers /\ drv'.state = "READY" /\ drv'.errors = drv.errors
  BY <1>0, Types DEF i2cStart, Drivers
<1>3. /\ moved' \in Moves /\ moved'.tx = moved.tx /\ moved'.rx = moved.rx
      /\ moved'.failed = moved.failed /\ ~ moved'.berr /\ ~ moved'.cut
  BY <1>0, Types DEF i2cStart, Moves
<1>4. /\ isr' = isr /\ isr = Idle /\ isr.at = "none" /\ isr.flags = {} /\ isr \in Handlers
  BY IdleFields DEF i2cStart, ThreadRuns
<1>5. /\ op' = op /\ pc' = pc /\ pc = "ready" /\ rdymsg' = rdymsg /\ vt' = vt
      /\ drv.state = "STOP" \/ rdymsg \in Restarts
  BY DEF i2cStart
<1>6. /\ dmatx' \in Channels /\ dmatx'.left = dmatx.left /\ dmarx' \in Channels
      /\ dmarx'.left = dmarx.left
      /\ ~ dmatx'.en \/ dmatx' = dmatx
      /\ ~ dmarx'.en \/ dmarx' = dmarx
  BY <1>0, Types, DisableFields DEF i2cStart
<1>7. Polite => Down(dmatx)' /\ Down(dmarx)'
  <2>1. CASE drv.state = "STOP"
    BY <1>0, <2>1, Types, DisableFields DEF i2cStart, Down
  <2>2. CASE drv.state # "STOP"
    <3>1. Polite => rdymsg = "RDY_OK"
      BY <1>5, <2>2 DEF Polite
    <3>2. dmatx' = dmatx /\ dmarx' = dmarx
      BY <2>2 DEF i2cStart
    <3> QED
      BY <1>0, <1>5, <3>1, <3>2 DEF AnswerOK, Down
  <2> QED
    BY <2>1, <2>2
<1>8. /\ op.tx \in Nat /\ op.rx \in Nat /\ bus.left \in Nat /\ dmatx.left \in Nat
      /\ dmarx.left \in Nat /\ moved.tx \in Nat /\ moved.rx \in Nat /\ MaxBytes \in Nat
  BY <1>0, Values, BytesAssumption
<1>9. TypeOK'
  BY <1>0, <1>1, <1>2, <1>3, <1>4, <1>5, <1>6, <1>7, <1>8, Types DEF TypeOK, Drivers, Buses,
     Handlers, Moves
<1>10. BusOK'
  BY <1>0, <1>1, <1>2, <1>3, <1>4, <1>5, <1>6, <1>7, <1>8 DEF BusOK, HandlersOK, Reading
<1>11. HandlersOK'
  BY <1>0, <1>1, <1>2, <1>3, <1>4, <1>5, <1>6, <1>7, <1>8 DEF HandlersOK, Reading, BusOK,
     EventsOK
<1>12. Polite => ChannelOK(dmatx)' /\ ChannelOK(dmarx)'
  BY <1>0, <1>1, <1>2, <1>3, <1>4, <1>5, <1>6, <1>7, <1>8 DEF ChannelOK, Down, BusOK,
     HandlersOK, EventsOK, SleepOK, AnswerOK, Reading
<1>13. EventsOK'
  BY <1>0, <1>1, <1>2, <1>3, <1>4, <1>5, <1>6, <1>7, <1>8 DEF EventsOK, BusOK, HandlersOK,
     Reading
<1>14. Polite => ErrorsOK'
  BY <1>0, <1>1, <1>2, <1>3, <1>4, <1>5, <1>6, <1>7, <1>8 DEF ErrorsOK, BusOK, HandlersOK,
     EventsOK, Reading
<1>15. CallOK'
  BY <1>0, <1>1, <1>2, <1>3, <1>4, <1>5, <1>6, <1>7, <1>8 DEF CallOK
<1>16. Polite => SleepOK'
  BY <1>0, <1>1, <1>2, <1>3, <1>4, <1>5, <1>6, <1>7, <1>8 DEF SleepOK, Complete, Reading, Down,
     BusOK, HandlersOK, ChannelOK, EventsOK, ErrorsOK, CallOK
<1>17. Polite => QuietOK'
  BY <1>0, <1>1, <1>2, <1>3, <1>4, <1>5, <1>6, <1>7, <1>8 DEF QuietOK, SleepOK, ErrorsOK,
     EventsOK, Reading, BusOK, HandlersOK, ChannelOK
<1>18. Polite => AnswerOK'
  BY <1>0, <1>1, <1>2, <1>3, <1>4, <1>5, <1>6, <1>7, <1>8 DEF AnswerOK, AnswerIsTrue,
     OkMeansTransferred, ResetMeansError, SleepOK, Complete, Down, Reading, BusOK, HandlersOK,
     EventsOK, ErrorsOK, ChannelOK
<1> QED
  BY <1>9, <1>10, <1>11, <1>12, <1>13, <1>14, <1>15, <1>16, <1>17, <1>18 DEF Inv, Shape, Order

\* The driver is stopped.
LEMMA StopKeepsInv == Inv /\ i2cStop => Inv'
<1> SUFFICES ASSUME Inv, i2cStop PROVE Inv'
  OBVIOUS
<1>0. /\ TypeOK /\ BusOK /\ HandlersOK /\ EventsOK /\ CallOK
      /\ Polite => /\ ChannelOK(dmatx) /\ ChannelOK(dmarx) /\ ErrorsOK
                   /\ SleepOK /\ QuietOK /\ AnswerOK
  BY DEF Inv, Shape, Order
<1>1. /\ bus' \in Buses /\ bus'.phase = "idle" /\ bus'.start = "none"
      /\ ~ bus'.nackf /\ ~ bus'.stopf /\ bus'.error = "none"
  BY <1>0, Types, ResetFields DEF i2cStop
<1>2. drv' \in Drivers /\ drv'.errors = drv.errors
  BY <1>0, Types DEF i2cStop, Drivers
<1>3. /\ dmatx' \in Channels /\ dmatx'.left = dmatx.left /\ ~ dmatx'.en /\ ~ dmatx'.half
      /\ ~ dmatx'.full
      /\ dmarx' \in Channels /\ dmarx'.left = dmarx.left /\ ~ dmarx'.en /\ ~ dmarx'.half
      /\ ~ dmarx'.full
  BY <1>0, Types, DisableFields DEF i2cStop
<1>4. /\ isr' = isr /\ isr = Idle /\ isr.at = "none" /\ isr.flags = {} /\ isr \in Handlers
  BY IdleFields DEF i2cStop, ThreadRuns
<1>5. op' = op /\ pc' = pc /\ pc = "ready" /\ rdymsg' = rdymsg /\ vt' = vt /\ moved' = moved
  BY DEF i2cStop
<1>6. /\ op.tx \in Nat /\ op.rx \in Nat /\ bus.left \in Nat /\ dmatx.left \in Nat
      /\ dmarx.left \in Nat /\ moved.tx \in Nat /\ moved.rx \in Nat /\ MaxBytes \in Nat
  BY <1>0, Values, BytesAssumption
<1>7. TypeOK'
  BY <1>0, <1>1, <1>2, <1>3, <1>4, <1>5, <1>6, Types DEF TypeOK, Drivers, Buses, Handlers, Moves
<1>8. BusOK'
  BY <1>0, <1>1, <1>2, <1>3, <1>4, <1>5, <1>6 DEF BusOK, HandlersOK, Reading
<1>9. HandlersOK'
  BY <1>0, <1>1, <1>2, <1>3, <1>4, <1>5, <1>6 DEF HandlersOK, Reading, BusOK, EventsOK
<1>10. Polite => ChannelOK(dmatx)' /\ ChannelOK(dmarx)'
  BY <1>0, <1>1, <1>2, <1>3, <1>4, <1>5, <1>6 DEF ChannelOK, Down, BusOK, HandlersOK, EventsOK,
     SleepOK, AnswerOK, Reading
<1>11. EventsOK'
  BY <1>0, <1>1, <1>2, <1>3, <1>4, <1>5, <1>6 DEF EventsOK, BusOK, HandlersOK, Reading
<1>12. Polite => ErrorsOK'
  BY <1>0, <1>1, <1>2, <1>3, <1>4, <1>5, <1>6 DEF ErrorsOK, BusOK, HandlersOK, EventsOK, Reading
<1>13. CallOK'
  BY <1>0, <1>1, <1>2, <1>3, <1>4, <1>5, <1>6 DEF CallOK
<1>14. Polite => SleepOK'
  BY <1>0, <1>1, <1>2, <1>3, <1>4, <1>5, <1>6 DEF SleepOK, Complete, Reading, Down, BusOK,
     HandlersOK, ChannelOK, EventsOK, ErrorsOK, CallOK
<1>15. Polite => QuietOK'
  BY <1>0, <1>1, <1>2, <1>3, <1>4, <1>5, <1>6 DEF QuietOK, SleepOK, ErrorsOK, EventsOK,
     Reading, BusOK, HandlersOK, ChannelOK
<1>16. Polite => AnswerOK'
  BY <1>0, <1>1, <1>2, <1>3, <1>4, <1>5, <1>6 DEF AnswerOK, AnswerIsTrue, OkMeansTransferred,
     ResetMeansError, SleepOK, Complete, Down, Reading, BusOK, HandlersOK, EventsOK, ErrorsOK,
     ChannelOK
<1> QED
  BY <1>7, <1>8, <1>9, <1>10, <1>11, <1>12, <1>13, <1>14, <1>15, <1>16 DEF Inv, Shape, Order

\* A call, up to the wait for BUSY.
LEMMA CallKeepsInv == Inv /\ (\E o \in Operations : Call(o)) => Inv'
<1> SUFFICES ASSUME Inv, (\E o \in Operations : Call(o)) PROVE Inv'
  OBVIOUS
<1>0. /\ TypeOK /\ BusOK /\ HandlersOK /\ EventsOK /\ CallOK
      /\ Polite => /\ ChannelOK(dmatx) /\ ChannelOK(dmarx) /\ ErrorsOK
                   /\ SleepOK /\ QuietOK /\ AnswerOK
  BY DEF Inv, Shape, Order
<1>1. PICK o \in Operations : Call(o)
  OBVIOUS
<1>2. /\ drv' \in Drivers /\ drv'.errors = {}
      /\ drv'.state = IF o.tx > 0 THEN "ACTIVE_TX" ELSE "ACTIVE_RX"
  BY <1>1 DEF Call, Drivers
<1>3. /\ op' = o /\ op' \in Operations /\ pc' = "busy" /\ vt' \in {"armed", "off"}
      /\ pc = "ready"
      /\ rdymsg' = rdymsg /\ moved' = moved /\ bus' = bus
      /\ dmatx' = dmatx /\ dmarx' = dmarx /\ (o.tx > 0 \/ o.rx > 0)
      /\ o.tx \in Nat /\ o.rx \in Nat
  BY <1>1, BytesAssumption DEF Call, Operations, Lengths
<1>4. /\ isr' = isr /\ isr = Idle /\ isr.at = "none" /\ isr.flags = {} /\ isr \in Handlers
  BY <1>1, IdleFields DEF Call, ThreadRuns
<1>5. /\ op.tx \in Nat /\ op.rx \in Nat /\ bus.left \in Nat /\ dmatx.left \in Nat
      /\ dmarx.left \in Nat /\ moved.tx \in Nat /\ moved.rx \in Nat /\ MaxBytes \in Nat
  BY <1>0, Values, BytesAssumption
<1>6. TypeOK'
  BY <1>0, <1>1, <1>2, <1>3, <1>4, <1>5, Types DEF TypeOK, Drivers, Buses, Handlers, Moves
<1>7. BusOK'
  BY <1>0, <1>1, <1>2, <1>3, <1>4, <1>5 DEF BusOK, HandlersOK, Reading
<1>8. HandlersOK'
  BY <1>0, <1>1, <1>2, <1>3, <1>4, <1>5 DEF HandlersOK, Reading, BusOK, EventsOK
<1>9. Polite => ChannelOK(dmatx)' /\ ChannelOK(dmarx)'
  BY <1>0, <1>1, <1>2, <1>3, <1>4, <1>5 DEF ChannelOK, Down, BusOK, HandlersOK, EventsOK,
     SleepOK, AnswerOK, Reading
<1>10. EventsOK'
  BY <1>0, <1>1, <1>2, <1>3, <1>4, <1>5 DEF EventsOK, BusOK, HandlersOK, Reading
<1>11. Polite => ErrorsOK'
  BY <1>0, <1>1, <1>2, <1>3, <1>4, <1>5 DEF ErrorsOK, BusOK, HandlersOK, EventsOK, Reading
<1>12. CallOK'
  BY <1>0, <1>1, <1>2, <1>3, <1>4, <1>5 DEF CallOK
<1>13. Polite => SleepOK'
  BY <1>0, <1>1, <1>2, <1>3, <1>4, <1>5 DEF SleepOK, Complete, Reading, Down, BusOK,
     HandlersOK, ChannelOK, EventsOK, ErrorsOK, CallOK
<1>14. Polite => QuietOK'
  BY <1>0, <1>1, <1>2, <1>3, <1>4, <1>5 DEF QuietOK, SleepOK, ErrorsOK, EventsOK, Reading,
     BusOK, HandlersOK, ChannelOK
<1>15. Polite => AnswerOK'
  BY <1>0, <1>1, <1>2, <1>3, <1>4, <1>5 DEF AnswerOK, AnswerIsTrue, OkMeansTransferred,
     ResetMeansError, SleepOK, Complete, Down, Reading, BusOK, HandlersOK, EventsOK, ErrorsOK,
     ChannelOK
<1> QED
  BY <1>6, <1>7, <1>8, <1>9, <1>10, <1>11, <1>12, <1>13, <1>14, <1>15 DEF Inv, Shape, Order

\* The wait for BUSY times out.
LEMMA BusyTimeoutKeepsInv == Inv /\ BusyTimeout => Inv'
<1> SUFFICES ASSUME Inv, BusyTimeout PROVE Inv'
  OBVIOUS
<1>0. /\ TypeOK /\ BusOK /\ HandlersOK /\ EventsOK /\ CallOK
      /\ Polite => /\ ChannelOK(dmatx) /\ ChannelOK(dmarx) /\ ErrorsOK
                   /\ SleepOK /\ QuietOK /\ AnswerOK
  BY DEF Inv, Shape, Order
<1>1. drv' \in Drivers /\ drv'.state = "LOCKED"
  BY <1>0, Types DEF BusyTimeout, Return, Drivers
<1>2. /\ isr' = isr /\ isr = Idle /\ isr.at = "none" /\ isr.flags = {} /\ isr \in Handlers
  BY IdleFields DEF BusyTimeout, ThreadRuns
<1>3. /\ op' = op /\ pc = "busy" /\ pc' = "ready" /\ rdymsg' = "RDY_TIMEOUT" /\ vt' = "off"
      /\ moved' = moved /\ bus' = bus /\ dmatx' = dmatx /\ dmarx' = dmarx
  BY DEF BusyTimeout, Return
<1>4. /\ op.tx \in Nat /\ op.rx \in Nat /\ bus.left \in Nat /\ dmatx.left \in Nat
      /\ dmarx.left \in Nat /\ moved.tx \in Nat /\ moved.rx \in Nat /\ MaxBytes \in Nat
  BY <1>0, Values, BytesAssumption
<1>5. TypeOK'
  BY <1>0, <1>1, <1>2, <1>3, <1>4, Types DEF TypeOK, Drivers, Buses, Handlers, Moves
<1>6. BusOK'
  BY <1>0, <1>1, <1>2, <1>3, <1>4 DEF BusOK, HandlersOK, Reading
<1>7. HandlersOK'
  BY <1>0, <1>1, <1>2, <1>3, <1>4 DEF HandlersOK, Reading, BusOK, EventsOK
<1>8. Polite => ChannelOK(dmatx)' /\ ChannelOK(dmarx)'
  BY <1>0, <1>1, <1>2, <1>3, <1>4 DEF ChannelOK, Down, BusOK, HandlersOK, EventsOK, SleepOK,
     AnswerOK, Reading
<1>9. EventsOK'
  BY <1>0, <1>1, <1>2, <1>3, <1>4 DEF EventsOK, BusOK, HandlersOK, Reading
<1>10. Polite => ErrorsOK'
  BY <1>0, <1>1, <1>2, <1>3, <1>4 DEF ErrorsOK, BusOK, HandlersOK, EventsOK, Reading
<1>11. CallOK'
  BY <1>0, <1>1, <1>2, <1>3, <1>4 DEF CallOK
<1>12. Polite => SleepOK'
  BY <1>0, <1>1, <1>2, <1>3, <1>4 DEF SleepOK, Complete, Reading, Down, BusOK, HandlersOK,
     ChannelOK, EventsOK, ErrorsOK, CallOK
<1>13. Polite => QuietOK'
  BY <1>0, <1>1, <1>2, <1>3, <1>4 DEF QuietOK, SleepOK, ErrorsOK, EventsOK, Reading, BusOK,
     HandlersOK, ChannelOK
<1>14. Polite => AnswerOK'
  BY <1>0, <1>1, <1>2, <1>3, <1>4 DEF AnswerOK, AnswerIsTrue, OkMeansTransferred,
     ResetMeansError, SleepOK, Complete, Down, Reading, BusOK, HandlersOK, EventsOK, ErrorsOK,
     ChannelOK
<1> QED
  BY <1>5, <1>6, <1>7, <1>8, <1>9, <1>10, <1>11, <1>12, <1>13, <1>14 DEF Inv, Shape, Order

\* A call returns.
LEMMA FinishKeepsInv == Inv /\ Finish => Inv'
<1> SUFFICES ASSUME Inv, Finish PROVE Inv'
  OBVIOUS
<1>0. /\ TypeOK /\ BusOK /\ HandlersOK /\ EventsOK /\ CallOK
      /\ Polite => /\ ChannelOK(dmatx) /\ ChannelOK(dmarx) /\ ErrorsOK
                   /\ SleepOK /\ QuietOK /\ AnswerOK
  BY DEF Inv, Shape, Order
<1>1. drv' \in Drivers
  <2>1. drv.errors \in SUBSET {"ack", "bus", "arlo"}
    BY <1>0, Types DEF Drivers
  <2> QED
    BY <2>1 DEF Finish, Return, Drivers
<1>2. /\ isr' = isr /\ isr = Idle /\ isr.at = "none" /\ isr.flags = {} /\ isr \in Handlers
  BY IdleFields DEF Finish, ThreadRuns
<1>3. /\ op' = op /\ pc = "woken" /\ pc' = "ready" /\ rdymsg' = rdymsg /\ vt' = "off"
      /\ moved' = moved /\ bus' = bus /\ dmatx' = dmatx /\ dmarx' = dmarx
  BY DEF Finish, Return
<1>4. /\ op.tx \in Nat /\ op.rx \in Nat /\ bus.left \in Nat /\ dmatx.left \in Nat
      /\ dmarx.left \in Nat /\ moved.tx \in Nat /\ moved.rx \in Nat /\ MaxBytes \in Nat
  BY <1>0, Values, BytesAssumption
<1>5. TypeOK'
  BY <1>0, <1>1, <1>2, <1>3, <1>4, Types DEF TypeOK, Drivers, Buses, Handlers, Moves
<1>6. BusOK'
  BY <1>0, <1>1, <1>2, <1>3, <1>4 DEF BusOK, HandlersOK, Reading
<1>7. HandlersOK'
  BY <1>0, <1>1, <1>2, <1>3, <1>4 DEF HandlersOK, Reading, BusOK, EventsOK
<1>8. Polite => ChannelOK(dmatx)' /\ ChannelOK(dmarx)'
  BY <1>0, <1>1, <1>2, <1>3, <1>4 DEF ChannelOK, Down, BusOK, HandlersOK, EventsOK, SleepOK,
     AnswerOK, Reading
<1>9. EventsOK'
  BY <1>0, <1>1, <1>2, <1>3, <1>4 DEF EventsOK, BusOK, HandlersOK, Reading
<1>10. Polite => ErrorsOK'
  BY <1>0, <1>1, <1>2, <1>3, <1>4 DEF ErrorsOK, BusOK, HandlersOK, EventsOK, Reading
<1>11. CallOK'
  BY <1>0, <1>1, <1>2, <1>3, <1>4 DEF CallOK
<1>12. Polite => SleepOK'
  BY <1>0, <1>1, <1>2, <1>3, <1>4 DEF SleepOK, Complete, Reading, Down, BusOK, HandlersOK,
     ChannelOK, EventsOK, ErrorsOK, CallOK
<1>13. Polite => QuietOK'
  BY <1>0, <1>1, <1>2, <1>3, <1>4 DEF QuietOK, SleepOK, ErrorsOK, EventsOK, Reading, BusOK,
     HandlersOK, ChannelOK
<1>14. Polite => AnswerOK'
  BY <1>0, <1>1, <1>2, <1>3, <1>4 DEF AnswerOK, AnswerIsTrue, OkMeansTransferred,
     ResetMeansError, SleepOK, Complete, Down, Reading, BusOK, HandlersOK, EventsOK, ErrorsOK,
     ChannelOK
<1> QED
  BY <1>5, <1>6, <1>7, <1>8, <1>9, <1>10, <1>11, <1>12, <1>13, <1>14 DEF Inv, Shape, Order

\* The operation is programmed too late to be started.
LEMMA LateSetupKeepsInv == Inv /\ Setup /\ TimedOut => Inv'
<1> SUFFICES ASSUME Inv, Setup /\ TimedOut PROVE Inv'
  OBVIOUS
<1>0. /\ TypeOK /\ BusOK /\ HandlersOK /\ EventsOK /\ CallOK
      /\ Polite => /\ ChannelOK(dmatx) /\ ChannelOK(dmarx) /\ ErrorsOK
                   /\ SleepOK /\ QuietOK /\ AnswerOK
  BY DEF Inv, Shape, Order
<1>1. /\ pc = "busy" /\ bus.phase = "idle" /\ op' = op /\ isr' = isr
      /\ op.tx > 0 \/ op.rx > 0
  BY <1>0 DEF Setup, CallOK
<1>2. /\ isr = Idle /\ isr.at = "none" /\ isr.flags = {} /\ ~ bus.nackf /\ ~ bus.stopf
      /\ bus.error = "none"
  BY <1>0, IdleFields, Types DEF Setup, ThreadRuns, I2cRequest, Buses
<1>3. /\ op \in Operations /\ op.tx \in Lengths /\ op.rx \in Lengths
      /\ op.tx <= MaxBytes /\ op.rx <= MaxBytes
  BY <1>0, Types, Values DEF Operations
<1>4. Polite => Down(dmatx) /\ Down(dmarx)
  <2>1. dmatx \in Channels /\ dmarx \in Channels
    BY <1>0, Types
  <2> QED
    BY <1>0, <1>1, <1>2, <2>1 DEF ChannelOK, Down
<1>5. /\ dmatx' \in Channels /\ dmarx' \in Channels
      /\ op.tx > 0 => dmatx'.en /\ dmatx'.left = op.tx /\ dmatx'.tcie /\ ~ dmarx'.en
      /\ ~ (op.tx > 0) => dmatx' = dmatx
      /\ dmarx'.left = op.rx /\ dmarx'.tcie
      /\ dmatx'.half = dmatx.half /\ dmatx'.full = dmatx.full
      /\ dmarx'.half = dmarx.half /\ dmarx'.full = dmarx.full
  <2>1. dmatx \in Channels /\ dmarx \in Channels
    BY <1>0, Types
  <2>2. CASE op.tx > 0
    <3>1. PICK t \in Channels : t = SetUp(dmatx, op.tx)
      BY <1>3, <2>1, SetUpFields
    <3>2. dmatx' = Enable(t) /\ dmarx' = SetUp(dmarx, op.rx)
      BY <2>2, <3>1 DEF Setup, Program
    <3>3. /\ t.left = op.tx /\ t.tcie /\ t.half = dmatx.half /\ t.full = dmatx.full
      BY <1>3, <2>1, <3>1, SetUpFields
    <3>4. /\ dmatx' \in Channels /\ dmatx'.left = t.left /\ dmatx'.en /\ dmatx'.tcie = t.tcie
          /\ dmatx'.half = t.half /\ dmatx'.full = t.full
      BY <3>1, <3>2, EnableFields
    <3>5. /\ dmarx' \in Channels /\ dmarx'.left = op.rx /\ ~ dmarx'.en /\ dmarx'.tcie
          /\ dmarx'.half = dmarx.half /\ dmarx'.full = dmarx.full
      BY <1>3, <2>1, <3>2, SetUpFields
    <3> QED
      BY <2>2, <3>3, <3>4, <3>5
  <2>3. CASE ~ (op.tx > 0)
    BY <1>3, <2>1, <2>3, SetUpFields, EnableFields DEF Setup, Program
  <2> QED
    BY <2>2, <2>3
<1>6. /\ moved' \in Moves /\ moved'.tx = 0 /\ moved'.rx = 0 /\ ~ moved'.failed
      /\ moved'.berr = moved.berr /\ moved'.cut = moved.cut
  <2>1. PICK z \in Lengths : z = 0
    BY BytesAssumption DEF Lengths
  <2>2. moved' = [moved EXCEPT !.tx = z, !.rx = z, !.failed = FALSE]
    BY <2>1 DEF Setup, Program
  <2> QED
    BY <1>0, <2>1, <2>2, Types DEF Moves
<1>7. /\ bus' = bus /\ pc' = "ready" /\ rdymsg' = "RDY_TIMEOUT" /\ vt' = "off"
      /\ drv' \in Drivers
  BY DEF Setup, Program, Return, Drivers
<1>8. /\ op.tx \in Nat /\ op.rx \in Nat /\ bus.left \in Nat /\ dmatx.left \in Nat
      /\ dmarx.left \in Nat /\ moved.tx \in Nat /\ moved.rx \in Nat /\ MaxBytes \in Nat
  BY <1>0, Values, BytesAssumption
<1>9. TypeOK'
  BY <1>0, <1>1, <1>2, <1>3, <1>4, <1>5, <1>6, <1>7, <1>8, Types DEF TypeOK, Drivers, Buses,
     Handlers, Moves
<1>10. BusOK'
  BY <1>0, <1>1, <1>2, <1>3, <1>4, <1>5, <1>6, <1>7, <1>8 DEF BusOK, HandlersOK, Reading
<1>11. HandlersOK'
  BY <1>0, <1>1, <1>2, <1>3, <1>4, <1>5, <1>6, <1>7, <1>8 DEF HandlersOK, Reading, BusOK,
     EventsOK
<1>12. Polite => ChannelOK(dmatx)' /\ ChannelOK(dmarx)'
  BY <1>0, <1>1, <1>2, <1>3, <1>4, <1>5, <1>6, <1>7, <1>8 DEF ChannelOK, Down, BusOK,
     HandlersOK, EventsOK, SleepOK, AnswerOK, Reading
<1>13. EventsOK'
  BY <1>0, <1>1, <1>2, <1>3, <1>4, <1>5, <1>6, <1>7, <1>8 DEF EventsOK, BusOK, HandlersOK,
     Reading
<1>14. Polite => ErrorsOK'
  BY <1>0, <1>1, <1>2, <1>3, <1>4, <1>5, <1>6, <1>7, <1>8 DEF ErrorsOK, BusOK, HandlersOK,
     EventsOK, Reading
<1>15. CallOK'
  BY <1>0, <1>1, <1>2, <1>3, <1>4, <1>5, <1>6, <1>7, <1>8 DEF CallOK
<1>16. Polite => SleepOK'
  BY <1>0, <1>1, <1>2, <1>3, <1>4, <1>5, <1>6, <1>7, <1>8 DEF SleepOK, Complete, Reading, Down,
     BusOK, HandlersOK, ChannelOK, EventsOK, ErrorsOK, CallOK
<1>17. Polite => QuietOK'
  BY <1>0, <1>1, <1>2, <1>3, <1>4, <1>5, <1>6, <1>7, <1>8 DEF QuietOK, SleepOK, ErrorsOK,
     EventsOK, Reading, BusOK, HandlersOK, ChannelOK
<1>18. Polite => AnswerOK'
  BY <1>0, <1>1, <1>2, <1>3, <1>4, <1>5, <1>6, <1>7, <1>8 DEF AnswerOK, AnswerIsTrue,
     OkMeansTransferred, ResetMeansError, SleepOK, Complete, Down, Reading, BusOK, HandlersOK,
     EventsOK, ErrorsOK, ChannelOK
<1> QED
  BY <1>9, <1>10, <1>11, <1>12, <1>13, <1>14, <1>15, <1>16, <1>17, <1>18 DEF Inv, Shape, Order

\* The operation is started on an idle bus.
LEMMA SetupKeepsInv == Inv /\ Setup /\ ~ TimedOut => Inv'
<1> SUFFICES ASSUME Inv, Setup /\ ~ TimedOut PROVE Inv'
  OBVIOUS
<1>0. /\ TypeOK /\ BusOK /\ HandlersOK /\ EventsOK /\ CallOK
      /\ Polite => /\ ChannelOK(dmatx) /\ ChannelOK(dmarx) /\ ErrorsOK
                   /\ SleepOK /\ QuietOK /\ AnswerOK
  BY DEF Inv, Shape, Order
<1>1. /\ pc = "busy" /\ bus.phase = "idle" /\ op' = op /\ isr' = isr
      /\ op.tx > 0 \/ op.rx > 0
  BY <1>0 DEF Setup, CallOK
<1>2. /\ isr = Idle /\ isr.at = "none" /\ isr.flags = {} /\ ~ bus.nackf /\ ~ bus.stopf
      /\ bus.error = "none"
  BY <1>0, IdleFields, Types DEF Setup, ThreadRuns, I2cRequest, Buses
<1>3. /\ op \in Operations /\ op.tx \in Lengths /\ op.rx \in Lengths
      /\ op.tx <= MaxBytes /\ op.rx <= MaxBytes
  BY <1>0, Types, Values DEF Operations
<1>4. Polite => Down(dmatx) /\ Down(dmarx)
  <2>1. dmatx \in Channels /\ dmarx \in Channels
    BY <1>0, Types
  <2> QED
    BY <1>0, <1>1, <1>2, <2>1 DEF ChannelOK, Down
<1>5. /\ dmatx' \in Channels /\ dmarx' \in Channels
      /\ op.tx > 0 => dmatx'.en /\ dmatx'.left = op.tx /\ dmatx'.tcie /\ ~ dmarx'.en
      /\ ~ (op.tx > 0) => dmatx' = dmatx
      /\ dmarx'.left = op.rx /\ dmarx'.tcie
      /\ dmatx'.half = dmatx.half /\ dmatx'.full = dmatx.full
      /\ dmarx'.half = dmarx.half /\ dmarx'.full = dmarx.full
  <2>1. dmatx \in Channels /\ dmarx \in Channels
    BY <1>0, Types
  <2>2. CASE op.tx > 0
    <3>1. PICK t \in Channels : t = SetUp(dmatx, op.tx)
      BY <1>3, <2>1, SetUpFields
    <3>2. dmatx' = Enable(t) /\ dmarx' = SetUp(dmarx, op.rx)
      BY <2>2, <3>1 DEF Setup, Program
    <3>3. /\ t.left = op.tx /\ t.tcie /\ t.half = dmatx.half /\ t.full = dmatx.full
      BY <1>3, <2>1, <3>1, SetUpFields
    <3>4. /\ dmatx' \in Channels /\ dmatx'.left = t.left /\ dmatx'.en /\ dmatx'.tcie = t.tcie
          /\ dmatx'.half = t.half /\ dmatx'.full = t.full
      BY <3>1, <3>2, EnableFields
    <3>5. /\ dmarx' \in Channels /\ dmarx'.left = op.rx /\ ~ dmarx'.en /\ dmarx'.tcie
          /\ dmarx'.half = dmarx.half /\ dmarx'.full = dmarx.full
      BY <1>3, <2>1, <3>2, SetUpFields
    <3> QED
      BY <2>2, <3>3, <3>4, <3>5
  <2>3. CASE ~ (op.tx > 0)
    BY <1>3, <2>1, <2>3, SetUpFields, EnableFields DEF Setup, Program
  <2> QED
    BY <2>2, <2>3
<1>6. /\ moved' \in Moves /\ moved'.tx = 0 /\ moved'.rx = 0 /\ ~ moved'.failed
      /\ moved'.berr = moved.berr /\ moved'.cut = moved.cut
  <2>1. PICK z \in Lengths : z = 0
    BY BytesAssumption DEF Lengths
  <2>2. moved' = [moved EXCEPT !.tx = z, !.rx = z, !.failed = FALSE]
    BY <2>1 DEF Setup, Program
  <2> QED
    BY <1>0, <2>1, <2>2, Types DEF Moves
<1>7. /\ pc' = "asleep" /\ rdymsg' = rdymsg /\ vt' = vt
      /\ drv' \in Drivers /\ drv'.state = drv.state /\ drv'.errors = {}
  <2>1. drv' = [drv EXCEPT !.errors = {}] /\ drv \in Drivers
    BY <1>0, Types DEF Setup, Program
  <2>2. pc' = "asleep" /\ rdymsg' = rdymsg /\ vt' = vt
    BY DEF Setup, Program
  <2> QED
    BY <2>1, <2>2 DEF Drivers
<1>8. /\ bus' \in Buses /\ bus'.start = bus.start /\ bus'.nackf = bus.nackf
      /\ bus'.stopf = bus.stopf /\ bus'.error = bus.error
      /\ op.tx > 0 => bus'.phase = "tx" /\ bus'.left = op.tx
      /\ ~ (op.tx > 0) => bus'.phase = "rx" /\ bus'.left = op.rx /\ bus'.tcie = bus.tcie
  <2>1. CASE op.tx > 0
    <3>1. PICK b : b = StartCondition(bus, "tx", op.tx)
      OBVIOUS
    <3>2. /\ b \in Buses /\ b.phase = "tx" /\ b.left = op.tx /\ b.start = bus.start
          /\ b.nackf = bus.nackf /\ b.stopf = bus.stopf /\ b.error = bus.error
      BY <1>0, <1>1, <1>3, <3>1, Types, StartFields
    <3>3. bus' = [b EXCEPT !.tcie = TRUE]
      BY <2>1, <3>1 DEF Setup, Program
    <3> QED
      BY <2>1, <3>2, <3>3 DEF Buses
  <2>2. CASE ~ (op.tx > 0)
    <3>1. bus' = StartCondition(bus, "rx", op.rx)
      BY <2>2 DEF Setup, Program
    <3> QED
      BY <1>0, <1>1, <1>3, <2>2, <3>1, Types, StartFields
  <2> QED
    BY <2>1, <2>2
<1>9. /\ op.tx \in Nat /\ op.rx \in Nat /\ bus.left \in Nat /\ dmatx.left \in Nat
      /\ dmarx.left \in Nat /\ moved.tx \in Nat /\ moved.rx \in Nat /\ MaxBytes \in Nat
  BY <1>0, Values, BytesAssumption
<1>10. TypeOK'
  BY <1>0, <1>1, <1>2, <1>3, <1>4, <1>5, <1>6, <1>7, <1>8, <1>9, Types DEF TypeOK, Drivers,
     Buses, Handlers, Moves
<1>11. BusOK'
  BY <1>0, <1>1, <1>2, <1>3, <1>4, <1>5, <1>6, <1>7, <1>8, <1>9 DEF BusOK, HandlersOK, Reading
<1>12. HandlersOK'
  BY <1>0, <1>1, <1>2, <1>3, <1>4, <1>5, <1>6, <1>7, <1>8, <1>9 DEF HandlersOK, Reading, BusOK,
     EventsOK
<1>13. Polite => ChannelOK(dmatx)' /\ ChannelOK(dmarx)'
  BY <1>0, <1>1, <1>2, <1>3, <1>4, <1>5, <1>6, <1>7, <1>8, <1>9 DEF ChannelOK, Down, BusOK,
     HandlersOK, EventsOK, SleepOK, AnswerOK, Reading
<1>14. EventsOK'
  BY <1>0, <1>1, <1>2, <1>3, <1>4, <1>5, <1>6, <1>7, <1>8, <1>9 DEF EventsOK, BusOK,
     HandlersOK, Reading
<1>15. Polite => ErrorsOK'
  BY <1>0, <1>1, <1>2, <1>3, <1>4, <1>5, <1>6, <1>7, <1>8, <1>9 DEF ErrorsOK, BusOK,
     HandlersOK, EventsOK, Reading
<1>16. CallOK'
  BY <1>0, <1>1, <1>2, <1>3, <1>4, <1>5, <1>6, <1>7, <1>8, <1>9 DEF CallOK
<1>17. Polite => SleepOK'
  BY <1>0, <1>1, <1>2, <1>3, <1>4, <1>5, <1>6, <1>7, <1>8, <1>9 DEF SleepOK, Complete, Reading,
     Down, BusOK, HandlersOK, ChannelOK, EventsOK, ErrorsOK, CallOK
<1>18. Polite => QuietOK'
  BY <1>0, <1>1, <1>2, <1>3, <1>4, <1>5, <1>6, <1>7, <1>8, <1>9 DEF QuietOK, SleepOK, ErrorsOK,
     EventsOK, Reading, BusOK, HandlersOK, ChannelOK
<1>19. Polite => AnswerOK'
  BY <1>0, <1>1, <1>2, <1>3, <1>4, <1>5, <1>6, <1>7, <1>8, <1>9 DEF AnswerOK, AnswerIsTrue,
     OkMeansTransferred, ResetMeansError, SleepOK, Complete, Down, Reading, BusOK, HandlersOK,
     EventsOK, ErrorsOK, ChannelOK
<1> QED
  BY <1>10, <1>11, <1>12, <1>13, <1>14, <1>15, <1>16, <1>17, <1>18, <1>19 DEF Inv, Shape, Order

LEMMA InitInv == Init => Inv
<1> SUFFICES ASSUME Init PROVE Inv
  OBVIOUS
<1>1. PICK z \in Lengths : z = 0
  BY BytesAssumption DEF Lengths
<1>2. /\ drv = [state |-> "STOP", errors |-> {}] /\ op = [tx |-> z, rx |-> z, timed |-> FALSE]
      /\ pc = "ready" /\ rdymsg = "RDY_OK" /\ vt = "off" /\ isr = Idle
      /\ bus = [phase |-> "idle", left |-> z, start |-> "none", nackf |-> FALSE,
                stopf |-> FALSE, error |-> "none", tcie |-> FALSE]
      /\ moved = [tx |-> z, rx |-> z, failed |-> FALSE, berr |-> FALSE, cut |-> FALSE]
      /\ dmatx = Off /\ dmarx = Off
  BY <1>1 DEF Init, NoOp
<1>3. TypeOK
  BY <1>1, <1>2, OffFields, IdleFields, Types DEF Drivers, Operations, Buses, Moves
<1>4. MaxBytes \in Nat /\ z = 0
  BY <1>1, BytesAssumption
<1>5. BusOK /\ HandlersOK /\ EventsOK /\ CallOK
  BY <1>2, <1>4, OffFields, IdleFields DEF BusOK, HandlersOK, EventsOK, Reading, CallOK
<1>6. ChannelOK(dmatx) /\ ChannelOK(dmarx)
  BY <1>2, <1>4, OffFields, IdleFields DEF ChannelOK, Down
<1>7. ErrorsOK
  BY <1>2, IdleFields DEF ErrorsOK
<1>8. SleepOK /\ QuietOK /\ AnswerOK
  BY <1>2, <1>4, OffFields, IdleFields
     DEF SleepOK, QuietOK, AnswerOK, AnswerIsTrue, OkMeansTransferred, ResetMeansError, Down,
         Reading
<1> QED
  BY <1>3, <1>5, <1>6, <1>7, <1>8 DEF Inv, Shape, Order

LEMMA StepKeepsInv == Inv /\ [Next]_vars => Inv'
<1> SUFFICES ASSUME Inv, [Next]_vars PROVE Inv'
  OBVIOUS
<1>1. CASE i2cStart \/ i2cStop \/ (\E o \in Operations : Call(o))
  BY <1>1, StartKeepsInv, StopKeepsInv, CallKeepsInv
<1>2. CASE BusyTimeout \/ Setup \/ Finish
  BY <1>2, BusyTimeoutKeepsInv, LateSetupKeepsInv, SetupKeepsInv, FinishKeepsInv
<1>3. CASE SafetyTimeout
  BY <1>3, SafetyTimeoutAsleepKeepsInv, SafetyTimeoutAwakeKeepsInv
<1>4. CASE TransferComplete
  BY <1>4, NoTransferCompleteKeepsInv, ReadPhaseKeepsInv, StopAfterWriteKeepsInv
<1>5. CASE EventIrq
  BY <1>5, NackIrqKeepsInv, StopIrqKeepsInv
<1>6. CASE Interrupt
  BY <1>4, <1>5, <1>6, DmaIrqKeepsInv, RxEndKeepsInv, EnterErrorKeepsInv, EnterEventKeepsInv,
     ErrorIrqKeepsInv, EnableReadKeepsInv, StartReadKeepsInv DEF Interrupt
<1>7. CASE Bus
  BY <1>7, ByteSentKeepsInv, ByteReceivedKeepsInv, NackKeepsInv, StopSentKeepsInv,
     BusErrorKeepsInv, ArbitrationLostKeepsInv, OtherMasterStopsKeepsInv DEF Bus
<1>8. CASE UNCHANGED vars
  <2>1. Shape'
    BY <1>8 DEF vars, Inv, Shape, TypeOK, BusOK, HandlersOK, EventsOK, CallOK, Reading
  <2>2. Order => (ErrorsOK /\ ChannelOK(dmatx) /\ ChannelOK(dmarx))'
    BY <1>8 DEF vars, Order, ErrorsOK, ChannelOK, Down, Reading
  <2>3. Order => (SleepOK /\ QuietOK /\ AnswerOK)'
    BY <1>8 DEF vars, Order, SleepOK, Complete, QuietOK, AnswerOK, AnswerIsTrue,
                OkMeansTransferred, ResetMeansError, Reading, Down
  <2> QED
    BY <2>1, <2>2, <2>3 DEF Inv, Order
<1> QED
  BY <1>1, <1>2, <1>3, <1>6, <1>7, <1>8 DEF Next

LEMMA InvHolds == Spec => []Inv
<1> QED
  BY InitInv, StepKeepsInv, PTL DEF Spec

-----------------------------------------------------------------------------
\* Every variable keeps its shape, whatever the client does: the counters of the
\* channels and of the peripheral never go below zero or beyond the longest transfer.
THEOREM TypesCorrect == Spec => []TypeOK
<1>1. Inv => TypeOK
  BY DEF Inv, Shape
<1> QED
  BY <1>1, InvHolds, PTL

\* For transfers of any length and a client who stops the driver after an error before
\* he starts it again: RDY_OK is returned only when every byte asked for has been moved,
\* and RDY_RESET only when something went wrong in this operation. The condition is
\* needed: a channel that is not allocated again keeps the flags of the transfer before.
THEOREM AnswersAreTrue ==
    ASSUME Restarts \subseteq {"RDY_OK"}
    PROVE  Spec => []AnswerIsTrue
<1>1. Inv => AnswerIsTrue
  BY DEF Inv, Polite, Order, AnswerOK
<1> QED
  BY <1>1, InvHolds, PTL

\* For such a client no byte goes to or comes from the buffers of a call that has
\* returned, whatever timed out, was refused or was lost, unless there was a bus error
\* or the timeout cut the handler that starts the read phase in two.
THEOREM BuffersAreGivenBack ==
    ASSUME Restarts \subseteq {"RDY_OK"}
    PROVE  Spec => BuffersGivenBack
<1>1. Inv => (pc = "ready" /\ ~ moved.berr /\ ~ moved.cut => ~ ByteSent /\ ~ ByteReceived)
  BY DEF Inv, Polite, Order, QuietOK, ByteSent, ByteReceived, Running
<1>2. Inv => [pc = "ready" /\ ~ moved.berr /\ ~ moved.cut => ~ ByteSent /\ ~ ByteReceived]_vars
  BY <1>1
<1> QED
  BY <1>2, InvHolds, PTL DEF BuffersGivenBack

=============================================================================
