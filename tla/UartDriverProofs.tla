-------------------------- MODULE UartDriverProofs --------------------------
(***************************************************************************)
(* What holds of the UART driver for every buffer size and every set of    *)
(* callbacks, and what holds besides when a client uses the line           *)
(* half-duplex and without rxchar_cb, as the tracker does.                 *)
(***************************************************************************)
EXTENDS UartDriver, TLAPS

\* The DMA channels and the driver's states agree: flags, enable and mode of a
\* channel say what txstate and rxstate say, and COMPLETE is only seen inside
\* the callback.
ChannelsAgree ==
    /\ Flagged(tx) => drv.txstate = "ACTIVE"
    /\ tx.en => drv.txstate = "ACTIVE"
    /\ ~ tx.circ
    /\ drv.rxstate = "ACTIVE" => ~ rx.circ
    /\ rx.en /\ drv.rxstate # "ACTIVE" => rx.circ
    /\ drv.rxstate = "COMPLETE" => cpu = "rxend" /\ ~ rx.en
    /\ drv.txstate = "COMPLETE" => cpu = "txend1"

Inv == TypeOK /\ ChannelsAgree

\* On a half-duplex line without rxchar_cb: a transfer in progress is looked at by the
\* shared vector only when it is complete or has not begun. A receive can be
\* armed while a send is in progress, but no byte of it arrives before the
\* send's interrupt has been served.
TxActive == drv.txstate = "ACTIVE"
RxActive == drv.rxstate = "ACTIVE"

PendingMeansDone ==
    "DMA" \in pend => /\ RxActive => rx.tc \/ ~ Flagged(rx)
                      /\ TxActive => tx.tc
                      /\ cpu = "locked" => (RxActive /\ rx.tc) \/ TxActive

HandlerMeansDone ==
    /\ cpu = "rxcheck" => ~ TxActive /\ (RxActive => rx.tc \/ ~ Flagged(rx))
    /\ cpu = "rxcheck" /\ RxActive /\ rx.tc => "DMA" \notin pend
    /\ cpu = "txend1" => drv.rxstate # "COMPLETE" /\ ~ TxActive
                          /\ (RxActive => ~ Flagged(rx))
    /\ cpu = "rxend" => ~ TxActive
    /\ cpu = "rxend" /\ drv.rxstate = "COMPLETE" => "DMA" \notin pend /\ rx.left = 0
    /\ drv.txstate = "COMPLETE" => tx.left = 0

HalfInv ==
    /\ Inv
    /\ TxActive /\ RxActive => ~ Flagged(rx)
    /\ ~ RxActive => ~ rx.tcie
    /\ RxActive /\ rx.tc => rx.left = 0
    /\ tx.tc => tx.left = 0
    /\ PendingMeansDone
    /\ HandlerMeansDone

-----------------------------------------------------------------------------
(***************************************************************************)
(* The operators on a channel.                                             *)
(***************************************************************************)
\* dmaStreamDisable leaves a well-formed channel, off and with no flag up.
LEMMA DisableChannel ==
    ASSUME NEW c \in Channels
    PROVE  /\ Disable(c) \in Channels
           /\ ~ Disable(c).en /\ ~ Disable(c).tcie /\ ~ Flagged(Disable(c))
           /\ Disable(c).left = c.left /\ Disable(c).circ = c.circ
BY DEF Channels, Disable, Flagged

\* Programming keeps the flags: only Disable clears them.
LEMMA ProgramChannel ==
    ASSUME NEW c \in Channels, NEW n \in Sizes,
           NEW circ \in BOOLEAN, NEW tcie \in BOOLEAN
    PROVE  /\ Program(c, n, circ, tcie) \in Channels
           /\ Program(c, n, circ, tcie).en
           /\ Program(c, n, circ, tcie).circ = circ
           /\ Program(c, n, circ, tcie).tcie = tcie
           /\ Program(c, n, circ, tcie).tc = c.tc
           /\ Program(c, n, circ, tcie).ht = c.ht
           /\ Program(c, n, circ, tcie).left = n
<1>1. n \in 0..MaxSize
    BY SizeAssumption DEF Sizes
<1>2. Program(c, n, circ, tcie) \in Channels
    BY <1>1 DEF Channels, Program
<1> QED
    BY <1>2 DEF Channels, Program

\* A transfer raises the full flag exactly when it moves the last item, and
\* changes neither the enables nor the mode.
LEMMA TransferChannel ==
    ASSUME NEW c \in Channels, Running(c)
    PROVE  /\ Transfer(c) \in Channels
           /\ Transfer(c).en = c.en
           /\ Transfer(c).circ = c.circ
           /\ Transfer(c).tcie = c.tcie
           /\ ~ c.circ => Transfer(c).left = c.left - 1
           /\ Transfer(c).tc <=> (c.tc \/ c.left = 1)
<1>1. c.left - 1 \in 0..MaxSize /\ c.size \in 0..MaxSize
    BY SizeAssumption DEF Channels, Running
<1>2. Transfer(c) \in Channels
    BY <1>1 DEF Channels, Transfer
<1> QED
    BY <1>2 DEF Channels, Transfer

LEMMA CallbackTypes ==
    /\ TxEnd1Cb \in BOOLEAN /\ TxEnd2Cb \in BOOLEAN /\ RxEndCb \in BOOLEAN
    /\ RxCharCb \in BOOLEAN /\ RxErrCb \in BOOLEAN
BY CallbackAssumption

\* set_rx_idle_loop on a channel that dmaStreamDisable has left.
LEMMA IdleLoopChannel ==
    ASSUME NEW c \in Channels
    PROVE  /\ IdleLoop(c) \in Channels
           /\ IdleLoop(c).circ
           /\ IdleLoop(c).tcie = CharCb
           /\ IdleLoop(c).tc = c.tc
           /\ IdleLoop(c).ht = c.ht
<1>1. 1 \in 0..MaxSize
    BY SizeAssumption
<1>2. IdleLoop(c) \in Channels
    BY <1>1, CallbackTypes DEF IdleLoop, CharCb, Program, Channels
<1> QED
    BY <1>1, <1>2, CallbackTypes DEF IdleLoop, CharCb, Program, Channels

\* Whatever a step does to the NVIC, it pends known vectors only.
LEMMA LatchType ==
    ASSUME pend \subseteq {"DMA", "USART"}, NEW E, Latch(E)
    PROVE  pend' \subseteq {"DMA", "USART"}
BY DEF Latch, Requests

-----------------------------------------------------------------------------
LEMMA InitInv == Init => Inv
BY SizeAssumption DEF Init, Inv, TypeOK, ChannelsAgree, Channels, ResetChannel, Flagged

LEMMA NextInv == Inv /\ [Next]_vars => Inv'
<1> SUFFICES ASSUME Inv, [Next]_vars PROVE Inv'
    OBVIOUS
<1>0. use' \in {"full", "half"}
    BY DEF Inv, TypeOK, Next, LineUse, vars
<1> USE CallbackTypes, <1>0 DEF Inv, TypeOK, ChannelsAgree, Flagged
<1>1. CASE Lock
    BY <1>1 DEF Lock
<1>2. CASE UartStart
    <2>1. rx' \in Channels /\ rx'.circ
        BY <1>2, DisableChannel, IdleLoopChannel DEF UartStart
    <2>2. tx' \in Channels /\ ~ tx'.en /\ ~ tx'.circ /\ ~ Flagged(tx)'
        BY <1>2, DisableChannel DEF UartStart
    <2> QED
        BY <1>2, <2>1, <2>2, LatchType DEF UartStart, Client
<1>3. CASE UartStop
    BY <1>3, DisableChannel DEF UartStop, Client
<1>4. CASE UartStopSend
    BY <1>4, DisableChannel, LatchType DEF UartStopSend, Client
<1>5. CASE UartStopReceive
    <2>1. rx' \in Channels /\ (drv.rxstate = "ACTIVE" => rx'.circ)
        BY <1>5, DisableChannel, IdleLoopChannel DEF UartStopReceive
    <2> QED
        BY <1>5, <2>1, LatchType DEF UartStopReceive, Client
<1>6. ASSUME NEW n \in Sizes, UartStartSend(n) PROVE Inv'
    BY <1>6, ProgramChannel, LatchType DEF UartStartSend, Client
<1>7. ASSUME NEW n \in Sizes, UartStartReceive(n) PROVE Inv'
    BY <1>7, DisableChannel, ProgramChannel, LatchType DEF UartStartReceive, Client
<1>8. CASE TxService \/ TxNoFlag \/ TxEnd1Return
    BY <1>8, DisableChannel, LatchType DEF TxService, TxNoFlag, TxEnd1Return
<1>9. CASE RxService
    <2>1. CASE drv.rxstate = "IDLE"
        <3>1. rx' \in Channels /\ rx'.en = rx.en /\ rx'.circ = rx.circ
            BY <1>9, <2>1 DEF RxService, Channels
        <3> QED
            BY <1>9, <2>1, <3>1, LatchType DEF RxService
    <2>2. CASE drv.rxstate # "IDLE"
        BY <1>9, <2>2, DisableChannel, LatchType DEF RxService
    <2> QED
        BY <2>1, <2>2
<1>10. CASE RxNoFlag
    BY <1>10, LatchType DEF RxNoFlag
<1>11. CASE RxEndReturn
    <2>1. rx' \in Channels /\ (drv.rxstate = "COMPLETE" => rx'.circ)
        BY <1>11, IdleLoopChannel DEF RxEndReturn
    <2> QED
        BY <1>11, <2>1, LatchType DEF RxEndReturn
<1>12. CASE UsartService \/ RxErrTcReturn \/ CallbackReturn
    BY <1>12, LatchType DEF UsartService, RxErrTcReturn, CallbackReturn
<1>13. CASE RxByte
    BY <1>13, TransferChannel, LatchType DEF RxByte
<1>14. CASE TxByte
    <2>1. tx' \in Channels /\ tx.en /\ ~ tx'.circ
        BY <1>14, TransferChannel DEF TxByte, Running
    <2>2. usart.out + 1 \in 0..2
        BY <1>14 DEF TxByte
    <2>3. usart' \in [out : 0..2, tc : BOOLEAN, tcie : BOOLEAN, err : BOOLEAN]
        BY <1>14, <2>2 DEF TxByte
    <2> QED
        BY <1>14, <2>1, <2>3, LatchType DEF TxByte
<1>15. CASE LineError
    BY <1>15, LatchType DEF LineError
<1>16. CASE FrameOut
    <2>1. usart.out - 1 \in 0..2 /\ (usart.out = 1) \in BOOLEAN
        BY <1>16 DEF FrameOut
    <2>2. usart' \in [out : 0..2, tc : BOOLEAN, tcie : BOOLEAN, err : BOOLEAN]
        BY <1>16, <2>1 DEF FrameOut
    <2> QED
        BY <1>16, <2>2, LatchType DEF FrameOut
<1>17. CASE UNCHANGED vars
    BY <1>17 DEF vars, driverVars
<1> QED
    BY <1>1, <1>2, <1>3, <1>4, <1>5, <1>6, <1>7, <1>8, <1>9, <1>10, <1>11, <1>12,
       <1>13, <1>14, <1>15, <1>16, <1>17 DEF Next, Steps, ClientCall, Handler, Hardware

\* The type invariant, for every buffer size and every choice of callbacks.
THEOREM TypeCorrect == Spec => []TypeOK
<1>1. Init => Inv
    BY InitInv
<1>2. Inv /\ [Next]_vars => Inv'
    BY NextInv
<1>3. Inv => TypeOK
    BY DEF Inv
<1> QED
    BY <1>1, <1>2, <1>3, PTL DEF Spec

LEMMA DriverInv == Spec => []Inv
<1>1. Init => Inv
    BY InitInv
<1>2. Inv /\ [Next]_vars => Inv'
    BY NextInv
<1> QED
    BY <1>1, <1>2, PTL DEF Spec

\* A receive buffer that the driver has given back is not written any more.
THEOREM ReceiveBufferGivenBack == Spec => []BufferNotWrittenAfterwards
<1>1. Inv => BufferNotWrittenAfterwards
    BY DEF Inv, ChannelsAgree, BufferNotWrittenAfterwards, Running
<1> QED
    BY <1>1, DriverInv, PTL

\* A send buffer that the driver has given back is not read any more.
THEOREM SendBufferGivenBack == Spec => []BufferNotReadAfterwards
<1>1. Inv => BufferNotReadAfterwards
    BY DEF Inv, ChannelsAgree, BufferNotReadAfterwards, Running
<1> QED
    BY <1>1, DriverInv, PTL

\* A buffer given back by a stop or a callback is neither written nor read.
THEOREM BuffersReturned == Spec => []BuffersGivenBack
BY ReceiveBufferGivenBack, SendBufferGivenBack, PTL DEF BuffersGivenBack

\* txend1_cb runs only for a send in progress: an interrupt latched before
\* uartStopSend, and served after it, finds no flag.
THEOREM StoppedSendIsSilent == Spec => TxEndOnlyIfActive
<1>1. Inv /\ [Next]_vars =>
        [cpu # "txend1" /\ cpu' = "txend1" => drv.txstate = "ACTIVE"]_vars
    <2> SUFFICES ASSUME Inv, Next, cpu # "txend1", cpu' = "txend1"
                 PROVE  drv.txstate = "ACTIVE"
        OBVIOUS
    <2>1. TxService
        BY DEF Next, Steps, ClientCall, Handler, Hardware, Lock, Client, UartStart, UartStop,
               UartStartSend, UartStopSend, UartStartReceive, UartStopReceive,
               TxNoFlag, TxEnd1Return, RxService, RxNoFlag, RxEndReturn, UsartService,
               RxErrTcReturn, CallbackReturn, RxByte, LineError, TxByte, FrameOut
    <2> QED
        BY <2>1 DEF TxService, Inv, ChannelsAgree
<1> QED
    BY <1>1, DriverInv, PTL DEF Spec, TxEndOnlyIfActive

\* rxend_cb runs only for a receive in progress.
THEOREM StoppedReceiveIsSilent == Spec => RxEndOnlyIfActive
<1>1. Inv /\ [Next]_vars =>
        [cpu # "rxend" /\ cpu' = "rxend" => drv.rxstate = "ACTIVE"]_vars
    <2> SUFFICES ASSUME Inv, Next, cpu # "rxend", cpu' = "rxend"
                 PROVE  drv.rxstate = "ACTIVE"
        OBVIOUS
    <2>1. RxService
        BY DEF Next, Steps, ClientCall, Handler, Hardware, Lock, Client, UartStart, UartStop,
               UartStartSend, UartStopSend, UartStartReceive, UartStopReceive,
               TxService, TxNoFlag, TxEnd1Return, RxNoFlag, RxEndReturn, UsartService,
               RxErrTcReturn, CallbackReturn, RxByte, LineError, TxByte, FrameOut
    <2> QED
        BY <2>1 DEF RxService, Inv, TypeOK, ChannelsAgree
<1> QED
    BY <1>1, DriverInv, PTL DEF Spec, RxEndOnlyIfActive

\* A transfer that has been stopped runs no end-of-buffer callback.
THEOREM StopsAreSilent == Spec => StoppedIsSilent
BY StoppedSendIsSilent, StoppedReceiveIsSilent DEF StoppedIsSilent

-----------------------------------------------------------------------------
(***************************************************************************)
(* The half-duplex line.                                                   *)
(***************************************************************************)
\* What a step can latch: an interrupt of a channel whose transfer is full.
LEMMA LatchDma ==
    ASSUME NEW E, Latch(E), "DMA" \in pend', "DMA" \notin pend \/ "DMA" \in E
    PROVE  /\ (tx'.tcie /\ tx'.tc) \/ (rx'.tcie /\ rx'.tc)
           /\ cpu' \in {"thread", "locked"} \/
                ~ ((tx.tcie /\ tx.tc) \/ (rx.tcie /\ rx.tc))
BY DEF Latch, Requests

LEMMA InitHalfInv == Init => HalfInv
<1> SUFFICES ASSUME Init PROVE HalfInv
    OBVIOUS
<1>1. Inv
    BY InitInv
<1> QED
    BY <1>1 DEF HalfInv, Init, TxActive, RxActive, PendingMeansDone, HandlerMeansDone,
                ResetChannel

LEMMA NextHalfInv ==
    ASSUME use = "half", HalfInv, [Next]_vars
    PROVE  HalfInv'
<1>0. Inv' /\ ~ CharCb
    BY NextInv DEF HalfInv, CharCb
<1> USE DEF HalfInv, Inv, TypeOK, ChannelsAgree, Flagged, TxActive, RxActive,
            PendingMeansDone, HandlerMeansDone
<1>1. CASE Lock
    BY <1>0, <1>1 DEF Lock
<1>2. CASE UartStart
    BY <1>0, <1>2, DisableChannel, IdleLoopChannel, LatchDma DEF UartStart, Client
<1>3. CASE UartStop
    BY <1>0, <1>3, DisableChannel DEF UartStop, Client
<1>4. CASE UartStopSend
    BY <1>0, <1>4, DisableChannel, LatchDma DEF UartStopSend, Client
<1>5. CASE UartStopReceive
    BY <1>0, <1>5, DisableChannel, IdleLoopChannel, LatchDma DEF UartStopReceive, Client
<1>6. ASSUME NEW n \in Sizes, UartStartSend(n), HalfDuplexUse PROVE HalfInv'
    <2>1. cpu = "locked" /\ ~ RxActive /\ ~ TxActive /\ "DMA" \notin pend
        BY <1>6 DEF UartStartSend, HalfDuplexUse
    <2>2. drv'.txstate = "ACTIVE" /\ drv'.rxstate = drv.rxstate /\ rx' = rx /\ cpu' = "thread"
        BY <1>6, <2>1 DEF UartStartSend, Client
    <2>3. ~ tx'.tc /\ ~ rx.tcie
        BY <1>6, <2>1 DEF UartStartSend, Program, Channels
    <2>4. "DMA" \notin pend'
        BY <1>6, <2>1, <2>2, <2>3, LatchDma DEF UartStartSend
    <2> QED
        BY <1>0, <2>1, <2>2, <2>3, <2>4
<1>7. ASSUME NEW n \in Sizes, UartStartReceive(n), HalfDuplexUse PROVE HalfInv'
    <2>1. /\ ~ RxActive /\ (cpu = "locked" \/ drv.rxstate = "COMPLETE")
          /\ "DMA" \in pend => TxActive /\ tx.tc /\ cpu = "locked"
        BY <1>7 DEF UartStartReceive, HalfDuplexUse
    <2>2. /\ drv'.rxstate = "ACTIVE" /\ drv'.txstate = drv.txstate /\ tx' = tx
          /\ cpu' = IF cpu = "locked" THEN "thread" ELSE "rxend"
        BY <1>7, <2>1 DEF UartStartReceive, Client
    <2>3. ~ rx'.tc /\ ~ rx'.ht
        <3>1. Disable(rx) \in Channels /\ ~ Disable(rx).tc /\ ~ Disable(rx).ht
            BY DisableChannel
        <3> QED
            BY <1>7, <3>1 DEF UartStartReceive, Program, Channels
    <2>4. "DMA" \in pend' => "DMA" \in pend \/ tx.tc
        BY <1>7, <2>2, <2>3, LatchDma DEF UartStartReceive
    <2>5. "DMA" \in pend' => TxActive /\ tx.tc /\ cpu = "locked"
        BY <2>1, <2>4
    <2> QED
        BY <1>0, <2>1, <2>2, <2>3, <2>5
<1>8. CASE TxService
    BY <1>0, <1>8, DisableChannel, LatchDma DEF TxService
<1>9. CASE TxNoFlag
    BY <1>0, <1>9, LatchDma DEF TxNoFlag
<1>10. CASE TxEnd1Return
    BY <1>0, <1>10, LatchDma DEF TxEnd1Return
<1>11. CASE RxService
    <2>1. CASE drv.rxstate = "IDLE"
        <3>1. /\ rx'.tcie = rx.tcie /\ ~ rx'.tc /\ cpu' = "rxchar"
              /\ tx' = tx /\ drv' = drv
            BY <1>11, <2>1 DEF RxService, Channels
        <3>2. ~ rx.tcie /\ ~ tx.tc
            BY <1>11, <2>1 DEF RxService
        <3>3. "DMA" \in pend' => "DMA" \in pend
            BY <1>11, <3>1, <3>2, LatchDma DEF RxService
        <3> QED
            BY <1>0, <1>11, <2>1, <3>1, <3>2, <3>3 DEF RxService
    <2>2. CASE drv.rxstate # "IDLE"
        <3>1. RxActive /\ ~ TxActive /\ rx.tc /\ rx.left = 0 /\ "DMA" \notin pend
            BY <1>11, <2>2 DEF RxService
        <3>2. /\ ~ rx'.tcie /\ ~ rx'.tc /\ rx'.left = 0 /\ cpu' = "rxend"
              /\ tx' = tx /\ drv'.txstate = drv.txstate /\ drv'.rxstate = "COMPLETE"
            BY <1>11, <2>2, <3>1, DisableChannel DEF RxService
        <3>3. "DMA" \notin pend'
            BY <1>11, <3>1, <3>2, LatchDma DEF RxService
        <3> QED
            BY <1>0, <3>1, <3>2, <3>3
    <2> QED
        BY <2>1, <2>2
<1>12. CASE RxNoFlag
    BY <1>0, <1>12, LatchDma DEF RxNoFlag
<1>13. CASE RxEndReturn
    BY <1>0, <1>13, IdleLoopChannel, LatchDma DEF RxEndReturn
<1>14. CASE UsartService \/ RxErrTcReturn \/ CallbackReturn
    BY <1>0, <1>14, LatchDma DEF UsartService, RxErrTcReturn, CallbackReturn
<1>15. ASSUME RxByte, HalfDuplexUse PROVE HalfInv'
    <2>1. /\ UNCHANGED <<drv, tx, usart, cpu>> /\ rx'.tcie = rx.tcie
          /\ rx'.tc <=> (rx.tc \/ rx.left = 1)
          /\ RxActive => rx.left # 0 /\ ~ rx.tc /\ rx'.left = rx.left - 1
        BY <1>15, TransferChannel DEF RxByte, Running, Channels
    <2>2. RxActive => ~ TxActive /\ "DMA" \notin pend /\ cpu \notin {"txend1", "rxcheck"}
        BY <1>15 DEF HalfDuplexUse
    <2>3. RxActive /\ rx'.tc => rx'.left = 0
        <3>1. rx.left \in Nat
            BY DEF Channels
        <3> QED
            BY <2>1, <3>1
    <2>4. "DMA" \in pend' => "DMA" \in pend \/ (RxActive /\ rx'.tc) \/ tx.tc
        BY <1>15, <2>1, LatchDma DEF RxByte
    <2>5. drv.rxstate = "COMPLETE" => UNCHANGED rx
        BY <1>15 DEF RxByte, Running
    <2>6. CASE RxActive
        BY <1>0, <2>1, <2>2, <2>3, <2>4, <2>6
    <2>7. CASE ~ RxActive
        BY <1>0, <2>1, <2>4, <2>5, <2>7
    <2> QED
        BY <2>6, <2>7
<1>16. CASE TxByte
    <2>1. /\ UNCHANGED <<drv, rx, cpu>> /\ tx'.tcie = tx.tcie /\ TxActive
          /\ tx'.tc <=> (tx.tc \/ tx.left = 1)
        BY <1>16, TransferChannel DEF TxByte, Running
    <2>2. ~ tx.tc /\ ~ tx.circ /\ "DMA" \notin pend
        BY <1>16 DEF TxByte, Running
    <2>3. tx.left \in Nat /\ tx.left # 0 /\ tx'.left = tx.left - 1
        BY <1>16, <2>2, TransferChannel DEF TxByte, Running, Channels
    <2>4. tx'.tc => tx'.left = 0
        BY <2>1, <2>2, <2>3
    <2>5. "DMA" \in pend' => tx'.tc
        BY <1>16, <2>1, <2>2, LatchDma DEF TxByte
    <2> QED
        BY <1>0, <2>1, <2>2, <2>4, <2>5
<1>17. CASE LineError \/ FrameOut
    BY <1>0, <1>17, LatchDma DEF LineError, FrameOut
<1>18. CASE UNCHANGED vars
    BY <1>0, <1>18 DEF vars, driverVars
<1> QED
    BY <1>1, <1>2, <1>3, <1>4, <1>5, <1>6, <1>7, <1>8, <1>9, <1>10, <1>11, <1>12, <1>13,
       <1>14, <1>15, <1>16, <1>17, <1>18
       DEF Next, LineUse, Steps, ClientCall, Handler, Hardware

\* A client keeps to the way it uses the line, and so to the invariant.
LEMMA NextLineInv ==
    Inv /\ (use = "half" => HalfInv) /\ [Next]_vars
      => Inv' /\ (use' = use) /\ (use' = "half" => HalfInv')
<1>1. [Next]_vars => use' = use
    BY DEF Next, LineUse, vars
<1> QED
    BY <1>1, NextInv, NextHalfInv

LEMMA LineInv == Spec => [](Inv /\ (use = "half" => HalfInv))
<1>1. Init => Inv /\ (use = "half" => HalfInv)
    BY InitInv, InitHalfInv
<1>2. Inv /\ (use = "half" => HalfInv) /\ [Next]_vars
        => (Inv /\ (use = "half" => HalfInv))'
    BY NextLineInv
<1> QED
    BY <1>1, <1>2, PTL DEF Spec

\* On a half-duplex line rxend_cb runs with the buffer full and txend1_cb with
\* the buffer sent.
THEOREM HalfDuplexTransfersComplete == Spec => []EndMeansDone
<1>1. (use = "half" => HalfInv) => EndMeansDone
    BY DEF HalfInv, HandlerMeansDone, RxEndMeansFull, TxEndMeansSent, EndMeansDone
<1> QED
    BY <1>1, LineInv, PTL

-----------------------------------------------------------------------------
(***************************************************************************)
(* The half-duplex driver implements UartService.                          *)
(***************************************************************************)
\* Steps the client cannot tell from no step at all.
LEMMA InvisibleStep ==
    ASSUME drv'.txstate = drv.txstate, drv'.rxstate = drv.rxstate,
           TxActive => tx'.left = tx.left, RxActive => rx'.left = rx.left,
           cpu' = "txend1" <=> cpu = "txend1", cpu' = "rxend" <=> cpu = "rxend",
           use' = use
    PROVE  UNCHANGED Service!svars
BY DEF Service!svars, TxActive, RxActive, Half

LEMMA ServiceStep ==
    ASSUME use = "half", HalfInv, HalfInv', [Next]_vars
    PROVE  [Service!Next]_(Service!svars)
<1>0. use = "half" /\ use' = "half"
    BY DEF Next, LineUse, vars
<1> USE <1>0 DEF HalfInv, Inv, TypeOK, TxActive, RxActive, Half
<1> DEFINE Goal == [Service!Next]_(Service!svars)
<1>1. CASE Lock
    BY <1>1, InvisibleStep DEF Lock
<1>2. CASE UartStart
    BY <1>2, DisableChannel, IdleLoopChannel DEF UartStart, Client,
       Service!Next, Service!Stop, Service!svars
<1>3. CASE UartStop
    BY <1>3 DEF UartStop, Client, Service!Next, Service!Stop, Service!svars
<1>4. CASE UartStopSend
    BY <1>4 DEF UartStopSend, Client, Service!Next, Service!Stop, Service!svars
<1>5. CASE UartStopReceive
    BY <1>5 DEF UartStopReceive, Client, Service!Next, Service!Stop, Service!svars
<1>6. ASSUME NEW n \in Sizes, UartStartSend(n) PROVE Goal
    <2>1. /\ drv'.txstate = "ACTIVE" /\ tx'.left = n /\ ~ TxActive
          /\ drv'.rxstate = drv.rxstate /\ rx' = rx
        BY <1>6 DEF UartStartSend, Program, Channels
    <2>2. cpu' = "txend1" <=> cpu = "txend1"
        BY <1>6 DEF UartStartSend, Client
    <2>3. cpu' = "rxend" <=> cpu = "rxend"
        BY <1>6 DEF UartStartSend, Client
    <2>4. Service!StartSend(n)
        BY <2>1, <2>2, <2>3 DEF Service!StartSend
    <2> QED
        BY <2>4 DEF Service!Next, Sizes
<1>7. ASSUME NEW n \in Sizes, UartStartReceive(n) PROVE Goal
    <2>1. /\ drv'.rxstate = "ACTIVE" /\ rx'.left = n /\ ~ RxActive
          /\ drv'.txstate = drv.txstate /\ tx' = tx
        BY <1>7, DisableChannel DEF UartStartReceive, Program, Channels
    <2>2. cpu' = "txend1" <=> cpu = "txend1"
        BY <1>7 DEF UartStartReceive, Client
    <2>3. cpu' = "rxend" <=> cpu = "rxend"
        BY <1>7 DEF UartStartReceive, Client
    <2>4. Service!StartReceive(n)
        BY <2>1, <2>2, <2>3 DEF Service!StartReceive
    <2> QED
        BY <2>4 DEF Service!Next, Sizes
<1>8. CASE TxService
    <2>1. TxActive /\ tx.left = 0 /\ cpu = "thread" /\ cpu' = "txend1"
        BY <1>8 DEF TxService, PendingMeansDone, ChannelsAgree
    <2>2. drv'.txstate = "COMPLETE" /\ drv'.rxstate = drv.rxstate /\ rx' = rx
        BY <1>8 DEF TxService
    <2> QED
        BY <2>1, <2>2 DEF Service!Next, Service!SendEnd
<1>9. CASE TxNoFlag \/ RxNoFlag \/ CallbackReturn
    BY <1>9, InvisibleStep DEF TxNoFlag, RxNoFlag, CallbackReturn
<1>10. CASE TxEnd1Return
    BY <1>10 DEF TxEnd1Return, HandlerMeansDone, Service!Next, Service!NoteDone
<1>11. CASE RxService
    <2>1. CASE drv.rxstate = "IDLE"
        BY <1>11, <2>1, InvisibleStep DEF RxService
    <2>2. CASE drv.rxstate # "IDLE"
        <3>1. RxActive /\ rx.left = 0 /\ cpu = "rxcheck" /\ cpu' = "rxend"
            BY <1>11, <2>2 DEF RxService, ChannelsAgree, HandlerMeansDone
        <3>2. drv'.rxstate = "COMPLETE" /\ drv'.txstate = drv.txstate /\ tx' = tx
            BY <1>11, <2>2 DEF RxService
        <3> QED
            BY <3>1, <3>2 DEF Service!Next, Service!ReceiveEnd
    <2> QED
        BY <2>1, <2>2
<1>12. CASE RxEndReturn
    <2>1. cpu = "rxend" /\ cpu' = "thread" /\ tx' = tx /\ drv'.txstate = drv.txstate
        BY <1>12 DEF RxEndReturn
    <2>2. IF RxActive THEN rx' = rx /\ drv'.rxstate = "ACTIVE" ELSE drv'.rxstate # "ACTIVE"
        BY <1>12 DEF RxEndReturn
    <2> QED
        BY <2>1, <2>2 DEF Service!Next, Service!NoteDone
<1>13. CASE UsartService
    BY <1>13, InvisibleStep DEF UsartService
<1>14. CASE RxErrTcReturn
    BY <1>14, InvisibleStep DEF RxErrTcReturn
<1>15. CASE RxByte
    <2>1. UNCHANGED <<drv, tx, cpu>>
        BY <1>15 DEF RxByte
    <2>2. CASE RxActive
        <3>1. rx.left \in Nat /\ rx.left > 0 /\ rx'.left = rx.left - 1
            BY <1>15, <2>2, TransferChannel DEF RxByte, Running, Channels, ChannelsAgree
        <3> QED
            BY <2>1, <2>2, <3>1 DEF Service!Next, Service!ReceiveItem
    <2>3. CASE ~ RxActive
        BY <2>1, <2>3, InvisibleStep
    <2> QED
        BY <2>2, <2>3
<1>16. CASE TxByte
    <2>1. UNCHANGED <<drv, rx, cpu>>
        BY <1>16 DEF TxByte
    <2>2. TxActive /\ tx.left \in Nat /\ tx.left > 0 /\ tx'.left = tx.left - 1
        BY <1>16, TransferChannel DEF TxByte, Running, Channels, ChannelsAgree
    <2> QED
        BY <2>1, <2>2 DEF Service!Next, Service!SendItem
<1>17. CASE LineError \/ FrameOut
    BY <1>17, InvisibleStep DEF LineError, FrameOut
<1>18. CASE UNCHANGED vars
    BY <1>18, InvisibleStep DEF vars, driverVars
<1> QED
    BY <1>1, <1>2, <1>3, <1>4, <1>5, <1>6, <1>7, <1>8, <1>9, <1>10, <1>11, <1>12, <1>13,
       <1>14, <1>15, <1>16, <1>17, <1>18
       DEF Next, LineUse, Steps, ClientCall, Handler, Hardware

\* In full use the service sees nothing.
LEMMA FullUseStep ==
    ASSUME use # "half", use' = use
    PROVE  UNCHANGED Service!svars
BY DEF Service!svars, Half

\* On a half-duplex line every behaviour of the driver is one of the abstract
\* service: stopped transfers end silently, complete ones with one callback, and
\* no other way.
THEOREM HalfDuplexImplementsService == Spec => ImplementsService
<1> DEFINE Line == Inv /\ (use = "half" => HalfInv)
<1>1. Init => Service!Init
    BY DEF Init, Service!Init, Half
<1>2. Line /\ Line' /\ [Next]_vars => [Service!Next]_(Service!svars)
    <2> SUFFICES ASSUME Line, Line', [Next]_vars
                 PROVE  [Service!Next]_(Service!svars)
        OBVIOUS
    <2>1. use' = use
        BY DEF Next, LineUse, vars
    <2>2. CASE use = "half"
        BY <2>1, <2>2, ServiceStep
    <2>3. CASE use # "half"
        BY <2>1, <2>3, FullUseStep
    <2> QED
        BY <2>2, <2>3
<1> QED
    BY <1>1, <1>2, LineInv, PTL DEF Spec, ImplementsService, Service!Spec

=============================================================================
