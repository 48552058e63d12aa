----------------------------- MODULE GsmSession -----------------------------
(***************************************************************************)
(* The tracker's dialogue with its GSM modem: the session of               *)
(* demos/BikeTracker/main.c (InicializaGSM) and, with queries, the one of  *)
(* demos/BikeTracker/test/gsm.c, which also reads the IMEI and the         *)
(* battery. The main thread runs the functions; they talk to the modem     *)
(* through the UART, used as the service of UartService, and learn of a    *)
(* full receive buffer from the flag that the callback rxend sets.         *)
(*                                                                         *)
(* A byte stream is cut into chunks: a receive takes two, the answer the   *)
(* code expects; what a reply has beyond that is its third chunk. Code     *)
(* between two sleeps takes microseconds, a chunk milliseconds.            *)
(***************************************************************************)
EXTENDS Integers, Sequences

CONSTANT
    Settings        \* the sessions and surroundings to consider, records of
                    \*   queries: GSM_init goes on to IMEI_GET and BATT_GET (test/gsm.c)
                    \*   prompt: the modem boots and answers within the code's sleeps
                    \*   tries: bound on AT_Command2's loop, 1000 in the code
                    \*   resets: how often the processor may be reset

ASSUME SettingsAssumption ==
    Settings \subseteq [queries : BOOLEAN, prompt : BOOLEAN, tries : Nat \ {0}, resets : Nat]

VARIABLES
    setting,        \* one of Settings, for good
    pc,             \* where the main thread is
    step,           \* which exchange of the session it is in
    contador, Flag, \* AT_Command2's loop variables
    RX_Flag,        \* set by rxend, cleared by the functions
    buffer,         \* the receive buffer
    Datos,          \* what IMEI_GET and BATT_GET have copied out of it
    snd, rcv, note, \* the UART
    line,           \* the command being transmitted
    modem,          \* power, ready, echo, inbox (commands), out (reply chunks),
                    \* said (what it has answered positively since it was on)
    resets

uart == <<snd, rcv, note>>
vars == <<pc, step, contador, Flag, RX_Flag, buffer, Datos, uart, line, modem, resets, setting>>

Idle == -1
Uart == INSTANCE UartService WITH MaxSize <- 2, Idle <- Idle

-----------------------------------------------------------------------------
(***************************************************************************)
(* The exchanges. AT_Command2 looks for the answer's text in the buffer;   *)
(* IMEI_GET ("GSN") and BATT_GET ("CBC") take what is there.               *)
(***************************************************************************)
Session == IF setting.queries THEN <<"AT", "GSN", "CBC", "CREG", "CGATT">>
                      ELSE <<"AT", "CREG", "CGATT">>

Commands == {"ATE0", "AT", "GSN", "CBC", "CREG", "CGATT"}

\* Step 0 is the unverified "ATE0" of GSM_init.
Command == IF step = 0 THEN "ATE0" ELSE Session[step]
Verified(c) == c \in {"AT", "CREG", "CGATT"}

\* A chunk: which command it answers, which part of the reply it is, and
\* whether the reply is the positive one.
Chunk(c, part, ok) == [src |-> c, part |-> part, ok |-> ok]
Blank == Chunk("blank", 0, FALSE)
Chunks == [src : Commands \cup {"echo", "blank"}, part : 0..3, ok : BOOLEAN]

\* What the modem sends: ATE0 is answered "OK", GSN fills its receive exactly,
\* the others go on after the part that is received.
Reply(c, ok) ==
    LET parts == IF c \in {"ATE0", "GSN"} THEN 2 ELSE 3
    IN  [i \in 1..parts |-> Chunk(c, i, ok)]

\* strstr(Data, Answer): certain when the reply fills the buffer in order,
\* impossible when no chunk holds the text, and otherwise a matter of where
\* the text is cut. "OK" ends every reply.
Aligned(b, c) == \A i \in 1..2 : b[i].src = c /\ b[i].part = i
HasText(ch, c) ==
    ch.ok /\ (ch.src = c \/ (c = "AT" /\ (ch.src = "ATE0" \/ ch.part = 3)))
MatchOutcomes(b, c) ==
    IF Aligned(b, c) THEN {b[1].ok /\ b[2].ok}
    ELSE IF \E i \in 1..2 : HasText(b[i], c) THEN BOOLEAN ELSE {FALSE}

-----------------------------------------------------------------------------
ModemOff == [power |-> FALSE, ready |-> FALSE, echo |-> TRUE, inbox |-> <<>>, out |-> <<>>,
             said |-> {}]

Init ==
    /\ setting \in Settings
    /\ pc = "on"
    /\ step = 0
    /\ contador = 0 /\ Flag = TRUE
    /\ RX_Flag = FALSE
    /\ buffer = [i \in 1..2 |-> Blank]
    /\ Datos = [c \in {"GSN", "CBC"} |-> [i \in 1..2 |-> Blank]]
    /\ Uart!Init
    /\ line = "ATE0"
    /\ modem = ModemOff
    /\ resets = 0

(***************************************************************************)
(* Time. The thread wakes from a sleep of 100 ms or more with its command  *)
(* sent, and from a prompt modem it has then had the whole reply.          *)
(***************************************************************************)
LongSleeps == {"boot", "ate0", "sleep", "off"}
Sleeping == pc \in LongSleeps \cup {"stoptx", "send0"}

Quiet ==
    /\ modem.inbox = <<>> /\ modem.out = <<>>
    /\ modem.power => modem.ready
    /\ rcv # 0

Awake == note = "none" /\ (pc \in LongSleeps => snd = Idle /\ (setting.prompt => Quiet))

Outside == setting.prompt => Sleeping

-----------------------------------------------------------------------------
(***************************************************************************)
(* The firmware.                                                           *)
(***************************************************************************)
\* The pulse on the power key, the same for GSM_init, GSM_ON and GSM_OFF: the
\* modem changes from off to on or from on to off.
Pulse ==
    modem' = [ModemOff EXCEPT !.power = ~ modem.power]

PowerOn ==
    /\ pc = "on" /\ Awake
    /\ Pulse
    /\ pc' = "boot"
    /\ UNCHANGED <<step, contador, Flag, RX_Flag, buffer, Datos, uart, line, resets, setting>>

\* After the pulse, GSM_init goes on to its first exchange.
Booted ==
    /\ pc = "boot" /\ Awake
    /\ pc' = "stoprx"
    /\ UNCHANGED <<step, contador, Flag, RX_Flag, buffer, Datos, uart, line, modem, resets, setting>>

\* Every exchange begins by stopping both directions, with a sleep of 1 ms
\* after each.
StopReceive ==
    /\ pc = "stoprx" /\ Awake
    /\ rcv' = Idle
    /\ pc' = "stoptx"
    /\ contador' = 0 /\ Flag' = TRUE
    /\ UNCHANGED <<step, RX_Flag, buffer, Datos, snd, note, line, modem, resets, setting>>

StopSend ==
    /\ pc = "stoptx" /\ Awake
    /\ snd' = Idle
    /\ pc' = "send0"
    /\ UNCHANGED <<step, contador, Flag, RX_Flag, buffer, Datos, rcv, note, line, modem, resets, setting>>

SendCommand ==
    /\ pc \in {"send0", "send"} /\ Awake
    /\ snd' = 1
    /\ line' = Command
    /\ pc' = IF step = 0 THEN "ate0" ELSE "recv"
    /\ UNCHANGED <<step, contador, Flag, RX_Flag, buffer, Datos, rcv, note, modem, resets, setting>>

\* uartStartReceive, which with the assertions off restarts a receive that is
\* still ACTIVE.
ArmReceive ==
    /\ pc = "recv" /\ Awake
    /\ rcv' = 2
    /\ pc' = "check"
    /\ UNCHANGED <<step, contador, Flag, RX_Flag, buffer, Datos, snd, note, line, modem, resets, setting>>

\* Mutant: any full buffer counts as the answer.
CheckNothing ==
    /\ pc = "check" /\ Awake /\ Verified(Command)
    /\ Flag' = (Flag /\ ~ RX_Flag)
    /\ contador' = contador + 1
    /\ pc' = "sleep"
    /\ UNCHANGED <<step, RX_Flag, buffer, Datos, uart, line, modem, resets, setting>>

\* The rest of AT_Command2's loop body.
CheckAnswer ==
    /\ pc = "check" /\ Awake /\ Verified(Command)
    /\ \E m \in IF RX_Flag THEN MatchOutcomes(buffer, Command) ELSE {FALSE} :
         Flag' = (Flag /\ ~ m)
    /\ contador' = contador + 1
    /\ pc' = "sleep"
    /\ UNCHANGED <<step, RX_Flag, buffer, Datos, uart, line, modem, resets, setting>>

\* Mutant: whatever is in the buffer is copied.
CopyUnchecked ==
    /\ pc = "check" /\ Awake /\ ~ Verified(Command)
    /\ Flag' = FALSE /\ Datos' = [Datos EXCEPT ![Command] = buffer]
    /\ pc' = "sleep"
    /\ UNCHANGED <<step, contador, RX_Flag, buffer, uart, line, modem, resets, setting>>

\* Mutant: the loop is not told to end.
CopyAndGoOn ==
    /\ pc = "check" /\ Awake /\ ~ Verified(Command)
    /\ Datos' = IF RX_Flag THEN [Datos EXCEPT ![Command] = buffer] ELSE Datos
    /\ pc' = "sleep"
    /\ UNCHANGED <<step, contador, Flag, RX_Flag, buffer, uart, line, modem, resets, setting>>

\* The rest of the loop bodies of IMEI_GET and BATT_GET.
CopyReading ==
    /\ pc = "check" /\ Awake /\ ~ Verified(Command)
    /\ IF RX_Flag
         THEN Flag' = FALSE /\ Datos' = [Datos EXCEPT ![Command] = buffer]
         ELSE UNCHANGED <<Flag, Datos>>
    /\ pc' = "sleep"
    /\ UNCHANGED <<step, contador, RX_Flag, buffer, uart, line, modem, resets, setting>>

\* The loop conditions: AT_Command2 gives up, the other two do not.
LoopGoesOn == Flag /\ (Verified(Command) => contador < setting.tries)

\* Mutant: the loop does not sleep.
RepeatAtOnce ==
    /\ pc = "sleep" /\ note = "none" /\ LoopGoesOn
    /\ pc' = "send"
    /\ UNCHANGED <<step, contador, Flag, RX_Flag, buffer, Datos, uart, line, modem, resets, setting>>

Repeat ==
    /\ pc = "sleep" /\ Awake /\ LoopGoesOn
    /\ pc' = "send"
    /\ UNCHANGED <<step, contador, Flag, RX_Flag, buffer, Datos, uart, line, modem, resets, setting>>

\* Mutant: without an answer the modem is left on.
ReturnWithoutOff ==
    /\ pc = "sleep" /\ Awake /\ ~ LoopGoesOn
    /\ RX_Flag' = FALSE
    /\ IF ~ Flag /\ step < Len(Session)
         THEN step' = step + 1 /\ pc' = "stoprx"
         ELSE step' = step /\ pc' = IF Flag THEN "off" ELSE "poweroff"
    /\ UNCHANGED <<contador, Flag, buffer, Datos, uart, line, modem, resets, setting>>

\* The function clears RX_Flag and returns. With answer 1 (Flag is FALSE) the
\* session goes on to the next exchange; after the last, or with answer 0, to
\* GSM_OFF.
Return ==
    /\ pc = "sleep" /\ Awake /\ ~ LoopGoesOn
    /\ RX_Flag' = FALSE
    /\ IF ~ Flag /\ step < Len(Session)
         THEN step' = step + 1 /\ pc' = "stoprx"
         ELSE step' = step /\ pc' = "poweroff"
    /\ UNCHANGED <<contador, Flag, buffer, Datos, uart, line, modem, resets, setting>>

\* GSM_init's sleep of 5 s after "ATE0".
EchoOff ==
    /\ pc = "ate0" /\ Awake
    /\ step' = 1
    /\ pc' = "stoprx"
    /\ UNCHANGED <<contador, Flag, RX_Flag, buffer, Datos, uart, line, modem, resets, setting>>

PowerOff ==
    /\ pc = "poweroff" /\ Awake
    /\ Pulse
    /\ pc' = "off"
    /\ UNCHANGED <<step, contador, Flag, RX_Flag, buffer, Datos, uart, line, resets, setting>>

Finished ==
    /\ pc = "off" /\ Awake
    /\ pc' = "done"
    /\ UNCHANGED <<step, contador, Flag, RX_Flag, buffer, Datos, uart, line, modem, resets, setting>>

Firmware ==
    \/ PowerOn \/ Booted \/ StopReceive \/ StopSend \/ SendCommand \/ ArmReceive
    \/ CheckAnswer \/ CopyReading \/ Repeat \/ Return \/ EchoOff \/ PowerOff \/ Finished

\* A reset of the processor: its memory starts again, the modem does not.
Reset ==
    /\ resets < setting.resets /\ note = "none"
    /\ resets' = resets + 1
    /\ pc' = "on" /\ step' = 0 /\ contador' = 0 /\ Flag' = TRUE /\ RX_Flag' = FALSE
    /\ buffer' = [i \in 1..2 |-> Blank]
    /\ Datos' = [c \in {"GSN", "CBC"} |-> [i \in 1..2 |-> Blank]]
    /\ snd' = Idle /\ rcv' = Idle /\ note' = "none"
    /\ line' = "ATE0"
    /\ UNCHANGED <<modem, setting>>

-----------------------------------------------------------------------------
(***************************************************************************)
(* The UART: its interrupts run before the thread goes on.                 *)
(***************************************************************************)
firmware == <<pc, step, contador, Flag, Datos, resets, setting>>

\* The command is out; the modem, if it is up and not busy with another, has
\* it. A modem that is not prompt may miss it.
Transmit ==
    /\ Outside /\ Uart!SendItem
    /\ \/ /\ modem.ready /\ modem.inbox = <<>>
          /\ modem' = [modem EXCEPT !.inbox = <<line>>]
       \/ /\ ~ (setting.prompt /\ modem.ready /\ modem.inbox = <<>>)
          /\ UNCHANGED modem
    /\ UNCHANGED <<firmware, RX_Flag, buffer, line>>

TxEnd ==
    /\ Uart!SendEnd
    /\ UNCHANGED <<firmware, RX_Flag, buffer, line, modem>>

RxEnd ==
    /\ Uart!ReceiveEnd
    /\ UNCHANGED <<firmware, RX_Flag, buffer, line, modem>>

\* The vector shared by the two directions does not tell a half transfer from
\* a full one (UartDriver, UartRxEnd.cfg): when replies and
\* commands overlap, the end of one transfer ends the other half way.
BothEnd ==
    /\ note = "none"
    /\ \/ snd = 0 /\ rcv = 1
       \/ snd = 1 /\ rcv = 0
    /\ snd' = Idle /\ rcv' = Idle /\ note' = "receive"
    /\ UNCHANGED <<firmware, RX_Flag, buffer, line, modem>>

\* The callbacks of uartCfg: rxend sets the flag, txend1 is NULL.
rxend ==
    /\ Uart!NoteDone
    /\ RX_Flag' = (RX_Flag \/ note = "receive")
    /\ UNCHANGED <<firmware, buffer, line, modem>>

(***************************************************************************)
(* The modem.                                                              *)
(***************************************************************************)
Boot ==
    /\ Outside /\ modem.power /\ ~ modem.ready
    /\ modem' = [modem EXCEPT !.ready = TRUE]
    /\ UNCHANGED <<firmware, RX_Flag, buffer, uart, line>>

\* Registration and attachment come and go; the other replies are positive. A
\* prompt modem is still slower than the interrupt that ends the send.
Answer ==
    /\ Outside /\ modem.inbox # <<>> /\ modem.out = <<>>
    /\ setting.prompt => snd = Idle
    /\ LET c == Head(modem.inbox)
       IN  \E ok \in IF c \in {"CREG", "CGATT"} THEN BOOLEAN ELSE {TRUE} :
             modem' = [modem EXCEPT
                         !.inbox = <<>>,
                         !.out = (IF modem.echo THEN <<Chunk("echo", 0, FALSE)>> ELSE <<>>)
                                   \o Reply(c, ok),
                         !.echo = @ /\ c # "ATE0",
                         !.said = IF ok THEN @ \cup {c} ELSE @]
    /\ UNCHANGED <<firmware, RX_Flag, buffer, uart, line>>

\* A chunk arrives: into the buffer while a receive is in progress, else into
\* the driver's idle loop.
Arrive ==
    /\ Outside /\ modem.out # <<>> /\ rcv # 0
    /\ modem' = [modem EXCEPT !.out = Tail(@)]
    /\ IF rcv # Idle
         THEN Uart!ReceiveItem /\ buffer' = [buffer EXCEPT ![3 - rcv] = Head(modem.out)]
         ELSE UNCHANGED <<uart, buffer>>
    /\ UNCHANGED <<firmware, RX_Flag, line>>

Environment == Transmit \/ TxEnd \/ RxEnd \/ BothEnd \/ rxend \/ Boot \/ Answer \/ Arrive

Next == Firmware \/ Reset \/ Environment

Spec == Init /\ [][Next]_vars

\* The thread runs when it is awake (it is the only one of its priority that
\* does not sleep all the time), the UART and its interrupts make progress, a
\* prompt modem boots and answers.
Fairness == WF_vars(Firmware) /\ WF_vars(Environment)

FairSpec == Spec /\ Fairness

-----------------------------------------------------------------------------
TypeOK ==
    /\ pc \in LongSleeps \cup {"on", "stoprx", "stoptx", "send0", "send", "recv", "check",
                               "poweroff", "done"}
    /\ step \in 0..Len(Session)
    /\ contador \in 0..setting.tries /\ Flag \in BOOLEAN /\ RX_Flag \in BOOLEAN
    /\ buffer \in [1..2 -> Chunks]
    /\ Datos \in [{"GSN", "CBC"} -> [1..2 -> Chunks]]
    /\ Uart!ServiceTypeOK
    /\ line \in Commands
    /\ modem.inbox \in {<<>>} \cup {<<c>> : c \in Commands}
    /\ Len(modem.out) <= 4 /\ \A i \in DOMAIN modem.out : modem.out[i] \in Chunks
    /\ modem.said \subseteq Commands
    /\ resets \in 0..setting.resets

\* With a prompt modem the session uses the driver as UartService asks: it
\* starts a transfer only in an idle direction (the assertions of uart.c:155 and
\* uart.c:265). A retry to a slow modem starts a receive over one in progress.
UsesService == /\ setting.prompt => Uart!Init
               /\ [][setting.prompt => [Uart!Next]_uart]_vars

\* The session with a prompt modem keeps the line half-duplex, which is what the
\* driver needs to give the service it promises (HalfDuplexUse of UartDriver):
\* no command over a receive in progress, no answer over a command.
LineIsHalfDuplex ==
    [][setting.prompt =>
         /\ snd' > snd => rcv = Idle
         /\ rcv' < rcv /\ rcv' # Idle => snd = Idle]_vars

\* The session asks nothing of the driver that it does not promise.
DriverUsedWell == UsesService /\ LineIsHalfDuplex

\* "Obtiene el numero IMEI" (main.c:387): what IMEI_GET has stored when it
\* returns is the modem's reply to this query, whole and in place. IMEI_GET
\* does not look at what it stores, so this takes a modem as prompt as the
\* sleeps of the code suppose.
ReadingDone(c) == pc = "sleep" /\ Command = c /\ ~ Flag
ReadingsAreReplies ==
    setting.prompt => \A c \in {"GSN", "CBC"} : ReadingDone(c) => Aligned(Datos[c], c)

\* AT_Command2 returns 1, and the session goes on, only if the modem has given
\* the positive answer since it was switched on, however its replies are
\* delayed, lost, cut or left in the buffer by another call, and even if the
\* processor has been reset. Any "OK" will do for "AT".
AnswerIsGenuine ==
    pc \notin {"off", "done"} => \A i \in DOMAIN Session :
      step > i /\ Verified(Session[i]) =>
        \/ Session[i] \in modem.said
        \/ Session[i] = "AT" /\ modem.said # {}

\* "Funcion para apagar el modulo GSM" (main.c:281): the session leaves the
\* modem off, whatever it answers. A reset puts the toggling pulses out of
\* step, and then this fails.
ModemOffAtEnd == resets = 0 /\ pc = "done" => ~ modem.power

\* The session ends, whatever the modem says about the network.
SessionEnds == <>(pc = "done")

=============================================================================
