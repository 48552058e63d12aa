-------------------------- MODULE GsmSessionProofs --------------------------
(***************************************************************************)
(* Proofs about GsmSession, for every set of sessions and surroundings,    *)
(* any bound of AT_Command2's loop and any number of resets.               *)
(*                                                                         *)
(* The inductive invariant Inv has a part for each question. LoopOK places *)
(* the loop variables. Toggled counts the pulses on the power key, which   *)
(* only a reset puts out of step. Truthful says that a positive chunk on   *)
(* its way or in the buffer is one that the modem has said since it was    *)
(* switched on. PromptOK follows one exchange with a prompt modem, from    *)
(* the command to the last chunk of the reply.                             *)
(***************************************************************************)
EXTENDS GsmSession, SequenceTheorems, TLAPS

Modems ==
    [power : BOOLEAN, ready : BOOLEAN, echo : BOOLEAN,
     inbox : {<<>>} \cup {<<c>> : c \in Commands}, out : Seq(Chunks), said : SUBSET Commands]

Types ==
    /\ TypeOK
    /\ setting \in Settings
    /\ modem \in Modems /\ (modem.ready => modem.power)

-----------------------------------------------------------------------------
(***************************************************************************)
(* The invariant.                                                          *)
(***************************************************************************)
InExchange == {"send", "recv", "check", "sleep"}
BeforeCheck == {"stoptx", "send0", "send", "recv", "check"}

LoopOK ==
    /\ pc \in InExchange \cup {"poweroff", "off", "done"} => step > 0
    /\ pc \in {"on", "boot", "ate0"} => step = 0
    /\ pc \in BeforeCheck => Flag /\ (Verified(Command) => contador < setting.tries)

Toggled ==
    resets = 0 => (modem.power <=> pc \notin {"on", "off", "done"})

\* The modem has said c, in the sense of AnswerIsGenuine.
Genuine(c) == c \in modem.said \/ (c = "AT" /\ modem.said # {})

Truthful ==
    /\ \A i \in DOMAIN modem.out : modem.out[i].ok => modem.out[i].src \in modem.said
    /\ pc = "on" => rcv = Idle /\ \A i \in 1..2 : ~ buffer[i].ok
    /\ pc \notin {"off", "done"} =>
         /\ \A i \in 1..2 : buffer[i].ok => buffer[i].src \in modem.said
         /\ pc = "sleep" /\ ~ Flag /\ Verified(Command) => Genuine(Command)
    /\ AnswerIsGenuine

\* The chunk is part n of the reply to the present command.
PartOf(ch, n) == ch.src = Command /\ ch.part = n

\* Where the session does not wait for the modem, nothing is under way.
CalmOK ==
    /\ pc \notin {"ate0", "sleep", "recv", "check"} => snd = Idle /\ note = "none"
    /\ pc \in {"recv", "check"} => snd = 1 /\ note = "none"
    /\ pc \notin {"on", "ate0", "sleep"} => modem.inbox = <<>> /\ modem.out = <<>>
    /\ pc \notin {"on", "boot", "off", "done"} => (modem.power => modem.ready)
    /\ pc \in {"on", "boot", "ate0", "stoptx", "send0"} => rcv = Idle
    /\ pc \in {"send", "recv"} => rcv = Idle \/ (~ modem.power /\ rcv = 2)
    /\ pc = "check" => rcv = 2
    /\ rcv \in {0, 1} => pc = "sleep"
    /\ pc \notin InExchange => ~ RX_Flag

\* The command and the reply of one exchange.
TurnOK ==
    /\ snd # Idle => line = Command /\ rcv \in {Idle, 2} /\ modem.out = <<>>
                       /\ note = "none" /\ snd \in {0, 1}
    /\ pc \in {"ate0", "sleep"} =>
         /\ snd = 1 => modem.inbox = <<>>
         /\ snd = 0 => (modem.power => modem.inbox = <<Command>>)
         /\ modem.inbox # <<>> => modem.inbox = <<Command>> /\ modem.out = <<>>
         /\ ~ modem.power => modem.inbox = <<>> /\ modem.out = <<>>
    /\ modem.power /\ pc = "ate0" /\ snd = Idle /\ modem.inbox = <<>> => ~ modem.echo
    /\ modem.power /\ step > 0 /\ pc \notin {"off", "done"} => ~ modem.echo

\* The reply on its way to the buffer.
ReplyOK ==
    pc = "sleep" =>
      /\ snd # Idle \/ modem.inbox # <<>> => rcv = 2
      /\ rcv = 2 /\ modem.power /\ snd = Idle /\ modem.inbox = <<>> => Len(modem.out) > 1
      /\ rcv = 1 => modem.out # <<>>
      /\ rcv \in {1, 2} => \A i \in DOMAIN modem.out : PartOf(modem.out[i], 2 - rcv + i)

\* And in the buffer, from where it is copied.
BufferOK ==
    /\ rcv \in {0, 1} => PartOf(buffer[1], 1)
    /\ rcv = 0 => PartOf(buffer[2], 2)
    /\ note = "receive" => pc = "sleep" /\ rcv = Idle /\ Aligned(buffer, Command)
    /\ pc \in InExchange /\ RX_Flag => Aligned(buffer, Command)
    /\ pc = "sleep" /\ ~ Flag /\ ~ Verified(Command) => Aligned(Datos[Command], Command)

PromptOK == setting.prompt => CalmOK /\ TurnOK /\ ReplyOK /\ BufferOK

Inv == Types /\ LoopOK /\ Toggled /\ Truthful /\ PromptOK

-----------------------------------------------------------------------------
(***************************************************************************)
(* Facts about the session and about replies.                              *)
(***************************************************************************)
LEMMA SessionFacts ==
    /\ Len(Session) \in Nat /\ Len(Session) > 0 /\ DOMAIN Session = 1..Len(Session)
    /\ \A i \in DOMAIN Session : Session[i] \in Commands \ {"ATE0"}
<1>1. CASE setting.queries
  BY <1>1 DEF Session, Commands
<1>2. CASE ~ setting.queries
  BY <1>2 DEF Session, Commands
<1> QED
  BY <1>1, <1>2

LEMMA CommandFacts ==
  Types =>
    /\ Command \in Commands
    /\ step = 0 => Command = "ATE0"
    /\ step > 0 => Command # "ATE0" /\ step \in DOMAIN Session /\ Session[step] = Command
    /\ ~ Verified(Command) /\ step > 0 => Command \in {"GSN", "CBC"}
<1> SUFFICES ASSUME Types
             PROVE  /\ Command \in Commands
                    /\ step = 0 => Command = "ATE0"
                    /\ step > 0 => Command # "ATE0" /\ step \in DOMAIN Session
                                      /\ Session[step] = Command
                    /\ ~ Verified(Command) /\ step > 0 => Command \in {"GSN", "CBC"}
  OBVIOUS
<1>1. step \in 0..Len(Session)
  BY DEF Types, TypeOK
<1> QED
  BY <1>1, SessionFacts DEF Command, Commands, Verified

\* The first chunk of what the modem is sending, and the rest.
LEMMA FirstChunk ==
  ASSUME NEW out \in Seq(Chunks), out # <<>>
  PROVE  /\ Len(out) \in Nat /\ Len(out) > 0 /\ DOMAIN out = 1..Len(out)
         /\ Head(out) \in Chunks /\ Head(out) = out[1]
         /\ Tail(out) \in Seq(Chunks) /\ Len(Tail(out)) = Len(out) - 1
         /\ DOMAIN Tail(out) = 1..(Len(out) - 1)
         /\ \A i \in DOMAIN Tail(out) : i + 1 \in DOMAIN out /\ Tail(out)[i] = out[i + 1]
OBVIOUS

LEMMA BlankFacts ==
    /\ Blank \in Chunks /\ ~ Blank.ok
    /\ [i \in 1..2 |-> Blank] \in [1..2 -> Chunks]
    /\ [c \in {"GSN", "CBC"} |-> [i \in 1..2 |-> Blank]]
          \in [{"GSN", "CBC"} -> [1..2 -> Chunks]]
<1>1. Blank \in Chunks /\ ~ Blank.ok
  BY DEF Blank, Chunk, Chunks
<1> QED
  BY <1>1

\* After the pulse the modem starts afresh.
LEMMA PulseFacts ==
  Types /\ Pulse =>
    /\ modem' \in Modems /\ modem'.power = ~ modem.power /\ ~ modem'.ready /\ modem'.echo
    /\ modem'.inbox = <<>> /\ modem'.out = <<>> /\ modem'.said = {} /\ Len(modem'.out) = 0
    /\ DOMAIN modem'.out = {}
<1> SUFFICES ASSUME Types, Pulse
             PROVE  /\ modem' \in Modems /\ modem'.power = ~ modem.power /\ ~ modem'.ready
                    /\ modem'.echo /\ modem'.inbox = <<>> /\ modem'.out = <<>>
                    /\ modem'.said = {} /\ Len(modem'.out) = 0 /\ DOMAIN modem'.out = {}
  OBVIOUS
<1>1. PICK b \in BOOLEAN : b = (~ modem.power)
  BY Zenon
<1>2. modem' = [ModemOff EXCEPT !.power = b]
  BY <1>1 DEF Pulse
<1>3. <<>> \in Seq(Chunks) /\ Len(<<>>) = 0 /\ DOMAIN <<>> = {}
  OBVIOUS
<1>4. modem' = [power |-> b, ready |-> FALSE, echo |-> TRUE, inbox |-> <<>>, out |-> <<>>,
                said |-> {}]
  BY <1>2 DEF ModemOff
<1> QED
  BY <1>1, <1>4 DEF Modems

\* What the modem sends as the answer to c.
Sent(echo, c, ok) == (IF echo THEN <<Chunk("echo", 0, FALSE)>> ELSE <<>>) \o Reply(c, ok)

LEMMA SentFacts ==
  ASSUME NEW echo \in BOOLEAN, NEW c \in Commands, NEW ok \in BOOLEAN
  PROVE  /\ Sent(echo, c, ok) \in Seq(Chunks)
         /\ Len(Sent(echo, c, ok)) \in 2..4
         /\ DOMAIN Sent(echo, c, ok) = 1..Len(Sent(echo, c, ok))
         /\ \A i \in DOMAIN Sent(echo, c, ok) :
              /\ Sent(echo, c, ok)[i] \in Chunks
              /\ Sent(echo, c, ok)[i].ok => ok /\ Sent(echo, c, ok)[i].src = c
              /\ ~ echo => /\ Sent(echo, c, ok)[i].src = c
                          /\ Sent(echo, c, ok)[i].part = i
<1>1. PICK n \in 2..3 : n = IF c \in {"ATE0", "GSN"} THEN 2 ELSE 3
  OBVIOUS
<1>2. Reply(c, ok) = [i \in 1..n |-> Chunk(c, i, ok)]
  BY <1>1 DEF Reply
<1>3. \A i \in 1..n : Chunk(c, i, ok) \in Chunks /\ Chunk(c, i, ok).src = c
                       /\ Chunk(c, i, ok).part = i /\ Chunk(c, i, ok).ok = ok
  BY DEF Chunk, Chunks
<1>4. PICK r \in Seq(Chunks) : r = Reply(c, ok)
  BY <1>2, <1>3
<1>5. /\ Len(r) = n
      /\ \A i \in 1..n : r[i] = Chunk(c, i, ok)
  BY <1>2, <1>4
<1>6. CASE echo
  <2>1. PICK e : e = Chunk("echo", 0, FALSE)
    OBVIOUS
  <2>2. e \in Chunks /\ ~ e.ok
    BY <2>1 DEF Chunk, Chunks
  <2>3. Sent(echo, c, ok) = <<e>> \o r
    BY <1>4, <1>6, <2>1 DEF Sent
  <2>9. <<e>> \in Seq(Chunks) /\ Len(<<e>>) = 1 /\ <<e>>[1] = e
    BY <2>2
  <2>4. PICK w \in Seq(Chunks) : w = <<e>> \o r
    BY <2>9, ConcatProperties
  <2>5. /\ Len(w) = n + 1
        /\ \A i \in 1..Len(w) : w[i] = IF i = 1 THEN e ELSE r[i - 1]
    BY <1>5, <2>4
  <2>6. \A i \in 1..Len(w) : w[i] \in Chunks /\ (w[i].ok => ok /\ w[i].src = c)
    BY <1>3, <1>5, <2>2, <2>5
  <2>7. DOMAIN w = 1..Len(w)
    OBVIOUS
  <2> HIDE DEF Sent
  <2>8. Len(w) \in 2..4
    BY <2>5
  <2> QED
    BY <1>6, <2>3, <2>4, <2>6, <2>7, <2>8
<1>7. CASE ~ echo
  <2>1. Sent(echo, c, ok) = <<>> \o r
    BY <1>4, <1>7 DEF Sent
  <2> QED
    BY <1>3, <1>5, <2>1
<1> QED
  BY <1>6, <1>7

-----------------------------------------------------------------------------
(***************************************************************************)
(* Every step keeps the invariant: the firmware's.                         *)
(***************************************************************************)
\* The pulse that switches the modem on.
LEMMA PowerOnKeepsInv == Inv /\ PowerOn => Inv'
<1> SUFFICES ASSUME Inv, PowerOn PROVE Inv'
  OBVIOUS
<1>0. Types /\ LoopOK /\ Toggled /\ Truthful /\ PromptOK
  BY DEF Inv
<1>1. Session' = Session /\ Command' = Command /\ step' = step /\ setting' = setting
  BY DEF PowerOn, Session, Command
<1>2. Types'
  BY <1>0, <1>1, SessionFacts, CommandFacts, SettingsAssumption, PulseFacts DEF PowerOn,
     LongSleeps, uart, Types, TypeOK, Uart!ServiceTypeOK, Uart!Left, Idle, LoopOK, BeforeCheck,
     Verified, Modems
<1>3. LoopOK'
  BY <1>0, <1>1, CommandFacts, SettingsAssumption DEF PowerOn, TypeOK, Uart!ServiceTypeOK,
     Uart!Left, Idle, LoopOK, BeforeCheck, InExchange, Verified
<1>4. Toggled'
  BY <1>0 DEF PowerOn, Pulse, ModemOff, Toggled, Types, TypeOK
<1>5. Truthful'
  BY <1>0, <1>1, PulseFacts, SessionFacts DEF PowerOn, Truthful, AnswerIsGenuine, LoopOK
<1>6. PromptOK'
  BY <1>0, <1>1, CommandFacts, PulseFacts DEF PowerOn, uart, Uart!Left, Idle, PromptOK, CalmOK,
     TurnOK, ReplyOK, BufferOK, InExchange, Aligned, PartOf, LoopOK, BeforeCheck
<1> QED
  BY <1>2, <1>3, <1>4, <1>5, <1>6 DEF Inv

\* The wait for the boot.
LEMMA BootedKeepsInv == Inv /\ Booted => Inv'
<1> SUFFICES ASSUME Inv, Booted PROVE Inv'
  OBVIOUS
<1>0. Types /\ LoopOK /\ Toggled /\ Truthful /\ PromptOK
  BY DEF Inv
<1>1. Session' = Session /\ Command' = Command /\ step' = step /\ setting' = setting
  BY DEF Booted, Session, Command
<1>2. Types'
  BY <1>0, <1>1, SessionFacts, CommandFacts, SettingsAssumption DEF Booted, uart, Types,
     TypeOK, Uart!ServiceTypeOK, Uart!Left, Idle, LoopOK, BeforeCheck, Verified, Modems
<1>3. LoopOK'
  BY <1>0, <1>1, CommandFacts, SettingsAssumption DEF Booted, Uart!Left, Idle, LoopOK,
     BeforeCheck, InExchange, Verified
<1>4. Toggled'
  BY <1>0 DEF Booted, Toggled
<1>5. Truthful'
  BY <1>0, <1>1, CommandFacts DEF Booted, Uart!Left, Idle, Truthful, AnswerIsGenuine, Genuine,
     LoopOK, InExchange, BeforeCheck
<1>6. PromptOK'
  BY <1>0, <1>1, CommandFacts DEF Booted, Awake, Quiet, uart, Types, TypeOK, Uart!Left, Idle,
     PromptOK, CalmOK, TurnOK, ReplyOK, BufferOK, InExchange, Aligned, PartOf, LoopOK,
     BeforeCheck
<1> QED
  BY <1>2, <1>3, <1>4, <1>5, <1>6 DEF Inv

\* The functions stop the receive.
LEMMA StopReceiveKeepsInv == Inv /\ StopReceive => Inv'
<1> SUFFICES ASSUME Inv, StopReceive PROVE Inv'
  OBVIOUS
<1>0. Types /\ LoopOK /\ Toggled /\ Truthful /\ PromptOK
  BY DEF Inv
<1>1. Session' = Session /\ Command' = Command /\ step' = step /\ setting' = setting
  BY DEF StopReceive, Session, Command
<1>2. Types'
  BY <1>0, <1>1, SessionFacts, CommandFacts, SettingsAssumption DEF StopReceive, Types, TypeOK,
     Uart!ServiceTypeOK, Uart!Left, Idle, LoopOK, BeforeCheck, Verified, Modems
<1>3. LoopOK'
  BY <1>0, <1>1, CommandFacts, SettingsAssumption DEF StopReceive, Types, Uart!Left, Idle,
     LoopOK, BeforeCheck, InExchange, Verified
<1>4. Toggled'
  BY <1>0 DEF StopReceive, Toggled
<1>5. Truthful'
  BY <1>0, <1>1, CommandFacts DEF StopReceive, Uart!Left, Idle, Truthful, AnswerIsGenuine,
     Genuine, LoopOK, InExchange, BeforeCheck
<1>6. PromptOK'
  BY <1>0, <1>1, CommandFacts DEF StopReceive, Uart!Left, Idle, PromptOK, CalmOK, TurnOK,
     ReplyOK, BufferOK, InExchange, Aligned, PartOf, LoopOK, BeforeCheck
<1> QED
  BY <1>2, <1>3, <1>4, <1>5, <1>6 DEF Inv

\* They stop the send.
LEMMA StopSendKeepsInv == Inv /\ StopSend => Inv'
<1> SUFFICES ASSUME Inv, StopSend PROVE Inv'
  OBVIOUS
<1>0. Types /\ LoopOK /\ Toggled /\ Truthful /\ PromptOK
  BY DEF Inv
<1>1. Session' = Session /\ Command' = Command /\ step' = step /\ setting' = setting
  BY DEF StopSend, Session, Command
<1>2. Types'
  BY <1>0, <1>1, SessionFacts, CommandFacts, SettingsAssumption DEF StopSend, Types, TypeOK,
     Uart!ServiceTypeOK, Uart!Left, Idle, LoopOK, BeforeCheck, Verified, Modems
<1>3. LoopOK'
  BY <1>0, <1>1, CommandFacts, SettingsAssumption DEF StopSend, Uart!Left, Idle, LoopOK,
     BeforeCheck, InExchange, Verified
<1>4. Toggled'
  BY <1>0 DEF StopSend, Toggled
<1>5. Truthful'
  BY <1>0, <1>1, CommandFacts DEF StopSend, Uart!Left, Idle, Truthful, AnswerIsGenuine,
     Genuine, LoopOK, InExchange, BeforeCheck
<1>6. PromptOK'
  BY <1>0, <1>1, CommandFacts DEF StopSend, Uart!Left, Idle, PromptOK, CalmOK, TurnOK, ReplyOK,
     BufferOK, InExchange, Aligned, PartOf, LoopOK, BeforeCheck
<1> QED
  BY <1>2, <1>3, <1>4, <1>5, <1>6 DEF Inv

\* They send the command.
LEMMA SendCommandKeepsInv == Inv /\ SendCommand => Inv'
<1> SUFFICES ASSUME Inv, SendCommand PROVE Inv'
  OBVIOUS
<1>0. Types /\ LoopOK /\ Toggled /\ Truthful /\ PromptOK
  BY DEF Inv
<1>1. Session' = Session /\ Command' = Command /\ step' = step /\ setting' = setting
  BY DEF SendCommand, Session, Command
<1>2. Types'
  BY <1>0, <1>1, SessionFacts, CommandFacts, SettingsAssumption DEF SendCommand, LongSleeps,
     Types, TypeOK, Uart!ServiceTypeOK, Uart!Left, Idle, LoopOK, BeforeCheck, Verified, Modems
<1>3. LoopOK'
  BY <1>0, <1>1, CommandFacts, SettingsAssumption DEF SendCommand, Types, TypeOK, Uart!Left,
     Idle, LoopOK, BeforeCheck, InExchange, Verified
<1>4. Toggled'
  BY <1>0 DEF SendCommand, Toggled
<1>5. Truthful'
  BY <1>0, <1>1, CommandFacts DEF SendCommand, Uart!Left, Idle, Truthful, AnswerIsGenuine,
     Genuine, LoopOK, InExchange, BeforeCheck
<1>6. PromptOK'
  BY <1>0, <1>1, CommandFacts DEF SendCommand, Uart!Left, Idle, PromptOK, CalmOK, TurnOK,
     ReplyOK, BufferOK, InExchange, Aligned, PartOf, LoopOK, BeforeCheck
<1> QED
  BY <1>2, <1>3, <1>4, <1>5, <1>6 DEF Inv

\* They start the receive.
LEMMA ArmReceiveKeepsInv == Inv /\ ArmReceive => Inv'
<1> SUFFICES ASSUME Inv, ArmReceive PROVE Inv'
  OBVIOUS
<1>0. Types /\ LoopOK /\ Toggled /\ Truthful /\ PromptOK
  BY DEF Inv
<1>1. Session' = Session /\ Command' = Command /\ step' = step /\ setting' = setting
  BY DEF ArmReceive, Session, Command
<1>2. Types'
  BY <1>0, <1>1, SessionFacts, CommandFacts, SettingsAssumption DEF ArmReceive, Types, TypeOK,
     Uart!ServiceTypeOK, Uart!Left, Idle, LoopOK, BeforeCheck, Verified, Modems
<1>3. LoopOK'
  BY <1>0, <1>1, CommandFacts, SettingsAssumption DEF ArmReceive, Uart!Left, Idle, LoopOK,
     BeforeCheck, InExchange, Verified
<1>4. Toggled'
  BY <1>0 DEF ArmReceive, Toggled
<1>5. Truthful'
  BY <1>0, <1>1, CommandFacts DEF ArmReceive, Uart!Left, Idle, Truthful, AnswerIsGenuine,
     Genuine, LoopOK, InExchange, BeforeCheck
<1>6. PromptOK'
  BY <1>0, <1>1, CommandFacts DEF ArmReceive, Uart!Left, Idle, PromptOK, CalmOK, TurnOK,
     ReplyOK, BufferOK, InExchange, Aligned, PartOf, LoopOK, BeforeCheck
<1> QED
  BY <1>2, <1>3, <1>4, <1>5, <1>6 DEF Inv

\* AT_Command2 looks for the answer.
LEMMA CheckAnswerKeepsInv == Inv /\ CheckAnswer => Inv'
<1> SUFFICES ASSUME Inv, CheckAnswer PROVE Inv'
  OBVIOUS
<1>0. Types /\ LoopOK /\ Toggled /\ Truthful /\ PromptOK
  BY DEF Inv
<1>1. Session' = Session /\ Command' = Command /\ step' = step /\ setting' = setting
  BY DEF CheckAnswer, Session, Command
<1>2. Types'
  BY <1>0, <1>1, SessionFacts, CommandFacts, SettingsAssumption DEF CheckAnswer, LongSleeps,
     uart, Types, TypeOK, Uart!ServiceTypeOK, Uart!Left, Idle, LoopOK, BeforeCheck, Verified,
     Modems
<1>3. LoopOK'
  BY <1>0, <1>1, CommandFacts, SettingsAssumption DEF CheckAnswer, TypeOK, Uart!ServiceTypeOK,
     Uart!Left, Idle, LoopOK, BeforeCheck, InExchange, Verified
<1>4. Toggled'
  BY <1>0 DEF CheckAnswer, Toggled, Types, TypeOK
<1>5. Truthful'
  <2>1. PICK m \in BOOLEAN :
           /\ m => m \in MatchOutcomes(buffer, Command)
           /\ Flag' = (Flag /\ ~ m)
    BY DEF CheckAnswer
  <2>2. \A i \in 1..2 : buffer[i].ok => buffer[i].src \in modem.said
    BY <1>0 DEF CheckAnswer, Truthful
  <2>3. m => Genuine(Command)
    <3>1. CASE Aligned(buffer, Command)
      <4>1. m = (buffer[1].ok /\ buffer[2].ok) \/ ~ m
        BY <2>1, <3>1, Zenon DEF MatchOutcomes
      <4>2. 1 \in 1..2 /\ buffer[1].src = Command
        BY <3>1 DEF Aligned
      <4>3. m => buffer[1].ok
        BY <4>1, Zenon
      <4> QED
        BY <2>2, <4>2, <4>3, Zenon DEF Genuine
    <3>2. CASE ~ Aligned(buffer, Command) /\ m
      <4>1. PICK i \in 1..2 : HasText(buffer[i], Command)
        BY <2>1, <3>2 DEF MatchOutcomes
      <4> QED
        BY <2>2, <4>1 DEF HasText, Genuine
    <3> QED
      BY <3>1, <3>2
  <2>4. Flag
    BY <1>0 DEF CheckAnswer, LoopOK, BeforeCheck
  <2> QED
    BY <1>0, <1>1, <2>1, <2>3, <2>4 DEF CheckAnswer, Truthful, AnswerIsGenuine, Genuine
<1>6. PromptOK'
  BY <1>0, <1>1, CommandFacts DEF CheckAnswer, uart, TypeOK, Uart!ServiceTypeOK, Uart!Left,
     Idle, PromptOK, CalmOK, TurnOK, ReplyOK, BufferOK, InExchange, Aligned, PartOf, LoopOK,
     BeforeCheck
<1> QED
  BY <1>2, <1>3, <1>4, <1>5, <1>6 DEF Inv

\* IMEI_GET and BATT_GET copy the buffer.
LEMMA CopyReadingKeepsInv == Inv /\ CopyReading => Inv'
<1> SUFFICES ASSUME Inv, CopyReading PROVE Inv'
  OBVIOUS
<1>0. Types /\ LoopOK /\ Toggled /\ Truthful /\ PromptOK
  BY DEF Inv
<1>1. Session' = Session /\ Command' = Command /\ step' = step /\ setting' = setting
  BY DEF CopyReading, Session, Command
<1>7. /\ Command \in {"GSN", "CBC"}
      /\ Datos' \in [{"GSN", "CBC"} -> [1..2 -> Chunks]]
      /\ RX_Flag => ~ Flag' /\ Datos'[Command] = buffer
      /\ ~ RX_Flag => Flag' = Flag /\ Datos' = Datos
      /\ Flag' \in BOOLEAN /\ Flag
  <2>1. Command \in {"GSN", "CBC"} /\ Flag
    BY <1>0, CommandFacts DEF CopyReading, LoopOK, BeforeCheck, InExchange
  <2> QED
    BY <1>0, <2>1 DEF CopyReading, Types, TypeOK
<1>8. /\ pc = "check" /\ pc' = "sleep"
      /\ UNCHANGED <<contador, RX_Flag, buffer, snd, rcv, note, line, modem, resets>>
  BY DEF CopyReading, uart
<1>2. Types'
  BY <1>0, <1>1, <1>7, <1>8 DEF Types, TypeOK, Uart!ServiceTypeOK, LongSleeps
<1>3. LoopOK'
  BY <1>0, <1>1, CommandFacts, SettingsAssumption DEF CopyReading, Uart!Left, Idle, LoopOK,
     BeforeCheck, InExchange, Verified
<1>4. Toggled'
  BY <1>0 DEF CopyReading, Toggled
<1>5. Truthful'
  BY <1>0, <1>1, CommandFacts DEF CopyReading, Uart!Left, Idle, Truthful, AnswerIsGenuine,
     Genuine, LoopOK, InExchange, BeforeCheck
<1>6. PromptOK'
  <2> SUFFICES ASSUME setting.prompt PROVE (CalmOK /\ TurnOK /\ ReplyOK /\ BufferOK)'
    BY <1>1 DEF PromptOK
  <2>0. CalmOK /\ TurnOK /\ ReplyOK /\ BufferOK
    BY <1>0 DEF PromptOK
  <2>1. CalmOK'
    BY <1>8, <2>0 DEF CalmOK, InExchange
  <2>2. TurnOK'
    BY <1>1, <1>8, <2>0 DEF TurnOK, CalmOK
  <2>3. ReplyOK'
    BY <1>8, <2>0 DEF ReplyOK, CalmOK, Idle
  <2>4. BufferOK'
    BY <1>1, <1>7, <1>8, <2>0 DEF BufferOK, InExchange, PartOf
  <2> QED
    BY <2>1, <2>2, <2>3, <2>4
<1> QED
  BY <1>2, <1>3, <1>4, <1>5, <1>6 DEF Inv

\* The loop goes on.
LEMMA RepeatKeepsInv == Inv /\ Repeat => Inv'
<1> SUFFICES ASSUME Inv, Repeat PROVE Inv'
  OBVIOUS
<1>0. Types /\ LoopOK /\ Toggled /\ Truthful /\ PromptOK
  BY DEF Inv
<1>1. Session' = Session /\ Command' = Command /\ step' = step /\ setting' = setting
  BY DEF Repeat, Session, Command
<1>2. Types'
  BY <1>0, <1>1, SessionFacts, CommandFacts, SettingsAssumption DEF Repeat, uart, Types,
     TypeOK, Uart!ServiceTypeOK, Uart!Left, Idle, LoopOK, BeforeCheck, Verified, Modems
<1>3. LoopOK'
  BY <1>0, <1>1, CommandFacts, SettingsAssumption DEF Repeat, LoopGoesOn, Uart!ServiceTypeOK,
     Uart!Left, Idle, LoopOK, BeforeCheck, InExchange, Verified
<1>4. Toggled'
  BY <1>0 DEF Repeat, Toggled, TypeOK
<1>5. Truthful'
  BY <1>0, <1>1, CommandFacts DEF Repeat, Uart!ServiceTypeOK, Uart!Left, Idle, Truthful,
     AnswerIsGenuine, Genuine, LoopOK, InExchange, BeforeCheck
<1>6. PromptOK'
  BY <1>0, <1>1, CommandFacts DEF Repeat, Awake, Quiet, uart, Types, TypeOK,
     Uart!ServiceTypeOK, Uart!Left, Idle, PromptOK, CalmOK, TurnOK, ReplyOK, BufferOK,
     InExchange, Aligned, PartOf, LoopOK, BeforeCheck
<1> QED
  BY <1>2, <1>3, <1>4, <1>5, <1>6 DEF Inv

\* The function returns.
LEMMA ReturnKeepsInv == Inv /\ Return => Inv'
<1> SUFFICES ASSUME Inv, Return PROVE Inv'
  OBVIOUS
<1>0. Types /\ LoopOK /\ Toggled /\ Truthful /\ PromptOK
  BY DEF Inv
<1>1. Session' = Session /\ setting' = setting
  BY DEF Return, Session
<1>7. /\ step \in 0..Len(Session) /\ Len(Session) \in Nat
      /\ step' = step \/ (step < Len(Session) /\ step' = step + 1)
      /\ pc' \in {"stoprx", "poweroff"} /\ RX_Flag' = FALSE
      /\ UNCHANGED <<contador, Flag, buffer, Datos, snd, rcv, note, line, modem, resets>>
  BY <1>0 DEF Return, Types, TypeOK, uart
<1>8. step' \in 0..Len(Session)
  BY <1>7
<1>2. Types'
  BY <1>0, <1>1, <1>7, <1>8 DEF Types, TypeOK, Uart!ServiceTypeOK
<1>3. LoopOK'
  BY <1>0, <1>1, CommandFacts, SettingsAssumption DEF Return, Uart!ServiceTypeOK, Uart!Left,
     Idle, LoopOK, BeforeCheck, InExchange, Verified
<1>4. Toggled'
  BY <1>0 DEF Return, Toggled, TypeOK
<1>5. Truthful'
  BY <1>0, <1>1, CommandFacts DEF Return, Uart!ServiceTypeOK, Uart!Left, Idle, Truthful,
     AnswerIsGenuine, Genuine, LoopOK, InExchange, BeforeCheck
<1>6. PromptOK'
  BY <1>0, <1>1, CommandFacts DEF Return, Awake, Quiet, uart, Types, TypeOK,
     Uart!ServiceTypeOK, Uart!Left, Idle, PromptOK, CalmOK, TurnOK, ReplyOK, BufferOK,
     InExchange, Aligned, PartOf, LoopOK, BeforeCheck
<1> QED
  BY <1>2, <1>3, <1>4, <1>5, <1>6 DEF Inv

\* GSM_init goes on to the first verified exchange.
LEMMA EchoOffKeepsInv == Inv /\ EchoOff => Inv'
<1> SUFFICES ASSUME Inv, EchoOff PROVE Inv'
  OBVIOUS
<1>0. Types /\ LoopOK /\ Toggled /\ Truthful /\ PromptOK
  BY DEF Inv
<1>1. Session' = Session /\ setting' = setting
  BY DEF EchoOff, Session
<1>2. Types'
  BY <1>0, <1>1, SessionFacts, CommandFacts, SettingsAssumption DEF EchoOff, uart, Types,
     TypeOK, Uart!ServiceTypeOK, Uart!Left, Idle, LoopOK, BeforeCheck, Verified, Modems
<1>3. LoopOK'
  BY <1>0, <1>1, CommandFacts, SettingsAssumption DEF EchoOff, Uart!Left, Idle, LoopOK,
     BeforeCheck, InExchange, Verified
<1>4. Toggled'
  BY <1>0 DEF EchoOff, Toggled
<1>5. Truthful'
  BY <1>0, <1>1, CommandFacts DEF EchoOff, Types, TypeOK, Uart!Left, Idle, Truthful,
     AnswerIsGenuine, Genuine, LoopOK, InExchange, BeforeCheck
<1>6. PromptOK'
  BY <1>0, <1>1, CommandFacts DEF EchoOff, Awake, Quiet, uart, Types, TypeOK, Uart!Left, Idle,
     PromptOK, CalmOK, TurnOK, ReplyOK, BufferOK, InExchange, Aligned, PartOf, LoopOK,
     BeforeCheck
<1> QED
  BY <1>2, <1>3, <1>4, <1>5, <1>6 DEF Inv

\* The pulse that switches the modem off.
LEMMA PowerOffKeepsInv == Inv /\ PowerOff => Inv'
<1> SUFFICES ASSUME Inv, PowerOff PROVE Inv'
  OBVIOUS
<1>0. Types /\ LoopOK /\ Toggled /\ Truthful /\ PromptOK
  BY DEF Inv
<1>1. Session' = Session /\ Command' = Command /\ step' = step /\ setting' = setting
  BY DEF PowerOff, Session, Command
<1>2. Types'
  BY <1>0, <1>1, SessionFacts, CommandFacts, SettingsAssumption, PulseFacts DEF PowerOff,
     LongSleeps, uart, Types, TypeOK, Uart!ServiceTypeOK, Uart!Left, Idle, LoopOK, BeforeCheck,
     Verified, Modems
<1>3. LoopOK'
  BY <1>0, <1>1, CommandFacts, SettingsAssumption DEF PowerOff, TypeOK, Uart!ServiceTypeOK,
     Uart!Left, Idle, LoopOK, BeforeCheck, InExchange, Verified
<1>4. Toggled'
  BY <1>0 DEF PowerOff, Pulse, ModemOff, Toggled, Types, TypeOK
<1>5. Truthful'
  BY <1>0, <1>1, CommandFacts, PulseFacts DEF PowerOff, Uart!Left, Idle, Truthful,
     AnswerIsGenuine, Genuine, LoopOK, InExchange, BeforeCheck
<1>6. PromptOK'
  BY <1>0, <1>1, CommandFacts, PulseFacts DEF PowerOff, uart, Uart!Left, Idle, PromptOK,
     CalmOK, TurnOK, ReplyOK, BufferOK, InExchange, Aligned, PartOf, LoopOK, BeforeCheck
<1> QED
  BY <1>2, <1>3, <1>4, <1>5, <1>6 DEF Inv

\* The session is over.
LEMMA FinishedKeepsInv == Inv /\ Finished => Inv'
<1> SUFFICES ASSUME Inv, Finished PROVE Inv'
  OBVIOUS
<1>0. Types /\ LoopOK /\ Toggled /\ Truthful /\ PromptOK
  BY DEF Inv
<1>1. Session' = Session /\ Command' = Command /\ step' = step /\ setting' = setting
  BY DEF Finished, Session, Command
<1>2. Types'
  BY <1>0, <1>1, SessionFacts, CommandFacts, SettingsAssumption DEF Finished, uart, Types,
     TypeOK, Uart!ServiceTypeOK, Uart!Left, Idle, LoopOK, BeforeCheck, Verified, Modems
<1>3. LoopOK'
  BY <1>0, <1>1, CommandFacts, SettingsAssumption DEF Finished, Uart!Left, Idle, LoopOK,
     BeforeCheck, InExchange, Verified
<1>4. Toggled'
  BY <1>0 DEF Finished, Toggled
<1>5. Truthful'
  BY <1>0, <1>1, CommandFacts DEF Finished, Uart!Left, Idle, Truthful, AnswerIsGenuine,
     Genuine, LoopOK, InExchange, BeforeCheck
<1>6. PromptOK'
  BY <1>0, <1>1, CommandFacts DEF Finished, uart, Uart!Left, Idle, PromptOK, CalmOK, TurnOK,
     ReplyOK, BufferOK, InExchange, Aligned, PartOf, LoopOK, BeforeCheck
<1> QED
  BY <1>2, <1>3, <1>4, <1>5, <1>6 DEF Inv

\* The processor is reset.
LEMMA ResetKeepsInv == Inv /\ Reset => Inv'
<1> SUFFICES ASSUME Inv, Reset PROVE Inv'
  OBVIOUS
<1>0. Types /\ LoopOK /\ Toggled /\ Truthful /\ PromptOK
  BY DEF Inv
<1>1. Session' = Session /\ setting' = setting
  BY DEF Reset, Session
<1>7. /\ buffer' \in [1..2 -> Chunks]
      /\ Datos' \in [{"GSN", "CBC"} -> [1..2 -> Chunks]]
  BY BlankFacts DEF Reset
<1>8. /\ pc' = "on" /\ step' = 0 /\ contador' = 0 /\ Flag' = TRUE /\ RX_Flag' = FALSE
      /\ snd' = Idle /\ rcv' = Idle /\ note' = "none" /\ line' = "ATE0" /\ modem' = modem
      /\ resets' = resets + 1 /\ resets < setting.resets
  BY DEF Reset
<1>9. setting.tries \in Nat \ {0} /\ setting.resets \in Nat /\ resets \in Nat
  BY <1>0, SettingsAssumption DEF Types, TypeOK
<1>2. Types'
  <2>1. /\ (contador \in 0..setting.tries)' /\ (resets \in 0..setting.resets)'
        /\ (step \in 0..Len(Session))' /\ Uart!ServiceTypeOK'
    BY <1>1, <1>8, <1>9 DEF Uart!ServiceTypeOK, Uart!Left
  <2> QED
    BY <1>0, <1>1, <1>7, <1>8, <2>1 DEF Types, TypeOK, Commands
<1>3. LoopOK'
  BY <1>0, <1>1, CommandFacts, SettingsAssumption DEF Reset, Idle, LoopOK, BeforeCheck,
     InExchange, Verified
<1>4. Toggled'
  BY <1>0 DEF Reset, Toggled, Types, TypeOK
<1>5. Truthful'
  BY <1>0, <1>1, CommandFacts DEF Reset, Blank, Chunk, Types, TypeOK, Idle, Truthful,
     AnswerIsGenuine, Genuine, LoopOK, InExchange, BeforeCheck
<1>6. PromptOK'
  BY <1>0, <1>1, CommandFacts DEF Reset, Idle, PromptOK, CalmOK, TurnOK, ReplyOK, BufferOK,
     InExchange, Aligned, PartOf, LoopOK, BeforeCheck
<1> QED
  BY <1>2, <1>3, <1>4, <1>5, <1>6 DEF Inv

-----------------------------------------------------------------------------
(***************************************************************************)
(* The UART's and the modem's.                                             *)
(***************************************************************************)
\* The command is out.
LEMMA TransmitKeepsInv == Inv /\ Transmit => Inv'
<1> SUFFICES ASSUME Inv, Transmit PROVE Inv'
  OBVIOUS
<1>0. Types /\ LoopOK /\ Toggled /\ Truthful /\ PromptOK
  BY DEF Inv
<1>1. Session' = Session /\ Command' = Command /\ step' = step /\ setting' = setting
  BY DEF Transmit, firmware, Session, Command
<1>7. /\ modem' \in Modems /\ modem'.power = modem.power /\ modem'.ready = modem.ready
      /\ modem'.echo = modem.echo /\ modem'.out = modem.out /\ modem'.said = modem.said
      /\ \/ modem'.inbox = <<line>> /\ modem.inbox = <<>> /\ modem.ready
         \/ modem'.inbox = modem.inbox /\ ~ (setting.prompt /\ modem.ready /\ modem.inbox = <<>>)
  BY <1>0 DEF Transmit, Types, TypeOK, Modems
<1>8. /\ setting.prompt => Sleeping
      /\ snd # Idle /\ snd > 0 /\ snd' = snd - 1 /\ rcv' = rcv /\ note' = note
      /\ UNCHANGED <<pc, contador, Flag, Datos, resets, RX_Flag, buffer, line>>
  BY DEF Transmit, Outside, Uart!SendItem, firmware
<1>2. Types'
  BY <1>0, <1>1, <1>7, <1>8 DEF Types, TypeOK, Uart!ServiceTypeOK, Uart!Left, Modems
<1>3. LoopOK'
  BY <1>0, <1>1, CommandFacts, SettingsAssumption DEF Transmit, firmware, Uart!ServiceTypeOK,
     Uart!Left, Idle, LoopOK, BeforeCheck, InExchange, Verified
<1>4. Toggled'
  BY <1>0, <1>7, <1>8 DEF Toggled
<1>5. Truthful'
  BY <1>0, <1>1, <1>7, <1>8 DEF Truthful, AnswerIsGenuine, Genuine
<1>6. PromptOK'
  <2> SUFFICES ASSUME setting.prompt PROVE (CalmOK /\ TurnOK /\ ReplyOK /\ BufferOK)'
    BY <1>1 DEF PromptOK
  <2>0. CalmOK /\ TurnOK /\ ReplyOK /\ BufferOK
    BY <1>0 DEF PromptOK
  <2>1. CalmOK'
    BY <1>7, <1>8, <2>0 DEF CalmOK, Sleeping, LongSleeps
  <2>2. TurnOK'
    BY <1>0, <1>1, <1>7, <1>8, <2>0 DEF Types, TurnOK, CalmOK
  <2>3. ReplyOK'
    BY <1>1, <1>7, <1>8, <2>0 DEF ReplyOK, PartOf, Idle
  <2>4. BufferOK'
    BY <1>0, <1>1, <1>7, <1>8, <2>0 DEF BufferOK, PartOf
  <2> QED
    BY <2>1, <2>2, <2>3, <2>4
<1> QED
  BY <1>2, <1>3, <1>4, <1>5, <1>6 DEF Inv

\* The send ends.
LEMMA TxEndKeepsInv == Inv /\ TxEnd => Inv'
<1> SUFFICES ASSUME Inv, TxEnd PROVE Inv'
  OBVIOUS
<1>0. Types /\ LoopOK /\ Toggled /\ Truthful /\ PromptOK
  BY DEF Inv
<1>1. Session' = Session /\ Command' = Command /\ step' = step /\ setting' = setting
  BY DEF TxEnd, firmware, Session, Command
<1>2. Types'
  BY <1>0, <1>1, SessionFacts, CommandFacts, SettingsAssumption DEF TxEnd, firmware,
     Uart!SendEnd, Types, TypeOK, Uart!ServiceTypeOK, Uart!Left, Idle, LoopOK, BeforeCheck,
     Verified, Modems
<1>3. LoopOK'
  BY <1>0, <1>1, CommandFacts, SettingsAssumption DEF TxEnd, firmware, Uart!ServiceTypeOK,
     Uart!Left, Idle, LoopOK, BeforeCheck, InExchange, Verified
<1>4. Toggled'
  BY <1>0 DEF TxEnd, firmware, Toggled
<1>5. Truthful'
  BY <1>0, <1>1, CommandFacts DEF TxEnd, firmware, Uart!SendEnd, Uart!ServiceTypeOK, Uart!Left,
     Idle, Truthful, AnswerIsGenuine, Genuine, LoopOK, InExchange, BeforeCheck
<1>6. PromptOK'
  BY <1>0, <1>1, CommandFacts DEF TxEnd, firmware, Uart!SendEnd, Types, TypeOK,
     Uart!ServiceTypeOK, Uart!Left, Idle, PromptOK, CalmOK, TurnOK, ReplyOK, BufferOK,
     InExchange, Aligned, PartOf, LoopOK, BeforeCheck
<1> QED
  BY <1>2, <1>3, <1>4, <1>5, <1>6 DEF Inv

\* The receive ends.
LEMMA RxEndKeepsInv == Inv /\ RxEnd => Inv'
<1> SUFFICES ASSUME Inv, RxEnd PROVE Inv'
  OBVIOUS
<1>0. Types /\ LoopOK /\ Toggled /\ Truthful /\ PromptOK
  BY DEF Inv
<1>1. Session' = Session /\ Command' = Command /\ step' = step /\ setting' = setting
  BY DEF RxEnd, firmware, Session, Command
<1>2. Types'
  BY <1>0, <1>1, SessionFacts, CommandFacts, SettingsAssumption DEF RxEnd, firmware,
     Uart!ReceiveEnd, Types, TypeOK, Uart!ServiceTypeOK, Uart!Left, Idle, LoopOK, BeforeCheck,
     Verified, Modems
<1>3. LoopOK'
  BY <1>0, <1>1, CommandFacts, SettingsAssumption DEF RxEnd, firmware, Uart!ServiceTypeOK,
     Uart!Left, Idle, LoopOK, BeforeCheck, InExchange, Verified
<1>4. Toggled'
  BY <1>0 DEF RxEnd, firmware, Toggled
<1>5. Truthful'
  BY <1>0, <1>1, CommandFacts DEF RxEnd, firmware, Uart!ReceiveEnd, Uart!ServiceTypeOK,
     Uart!Left, Idle, Truthful, AnswerIsGenuine, Genuine, LoopOK, InExchange, BeforeCheck
<1>6. PromptOK'
  BY <1>0, <1>1, CommandFacts DEF RxEnd, firmware, Uart!ReceiveEnd, Uart!ServiceTypeOK,
     Uart!Left, Idle, PromptOK, CalmOK, TurnOK, ReplyOK, BufferOK, InExchange, Aligned, PartOf,
     LoopOK, BeforeCheck
<1> QED
  BY <1>2, <1>3, <1>4, <1>5, <1>6 DEF Inv

\* One end for both directions.
LEMMA BothEndKeepsInv == Inv /\ BothEnd => Inv'
<1> SUFFICES ASSUME Inv, BothEnd PROVE Inv'
  OBVIOUS
<1>0. Types /\ LoopOK /\ Toggled /\ Truthful /\ PromptOK
  BY DEF Inv
<1>1. Session' = Session /\ Command' = Command /\ step' = step /\ setting' = setting
  BY DEF BothEnd, firmware, Session, Command
<1>2. Types'
  BY <1>0, <1>1, SessionFacts, CommandFacts, SettingsAssumption DEF BothEnd, firmware, Types,
     TypeOK, Uart!ServiceTypeOK, Uart!Left, Idle, LoopOK, BeforeCheck, Verified, Modems
<1>3. LoopOK'
  BY <1>0, <1>1, CommandFacts, SettingsAssumption DEF BothEnd, firmware, Uart!Left, Idle,
     LoopOK, BeforeCheck, InExchange, Verified
<1>4. Toggled'
  BY <1>0 DEF BothEnd, firmware, Toggled
<1>5. Truthful'
  BY <1>0, <1>1, CommandFacts DEF BothEnd, firmware, Uart!Left, Idle, Truthful,
     AnswerIsGenuine, Genuine, LoopOK, InExchange, BeforeCheck
<1>6. PromptOK'
  BY <1>0, <1>1, CommandFacts DEF BothEnd, Uart!Left, Idle, PromptOK, CalmOK, TurnOK, ReplyOK,
     BufferOK, InExchange, Aligned, PartOf, LoopOK, BeforeCheck
<1> QED
  BY <1>2, <1>3, <1>4, <1>5, <1>6 DEF Inv

\* The callback returns.
LEMMA RxendKeepsInv == Inv /\ rxend => Inv'
<1> SUFFICES ASSUME Inv, rxend PROVE Inv'
  OBVIOUS
<1>0. Types /\ LoopOK /\ Toggled /\ Truthful /\ PromptOK
  BY DEF Inv
<1>1. Session' = Session /\ Command' = Command /\ step' = step /\ setting' = setting
  BY DEF rxend, firmware, Session, Command
<1>2. Types'
  BY <1>0, <1>1, SessionFacts, CommandFacts, SettingsAssumption DEF rxend, firmware,
     Uart!NoteDone, Types, TypeOK, Uart!ServiceTypeOK, Uart!Left, Idle, LoopOK, BeforeCheck,
     Verified, Modems
<1>3. LoopOK'
  BY <1>0, <1>1, CommandFacts, SettingsAssumption DEF rxend, firmware, Uart!ServiceTypeOK,
     Uart!Left, Idle, LoopOK, BeforeCheck, InExchange, Verified
<1>4. Toggled'
  BY <1>0 DEF rxend, firmware, Toggled
<1>5. Truthful'
  BY <1>0, <1>1, CommandFacts DEF rxend, firmware, Uart!NoteDone, Uart!ServiceTypeOK,
     Uart!Left, Idle, Truthful, AnswerIsGenuine, Genuine, LoopOK, InExchange, BeforeCheck
<1>6. PromptOK'
  BY <1>0, <1>1, CommandFacts DEF rxend, firmware, Uart!NoteDone, Uart!ServiceTypeOK,
     Uart!Left, Idle, PromptOK, CalmOK, TurnOK, ReplyOK, BufferOK, InExchange, Aligned, PartOf,
     LoopOK, BeforeCheck
<1> QED
  BY <1>2, <1>3, <1>4, <1>5, <1>6 DEF Inv

\* The modem is up.
LEMMA BootKeepsInv == Inv /\ Boot => Inv'
<1> SUFFICES ASSUME Inv, Boot PROVE Inv'
  OBVIOUS
<1>0. Types /\ LoopOK /\ Toggled /\ Truthful /\ PromptOK
  BY DEF Inv
<1>1. Session' = Session /\ Command' = Command /\ step' = step /\ setting' = setting
  BY DEF Boot, firmware, Session, Command
<1>2. Types'
  BY <1>0, <1>1, SessionFacts, CommandFacts, SettingsAssumption DEF Boot, firmware, uart,
     Types, TypeOK, Uart!ServiceTypeOK, Uart!Left, Idle, LoopOK, BeforeCheck, Verified, Modems
<1>3. LoopOK'
  BY <1>0, <1>1, CommandFacts, SettingsAssumption DEF Boot, firmware, Uart!ServiceTypeOK,
     Uart!Left, Idle, LoopOK, BeforeCheck, InExchange, Verified
<1>4. Toggled'
  BY <1>0 DEF Boot, firmware, Toggled
<1>5. Truthful'
  BY <1>0, <1>1, CommandFacts DEF Boot, firmware, uart, Uart!ServiceTypeOK, Uart!Left, Idle,
     Truthful, AnswerIsGenuine, Genuine, LoopOK, InExchange, BeforeCheck
<1>6. PromptOK'
  BY <1>0, <1>1, CommandFacts DEF Boot, firmware, uart, Uart!ServiceTypeOK, Uart!Left, Idle,
     PromptOK, CalmOK, TurnOK, ReplyOK, BufferOK, InExchange, Aligned, PartOf, LoopOK,
     BeforeCheck
<1> QED
  BY <1>2, <1>3, <1>4, <1>5, <1>6 DEF Inv

\* The modem answers.
LEMMA AnswerKeepsInv == Inv /\ Answer => Inv'
<1> SUFFICES ASSUME Inv, Answer PROVE Inv'
  OBVIOUS
<1>0. Types /\ LoopOK /\ Toggled /\ Truthful /\ PromptOK
  BY DEF Inv
<1>1. Session' = Session /\ Command' = Command /\ step' = step /\ setting' = setting
  BY DEF Answer, firmware, Session, Command
<1>7. PICK c \in Commands : modem.inbox = <<c>>
  BY <1>0 DEF Answer, Types, Modems
<1>a. PICK ok \in BOOLEAN :
        modem' = [modem EXCEPT !.inbox = <<>>, !.out = Sent(modem.echo, c, ok),
                               !.echo = @ /\ c # "ATE0",
                               !.said = IF ok THEN @ \cup {c} ELSE @]
  <2>1. Head(modem.inbox) = c
    BY <1>7
  <2> QED
    BY <2>1, Zenon DEF Answer, Sent
<1>8. PICK r : /\ r = Sent(modem.echo, c, ok)
               /\ modem' = [modem EXCEPT !.inbox = <<>>, !.out = r, !.echo = @ /\ c # "ATE0",
                                         !.said = IF ok THEN @ \cup {c} ELSE @]
  BY <1>a, Zenon
<1>9. /\ r \in Seq(Chunks) /\ Len(r) \in 2..4 /\ DOMAIN r = 1..Len(r)
      /\ \A i \in DOMAIN r : /\ r[i] \in Chunks /\ (r[i].ok => ok /\ r[i].src = c)
                             /\ ~ modem.echo => r[i].src = c /\ r[i].part = i
  BY <1>0, <1>8, SentFacts DEF Types, Modems
<1>10. PICK e \in BOOLEAN : e = (modem.echo /\ c # "ATE0")
  BY Zenon
<1>11. PICK said \in SUBSET Commands : said = IF ok THEN modem.said \cup {c} ELSE modem.said
  BY <1>0 DEF Types, Modems
<1>12. modem' = [modem EXCEPT !.inbox = <<>>, !.out = r, !.echo = e, !.said = said]
  BY <1>8, <1>10, <1>11
<1>13. /\ modem' \in Modems /\ modem'.power = modem.power /\ modem'.ready = modem.ready
       /\ modem'.echo = e /\ modem'.out = r /\ modem'.said = said /\ modem'.inbox = <<>>
       /\ modem.said \subseteq said /\ (ok => c \in said)
  BY <1>0, <1>9, <1>11, <1>12 DEF Types, Modems
<1>14. /\ setting.prompt => Sleeping
       /\ modem.inbox # <<>> /\ modem.out = <<>> /\ (setting.prompt => snd = Idle)
       /\ UNCHANGED <<pc, contador, Flag, Datos, resets, RX_Flag, buffer, line, snd, rcv, note>>
  BY DEF Answer, Outside, firmware, uart
<1>15. modem'.said \subseteq Commands /\ Len(modem'.out) <= 4 /\ (modem'.ready => modem'.power)
  BY <1>0, <1>9, <1>13 DEF Types
<1>2. Types'
  BY <1>0, <1>1, <1>9, <1>13, <1>14, <1>15 DEF Types, TypeOK, Uart!ServiceTypeOK
<1>3. LoopOK'
  BY <1>0, <1>1, CommandFacts, SettingsAssumption DEF Answer, firmware, Uart!ServiceTypeOK,
     Uart!Left, Idle, LoopOK, BeforeCheck, InExchange, Verified
<1>4. Toggled'
  BY <1>0, <1>13, <1>14 DEF Toggled
<1>5. Truthful'
  BY <1>0, <1>1, <1>9, <1>13, <1>14 DEF Truthful, AnswerIsGenuine, Genuine
<1>6. PromptOK'
  <2> SUFFICES ASSUME setting.prompt PROVE (CalmOK /\ TurnOK /\ ReplyOK /\ BufferOK)'
    BY <1>1 DEF PromptOK
  <2>0. CalmOK /\ TurnOK /\ ReplyOK /\ BufferOK
    BY <1>0 DEF PromptOK
  <2>1. CalmOK'
    BY <1>13, <1>14, <2>0 DEF CalmOK
  <2>4. pc \in {"ate0", "sleep"} /\ modem.power
    BY <1>14, <2>0 DEF CalmOK, TurnOK, Sleeping, LongSleeps
  <2>5. c = Command
    <3>1. <<c>> = <<Command>>
      BY <1>7, <2>0, <2>4 DEF TurnOK
    <3> QED
      BY <3>1
  <2>6. pc = "ate0" => ~ e
    BY <1>0, <1>10, <2>5, CommandFacts DEF LoopOK
  <2>7. pc = "sleep" => ~ modem.echo /\ step > 0
    BY <1>0, <2>0, <2>4 DEF LoopOK, TurnOK, InExchange
  <2>8. ~ modem.echo => ~ e
    BY <1>10
  <2>2. TurnOK'
    BY <1>13, <1>14, <2>0, <2>4, <2>6, <2>7, <2>8 DEF TurnOK, Idle
  <2>9. modem'.out # <<>> /\ Len(modem'.out) > 1
    <3>4. PICK n \in 2..4 : n = Len(r)
      BY <1>9, Zenon
    <3>5. n > 1
      OBVIOUS
    <3>1. Len(r) > 1
      BY <3>4, <3>5, Zenon
    <3>2. r # <<>>
      BY <3>1
    <3> QED
      BY <1>13, <3>1
  <2>3. ReplyOK'
    <3> SUFFICES ASSUME pc = "sleep" PROVE ReplyOK'
      BY <1>14 DEF ReplyOK
    <3>1. \A i \in DOMAIN r : r[i].src = Command /\ r[i].part = i
      BY <1>9, <2>5, <2>7
    <3>2. rcv = 2
      BY <1>14, <2>0 DEF ReplyOK
    <3> QED
      BY <1>1, <1>13, <1>14, <2>9, <3>1, <3>2 DEF ReplyOK, PartOf
  <2>10. BufferOK'
    BY <1>1, <1>14, <2>0 DEF BufferOK, PartOf
  <2> QED
    BY <2>1, <2>2, <2>3, <2>10
<1> QED
  BY <1>2, <1>3, <1>4, <1>5, <1>6 DEF Inv

\* A chunk of the reply arrives.
LEMMA ArriveKeepsInv == Inv /\ Arrive => Inv'
<1> SUFFICES ASSUME Inv, Arrive PROVE Inv'
  OBVIOUS
<1>0. Types /\ LoopOK /\ Toggled /\ Truthful /\ PromptOK
  BY DEF Inv
<1>1. Session' = Session /\ Command' = Command /\ step' = step /\ setting' = setting
  BY DEF Arrive, firmware, Session, Command
<1>7. PICK rest, ch : rest = Tail(modem.out) /\ ch = Head(modem.out)
  OBVIOUS
<1>8. /\ rest \in Seq(Chunks) /\ ch \in Chunks /\ ch = modem.out[1] /\ 1 \in DOMAIN modem.out
      /\ Len(modem.out) \in Nat /\ Len(modem.out) > 0 /\ Len(rest) = Len(modem.out) - 1
      /\ DOMAIN modem.out = 1..Len(modem.out) /\ DOMAIN rest = 1..(Len(modem.out) - 1)
      /\ \A i \in DOMAIN rest : i + 1 \in DOMAIN modem.out /\ rest[i] = modem.out[i + 1]
      /\ modem.out # <<>>
  <2>1. modem.out # <<>> /\ modem.out \in Seq(Chunks)
    BY <1>0 DEF Arrive, Types, Modems
  <2>2. 1 \in 1..Len(modem.out)
    BY <2>1
  <2> QED
    BY <1>7, <2>1
<1>9. /\ modem' \in Modems /\ modem'.power = modem.power /\ modem'.ready = modem.ready
      /\ modem'.echo = modem.echo /\ modem'.out = rest /\ modem'.said = modem.said
      /\ modem'.inbox = modem.inbox
  BY <1>0, <1>7, <1>8 DEF Arrive, Types, Modems
<1>10. /\ rcv = Idle => rcv' = Idle /\ buffer' = buffer
       /\ rcv # Idle =>
            /\ rcv \in 1..2 /\ rcv' = rcv - 1 /\ buffer' \in [1..2 -> Chunks]
            /\ \A i \in 1..2 : buffer'[i] = IF i = 3 - rcv THEN ch ELSE buffer[i]
  BY <1>0, <1>7, <1>8 DEF Arrive, Uart!ReceiveItem, uart, Types, TypeOK, Uart!ServiceTypeOK,
     Uart!Left
<1>11. /\ setting.prompt => Sleeping
       /\ UNCHANGED <<pc, contador, Flag, Datos, resets, RX_Flag, line, snd, note>>
  BY DEF Arrive, Outside, firmware, uart, Uart!ReceiveItem
<1>12. Len(rest) <= 4 /\ \A i \in DOMAIN rest : rest[i] \in Chunks
  BY <1>0, <1>8 DEF Types, TypeOK
<1>2. Types'
  BY <1>0, <1>1, <1>8, <1>9, <1>10, <1>11, <1>12 DEF Types, TypeOK, Uart!ServiceTypeOK,
     Uart!Left
<1>3. LoopOK'
  BY <1>0, <1>1, CommandFacts, SettingsAssumption DEF Arrive, firmware, LongSleeps,
     Uart!ServiceTypeOK, Uart!Left, Idle, LoopOK, BeforeCheck, InExchange, Verified
<1>4. Toggled'
  BY <1>0, <1>9, <1>11 DEF Toggled
<1>5. Truthful'
  <2>1. \A i \in DOMAIN rest : rest[i].ok => rest[i].src \in modem.said
    BY <1>0, <1>8 DEF Truthful
  <2>2. ch.ok => ch.src \in modem.said
    BY <1>0, <1>8 DEF Truthful
  <2> QED
    BY <1>0, <1>1, <1>9, <1>10, <1>11, <2>1, <2>2 DEF Truthful, AnswerIsGenuine, Genuine
<1>6. PromptOK'
  <2> SUFFICES ASSUME setting.prompt PROVE (CalmOK /\ TurnOK /\ ReplyOK /\ BufferOK)'
    BY <1>1 DEF PromptOK
  <2>0. CalmOK /\ TurnOK /\ ReplyOK /\ BufferOK
    BY <1>0 DEF PromptOK
  <2>1. CalmOK'
    BY <1>8, <1>9, <1>10, <1>11, <2>0 DEF CalmOK
  <2>2. TurnOK'
    BY <1>1, <1>8, <1>9, <1>10, <1>11, <2>0 DEF TurnOK
  <2>3. CASE rcv = Idle
    <3>1. ReplyOK'
      BY <1>9, <1>10, <1>11, <2>0, <2>3 DEF ReplyOK, Idle
    <3>2. BufferOK'
      BY <1>1, <1>10, <1>11, <2>0, <2>3 DEF BufferOK, Idle
    <3> QED
      BY <2>1, <2>2, <3>1, <3>2
  <2>4. CASE rcv # Idle
    <3>1. /\ snd = Idle /\ modem.power /\ rcv \in 1..2 /\ modem.inbox = <<>> /\ note # "receive"
          /\ pc = "sleep" /\ rcv' = rcv - 1
      BY <1>8, <1>10, <1>11, <2>0, <2>4 DEF CalmOK, TurnOK, BufferOK
    <3>2. PartOf(ch, 3 - rcv) /\ \A i \in DOMAIN rest : PartOf(rest[i], 3 - rcv + i)
      <4>1. \A i \in DOMAIN modem.out : PartOf(modem.out[i], 2 - rcv + i)
        BY <2>0, <3>1 DEF ReplyOK
      <4>2. rcv \in Int /\ 2 - rcv + 1 = 3 - rcv
        BY <3>1
      <4>3. PartOf(ch, 3 - rcv)
        BY <1>8, <4>1, <4>2
      <4>4. ASSUME NEW i \in DOMAIN rest PROVE PartOf(rest[i], 3 - rcv + i)
        <5>1. i \in Int /\ 2 - rcv + (i + 1) = 3 - rcv + i
          BY <1>8, <4>2
        <5>2. PartOf(modem.out[i + 1], 2 - rcv + (i + 1))
          BY <1>8, <4>1
        <5> QED
          BY <1>8, <5>1, <5>2
      <4> QED
        BY <4>3, <4>4
    <3>3. rcv = 2 => rest # <<>>
      BY <1>8, <2>0, <3>1 DEF ReplyOK
    <3>4. \A i \in 1..2 : buffer'[i] = IF i = 3 - rcv THEN ch ELSE buffer[i]
      BY <1>10, <2>4
    <3>5. ReplyOK'
      <4>1. CASE rcv = 2
        BY <1>1, <1>9, <1>11, <3>1, <3>2, <3>3, <4>1 DEF ReplyOK, PartOf
      <4>2. CASE rcv = 1
        BY <1>9, <1>11, <3>1, <4>2 DEF ReplyOK
      <4> QED
        BY <3>1, <4>1, <4>2
    <3>6. BufferOK'
      <4>1. CASE rcv = 2
        BY <1>1, <1>11, <2>0, <3>1, <3>2, <3>4, <4>1 DEF BufferOK, PartOf, Aligned
      <4>2. CASE rcv = 1
        BY <1>1, <1>11, <2>0, <3>1, <3>2, <3>4, <4>2 DEF BufferOK, PartOf, Aligned
      <4> QED
        BY <3>1, <4>1, <4>2
    <3> QED
      BY <2>1, <2>2, <3>5, <3>6
  <2> QED
    BY <2>3, <2>4
<1> QED
  BY <1>2, <1>3, <1>4, <1>5, <1>6 DEF Inv

-----------------------------------------------------------------------------
(***************************************************************************)
(* The invariant holds, and what follows from it.                          *)
(***************************************************************************)
LEMMA InitInv == Init => Inv
<1> SUFFICES ASSUME Init PROVE Inv
  OBVIOUS
<1>1. setting.tries \in Nat \ {0} /\ setting.resets \in Nat
  BY SettingsAssumption DEF Init
<1>2. /\ modem \in Modems /\ ~ modem.power /\ ~ modem.ready /\ modem.inbox = <<>>
      /\ modem.out = <<>> /\ modem.said = {} /\ Len(modem.out) = 0 /\ DOMAIN modem.out = {}
  <2>1. <<>> \in Seq(Chunks) /\ Len(<<>>) = 0 /\ DOMAIN <<>> = {}
    OBVIOUS
  <2> QED
    BY DEF Init, ModemOff, Modems
<1>3. Types
  <2>1. /\ contador \in 0..setting.tries /\ resets \in 0..setting.resets
        /\ step \in 0..Len(Session) /\ Uart!ServiceTypeOK
    BY <1>1 DEF Init, Uart!Init, Uart!ServiceTypeOK, Uart!Left
  <2>2. /\ buffer \in [1..2 -> Chunks] /\ Datos \in [{"GSN", "CBC"} -> [1..2 -> Chunks]]
        /\ Flag \in BOOLEAN /\ RX_Flag \in BOOLEAN /\ line \in Commands /\ setting \in Settings
        /\ pc = "on"
    BY BlankFacts DEF Init, Commands
  <2> QED
    BY <1>2, <2>1, <2>2 DEF Types, TypeOK
<1>4. LoopOK /\ Toggled
  BY <1>2 DEF Init, LoopOK, Toggled, InExchange, BeforeCheck
<1>5. Truthful
  BY <1>2, BlankFacts, SessionFacts DEF Init, Uart!Init, Truthful, AnswerIsGenuine
<1>6. PromptOK
  BY <1>2 DEF Init, Uart!Init, PromptOK, CalmOK, TurnOK, ReplyOK, BufferOK, Idle
<1> QED
  BY <1>3, <1>4, <1>5, <1>6 DEF Inv

LEMMA StepKeepsInv == Inv /\ [Next]_vars => Inv'
<1> SUFFICES ASSUME Inv, [Next]_vars PROVE Inv'
  OBVIOUS
<1>1. CASE Firmware
  BY <1>1, PowerOnKeepsInv, BootedKeepsInv, StopReceiveKeepsInv, StopSendKeepsInv,
     SendCommandKeepsInv, ArmReceiveKeepsInv, CheckAnswerKeepsInv, CopyReadingKeepsInv,
     RepeatKeepsInv, ReturnKeepsInv, EchoOffKeepsInv, PowerOffKeepsInv,
     FinishedKeepsInv DEF Firmware
<1>2. CASE Reset
  BY <1>2, ResetKeepsInv
<1>3. CASE Environment
  BY <1>3, TransmitKeepsInv, TxEndKeepsInv, RxEndKeepsInv, BothEndKeepsInv, RxendKeepsInv,
     BootKeepsInv, AnswerKeepsInv, ArriveKeepsInv DEF Environment
<1>4. CASE UNCHANGED vars
  <2>1. Session' = Session /\ Command' = Command
    BY <1>4 DEF vars, Session, Command
  <2> QED
    BY <1>4, <2>1 DEF vars, uart, Inv, Types, TypeOK, Uart!ServiceTypeOK, LoopOK, Toggled,
       Truthful, AnswerIsGenuine, Genuine, Verified, PromptOK, CalmOK, TurnOK, ReplyOK,
       BufferOK, PartOf, Aligned
<1> QED
  BY <1>1, <1>2, <1>3, <1>4 DEF Next

LEMMA InvHolds == Spec => []Inv
<1> QED
  BY InitInv, StepKeepsInv, PTL DEF Spec

\* The state of the session, the UART and the modem stays in its types.
THEOREM SessionTypes == Spec => []TypeOK
<1>1. Inv => TypeOK
  BY DEF Inv, Types
<1> QED
  BY <1>1, InvHolds, PTL

\* AT_Command2 (main.c:294) never reports an answer that the modem has not
\* given since it was switched on.
THEOREM AnswersAreGenuine == Spec => []AnswerIsGenuine
<1>1. Inv => AnswerIsGenuine
  BY DEF Inv, Truthful
<1> QED
  BY <1>1, InvHolds, PTL

\* Without a reset of the processor, GSM_OFF (main.c:281) leaves the modem off.
THEOREM ModemIsLeftOff == Spec => []ModemOffAtEnd
<1>1. Inv => ModemOffAtEnd
  BY DEF Inv, Toggled, ModemOffAtEnd
<1> QED
  BY <1>1, InvHolds, PTL

\* What IMEI_GET (main.c:387) and BATT_GET have stored when they return is the
\* reply to their query, if the modem is prompt; resets do not matter.
THEOREM ReadingsAreWhole == Spec => []ReadingsAreReplies
<1>1. Inv => ReadingsAreReplies
  BY DEF Inv, PromptOK, BufferOK, ReadingsAreReplies, ReadingDone, Verified
<1> QED
  BY <1>1, InvHolds, PTL

\* The session with a prompt modem asks nothing of the UART driver that the
\* driver does not promise: each step is a step of UartService or leaves the
\* UART alone.
LEMMA StepUsesService == Inv /\ [Next]_vars => (setting.prompt => [Uart!Next]_uart)
<1> SUFFICES ASSUME Inv, [Next]_vars, setting.prompt PROVE [Uart!Next]_uart
  OBVIOUS
<1>0. Types /\ CalmOK /\ TurnOK
  BY DEF Inv, PromptOK
<1>1. CASE SendCommand
  BY <1>0, <1>1 DEF SendCommand, CalmOK, Uart!Next, Uart!StartSend
<1>2. CASE ArmReceive
  <2>1. rcv = Idle \/ rcv = 2
    BY <1>0, <1>2 DEF ArmReceive, CalmOK
  <2> QED
    BY <1>2, <2>1 DEF ArmReceive, uart, Uart!Next, Uart!StartReceive
<1>3. CASE StopReceive \/ StopSend \/ Reset
  BY <1>3 DEF StopReceive, StopSend, Reset, Uart!Next, Uart!Stop
<1>4. CASE \/ PowerOn \/ Booted \/ CheckAnswer \/ CopyReading \/ Repeat \/ Return \/ EchoOff
           \/ PowerOff \/ Finished \/ UNCHANGED vars
  BY <1>4 DEF PowerOn, Booted, CheckAnswer, CopyReading, Repeat, Return, EchoOff, PowerOff,
     Finished, vars
<1>5. CASE Transmit \/ TxEnd \/ RxEnd \/ rxend \/ Boot \/ Answer \/ Arrive
  BY <1>5 DEF Transmit, TxEnd, RxEnd, rxend, Boot, Answer, Arrive, Uart!Next
<1>6. CASE BothEnd
  BY <1>0, <1>6 DEF BothEnd, TurnOK, Idle
<1> QED
  BY <1>1, <1>2, <1>3, <1>4, <1>5, <1>6 DEF Next, Firmware, Environment

\* And it keeps the line half-duplex, as long as the modem is on when it is
\* spoken to: a reset can leave it off, and the next receive of a retry is then
\* started over the one in progress.
LEMMA StepIsHalfDuplex ==
  Inv /\ [Next]_vars /\ resets = 0 =>
    (setting.prompt => /\ snd' > snd => rcv = Idle
                       /\ rcv' < rcv /\ rcv' # Idle => snd = Idle)
<1> SUFFICES ASSUME Inv, [Next]_vars, resets = 0, setting.prompt
             PROVE  (snd' > snd => rcv = Idle) /\ (rcv' < rcv /\ rcv' # Idle => snd = Idle)
  OBVIOUS
<1>0. CalmOK /\ TurnOK /\ snd \in Int /\ rcv \in Int /\ snd >= -1 /\ rcv >= -1
  BY DEF Inv, PromptOK, Types, TypeOK, Uart!ServiceTypeOK, Uart!Left, Idle
<1>1. CASE SendCommand
  BY <1>0, <1>1 DEF Inv, Toggled, SendCommand, CalmOK
<1>2. CASE ArmReceive
  BY <1>0, <1>2 DEF ArmReceive, CalmOK, Idle
<1>3. CASE StopReceive \/ StopSend \/ Reset
  BY <1>0, <1>3 DEF StopReceive, StopSend, Reset, Idle
<1>4. CASE \/ PowerOn \/ Booted \/ CheckAnswer \/ CopyReading \/ Repeat \/ Return \/ EchoOff
           \/ PowerOff \/ Finished \/ Boot \/ Answer \/ UNCHANGED vars
  <2>1. snd' = snd /\ rcv' = rcv
    BY <1>4 DEF PowerOn, Booted, CheckAnswer, CopyReading, Repeat, Return, EchoOff, PowerOff,
       Finished, Boot, Answer, vars, uart
  <2> QED
    BY <1>0, <2>1
<1>5. CASE Transmit \/ TxEnd \/ RxEnd \/ rxend \/ BothEnd
  BY <1>0, <1>5 DEF Transmit, TxEnd, RxEnd, rxend, BothEnd, Idle, Uart!SendItem, Uart!SendEnd,
     Uart!ReceiveEnd, Uart!NoteDone
<1>6. CASE Arrive
  BY <1>0, <1>6 DEF Arrive, TurnOK, Uart!ReceiveItem
<1> QED
  BY <1>1, <1>2, <1>3, <1>4, <1>5, <1>6 DEF Next, Firmware, Environment

\* A prompt modem is driven as the UART driver needs it, if the processor is
\* not reset in the sessions with a prompt modem.
THEOREM DriverIsUsedWell ==
  ASSUME \A s \in Settings : s.prompt => s.resets = 0
  PROVE  Spec => DriverUsedWell
<1>1. Init => (setting.prompt => Uart!Init)
  BY DEF Init
<1>2. Inv /\ setting.prompt => resets = 0
  BY DEF Inv, Types, TypeOK
<1>3. Inv /\ [Next]_vars =>
        [setting.prompt => [Uart!Next]_uart]_vars
  BY StepUsesService
<1>4. Inv /\ [Next]_vars =>
        [setting.prompt => /\ snd' > snd => rcv = Idle
                           /\ rcv' < rcv /\ rcv' # Idle => snd = Idle]_vars
  BY <1>2, StepIsHalfDuplex
<1> QED
  BY <1>1, <1>3, <1>4, InvHolds, PTL DEF Spec, DriverUsedWell, UsesService, LineIsHalfDuplex

=============================================================================
