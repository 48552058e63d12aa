----------------------------- MODULE UartService -----------------------------
(***************************************************************************)
(* What the UART driver promises its client (uart.c with the callbacks of  *)
(* UARTConfig): in each direction at most one transfer is in progress; it  *)
(* ends either because the client stops it, with no callback, or when      *)
(* every item has been moved, with exactly one.                            *)
(***************************************************************************)
EXTENDS Integers

CONSTANTS
    MaxSize,    \* largest transfer a client asks for
    Idle        \* no transfer in progress: an integer that is no length

VARIABLES
    snd, rcv,   \* items left in the transfer of each direction, or Idle
    note        \* which callback is running: "send", "receive" or "none"

svars == <<snd, rcv, note>>

Left == 0..MaxSize \cup {Idle}

ServiceTypeOK ==
    /\ snd \in Left
    /\ rcv \in Left
    /\ note \in {"none", "send", "receive"}

Init == snd = Idle /\ rcv = Idle /\ note = "none"

\* The client starts a transfer in an idle direction, in a callback too.
StartSend(n) ==
    /\ snd = Idle
    /\ snd' = n
    /\ UNCHANGED <<rcv, note>>

StartReceive(n) ==
    /\ rcv = Idle
    /\ rcv' = n
    /\ UNCHANGED <<snd, note>>

\* The client stops one or both directions: silently, whatever is left.
Stop ==
    /\ snd' \in {snd, Idle}
    /\ rcv' \in {rcv, Idle}
    /\ UNCHANGED note

\* An item is moved.
SendItem ==
    /\ snd # Idle /\ snd > 0
    /\ snd' = snd - 1
    /\ UNCHANGED <<rcv, note>>

ReceiveItem ==
    /\ rcv # Idle /\ rcv > 0
    /\ rcv' = rcv - 1
    /\ UNCHANGED <<snd, note>>

\* A complete transfer ends and its callback starts.
SendEnd ==
    /\ snd = 0 /\ note = "none"
    /\ snd' = Idle
    /\ note' = "send"
    /\ UNCHANGED rcv

ReceiveEnd ==
    /\ rcv = 0 /\ note = "none"
    /\ rcv' = Idle
    /\ note' = "receive"
    /\ UNCHANGED snd

\* The callback returns.
NoteDone ==
    /\ note # "none"
    /\ note' = "none"
    /\ UNCHANGED <<snd, rcv>>

Next ==
    \/ \E n \in 1..MaxSize : StartSend(n) \/ StartReceive(n)
    \/ Stop
    \/ SendItem \/ ReceiveItem \/ SendEnd \/ ReceiveEnd \/ NoteDone

Spec == Init /\ [][Next]_svars

=============================================================================
