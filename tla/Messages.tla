------------------------------ MODULE Messages ------------------------------
(***************************************************************************)
(* Synchronous messages between threads (chmsg.c). A sender queues itself  *)
(* at the server and sleeps until the server, which may hold several       *)
(* senders at once, answers it. The messages' contents are left out.       *)
(***************************************************************************)
EXTENDS Sequences, SequencesExt

CONSTANTS Clients, Servers

ASSUME PeersAssumption == Clients \cap Servers = {}

VARIABLES
    msgqueue,   \* p_msgqueue of each server
    mstate      \* READY, WTMSG, SNDMSGQ or SNDMSG; "woken" is a server made
                \* ready in chMsgWait, before it has taken its message

Peers == Clients \cup Servers

MsgInit ==
    /\ msgqueue = [s \in Servers |-> <<>>]
    /\ mstate = [p \in Peers |-> "READY"]

\* chMsgSend.
chMsgSend(c, s) ==
    /\ mstate[c] = "READY"
    /\ msgqueue' = [msgqueue EXCEPT ![s] = Append(@, c)]
    /\ mstate' = [mstate EXCEPT ![c] = "SNDMSGQ",
                                ![s] = IF @ = "WTMSG" THEN "woken" ELSE @]

\* The server takes the first sender; it goes on running.
TakeSender(s) ==
    /\ msgqueue' = [msgqueue EXCEPT ![s] = Tail(@)]
    /\ mstate' = [mstate EXCEPT ![Head(msgqueue[s])] = "SNDMSG", ![s] = "READY"]

\* chMsgWait: at once if a sender is queued, asleep if none is.
chMsgWait(s) ==
    /\ mstate[s] = "READY"
    /\ IF msgqueue[s] # <<>> THEN TakeSender(s)
       ELSE mstate' = [mstate EXCEPT ![s] = "WTMSG"] /\ UNCHANGED msgqueue

\* chMsgWait goes on after its sleep.
chMsgWaitWoken(s) == mstate[s] = "woken" /\ TakeSender(s)

\* chMsgRelease of a sender that has been taken.
chMsgRelease(s, c) ==
    /\ mstate[s] = "READY" /\ mstate[c] = "SNDMSG"
    /\ mstate' = [mstate EXCEPT ![c] = "READY"]
    /\ UNCHANGED msgqueue

=============================================================================
