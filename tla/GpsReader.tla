------------------------------ MODULE GpsReader ------------------------------
(***************************************************************************)
(* GPS() of the tracker (main.c, and test/gps.c, which calls it for ever): *)
(* it waits in a busy loop for a receive of 70 bytes from the GPS module   *)
(* and takes the position out of the NMEA sentence. The UART driver counts *)
(* here only as the receive it runs and the callback rxend, see UartDriver *)
(* for the rest of it.                                                     *)
(***************************************************************************)
EXTENDS Integers

CONSTANT Size       \* bytes asked for; 70 in the code

VARIABLES
    at,         \* where GPS() is: called, stopped, loop, test, returned
    left,       \* bytes the receive still waits for, 0 if none is in progress
    RX_Flag,    \* set by rxend
    buffer,     \* how much of a sentence buffer holds
    GRMC,       \* what the array holds: "old" or "sentence"
    latitud,    \* where the position comes from: "old", "stack", "sentence"
    heard       \* a byte has arrived in this turn of the loop

vars == <<at, left, RX_Flag, buffer, GRMC, latitud, heard>>

\* A receive may have been left in progress by the command before (main.c).
Init ==
    /\ at = "called"
    /\ left \in 0..Size
    /\ RX_Flag = FALSE
    /\ buffer = 0
    /\ GRMC = "old" /\ latitud = "old"
    /\ heard = FALSE

\* uartStopReceive, and the two sleeps of a millisecond.
StopReceive ==
    /\ at = "called"
    /\ left' = 0
    /\ at' = "loop"
    /\ UNCHANGED <<RX_Flag, buffer, GRMC, latitud, heard>>

\* uartStartReceive: the assertion that no receive is in progress is compiled
\* out, the driver starts again from the first byte.
StartReceive ==
    /\ at = "loop"
    /\ left' = Size
    /\ buffer' = 0
    /\ heard' = FALSE
    /\ at' = "test"
    /\ UNCHANGED <<RX_Flag, GRMC, latitud>>

\* Nothing yet: the next turn.
NotYet ==
    /\ at = "test" /\ ~ RX_Flag
    /\ at' = "loop"
    /\ UNCHANGED <<left, RX_Flag, buffer, GRMC, latitud, heard>>

\* What the local array datos holds: no statement writes it.
datos == "stack"

\* The sentence, if there is one, goes to GRMC; the position is taken from
\* datos, if what happens to be there has the commas; the flag is cleared.
TakePosition ==
    /\ at = "test" /\ RX_Flag
    /\ GRMC' = IF buffer = Size THEN "sentence" ELSE GRMC
    /\ latitud' \in {latitud, datos}
    /\ RX_Flag' = FALSE
    /\ at' = "returned"
    /\ UNCHANGED <<left, buffer, heard>>

\* The main loop of test/gps.c calls GPS() again.
CallAgain ==
    /\ at = "returned"
    /\ at' = "called"
    /\ UNCHANGED <<left, RX_Flag, buffer, GRMC, latitud, heard>>

\* A byte from the module. A turn of the loop takes microseconds, a byte at
\* 9600 baud a millisecond: no turn sees two.
Byte ==
    /\ left > 0
    /\ at \in {"loop", "test"} => ~ heard
    /\ left' = left - 1
    /\ buffer' = IF buffer < Size THEN buffer + 1 ELSE buffer
    /\ heard' = TRUE
    /\ RX_Flag' = (RX_Flag \/ left = 1)
    /\ UNCHANGED <<at, GRMC, latitud>>

Program == StopReceive \/ StartReceive \/ NotYet \/ TakePosition \/ CallAgain

Next == Program \/ Byte

\* The loop runs and the module never falls silent.
FairSpec == Init /\ [][Next]_vars /\ WF_vars(Program) /\ SF_vars(Byte)

-----------------------------------------------------------------------------
\* "funcion que toma los datos de posicion del GPS" (main.c:93): a call of
\* GPS() with the module sending ends up with a position out of a sentence.
PositionTaken == <>(latitud = "sentence")

=============================================================================
