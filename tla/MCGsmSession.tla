---------------------------- MODULE MCGsmSession ----------------------------
(* The session of test/gsm.c with a prompt modem; that of main.c with a modem *)
(* that may take its time, and one reset of the processor.                    *)
EXTENDS GsmSession

MCSettings == {[queries |-> TRUE, prompt |-> TRUE, tries |-> 3, resets |-> 0],
               [queries |-> FALSE, prompt |-> FALSE, tries |-> 2, resets |-> 1]}

=============================================================================
