----------------------------- MODULE MCMailbox -----------------------------
(* Threads that share a mailbox and a semaphore of their own. *)
EXTENDS Mailbox

CONSTANTS sem

MCSems == {empty, full, sem}

=============================================================================
