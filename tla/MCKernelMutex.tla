--------------------------- MODULE MCKernelMutex ---------------------------
(* The idle thread and three others, of three priorities. *)
EXTENDS KernelMutex

CONSTANTS idle, low, mid, high

MCThreads == {idle, low, mid, high}
MCBase == [t \in MCThreads |->
             CASE t = idle -> 1 [] t = low -> 2 [] t = mid -> 3 [] t = high -> 4]

=============================================================================
