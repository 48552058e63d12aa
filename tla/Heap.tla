-------------------------------- MODULE Heap --------------------------------
(***************************************************************************)
(* The kernel's first-fit heap (chheap.c) over the core memory manager     *)
(* (chmemcore.c). Memory is counted in units of the block header, which is *)
(* also the alignment: a block at address a of size n is a header in unit  *)
(* a and n units of payload. A heap has either the core as its provider    *)
(* (_heap_init) or a buffer of its own and none (chHeapInit).              *)
(*                                                                         *)
(* The walks over the free list are made under the heap's mutex, so that   *)
(* each is one step; the provider is asked after the mutex is released.    *)
(***************************************************************************)
EXTENDS Integers, Sequences, SequencesExt, FiniteSets, FiniteSetsExt

CONSTANTS
    CoreSize,   \* units of memory (a bound)
    MaxRequest  \* largest block asked for (a bound)

ASSUME HeapAssumption == CoreSize \in Nat \ {0} /\ MaxRequest \in Nat

VARIABLE heap   \* the free list, the blocks handed out, nextmem and endmem

Block(a, n) == [at |-> a, size |-> n]

\* LIMIT: the unit after a block.
Limit(b) == b.at + 1 + b.size

\* The default heap, or one made of a buffer of size units.
HeapInit(size, provided) ==
    heap = [free |-> IF provided THEN <<>> ELSE <<Block(0, size - 1)>>,
            used |-> {},
            next |-> IF provided THEN 0 ELSE size,
            end  |-> size]

Fits(n) == {i \in DOMAIN heap.free : heap.free[i].size >= n}

\* What stays free of a block of which n units are taken; nothing if there is
\* no room for a header.
Remainder(b, n) ==
    IF b.size < n + 1 THEN <<>> ELSE <<Block(b.at + 1 + n, b.size - n - 1)>>

\* chHeapAlloc finds a free block: the first that is large enough.
FindBlock(n, a) ==
    /\ Fits(n) # {}
    /\ LET i    == Min(Fits(n))
           b    == heap.free[i]
           rest == Remainder(b, n)
       IN  /\ a = b.at
           /\ heap' = [heap EXCEPT
                !.free = SubSeq(@, 1, i - 1) \o rest \o SubSeq(@, i + 1, Len(@)),
                !.used = @ \cup {Block(a, IF rest = <<>> THEN b.size ELSE n)}]

\* chCoreAllocI has no room left for the block and its header.
CoreFull(n) == heap.end - heap.next < n + 1

\* It has.
CoreBlock(n, a) ==
    /\ ~ CoreFull(n)
    /\ a = heap.next
    /\ heap' = [heap EXCEPT !.next = @ + n + 1, !.used = @ \cup {Block(a, n)}]

\* The list s with block i and the next made one, if they touch.
Merged(s, i) ==
    IF i \notin 1..(Len(s) - 1) \/ Limit(s[i]) # s[i + 1].at THEN s
    ELSE SubSeq(s, 1, i - 1) \o <<Block(s[i].at, s[i].size + s[i + 1].size + 1)>>
           \o SubSeq(s, i + 2, Len(s))

\* Mutant: the block is not merged with the one before it.
FreeMergingForward(b) ==
    LET i == Cardinality({j \in DOMAIN heap.free : heap.free[j].at < b.at}) + 1
    IN  heap' = [heap EXCEPT !.free = Merged(InsertAt(@, i, b), i), !.used = @ \ {b}]

\* chHeapFree: the block goes to its place by address and is merged with the
\* block after it and with the block before it.
HeapFree(b) ==
    LET i == Cardinality({j \in DOMAIN heap.free : heap.free[j].at < b.at}) + 1
    IN  heap' = [heap EXCEPT !.free = Merged(Merged(InsertAt(@, i, b), i), i - 1),
                             !.used = @ \ {b}]

\* The used block at address a.
BlockAt(a) == CHOOSE b \in heap.used : b.at = a

-----------------------------------------------------------------------------
Blocks == Range(heap.free) \cup heap.used

Units(b) == b.at .. (Limit(b) - 1)

HeapTypeOK ==
    /\ heap.free \in Seq([at : 0..CoreSize - 1, size : 0..CoreSize - 1])
    /\ heap.used \subseteq [at : 0..CoreSize - 1, size : 0..CoreSize - 1]
    /\ heap.next \in 0..heap.end /\ heap.end \in 0..CoreSize

\* No unit is in two blocks, none the heap was given is lost, and the free list
\* is in the order of the addresses with no two neighbours left apart: a heap
\* all of whose blocks are given back is one block again. (chHeapAlloc splits,
\* chHeapFree merges.)
HeapExact ==
    /\ \A b, c \in Blocks : b # c => Units(b) \cap Units(c) = {}
    /\ Range(heap.free) \cap heap.used = {}
    /\ \A u \in 0..heap.next - 1 : \E b \in Blocks : u \in Units(b)
    /\ \A i \in 1..(Len(heap.free) - 1) : Limit(heap.free[i]) < heap.free[i + 1].at

=============================================================================
