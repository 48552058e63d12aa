--------------------------- MODULE MailboxService ---------------------------
(***************************************************************************)
(* What a mailbox promises (chmboxes.c:34-43): a queue of at most Size     *)
(* messages. Post adds one at the end, Post Ahead at the front, Fetch      *)
(* takes the front one and gives it to its caller, Reset loses them all.   *)
(***************************************************************************)
EXTENDS Sequences, Naturals

CONSTANTS Msgs, Size

VARIABLES box,      \* the stored messages
          out       \* the last message that was fetched

boxvars == <<box, out>>

Init == box = <<>> /\ out \notin Msgs

Post(m) == Len(box) < Size /\ box' = Append(box, m) /\ UNCHANGED out

PostAhead(m) == Len(box) < Size /\ box' = <<m>> \o box /\ UNCHANGED out

Fetch == box # <<>> /\ out' = Head(box) /\ box' = Tail(box)

Reset == box' = <<>> /\ UNCHANGED out

Next == \/ \E m \in Msgs : Post(m) \/ PostAhead(m)
        \/ Fetch
        \/ Reset

Spec == Init /\ [][Next]_boxvars

=============================================================================
