------------------------------- MODULE Channel -------------------------------
(***************************************************************************)
(* What a BestEffortQueue promises its users, without threads, locks or     *)
(* signals: a first-in first-out stream of items that is closed once, whose *)
(* reader sees the end of the stream only after every item.  A lossy        *)
(* channel may trade its oldest item for a new one.                         *)
(***************************************************************************)
EXTENDS Sequences

CONSTANT
    Items    \* what travels through the channel

VARIABLES
    lossy,      \* whether an item may be lost, which is fixed
    contents,   \* the items under way, oldest first
    delivered,  \* the items the readers got, in order
    closed,     \* no item is accepted any more
    ended       \* a reader has seen the end of the stream

cvars == <<lossy, contents, delivered, closed, ended>>

Init ==
    /\ lossy \in BOOLEAN
    /\ contents = <<>>
    /\ delivered = <<>>
    /\ closed = FALSE
    /\ ended = FALSE

Put(x) ==
    /\ ~closed
    /\ contents' = Append(contents, x)
    /\ UNCHANGED <<lossy, delivered, closed, ended>>

PutForOldest(x) ==
    /\ lossy
    /\ ~closed
    /\ contents' = Tail(Append(contents, x))
    /\ UNCHANGED <<lossy, delivered, closed, ended>>

Close ==
    /\ ~closed
    /\ closed' = TRUE
    /\ UNCHANGED <<lossy, contents, delivered, ended>>

Take ==
    /\ contents # <<>>
    /\ contents' = Tail(contents)
    /\ delivered' = Append(delivered, Head(contents))
    /\ UNCHANGED <<lossy, closed, ended>>

End ==
    /\ closed /\ ~ended
    /\ contents = <<>>
    /\ ended' = TRUE
    /\ UNCHANGED <<lossy, contents, delivered, closed>>

Next ==
    \/ \E x \in Items : Put(x) \/ PutForOldest(x)
    \/ Close \/ Take \/ End

Safety == Init /\ [][Next]_cvars

\* Whatever is in the channel is taken out, and so is the end of the stream.
Spec == Safety /\ WF_cvars(Take \/ End)
=============================================================================
