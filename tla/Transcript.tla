----------------------------- MODULE Transcript -----------------------------
(***************************************************************************)
(* What the active context of a conversation promises, with no versions,   *)
(* summaries or tokens in sight: the events recorded so far, in order, cut *)
(* into consecutive blocks.  Recording adds blocks of one event at the     *)
(* end; condensing joins neighbouring blocks.  No event is ever lost,      *)
(* repeated or moved.                                                      *)
(***************************************************************************)
EXTENDS Naturals, Sequences

VARIABLE view  \* the blocks: each a set of event sequence numbers

Events(v) == UNION {v[p] : p \in DOMAIN v}

Init == view = <<>>

(* view' is view followed by blocks of one later event each. *)
Record ==
    LET n == Len(view) IN
    /\ Len(view') > n
    /\ SubSeq(view', 1, n) = view
    /\ \A p \in n + 1 .. Len(view') :
        \E e \in view'[p] :
            /\ view'[p] = {e}
            /\ \A d \in Events(SubSeq(view', 1, p - 1)) : d < e

(* view' is view with the blocks from first to first + n - 1 joined.       *)
Condense ==
    LET n == Len(view) + 1 - Len(view') IN
    /\ n > 0
    /\ \E first \in 1 .. Len(view) + 1 - n :
        view' = SubSeq(view, 1, first - 1)
                  \o <<Events(SubSeq(view, first, first + n - 1))>>
                  \o SubSeq(view, first + n, Len(view))

Next == Record \/ Condense

Spec == Init /\ [][Next]_view
=============================================================================
