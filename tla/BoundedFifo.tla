----------------------------- MODULE BoundedFifo -----------------------------
(***************************************************************************)
(* What a single-producer single-consumer ring promises: a first-in first- *)
(* out queue of at most Limit items, and the item its consumer took last.  *)
(***************************************************************************)
EXTENDS Naturals, Sequences

CONSTANTS Items, NoItem, Limit

VARIABLES queue, out

FifoInit == queue = <<>> /\ out = NoItem

Push(v) ==
    /\ Len(queue) < Limit
    /\ queue' = Append(queue, v)
    /\ UNCHANGED out

Pop ==
    /\ queue # <<>>
    /\ out' = Head(queue)
    /\ queue' = Tail(queue)

FifoNext == Pop \/ \E v \in Items : Push(v)

FifoSpec == FifoInit /\ [][FifoNext]_<<queue, out>>
=============================================================================
