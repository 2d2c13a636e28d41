------------------------------ MODULE SpscRing ------------------------------
(***************************************************************************)
(* SpscRingBuffer / DynamicSpscRingBuffer of engine/core/                  *)
(* lockfree_ring_buffer.hpp with its two callers: the feed thread, which   *)
(* drops an update the ring has no room for (binance_feed.hpp) or spins    *)
(* until there is room (push_blocking, csv_replay.hpp), and the drain      *)
(* thread, which pops.                                                     *)
(*                                                                         *)
(* Each thread loads the other's index once per attempt, copies the slot   *)
(* and then stores its own index; the release/acquire pairs on head_ and   *)
(* tail_ make the slot copy visible with the index, so the steps interleave*)
(* as written.  A thread's own index changes only by its own store, so its *)
(* relaxed load is part of the step that reads the other index.            *)
(***************************************************************************)
EXTENDS Naturals

CONSTANTS Items,      \* the updates that travel through the ring
          NoItem,     \* what fresh slots and a fresh `out` hold
          Capacity    \* slots, one of which is always left empty

ASSUME RingAssumption == Capacity \in Nat /\ Capacity >= 2

VARIABLES slots, head, tail,
          ppc, item,   \* producer: step, and the update being pushed
          cpc, out,    \* consumer: step, and the caller's `out`
          blocking     \* does this program's producer retry a failed push?

vars == <<slots, head, tail, ppc, item, cpc, out, blocking>>

Index == 0..(Capacity - 1)

Init == /\ slots = [i \in Index |-> NoItem]
        /\ head = 0 /\ tail = 0
        /\ ppc = "idle" /\ item = NoItem
        /\ cpc = "idle" /\ out = NoItem
        /\ blocking \in BOOLEAN

(* (i + 1U) & mask_, for a capacity that is a power of two. *)
next_index(i) == (i + 1) % Capacity

-----------------------------------------------------------------------------
(* As full, with the test dropped. *)
NeverFull == FALSE

full == next_index(head) = tail

empty == tail = head

(* The feed has the next update to enqueue. *)
Produce(v) ==
    /\ ppc = "idle"
    /\ ppc' = "check" /\ item' = v
    /\ UNCHANGED <<slots, head, tail, cpc, out, blocking>>

(* try_push, one attempt: the index loads and the test. *)
PushCheck ==
    /\ ppc = "check"
    /\ ppc' = IF ~full THEN "write" ELSE IF blocking THEN "check" ELSE "idle"
    /\ UNCHANGED <<slots, head, tail, item, cpc, out, blocking>>

(* As PushWrite, one slot too far. *)
WriteAfterHead ==
    /\ ppc = "write"
    /\ slots' = [slots EXCEPT ![next_index(head)] = item]
    /\ ppc' = "publish"
    /\ UNCHANGED <<head, tail, item, cpc, out, blocking>>

(* The copy into the slot. *)
PushWrite ==
    /\ ppc = "write"
    /\ slots' = [slots EXCEPT ![head] = item]
    /\ ppc' = "publish"
    /\ UNCHANGED <<head, tail, item, cpc, out, blocking>>

(* The release store of head_. *)
PushPublish ==
    /\ ppc = "publish"
    /\ head' = next_index(head)
    /\ ppc' = "idle"
    /\ UNCHANGED <<slots, tail, item, cpc, out, blocking>>

(* try_pop; on an empty ring it returns and the drain thread tries again. *)
PopCheck ==
    /\ cpc = "idle" /\ ~empty
    /\ cpc' = "read"
    /\ UNCHANGED <<slots, head, tail, ppc, item, out, blocking>>

(* The copy out of the slot. *)
PopRead ==
    /\ cpc = "read"
    /\ out' = slots[tail]
    /\ cpc' = "free"
    /\ UNCHANGED <<slots, head, tail, ppc, item, blocking>>

(* As PopFree, without the store. *)
KeepTail ==
    /\ cpc = "free"
    /\ cpc' = "idle"
    /\ UNCHANGED <<slots, head, tail, ppc, item, out, blocking>>

(* The release store of tail_, which gives the slot back. *)
PopFree ==
    /\ cpc = "free"
    /\ tail' = next_index(tail)
    /\ cpc' = "idle"
    /\ UNCHANGED <<slots, head, ppc, item, out, blocking>>

TryPush == PushCheck \/ PushWrite \/ PushPublish
TryPop == PopCheck \/ PopRead \/ PopFree

Next == TryPush \/ TryPop \/ \E v \in Items : Produce(v)

Spec == Init /\ [][Next]_vars

(* Both threads loop for ever and are scheduled. *)
FairSpec == Spec /\ WF_vars(TryPush) /\ WF_vars(TryPop)

-----------------------------------------------------------------------------
TypeOK == /\ slots \in [Index -> Items \cup {NoItem}]
          /\ head \in Index /\ tail \in Index
          /\ ppc \in {"idle", "check", "write", "publish"}
          /\ item \in Items \cup {NoItem}
          /\ cpc \in {"idle", "read", "free"}
          /\ out \in Items \cup {NoItem}
          /\ blocking \in BOOLEAN

(* The threads never copy the same slot at the same time: no torn update,  *)
(* although each acted on an index the other may have moved since.         *)
NoSlotRace == ~(ppc = "write" /\ cpc = "read" /\ head = tail)

(* The oldest item not yet taken, and the items from it to head_.          *)
Oldest == IF cpc = "free" THEN next_index(tail) ELSE tail

Count == IF head >= Oldest THEN head - Oldest ELSE head + Capacity - Oldest

Contents == [i \in 1..Count |-> slots[(Oldest + i - 1) % Capacity]]

Fifo == INSTANCE BoundedFifo
            WITH queue <- Contents, Limit <- Capacity - 1

(* The ring is a FIFO queue of capacity() = Capacity - 1 items: nothing is *)
(* lost, duplicated, reordered or overwritten before it was popped.        *)
ImplementsFifo == Fifo!FifoSpec

(* A push that spins gets through, because pops free the slots it waits    *)
(* for (the back-pressure csv_replay.hpp relies on).                       *)
PushCompletes == ppc = "check" ~> ppc = "idle"
=============================================================================
