------------------------------- MODULE OmsCore -------------------------------
(***************************************************************************)
(* OMSCore of engine/net/oms_core.hpp: a slot vector that only grows, an   *)
(* index from order keys to slots, and a LIFO free list of released slots. *)
(* Every operation holds mtx_ exclusively for its whole body, so each is   *)
(* one action; the update callback runs after the unlock and belongs to    *)
(* the engine's module.                                                    *)
(*                                                                         *)
(* A caller may register a key that is still indexed: the code warns and   *)
(* goes on, and the previous slot becomes unreachable.                     *)
(***************************************************************************)
EXTENDS OrderRecords, Sequences

CONSTANTS Keys, Tickets, Reports,
          MaxSlots,     \* model bound: register_new_order is not called
                        \* with MaxSlots slots in use
          MaxCommission \* model bound: no report takes an order's
                        \* commission beyond it

ASSUME OmsAssumption == /\ Tickets \subseteq Ticket
                        /\ Reports \subseteq Report
                        /\ MaxSlots \in Nat
                        /\ MaxCommission \in Nat

VARIABLES slots,        \* slots_: sequence of records
          index,        \* index_: function from a set of keys to positions
          free_list,    \* free_list_: sequence of positions, last out first
          orphaned      \* history: slots whose index entry was overwritten

vars == <<slots, index, free_list, orphaned>>

Map == INSTANCE OrderMap
           WITH orders <- [k \in DOMAIN index |-> slots[index[k]]]

Init == /\ slots = <<>>
        /\ index = [k \in {} |-> 0]
        /\ free_list = <<>>
        /\ orphaned = {}

(* The position alloc_slot_locked returns. *)
alloc_slot == IF free_list # <<>>
              THEN free_list[Len(free_list)]
              ELSE Len(slots) + 1

(* As register_new_order, reusing a free slot without popping it. *)
RegisterWithoutPop(k, t) ==
    /\ free_list # <<>> \/ Len(slots) < MaxSlots
    /\ slots' = IF free_list # <<>> THEN [slots EXCEPT ![alloc_slot] = NewOrder(t)]
                                    ELSE Append(slots, NewOrder(t))
    /\ index' = Put(index, k, alloc_slot)
    /\ orphaned' = IF k \in DOMAIN index THEN orphaned \cup {index[k]} ELSE orphaned
    /\ UNCHANGED free_list

(* Store a fresh record in a reused or a new slot and index it by k. *)
register_new_order(k, t) ==
    LET slot == alloc_slot
        rec  == NewOrder(t)
    IN  /\ free_list # <<>> \/ Len(slots) < MaxSlots
        /\ slots' = IF free_list # <<>> THEN [slots EXCEPT ![slot] = rec]
                                        ELSE Append(slots, rec)
        /\ free_list' = IF free_list # <<>>
                        THEN SubSeq(free_list, 1, Len(free_list) - 1)
                        ELSE free_list
        /\ index' = Put(index, k, slot)
        /\ orphaned' = IF k \in DOMAIN index THEN orphaned \cup {index[k]}
                                             ELSE orphaned

(* Apply a report to the tracked order; reports for other keys are ignored. *)
apply_update(k, r) ==
    /\ k \in DOMAIN index
    /\ slots[index[k]].cumulative_commission + r.commission <= MaxCommission
    /\ slots' = [slots EXCEPT ![index[k]] = Applied(@, r)]
    /\ UNCHANGED <<index, free_list, orphaned>>

(* As release, forgetting the slot. *)
ReleaseLeaks(k) ==
    /\ k \in DOMAIN index
    /\ index' = Drop(index, k)
    /\ UNCHANGED <<slots, free_list, orphaned>>

(* As release, keeping the index entry. *)
ReleaseKeepsEntry(k) ==
    /\ k \in DOMAIN index
    /\ \A i \in 1..Len(free_list) : free_list[i] # index[k]
    /\ free_list' = Append(free_list, index[k])
    /\ UNCHANGED <<slots, index, orphaned>>

(* Forget k and put its slot on the free list. *)
release(k) ==
    /\ k \in DOMAIN index
    /\ free_list' = Append(free_list, index[k])
    /\ index' = Drop(index, k)
    /\ UNCHANGED <<slots, orphaned>>

Next ==
    \E k \in Keys :
        \/ \E t \in Tickets : register_new_order(k, t)
        \/ \E r \in Reports : apply_update(k, r)
        \/ release(k)

Spec == Init /\ [][Next]_vars

-----------------------------------------------------------------------------

Positions == 1..Len(slots)

TypeOK == /\ slots \in Seq(OrderRecord)
          /\ DOMAIN index \subseteq Keys
          /\ index \in [DOMAIN index -> Positions]
          /\ free_list \in Seq(Positions)
          /\ orphaned \subseteq Positions

(* No two tracked orders share a slot, so an execution report applied to   *)
(* one order can never change another: what slot reuse through the free    *)
(* list (alloc_slot_locked) must not break, also after a key collision.    *)
NoSharedSlot == \A j, k \in DOMAIN index : index[j] = index[k] => j = k

(* A slot on the free list is not in use: handing it to the next order     *)
(* cannot overwrite a tracked one, and no slot is handed out twice.        *)
FreeSlotsUnused ==
    /\ \A i \in 1..Len(free_list) : \A k \in DOMAIN index :
           free_list[i] # index[k]
    /\ \A i, j \in 1..Len(free_list) : free_list[i] = free_list[j] => i = j

(* Slot accounting: every slot is tracked, free, or orphaned by a key      *)
(* collision, and an orphan is lost for good -- it is never tracked or     *)
(* free again.  Without collisions no slot leaks, however long the         *)
(* register / release history is.                                          *)
SlotsAccountedFor ==
    /\ \A p \in Positions :
           \/ \E k \in DOMAIN index : index[k] = p
           \/ \E i \in 1..Len(free_list) : free_list[i] = p
           \/ p \in orphaned
    /\ \A p \in orphaned :
           /\ \A k \in DOMAIN index : index[k] # p
           /\ \A i \in 1..Len(free_list) : free_list[i] # p

(* While an order stays tracked its filled quantity never goes backwards,  *)
(* whatever stale or duplicate reports arrive (comment on apply_update)    *)
(* and whichever slots other orders release and reuse meanwhile.           *)
FilledNeverShrinks ==
    [][\A k \in DOMAIN index \cap DOMAIN index' :
           index'[k] = index[k] =>
               slots'[index[k]].filled_qty >= slots[index[k]].filled_qty]_vars

(* OMSCore is an implementation of the order map. *)
ImplementsOrderMap == Map!MapSpec
=============================================================================
