---------------------------- MODULE OmsCoreProofs ----------------------------
(***************************************************************************)
(* Proofs about OmsCore, for every set of keys, orders and reports and any *)
(* bound on the slots.                                                     *)
(***************************************************************************)
EXTENDS OmsCore, SequenceTheorems, TLAPS

(* The inductive invariant: typing, and the three statements about how     *)
(* index, free list and orphans split the slots.  Each needs the others:   *)
(* reusing a free slot keeps NoSharedSlot because of FreeSlotsUnused, and  *)
(* releasing one keeps FreeSlotsUnused because of NoSharedSlot.            *)
IInv == TypeOK /\ NoSharedSlot /\ FreeSlotsUnused /\ SlotsAccountedFor

(* Blend yields a fraction of naturals. *)
LEMMA BlendType ==
    ASSUME NEW avg \in Nat \X Nat, NEW filled \in Nat, NEW price \in Nat,
           NEW cum \in Nat, cum > filled
    PROVE  Blend(avg, filled, price, cum) \in Nat \X Nat
<1>1. cum - filled \in Nat
  OBVIOUS
<1>2. avg[1] \in Nat /\ avg[2] \in Nat
  OBVIOUS
<1>3. \A a, b \in Nat : a * b \in Nat /\ a + b \in Nat
  OBVIOUS
<1>4. price * (cum - filled) \in Nat
  BY <1>1, <1>3
<1>5. price * (cum - filled) * avg[2] \in Nat
  BY <1>2, <1>3, <1>4
<1>6. avg[1] * filled \in Nat /\ avg[2] * cum \in Nat
  BY <1>2, <1>3
<1>7. avg[1] + price * (cum - filled) \in Nat
  BY <1>2, <1>3, <1>4
<1>8. avg[1] * filled + price * (cum - filled) * avg[2] \in Nat
  BY <1>3, <1>5, <1>6
<1> QED
  BY <1>6, <1>7, <1>8 DEF Blend

(* apply_update maps records to records and never lowers filled_qty. *)
LEMMA AppliedType ==
    ASSUME NEW rec \in OrderRecord, NEW r \in Report
    PROVE  /\ Applied(rec, r) \in OrderRecord
           /\ Applied(rec, r).filled_qty >= rec.filled_qty
<1> DEFINE P == Nat \X Nat
           f == IF r.cum > rec.filled_qty THEN r.cum ELSE rec.filled_qty
           a == IF r.cum > rec.filled_qty /\ r.price > 0
                THEN Blend(rec.avg_fill_price, rec.filled_qty, r.price, r.cum)
                ELSE rec.avg_fill_price
           c == rec.cumulative_commission + r.commission
<1>1. /\ r.cum \in Nat /\ r.price \in Nat /\ r.commission \in Nat
      /\ r.status \in OrderStatus /\ r.exchange_order_id \in Nat
  BY DEF Report
<1>2. rec.filled_qty \in Nat /\ rec.avg_fill_price \in P /\ rec.cumulative_commission \in Nat
  BY DEF OrderRecord
<1>3. f \in Nat /\ f >= rec.filled_qty /\ c \in Nat
  BY <1>1, <1>2
<1>4. a \in P
  BY <1>1, <1>2, BlendType
<1>5. Applied(rec, r) =
        [rec EXCEPT !.filled_qty = f, !.avg_fill_price = a, !.cumulative_commission = c,
                    !.status = r.status, !.exchange_order_id = r.exchange_order_id]
  BY DEF Applied
<1>6. rec \in [symbol: Symbols, side: Side, status: OrderStatus, qty: Nat,
               filled_qty: Nat, avg_fill_price: P,
               cumulative_commission: Nat, exchange_order_id: Nat]
  BY DEF OrderRecord
<1> HIDE DEF P, f, a, c
<1>7. /\ Applied(rec, r).filled_qty = f
      /\ Applied(rec, r) \in
           [symbol: Symbols, side: Side, status: OrderStatus, qty: Nat,
            filled_qty: Nat, avg_fill_price: P,
            cumulative_commission: Nat, exchange_order_id: Nat]
  BY <1>1, <1>3, <1>4, <1>5, <1>6
<1> QED
  BY <1>3, <1>7 DEF OrderRecord, P

(* free_list_.pop_back(): all but the last element. *)
LEMMA PopBack ==
    ASSUME NEW S, NEW s \in Seq(S), s # <<>>
    PROVE  /\ SubSeq(s, 1, Len(s) - 1) \in Seq(S)
           /\ Len(SubSeq(s, 1, Len(s) - 1)) = Len(s) - 1
           /\ \A i \in 1..(Len(s) - 1) : SubSeq(s, 1, Len(s) - 1)[i] = s[i]
<1>1. Len(s) \in Nat /\ Len(s) > 0
  OBVIOUS
<1>2. \A i \in 1..(Len(s) - 1) : s[i] \in S
  BY <1>1
<1>3. PICK n \in Nat : n = Len(s) - 1
  BY <1>1
<1>4. SubSeq(s, 1, n) \in Seq(S)
  BY <1>2, <1>3, SubSeqProperties
<1>5. Len(SubSeq(s, 1, n)) = n
  BY <1>2, <1>3, SubSeqProperties
<1>6. \A i \in 1..n : SubSeq(s, 1, n)[i] = s[i]
  BY <1>2, <1>3, SubSeqProperties
<1> QED
  BY <1>3, <1>4, <1>5, <1>6

(* A freshly registered order is a record. *)
LEMMA NewOrderType ==
    ASSUME NEW t \in Ticket PROVE NewOrder(t) \in OrderRecord
BY DEF Ticket, NewOrder, OrderRecord, OrderStatus, Side

(* The constructed OMS satisfies the inductive invariant. *)
LEMMA InitIInv == Init => IInv
BY DEF Init, IInv, TypeOK, NoSharedSlot, FreeSlotsUnused, SlotsAccountedFor, Positions

(* Registering with a free slot available: the last free slot is reused. *)
LEMMA RegisterReuse ==
    ASSUME IInv, NEW k \in Keys, NEW t \in Tickets,
           register_new_order(k, t), free_list # <<>>
    PROVE  IInv'
<1> DEFINE slot == free_list[Len(free_list)]
           rec == NewOrder(t)
<1>1. rec \in OrderRecord
  BY NewOrderType, OmsAssumption
<1>2. /\ slots \in Seq(OrderRecord) /\ free_list \in Seq(Positions)
      /\ index \in [DOMAIN index -> Positions] /\ DOMAIN index \subseteq Keys
      /\ orphaned \subseteq Positions
  BY DEF IInv, TypeOK
<1>3. Len(free_list) \in Nat /\ Len(free_list) > 0 /\ slot \in Positions
  BY <1>2 DEF Positions
<1>4. /\ slots' = [slots EXCEPT ![slot] = rec]
      /\ free_list' = SubSeq(free_list, 1, Len(free_list) - 1)
      /\ index' = Put(index, k, slot)
      /\ orphaned' = IF k \in DOMAIN index THEN orphaned \cup {index[k]} ELSE orphaned
  BY DEF register_new_order, alloc_slot
<1>5. Len(slots') = Len(slots) /\ Positions' = Positions /\ slots' \in Seq(OrderRecord)
  BY <1>1, <1>2, <1>3, <1>4 DEF Positions
<1>6. /\ free_list' \in Seq(Positions) /\ Len(free_list') = Len(free_list) - 1
      /\ \A i \in 1..Len(free_list') : i \in 1..Len(free_list) /\ free_list'[i] = free_list[i]
  BY <1>2, <1>4, PopBack
<1>7. /\ DOMAIN index' = DOMAIN index \cup {k}
      /\ index'[k] = slot
      /\ \A j \in DOMAIN index : j # k => index'[j] = index[j]
      /\ index' \in [DOMAIN index' -> Positions]
  BY <1>2, <1>3, <1>4 DEF Put
<1>8. \A j \in DOMAIN index : index[j] # slot
  BY <1>3 DEF IInv, FreeSlotsUnused
<1>9. \A i \in 1..Len(free_list') : free_list'[i] # slot
  BY <1>3, <1>6 DEF IInv, FreeSlotsUnused
<1>10. slot \notin orphaned
  BY <1>3 DEF IInv, SlotsAccountedFor
<1>11. TypeOK'
  BY <1>2, <1>4, <1>5, <1>6, <1>7 DEF TypeOK
<1>12. NoSharedSlot'
  BY <1>7, <1>8 DEF NoSharedSlot, IInv
<1>13. FreeSlotsUnused'
  BY <1>3, <1>6, <1>7, <1>9 DEF FreeSlotsUnused, IInv
<1>14. SlotsAccountedFor'
  <2>1. ASSUME NEW p \in Positions
        PROVE  \/ \E j \in DOMAIN index' : index'[j] = p
               \/ \E i \in 1..Len(free_list') : free_list'[i] = p
               \/ p \in orphaned'
    <3>1. CASE p = slot
      BY <3>1, <1>7
    <3>2. CASE p # slot /\ \E j \in DOMAIN index : index[j] = p
      BY <3>2, <1>4, <1>7
    <3>3. CASE p # slot /\ \E i \in 1..Len(free_list) : free_list[i] = p
      <4>1. PICK i \in 1..Len(free_list) : free_list[i] = p
        BY <3>3
      <4>2. i # Len(free_list)
        BY <3>3, <4>1
      <4>3. i \in 1..Len(free_list')
        BY <1>3, <1>6, <4>2
      <4> QED
        BY <1>6, <4>1, <4>3
    <3>4. CASE p \in orphaned
      BY <3>4, <1>4
    <3> QED
      BY <3>1, <3>2, <3>3, <3>4 DEF IInv, SlotsAccountedFor
  <2>2. ASSUME NEW p \in orphaned'
        PROVE  /\ \A j \in DOMAIN index' : index'[j] # p
               /\ \A i \in 1..Len(free_list') : free_list'[i] # p
    <3>1. CASE p \in orphaned
      BY <3>1, <1>6, <1>7, <1>10 DEF IInv, SlotsAccountedFor
    <3>2. CASE p \notin orphaned
      <4>1. k \in DOMAIN index /\ p = index[k]
        BY <3>2, <1>4
      <4>2. \A j \in DOMAIN index' : index'[j] # p
        BY <4>1, <1>7, <1>8 DEF IInv, NoSharedSlot
      <4>3. \A i \in 1..Len(free_list') : free_list'[i] # p
        BY <4>1, <1>6 DEF IInv, FreeSlotsUnused
      <4> QED
        BY <4>2, <4>3
    <3> QED
      BY <3>1, <3>2
  <2> QED
    BY <1>5, <2>1, <2>2 DEF SlotsAccountedFor
<1> QED
  BY <1>11, <1>12, <1>13, <1>14 DEF IInv

(* Registering with an empty free list: the slot vector grows by one. *)
LEMMA RegisterGrow ==
    ASSUME IInv, NEW k \in Keys, NEW t \in Tickets,
           register_new_order(k, t), free_list = <<>>
    PROVE  IInv'
<1> DEFINE slot == Len(slots) + 1
           rec == NewOrder(t)
<1>1. rec \in OrderRecord
  BY NewOrderType, OmsAssumption
<1>2. /\ slots \in Seq(OrderRecord) /\ Len(slots) \in Nat
      /\ index \in [DOMAIN index -> Positions] /\ DOMAIN index \subseteq Keys
      /\ orphaned \subseteq Positions
  BY DEF IInv, TypeOK
<1>3. /\ slots' = Append(slots, rec) /\ free_list' = <<>>
      /\ index' = Put(index, k, slot)
      /\ orphaned' = IF k \in DOMAIN index THEN orphaned \cup {index[k]} ELSE orphaned
  BY DEF register_new_order, alloc_slot
<1>4. slots' \in Seq(OrderRecord) /\ Len(slots') = slot
  BY <1>1, <1>2, <1>3
<1>5. Positions' = Positions \cup {slot} /\ slot \notin Positions
  BY <1>2, <1>4 DEF Positions
<1>6. /\ DOMAIN index' = DOMAIN index \cup {k}
      /\ index'[k] = slot
      /\ \A j \in DOMAIN index : j # k => index'[j] = index[j]
      /\ index' \in [DOMAIN index' -> Positions']
  BY <1>2, <1>3, <1>5 DEF Put
<1>7. \A j \in DOMAIN index : index[j] \in Positions
  BY <1>2
<1>8. TypeOK'
  BY <1>2, <1>3, <1>4, <1>5, <1>6, <1>7 DEF TypeOK
<1>9. NoSharedSlot'
  BY <1>5, <1>6, <1>7 DEF NoSharedSlot, IInv
<1>10. FreeSlotsUnused'
  BY <1>3 DEF FreeSlotsUnused
<1>11. SlotsAccountedFor'
  <2>1. ASSUME NEW p \in Positions'
        PROVE  (\E j \in DOMAIN index' : index'[j] = p) \/ p \in orphaned'
    <3>1. CASE p = slot
      BY <3>1, <1>6
    <3>2. CASE p \in Positions /\ \E j \in DOMAIN index : index[j] = p
      BY <3>2, <1>3, <1>6
    <3>3. CASE p \in orphaned
      BY <3>3, <1>3
    <3> QED
      BY <3>1, <3>2, <3>3, <1>5 DEF IInv, SlotsAccountedFor
  <2>2. ASSUME NEW p \in orphaned'
        PROVE  \A j \in DOMAIN index' : index'[j] # p
    <3>1. CASE p \in orphaned
      BY <3>1, <1>2, <1>5, <1>6 DEF IInv, SlotsAccountedFor
    <3>2. CASE p \notin orphaned
      BY <3>2, <1>3, <1>5, <1>6, <1>7 DEF IInv, NoSharedSlot
    <3> QED
      BY <3>1, <3>2
  <2> QED
    BY <1>3, <2>1, <2>2 DEF SlotsAccountedFor
<1> QED
  BY <1>8, <1>9, <1>10, <1>11 DEF IInv

(* apply_update changes one record in place and keeps the invariant. *)
LEMMA UpdateIInv ==
    ASSUME IInv, NEW k \in Keys, NEW r \in Reports, apply_update(k, r)
    PROVE  /\ IInv'
           /\ \A p \in Positions : slots'[p].filled_qty >= slots[p].filled_qty
<1>1. /\ slots \in Seq(OrderRecord) /\ k \in DOMAIN index /\ index[k] \in Positions
      /\ slots' = [slots EXCEPT ![index[k]] = Applied(slots[index[k]], r)]
      /\ UNCHANGED <<index, free_list, orphaned>>
  BY DEF IInv, TypeOK, apply_update
<1>2. slots[index[k]] \in OrderRecord /\ r \in Report
  BY <1>1, OmsAssumption DEF Positions
<1>3. /\ Applied(slots[index[k]], r) \in OrderRecord
      /\ Applied(slots[index[k]], r).filled_qty >= slots[index[k]].filled_qty
  BY <1>2, AppliedType
<1>4. slots' \in Seq(OrderRecord) /\ Len(slots') = Len(slots) /\ Positions' = Positions
  BY <1>1, <1>3 DEF Positions
<1>5. \A p \in Positions : slots[p].filled_qty \in Nat
  <2>1. \A p \in Positions : slots[p] \in OrderRecord
    BY <1>1 DEF Positions
  <2> QED
    BY <2>1 DEF OrderRecord
<1>6. \A p \in Positions : slots'[p].filled_qty >= slots[p].filled_qty
  BY <1>1, <1>3, <1>5 DEF Positions
<1> QED
  BY <1>1, <1>4, <1>6 DEF IInv, TypeOK, NoSharedSlot, FreeSlotsUnused, SlotsAccountedFor

(* release moves a slot from the index to the free list. *)
LEMMA ReleaseIInv ==
    ASSUME IInv, NEW k \in Keys, release(k)
    PROVE  IInv'
<1> DEFINE p0 == index[k]
<1>1. /\ k \in DOMAIN index /\ p0 \in Positions /\ free_list \in Seq(Positions)
      /\ free_list' = Append(free_list, p0)
      /\ index' = Drop(index, k)
      /\ slots' = slots /\ orphaned' = orphaned /\ Positions' = Positions
  BY DEF IInv, TypeOK, release, Positions
<1>2. /\ free_list' \in Seq(Positions) /\ Len(free_list) \in Nat
      /\ Len(free_list') = Len(free_list) + 1
      /\ \A i \in 1..Len(free_list) : free_list'[i] = free_list[i]
      /\ free_list'[Len(free_list) + 1] = p0
  BY <1>1, AppendProperties
<1>3. /\ DOMAIN index' = DOMAIN index \ {k}
      /\ \A j \in DOMAIN index' : index'[j] = index[j]
  BY <1>1 DEF Drop
<1>4. \A j \in DOMAIN index' : index'[j] # p0
  BY <1>1, <1>3 DEF IInv, NoSharedSlot
<1>5. \A i \in 1..Len(free_list') : i = Len(free_list) + 1 \/ i \in 1..Len(free_list)
  BY <1>2
<1>6. TypeOK'
  <2>1. index' \in [DOMAIN index' -> Positions]
    BY <1>1, <1>3 DEF IInv, TypeOK, Drop
  <2> QED
    BY <2>1, <1>1, <1>2, <1>3 DEF IInv, TypeOK
<1>7. NoSharedSlot'
  BY <1>3 DEF IInv, NoSharedSlot
<1>8. FreeSlotsUnused'
  <2>1. \A i \in 1..Len(free_list) : free_list[i] # p0
    BY <1>1 DEF IInv, FreeSlotsUnused
  <2> QED
    BY <2>1, <1>2, <1>3, <1>4, <1>5 DEF IInv, FreeSlotsUnused
<1>9. SlotsAccountedFor'
  <2>1. ASSUME NEW p \in Positions
        PROVE  \/ \E j \in DOMAIN index' : index'[j] = p
               \/ \E i \in 1..Len(free_list') : free_list'[i] = p
               \/ p \in orphaned'
    <3>1. CASE p = p0
      BY <3>1, <1>2
    <3>2. CASE p # p0 /\ \E j \in DOMAIN index : index[j] = p
      BY <3>2, <1>3
    <3>3. CASE \E i \in 1..Len(free_list) : free_list[i] = p
      BY <3>3, <1>2
    <3> QED
      BY <3>1, <3>2, <3>3, <1>1 DEF IInv, SlotsAccountedFor
  <2>2. p0 \notin orphaned
    BY <1>1 DEF IInv, SlotsAccountedFor
  <2>3. ASSUME NEW p \in orphaned
        PROVE  /\ \A j \in DOMAIN index' : index'[j] # p
               /\ \A i \in 1..Len(free_list') : free_list'[i] # p
    BY <2>2, <1>2, <1>3, <1>5 DEF IInv, SlotsAccountedFor
  <2> QED
    BY <1>1, <2>1, <2>3 DEF SlotsAccountedFor
<1> QED
  BY <1>6, <1>7, <1>8, <1>9 DEF IInv

(* Every operation of the OMS keeps the inductive invariant. *)
LEMMA NextIInv == IInv /\ [Next]_vars => IInv'
<1> SUFFICES ASSUME IInv, [Next]_vars PROVE IInv'
  OBVIOUS
<1>1. ASSUME NEW k \in Keys, NEW t \in Tickets, register_new_order(k, t)
      PROVE  IInv'
  BY <1>1, RegisterReuse, RegisterGrow
<1>2. ASSUME NEW k \in Keys, NEW r \in Reports, apply_update(k, r)
      PROVE  IInv'
  BY <1>2, UpdateIInv
<1>3. ASSUME NEW k \in Keys, release(k)
      PROVE  IInv'
  BY <1>3, ReleaseIInv
<1>4. CASE UNCHANGED vars
  BY <1>4 DEF vars, IInv, TypeOK, NoSharedSlot, FreeSlotsUnused, SlotsAccountedFor, Positions
<1> QED
  BY <1>1, <1>2, <1>3, <1>4 DEF Next

(* The slot store of OMSCore is consistent after any history of register,  *)
(* update and release calls, key collisions included: typing, no slot      *)
(* shared by two orders, no free slot in use, no slot unaccounted for.     *)
THEOREM SlotStoreCorrect ==
    Spec => [](TypeOK /\ NoSharedSlot /\ FreeSlotsUnused /\ SlotsAccountedFor)
<1>1. Spec => []IInv
  BY InitIInv, NextIInv, PTL DEF Spec
<1>2. IInv => TypeOK /\ NoSharedSlot /\ FreeSlotsUnused /\ SlotsAccountedFor
  BY DEF IInv
<1> QED
  BY <1>1, <1>2, PTL

(* A slot on the free list belongs to no order, so reusing it overwrites   *)
(* nobody's record.                                                        *)
THEOREM FreeListSafe == Spec => []FreeSlotsUnused
BY SlotStoreCorrect, PTL

(* Every slot is in use, free or orphaned by a key collision: none is lost *)
(* and none counted twice.                                                 *)
THEOREM NoSlotLost == Spec => []SlotsAccountedFor
BY SlotStoreCorrect, PTL

-----------------------------------------------------------------------------
(* What a registration does to the map: k is bound to the new record and   *)
(* no other order's record changes, because the slot taken was not in use. *)
LEMMA RegisterEffect ==
    ASSUME IInv, NEW k \in Keys, NEW t \in Tickets, register_new_order(k, t)
    PROVE  /\ DOMAIN index' = DOMAIN index \cup {k}
           /\ slots'[index'[k]] = NewOrder(t)
           /\ k \in DOMAIN index => index'[k] # index[k]
           /\ \A j \in DOMAIN index : j # k => /\ index'[j] = index[j]
                                              /\ slots'[index[j]] = slots[index[j]]
<1>1. /\ slots \in Seq(OrderRecord) /\ Len(slots) \in Nat /\ free_list \in Seq(Positions)
      /\ \A j \in DOMAIN index : index[j] \in 1..Len(slots)
      /\ index' = Put(index, k, alloc_slot)
  BY DEF IInv, TypeOK, Positions, register_new_order
<1>2. /\ DOMAIN index' = DOMAIN index \cup {k} /\ index'[k] = alloc_slot
      /\ \A j \in DOMAIN index : j # k => index'[j] = index[j]
  BY <1>1 DEF Put
<1>3. CASE free_list # <<>>
  <2>1. /\ Len(free_list) \in 1..Len(free_list)
        /\ alloc_slot = free_list[Len(free_list)] /\ alloc_slot \in 1..Len(slots)
        /\ slots' = [slots EXCEPT ![alloc_slot] = NewOrder(t)]
    BY <1>1, <1>3 DEF alloc_slot, register_new_order, Positions
  <2>2. \A j \in DOMAIN index : index[j] # alloc_slot
    BY <2>1 DEF IInv, FreeSlotsUnused
  <2> QED
    BY <1>1, <1>2, <2>1, <2>2
<1>4. CASE free_list = <<>>
  <2>1. alloc_slot = Len(slots) + 1 /\ slots' = Append(slots, NewOrder(t))
    BY <1>4 DEF alloc_slot, register_new_order
  <2>2. NewOrder(t) \in OrderRecord
    BY NewOrderType, OmsAssumption
  <2>3. /\ slots'[Len(slots) + 1] = NewOrder(t)
        /\ \A i \in 1..Len(slots) : slots'[i] = slots[i]
    BY <1>1, <2>1, <2>2, AppendProperties
  <2>4. \A j \in DOMAIN index : index[j] # Len(slots) + 1
    BY <1>1
  <2> QED
    BY <1>1, <1>2, <2>1, <2>3, <2>4
<1> QED
  BY <1>3, <1>4

(* The filled quantity of an order that stays tracked never goes back.     *)
THEOREM FilledMonotone == Spec => FilledNeverShrinks
<1> DEFINE Step == \A k \in DOMAIN index \cap DOMAIN index' :
                      index'[k] = index[k] =>
                          slots'[index[k]].filled_qty >= slots[index[k]].filled_qty
<1>1. ASSUME IInv, Next PROVE Step
  <2>0. \A k \in DOMAIN index : index[k] \in Positions /\ slots[index[k]].filled_qty \in Nat
    <3>1. \A k \in DOMAIN index : index[k] \in Positions /\ slots[index[k]] \in OrderRecord
      BY <1>1 DEF IInv, TypeOK, Positions
    <3> QED
      BY <3>1 DEF OrderRecord
  <2>1. ASSUME NEW k \in Keys, NEW t \in Tickets, register_new_order(k, t)
        PROVE  Step
    <3>1. \A j \in DOMAIN index \cap DOMAIN index' :
             index'[j] = index[j] => slots'[index[j]] = slots[index[j]]
      BY <1>1, <2>1, RegisterEffect
    <3>2. \A j \in DOMAIN index : slots[index[j]].filled_qty >= slots[index[j]].filled_qty
      BY <2>0
    <3> QED
      BY <3>1, <3>2
  <2>2. ASSUME NEW k \in Keys, NEW r \in Reports, apply_update(k, r)
        PROVE  Step
    <3>1. \A p \in Positions : slots'[p].filled_qty >= slots[p].filled_qty
      BY <1>1, <2>2, UpdateIInv
    <3> QED
      BY <2>0, <3>1
  <2>3. ASSUME NEW k \in Keys, release(k)
        PROVE  Step
    BY <2>0, <2>3 DEF release
  <2> QED
    BY <1>1, <2>1, <2>2, <2>3 DEF Next
<1>2. IInv /\ [Next]_vars => [Step]_vars
  BY <1>1
<1>3. Spec => []IInv
  BY InitIInv, NextIInv, PTL DEF Spec
<1> QED
  BY <1>2, <1>3, PTL DEF Spec, FilledNeverShrinks

(* OMSCore implements the order map: slots, index and free list behave,    *)
(* whatever the calls, like one map from keys to records.                  *)
THEOREM Refinement == Spec => ImplementsOrderMap
<1> DEFINE m == [k \in DOMAIN index |-> slots[index[k]]]
<1>1. Init => Map!MapInit
  BY DEF Init, Map!MapInit, Map!Empty
<1>2. ASSUME IInv, [Next]_vars PROVE [Map!MapNext]_m
  <2>1. ASSUME NEW k \in Keys, NEW t \in Tickets, register_new_order(k, t)
        PROVE  Map!MapNext
    <3>1. m' = [j \in DOMAIN m \cup {k} |-> IF j = k THEN NewOrder(t) ELSE m[j]]
      BY <1>2, <2>1, RegisterEffect
    <3>2. Map!RegisterOrder(k, t)
      BY <3>1 DEF Map!RegisterOrder, Map!Put, Map!NewOrder, NewOrder
    <3> QED
      BY <3>2 DEF Map!MapNext
  <2>2. ASSUME NEW k \in Keys, NEW r \in Reports, apply_update(k, r)
        PROVE  Map!MapNext
    <3>1. /\ k \in DOMAIN index /\ index' = index
          /\ slots' = [slots EXCEPT ![index[k]] = Applied(slots[index[k]], r)]
          /\ \A j \in DOMAIN index : index[j] \in DOMAIN slots
      BY <1>2, <2>2 DEF apply_update, IInv, TypeOK, Positions
    <3>2. \A j \in DOMAIN index : j # k => index[j] # index[k]
      BY <1>2, <3>1 DEF IInv, NoSharedSlot
    <3>3. m' = [j \in DOMAIN m \cup {k} |-> IF j = k THEN Applied(m[k], r) ELSE m[j]]
      BY <3>1, <3>2
    <3>4. Map!UpdateOrder(k, r)
      BY <3>1, <3>3 DEF Map!UpdateOrder, Map!Put, Map!Applied, Applied, Map!Blend, Blend
    <3> QED
      BY <3>4 DEF Map!MapNext
  <2>3. ASSUME NEW k \in Keys, release(k)
        PROVE  Map!MapNext
    <3>1. k \in DOMAIN m /\ m' = [j \in DOMAIN m \ {k} |-> m[j]]
      BY <2>3 DEF release, Drop
    <3>2. Map!ReleaseOrder(k)
      BY <3>1 DEF Map!ReleaseOrder, Map!Drop
    <3> QED
      BY <3>2 DEF Map!MapNext
  <2>4. CASE UNCHANGED vars
    BY <2>4 DEF vars
  <2> QED
    BY <1>2, <2>1, <2>2, <2>3, <2>4 DEF Next
<1>3. Spec => []IInv
  BY InitIInv, NextIInv, PTL DEF Spec
<1> QED
  BY <1>1, <1>2, <1>3, PTL DEF Spec, ImplementsOrderMap, Map!MapSpec
=============================================================================
