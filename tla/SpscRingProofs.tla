--------------------------- MODULE SpscRingProofs ---------------------------
(***************************************************************************)
(* For every capacity: the two threads of SpscRing never touch one slot    *)
(* together, and the ring is a bounded FIFO queue.                         *)
(*                                                                         *)
(* The index a thread tested may have moved before the thread acts, so the *)
(* invariant says what stays true of a passed test: while the producer     *)
(* writes, the ring is still not full, and while the consumer reads, it is *)
(* still not empty.  Each rests on the other.                              *)
(***************************************************************************)
EXTENDS SpscRing, Integers, Sequences, SequenceTheorems, TLAPS

RoomKept == ppc \in {"write", "publish"} => next_index(head) # tail

ItemKept == cpc \in {"read", "free"} => head # tail

SlotWritten == /\ ppc # "idle" => item \in Items
               /\ ppc = "publish" => slots[head] = item

IInv == TypeOK /\ RoomKept /\ ItemKept /\ SlotWritten

(* Index arithmetic below twice the capacity. *)
LEMMA ModSmall ==
    \A a \in Nat : a < Capacity + Capacity =>
        a % Capacity = IF a < Capacity THEN a ELSE a - Capacity
  BY RingAssumption, SMT

(* (i + 1U) & mask_ is the next slot around the ring. *)
LEMMA NextIndex ==
    ASSUME NEW i \in Index
    PROVE  /\ next_index(i) = IF i + 1 = Capacity THEN 0 ELSE i + 1
           /\ next_index(i) \in Index
  BY RingAssumption, SMT DEF next_index, Index

(* No two slots have the same successor. *)
LEMMA NextInjective ==
    ASSUME NEW i \in Index, NEW j \in Index, next_index(i) = next_index(j)
    PROVE  i = j
  BY RingAssumption, NextIndex, SMT DEF Index

(* The constructed ring satisfies the inductive invariant. *)
LEMMA InitIInv == Init => IInv
  BY RingAssumption, SMT DEF Init, IInv, TypeOK, RoomKept, ItemKept, SlotWritten, Index

(* Every step of either thread keeps it. *)
LEMMA NextIInv == IInv /\ [Next]_vars => IInv'
<1> SUFFICES ASSUME IInv, [Next]_vars PROVE IInv'
  OBVIOUS
<1> USE DEF IInv, TypeOK, RoomKept, ItemKept, SlotWritten
<1>0. /\ head \in Index /\ tail \in Index
      /\ next_index(head) \in Index /\ next_index(tail) \in Index
  BY NextIndex
<1>1. ASSUME NEW v \in Items, Produce(v) PROVE IInv'
  BY <1>1 DEF Produce
<1>2. CASE PushCheck
  BY <1>2 DEF PushCheck, full
<1>3. CASE PushWrite
  BY <1>3, <1>0 DEF PushWrite
<1>4. CASE PushPublish
  BY <1>4, <1>0 DEF PushPublish
<1>5. CASE PopCheck
  BY <1>5 DEF PopCheck, empty
<1>6. CASE PopRead
  BY <1>6, <1>0 DEF PopRead
<1>7. CASE PopFree
  BY <1>7, <1>0, NextInjective DEF PopFree
<1>8. CASE UNCHANGED vars
  BY <1>8 DEF vars
<1> QED
  BY <1>1, <1>2, <1>3, <1>4, <1>5, <1>6, <1>7, <1>8 DEF Next, TryPush, TryPop

(* No two threads in one slot: the updates that go through the ring are    *)
(* never torn, for any capacity and any schedule of the two threads.       *)
THEOREM RingSafe == Spec => [](TypeOK /\ NoSlotRace)
<1>1. IInv => TypeOK /\ NoSlotRace
  BY DEF IInv, ItemKept, NoSlotRace
<1> QED
  BY <1>1, InitIInv, NextIInv, PTL DEF Spec

-----------------------------------------------------------------------------
(* The queue the ring holds, from the oldest item o to head h.             *)

Distance(o, h) == IF h >= o THEN h - o ELSE h + Capacity - o

Around(s, o, n) == [i \in 1..n |-> s[(o + i - 1) % Capacity]]

(* Distance is the number of steps from o to h around the ring. *)
LEMMA DistanceType ==
    ASSUME NEW o \in Index, NEW h \in Index
    PROVE  /\ Distance(o, h) \in 0..(Capacity - 1)
           /\ Distance(o, h) = 0 <=> o = h
  BY RingAssumption, SMT DEF Distance, Index

(* The i-th item is in a slot, and not in the one the producer fills. *)
LEMMA ItemSlot ==
    ASSUME NEW o \in Index, NEW h \in Index, NEW i \in 1..Distance(o, h)
    PROVE  (o + i - 1) % Capacity \in Index \ {h}
<1> DEFINE a == o + i - 1
<1>1. a \in Nat /\ a < Capacity + Capacity
  BY RingAssumption, DistanceType, SMT DEF Index
<1>2. a % Capacity = IF a < Capacity THEN a ELSE a - Capacity
  <2> HIDE DEF a
  <2> QED
    BY <1>1, ModSmall
<1>3. (IF a < Capacity THEN a ELSE a - Capacity) \in Index \ {h}
  <2>1. CASE h >= o
    BY <2>1, RingAssumption, SMT DEF Distance, Index
  <2>2. CASE ~(h >= o)
    BY <2>2, RingAssumption, SMT DEF Distance, Index
  <2> QED
    BY <2>1, <2>2
<1>4. a % Capacity \in Index \ {h}
  <2> HIDE DEF a
  <2> QED
    BY <1>2, <1>3
<1> QED
  BY <1>4

(* Publishing one more item appends it. *)
LEMMA Grow ==
    ASSUME NEW s \in [Index -> Items \cup {NoItem}],
           NEW o \in Index, NEW h \in Index, next_index(h) # o
    PROVE  /\ Distance(o, next_index(h)) = Distance(o, h) + 1
           /\ Distance(o, h) < Capacity - 1
           /\ Around(s, o, Distance(o, next_index(h)))
                = Append(Around(s, o, Distance(o, h)), s[h])
<1> DEFINE n == Distance(o, h)
<1>1. n \in Nat /\ n < Capacity - 1 /\ Distance(o, next_index(h)) = n + 1
  <2>1. next_index(h) = IF h + 1 = Capacity THEN 0 ELSE h + 1
    BY NextIndex
  <2> QED
    BY <2>1, RingAssumption, SMT DEF Distance, Index
<1>2. (o + (n + 1) - 1) % Capacity = h
  <2> DEFINE a == o + n
  <2>1. a \in Nat /\ a < Capacity + Capacity
    BY <1>1, RingAssumption, SMT DEF Index
  <2>2. a % Capacity = IF a < Capacity THEN a ELSE a - Capacity
    <3> HIDE DEF a
    <3> QED
      BY <2>1, ModSmall
  <2>3. (IF a < Capacity THEN a ELSE a - Capacity) = h
    BY RingAssumption, SMT DEF Distance, Index
  <2>4. o + (n + 1) - 1 = a
    BY <1>1, SMT DEF Index
  <2> HIDE DEF a, n
  <2> QED
    BY <2>2, <2>3, <2>4
<1>3. \A i \in 1..n : (o + i - 1) % Capacity \in Index
  BY ItemSlot
<1>4. Around(s, o, n) \in Seq(Items \cup {NoItem}) /\ Len(Around(s, o, n)) = n
  BY <1>1, <1>3, SMT DEF Around
<1> HIDE DEF n
<1>5. Around(s, o, n + 1) = Append(Around(s, o, n), s[h])
  BY <1>1, <1>2, <1>4, SMT DEF Around
<1> QED
  BY <1>1, <1>5 DEF n

(* Taking the oldest item leaves the rest. *)
LEMMA Shrink ==
    ASSUME NEW s \in [Index -> Items \cup {NoItem}],
           NEW o \in Index, NEW h \in Index, o # h
    PROVE  /\ Around(s, o, Distance(o, h)) # <<>>
           /\ Head(Around(s, o, Distance(o, h))) = s[o]
           /\ Around(s, next_index(o), Distance(next_index(o), h))
                = Tail(Around(s, o, Distance(o, h)))
<1> DEFINE n == Distance(o, h)
<1>1. n \in Nat /\ n > 0 /\ Distance(next_index(o), h) = n - 1
  <2>1. next_index(o) = IF o + 1 = Capacity THEN 0 ELSE o + 1
    BY NextIndex
  <2> QED
    BY <2>1, RingAssumption, SMT DEF Distance, Index
<1>2. \A i \in 1..n : (o + i - 1) % Capacity \in Index
  BY ItemSlot
<1>3. \A i \in 1..(n - 1) : (next_index(o) + i - 1) % Capacity = (o + (i + 1) - 1) % Capacity
  <2> SUFFICES ASSUME NEW i \in 1..(n - 1)
               PROVE  (next_index(o) + i - 1) % Capacity = (o + (i + 1) - 1) % Capacity
    OBVIOUS
  <2>1. n <= Capacity - 1
    BY DistanceType, RingAssumption, SMT DEF Index
  <2> HIDE DEF n
  <2> DEFINE a == o + i
  <2>2. a \in Nat /\ a < Capacity + Capacity /\ o + (i + 1) - 1 = a
    BY <1>1, <2>1, RingAssumption, SMT DEF Index
  <2>3. a % Capacity = IF a < Capacity THEN a ELSE a - Capacity
    <3> HIDE DEF a
    <3> QED
      BY <2>2, ModSmall
  <2>4. next_index(o) = IF o + 1 = Capacity THEN 0 ELSE o + 1
    BY NextIndex
  <2>5. CASE o + 1 = Capacity
    <3>1. /\ next_index(o) + i - 1 = i - 1
          /\ i - 1 \in Nat /\ i - 1 < Capacity /\ i - 1 < Capacity + Capacity
          /\ a - Capacity = i - 1 /\ ~(a < Capacity)
      BY <2>5, <2>4, <1>1, <2>1, RingAssumption, SMT DEF Index
    <3>2. (i - 1) % Capacity = i - 1
      BY <3>1, ModSmall
    <3> HIDE DEF a
    <3>3. a % Capacity = i - 1
      BY <3>1, <2>3
    <3> QED
      BY <3>1, <3>2, <3>3, <2>2
  <2>6. CASE o + 1 # Capacity
    <3>1. next_index(o) + i - 1 = o + i
      BY <2>6, <2>4, SMT DEF Index
    <3> QED
      BY <3>1, <2>2
  <2> QED
    BY <2>5, <2>6
<1>4. (o + 1 - 1) % Capacity = o
  <2>1. o \in Nat /\ o < Capacity /\ o < Capacity + Capacity /\ o + 1 - 1 = o
    BY RingAssumption, SMT DEF Index
  <2> QED
    BY <2>1, ModSmall
<1>5. Around(s, o, n) \in Seq(Items \cup {NoItem}) /\ Len(Around(s, o, n)) = n
  BY <1>1, <1>2, SMT DEF Around
<1> HIDE DEF n
<1>6. Around(s, o, n) # <<>> /\ Head(Around(s, o, n)) = s[o]
  <2>1. 1 \in 1..n
    BY <1>1
  <2>2. Around(s, o, n)[1] = s[o]
    BY <2>1, <1>4, Zenon DEF Around
  <2> QED
    BY <1>1, <1>5, <2>2
<1>7. Around(s, next_index(o), n - 1) = Tail(Around(s, o, n))
  BY <1>1, <1>3, <1>5, SMT DEF Around
<1> QED
  BY <1>1, <1>6, <1>7 DEF n

(* The state function of the refinement in the terms above. *)
LEMMA ContentsAround ==
    Contents = Around(slots, Oldest, Distance(Oldest, head))
  BY DEF Contents, Count, Around, Distance

(* Oldest is a slot, and the producer that publishes never reaches it. *)
LEMMA OldestType ==
    ASSUME IInv
    PROVE  /\ Oldest \in Index
           /\ ppc = "publish" => next_index(head) # Oldest
  BY NextIndex, NextInjective, SMT
     DEF IInv, TypeOK, RoomKept, ItemKept, Oldest

(* Writing the slot at head_ does not change the queue. *)
LEMMA WriteInvisible ==
    ASSUME IInv, PushWrite
    PROVE  Contents' = Contents
<1>1. /\ Oldest' = Oldest /\ Count' = Count /\ Count = Distance(Oldest, head)
      /\ slots' = [slots EXCEPT ![head] = item]
  BY DEF PushWrite, Oldest, Count, Distance
<1>2. \A i \in 1..Count : (Oldest + i - 1) % Capacity \in Index \ {head}
  BY <1>1, ItemSlot, OldestType DEF IInv, TypeOK
<1>3. \A i \in 1..Count : slots'[(Oldest + i - 1) % Capacity]
                           = slots[(Oldest + i - 1) % Capacity]
  BY <1>1, <1>2 DEF IInv, TypeOK
<1> QED
  BY <1>1, <1>3, Zenon DEF Contents

(* Every step of the ring is a step of the queue or leaves it unchanged. *)
LEMMA StepRefines ==
    ASSUME IInv, [Next]_vars
    PROVE  [Fifo!FifoNext]_<<Contents, out>>
<1> USE DEF IInv, TypeOK
<1>0. Oldest \in Index
  BY OldestType
<1>1. ASSUME NEW v \in Items, Produce(v)
      PROVE  UNCHANGED <<Contents, out>>
  BY <1>1 DEF Produce, Contents, Oldest, Count
<1>2. CASE PushCheck
  BY <1>2 DEF PushCheck, Contents, Oldest, Count
<1>3. CASE PushWrite
  BY <1>3, WriteInvisible DEF PushWrite
<1>4. CASE PushPublish
  <2>1. /\ Oldest' = Oldest /\ slots' = slots /\ head' = next_index(head)
        /\ out' = out /\ slots[head] = item /\ item \in Items
        /\ next_index(head) # Oldest
    BY <1>4, OldestType DEF PushPublish, Oldest, SlotWritten
  <2>2. /\ Distance(Oldest, head) < Capacity - 1
        /\ Around(slots, Oldest, Distance(Oldest, next_index(head)))
             = Append(Around(slots, Oldest, Distance(Oldest, head)), slots[head])
    BY <1>0, <2>1, Grow
  <2>3. Contents' = Append(Contents, item)
    BY <2>1, <2>2, ContentsAround DEF Contents, Count, Around, Distance
  <2>4. Len(Contents) = Distance(Oldest, head)
    BY <1>0, DistanceType, ContentsAround DEF Around
  <2>5. Fifo!Push(item)
    BY <2>1, <2>2, <2>3, <2>4 DEF Fifo!Push
  <2> QED
    BY <2>1, <2>5 DEF Fifo!FifoNext
<1>5. CASE PopCheck
  BY <1>5 DEF PopCheck, Contents, Oldest, Count
<1>6. CASE PopRead
  <2>1. /\ Oldest = tail /\ Oldest' = next_index(tail) /\ slots' = slots
        /\ head' = head /\ out' = slots[tail] /\ tail # head
    BY <1>6 DEF PopRead, Oldest, ItemKept
  <2>2. /\ Contents # <<>> /\ Head(Contents) = slots[tail]
        /\ Around(slots, next_index(tail), Distance(next_index(tail), head)) = Tail(Contents)
    BY <2>1, Shrink, ContentsAround
  <2>3. Contents' = Tail(Contents)
    BY <2>1, <2>2 DEF Contents, Count, Around, Distance
  <2> QED
    BY <2>1, <2>2, <2>3 DEF Fifo!FifoNext, Fifo!Pop
<1>7. CASE PopFree
  <2>1. /\ Oldest' = Oldest /\ slots' = slots /\ head' = head /\ out' = out
    BY <1>7 DEF PopFree, Oldest
  <2> QED
    BY <2>1 DEF Contents, Count
<1>8. CASE UNCHANGED vars
  BY <1>8 DEF vars, Contents, Oldest, Count
<1> QED
  BY <1>1, <1>2, <1>3, <1>4, <1>5, <1>6, <1>7, <1>8 DEF Next, TryPush, TryPop

(* The ring is a FIFO queue of Capacity - 1 items, for every capacity:     *)
(* try_push and try_pop behave as if each were one atomic step.            *)
THEOREM RingRefinement == Spec => ImplementsFifo
<1>1. Init => Fifo!FifoInit
  <2> SUFFICES ASSUME Init PROVE Fifo!FifoInit
    OBVIOUS
  <2>1. Count = 0
    BY DEF Init, Count, Oldest
  <2> QED
    BY <2>1 DEF Init, Contents, Fifo!FifoInit
<1>2. IInv /\ [Next]_vars => [Fifo!FifoNext]_<<Contents, out>>
  BY StepRefines
<1> QED
  BY <1>1, <1>2, InitIInv, NextIInv, PTL DEF Spec, ImplementsFifo, Fifo!FifoSpec
=============================================================================
