-------------------------- MODULE OrderEntryProofs --------------------------
(***************************************************************************)
(* The order path for any number of orders, lost connections and stream    *)
(* gaps.  The argument follows one request: message ids grow from the      *)
(* answers through the wire and the queue to the posted handlers, so a     *)
(* request that has been answered is nowhere else on this connection, and  *)
(* one that comes back after a loss is not in pending_ any more.           *)
(* The last part follows one order: what the exchange has, what the stream *)
(* still says about it, and what the OMS has recorded.                     *)
(***************************************************************************)
EXTENDS OrderEntry, SequenceTheorems, TLAPS

(* The requests or answers in s, their order, and ids below other ids. *)
Elems(s) == {s[i] : i \in 1 .. Len(s)}

Sorted(s) == \A i, j \in 1 .. Len(s) : i < j => s[i].id < s[j].id

Below(A, B) == \A a \in A, b \in B : a.id < b.id

WriterInv ==
    /\ connected => session
    /\ WriterNeverStalls
    /\ ~session => wire = <<>> /\ acks = <<>>

(* The part of the queue that is still to be written on this connection,   *)
(* the requests anywhere, and those the exchange has yet to see.           *)
Rest == IF writing /\ session THEN Elems(Tail(queue)) ELSE Elems(queue)
All == Elems(posted) \cup Elems(queue) \cup Elems(wire)
Unsent == Elems(posted) \cup Rest \cup Elems(wire)

OrderInv ==
    /\ Sorted(posted) /\ Sorted(queue) /\ Sorted(wire)
    /\ Below(Elems(queue), Elems(posted))
    /\ Below(Elems(wire), Rest) /\ Below(Elems(wire), Elems(posted))
    /\ Below(Elems(acks), Unsent)
    /\ \A r \in All : r.id <= msg_id
    /\ \A a \in Elems(acks) : a.id <= msg_id
    /\ writing /\ session /\ wire # <<>> => wire[Len(wire)] = Head(queue)

Places(r) == r.method = "order.place"

UniqueInv ==
    /\ \A r \in All : Places(r) => r.cid \in used
    /\ \A r, q \in All : Places(r) /\ Places(q) /\ r.cid = q.cid => r.id = q.id
    /\ \A r \in All : r.id \in DOMAIN pending => Places(r) /\ pending[r.id] = r.cid
    /\ \A r \in All : \A i \in DOMAIN pending : Places(r) /\ r.cid = pending[i] => r.id = i
    /\ \A i \in DOMAIN pending : i \in 1 .. msg_id /\ pending[i] \in used

CopyInv ==
    /\ DOMAIN exch \subseteq used
    /\ RepeatsNeedLoss
    /\ \A r \in Unsent : Places(r) /\ r.cid \in DOMAIN exch => exch[r.cid].copies <= losses
    /\ \A r \in Unsent : r.id \in DOMAIN pending => r.cid \notin DOMAIN exch
    /\ \A a \in Elems(acks) :
           a.id \in DOMAIN pending /\ ~a.ok => pending[a.id] \notin DOMAIN exch

IInv == TypeOK /\ WriterInv /\ OrderInv /\ UniqueInv /\ CopyInv

-----------------------------------------------------------------------------
(* Sequences and their elements. *)

(* The messages of a queue after one more is posted. *)
LEMMA ElemsAppend ==
    ASSUME NEW S, NEW s \in Seq(S), NEW e \in S
    PROVE  /\ Append(s, e) \in Seq(S) /\ Append(s, e) # <<>>
           /\ Elems(Append(s, e)) = Elems(s) \cup {e}
           /\ Append(s, e)[Len(Append(s, e))] = e
           /\ Head(Append(s, e)) = IF s = <<>> THEN e ELSE Head(s)
           /\ Tail(Append(s, e)) = IF s = <<>> THEN <<>> ELSE Append(Tail(s), e)
  <1> DEFINE t == Append(s, e)
  <1>1. t \in Seq(S) /\ Len(t) = Len(s) + 1 /\ Len(s) \in Nat /\ t[Len(s) + 1] = e
    OBVIOUS
  <1>2. \A i \in 1 .. Len(s) : t[i] = s[i]
    OBVIOUS
  <1>3. Elems(t) = Elems(s) \cup {e}
    BY <1>1, <1>2 DEF Elems
  <1>4. Head(t) = IF s = <<>> THEN e ELSE Head(s)
    BY <1>1, <1>2
  <1>5. Tail(t) = IF s = <<>> THEN <<>> ELSE Append(Tail(s), e)
    OBVIOUS
  <1> QED
    BY <1>1, <1>3, <1>4, <1>5

(* The part of ElemsAppend most steps need. *)
LEMMA AppendElems ==
    ASSUME NEW S, NEW s \in Seq(S), NEW e \in S
    PROVE  Elems(Append(s, e)) = Elems(s) \cup {e}
  BY ElemsAppend

(* A queue is its head and its tail, and they end with the same message. *)
LEMMA ElemsTail ==
    ASSUME NEW S, NEW s \in Seq(S), s # <<>>
    PROVE  /\ Head(s) \in S /\ Tail(s) \in Seq(S)
           /\ Elems(s) = {Head(s)} \cup Elems(Tail(s))
           /\ Tail(s) # <<>> => Tail(s)[Len(Tail(s))] = s[Len(s)]
  <1>1. Len(s) \in Nat /\ Len(s) > 0 /\ Len(Tail(s)) = Len(s) - 1 /\ Head(s) = s[1]
    OBVIOUS
  <1>2. \A i \in 1 .. Len(s) - 1 : Tail(s)[i] = s[i + 1]
    OBVIOUS
  <1>3. Elems(s) \subseteq {Head(s)} \cup Elems(Tail(s))
    <2> SUFFICES ASSUME NEW i \in 1 .. Len(s), i # 1 PROVE s[i] \in Elems(Tail(s))
      BY <1>1 DEF Elems
    <2>1. i - 1 \in 1 .. Len(s) - 1 /\ Tail(s)[i - 1] = s[i]
      BY <1>1, <1>2
    <2> QED
      BY <2>1, <1>1 DEF Elems
  <1>4. {Head(s)} \cup Elems(Tail(s)) \subseteq Elems(s)
    BY <1>1, <1>2 DEF Elems
  <1>5. Head(s) \in S /\ Tail(s) \in Seq(S)
    BY <1>1
  <1>6. Tail(s) # <<>> => Tail(s)[Len(Tail(s))] = s[Len(s)]
    <2>1. ASSUME Tail(s) # <<>> PROVE Len(s) - 1 \in 1 .. Len(s) - 1
      BY <2>1, <1>1, <1>5
    <2> QED
      BY <2>1, <1>1, <1>2
  <1> QED
    BY <1>3, <1>4, <1>5, <1>6

(* A sorted queue without its last message, and that message above the rest. *)
LEMMA ElemsFront ==
    ASSUME NEW S, NEW s \in Seq(S), s # <<>>, Sorted(s)
    PROVE  LET f == SubSeq(s, 1, Len(s) - 1)
           IN  /\ f \in Seq(S) /\ Sorted(f)
               /\ Elems(s) = Elems(f) \cup {s[Len(s)]}
               /\ Below(Elems(f), {s[Len(s)]})
  <1> DEFINE f == SubSeq(s, 1, Len(s) - 1)
  <1>1. Len(s) \in Nat /\ Len(s) > 0
    OBVIOUS
  <1>2. f \in Seq(S) /\ Len(f) = Len(s) - 1 /\ \A i \in 1 .. Len(s) - 1 : f[i] = s[i]
    <2>1. \A i \in 1 .. Len(s) - 1 : s[i] \in S
      BY <1>1
    <2>2. PICK n \in Nat : n = Len(s) - 1
      BY <1>1
    <2>3. SubSeq(s, 1, n) \in Seq(S) /\ Len(SubSeq(s, 1, n)) = n
      BY <2>1, <2>2, SubSeqProperties
    <2>4. \A i \in 1 .. n : SubSeq(s, 1, n)[i] = s[i]
      BY <2>1, <2>2, SubSeqProperties
    <2> QED
      BY <2>2, <2>3, <2>4
  <1> HIDE DEF f
  <1>3. Elems(s) = Elems(f) \cup {s[Len(s)]}
    BY <1>1, <1>2 DEF Elems
  <1>4. Sorted(f)
    BY <1>1, <1>2 DEF Sorted
  <1>5. Below(Elems(f), {s[Len(s)]})
    BY <1>1, <1>2 DEF Elems, Sorted, Below
  <1> QED
    BY <1>2, <1>3, <1>4, <1>5 DEF f

(* A message with a higher id than all before it keeps the queue sorted. *)
LEMMA SortedAppend ==
    ASSUME NEW S, NEW s \in Seq(S), NEW e \in S, Sorted(s), Below(Elems(s), {e})
    PROVE  Sorted(Append(s, e))
  <1>1. Len(Append(s, e)) = Len(s) + 1 /\ Len(s) \in Nat /\ Append(s, e)[Len(s) + 1] = e
        /\ \A i \in 1 .. Len(s) : Append(s, e)[i] = s[i]
    OBVIOUS
  <1> QED
    BY <1>1 DEF Sorted, Below, Elems

(* The tail of a sorted queue is sorted, and above its head. *)
LEMMA SortedTail ==
    ASSUME NEW S, NEW s \in Seq(S), s # <<>>, Sorted(s)
    PROVE  Sorted(Tail(s)) /\ Below({Head(s)}, Elems(Tail(s)))
  <1>1. Len(s) \in Nat /\ Len(s) > 0 /\ Len(Tail(s)) = Len(s) - 1 /\ Head(s) = s[1]
    OBVIOUS
  <1>2. \A i \in 1 .. Len(s) - 1 : Tail(s)[i] = s[i + 1]
    OBVIOUS
  <1> QED
    BY <1>1, <1>2 DEF Sorted, Below, Elems

(* The messages of a queue have the type of its elements. *)
LEMMA ElemsType == ASSUME NEW S, NEW s \in Seq(S) PROVE Elems(s) \subseteq S
  BY DEF Elems

(* The queue a new connection starts with. *)
LEMMA ElemsEmpty == Elems(<<>>) = {} /\ Sorted(<<>>)
  BY DEF Elems, Sorted

-----------------------------------------------------------------------------
(* Moving requests along, dropping some, forgetting pending ones and       *)
(* losing a connection keep what is known of the copies.                   *)
LEMMA MovePreserves ==
    ASSUME IInv, All' \subseteq All, Unsent' \subseteq Unsent,
           Elems(acks)' \subseteq Elems(acks),
           DOMAIN pending' \subseteq DOMAIN pending,
           \A i \in DOMAIN pending' : pending'[i] = pending[i],
           UNCHANGED <<exch, used, msg_id, losses>>
    PROVE  UniqueInv' /\ CopyInv'
  <1>1. UniqueInv'
    BY DEF IInv, UniqueInv, Places
  <1>2. CopyInv'
    BY DEF IInv, CopyInv, RepeatsNeedLoss, Places
  <1> QED
    BY <1>1, <1>2

(* Submit and Cancel: a request with the next id is posted. *)
LEMMA PostPreserves ==
    ASSUME IInv, NEW m \in Request, m.id = msg_id + 1, msg_id' = m.id,
           posted' = Append(posted, m),
           UNCHANGED <<queue, wire, acks, writing, session, connected, losses, exch>>,
           \/ ~Places(m) /\ UNCHANGED <<pending, used>>
           \/ /\ Places(m) /\ m.cid \notin used /\ used' = used \cup {m.cid}
              /\ pending' = Put(pending, m.id, m.cid)
    PROVE  IInv'
  <1>1. /\ posted' \in Seq(Request) /\ Elems(posted)' = Elems(posted) \cup {m}
        /\ Rest' = Rest
    BY ElemsAppend DEF IInv, TypeOK, Rest
  <1>2. All' = All \cup {m} /\ Unsent' = Unsent \cup {m}
    BY <1>1 DEF All, Unsent
  <1>3. msg_id \in Nat /\ \A r \in All : r.id <= msg_id /\ r.id \in Nat
    <2>1. \A s \in Seq(Request) : Elems(s) \subseteq Request
      BY ElemsType
    <2> QED
      BY <2>1 DEF IInv, TypeOK, OrderInv, All, Request
  <1>4. Unsent \subseteq All
    <2>1. writing => queue # <<>>
      BY DEF IInv, WriterInv, WriterNeverStalls
    <2> QED
      BY <2>1, ElemsTail DEF Unsent, All, Rest, IInv, TypeOK
  <1>5. TypeOK'
    BY <1>1, <1>3 DEF IInv, TypeOK
  <1>6. WriterInv'
    BY DEF IInv, WriterInv, WriterNeverStalls
  <1>7. OrderInv'
    <2>1. \A a \in Elems(acks) : a.id <= msg_id /\ a.id \in Nat
      <3>1. Elems(acks) \subseteq Ack
        BY ElemsType DEF IInv, TypeOK
      <3> QED
        BY <3>1 DEF IInv, OrderInv, Ack
    <2>2. Below(All, {m}) /\ Below(Elems(acks), {m})
      BY <1>3, <2>1 DEF Below
    <2>3. Below(Elems(posted), {m})
      BY <2>2 DEF Below, All
    <2>4. Sorted(posted')
      BY <2>3, SortedAppend DEF IInv, TypeOK, OrderInv
    <2> QED
      BY <2>1, <2>2, <2>4, <1>1, <1>2, <1>3 DEF IInv, OrderInv, Below, All
  <1>8. DOMAIN pending' \subseteq DOMAIN pending \cup {m.id}
        /\ (\A i \in DOMAIN pending : i # m.id /\ i \in DOMAIN pending' /\ pending'[i] = pending[i])
        /\ (m.id \in DOMAIN pending' => Places(m) /\ pending'[m.id] = m.cid)
        /\ used \subseteq used'
        /\ (Places(m) => m.cid \in used' \ used)
    BY <1>3 DEF IInv, UniqueInv, Put
  <1>9. UniqueInv'
    BY <1>2, <1>3, <1>8 DEF IInv, UniqueInv, Places
  <1>10. CopyInv'
    <2>1. \A a \in Elems(acks) : a.id # m.id
      <3>1. Elems(acks) \subseteq Ack
        BY ElemsType DEF IInv, TypeOK
      <3> QED
        BY <3>1, <1>3 DEF IInv, OrderInv, Ack
    <2>2. \A r \in Unsent : r.id # m.id
      BY <1>3, <1>4
    <2>3. Places(m) => m.cid \notin DOMAIN exch
      BY <1>8 DEF IInv, CopyInv
    <2> QED
      BY <1>2, <1>8, <2>1, <2>2, <2>3 DEF IInv, CopyInv, RepeatsNeedLoss
  <1> QED
    BY <1>5, <1>6, <1>7, <1>9, <1>10 DEF IInv

(* What the invariant says of where a request can be. *)
LEMMA WhereRequestsAre ==
    ASSUME IInv
    PROVE  /\ writing => queue # <<>>
           /\ connected /\ ~writing => queue = <<>>
           /\ Unsent \subseteq All
  <1>1. writing => queue # <<>>
    BY DEF IInv, WriterInv, WriterNeverStalls
  <1> QED
    BY <1>1, ElemsTail DEF Unsent, All, Rest, IInv, TypeOK, WriterInv, WriterNeverStalls

(* What a write adds to the connection, and what it leaves alone. *)
LEMMA WireGrows ==
    ASSUME IInv, NEW g \in Request, wire' = Append(wire, g), Below(Elems(wire), {g})
    PROVE  /\ wire' \in Seq(Request) /\ wire' # <<>> /\ Sorted(wire')
           /\ Elems(wire') = Elems(wire) \cup {g} /\ wire'[Len(wire')] = g
  <1>1. wire \in Seq(Request) /\ Sorted(wire)
    BY DEF IInv, TypeOK, OrderInv
  <1>2. Sorted(wire')
    BY <1>1, SortedAppend
  <1> QED
    BY <1>1, <1>2, ElemsAppend

(* The posted handler of send_msg. *)
LEMMA HandlePostPreserves ==
    ASSUME IInv, HandlePost, UNCHANGED used PROVE IInv' /\ All' \subseteq All
  <1> DEFINE h == Head(posted)
  <1>1. posted # <<>> /\ posted' = Tail(posted) /\ queue' = Append(queue, h)
        /\ UNCHANGED <<exch, acks, pending, connected, session, msg_id, losses>>
    BY DEF HandlePost
  <1>2. /\ h \in Request /\ posted' \in Seq(Request)
        /\ Elems(posted) = {h} \cup Elems(posted')
        /\ Sorted(posted') /\ Below({h}, Elems(posted'))
    BY <1>1, ElemsTail, SortedTail DEF IInv, TypeOK, OrderInv
  <1>3. Below(Elems(queue), {h})
    BY <1>2 DEF IInv, OrderInv, Below
  <1>4. /\ queue' \in Seq(Request) /\ queue' # <<>> /\ Sorted(queue')
        /\ Elems(queue') = Elems(queue) \cup {h}
        /\ queue # <<>> => Head(queue') = Head(queue) /\ Tail(queue') = Append(Tail(queue), h)
        /\ queue = <<>> => Head(queue') = h /\ Tail(queue') = <<>>
    <2>1. queue \in Seq(Request) /\ Sorted(queue)
      BY DEF IInv, TypeOK, OrderInv
    <2>2. Sorted(queue')
      BY <2>1, <1>1, <1>2, <1>3, SortedAppend
    <2> HIDE DEF h
    <2>3. h \in Request
      BY <1>2
    <2>4. LET q == Append(queue, h)
          IN  /\ q \in Seq(Request) /\ q # <<>> /\ Elems(q) = Elems(queue) \cup {h}
              /\ Head(q) = IF queue = <<>> THEN h ELSE Head(queue)
              /\ Tail(q) = IF queue = <<>> THEN <<>> ELSE Append(Tail(queue), h)
      BY <2>1, <2>3, ElemsAppend
    <2> QED
      BY <2>2, <2>4, <1>1
  <1> HIDE DEF h
  <1>5. CASE ~(connected /\ ~writing)
    <2>1. UNCHANGED <<writing, wire>>
      BY <1>5 DEF HandlePost
    <2>2. Rest' = Rest \cup {h}
      <3>1. CASE writing /\ session
        <4>1. queue # <<>>
          BY <3>1, WhereRequestsAre
        <4>2. Tail(queue) \in Seq(Request)
          BY <4>1, ElemsTail DEF IInv, TypeOK
        <4>3. Elems(Append(Tail(queue), h)) = Elems(Tail(queue)) \cup {h}
          <5>1. h \in Request
            BY <1>2
          <5>2. \A s \in Seq(Request), e \in Request : Elems(Append(s, e)) = Elems(s) \cup {e}
            BY AppendElems
          <5> QED
            BY <4>2, <5>1, <5>2, Zenon
        <4>4. Tail(queue') = Append(Tail(queue), h)
          BY <4>1, <1>4
        <4> QED
          BY <4>3, <4>4, <3>1, <2>1, <1>1 DEF Rest
      <3>2. CASE ~(writing /\ session)
        BY <3>2, <2>1, <1>1, <1>4 DEF Rest
      <3> QED
        BY <3>1, <3>2
    <2>3. All' = All /\ Unsent' = Unsent
      BY <1>1, <1>2, <1>4, <2>1, <2>2 DEF All, Unsent
    <2>4. TypeOK' /\ WriterInv'
      BY <1>1, <1>2, <1>4, <1>5, <2>1 DEF IInv, TypeOK, WriterInv, WriterNeverStalls
    <2>5. OrderInv'
      <3>1. Below(Elems(queue'), Elems(posted'))
        BY <1>2, <1>4 DEF IInv, OrderInv, Below
      <3>2. writing /\ session => Head(queue') = Head(queue)
        BY <1>4, WhereRequestsAre
      <3> QED
        BY <3>1, <3>2, <1>1, <1>2, <1>4, <2>1, <2>2, <2>3 DEF IInv, OrderInv, Below
    <2> QED
      BY <2>3, <2>4, <2>5, <1>1, MovePreserves DEF IInv
  <1>6. CASE connected /\ ~writing
    <2>1. queue = <<>> /\ session
      BY <1>6, WhereRequestsAre DEF IInv, WriterInv
    <2>2. writing' = TRUE /\ wire' = Append(wire, h)
      BY <1>4, <1>6, <2>1 DEF HandlePost, do_write
    <2>3. /\ Rest = {} /\ Rest' = {} /\ Elems(queue) = {} /\ Elems(queue') = {h}
      BY <1>1, <1>4, <1>6, <2>1, <2>2, ElemsEmpty DEF Rest
    <2>4. Below(Elems(wire), {h})
      BY <1>2 DEF IInv, OrderInv, Below
    <2>5. /\ wire' \in Seq(Request) /\ wire' # <<>> /\ Sorted(wire')
          /\ Elems(wire') = Elems(wire) \cup {h} /\ wire'[Len(wire')] = h
      BY <1>2, <2>2, <2>4, WireGrows
    <2>6. All' = All /\ Unsent' = Unsent
      BY <1>1, <1>2, <2>3, <2>5 DEF All, Unsent
    <2>7. TypeOK' /\ WriterInv'
      BY <1>1, <1>2, <1>4, <1>6, <2>1, <2>2, <2>5
         DEF IInv, TypeOK, WriterInv, WriterNeverStalls
    <2>8. OrderInv'
      <3>1. Below(Elems(queue'), Elems(posted')) /\ Below(Elems(wire'), Elems(posted'))
        BY <1>2, <2>3, <2>5 DEF IInv, OrderInv, Below
      <3>2. Below(Elems(wire'), Rest') /\ wire'[Len(wire')] = Head(queue')
        BY <1>4, <2>1, <2>3, <2>5 DEF Below
      <3> QED
        BY <3>1, <3>2, <1>1, <1>2, <1>4, <2>5, <2>6 DEF IInv, OrderInv
    <2> QED
      BY <2>6, <2>7, <2>8, <1>1, MovePreserves DEF IInv
  <1> QED
    BY <1>5, <1>6

(* A completed write: the message leaves the queue, the next write starts. *)
LEMMA WriteDonePreserves ==
    ASSUME IInv, WriteDone, UNCHANGED used PROVE IInv' /\ All' \subseteq All
  <1> DEFINE h == Head(queue)
             t == Tail(queue)
  <1>1. writing /\ queue # <<>> /\ queue' = t
        /\ UNCHANGED <<exch, acks, posted, pending, connected, session, msg_id, losses>>
    BY WhereRequestsAre DEF WriteDone
  <1>2. /\ h \in Request /\ t \in Seq(Request)
        /\ Elems(queue) = {h} \cup Elems(t)
        /\ Sorted(t) /\ Below({h}, Elems(t))
    BY <1>1, ElemsTail, SortedTail DEF IInv, TypeOK, OrderInv
  <1>3. Below(Elems(t), Elems(posted))
    BY <1>2 DEF IInv, OrderInv, Below
  <1>4. CASE ~(t # <<>> /\ connected)
    <2>1. writing' = FALSE /\ wire' = wire
      BY <1>1, <1>4 DEF WriteDone, do_write
    <2>2. Rest' = Elems(t) /\ (session => Rest = Elems(t))
      BY <1>1, <2>1 DEF Rest
    <2>3. All' \subseteq All /\ Unsent' \subseteq Unsent /\ Rest' \subseteq Rest
      <3>1. Rest' \subseteq Rest
        BY <1>1, <1>2, <2>2 DEF Rest
      <3> QED
        BY <3>1, <1>1, <1>2, <2>1 DEF All, Unsent
    <2>4. TypeOK' /\ WriterInv'
      BY <1>1, <1>2, <1>4, <2>1 DEF IInv, TypeOK, WriterInv, WriterNeverStalls
    <2>5. OrderInv'
      <3>1. Below(Elems(wire), Rest') /\ Below(Elems(acks), Unsent')
        BY <2>3 DEF IInv, OrderInv, Below
      <3> QED
        BY <3>1, <1>1, <1>2, <1>3, <2>1, <2>3 DEF IInv, OrderInv
    <2> QED
      BY <2>3, <2>4, <2>5, <1>1, MovePreserves DEF IInv
  <1>5. CASE t # <<>> /\ connected
    <2> DEFINE g == Head(t)
               u == Tail(t)
    <2>1. session /\ writing' = TRUE /\ wire' = Append(wire, g)
      BY <1>1, <1>5 DEF WriteDone, do_write, IInv, WriterInv
    <2>2. /\ g \in Request /\ u \in Seq(Request) /\ Elems(t) = {g} \cup Elems(u)
          /\ Below({g}, Elems(u))
      BY <1>2, <1>5, ElemsTail, SortedTail
    <2>3. Rest = Elems(t) /\ Rest' = Elems(u)
      BY <1>1, <2>1 DEF Rest
    <2>4. Below(Elems(wire), {g}) /\ Below({g}, Elems(posted))
      BY <2>2, <2>3, <1>3 DEF IInv, OrderInv, Below
    <2>5. /\ wire' \in Seq(Request) /\ wire' # <<>> /\ Sorted(wire')
          /\ Elems(wire') = Elems(wire) \cup {g} /\ wire'[Len(wire')] = g
      BY <2>1, <2>2, <2>4, WireGrows
    <2> HIDE DEF g, u
    <2>6. All' \subseteq All /\ Unsent' \subseteq Unsent
      BY <1>1, <1>2, <2>2, <2>3, <2>5 DEF All, Unsent
    <2>7. TypeOK' /\ WriterInv'
      BY <1>1, <1>2, <1>5, <2>1, <2>5 DEF IInv, TypeOK, WriterInv, WriterNeverStalls
    <2>8. OrderInv'
      <3>1. Below(Elems(wire'), Rest') /\ Below(Elems(wire'), Elems(posted))
        BY <2>2, <2>3, <2>4, <2>5 DEF IInv, OrderInv, Below
      <3>2. wire'[Len(wire')] = Head(queue')
        BY <1>1, <2>5 DEF g
      <3>3. Below(Elems(acks), Unsent')
        BY <2>6 DEF IInv, OrderInv, Below
      <3> QED
        BY <3>1, <3>2, <3>3, <1>1, <1>2, <1>3, <2>5, <2>6 DEF IInv, OrderInv
    <2> QED
      BY <2>6, <2>7, <2>8, <1>1, MovePreserves DEF IInv
  <1> QED
    BY <1>4, <1>5

(* A failed write leaves its message at the front of the queue. *)
LEMMA WriteFailsPreserves ==
    ASSUME IInv, WriteFails, UNCHANGED used PROVE IInv' /\ All' \subseteq All
  <1> DEFINE h == Head(queue)
  <1>1. writing /\ queue # <<>> /\ writing' = FALSE /\ connected' = FALSE
        /\ UNCHANGED <<exch, acks, posted, queue, pending, session, msg_id, losses>>
    BY WhereRequestsAre DEF WriteFails
  <1>2. Elems(queue) = {h} \cup Elems(Tail(queue)) /\ Below({h}, Elems(Tail(queue)))
    BY <1>1, ElemsTail, SortedTail DEF IInv, TypeOK, OrderInv
  <1>3. Rest' = Elems(queue)
    BY <1>1 DEF Rest
  <1>4. CASE session
    <2>1. wire # <<>> /\ wire' = SubSeq(wire, 1, Len(wire) - 1) /\ wire[Len(wire)] = h
      BY <1>1, <1>4 DEF WriteFails, IInv, OrderInv
    <2>2. /\ wire' \in Seq(Request) /\ Sorted(wire')
          /\ Elems(wire) = Elems(wire') \cup {h} /\ Below(Elems(wire'), {h})
      BY <2>1, ElemsFront DEF IInv, TypeOK, OrderInv
    <2>3. Rest = Elems(Tail(queue))
      BY <1>1, <1>4 DEF Rest
    <2>4. All' \subseteq All /\ Unsent' \subseteq Unsent
      BY <1>1, <1>2, <1>3, <2>2, <2>3 DEF All, Unsent
    <2>5. TypeOK' /\ WriterInv'
      BY <1>1, <1>4, <2>2 DEF IInv, TypeOK, WriterInv, WriterNeverStalls
    <2>6. OrderInv'
      <3>1. Below(Elems(wire'), Rest') /\ Below(Elems(acks), Unsent')
            /\ Below(Elems(wire'), Elems(posted))
        BY <1>2, <1>3, <2>2, <2>3, <2>4 DEF IInv, OrderInv, Below
      <3> QED
        BY <3>1, <1>1, <2>2, <2>4 DEF IInv, OrderInv
    <2> QED
      BY <2>4, <2>5, <2>6, <1>1, MovePreserves DEF IInv
  <1>5. CASE ~session
    <2>1. wire' = wire /\ Rest = Elems(queue)
      BY <1>5 DEF WriteFails, Rest
    <2>2. All' = All /\ Unsent' = Unsent /\ Rest' = Rest
      BY <1>1, <1>3, <2>1 DEF All, Unsent
    <2>3. TypeOK' /\ WriterInv' /\ OrderInv'
      BY <1>1, <1>5, <2>1, <2>2 DEF IInv, TypeOK, WriterInv, WriterNeverStalls, OrderInv
    <2> QED
      BY <2>2, <2>3, <1>1, MovePreserves DEF IInv
  <1> QED
    BY <1>4, <1>5 DEF IInv, TypeOK

(* A new connection starts empty, and sends what is queued. *)
LEMMA ConnectPreserves ==
    ASSUME IInv, Connect, UNCHANGED used PROVE IInv' /\ All' \subseteq All
  <1> DEFINE h == Head(queue)
             t == Tail(queue)
  <1>1. ~session /\ ~writing /\ session' = TRUE /\ connected' = TRUE
        /\ wire = <<>> /\ acks = <<>>
        /\ UNCHANGED <<exch, acks, posted, queue, pending, msg_id, losses>>
    BY DEF Connect, IInv, WriterInv
  <1>2. Elems(wire) = {} /\ Elems(acks) = {} /\ Rest = Elems(queue)
    BY <1>1, ElemsEmpty DEF Rest
  <1>3. CASE queue = <<>>
    <2>1. writing' = FALSE /\ wire' = wire
      BY <1>1, <1>3 DEF Connect, do_write
    <2>2. All' = All /\ Unsent' = Unsent /\ Rest' = Rest
      BY <1>1, <1>2, <2>1 DEF All, Unsent, Rest
    <2>3. TypeOK' /\ WriterInv' /\ OrderInv'
      BY <1>1, <1>3, <2>1, <2>2 DEF IInv, TypeOK, WriterInv, WriterNeverStalls, OrderInv
    <2> QED
      BY <2>2, <2>3, <1>1, MovePreserves DEF IInv
  <1>4. CASE queue # <<>>
    <2>1. writing' = TRUE /\ wire' = Append(wire, h)
      BY <1>4 DEF Connect, do_write
    <2>2. /\ h \in Request /\ Elems(queue) = {h} \cup Elems(t) /\ Below({h}, Elems(t))
      BY <1>4, ElemsTail, SortedTail DEF IInv, TypeOK, OrderInv
    <2>3. Below(Elems(wire), {h})
      BY <1>2 DEF Below
    <2>4. /\ wire' \in Seq(Request) /\ wire' # <<>> /\ Sorted(wire')
          /\ Elems(wire') = {h} /\ wire'[Len(wire')] = h
      BY <1>2, <2>1, <2>2, <2>3, WireGrows
    <2>5. Rest' = Elems(t)
      BY <1>1, <2>1 DEF Rest
    <2>6. All' = All /\ Unsent' = Unsent
      BY <1>1, <1>2, <2>2, <2>4, <2>5 DEF All, Unsent
    <2>7. TypeOK' /\ WriterInv'
      BY <1>1, <1>4, <2>1, <2>4 DEF IInv, TypeOK, WriterInv, WriterNeverStalls
    <2>8. OrderInv'
      <3>1. Below(Elems(wire'), Rest') /\ Below(Elems(wire'), Elems(posted))
        BY <2>2, <2>4, <2>5 DEF IInv, OrderInv, Below
      <3> QED
        BY <3>1, <1>1, <1>2, <2>4, <2>6 DEF IInv, OrderInv, Below
    <2> QED
      BY <2>6, <2>7, <2>8, <1>1, MovePreserves DEF IInv
  <1> QED
    BY <1>3, <1>4

(* A lost connection forgets the pending requests and the wire. *)
LEMMA RunFailsPreserves ==
    ASSUME IInv, RunFails, UNCHANGED used PROVE IInv' /\ All' \subseteq All
  <1>1. session' = FALSE /\ connected' = FALSE /\ losses' = losses + 1 /\ pending' = Empty
        /\ wire' = <<>> /\ acks' = <<>>
        /\ UNCHANGED <<exch, posted, queue, writing, msg_id>>
    BY DEF RunFails
  <1>2. Elems(wire') = {} /\ Elems(acks') = {} /\ Rest' = Elems(queue) /\ Sorted(wire')
    BY <1>1, ElemsEmpty DEF Rest
  <1>3. All' \subseteq All /\ Unsent' \subseteq All
    BY <1>1, <1>2 DEF All, Unsent
  <1>4. TypeOK' /\ WriterInv'
    <2>1. wire' \in Seq(Request) /\ acks' \in Seq(Ack)
      BY <1>1
    <2>2. TypeOK'
      <3>1. losses' \in Nat
        BY <1>1 DEF IInv, TypeOK
      <3>2. TypeOK /\ UNCHANGED <<exch, posted, queue, writing, msg_id>>
        BY <1>1 DEF IInv
      <3>3. session' \in BOOLEAN /\ connected' \in BOOLEAN
        BY <1>1, Zenon
      <3> QED
        BY <2>1, <3>1, <3>2, <3>3 DEF TypeOK
    <2>3. WriterInv'
      BY <1>1 DEF IInv, WriterInv, WriterNeverStalls
    <2> QED
      BY <2>2, <2>3
  <1>5. OrderInv'
    BY <1>1, <1>2, <1>3 DEF IInv, OrderInv, Below
  <1>6. DOMAIN pending' = {}
    BY <1>1 DEF Empty
  <1>7. UniqueInv'
    BY <1>1, <1>3, <1>6 DEF IInv, UniqueInv, Places
  <1>8. CopyInv'
    <2>1. losses \in Nat /\ \A c \in DOMAIN exch : exch[c].copies \in Nat
      BY DEF IInv, TypeOK, ExchOrder, ExchStatus
    <2>2. \A c \in DOMAIN exch : exch[c].copies <= losses'
      BY <2>1, <1>1 DEF IInv, CopyInv, RepeatsNeedLoss
    <2> QED
      BY <2>1, <2>2, <1>1, <1>2, <1>6 DEF IInv, CopyInv, RepeatsNeedLoss
  <1> QED
    BY <1>3, <1>4, <1>5, <1>7, <1>8 DEF IInv

(* handle_ack takes one answer and forgets its request. *)
LEMMA AckPreserves ==
    ASSUME IInv, handle_ack, UNCHANGED used PROVE IInv' /\ All' \subseteq All
  <1>1. acks # <<>> /\ acks' = Tail(acks)
        /\ UNCHANGED <<exch, wire, posted, queue, writing, connected, session, msg_id, losses>>
    BY DEF handle_ack
  <1>2. /\ DOMAIN pending' \subseteq DOMAIN pending
        /\ \A i \in DOMAIN pending' : pending'[i] = pending[i]
    BY DEF handle_ack, Drop
  <1>3. acks' \in Seq(Ack) /\ Elems(acks)' \subseteq Elems(acks)
    BY <1>1, ElemsTail DEF IInv, TypeOK
  <1>4. All' = All /\ Unsent' = Unsent /\ Rest' = Rest
    BY <1>1 DEF All, Unsent, Rest
  <1>5. TypeOK' /\ WriterInv'
    <2>1. acks = <<>> => FALSE
      BY <1>1
    <2> QED
      BY <2>1, <1>1, <1>3 DEF IInv, TypeOK, WriterInv, WriterNeverStalls
  <1>6. OrderInv'
    BY <1>1, <1>3, <1>4 DEF IInv, OrderInv, Below
  <1> QED
    BY <1>1, <1>2, <1>3, <1>4, <1>5, <1>6, MovePreserves DEF IInv

(* The exchange trades, cancels or closes an order it has: the number of   *)
(* its copies stays.                                                       *)
LEMMA TradedType ==
    ASSUME NEW x \in ExchOrder, NEW q \in Nat, NEW p \in Prices
    PROVE  Traded(x, q, p) \in ExchOrder /\ Traded(x, q, p).copies = x.copies
  <1>1. p \in Nat /\ x.filled \in Nat /\ x.cost \in Nat /\ x.lo \in Nat /\ x.hi \in Nat
    BY VenueAssumption DEF ExchOrder, ExchStatus
  <1> DEFINE f == x.filled + q
             k == x.cost + q * p
             l == IF x.lo = 0 \/ p < x.lo THEN p ELSE x.lo
             u == IF p > x.hi THEN p ELSE x.hi
             s == IF x.filled + q = Lot THEN "FILLED" ELSE "PARTIALLY_FILLED"
  <1>2. f \in Nat /\ k \in Nat /\ l \in Nat /\ u \in Nat
        /\ s \in ExchStatus
    <2>1. q * p \in Nat
      BY <1>1
    <2> QED
      BY <2>1, <1>1 DEF ExchStatus
  <1>3. Traded(x, q, p) = [x EXCEPT !.filled = f, !.cost = k, !.lo = l, !.hi = u, !.status = s]
    BY DEF Traded
  <1> HIDE DEF f, k, l, u, s
  <1> QED
    BY <1>2, <1>3 DEF ExchOrder, ExchStatus

(* An order that ends keeps its type. *)
LEMMA FinishedType ==
    ASSUME NEW x \in ExchOrder, NEW s \in {"CANCELED", "EXPIRED"}
    PROVE  /\ [x EXCEPT !.status = s] \in ExchOrder
           /\ [x EXCEPT !.status = s].copies = x.copies
  BY DEF ExchOrder, ExchStatus

(* A change of an order that is no new acceptance keeps the count of copies. *)
LEMMA SameCopies ==
    ASSUME IInv, DOMAIN exch' = DOMAIN exch,
           \A c \in DOMAIN exch : exch'[c] \in ExchOrder /\ exch'[c].copies = exch[c].copies,
           UNCHANGED <<posted, queue, wire, acks, writing, connected, session,
                       pending, msg_id, losses, used>>
    PROVE  IInv'
  <1>1. All' = All /\ Unsent' = Unsent /\ Rest' = Rest
    BY DEF All, Unsent, Rest
  <1>2. TypeOK' /\ WriterInv'
    BY DEF IInv, TypeOK, WriterInv, WriterNeverStalls
  <1>3. OrderInv' /\ UniqueInv'
    BY <1>1 DEF IInv, OrderInv, UniqueInv
  <1>4. CopyInv'
    BY <1>1 DEF IInv, CopyInv, RepeatsNeedLoss
  <1> QED
    BY <1>2, <1>3, <1>4 DEF IInv

(* A fill or an end of an order on the exchange's own account. *)
LEMMA TradePreserves ==
    ASSUME IInv, UNCHANGED <<gateway, used>>,
           \E c \in LimitIds : Expire(c) \/ \E p \in Prices : Fill(c, p)
    PROVE  IInv'
  <1>1. PICK c \in LimitIds : Expire(c) \/ \E p \in Prices : Fill(c, p)
    OBVIOUS
  <1>2. c \in DOMAIN exch /\ exch[c] \in ExchOrder /\ UNCHANGED <<wire, acks>>
    BY <1>1 DEF Expire, Fill, Open, IInv, TypeOK
  <1>3. \E x \in ExchOrder : x.copies = exch[c].copies /\ exch' = Put(exch, c, x)
    <2>1. CASE Expire(c)
      BY <2>1, <1>2, FinishedType DEF Expire, Finish
    <2>2. ASSUME NEW p \in Prices, Fill(c, p)
          PROVE  \E x \in ExchOrder : x.copies = exch[c].copies /\ exch' = Put(exch, c, x)
      BY <2>2, <1>2, TradedType DEF Fill
    <2> QED
      BY <1>1, <2>1, <2>2
  <1>4. DOMAIN exch' = DOMAIN exch
        /\ \A d \in DOMAIN exch : exch'[d] \in ExchOrder /\ exch'[d].copies = exch[d].copies
    BY <1>2, <1>3 DEF Put, IInv, TypeOK
  <1> QED
    BY <1>2, <1>4, SameCopies DEF gateway

(* The exchange answers the first request on the wire. *)
LEMMA AnswerPreserves ==
    ASSUME IInv, wire # <<>>, NEW ok \in BOOLEAN, Answer(ok)
    PROVE  /\ wire' \in Seq(Request) /\ acks' \in Seq(Ack) /\ Sorted(wire')
           /\ Head(wire) \in Request
           /\ Elems(wire) = {Head(wire)} \cup Elems(wire')
           /\ Below({Head(wire)}, Elems(wire'))
           /\ wire' # <<>> => wire'[Len(wire')] = wire[Len(wire)]
           /\ Elems(acks') = Elems(acks) \cup {[id |-> Head(wire).id, ok |-> ok]}
  <1>1. /\ wire' = Tail(wire) /\ acks' = Append(acks, [id |-> Head(wire).id, ok |-> ok])
        /\ wire \in Seq(Request) /\ acks \in Seq(Ack) /\ Sorted(wire)
    BY DEF Answer, IInv, TypeOK, OrderInv
  <1>2. /\ wire' \in Seq(Request) /\ Head(wire) \in Request
        /\ Elems(wire) = {Head(wire)} \cup Elems(wire')
        /\ wire' # <<>> => wire'[Len(wire')] = wire[Len(wire)]
    BY <1>1, ElemsTail
  <1>3. Sorted(wire') /\ Below({Head(wire)}, Elems(wire'))
    BY <1>1, SortedTail
  <1>4. [id |-> Head(wire).id, ok |-> ok] \in Ack
    BY <1>2 DEF Request, Ack
  <1>5. acks' \in Seq(Ack) /\ Elems(acks') = Elems(acks) \cup {[id |-> Head(wire).id, ok |-> ok]}
    BY <1>1, <1>4, ElemsAppend
  <1> QED
    BY <1>2, <1>3, <1>5

(* The exchange reads one request: the only step that adds a copy. *)
LEMMA ReceivePreserves ==
    ASSUME IInv, Receive, UNCHANGED <<gateway, used>> PROVE IInv'
  <1> DEFINE r == Head(wire)
             c == r.cid
  <1>0. wire # <<>> /\ UNCHANGED <<posted, queue, writing, connected, session,
                                   pending, msg_id, losses, used>>
    BY DEF Receive, gateway
  <1>1. PICK ok \in BOOLEAN :
            /\ Answer(ok)
            /\ \/ exch' = exch
               \/ ~Places(r) /\ c \in Open /\ exch' = Put(exch, c, [exch[c] EXCEPT !.status = "CANCELED"])
               \/ /\ Places(r) /\ ok /\ c \notin Open
                  /\ \/ exch' = Put(exch, c, Accepted(c))
                     \/ \E p \in Prices : exch' = Put(exch, c, Traded(Accepted(c), Lot, p))
    BY DEF Receive, Place, Finish, Places
  <1> DEFINE a == [id |-> r.id, ok |-> ok]
  <1>2. /\ wire' \in Seq(Request) /\ acks' \in Seq(Ack) /\ Sorted(wire') /\ r \in Request
        /\ Elems(wire) = {r} \cup Elems(wire') /\ Below({r}, Elems(wire'))
        /\ wire' # <<>> => wire'[Len(wire')] = wire[Len(wire)]
        /\ Elems(acks') = Elems(acks) \cup {a}
    BY <1>0, <1>1, AnswerPreserves
  <1>3. Rest' = Rest
    BY <1>0 DEF Rest
  <1>4. /\ All' \subseteq All /\ r \in All
        /\ Unsent' \subseteq Unsent /\ r \in Unsent
    BY <1>0, <1>2, <1>3 DEF All, Unsent
  <1>5. a.id = r.id /\ a.ok = ok
    OBVIOUS
  <1> HIDE DEF r, a
  <1>6. Below({r}, Unsent')
    BY <1>0, <1>2, <1>3 DEF IInv, OrderInv, Below, Unsent
  <1>7. OrderInv'
    <2>1. Below(Elems(wire'), Rest') /\ Below(Elems(wire'), Elems(posted))
      BY <1>2, <1>3 DEF IInv, OrderInv, Below
    <2>2. Below(Elems(acks'), Unsent')
      BY <1>2, <1>4, <1>5, <1>6 DEF IInv, OrderInv, Below
    <2>3. wire' # <<>> /\ writing /\ session => wire'[Len(wire')] = Head(queue)
      BY <1>0, <1>2 DEF IInv, OrderInv
    <2>4. \A b \in Elems(acks') : b.id <= msg_id
      BY <1>2, <1>4, <1>5 DEF IInv, OrderInv
    <2> QED
      BY <2>1, <2>2, <2>3, <2>4, <1>0, <1>2, <1>3, <1>4 DEF IInv, OrderInv
  <1>8. WriterInv'
    BY <1>0 DEF IInv, WriterInv, WriterNeverStalls
  <1>9. UniqueInv'
    BY <1>0, <1>4 DEF IInv, UniqueInv, Places
  (* Nothing still to come is about the order just placed. *)
  <1>10. ASSUME Places(r), NEW q \in Unsent', Places(q) PROVE q.cid # c
    <2>1. r.id < q.id
      BY <1>6 DEF Below
    <2>2. r.id \in Nat
      BY <1>2 DEF Request
    <2>3. q \in All
      BY <1>4, WhereRequestsAre
    <2>4. r.id # q.id
      <3>1. q.id \in Nat
        <4>1. All \subseteq Request
          BY ElemsType DEF All, IInv, TypeOK
        <4> QED
          BY <4>1, <2>3 DEF Request
      <3> QED
        BY <2>1, <2>2, <3>1
    <2> QED
      BY <1>4, <1>10, <2>3, <2>4 DEF IInv, UniqueInv
  <1>11. CASE exch' = exch
    <2>1. TypeOK'
      BY <1>0, <1>2, <1>11 DEF IInv, TypeOK
    <2>2. CopyInv'
      <3>1. r.id \in DOMAIN pending => pending[r.id] \notin DOMAIN exch
        BY <1>4 DEF IInv, CopyInv, UniqueInv
      <3> QED
        BY <3>1, <1>0, <1>2, <1>4, <1>5, <1>11 DEF IInv, CopyInv, RepeatsNeedLoss
    <2> QED
      BY <2>1, <2>2, <1>7, <1>8, <1>9 DEF IInv
  <1>12. CASE ~Places(r) /\ c \in Open /\ exch' = Put(exch, c, [exch[c] EXCEPT !.status = "CANCELED"])
    <2>1. c \in DOMAIN exch /\ exch[c] \in ExchOrder
      BY <1>12 DEF Open, IInv, TypeOK
    <2>2. DOMAIN exch' = DOMAIN exch
          /\ \A d \in DOMAIN exch : exch'[d] \in ExchOrder /\ exch'[d].copies = exch[d].copies
      BY <2>1, <1>12, FinishedType DEF Put, IInv, TypeOK
    <2>3. TypeOK'
      BY <1>0, <1>2, <2>2 DEF IInv, TypeOK
    <2>4. CopyInv'
      <3>1. r.id \notin DOMAIN pending
        BY <1>4, <1>12 DEF IInv, UniqueInv
      <3> QED
        BY <3>1, <1>0, <1>2, <1>4, <1>5, <2>2 DEF IInv, CopyInv, RepeatsNeedLoss
    <2> QED
      BY <2>3, <2>4, <1>7, <1>8, <1>9 DEF IInv
  <1>13. CASE /\ Places(r) /\ ok
              /\ \/ exch' = Put(exch, c, Accepted(c))
                 \/ \E p \in Prices : exch' = Put(exch, c, Traded(Accepted(c), Lot, p))
    <2> DEFINE n == IF c \in DOMAIN exch THEN exch[c].copies + 1 ELSE 1
    <2>1. Accepted(c) \in ExchOrder /\ Accepted(c).copies = n
      <3>1. n \in Nat
        BY DEF IInv, TypeOK, ExchOrder, ExchStatus
      <3> QED
        BY <3>1 DEF Accepted, ExchOrder, ExchStatus
    <2>2. PICK x \in ExchOrder : x.copies = n /\ exch' = Put(exch, c, x)
      BY <1>13, <2>1, TradedType, VenueAssumption
    <2>3. /\ DOMAIN exch' = DOMAIN exch \cup {c} /\ exch'[c] = x
          /\ \A d \in DOMAIN exch \ {c} : exch'[d] = exch[d]
      BY <2>2 DEF Put
    <2>4. TypeOK'
      BY <1>0, <1>2, <2>3 DEF IInv, TypeOK
    <2>5. c \in used
      BY <1>4, <1>13 DEF IInv, UniqueInv
    <2>6. n <= 1 + losses
      <3>1. c \in DOMAIN exch => exch[c].copies <= losses /\ exch[c].copies \in Nat
        BY <1>4, <1>13 DEF IInv, CopyInv, TypeOK, ExchOrder, ExchStatus
      <3>2. losses \in Nat
        BY DEF IInv, TypeOK
      <3> QED
        BY <3>1, <3>2
    <2>7. CopyInv'
      <3> HIDE DEF n, c
      <3>1. DOMAIN exch' \subseteq used
        BY <2>3, <2>5 DEF IInv, CopyInv
      <3>2. RepeatsNeedLoss'
        BY <1>0, <2>2, <2>3, <2>6 DEF IInv, CopyInv, RepeatsNeedLoss
      <3>3. \A q \in Unsent' : Places(q) /\ q.cid \in DOMAIN exch' => exch'[q.cid].copies <= losses
        BY <1>4, <1>10, <1>13, <2>3 DEF IInv, CopyInv
      <3>4. \A q \in Unsent' : q.id \in DOMAIN pending => q.cid \notin DOMAIN exch'
        <4> SUFFICES ASSUME NEW q \in Unsent', q.id \in DOMAIN pending
                     PROVE  q.cid \notin DOMAIN exch'
          OBVIOUS
        <4>1. Places(q)
          BY <1>4, WhereRequestsAre DEF IInv, UniqueInv
        <4> QED
          BY <4>1, <1>4, <1>10, <1>13, <2>3 DEF IInv, CopyInv
      <3>5. \A b \in Elems(acks') :
                b.id \in DOMAIN pending /\ ~b.ok => pending[b.id] \notin DOMAIN exch'
        <4> SUFFICES ASSUME NEW b \in Elems(acks), b.id \in DOMAIN pending, ~b.ok
                     PROVE  pending[b.id] \notin DOMAIN exch'
          BY <1>2, <1>5, <1>13
        <4>1. b.id < r.id /\ b.id \in Nat /\ r.id \in Nat
          <5>1. b \in Ack
            BY ElemsType DEF IInv, TypeOK
          <5> QED
            BY <5>1, <1>2, <1>4 DEF IInv, OrderInv, Below, Ack, Request
        <4>2. pending[b.id] # c
          <5>1. pending[b.id] = r.cid => r.id = b.id
            BY <1>4, <1>13 DEF IInv, UniqueInv
          <5> QED
            BY <4>1, <5>1 DEF c
        <4> QED
          BY <4>2, <2>3 DEF IInv, CopyInv
      <3> QED
        BY <3>1, <3>2, <3>3, <3>4, <3>5, <1>0 DEF CopyInv
    <2> QED
      BY <2>4, <2>7, <1>7, <1>8, <1>9 DEF IInv
  <1> QED
    BY <1>1, <1>11, <1>12, <1>13

(* Steps that touch neither gateway nor exchange. *)
LEMMA ElsewherePreserves ==
    ASSUME IInv, UNCHANGED <<gateway, used, exch, wire, acks>> PROVE IInv'
  BY SameCopies DEF gateway, IInv, TypeOK

(* A new order gets a message id above all earlier ones. *)
LEMMA SubmitPreserves ==
    ASSUME IInv, NEW c \in Ids, Submit(c) PROVE IInv'
  <1> DEFINE m == [id |-> msg_id + 1, cid |-> c, method |-> "order.place"]
  <1>1. m \in Request /\ m.id = msg_id + 1 /\ m.cid = c /\ Places(m)
    BY DEF IInv, TypeOK, Request, Places
  <1>2. /\ posted' = Append(posted, m) /\ msg_id' = msg_id + 1
        /\ UNCHANGED <<queue, wire, acks, writing, session, connected, losses, exch>>
        /\ c \notin used /\ used' = used \cup {c} /\ pending' = Put(pending, msg_id + 1, c)
    BY DEF Submit, send_order, venue
  <1> HIDE DEF m
  <1> QED
    BY <1>1, <1>2, PostPreserves

(* So does the cancel of an order. *)
LEMMA CancelPreserves ==
    ASSUME IInv, NEW c \in LimitIds, Cancel(c) PROVE IInv'
  <1> DEFINE m == [id |-> msg_id + 1, cid |-> c, method |-> "order.cancel"]
  <1>1. m \in Request /\ m.id = msg_id + 1 /\ ~Places(m)
    BY DEF IInv, TypeOK, Request, Places, Ids
  <1>2. /\ posted' = Append(posted, m) /\ msg_id' = msg_id + 1
        /\ UNCHANGED <<queue, wire, acks, writing, session, connected, losses, exch,
                       pending, used>>
    BY DEF Cancel, cancel_order, venue
  <1> HIDE DEF m
  <1> QED
    BY <1>1, <1>2, PostPreserves

(* The user-data feed changes nothing the gateway's invariant is about. *)
LEMMA FeedLeaves ==
    ASSUME FeedTurn PROVE UNCHANGED <<gateway, used, exch, wire, acks>>
  BY DEF FeedTurn, FeedStep, fetch_fresh_listen_key, Handshake, HandshakeFails,
         GetOpenOrders, reconcile_single_order, handle_message, StreamEnds, engine, venue

(* The invariant holds at start-up. *)
LEMMA IInvInit == Init => IInv
  <1> SUFFICES ASSUME Init PROVE IInv
    OBVIOUS
  <1>1. /\ posted = <<>> /\ queue = <<>> /\ wire = <<>> /\ acks = <<>>
        /\ DOMAIN pending = {} /\ DOMAIN exch = {}
        /\ msg_id = 0 /\ losses = 0
    BY DEF Init, VenueInit, GatewayInit, Empty
  <1>2. connected = FALSE /\ writing = FALSE /\ session = FALSE
    BY DEF Init, GatewayInit
  <1>3. Elems(posted) = {} /\ Elems(queue) = {} /\ Elems(wire) = {} /\ Elems(acks) = {}
        /\ All = {} /\ Unsent = {} /\ Rest = {}
    BY <1>1, <1>2, ElemsEmpty DEF All, Unsent, Rest
  <1>4. TypeOK
    <2>1. connected \in BOOLEAN /\ writing \in BOOLEAN /\ session \in BOOLEAN
      BY <1>2, Zenon
    <2> QED
      BY <1>1, <2>1 DEF TypeOK
  <1>5. WriterInv /\ OrderInv
    BY <1>1, <1>2, <1>3, ElemsEmpty DEF WriterInv, WriterNeverStalls, OrderInv, Below
  <1>6. UniqueInv /\ CopyInv
    BY <1>1, <1>3 DEF UniqueInv, CopyInv, RepeatsNeedLoss
  <1> QED
    BY <1>4, <1>5, <1>6 DEF IInv

(* Every step keeps the invariant: one case per action. *)
LEMMA IInvNext == IInv /\ [Next]_vars => IInv'
  <1> SUFFICES ASSUME IInv, [Next]_vars PROVE IInv'
    OBVIOUS
  <1>1. ASSUME NEW c \in Ids, Submit(c) PROVE IInv'
    BY <1>1, SubmitPreserves
  <1>2. ASSUME NEW c \in Ids, Release(c) PROVE IInv'
    BY <1>2, ElsewherePreserves DEF Release, venue, engine
  <1>3. ASSUME NEW c \in LimitIds, Cancel(c) PROVE IInv'
    BY <1>3, CancelPreserves
  <1>4. CASE GatewayTurn
    <2>1. UNCHANGED used /\ GatewayStep
      BY <1>4 DEF GatewayTurn, engine
    <2> QED
      BY <2>1, HandlePostPreserves, WriteDonePreserves, WriteFailsPreserves,
         ConnectPreserves, RunFailsPreserves, AckPreserves DEF GatewayStep
  <1>5. CASE FeedTurn
    BY <1>5, FeedLeaves, ElsewherePreserves
  <1>6. CASE ExchangeTurn
    <2>1. UNCHANGED <<gateway, used>> /\ Exchange
      BY <1>6 DEF ExchangeTurn, engine
    <2> QED
      BY <2>1, ReceivePreserves, TradePreserves DEF Exchange
  <1>7. CASE UNCHANGED vars
    BY <1>7, ElsewherePreserves DEF vars, venue, engine
  <1> QED
    BY <1>1, <1>2, <1>3, <1>4, <1>5, <1>6, <1>7 DEF Next, Ids

(* The gateway's invariant holds in every reachable state. *)
LEMMA IInvAlways == Spec => []IInv
  BY IInvInit, IInvNext, PTL DEF Spec

(* Requests, answers and the exchange's orders are well formed. *)
THEOREM EntryTyped == Spec => []TypeOK
  <1>1. IInv => TypeOK
    BY DEF IInv
  <1> QED
    BY <1>1, IInvAlways, PTL

(* Whenever the gateway is connected and its queue is not empty, a write   *)
(* is under way, whatever the order of posts, completions, failed writes   *)
(* and reconnects.                                                         *)
THEOREM WriterLive == Spec => []WriterNeverStalls
  <1>1. IInv => WriterNeverStalls
    BY DEF IInv, WriterInv
  <1> QED
    BY <1>1, IInvAlways, PTL

(* The exchange accepts an order once per connection at most: a request is *)
(* sent again only after the connection it was sent on has failed.         *)
THEOREM CopiesBounded == Spec => []RepeatsNeedLoss
  <1>1. IInv => RepeatsNeedLoss
    BY DEF IInv, CopyInv
  <1> QED
    BY <1>1, IInvAlways, PTL

-----------------------------------------------------------------------------
(* Rejected orders.  The exchange never announces a rejection of its own,  *)
(* so the OMS hears of one from an answer only; by then the request is     *)
(* nowhere and the exchange has no such order.                             *)

StreamEvent == [c: Ids, status: ExchStatus, z: Nat, L: Nat]

StreamInv == stream \in Seq(StreamEvent)

OrdersInv == \A c \in DOMAIN orders : "status" \in DOMAIN orders[c] /\ c \in used

Gone(c) == c \notin DOMAIN exch /\ \A r \in All : Places(r) => r.cid # c

RejectInv == \A c \in DOMAIN orders : orders[c].status = "Rejected" => Gone(c)

RInv == IInv /\ StreamInv /\ OrdersInv /\ RejectInv

(* No status the exchange reports of an order it has is mapped to Rejected. *)
LEMMA MapStatus == ASSUME NEW s \in ExchStatus PROVE map_status(s) # "Rejected"
  BY DEF ExchStatus, map_status

(* apply_update takes over the reported status. *)
LEMMA AppliedStatus ==
    ASSUME NEW rec, NEW r, "status" \in DOMAIN rec
    PROVE  Applied(rec, r).status = r.status /\ "status" \in DOMAIN Applied(rec, r)
  BY DEF Applied

(* An update gives its order the reported status and leaves the others alone. *)
LEMMA UpdateKeeps ==
    ASSUME OrdersInv, NEW c, NEW r, orders' = Update(c, r)
    PROVE  /\ DOMAIN orders' = DOMAIN orders
           /\ \A d \in DOMAIN orders :
                  /\ "status" \in DOMAIN orders'[d]
                  /\ orders'[d].status = IF d = c THEN r.status ELSE orders[d].status
  <1>1. CASE c \in DOMAIN orders
    <2>1. orders' = Put(orders, c, Applied(orders[c], r)) /\ "status" \in DOMAIN orders[c]
      BY <1>1 DEF Update, OrdersInv
    <2>2. Applied(orders[c], r).status = r.status /\ "status" \in DOMAIN Applied(orders[c], r)
      BY <2>1, AppliedStatus
    <2> QED
      BY <1>1, <2>1, <2>2 DEF Put, OrdersInv
  <1>2. CASE c \notin DOMAIN orders
    BY <1>2 DEF Update, OrdersInv
  <1> QED
    BY <1>1, <1>2

(* What has been answered with an error is gone. *)
LEMMA RejectedGone ==
    ASSUME IInv, handle_ack, Head(acks).id \in DOMAIN pending, ~Head(acks).ok
    PROVE  Gone(pending[Head(acks).id])
  <1> DEFINE a == Head(acks)
             c == pending[a.id]
  <1>1. acks # <<>> /\ ~(writing /\ Head(queue).id = a.id)
    BY DEF handle_ack
  <1>2. a \in Ack /\ a \in Elems(acks)
    BY <1>1, ElemsTail DEF IInv, TypeOK
  <1>3. c \notin DOMAIN exch
    BY <1>2 DEF IInv, CopyInv
  <1> HIDE DEF a
  <1>4. ASSUME NEW r \in All, Places(r), r.cid = c PROVE FALSE
    <2>1. r.id = a.id
      BY <1>4 DEF IInv, UniqueInv, a
    <2>2. r \notin Unsent
      <3>1. a.id \in Nat
        BY <1>2 DEF Ack
      <3> QED
        BY <2>1, <3>1, <1>2 DEF IInv, OrderInv, Below
    <2>3. r \in Elems(queue) /\ r \notin Rest
      BY <2>2 DEF All, Unsent
    <2>4. writing /\ session /\ queue # <<>> /\ r \notin Elems(Tail(queue))
      BY <2>3, WhereRequestsAre DEF Rest
    <2>5. r = Head(queue)
      BY <2>3, <2>4, ElemsTail DEF IInv, TypeOK
    <2> QED
      BY <2>1, <2>4, <2>5, <1>1
  <1> QED
    BY <1>3, <1>4 DEF Gone, a

(* What Receive adds to the exchange's orders was on the wire. *)
LEMMA ReceiveAdds ==
    ASSUME IInv, Receive, UNCHANGED <<gateway, used>>
    PROVE  /\ All' \subseteq All
           /\ \A c \in DOMAIN exch' \ DOMAIN exch : \E r \in All : Places(r) /\ r.cid = c
  <1> DEFINE r == Head(wire)
  <1>1. wire # <<>> /\ wire' = Tail(wire) /\ UNCHANGED <<posted, queue>>
    BY DEF Receive, Place, Answer, gateway
  <1>2. Elems(wire) = {r} \cup Elems(wire')
    BY <1>1, ElemsTail DEF IInv, TypeOK
  <1>3. All' \subseteq All /\ r \in All
    BY <1>1, <1>2 DEF All
  <1>4. DOMAIN exch' \subseteq DOMAIN exch \/ (Places(r) /\ DOMAIN exch' = DOMAIN exch \cup {r.cid})
    <2>1. CASE Places(r)
      BY <2>1 DEF Receive, Place, Places, Put
    <2>2. CASE ~Places(r)
      BY <2>2 DEF Receive, Finish, Places, Put, Open
    <2> QED
      BY <2>1, <2>2
  <1> HIDE DEF r
  <1> QED
    BY <1>3, <1>4

(* A fill or an end adds no order to the exchange and no request. *)
LEMMA TradeAdds ==
    ASSUME \E c \in LimitIds : Expire(c) \/ \E p \in Prices : Fill(c, p),
           UNCHANGED gateway
    PROVE  All' = All /\ DOMAIN exch' = DOMAIN exch
  <1>1. PICK c \in LimitIds : Expire(c) \/ \E p \in Prices : Fill(c, p)
    OBVIOUS
  <1>2. c \in DOMAIN exch /\ UNCHANGED wire /\ \E x : exch' = Put(exch, c, x)
    BY <1>1 DEF Expire, Fill, Open, Finish
  <1> QED
    BY <1>2 DEF Put, All, gateway

(* An order that is gone stays gone: no request for it comes up again. *)
LEMMA GoneStays ==
    ASSUME IInv, [Next]_vars, NEW c \in used, Gone(c) PROVE Gone(c)' /\ c \in used'
  <1> DEFINE Same == /\ \A d \in DOMAIN exch' \ DOMAIN exch : \E r \in All : Places(r) /\ r.cid = d
                     /\ \A r \in All' \ All : Places(r) => r.cid # c
                     /\ c \in used'
  <1> SUFFICES Same
    BY DEF Gone
  <1>1. ASSUME NEW d \in Ids, Submit(d)
        PROVE  Same
    <2> DEFINE m == [id |-> msg_id + 1, cid |-> d, method |-> "order.place"]
    <2>1. /\ posted' = Append(posted, m) /\ UNCHANGED <<queue, wire, exch>>
          /\ d \notin used /\ used' = used \cup {d}
      BY <1>1 DEF Submit, send_order, venue
    <2>2. m \in Request /\ m.cid = d
      BY DEF IInv, TypeOK, Request
    <2>3. All' = All \cup {m}
      BY <2>1, <2>2, ElemsAppend DEF All, IInv, TypeOK
    <2> HIDE DEF m
    <2> QED
      BY <2>1, <2>2, <2>3
  <1>2. ASSUME NEW d \in LimitIds, Cancel(d) PROVE Same
    <2> DEFINE m == [id |-> msg_id + 1, cid |-> d, method |-> "order.cancel"]
    <2>1. posted' = Append(posted, m) /\ UNCHANGED <<queue, wire, exch, used>>
      BY <1>2 DEF Cancel, cancel_order, venue
    <2>2. m \in Request /\ ~Places(m)
      BY DEF IInv, TypeOK, Request, Places, Ids
    <2>3. All' = All \cup {m}
      BY <2>1, <2>2, ElemsAppend DEF All, IInv, TypeOK
    <2> HIDE DEF m
    <2> QED
      BY <2>1, <2>2, <2>3
  <1>3. CASE GatewayTurn
    <2>1. UNCHANGED used /\ GatewayStep
      BY <1>3 DEF GatewayTurn, engine
    <2>2. All' \subseteq All
      BY <2>1, HandlePostPreserves, WriteDonePreserves, WriteFailsPreserves,
         ConnectPreserves, RunFailsPreserves, AckPreserves DEF GatewayStep
    <2>3. exch' = exch
      BY <2>1 DEF GatewayStep, HandlePost, WriteDone, WriteFails, Connect, RunFails, handle_ack
    <2> QED
      BY <2>1, <2>2, <2>3
  <1>4. CASE ExchangeTurn
    <2>1. UNCHANGED <<gateway, used>> /\ Exchange
      BY <1>4 DEF ExchangeTurn, engine
    <2> QED
      BY <2>1, ReceiveAdds, TradeAdds DEF Exchange
  <1>5. CASE UNCHANGED <<gateway, used, exch, wire>>
    BY <1>5 DEF All, gateway
  <1>6. ASSUME NEW d, Release(d) PROVE UNCHANGED <<gateway, used, exch, wire>>
    BY <1>6 DEF Release, venue, engine
  <1>7. CASE UNCHANGED vars
    BY <1>5, <1>7 DEF vars, venue, engine
  <1>8. CASE FeedTurn
    BY <1>5, <1>8, FeedLeaves
  <1> QED
    BY <1>1, <1>2, <1>3, <1>4, <1>5, <1>6, <1>7, <1>8 DEF Next, Ids

(* Announcing well-formed events keeps the stream well formed. *)
LEMMA AnnouncedType ==
    ASSUME StreamInv, NEW evs \in Seq(StreamEvent), Announce(evs) PROVE StreamInv'
  BY DEF StreamInv, Announce

(* An event about an order of the exchange is well formed. *)
LEMMA EventType ==
    ASSUME NEW c \in Ids, NEW x \in ExchOrder, NEW p \in Nat
    PROVE  Event(c, x, p) \in StreamEvent
  BY DEF Event, StreamEvent, ExchOrder, ExchStatus

(* What the exchange announces is well formed: never a rejection. *)
LEMMA ExchangeStream ==
    ASSUME IInv, StreamInv, Exchange PROVE StreamInv'
  <1>1. \A c \in Ids, x \in ExchOrder, p \in Nat : Event(c, x, p) \in StreamEvent
    BY EventType
  <1>2. \A e, f \in StreamEvent : <<e>> \in Seq(StreamEvent) /\ <<e, f>> \in Seq(StreamEvent)
    OBVIOUS
  <1>3. ASSUME NEW c \in Ids, NEW x \in ExchOrder, NEW p \in Nat, Announce(<<Event(c, x, p)>>)
        PROVE  StreamInv'
    BY <1>1, <1>2, <1>3, AnnouncedType
  <1>4. ASSUME NEW c \in LimitIds, Expire(c) PROVE StreamInv'
    <2>1. c \in Ids /\ [exch[c] EXCEPT !.status = "EXPIRED"] \in ExchOrder
      BY <1>4, FinishedType DEF Expire, Open, IInv, TypeOK, Ids
    <2> QED
      BY <1>3, <1>4, <2>1 DEF Expire, Finish
  <1>5. ASSUME NEW c \in LimitIds, NEW p \in Prices, Fill(c, p) PROVE StreamInv'
    <2>1. c \in Ids /\ p \in Nat /\ Traded(exch[c], 1, p) \in ExchOrder
      BY <1>5, TradedType, VenueAssumption DEF Fill, Open, IInv, TypeOK, Ids
    <2> QED
      BY <1>3, <1>5, <2>1 DEF Fill
  <1>6. CASE Receive
    <2> DEFINE c == Head(wire).cid
    <2>1. wire # <<>>
      BY <1>6 DEF Receive
    <2>2. Head(wire) \in Request
      BY <2>1, ElemsTail DEF IInv, TypeOK
    <2>3. c \in Ids
      BY <2>2 DEF Request
    <2>4. Accepted(c) \in ExchOrder
      <3>1. c \in DOMAIN exch => exch[c].copies + 1 \in Nat
        BY DEF IInv, TypeOK, ExchOrder, ExchStatus
      <3> QED
        BY <3>1 DEF Accepted, ExchOrder, ExchStatus
    <2> HIDE DEF c
    <2>5. CASE UNCHANGED stream
      BY <2>5 DEF StreamInv
    <2>6. CASE c \in Open /\ Finish(c, "CANCELED")
      <3>1. [exch[c] EXCEPT !.status = "CANCELED"] \in ExchOrder
        BY <2>6, FinishedType DEF Open, IInv, TypeOK
      <3> QED
        BY <1>3, <2>3, <2>6, <3>1 DEF Finish
    <2>7. CASE Announce(<<Event(c, Accepted(c), 0)>>)
      BY <1>3, <2>3, <2>4, <2>7
    <2>8. ASSUME NEW p \in Prices,
                 Announce(<<Event(c, Accepted(c), 0), Event(c, Traded(Accepted(c), Lot, p), p)>>)
          PROVE  StreamInv'
      <3>1. p \in Nat /\ Lot \in Nat
        BY VenueAssumption
      <3>2. Traded(Accepted(c), Lot, p) \in ExchOrder
        BY <2>4, <3>1, TradedType
      <3>3. Event(c, Accepted(c), 0) \in StreamEvent
            /\ Event(c, Traded(Accepted(c), Lot, p), p) \in StreamEvent
        BY <1>1, <2>3, <2>4, <3>1, <3>2
      <3> QED
        BY <1>2, <2>8, <3>3, AnnouncedType
    <2> QED
      BY <1>6, <2>5, <2>6, <2>7, <2>8 DEF Receive, Place, c
  <1> QED
    BY <1>4, <1>5, <1>6 DEF Exchange

(* The stream carries well-formed events only, whatever step is taken. *)
LEMMA StreamNext == ASSUME IInv, StreamInv, [Next]_vars PROVE StreamInv'
  <1>1. CASE ExchangeTurn
    BY <1>1, ExchangeStream DEF ExchangeTurn
  <1>2. CASE GatewayTurn
    BY <1>2 DEF GatewayTurn, GatewayStep, HandlePost, WriteDone, WriteFails, Connect,
                RunFails, handle_ack, StreamInv
  <1>3. CASE FeedTurn
    <2>1. stream' = stream \/ stream' = <<>> \/ (stream # <<>> /\ stream' = Tail(stream))
      BY <1>3 DEF FeedTurn, FeedStep, fetch_fresh_listen_key, Handshake, HandshakeFails,
                  GetOpenOrders, reconcile_single_order, handle_message, StreamEnds, venue
    <2>2. stream \in Seq(StreamEvent) /\ <<>> \in Seq(StreamEvent)
      BY DEF StreamInv
    <2>3. stream # <<>> => Tail(stream) \in Seq(StreamEvent)
      BY <2>2, ElemsTail
    <2> QED
      BY <2>1, <2>2, <2>3 DEF StreamInv
  <1>4. CASE \E c \in Ids : Submit(c) \/ Release(c) \/ (c \in LimitIds /\ Cancel(c))
    BY <1>4 DEF Submit, Release, Cancel, StreamInv, venue
  <1>5. CASE UNCHANGED vars
    BY <1>5 DEF vars, venue, StreamInv
  <1> QED
    BY <1>1, <1>2, <1>3, <1>4, <1>5 DEF Next, Ids

(* What a step does to the OMS's orders, and where rejections come from. *)
LEMMA OrdersNext ==
    ASSUME RInv, [Next]_vars
    PROVE  /\ OrdersInv'
           /\ \A c \in DOMAIN orders' : orders'[c].status = "Rejected" => c \in used /\ Gone(c)
  <1> DEFINE Goal == /\ OrdersInv'
                     /\ \A c \in DOMAIN orders' :
                            orders'[c].status = "Rejected" => c \in used /\ Gone(c)
  <1> SUFFICES Goal
    OBVIOUS
  <1>1. CASE orders' = orders /\ used' = used
    BY <1>1 DEF RInv, OrdersInv, RejectInv
  <1>2. ASSUME NEW c \in Ids, Submit(c) PROVE Goal
    <2> DEFINE o == NewOrder([symbol |-> AnySymbol, side |-> "Buy", qty |-> Lot])
    <2>1. orders' = Put(orders, c, o) /\ used' = used \cup {c}
      BY <1>2 DEF Submit
    <2>2. "status" \in DOMAIN o /\ o.status # "Rejected"
      BY DEF NewOrder
    <2> HIDE DEF o
    <2> QED
      BY <2>1, <2>2 DEF Put, RInv, OrdersInv, RejectInv
  <1>3. ASSUME NEW c \in Ids, Release(c) PROVE Goal
    BY <1>3 DEF Release, Drop, engine, RInv, OrdersInv, RejectInv
  <1>4. ASSUME NEW c, NEW r, orders' = Update(c, r), used' = used,
               r.status # "Rejected" \/ Gone(c)
        PROVE  Goal
    <2>1. /\ DOMAIN orders' = DOMAIN orders
          /\ \A d \in DOMAIN orders :
                 /\ "status" \in DOMAIN orders'[d]
                 /\ orders'[d].status = IF d = c THEN r.status ELSE orders[d].status
      BY <1>4, UpdateKeeps DEF RInv
    <2> QED
      BY <2>1, <1>4 DEF RInv, OrdersInv, RejectInv
  <1>5. CASE FeedTurn
    <2>1. used' = used
      BY <1>5, FeedLeaves
    <2>2. CASE handle_message
      <3>1. stream # <<>> /\ Head(stream) \in StreamEvent
        BY <2>2 DEF handle_message, RInv, StreamInv
      <3>2. map_status(Head(stream).status) # "Rejected"
        BY <3>1, MapStatus DEF StreamEvent
      <3> QED
        BY <1>4, <2>1, <2>2, <3>2 DEF handle_message
    <2>3. ASSUME NEW ok \in BOOLEAN, NEW c \in local_live, reconcile_single_order(c, ok)
          PROVE  Goal
      <3>1. CASE ok /\ c \in DOMAIN exch
        <4>1. exch[c].status \in ExchStatus
          BY <3>1 DEF RInv, IInv, TypeOK, ExchOrder, ExchStatus
        <4>2. Looked(exch[c]).status # "Rejected"
          BY <4>1, MapStatus DEF Looked
        <4> QED
          BY <1>4, <2>1, <2>3, <3>1, <4>2 DEF reconcile_single_order
      <3>2. CASE ~(ok /\ c \in DOMAIN exch)
        BY <1>1, <2>1, <2>3, <3>2 DEF reconcile_single_order
      <3> QED
        BY <3>1, <3>2
    <2>4. CASE fetch_fresh_listen_key \/ Handshake \/ HandshakeFails \/ StreamEnds
               \/ \E answer \in Answers : GetOpenOrders(answer)
      BY <1>1, <2>1, <2>4 DEF fetch_fresh_listen_key, Handshake, HandshakeFails, StreamEnds,
                              GetOpenOrders
    <2> QED
      BY <1>5, <2>2, <2>3, <2>4 DEF FeedTurn, FeedStep
  <1>6. CASE GatewayTurn
    <2>1. used' = used
      BY <1>6 DEF GatewayTurn, engine
    <2>2. CASE handle_ack
      <3>1. orders' = orders
            \/ /\ Head(acks).id \in DOMAIN pending /\ ~Head(acks).ok
               /\ orders' = Update(pending[Head(acks).id], Rejection)
        BY <2>2 DEF handle_ack
      <3> QED
        BY <1>1, <1>4, <2>1, <2>2, <3>1, RejectedGone DEF RInv
    <2>3. CASE HandlePost \/ WriteDone \/ WriteFails \/ Connect \/ RunFails
      BY <1>1, <2>1, <2>3 DEF HandlePost, WriteDone, WriteFails, Connect, RunFails
    <2> QED
      BY <1>6, <2>2, <2>3 DEF GatewayTurn, GatewayStep
  <1>7. CASE ExchangeTurn
    <2>1. orders' = orders /\ used' = used
      BY <1>7 DEF ExchangeTurn, Exchange, Receive, Expire, Fill, engine
    <2> QED
      BY <1>1, <2>1
  <1>8. ASSUME NEW c \in LimitIds, Cancel(c) PROVE Goal
    BY <1>1, <1>8 DEF Cancel
  <1>9. CASE UNCHANGED vars
    BY <1>1, <1>9 DEF vars, engine
  <1> QED
    BY <1>2, <1>3, <1>5, <1>6, <1>7, <1>8, <1>9 DEF Next, Ids

(* Every step keeps the invariant about rejections. *)
LEMMA RInvNext == RInv /\ [Next]_vars => RInv'
  <1> SUFFICES ASSUME RInv, [Next]_vars PROVE RInv'
    OBVIOUS
  <1>1. IInv' /\ StreamInv'
    BY IInvNext, StreamNext DEF RInv
  <1>2. OrdersInv'
    BY OrdersNext
  <1>3. RejectInv'
    <2> SUFFICES ASSUME NEW c \in DOMAIN orders', orders'[c].status = "Rejected"
                 PROVE  Gone(c)'
      BY DEF RejectInv
    <2>1. c \in used /\ Gone(c)
      BY OrdersNext
    <2> QED
      BY <2>1, GoneStays DEF RInv
  <1> QED
    BY <1>1, <1>2, <1>3 DEF RInv

(* The invariant about rejections holds at start-up. *)
LEMMA RInvInit == Init => RInv
  <1> SUFFICES ASSUME Init PROVE RInv
    OBVIOUS
  <1>1. stream = <<>> /\ DOMAIN orders = {}
    BY DEF Init, VenueInit, Empty
  <1> QED
    BY <1>1, IInvInit DEF RInv, StreamInv, OrdersInv, RejectInv

(* The OMS calls an order rejected only if the exchange never had it, and  *)
(* no request that could still place it is under way: the error answer to  *)
(* a request that was sent again after a lost connection is ignored,       *)
(* because run_with_backoff forgot the request.                            *)
THEOREM RejectsTrue == Spec => []NoFalseReject
  <1>1. RInv => NoFalseReject
    BY DEF RInv, RejectInv, Gone, NoFalseReject
  <1> QED
    BY <1>1, RInvInit, RInvNext, PTL DEF Spec
-----------------------------------------------------------------------------
(* What the OMS knows.  Every order of the exchange's is compared with     *)
(* what is on its way about it (events) and with the OMS's record of it.   *)
(* All of it is about orders the exchange accepted once.                   *)

Closed(s) == s \notin {"NEW", "PARTIALLY_FILLED"}

(* The prices of an order's fills bound their sum. *)
ExchFits(x) ==
    /\ x.copies >= 1
    /\ x.lo <= x.hi
    /\ x.lo * x.filled <= x.cost /\ x.cost <= x.hi * x.filled
    /\ x.filled > 0 => x.hi > 0
    /\ x.hi > 0 => x.lo > 0

(* An event may be old, but then it is not the last word on its order. *)
EventSays(e, x) == e.status = x.status /\ e.z = x.filled

EventFits(e, x) ==
    x.copies = 1 =>
        /\ e.z <= x.filled
        /\ Closed(e.status) => EventSays(e, x)
        /\ e.L > 0 => x.lo <= e.L /\ e.L <= x.hi
        /\ e.L = 0 /\ e.z > 0 => Closed(e.status)

(* The OMS's record o of the exchange's order x: never ahead of it, and    *)
(* terminal only with the exchange's own outcome.  A record that has       *)
(* fills and no average has them from the last event of its order.         *)
Agrees(o, x) == o.status = map_status(x.status) /\ o.filled_qty = x.filled

AvgFits(avg, x) == avg[1] > 0 => x.lo * avg[2] <= avg[1] /\ avg[1] <= x.hi * avg[2]

RecordFits(o, x) ==
    x.copies = 1 =>
        /\ o.filled_qty <= x.filled
        /\ is_terminal(o.status) => Agrees(o, x)
        /\ AvgFits(o.avg_fill_price, x)
        /\ o.avg_fill_price[1] = 0 /\ o.filled_qty > 0 =>
               o.filled_qty = x.filled /\ Closed(x.status)

Untouched(o) == /\ o.status \in {"PendingNew", "Rejected"} /\ o.filled_qty = 0
                /\ o.avg_fill_price = <<0, 1>>

OmsRecord ==
    [symbol: {AnySymbol}, side: Side, status: OrderStatus, qty: Nat,
     filled_qty: Nat, avg_fill_price: Nat \X (Nat \ {0}),
     cumulative_commission: Nat, exchange_order_id: Nat]

Announced(c) == \E i \in 1 .. Len(stream) : stream[i].c = c

LastWord(s, i) == \A j \in 1 .. Len(s) : s[j].c = s[i].c => j <= i

VenueKnown == \A c \in DOMAIN exch : ExchFits(exch[c])

PhaseKnown ==
    /\ feed \in FeedPhase
    /\ subscribed \in BOOLEAN
    /\ subscribed <=> feed \in {"open_orders", "lookups", "reading"}
    /\ ~subscribed => stream = <<>>
    /\ feed = "open_orders" => complete

EventsKnown ==
    \A i \in 1 .. Len(stream) :
        LET e == stream[i]
        IN  /\ e.c \in DOMAIN exch
            /\ EventFits(e, exch[e.c])
            /\ exch[e.c].copies = 1 /\ LastWord(stream, i) => EventSays(e, exch[e.c])

RecordsKnown ==
    \A c \in DOMAIN orders :
        /\ orders[c] \in OmsRecord
        /\ c \in DOMAIN exch => RecordFits(orders[c], exch[c])
        /\ c \notin DOMAIN exch => Untouched(orders[c])

(* While the stream is open, what the OMS does not know yet of a finished  *)
(* order is in the stream or will be looked up, unless a REST call failed. *)
OutcomesKnown ==
    subscribed /\ complete => \A c \in DOMAIN orders :
        Done(c) => \/ Agrees(orders[c], exch[c])
                   \/ Announced(c)
                   \/ Reconciling /\ c \in local_live

KInv == VenueKnown /\ PhaseKnown /\ EventsKnown /\ RecordsKnown /\ OutcomesKnown

(* Larger factors, larger products. *)
LEMMA ProductMono ==
    ASSUME NEW a \in Nat, NEW b \in Nat, NEW k \in Nat, a <= b PROVE a * k <= b * k
  <1>1. PICK d \in Nat : b = a + d
    BY Z3
  <1>2. b * k = a * k + d * k /\ d * k \in Nat /\ a * k \in Nat
    BY <1>1, Z3
  <1> QED
    BY <1>2, Z3

(* The product of two quantities that are not zero. *)
LEMMA ProductPositive ==
    ASSUME NEW a \in Nat, NEW b \in Nat, a > 0, b > 0 PROVE a * b \in Nat /\ a * b > 0
  BY Z3

(* An average lies between the bounds of what is averaged. *)
LEMMA QuotientBounds ==
    ASSUME NEW lo \in Nat, NEW hi \in Nat, NEW cost \in Nat, NEW n \in Nat, n > 0,
           lo * n <= cost, cost <= hi * n
    PROVE  lo <= cost \div n /\ cost \div n <= hi /\ cost \div n \in Nat
  <1>1. PICK q \in Nat : q = cost \div n
    BY Z3
  <1>2. PICK m \in 0 .. n - 1 : cost = q * n + m
    BY <1>1, Z3
  <1>3. lo <= q
    <2> SUFFICES ASSUME q + 1 <= lo PROVE FALSE
      BY Z3
    <2>1. (q + 1) * n <= lo * n
      BY ProductMono
    <2>2. (q + 1) * n = q * n + n /\ q * n \in Nat
      BY Z3
    <2> QED
      BY <2>1, <2>2, <1>2, Z3
  <1>4. q <= hi
    <2> SUFFICES ASSUME hi + 1 <= q PROVE FALSE
      BY Z3
    <2>1. (hi + 1) * n <= q * n
      BY ProductMono
    <2>2. (hi + 1) * n = hi * n + n /\ hi * n \in Nat /\ q * n \in Nat
      BY Z3
    <2> QED
      BY <2>1, <2>2, <1>2, Z3
  <1> QED
    BY <1>1, <1>3, <1>4

(* A fill keeps the bounds on the prices, and only widens them. *)
LEMMA TradedFits ==
    ASSUME NEW x \in ExchOrder, NEW q \in Nat, NEW p \in Prices, q > 0,
           ExchFits(x)
    PROVE  LET y == Traded(x, q, p)
           IN  /\ y \in ExchOrder /\ ExchFits(y)
               /\ y.copies = x.copies /\ y.filled = x.filled + q
               /\ y.lo <= p /\ p <= y.hi
               /\ y.hi >= x.hi /\ (x.lo > 0 => y.lo <= x.lo)
  <1> DEFINE y == Traded(x, q, p)
  <1>1. y \in ExchOrder /\ p \in Nat /\ p > 0
    BY TradedType, VenueAssumption
  <1>2. /\ y.copies = x.copies /\ y.filled = x.filled + q /\ y.cost = x.cost + q * p
        /\ y.lo = IF x.lo = 0 \/ p < x.lo THEN p ELSE x.lo
        /\ y.hi = IF p > x.hi THEN p ELSE x.hi
    BY DEF Traded, ExchOrder
  <1>3. PICK f \in Nat, k \in Nat, lo \in Nat, hi \in Nat :
            f = x.filled /\ k = x.cost /\ lo = x.lo /\ hi = x.hi
    BY DEF ExchOrder
  <1>4. PICK l \in Nat, h \in Nat : l = y.lo /\ h = y.hi
    BY <1>1 DEF ExchOrder
  <1> HIDE DEF y
  <1>5. lo * f <= k /\ k <= hi * f /\ lo <= hi /\ (f > 0 => hi > 0) /\ (hi > 0 => lo > 0)
    BY <1>3 DEF ExchFits
  <1>6. /\ l = IF lo = 0 \/ p < lo THEN p ELSE lo
        /\ h = IF p > hi THEN p ELSE hi
    BY <1>2, <1>3, <1>4
  <1>7. l <= p /\ p <= h /\ l <= h /\ h >= hi /\ (lo > 0 => l <= lo) /\ l > 0
    BY <1>1, <1>5, <1>6
  <1>8. l * (f + q) = l * f + l * q /\ h * (f + q) = h * f + h * q
    BY Z3
  <1>9. l * q <= p * q /\ p * q <= h * q /\ hi * f <= h * f /\ q * p = p * q
    BY <1>1, <1>7, ProductMono
  <1>10. l * f <= lo * f
    <2>1. CASE f > 0
      BY <2>1, <1>5, <1>7, ProductMono
    <2>2. CASE f = 0
      BY <2>2
    <2> QED
      BY <2>1, <2>2
  <1>11. /\ l * f \in Nat /\ l * q \in Nat /\ h * f \in Nat /\ h * q \in Nat
         /\ p * q \in Nat /\ lo * f \in Nat /\ hi * f \in Nat
    BY <1>1, Z3
  <1>12. l * (f + q) <= k + q * p /\ k + q * p <= h * (f + q)
    BY <1>1, <1>5, <1>8, <1>9, <1>10, <1>11
  <1>13. ExchFits(y)
    BY <1>2, <1>3, <1>4, <1>5, <1>7, <1>12 DEF ExchFits
  <1> QED
    BY <1>1, <1>2, <1>3, <1>4, <1>7, <1>13 DEF y

(* The average after a fill at a price within the bounds is within them,   *)
(* whether or not a common factor was cancelled.                           *)
LEMMA BlendFits ==
    ASSUME NEW n \in Nat, NEW d \in Nat, d > 0, NEW filled \in Nat, NEW price \in Nat,
           NEW cum \in Nat, filled < cum, price > 0, NEW lo \in Nat, NEW hi \in Nat,
           lo <= price, price <= hi,
           n > 0 => lo * d <= n /\ n <= hi * d,
           n = 0 => filled = 0
    PROVE  LET b == Blend(<<n, d>>, filled, price, cum)
           IN  /\ b \in Nat \X (Nat \ {0}) /\ b[1] > 0
               /\ lo * b[2] <= b[1] /\ b[1] <= hi * b[2]
  <1>1. PICK k \in Nat : k = cum - filled /\ cum = filled + k /\ k > 0
    BY Z3
  <1>2. price * k \in Nat /\ price * k > 0
    BY <1>1, ProductPositive
  <1>3. lo * k <= price * k /\ price * k <= hi * k
    BY ProductMono
  <1>4. CASE d = filled
    <2>1. Blend(<<n, d>>, filled, price, cum) = <<n + price * k, cum>>
      BY <1>1, <1>4 DEF Blend
    <2>2. n > 0 /\ lo * filled <= n /\ n <= hi * filled
      BY <1>4
    <2>3. lo * cum = lo * filled + lo * k /\ hi * cum = hi * filled + hi * k
      BY <1>1, Z3
    <2>4. lo * filled \in Nat /\ lo * k \in Nat /\ hi * filled \in Nat /\ hi * k \in Nat
      BY Z3
    <2>5. lo * cum <= n + price * k /\ n + price * k <= hi * cum
      BY <1>2, <1>3, <2>2, <2>3, <2>4
    <2>6. n + price * k \in Nat /\ n + price * k > 0 /\ cum > 0
      BY <1>2
    <2> QED
      BY <2>1, <2>5, <2>6
  <1>5. CASE d # filled
    <2>1. PICK a \in Nat, c \in Nat, e \in Nat :
              a = n * filled /\ c = price * k * d /\ e = d * cum
      BY <1>2, Z3
    <2>2. Blend(<<n, d>>, filled, price, cum) = <<a + c, e>>
      BY <1>1, <1>5, <2>1 DEF Blend
    <2>3. c > 0 /\ e > 0
      BY <1>1, <1>2, <2>1, ProductPositive
    <2>4. (lo * d) * filled <= a /\ a <= (hi * d) * filled
      <3>1. lo * d \in Nat /\ hi * d \in Nat
        BY Z3
      <3>2. CASE n > 0
        BY <2>1, <3>1, <3>2, ProductMono
      <3>3. CASE n = 0
        BY <2>1, <3>1, <3>3
      <3> QED
        BY <3>2, <3>3
    <2>5. (lo * k) * d <= c /\ c <= (hi * k) * d
      <3>1. lo * k \in Nat /\ hi * k \in Nat
        BY Z3
      <3> QED
        BY <1>2, <1>3, <2>1, <3>1, ProductMono
    <2>6. lo * e = (lo * d) * filled + (lo * k) * d
      BY <1>1, <2>1, Z3
    <2>7. hi * e = (hi * d) * filled + (hi * k) * d
      BY <1>1, <2>1, Z3
    <2>8. /\ (lo * d) * filled \in Nat /\ (lo * k) * d \in Nat
          /\ (hi * d) * filled \in Nat /\ (hi * k) * d \in Nat
      BY Z3
    <2>9. lo * e <= a + c /\ a + c <= hi * e
      BY <2>4, <2>5, <2>6, <2>7, <2>8
    <2> QED
      BY <2>2, <2>3, <2>9
  <1> QED
    BY <1>4, <1>5

(* A report r about the exchange's order x. *)
ReportFits(r, x) ==
    x.copies = 1 =>
        /\ r.cum <= x.filled
        /\ is_terminal(r.status) => r.status = map_status(x.status) /\ r.cum = x.filled
        /\ r.price > 0 => x.lo <= r.price /\ r.price <= x.hi
        /\ r.price = 0 /\ r.cum > 0 => r.cum = x.filled /\ Closed(x.status)

(* The numerator and denominator of an average. *)
LEMMA AvgPair ==
    ASSUME NEW a \in Nat \X (Nat \ {0})
    PROVE  \E n \in Nat, d \in Nat : d > 0 /\ a = <<n, d>>
  OBVIOUS

(* A blended average is a pair of naturals, its denominator not zero. *)
LEMMA BlendType ==
    ASSUME NEW a \in Nat \X (Nat \ {0}), NEW filled \in Nat, NEW price \in Nat, NEW cum \in Nat,
           filled < cum
    PROVE  Blend(a, filled, price, cum) \in Nat \X (Nat \ {0})
  <1>1. PICK n \in Nat, d \in Nat : d > 0 /\ a = <<n, d>>
    BY AvgPair
  <1>2. PICK k \in Nat : k = cum - filled
    BY Z3
  <1>3. price * k \in Nat /\ n * filled \in Nat
    BY Z3
  <1>4. price * k * d \in Nat
    BY <1>3, Z3
  <1>5. d * cum \in Nat /\ d * cum > 0 /\ cum > 0
    BY <1>1, ProductPositive
  <1>6. CASE d = filled
    BY <1>1, <1>2, <1>3, <1>5, <1>6 DEF Blend
  <1>7. CASE d # filled
    <2>1. Blend(a, filled, price, cum) = <<n * filled + price * k * d, d * cum>>
      BY <1>1, <1>2, <1>7 DEF Blend
    <2> QED
      BY <1>3, <1>4, <1>5, <2>1
  <1> QED
    BY <1>6, <1>7

(* What apply_update makes of a record. *)
LEMMA AppliedFields ==
    ASSUME NEW o \in OmsRecord, NEW r \in Report
    PROVE  /\ Applied(o, r) \in OmsRecord
           /\ Applied(o, r).status = r.status
           /\ Applied(o, r).filled_qty = IF r.cum > o.filled_qty THEN r.cum ELSE o.filled_qty
           /\ Applied(o, r).avg_fill_price =
                  IF r.cum > o.filled_qty /\ r.price > 0
                  THEN Blend(o.avg_fill_price, o.filled_qty, r.price, r.cum)
                  ELSE o.avg_fill_price
  <1> DEFINE P == Nat \X (Nat \ {0})
             Y == {AnySymbol}
             f == IF r.cum > o.filled_qty THEN r.cum ELSE o.filled_qty
             a == IF r.cum > o.filled_qty /\ r.price > 0
                  THEN Blend(o.avg_fill_price, o.filled_qty, r.price, r.cum)
                  ELSE o.avg_fill_price
             c == o.cumulative_commission + r.commission
             y == Applied(o, r)
  <1>1. /\ r.cum \in Nat /\ r.price \in Nat /\ r.commission \in Nat
        /\ r.status \in OrderStatus /\ r.exchange_order_id \in Nat
    BY DEF Report
  <1>2. o.filled_qty \in Nat /\ o.avg_fill_price \in P /\ o.cumulative_commission \in Nat
    BY DEF OmsRecord
  <1>3. f \in Nat /\ c \in Nat
    BY <1>1, <1>2
  <1>4. a \in P
    <2>1. CASE r.cum > o.filled_qty
      <3>1. Blend(o.avg_fill_price, o.filled_qty, r.price, r.cum) \in P
        BY <1>1, <1>2, <2>1, BlendType
      <3> QED
        BY <1>2, <3>1
    <2>2. CASE ~(r.cum > o.filled_qty)
      BY <1>2, <2>2
    <2> QED
      BY <2>1, <2>2
  <1>5. y = [o EXCEPT !.filled_qty = f, !.avg_fill_price = a, !.cumulative_commission = c,
                      !.status = r.status, !.exchange_order_id = r.exchange_order_id]
    BY DEF Applied
  <1>6. o \in [symbol: Y, side: Side, status: OrderStatus, qty: Nat,
               filled_qty: Nat, avg_fill_price: P,
               cumulative_commission: Nat, exchange_order_id: Nat]
    BY DEF OmsRecord
  <1> HIDE DEF P, Y, f, a, c, y
  <1>7. /\ y \in [symbol: Y, side: Side, status: OrderStatus, qty: Nat,
                  filled_qty: Nat, avg_fill_price: P,
                  cumulative_commission: Nat, exchange_order_id: Nat]
        /\ y.filled_qty = f /\ y.avg_fill_price = a /\ y.status = r.status
    BY <1>1, <1>3, <1>4, <1>5, <1>6
  <1>8. y \in OmsRecord
    BY <1>7 DEF OmsRecord, P, Y
  <1> QED
    BY <1>7, <1>8 DEF f, a, y

(* A report that fits the exchange's order leaves a record that fits it,   *)
(* and one that tells its outcome a record that agrees with it.            *)
LEMMA AppliedFits ==
    ASSUME NEW o \in OmsRecord, NEW r \in Report, NEW x \in ExchOrder,
           RecordFits(o, x), ReportFits(r, x)
    PROVE  /\ RecordFits(Applied(o, r), x)
           /\ x.copies = 1 /\ r.status = map_status(x.status) /\ r.cum = x.filled =>
                  Agrees(Applied(o, r), x)
  <1> DEFINE y == Applied(o, r)
  <1> SUFFICES ASSUME x.copies = 1
               PROVE  /\ RecordFits(y, x)
                      /\ r.status = map_status(x.status) /\ r.cum = x.filled => Agrees(y, x)
    BY DEF RecordFits
  <1>1. /\ y.status = r.status
        /\ y.filled_qty = IF r.cum > o.filled_qty THEN r.cum ELSE o.filled_qty
        /\ y.avg_fill_price = IF r.cum > o.filled_qty /\ r.price > 0
                              THEN Blend(o.avg_fill_price, o.filled_qty, r.price, r.cum)
                              ELSE o.avg_fill_price
    BY AppliedFields
  <1> HIDE DEF y
  <1>2. PICK n \in Nat, d \in Nat : d > 0 /\ o.avg_fill_price = <<n, d>>
    <2>1. o.avg_fill_price \in Nat \X (Nat \ {0})
      BY DEF OmsRecord
    <2> QED
      BY <2>1, AvgPair
  <1>3. PICK f \in Nat, cum \in Nat, price \in Nat :
            f = o.filled_qty /\ cum = r.cum /\ price = r.price
    BY DEF OmsRecord, Report
  <1>4. PICK lo \in Nat, hi \in Nat, filled \in Nat :
            lo = x.lo /\ hi = x.hi /\ filled = x.filled
    BY DEF ExchOrder
  <1>5. /\ f <= filled
        /\ n > 0 => lo * d <= n /\ n <= hi * d
        /\ n = 0 /\ f > 0 => f = filled /\ Closed(x.status)
    BY <1>2, <1>3, <1>4 DEF RecordFits, AvgFits
  <1>6. /\ cum <= filled
        /\ is_terminal(r.status) => r.status = map_status(x.status) /\ cum = filled
        /\ price > 0 => lo <= price /\ price <= hi
        /\ price = 0 /\ cum > 0 => cum = filled /\ Closed(x.status)
    BY <1>3, <1>4 DEF ReportFits
  <1>7. y.filled_qty = (IF cum > f THEN cum ELSE f) /\ y.filled_qty <= filled
    BY <1>1, <1>3, <1>5, <1>6
  <1>8. r.status = map_status(x.status) /\ cum = filled => Agrees(y, x)
    <2>1. cum = filled => y.filled_qty = x.filled
      BY <1>4, <1>5, <1>7
    <2> QED
      BY <1>1, <2>1, Zenon DEF Agrees
  <1>9. is_terminal(y.status) => Agrees(y, x)
    BY <1>1, <1>6, <1>8
  <1>10. /\ AvgFits(y.avg_fill_price, x)
         /\ y.avg_fill_price[1] = 0 /\ y.filled_qty > 0 =>
                y.filled_qty = x.filled /\ Closed(x.status)
    <2>1. CASE cum > f /\ price > 0
      <3>1. n = 0 => f = 0
        BY <1>5, <1>6, <2>1
      <3>2. PICK b \in Nat \X (Nat \ {0}) : b = Blend(<<n, d>>, f, price, cum)
        <4>1. <<n, d>> \in Nat \X (Nat \ {0}) /\ f < cum
          BY <1>2, <2>1
        <4>2. Blend(<<n, d>>, f, price, cum) \in Nat \X (Nat \ {0})
          BY <4>1, BlendType
        <4> QED
          BY <4>2, Zenon
      <3>3. y.avg_fill_price = b
        BY <1>1, <1>2, <1>3, <2>1, <3>2
      <3>4. b[1] > 0 /\ lo * b[2] <= b[1] /\ b[1] <= hi * b[2]
        BY <1>2, <1>5, <1>6, <2>1, <3>1, <3>2, BlendFits
      <3> QED
        BY <1>4, <3>3, <3>4 DEF AvgFits
    <2>2. CASE ~(cum > f /\ price > 0)
      <3>1. y.avg_fill_price = <<n, d>>
        BY <1>1, <1>2, <1>3, <2>2
      <3>2. AvgFits(y.avg_fill_price, x)
        BY <1>4, <1>5, <3>1 DEF AvgFits
      <3>3. n = 0 /\ y.filled_qty > 0 => y.filled_qty = filled /\ Closed(x.status)
        BY <1>5, <1>6, <1>7, <2>2
      <3> QED
        BY <1>4, <3>1, <3>2, <3>3
    <2> QED
      BY <2>1, <2>2
  <1> QED
    BY <1>4, <1>7, <1>8, <1>9, <1>10, <1>3 DEF RecordFits, y

(* A closed order is a terminal one. *)
LEMMA ClosedTerminal ==
    ASSUME NEW s \in ExchStatus
    PROVE  map_status(s) \in OrderStatus /\ (is_terminal(map_status(s)) <=> Closed(s))
  BY DEF ExchStatus, map_status, OrderStatus, is_terminal, Closed

(* A report about one order leaves records that fit. *)
LEMMA UpdateFits ==
    ASSUME RInv, RecordsKnown, NEW c \in DOMAIN exch, NEW r \in Report,
           ReportFits(r, exch[c]), orders' = Update(c, r), exch' = exch
    PROVE  /\ RecordsKnown' /\ DOMAIN orders' = DOMAIN orders
           /\ \A d \in DOMAIN orders : d # c => orders'[d] = orders[d]
           /\ c \in DOMAIN orders /\ exch[c].copies = 1 /\ r.status = map_status(exch[c].status)
                  /\ r.cum = exch[c].filled => Agrees(orders'[c], exch[c])
  <1>1. CASE c \notin DOMAIN orders
    <2>1. orders' = orders
      BY <1>1 DEF Update
    <2> QED
      BY <1>1, <2>1 DEF RecordsKnown
  <1>2. CASE c \in DOMAIN orders
    <2> DEFINE y == Applied(orders[c], r)
    <2>1. orders' = Put(orders, c, y)
      BY <1>2 DEF Update
    <2>2. orders[c] \in OmsRecord /\ RecordFits(orders[c], exch[c]) /\ exch[c] \in ExchOrder
      BY <1>2 DEF RecordsKnown, RInv, IInv, TypeOK
    <2>3. y \in OmsRecord
      BY <2>2, AppliedFields
    <2>4. /\ RecordFits(y, exch[c])
          /\ exch[c].copies = 1 /\ r.status = map_status(exch[c].status)
                /\ r.cum = exch[c].filled => Agrees(y, exch[c])
      BY <2>2, AppliedFits
    <2> HIDE DEF y
    <2>5. /\ DOMAIN orders' = DOMAIN orders /\ orders'[c] = y
          /\ \A d \in DOMAIN orders : d # c => orders'[d] = orders[d]
      BY <1>2, <2>1 DEF Put
    <2>6. RecordsKnown'
      <3> SUFFICES ASSUME NEW d \in DOMAIN orders
                   PROVE  /\ orders'[d] \in OmsRecord
                          /\ d \in DOMAIN exch => RecordFits(orders'[d], exch[d])
                          /\ d \notin DOMAIN exch => Untouched(orders'[d])
        BY <2>5 DEF RecordsKnown
      <3>1. CASE d = c
        BY <2>3, <2>4, <2>5, <3>1
      <3>2. CASE d # c
        BY <2>5, <3>2 DEF RecordsKnown
      <3> QED
        BY <3>1, <3>2
    <2> QED
      BY <2>4, <2>5, <2>6
  <1> QED
    BY <1>1, <1>2

(* The report of an event, as handle_order_trade_update makes it. *)
EventReport(e) == [status |-> map_status(e.status), cum |-> e.z, price |-> e.L,
                   exchange_order_id |-> 1, commission |-> 0]

(* What handle_order_trade_update makes of an event fits what the event fits. *)
LEMMA EventReportFits ==
    ASSUME NEW e \in StreamEvent, NEW x \in ExchOrder, EventFits(e, x)
    PROVE  EventReport(e) \in Report /\ ReportFits(EventReport(e), x)
  <1>1. e.status \in ExchStatus /\ e.z \in Nat /\ e.L \in Nat
    BY DEF StreamEvent
  <1>2. map_status(e.status) \in OrderStatus /\ (is_terminal(map_status(e.status)) <=> Closed(e.status))
    BY <1>1, ClosedTerminal
  <1>3. EventReport(e) \in Report
    BY <1>1, <1>2 DEF EventReport, Report
  <1>4. /\ EventReport(e).status = map_status(e.status) /\ EventReport(e).cum = e.z
        /\ EventReport(e).price = e.L
    BY DEF EventReport
  <1>5. ReportFits(EventReport(e), x)
    BY <1>2, <1>4 DEF EventFits, EventSays, ReportFits
  <1> QED
    BY <1>3, <1>5

(* What reconcile_single_order learns fits the order it looked up. *)
LEMMA LookedFits ==
    ASSUME NEW x \in ExchOrder, ExchFits(x)
    PROVE  /\ Looked(x) \in Report /\ ReportFits(Looked(x), x)
           /\ Looked(x).status = map_status(x.status) /\ Looked(x).cum = x.filled
  <1>1. PICK f \in Nat, k \in Nat, lo \in Nat, hi \in Nat :
            f = x.filled /\ k = x.cost /\ lo = x.lo /\ hi = x.hi
    BY DEF ExchOrder
  <1>2. x.status \in ExchStatus
    BY DEF ExchOrder
  <1>3. map_status(x.status) \in OrderStatus
    BY <1>2, ClosedTerminal
  <1>4. lo * f <= k /\ k <= hi * f /\ (f > 0 => lo > 0)
    BY <1>1 DEF ExchFits
  <1>5. PICK p \in Nat : p = (IF f > 0 THEN k \div f ELSE 0) /\ (f > 0 => lo <= p /\ p <= hi)
    BY <1>4, QuotientBounds
  <1>6. Looked(x) = [status |-> map_status(x.status), cum |-> f, price |-> p,
                     exchange_order_id |-> 1, commission |-> 0]
    BY <1>1, <1>5 DEF Looked
  <1>7. Looked(x) \in Report
    BY <1>3, <1>6 DEF Report
  <1>8. f > 0 => p > 0
    BY <1>4, <1>5
  <1>9. p > 0 => lo <= p /\ p <= hi
    BY <1>5
  <1>10. ReportFits(Looked(x), x)
    BY <1>1, <1>6, <1>8, <1>9 DEF ReportFits
  <1> QED
    BY <1>1, <1>6, <1>7, <1>10

-----------------------------------------------------------------------------
(* The exchange's order c becomes x: it trades or ends, its id is taken    *)
(* again, or it is new and the OMS has not written it off.                 *)
Moves(c, x) ==
    \/ /\ c \in Open /\ x.copies = exch[c].copies /\ exch[c].filled <= x.filled
       /\ exch[c].hi <= x.hi /\ (exch[c].lo > 0 => x.lo <= exch[c].lo)
    \/ c \in DOMAIN exch /\ x.copies # 1
    \/ c \notin DOMAIN exch /\ (c \in DOMAIN orders => orders[c].status # "Rejected")

(* The events sent about it, the last of which says what it has become. *)
Tells(evs, c, x) ==
    /\ evs \in Seq(StreamEvent) /\ evs # <<>>
    /\ \A i \in 1 .. Len(evs) : evs[i].c = c /\ EventFits(evs[i], x)
    /\ EventSays(evs[Len(evs)], x)

(* Old events and records still fit an order that has moved on. *)
LEMMA MovedEventFits ==
    ASSUME NEW c, NEW x \in ExchOrder, Moves(c, x), c \in DOMAIN exch, exch[c] \in ExchOrder,
           NEW e \in StreamEvent, EventFits(e, exch[c]), ExchFits(exch[c])
    PROVE  EventFits(e, x)
  <1> SUFFICES ASSUME x.copies = 1 PROVE EventFits(e, x)
    BY DEF EventFits
  <1>1. /\ c \in Open /\ exch[c].copies = 1 /\ exch[c].filled <= x.filled
        /\ exch[c].hi <= x.hi /\ (exch[c].lo > 0 => x.lo <= exch[c].lo)
    BY DEF Moves
  <1>2. /\ x.lo \in Nat /\ x.hi \in Nat /\ x.filled \in Nat
        /\ exch[c].lo \in Nat /\ exch[c].hi \in Nat /\ exch[c].filled \in Nat
        /\ e.L \in Nat /\ e.z \in Nat
    BY DEF ExchOrder, StreamEvent
  <1>3. ~Closed(exch[c].status)
    BY <1>1 DEF Open, Closed
  <1>4. ~Closed(e.status)
    BY <1>1, <1>3 DEF EventFits, EventSays
  <1>5. e.L > 0 => x.lo <= e.L /\ e.L <= x.hi
    BY <1>1, <1>2 DEF EventFits, ExchFits
  <1> QED
    BY <1>1, <1>2, <1>4, <1>5 DEF EventFits

(* As MovedEventFits, for the OMS's record. *)
LEMMA MovedRecordFits ==
    ASSUME NEW c, NEW x \in ExchOrder, Moves(c, x), c \in DOMAIN exch, exch[c] \in ExchOrder,
           NEW o \in OmsRecord, RecordFits(o, exch[c]), ExchFits(exch[c])
    PROVE  RecordFits(o, x)
  <1> SUFFICES ASSUME x.copies = 1 PROVE RecordFits(o, x)
    BY DEF RecordFits
  <1>1. /\ c \in Open /\ exch[c].copies = 1 /\ exch[c].filled <= x.filled
        /\ exch[c].hi <= x.hi /\ (exch[c].lo > 0 => x.lo <= exch[c].lo)
    BY DEF Moves
  <1>2. PICK lo \in Nat, hi \in Nat, f \in Nat :
            lo = exch[c].lo /\ hi = exch[c].hi /\ f = exch[c].filled
    BY DEF ExchOrder
  <1>3. PICK l \in Nat, h \in Nat : l = x.lo /\ h = x.hi
    BY DEF ExchOrder
  <1>4. ~Closed(exch[c].status) /\ exch[c].status \in ExchStatus
    BY <1>1 DEF Open, Closed, ExchOrder
  <1>5. ~is_terminal(o.status)
    BY <1>1, <1>4, ClosedTerminal DEF RecordFits, Agrees
  <1>6. o.filled_qty <= x.filled
    <2>1. o.filled_qty \in Nat /\ x.filled \in Nat
      BY DEF OmsRecord, ExchOrder
    <2> QED
      BY <1>1, <1>2, <2>1 DEF RecordFits
  <1>7. PICK n \in Nat, d \in Nat : d > 0 /\ o.avg_fill_price = <<n, d>>
    <2>1. o.avg_fill_price \in Nat \X (Nat \ {0})
      BY DEF OmsRecord
    <2> QED
      BY <2>1, AvgPair
  <1>8. ~(n = 0 /\ o.filled_qty > 0)
    BY <1>1, <1>4, <1>7 DEF RecordFits
  <1>9. n > 0 => l * d <= n /\ n <= h * d
    <2> SUFFICES ASSUME n > 0 PROVE l * d <= n /\ n <= h * d
      OBVIOUS
    <2>1. lo * d <= n /\ n <= hi * d
      BY <1>1, <1>2, <1>7 DEF RecordFits, AvgFits
    <2>2. hi > 0
      <3>1. hi = 0 => hi * d = 0
        BY Z3
      <3> QED
        BY <2>1, <3>1
    <2>3. l <= lo /\ hi <= h
      BY <1>1, <1>2, <1>3, <2>2 DEF ExchFits
    <2>4. l * d <= lo * d /\ hi * d <= h * d
      BY <2>3, ProductMono
    <2>5. l * d \in Nat /\ lo * d \in Nat /\ hi * d \in Nat /\ h * d \in Nat
      BY Z3
    <2> QED
      BY <2>1, <2>4, <2>5
  <1>10. AvgFits(o.avg_fill_price, x)
    BY <1>3, <1>7, <1>9 DEF AvgFits
  <1> QED
    BY <1>5, <1>6, <1>7, <1>8, <1>10 DEF RecordFits

(* A record the exchange has not touched fits a new order. *)
LEMMA UntouchedFits ==
    ASSUME NEW o \in OmsRecord, Untouched(o), o.status # "Rejected", NEW x \in ExchOrder
    PROVE  RecordFits(o, x)
  <1>1. /\ o.status = "PendingNew" /\ o.filled_qty = 0
        /\ o.avg_fill_price[1] = 0 /\ o.avg_fill_price[2] = 1
    BY DEF Untouched
  <1>2. x.filled \in Nat
    BY DEF ExchOrder
  <1> QED
    BY <1>1, <1>2 DEF RecordFits, AvgFits, is_terminal

(* Events of s, then those of t. *)
LEMMA Joined ==
    ASSUME NEW S, NEW s \in Seq(S), NEW t \in Seq(S)
    PROVE  /\ s \o t \in Seq(S) /\ Len(s \o t) = Len(s) + Len(t)
           /\ Len(s) \in Nat /\ Len(t) \in Nat
           /\ \A i \in 1 .. Len(s) : (s \o t)[i] = s[i]
           /\ \A i \in 1 .. Len(t) : (s \o t)[Len(s) + i] = t[i]
           /\ \A i \in 1 .. Len(s) + Len(t) : i > Len(s) => (s \o t)[i] = t[i - Len(s)]
  OBVIOUS

(* The facts are kept when an order moves and the stream, if open, tells. *)
LEMMA MovePreservesKnown ==
    ASSUME RInv, KInv, NEW c, NEW x \in ExchOrder, ExchFits(x), Moves(c, x),
           exch' = Put(exch, c, x),
           NEW evs, Tells(evs, c, x), Announce(evs),
           UNCHANGED <<orders, subscribed, feedvars>>
    PROVE  KInv'
  <1>1. /\ DOMAIN exch' = DOMAIN exch \cup {c} /\ exch'[c] = x
        /\ \A d \in DOMAIN exch : d # c => exch'[d] = exch[d]
    BY DEF Put
  <1>2. \A d \in DOMAIN exch : exch[d] \in ExchOrder /\ ExchFits(exch[d])
    BY DEF RInv, IInv, TypeOK, KInv, VenueKnown
  <1>3. stream \in Seq(StreamEvent) /\ evs \in Seq(StreamEvent)
    BY DEF RInv, StreamInv, Tells
  <1>4. VenueKnown'
    BY <1>1, <1>2 DEF VenueKnown
  <1>5. PhaseKnown'
    BY DEF KInv, PhaseKnown, Announce, feedvars
  <1>6. RecordsKnown'
    <2> SUFFICES ASSUME NEW d \in DOMAIN orders
                 PROVE  /\ orders[d] \in OmsRecord
                        /\ d \in DOMAIN exch' => RecordFits(orders[d], exch'[d])
                        /\ d \notin DOMAIN exch' => Untouched(orders[d])
      BY DEF RecordsKnown
    <2>1. /\ orders[d] \in OmsRecord
          /\ d \in DOMAIN exch => RecordFits(orders[d], exch[d])
          /\ d \notin DOMAIN exch => Untouched(orders[d])
      BY DEF KInv, RecordsKnown
    <2>2. CASE d # c
      BY <1>1, <2>1, <2>2
    <2>3. CASE d = c /\ c \in DOMAIN exch
      BY <1>1, <1>2, <2>1, <2>3, MovedRecordFits
    <2>4. CASE d = c /\ c \notin DOMAIN exch
      <3>1. orders[c].status # "Rejected"
        BY <2>4 DEF Moves, Open
      <3> QED
        BY <1>1, <2>1, <2>4, <3>1, UntouchedFits
    <2> QED
      BY <2>2, <2>3, <2>4
  <1>7. CASE ~subscribed
    <2>1. stream' = <<>>
      BY <1>7 DEF KInv, PhaseKnown, Announce
    <2>2. EventsKnown'
      BY <2>1 DEF EventsKnown
    <2>3. OutcomesKnown'
      BY <1>7 DEF OutcomesKnown
    <2> QED
      BY <1>4, <1>5, <1>6, <2>2, <2>3 DEF KInv
  <1>8. CASE subscribed
    <2>1. PICK n \in Nat, m \in Nat : n = Len(stream) /\ m = Len(evs) /\ m > 0
      BY <1>3 DEF Tells
    <2>2. /\ Len(stream') = n + m
          /\ \A i \in 1 .. n : stream'[i] = stream[i]
          /\ \A i \in 1 .. m : stream'[n + i] = evs[i]
          /\ \A i \in 1 .. n + m : i > n => stream'[i] = evs[i - n]
      BY <1>3, <1>8, <2>1, Joined DEF Announce
    <2>3. /\ \A i \in 1 .. m : evs[i].c = c /\ EventFits(evs[i], x)
          /\ EventSays(evs[m], x)
      BY <2>1 DEF Tells
    <2>4. stream'[n + m] = evs[m] /\ stream'[n + m].c = c
      BY <2>1, <2>2, <2>3
    <2>5. EventsKnown'
      <3> SUFFICES ASSUME NEW i \in 1 .. n + m, NEW e, e = stream'[i]
                   PROVE  /\ e.c \in DOMAIN exch' /\ EventFits(e, exch'[e.c])
                          /\ exch'[e.c].copies = 1 /\ LastWord(stream', i) =>
                                 EventSays(e, exch'[e.c])
        BY <2>2 DEF EventsKnown
      <3>1. CASE i <= n
        <4>1. i \in 1 .. n /\ e = stream[i] /\ e \in StreamEvent
          BY <1>3, <2>1, <2>2, <3>1
        <4>2. /\ e.c \in DOMAIN exch /\ EventFits(e, exch[e.c])
              /\ exch[e.c].copies = 1 /\ LastWord(stream, i) => EventSays(e, exch[e.c])
          BY <2>1, <4>1 DEF KInv, EventsKnown
        <4>3. CASE e.c = c
          <5>1. EventFits(e, x)
            BY <1>2, <4>1, <4>2, <4>3, MovedEventFits
          <5>2. ~LastWord(stream', i)
            BY <2>1, <2>2, <2>4, <3>1, <4>3 DEF LastWord
          <5> QED
            BY <1>1, <4>3, <5>1, <5>2
        <4>4. CASE e.c # c
          <5>1. LastWord(stream', i) => LastWord(stream, i)
            BY <2>1, <2>2, <4>1 DEF LastWord
          <5> QED
            BY <1>1, <4>2, <4>4, <5>1
        <4> QED
          BY <4>3, <4>4
      <3>2. CASE i > n
        <4>1. PICK k \in 1 .. m : k = i - n /\ i = n + k
          BY <3>2
        <4>2. e = evs[k] /\ e.c = c /\ EventFits(e, x)
          BY <2>2, <2>3, <4>1
        <4>3. LastWord(stream', i) => k = m
          <5> SUFFICES ASSUME LastWord(stream', i) PROVE k = m
            OBVIOUS
          <5>1. n + m \in 1 .. Len(stream')
            BY <2>1, <2>2
          <5>2. n + m <= i
            BY <2>4, <4>2, <5>1 DEF LastWord
          <5> QED
            BY <4>1, <5>2
        <4> QED
          BY <1>1, <2>3, <4>2, <4>3
      <3> QED
        BY <3>1, <3>2
    <2>6. OutcomesKnown'
      <3> SUFFICES ASSUME complete', NEW d \in DOMAIN orders', Done(d)'
                   PROVE  \/ Agrees(orders[d], exch'[d])
                          \/ Announced(d)'
                          \/ Reconciling /\ d \in local_live
        BY DEF OutcomesKnown, Reconciling, feedvars
      <3>1. CASE d = c
        <4>1. n + m \in 1 .. Len(stream')
          BY <2>1, <2>2
        <4> QED
          BY <2>4, <3>1, <4>1 DEF Announced
      <3>2. CASE d # c
        <4>1. Done(d) /\ exch'[d] = exch[d] /\ d \in DOMAIN orders /\ complete
          BY <1>1, <3>2 DEF Done, OnlyCopy, Open, feedvars
        <4>2. \/ Agrees(orders[d], exch[d])
              \/ Announced(d)
              \/ Reconciling /\ d \in local_live
          BY <1>8, <4>1 DEF KInv, OutcomesKnown
        <4>3. Announced(d) => Announced(d)'
          <5> SUFFICES ASSUME NEW i \in 1 .. Len(stream), stream[i].c = d
                       PROVE  \E j \in 1 .. Len(stream') : stream'[j].c = d
            BY DEF Announced
          <5>1. i \in 1 .. Len(stream') /\ stream'[i] = stream[i]
            BY <2>1, <2>2
          <5> QED
            BY <5>1
        <4> QED
          BY <4>1, <4>2, <4>3
      <3> QED
        BY <3>1, <3>2
    <2> QED
      BY <1>4, <1>5, <1>6, <2>5, <2>6 DEF KInv
  <1> QED
    BY <1>7, <1>8

(* An event about what the order has just become fits it. *)
LEMMA OwnEventFits ==
    ASSUME NEW c \in Ids, NEW x \in ExchOrder, NEW p \in Nat,
           p > 0 => x.lo <= p /\ p <= x.hi,
           p = 0 /\ x.filled > 0 => Closed(x.status)
    PROVE  /\ Event(c, x, p) \in StreamEvent /\ Event(c, x, p).c = c
           /\ EventFits(Event(c, x, p), x) /\ EventSays(Event(c, x, p), x)
  <1>1. /\ Event(c, x, p).c = c /\ Event(c, x, p).status = x.status
        /\ Event(c, x, p).z = x.filled /\ Event(c, x, p).L = p
    BY DEF Event
  <1>2. x.filled \in Nat
    BY DEF ExchOrder
  <1> QED
    BY <1>1, <1>2, EventType DEF EventFits, EventSays

(* One event that tells, or one before it that fits. *)
LEMMA OneTells ==
    ASSUME NEW c, NEW x, NEW e \in StreamEvent, e.c = c, EventFits(e, x), EventSays(e, x)
    PROVE  Tells(<<e>>, c, x)
  <1>1. <<e>> \in Seq(StreamEvent) /\ <<e>> # <<>> /\ Len(<<e>>) = 1 /\ <<e>>[1] = e
    OBVIOUS
  <1> QED
    BY <1>1 DEF Tells

(* The two events of a market order. *)
LEMMA TwoTell ==
    ASSUME NEW c, NEW x, NEW e \in StreamEvent, e.c = c, EventFits(e, x), EventSays(e, x),
           NEW f \in StreamEvent, f.c = c, EventFits(f, x)
    PROVE  Tells(<<f, e>>, c, x)
  <1>1. /\ <<f, e>> \in Seq(StreamEvent) /\ <<f, e>> # <<>> /\ Len(<<f, e>>) = 2
        /\ <<f, e>>[1] = f /\ <<f, e>>[2] = e
    OBVIOUS
  <1>2. \A i \in 1 .. 2 : i = 1 \/ i = 2
    OBVIOUS
  <1> QED
    BY <1>1, <1>2 DEF Tells

(* A cancelled or expired order. *)
LEMMA FinishKnown ==
    ASSUME RInv, KInv, NEW c \in Open, c \in Ids, NEW s \in {"CANCELED", "EXPIRED"}, Finish(c, s),
           UNCHANGED <<orders, subscribed, feedvars>>
    PROVE  KInv'
  <1>1. exch[c] \in ExchOrder /\ ExchFits(exch[c])
    BY DEF RInv, IInv, TypeOK, KInv, VenueKnown, Open
  <1>2. PICK x \in ExchOrder : x = [exch[c] EXCEPT !.status = s]
    BY <1>1, FinishedType
  <1>3. /\ x.status = s /\ x.filled = exch[c].filled /\ x.cost = exch[c].cost
        /\ x.lo = exch[c].lo /\ x.hi = exch[c].hi /\ x.copies = exch[c].copies
    BY <1>1, <1>2 DEF ExchOrder
  <1>4. ExchFits(x)
    BY <1>1, <1>3 DEF ExchFits
  <1>5. /\ exch[c].filled <= x.filled /\ exch[c].hi <= x.hi /\ x.lo <= exch[c].lo
    BY <1>1, <1>3 DEF ExchOrder
  <1>6. Moves(c, x)
    BY <1>3, <1>5 DEF Moves
  <1>7. Tells(<<Event(c, x, 0)>>, c, x)
    <2>1. Closed(x.status)
      BY <1>3 DEF Closed
    <2> QED
      BY <2>1, OwnEventFits, OneTells
  <1>8. exch' = Put(exch, c, x) /\ Announce(<<Event(c, x, 0)>>)
    BY <1>2 DEF Finish
  <1> QED
    BY <1>4, <1>6, <1>7, <1>8, MovePreservesKnown

(* A fill of an open order. *)
LEMMA FillKnown ==
    ASSUME RInv, KInv, NEW c \in LimitIds, NEW p \in Prices, Fill(c, p), UNCHANGED feedvars
    PROVE  KInv'
  <1>1. c \in Open /\ c \in Ids /\ UNCHANGED <<orders, subscribed>> /\ p \in Nat /\ p > 0
    BY VenueAssumption DEF Fill, Ids
  <1>2. exch[c] \in ExchOrder /\ ExchFits(exch[c])
    BY <1>1 DEF RInv, IInv, TypeOK, KInv, VenueKnown, Open
  <1>3. PICK x : x = Traded(exch[c], 1, p)
    OBVIOUS
  <1>4. /\ x \in ExchOrder /\ ExchFits(x)
        /\ x.copies = exch[c].copies /\ x.filled = exch[c].filled + 1
        /\ x.lo <= p /\ p <= x.hi
        /\ x.hi >= exch[c].hi /\ (exch[c].lo > 0 => x.lo <= exch[c].lo)
    BY <1>2, <1>3, TradedFits
  <1>5. Moves(c, x)
    BY <1>1, <1>2, <1>4 DEF Moves, ExchOrder
  <1>6. Tells(<<Event(c, x, p)>>, c, x)
    BY <1>1, <1>4, OwnEventFits, OneTells
  <1>7. exch' = Put(exch, c, x) /\ Announce(<<Event(c, x, p)>>)
    BY <1>3 DEF Fill
  <1> QED
    BY <1>1, <1>4, <1>5, <1>6, <1>7, MovePreservesKnown

(* An order the exchange has just accepted. *)
LEMMA AcceptedFits ==
    ASSUME RInv, KInv, NEW c
    PROVE  /\ Accepted(c) \in ExchOrder /\ ExchFits(Accepted(c))
           /\ Accepted(c).status = "NEW" /\ Accepted(c).filled = 0
           /\ c \in DOMAIN exch => Accepted(c).copies # 1
  <1>1. c \in DOMAIN exch => exch[c].copies \in Nat /\ exch[c].copies >= 1
    BY DEF RInv, IInv, TypeOK, ExchOrder, KInv, VenueKnown, ExchFits
  <1>2. PICK k \in Nat : k = (IF c \in DOMAIN exch THEN exch[c].copies + 1 ELSE 1) /\ k >= 1
                         /\ (c \in DOMAIN exch => k # 1)
    BY <1>1
  <1>3. Accepted(c) = [status |-> "NEW", filled |-> 0, cost |-> 0, lo |-> 0, hi |-> 0, copies |-> k]
    BY <1>2 DEF Accepted
  <1>4. 0 * 0 <= 0
    OBVIOUS
  <1> QED
    BY <1>2, <1>3, <1>4 DEF ExchOrder, ExchStatus, ExchFits

(* A request reaches the exchange. *)
LEMMA ReceiveKnown ==
    ASSUME RInv, KInv, Receive, UNCHANGED <<gateway, feedvars, used>>
    PROVE  KInv'
  <1>1. PICK c \in Ids : c = Head(wire).cid /\ Head(wire) \in All
    <2>1. wire # <<>>
      BY DEF Receive
    <2>2. Head(wire) \in Request /\ Head(wire) \in Elems(wire)
      BY <2>1, ElemsTail DEF RInv, IInv, TypeOK
    <2> QED
      BY <2>2 DEF Request, All
  <1>2. UNCHANGED <<orders, subscribed>>
    BY DEF Receive
  <1>3. CASE UNCHANGED <<exch, stream>>
    BY <1>2, <1>3 DEF KInv, VenueKnown, PhaseKnown, EventsKnown, RecordsKnown, OutcomesKnown,
                      Done, OnlyCopy, Open, Announced, Reconciling, feedvars
  <1>4. CASE c \in Open /\ Finish(c, "CANCELED")
    BY <1>2, <1>4, FinishKnown
  <1>5. CASE Places(Head(wire)) /\ ~UNCHANGED <<exch, stream>>
    <2>1. PICK y : y = Accepted(c)
      OBVIOUS
    <2>2. /\ y \in ExchOrder /\ ExchFits(y) /\ y.status = "NEW" /\ y.filled = 0
          /\ c \in DOMAIN exch => y.copies # 1
      BY <2>1, AcceptedFits
    <2>3. c \notin DOMAIN exch => (c \in DOMAIN orders => orders[c].status # "Rejected")
      BY <1>1, <1>5 DEF RInv, RejectInv, Gone
    <2>4. Event(c, y, 0) \in StreamEvent /\ Event(c, y, 0).c = c
      BY <2>2, EventType DEF Event
    <2>5. CASE c \in LimitIds
      <3>1. exch' = Put(exch, c, y) /\ Announce(<<Event(c, y, 0)>>)
        BY <1>1, <1>5, <2>1, <2>5 DEF Receive, Place, Places
      <3>2. Tells(<<Event(c, y, 0)>>, c, y)
        BY <2>2, OwnEventFits, OneTells
      <3>3. Moves(c, y)
        BY <2>2, <2>3 DEF Moves
      <3> QED
        BY <1>2, <2>2, <3>1, <3>2, <3>3, MovePreservesKnown
    <2>6. CASE c \notin LimitIds
      <3>1. PICK p \in Prices :
                LET x == Traded(y, Lot, p)
                IN  exch' = Put(exch, c, x) /\ Announce(<<Event(c, y, 0), Event(c, x, p)>>)
        BY <1>1, <1>5, <2>1, <2>6 DEF Receive, Place, Places
      <3>2. PICK x : x = Traded(y, Lot, p)
        OBVIOUS
      <3>3. p \in Nat /\ p > 0 /\ Lot \in Nat /\ Lot > 0
        BY VenueAssumption
      <3>4. /\ x \in ExchOrder /\ ExchFits(x) /\ x.copies = y.copies /\ x.filled = Lot
            /\ x.lo <= p /\ p <= x.hi
        BY <2>2, <3>2, <3>3, TradedFits
      <3>5. /\ Event(c, x, p) \in StreamEvent /\ Event(c, x, p).c = c
            /\ EventFits(Event(c, x, p), x) /\ EventSays(Event(c, x, p), x)
        BY <3>3, <3>4, OwnEventFits
      <3>6. EventFits(Event(c, y, 0), x)
        BY <2>2, <3>3, <3>4 DEF EventFits, Event, Closed
      <3>7. Tells(<<Event(c, y, 0), Event(c, x, p)>>, c, x)
        BY <2>4, <3>5, <3>6, TwoTell
      <3>8. Moves(c, x)
        BY <2>2, <2>3, <3>4 DEF Moves
      <3> QED
        BY <1>2, <3>1, <3>2, <3>4, <3>7, <3>8, MovePreservesKnown
    <2> QED
      BY <2>5, <2>6
  <1> QED
    BY <1>1, <1>3, <1>4, <1>5 DEF Receive, Place, Places

-----------------------------------------------------------------------------
(* An event is read: the rest of the stream is known, and if it was the    *)
(* last word on its order, so is the outcome.                              *)
LEMMA MessageKnown ==
    ASSUME RInv, KInv, handle_message PROVE KInv'
  <1>1. /\ feed = "reading" /\ stream # <<>> /\ stream' = Tail(stream)
        /\ UNCHANGED <<exch, subscribed, feedvars>>
        /\ orders' = Update(Head(stream).c, EventReport(Head(stream)))
    BY DEF handle_message, EventReport
  <1>2. stream \in Seq(StreamEvent)
    BY DEF RInv, StreamInv
  <1>3. PICK n \in Nat : n = Len(stream) /\ n > 0
    BY <1>1, <1>2
  <1>4. PICK e \in StreamEvent : e = Head(stream) /\ e = stream[1]
    BY <1>1, <1>2
  <1>5. /\ e.c \in DOMAIN exch /\ EventFits(e, exch[e.c])
        /\ exch[e.c].copies = 1 /\ LastWord(stream, 1) => EventSays(e, exch[e.c])
    BY <1>3, <1>4 DEF KInv, EventsKnown
  <1>6. Len(stream') = n - 1 /\ \A i \in 1 .. n - 1 : stream'[i] = stream[i + 1]
    BY <1>1, <1>2, <1>3
  <1>7. exch[e.c] \in ExchOrder
    BY <1>5 DEF RInv, IInv, TypeOK
  <1>8. EventReport(e) \in Report /\ ReportFits(EventReport(e), exch[e.c])
    BY <1>5, <1>7, EventReportFits
  <1>9. /\ RecordsKnown' /\ DOMAIN orders' = DOMAIN orders
        /\ \A d \in DOMAIN orders : d # e.c => orders'[d] = orders[d]
        /\ e.c \in DOMAIN orders /\ exch[e.c].copies = 1
              /\ EventReport(e).status = map_status(exch[e.c].status)
              /\ EventReport(e).cum = exch[e.c].filled => Agrees(orders'[e.c], exch[e.c])
    BY <1>1, <1>4, <1>5, <1>8, UpdateFits DEF KInv
  <1>10. VenueKnown'
    BY <1>1 DEF KInv, VenueKnown
  <1>11. PhaseKnown'
    BY <1>1 DEF KInv, PhaseKnown, feedvars
  <1>12. EventsKnown'
    <2> SUFFICES ASSUME NEW i \in 1 .. n - 1, NEW g, g = stream'[i]
                 PROVE  /\ g.c \in DOMAIN exch /\ EventFits(g, exch[g.c])
                        /\ exch[g.c].copies = 1 /\ LastWord(stream', i) =>
                               EventSays(g, exch[g.c])
      BY <1>1, <1>6 DEF EventsKnown
    <2>1. i + 1 \in 1 .. n /\ g = stream[i + 1]
      BY <1>6
    <2>2. LastWord(stream', i) => LastWord(stream, i + 1)
      <3> SUFFICES ASSUME LastWord(stream', i), NEW j \in 1 .. n, stream[j].c = g.c
                   PROVE  j <= i + 1
        BY <1>3, <2>1 DEF LastWord
      <3>1. CASE j = 1
        BY <3>1
      <3>2. CASE j > 1
        <4>1. j - 1 \in 1 .. n - 1 /\ stream'[j - 1] = stream[j]
          BY <1>6, <3>2
        <4>2. j - 1 <= i
          BY <1>6, <4>1 DEF LastWord
        <4> QED
          BY <4>2
      <3> QED
        BY <3>1, <3>2
    <2> QED
      BY <1>3, <2>1, <2>2 DEF KInv, EventsKnown
  <1>13. OutcomesKnown'
    <2> SUFFICES ASSUME subscribed, complete, NEW d \in DOMAIN orders, Done(d)
                 PROVE  Agrees(orders'[d], exch[d]) \/ Announced(d)'
      BY <1>1, <1>9 DEF OutcomesKnown, Done, OnlyCopy, Open, feedvars
    <2>1. Agrees(orders[d], exch[d]) \/ Announced(d)
      BY <1>1 DEF KInv, OutcomesKnown, Reconciling
    <2>2. ASSUME NEW i \in 1 .. n, i > 1, stream[i].c = d PROVE Announced(d)'
      <3>1. i - 1 \in 1 .. Len(stream') /\ stream'[i - 1] = stream[i]
        BY <1>6, <2>2
      <3> QED
        BY <2>2, <3>1 DEF Announced
    <2>3. CASE d = e.c
      <3>1. CASE LastWord(stream, 1)
        <4>1. exch[d].copies = 1
          BY DEF Done, OnlyCopy
        <4>2. EventSays(e, exch[d])
          BY <1>5, <2>3, <3>1, <4>1
        <4>3. /\ EventReport(e).status = map_status(exch[d].status)
              /\ EventReport(e).cum = exch[d].filled
          BY <4>2 DEF EventReport, EventSays
        <4> QED
          BY <1>9, <2>3, <4>1, <4>3
      <3>2. CASE ~LastWord(stream, 1)
        <4>1. PICK j \in 1 .. n : stream[j].c = d /\ ~(j <= 1)
          BY <1>3, <1>4, <2>3, <3>2 DEF LastWord
        <4> QED
          BY <2>2, <4>1
      <3> QED
        BY <3>1, <3>2
    <2>4. CASE d # e.c
      <3>1. Announced(d) => Announced(d)'
        <4> SUFFICES ASSUME NEW i \in 1 .. n, stream[i].c = d PROVE Announced(d)'
          BY <1>3 DEF Announced
        <4>1. i > 1
          BY <1>4, <2>4
        <4> QED
          BY <2>2, <4>1
      <3> QED
        BY <1>9, <2>1, <2>4, <3>1
    <2> QED
      BY <2>3, <2>4
  <1> QED
    BY <1>9, <1>10, <1>11, <1>12, <1>13 DEF KInv

(* An order is looked up. *)
LEMMA LookupKnown ==
    ASSUME RInv, KInv, NEW c \in local_live, NEW ok \in BOOLEAN, reconcile_single_order(c, ok)
    PROVE  KInv'
  <1>1. /\ feed = "lookups" /\ local_live' = local_live \ {c}
        /\ feed' = (IF local_live' = {} THEN "reading" ELSE "lookups")
        /\ complete' = (complete /\ ok)
        /\ UNCHANGED <<exch, stream, subscribed>>
    BY DEF reconcile_single_order, venue
  <1>2. VenueKnown' /\ EventsKnown'
    BY <1>1 DEF KInv, VenueKnown, EventsKnown
  <1>3. PhaseKnown'
    BY <1>1 DEF KInv, PhaseKnown, FeedPhase
  <1>4. /\ RecordsKnown' /\ DOMAIN orders' = DOMAIN orders
        /\ \A d \in DOMAIN orders : d # c => orders'[d] = orders[d]
        /\ ok /\ c \in DOMAIN orders /\ Done(c) => Agrees(orders'[c], exch[c])
    <2>1. CASE ok /\ c \in DOMAIN exch
      <3>1. exch[c] \in ExchOrder /\ ExchFits(exch[c])
        BY <2>1 DEF RInv, IInv, TypeOK, KInv, VenueKnown
      <3>2. /\ Looked(exch[c]) \in Report /\ ReportFits(Looked(exch[c]), exch[c])
            /\ Looked(exch[c]).status = map_status(exch[c].status)
            /\ Looked(exch[c]).cum = exch[c].filled
        BY <3>1, LookedFits
      <3>3. orders' = Update(c, Looked(exch[c]))
        BY <2>1 DEF reconcile_single_order
      <3>4. /\ RecordsKnown' /\ DOMAIN orders' = DOMAIN orders
            /\ \A d \in DOMAIN orders : d # c => orders'[d] = orders[d]
            /\ c \in DOMAIN orders /\ exch[c].copies = 1 => Agrees(orders'[c], exch[c])
        BY <1>1, <2>1, <3>2, <3>3, UpdateFits DEF KInv
      <3> QED
        BY <3>4 DEF Done, OnlyCopy
    <2>2. CASE ~(ok /\ c \in DOMAIN exch)
      <3>1. orders' = orders
        BY <2>2 DEF reconcile_single_order
      <3> QED
        BY <1>1, <2>2, <3>1 DEF KInv, RecordsKnown, Done, OnlyCopy
    <2> QED
      BY <2>1, <2>2
  <1>5. OutcomesKnown'
    <2> SUFFICES ASSUME subscribed, complete, ok, NEW d \in DOMAIN orders, Done(d)
                 PROVE  \/ Agrees(orders'[d], exch[d])
                        \/ Announced(d)
                        \/ Reconciling' /\ d \in local_live'
      BY <1>1, <1>4 DEF OutcomesKnown, Done, OnlyCopy, Open, Announced
    <2>1. Agrees(orders[d], exch[d]) \/ Announced(d) \/ d \in local_live
      BY DEF KInv, OutcomesKnown
    <2>2. CASE d = c
      BY <1>4, <2>2
    <2>3. CASE d # c
      <3>1. d \in local_live => Reconciling' /\ d \in local_live'
        BY <1>1, <2>3 DEF Reconciling
      <3> QED
        BY <1>4, <2>1, <2>3, <3>1
    <2> QED
      BY <2>2, <2>3
  <1> QED
    BY <1>2, <1>3, <1>4, <1>5 DEF KInv

(* The stream is opened: what is terminal in the OMS is known, and what is *)
(* live will be looked up.                                                 *)
LEMMA HandshakeKnown ==
    ASSUME RInv, KInv, Handshake PROVE KInv'
  <1>1. /\ feed = "keyed" /\ subscribed' = TRUE /\ local_live' = LiveOrders
        /\ feed' = (IF local_live' = {} THEN "reading" ELSE "open_orders")
        /\ complete' = TRUE
        /\ UNCHANGED <<orders, exch, stream>>
    BY DEF Handshake
  <1>2. VenueKnown' /\ EventsKnown' /\ RecordsKnown'
    BY <1>1 DEF KInv, VenueKnown, EventsKnown, RecordsKnown
  <1>3. PhaseKnown'
    BY <1>1 DEF KInv, PhaseKnown, FeedPhase
  <1>4. OutcomesKnown'
    <2> SUFFICES ASSUME NEW d \in DOMAIN orders, Done(d)
                 PROVE  \/ Agrees(orders[d], exch[d])
                        \/ Reconciling' /\ d \in local_live'
      BY <1>1 DEF OutcomesKnown, Done, OnlyCopy, Open
    <2>1. d \in DOMAIN exch /\ exch[d].copies = 1
      BY DEF Done, OnlyCopy
    <2>2. orders[d] \in OmsRecord /\ RecordFits(orders[d], exch[d])
      BY <2>1 DEF KInv, RecordsKnown
    <2>3. CASE is_terminal(orders[d].status)
      BY <2>1, <2>2, <2>3 DEF RecordFits
    <2>4. CASE ~is_terminal(orders[d].status)
      <3>1. orders[d].status \in OrderStatus
        BY <2>2 DEF OmsRecord
      <3>2. is_live(orders[d].status)
        BY <2>4, <3>1 DEF OrderStatus, is_terminal, is_live
      <3>3. d \in local_live'
        BY <1>1, <3>2 DEF LiveOrders
      <3> QED
        BY <1>1, <3>3 DEF Reconciling
    <2> QED
      BY <2>3, <2>4
  <1> QED
    BY <1>2, <1>3, <1>4 DEF KInv

(* The exchange's list of open orders: none of them is done. *)
LEMMA OpenOrdersKnown ==
    ASSUME RInv, KInv, NEW answer \in Answers, GetOpenOrders(answer) PROVE KInv'
  <1>1. /\ feed = "open_orders" /\ local_live' \subseteq local_live
        /\ answer # "failed" => local_live \ Open \subseteq local_live'
        /\ feed' = (IF local_live' = {} THEN "reading" ELSE "lookups")
        /\ complete' \in BOOLEAN /\ (complete' => answer # "failed")
        /\ UNCHANGED <<orders, exch, stream, subscribed>>
    BY DEF GetOpenOrders, Answers, venue
  <1>2. VenueKnown' /\ EventsKnown' /\ RecordsKnown'
    BY <1>1 DEF KInv, VenueKnown, EventsKnown, RecordsKnown
  <1>3. PhaseKnown'
    BY <1>1 DEF KInv, PhaseKnown, FeedPhase
  <1>4. OutcomesKnown'
    <2> SUFFICES ASSUME subscribed, answer # "failed", NEW d \in DOMAIN orders, Done(d)
                 PROVE  \/ Agrees(orders[d], exch[d])
                        \/ Announced(d)
                        \/ Reconciling' /\ d \in local_live'
      BY <1>1 DEF OutcomesKnown, Done, OnlyCopy, Open, Announced
    <2>1. Agrees(orders[d], exch[d]) \/ Announced(d) \/ d \in local_live
      BY <1>1 DEF KInv, PhaseKnown, OutcomesKnown
    <2>2. d \in local_live => Reconciling' /\ d \in local_live'
      BY <1>1 DEF Done, Reconciling
    <2> QED
      BY <2>1, <2>2
  <1> QED
    BY <1>2, <1>3, <1>4 DEF KInv

(* The other steps of the feed. *)
LEMMA FeedKnown ==
    ASSUME RInv, KInv, FeedTurn PROVE KInv'
  <1>1. CASE handle_message
    BY <1>1, MessageKnown
  <1>2. ASSUME NEW ok \in BOOLEAN, NEW c \in local_live, reconcile_single_order(c, ok) PROVE KInv'
    BY <1>2, LookupKnown
  <1>3. CASE Handshake
    BY <1>3, HandshakeKnown
  <1>4. ASSUME NEW answer \in Answers, GetOpenOrders(answer) PROVE KInv'
    BY <1>4, OpenOrdersKnown
  <1>5. CASE fetch_fresh_listen_key \/ HandshakeFails \/ StreamEnds
    <2>1. /\ UNCHANGED <<orders, exch>> /\ feed \in {"down", "keyed", "reading"}
          /\ feed' \in {"down", "keyed"} /\ subscribed' = FALSE /\ stream' = <<>>
      <3>1. /\ feed \in {"down", "keyed"} => ~subscribed /\ stream = <<>>
            /\ subscribed \in BOOLEAN
        BY DEF KInv, PhaseKnown
      <3>2. CASE StreamEnds
        BY <3>2 DEF StreamEnds
      <3>3. CASE fetch_fresh_listen_key \/ HandshakeFails
        <4>1. /\ UNCHANGED <<orders, exch, stream, subscribed>>
              /\ feed \in {"down", "keyed"} /\ feed' \in {"down", "keyed"}
          BY <3>3 DEF fetch_fresh_listen_key, HandshakeFails, venue
        <4> QED
          BY <3>1, <4>1
      <3> QED
        BY <1>5, <3>2, <3>3
    <2>2. VenueKnown' /\ RecordsKnown' /\ OutcomesKnown'
      BY <2>1 DEF KInv, VenueKnown, RecordsKnown, OutcomesKnown
    <2>3. PhaseKnown'
      <3>1. feed' \in FeedPhase /\ feed' \notin {"open_orders", "lookups", "reading"}
            /\ feed' # "open_orders"
        BY <2>1 DEF FeedPhase
      <3> QED
        BY <2>1, <3>1 DEF PhaseKnown
    <2>4. EventsKnown'
      BY <2>1 DEF EventsKnown
    <2> QED
      BY <2>2, <2>3, <2>4 DEF KInv
  <1> QED
    BY <1>1, <1>2, <1>3, <1>4, <1>5 DEF FeedTurn, FeedStep

(* A rejection concerns an order the exchange does not have. *)
LEMMA RejectKnown ==
    ASSUME RInv, KInv, handle_ack, UNCHANGED feedvars PROVE KInv'
  <1>1. UNCHANGED <<exch, stream, subscribed>>
    BY DEF handle_ack
  <1>2. VenueKnown' /\ PhaseKnown' /\ EventsKnown'
    BY <1>1 DEF KInv, VenueKnown, PhaseKnown, EventsKnown, feedvars
  <1>3. CASE orders' = orders
    BY <1>1, <1>2, <1>3 DEF KInv, RecordsKnown, OutcomesKnown, Done, OnlyCopy, Open, Announced,
                            Reconciling, feedvars
  <1>4. CASE orders' # orders
    <2>1. PICK c : /\ c = pending[Head(acks).id] /\ Head(acks).id \in DOMAIN pending
                   /\ ~Head(acks).ok /\ orders' = Update(c, Rejection)
      BY <1>4 DEF handle_ack
    <2>2. c \notin DOMAIN exch
      BY <2>1, RejectedGone DEF RInv, Gone
    <2>3. c \in DOMAIN orders
      BY <1>4, <2>1 DEF Update
    <2>4. orders[c] \in OmsRecord /\ Untouched(orders[c])
      BY <2>2, <2>3 DEF KInv, RecordsKnown
    <2>5. /\ Rejection \in Report /\ Rejection.status = "Rejected"
          /\ Rejection.cum = 0 /\ Rejection.price = 0
      BY DEF Rejection, Report, OrderStatus
    <2>6. PICK y : y = Applied(orders[c], Rejection)
      OBVIOUS
    <2>7. /\ y \in OmsRecord /\ y.status = "Rejected"
          /\ y.filled_qty = 0 /\ y.avg_fill_price = orders[c].avg_fill_price
      <3>1. orders[c].filled_qty = 0
        BY <2>4 DEF Untouched
      <3> QED
        BY <2>4, <2>5, <2>6, <3>1, AppliedFields
    <2>8. Untouched(y)
      BY <2>4, <2>7 DEF Untouched
    <2>9. /\ DOMAIN orders' = DOMAIN orders /\ orders'[c] = y
          /\ \A d \in DOMAIN orders : d # c => orders'[d] = orders[d]
      BY <2>1, <2>3, <2>6 DEF Update, Put
    <2>10. RecordsKnown'
      <3> SUFFICES ASSUME NEW d \in DOMAIN orders
                   PROVE  /\ orders'[d] \in OmsRecord
                          /\ d \in DOMAIN exch => RecordFits(orders'[d], exch[d])
                          /\ d \notin DOMAIN exch => Untouched(orders'[d])
        BY <1>1, <2>9 DEF RecordsKnown
      <3>1. CASE d = c
        BY <2>2, <2>7, <2>8, <2>9, <3>1
      <3>2. CASE d # c
        BY <2>9, <3>2 DEF KInv, RecordsKnown
      <3> QED
        BY <3>1, <3>2
    <2>11. OutcomesKnown'
      <3> SUFFICES ASSUME subscribed, complete, NEW d \in DOMAIN orders, Done(d)
                   PROVE  \/ Agrees(orders'[d], exch[d])
                          \/ Announced(d)
                          \/ Reconciling /\ d \in local_live
        BY <1>1, <2>9 DEF OutcomesKnown, Done, OnlyCopy, Open, Announced, Reconciling, feedvars
      <3>1. d # c
        BY <2>2 DEF Done, OnlyCopy
      <3> QED
        BY <2>9, <3>1 DEF KInv, OutcomesKnown
    <2> QED
      BY <1>2, <2>10, <2>11 DEF KInv
  <1> QED
    BY <1>3, <1>4

(* A new order is one the exchange has not seen. *)
LEMMA SubmitKnown ==
    ASSUME RInv, KInv, NEW c, Submit(c) PROVE KInv'
  <1>1. /\ c \notin used /\ UNCHANGED <<exch, stream, subscribed, feedvars>>
        /\ orders' = Put(orders, c, NewOrder([symbol |-> AnySymbol, side |-> "Buy", qty |-> Lot]))
    BY DEF Submit, venue
  <1>2. c \notin DOMAIN exch
    BY <1>1 DEF RInv, IInv, CopyInv
  <1>3. PICK o : o = NewOrder([symbol |-> AnySymbol, side |-> "Buy", qty |-> Lot])
    OBVIOUS
  <1>4. o \in OmsRecord
    <2>1. o = [symbol |-> AnySymbol, side |-> "Buy", status |-> "PendingNew", qty |-> Lot,
               filled_qty |-> 0, avg_fill_price |-> <<0, 1>>,
               cumulative_commission |-> 0, exchange_order_id |-> 0]
      BY <1>3 DEF NewOrder
    <2>2. Lot \in Nat /\ <<0, 1>> \in Nat \X (Nat \ {0})
      BY VenueAssumption
    <2> QED
      BY <2>1, <2>2 DEF OmsRecord, Side, OrderStatus
  <1>5. Untouched(o)
    BY <1>3 DEF NewOrder, Untouched
  <1>6. /\ DOMAIN orders' = DOMAIN orders \cup {c} /\ orders'[c] = o
        /\ \A d \in DOMAIN orders : d # c => orders'[d] = orders[d]
    BY <1>1, <1>3 DEF Put
  <1>7. VenueKnown' /\ PhaseKnown' /\ EventsKnown'
    BY <1>1 DEF KInv, VenueKnown, PhaseKnown, EventsKnown, feedvars
  <1>8. RecordsKnown'
    BY <1>1, <1>2, <1>4, <1>5, <1>6 DEF KInv, RecordsKnown
  <1>9. OutcomesKnown'
    <2> SUFFICES ASSUME subscribed, complete, NEW d \in DOMAIN orders', Done(d)
                 PROVE  \/ Agrees(orders'[d], exch[d])
                        \/ Announced(d)
                        \/ Reconciling /\ d \in local_live
      BY <1>1 DEF OutcomesKnown, Done, OnlyCopy, Open, Announced, Reconciling, feedvars
    <2>1. d # c
      BY <1>2 DEF Done, OnlyCopy
    <2> QED
      BY <1>6, <2>1 DEF KInv, OutcomesKnown
  <1> QED
    BY <1>7, <1>8, <1>9 DEF KInv

(* Forgetting an order forgets nothing of the others. *)
LEMMA ReleaseKnown ==
    ASSUME RInv, KInv, NEW c, Release(c) PROVE KInv'
  <1>1. UNCHANGED <<exch, stream, subscribed, feedvars>> /\ orders' = Drop(orders, c)
    BY DEF Release, venue
  <1>2. DOMAIN orders' \subseteq DOMAIN orders /\ \A d \in DOMAIN orders' : orders'[d] = orders[d]
    BY <1>1 DEF Drop
  <1>3. VenueKnown' /\ PhaseKnown' /\ EventsKnown'
    BY <1>1 DEF KInv, VenueKnown, PhaseKnown, EventsKnown, feedvars
  <1>4. RecordsKnown'
    BY <1>1, <1>2 DEF KInv, RecordsKnown
  <1>5. OutcomesKnown'
    BY <1>1, <1>2 DEF KInv, OutcomesKnown, Done, OnlyCopy, Open, Announced, Reconciling, feedvars
  <1> QED
    BY <1>3, <1>4, <1>5 DEF KInv

(* Every step keeps what is known. *)
LEMMA KInvNext == RInv /\ KInv /\ [Next]_vars => KInv'
  <1> SUFFICES ASSUME RInv, KInv, [Next]_vars PROVE KInv'
    OBVIOUS
  <1>1. CASE UNCHANGED <<orders, exch, stream, subscribed, feedvars>>
    BY <1>1 DEF KInv, VenueKnown, PhaseKnown, EventsKnown, RecordsKnown, OutcomesKnown,
                Done, OnlyCopy, Open, Announced, Reconciling, feedvars
  <1>2. ASSUME NEW c \in Ids, Submit(c) PROVE KInv'
    BY <1>2, SubmitKnown
  <1>3. ASSUME NEW c \in Ids, Release(c) PROVE KInv'
    BY <1>3, ReleaseKnown
  <1>4. ASSUME NEW c \in LimitIds, Cancel(c) PROVE KInv'
    BY <1>1, <1>4 DEF Cancel, venue
  <1>5. CASE GatewayTurn
    <2>1. CASE handle_ack
      BY <1>5, <2>1, RejectKnown DEF GatewayTurn
    <2>2. CASE HandlePost \/ WriteDone \/ WriteFails \/ Connect \/ RunFails
      BY <1>1, <1>5, <2>2 DEF GatewayTurn, HandlePost, WriteDone, WriteFails, Connect, RunFails
    <2> QED
      BY <1>5, <2>1, <2>2 DEF GatewayTurn, GatewayStep
  <1>6. CASE FeedTurn
    BY <1>6, FeedKnown
  <1>7. CASE ExchangeTurn
    <2>1. UNCHANGED <<gateway, feedvars, used>> /\ Exchange
      BY <1>7 DEF ExchangeTurn, engine
    <2>2. CASE Receive
      BY <2>1, <2>2, ReceiveKnown
    <2>3. ASSUME NEW c \in LimitIds, Expire(c) PROVE KInv'
      BY <2>1, <2>3, FinishKnown DEF Expire, Ids
    <2>4. ASSUME NEW c \in LimitIds, NEW p \in Prices, Fill(c, p) PROVE KInv'
      BY <2>1, <2>4, FillKnown
    <2> QED
      BY <2>1, <2>2, <2>3, <2>4 DEF Exchange
  <1>8. CASE UNCHANGED vars
    BY <1>1, <1>8 DEF vars, venue
  <1> QED
    BY <1>2, <1>3, <1>4, <1>5, <1>6, <1>7, <1>8 DEF Next, Ids

(* At start-up there are no orders and no stream. *)
LEMMA KInvInit == Init => KInv
  <1> SUFFICES ASSUME Init PROVE KInv
    OBVIOUS
  <1>1. /\ stream = <<>> /\ DOMAIN orders = {} /\ DOMAIN exch = {} /\ subscribed = FALSE
        /\ feed = "down"
    BY DEF Init, VenueInit, FeedInit, Empty
  <1>2. PhaseKnown
    <2>1. feed \in FeedPhase /\ feed \notin {"open_orders", "lookups", "reading"}
      BY <1>1 DEF FeedPhase
    <2> QED
      BY <1>1, <2>1 DEF PhaseKnown
  <1> QED
    BY <1>1, <1>2 DEF KInv, VenueKnown, EventsKnown, RecordsKnown, OutcomesKnown

(* What is known stays known, for ever. *)
LEMMA KInvAlways == Spec => [](RInv /\ KInv)
  BY RInvInit, RInvNext, KInvInit, KInvNext, PTL DEF Spec

(* Once the feed has caught up, the OMS knows the outcome of every order   *)
(* the exchange accepted once and is done with: for any number of orders,  *)
(* gaps and lost connections, whatever events were on their way when an    *)
(* order was looked up (UserDataFeed::reconcile_open_orders).              *)
THEOREM OutcomesSettled == Spec => []SettledOrdersKnown
  <1>1. KInv => SettledOrdersKnown
    <2> SUFFICES ASSUME KInv, CaughtUp, NEW c \in DOMAIN orders, Done(c)
                 PROVE  Agrees(orders[c], exch[c])
      BY DEF SettledOrdersKnown, Agrees
    <2>1. subscribed /\ complete /\ ~Reconciling /\ stream = <<>>
      BY DEF CaughtUp, KInv, PhaseKnown, Reconciling
    <2>2. ~Announced(c)
      BY <2>1 DEF Announced
    <2> QED
      BY <2>1, <2>2 DEF KInv, OutcomesKnown
  <1> QED
    BY <1>1, KInvAlways, PTL

(* The average fill price of an order lies between the prices it traded    *)
(* at, for all prices and sizes: although apply_update blends a look-up's  *)
(* average as if it were the price of the last fill, and skips an event    *)
(* without a price (OMSCore::apply_update).                                *)
THEOREM AveragesBounded == Spec => []AvgWithinFills
  <1>1. KInv => AvgWithinFills
    BY DEF KInv, RecordsKnown, RecordFits, AvgFits, AvgWithinFills, OnlyCopy
  <1> QED
    BY <1>1, KInvAlways, PTL

(* The OMS is never ahead of the exchange: an order accepted once has no   *)
(* more filled in the OMS than at the exchange, and is terminal only with  *)
(* the exchange's own outcome, also while old events are being read.       *)
THEOREM NeverAhead ==
    Spec => [](\A c \in DOMAIN orders : OnlyCopy(c) =>
                   /\ orders[c].filled_qty <= exch[c].filled
                   /\ is_terminal(orders[c].status) => Agrees(orders[c], exch[c]))
  <1>1. KInv => \A c \in DOMAIN orders : OnlyCopy(c) =>
                   /\ orders[c].filled_qty <= exch[c].filled
                   /\ is_terminal(orders[c].status) => Agrees(orders[c], exch[c])
    BY DEF KInv, RecordsKnown, RecordFits, OnlyCopy
  <1> QED
    BY <1>1, KInvAlways, PTL
=============================================================================
