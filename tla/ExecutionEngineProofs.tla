------------------------ MODULE ExecutionEngineProofs ------------------------
(***************************************************************************)
(* Proofs about ExecutionEngine, for every set of signals and symbols and  *)
(* every value of the limits: who owns which order, what the records in    *)
(* the OMS, the waiter channels and the reports under way say about the    *)
(* exchange, and from that what is booked and hedged.                      *)
(***************************************************************************)
EXTENDS ExecutionEngine, FiniteSetTheorems, SequenceTheorems, TLAPS

-----------------------------------------------------------------------------
(* Sums over finite sets.  MapThenSumSet is a recursive function on the    *)
(* subsets of its argument; that it exists and what it computes is shown   *)
(* by looking at a smallest subset for which it fails.                     *)

(* Every non-empty set of subsets of a finite set has a smallest member. *)
LEMMA SmallestSubset ==
    ASSUME NEW S, IsFiniteSet(S), NEW T, T \subseteq SUBSET S, T # {}
    PROVE  \E s \in T : \A t \in T : t \subseteq s => t = s
<1>1. IsWellFoundedOn(StrictSubsetOrdering(S), SUBSET S)
  BY FS_StrictSubsetOrderingWellFounded, FS_FiniteSubsetsOfFinite
<1>2. PICK s \in T : \A t \in T : ~ (<<t, s>> \in StrictSubsetOrdering(S))
  BY <1>1, WFMin
<1>3. ASSUME NEW t \in T, t \subseteq s, t # s PROVE FALSE
  <2>1. <<t, s>> \in (SUBSET S) \X (SUBSET S)
    OBVIOUS
  <2>2. <<t, s>> \in StrictSubsetOrdering(S)
    BY <1>3, <2>1 DEF StrictSubsetOrdering
  <2> QED
    BY <1>2, <2>2
<1> QED
  BY <1>3

(* g sums w over the subsets of S, in the order MapThenSumSet does. *)
IsSum(g, w, S) ==
    g = [s \in SUBSET S |-> IF s = {} THEN 0
                            ELSE w[CHOOSE x \in s : TRUE]
                                 + g[s \ {CHOOSE x \in s : TRUE}]]

(* One unfolding of such a sum. *)
LEMMA SumAt ==
    ASSUME NEW g, NEW w, NEW S, IsSum(g, w, S), NEW s \in SUBSET S
    PROVE  /\ s = {} => g[s] = 0
           /\ s # {} => \E x \in s : /\ x = (CHOOSE y \in s : TRUE)
                                     /\ g[s] = w[x] + g[s \ {x}]
<1>1. g[s] = IF s = {} THEN 0
             ELSE w[CHOOSE x \in s : TRUE] + g[s \ {CHOOSE x \in s : TRUE}]
  BY DEF IsSum
<1>2. s # {} => (CHOOSE y \in s : TRUE) \in s
  OBVIOUS
<1> QED
  BY <1>1, <1>2

(* Two sums agree on every set on which their summands agree. *)
LEMMA SumAgree ==
    ASSUME NEW g, NEW w, NEW S, IsSum(g, w, S), NEW h, NEW v, NEW R, IsSum(h, v, R),
           NEW A, IsFiniteSet(A), A \subseteq S, A \subseteq R, \A x \in A : w[x] = v[x]
    PROVE  g[A] = h[A]
<1> DEFINE Bad == {s \in SUBSET A : g[s] # h[s]}
<1>1. SUFFICES ASSUME Bad # {} PROVE FALSE
  OBVIOUS
<1>2. Bad \subseteq SUBSET A
  OBVIOUS
<1> HIDE DEF Bad
<1>3. PICK s \in Bad : \A t \in Bad : t \subseteq s => t = s
  BY <1>1, <1>2, SmallestSubset
<1> USE DEF Bad
<1>4. s # {}
  BY SumAt
<1>5. PICK x \in s : x = (CHOOSE y \in s : TRUE) /\ g[s] = w[x] + g[s \ {x}]
  BY <1>4, SumAt
<1>6. PICK z \in s : z = (CHOOSE y \in s : TRUE) /\ h[s] = v[z] + h[s \ {z}]
  BY <1>4, SumAt
<1>7. x = z
  BY <1>5, <1>6
<1>8. s \ {x} \notin Bad
  BY <1>3
<1>9. g[s \ {x}] = h[s \ {x}]
  BY <1>8
<1> QED
  BY <1>5, <1>6, <1>7, <1>9

(* The recursion has a solution: at a smallest set without one, the        *)
(* solutions of its proper subsets fit together.                           *)
LEMMA SumExists ==
    ASSUME NEW S, IsFiniteSet(S), NEW w
    PROVE  \E g : IsSum(g, w, S)
<1> DEFINE Bad == {s \in SUBSET S : ~ \E g : IsSum(g, w, s)}
<1>1. SUFFICES ASSUME Bad # {} PROVE FALSE
  OBVIOUS
<1>2. Bad \subseteq SUBSET S
  OBVIOUS
<1> HIDE DEF Bad
<1>3. PICK s \in Bad : \A t \in Bad : t \subseteq s => t = s
  BY <1>1, <1>2, SmallestSubset
<1> USE DEF Bad
<1>4. IsFiniteSet(s) /\ \A t \in SUBSET s : IsFiniteSet(t)
  BY FS_Subset
<1> DEFINE G(t) == CHOOSE g : IsSum(g, w, t)
<1>5. \A t \in SUBSET s : t # s => IsSum(G(t), w, t)
  BY <1>3
<1> HIDE DEF Bad, G
<1> DEFINE Top(t) == IF t = {} THEN 0
                     ELSE w[CHOOSE x \in t : TRUE]
                          + G(t \ {CHOOSE x \in t : TRUE})[t \ {CHOOSE x \in t : TRUE}]
           g == [t \in SUBSET s |-> Top(t)]
<1>6. \A t \in SUBSET s : t # s => G(t)[t] = Top(t)
  <2> SUFFICES ASSUME NEW t \in SUBSET s, t # s PROVE G(t)[t] = Top(t)
    OBVIOUS
  <2>1. IsSum(G(t), w, t)
    BY <1>5
  <2>2. CASE t = {}
    BY <2>1, <2>2, SumAt
  <2>3. CASE t # {}
    <3>1. PICK x \in t : x = (CHOOSE y \in t : TRUE) /\ G(t)[t] = w[x] + G(t)[t \ {x}]
      BY <2>1, <2>3, SumAt
    <3>2. IsSum(G(t \ {x}), w, t \ {x})
      BY <1>5
    <3>3. G(t)[t \ {x}] = G(t \ {x})[t \ {x}]
      BY <2>1, <3>2, <1>4, SumAgree
    <3> QED
      BY <2>3, <3>1, <3>3
  <2> QED
    BY <2>2, <2>3
<1>7. \A t \in SUBSET s : g[t] = Top(t)
  OBVIOUS
<1>8. \A t \in SUBSET s : t # {} => /\ (CHOOSE x \in t : TRUE) \in t
                                   /\ t \ {CHOOSE x \in t : TRUE} \in SUBSET s
                                   /\ t \ {CHOOSE x \in t : TRUE} # s
  OBVIOUS
<1>9. \A t \in SUBSET s : t # s => g[t] = G(t)[t]
  BY <1>6, <1>7
<1>10. \A t \in SUBSET s : g[t] = IF t = {} THEN 0
             ELSE w[CHOOSE x \in t : TRUE] + g[t \ {CHOOSE x \in t : TRUE}]
  <2> SUFFICES ASSUME NEW t \in SUBSET s
      PROVE g[t] = IF t = {} THEN 0
             ELSE w[CHOOSE x \in t : TRUE] + g[t \ {CHOOSE x \in t : TRUE}]
    OBVIOUS
  <2> DEFINE y == CHOOSE x \in t : TRUE
  <2>1. CASE t = {}
    BY <2>1, <1>7
  <2>2. CASE t # {}
    <3>1. g[t] = w[y] + G(t \ {y})[t \ {y}]
      BY <2>2, <1>7
    <3>2. g[t \ {y}] = G(t \ {y})[t \ {y}]
      BY <2>2, <1>8, <1>9
    <3> QED
      BY <3>1, <3>2, <2>2
  <2> QED
    BY <2>1, <2>2
<1>11. g = [t \in SUBSET s |-> g[t]]
  OBVIOUS
<1> HIDE DEF g
<1>12. IsSum(g, w, s)
  BY <1>10, <1>11 DEF IsSum
<1> QED
  BY <1>3, <1>12 DEF Bad

(* A sum of integers is an integer, and any element may be taken first. *)
LEMMA SumAnyOrder ==
    ASSUME NEW g, NEW w, NEW S, IsFiniteSet(S), IsSum(g, w, S), \A x \in S : w[x] \in Int
    PROVE  /\ g[S] \in Int
           /\ \A x \in S : g[S] = w[x] + g[S \ {x}]
<1> DEFINE Good(s) == g[s] \in Int /\ \A x \in s : g[s] = w[x] + g[s \ {x}]
           Bad == {s \in SUBSET S : ~ Good(s)}
<1>1. SUFFICES ASSUME Bad # {} PROVE FALSE
  OBVIOUS
<1>2. Bad \subseteq SUBSET S
  OBVIOUS
<1> HIDE DEF Bad
<1>3. PICK s \in Bad : \A t \in Bad : t \subseteq s => t = s
  BY <1>1, <1>2, SmallestSubset
<1>4. s \in SUBSET S /\ ~ Good(s) /\ \A t \in SUBSET s : t # s => Good(t)
  BY <1>3 DEF Bad
<1>5. s # {}
  <2>1. s = {} => g[s] = 0
    BY <1>4, SumAt
  <2> QED
    BY <1>4, <2>1
<1>6. PICK c \in s : g[s] = w[c] + g[s \ {c}]
  BY <1>4, <1>5, SumAt
<1>7. Good(s \ {c}) /\ w[c] \in Int
  BY <1>4
<1>8. g[s] \in Int
  BY <1>6, <1>7
<1>9. ASSUME NEW x \in s, x # c PROVE g[s] = w[x] + g[s \ {x}]
  <2>1. x \in s \ {c} /\ c \in s \ {x} /\ (s \ {c}) \ {x} = (s \ {x}) \ {c}
    BY <1>9
  <2>2. Good(s \ {x}) /\ Good((s \ {x}) \ {c}) /\ w[x] \in Int
    BY <1>4
  <2>3. g[s \ {c}] = w[x] + g[(s \ {x}) \ {c}]
    BY <1>7, <2>1
  <2>4. g[s \ {x}] = w[c] + g[(s \ {x}) \ {c}]
    BY <2>1, <2>2
  <2> QED
    BY <1>6, <1>7, <2>2, <2>3, <2>4
<1> QED
  BY <1>4, <1>6, <1>8, <1>9

(* The sum of the values of w on S. *)
Total(w, S) == MapThenSumSet(LAMBDA o : w[o], S)

(* Total is such a sum. *)
LEMMA TotalIsSum ==
    ASSUME NEW S, IsFiniteSet(S), NEW w
    PROVE  \E g : IsSum(g, w, S) /\ Total(w, S) = g[S]
<1> DEFINE g == CHOOSE h : IsSum(h, w, S)
<1>1. IsSum(g, w, S)
  BY SumExists
<1>2. Total(w, S) = g[S]
  BY DEF Total, MapThenSumSet, MapThenFoldSet, IsSum
<1> QED
  BY <1>1, <1>2

(* Totals depend only on the values on the set. *)
LEMMA TotalAgree ==
    ASSUME NEW S, IsFiniteSet(S), NEW w, NEW v, \A x \in S : w[x] = v[x]
    PROVE  Total(w, S) = Total(v, S)
<1>1. PICK g : IsSum(g, w, S) /\ Total(w, S) = g[S]
  BY TotalIsSum
<1>2. PICK h : IsSum(h, v, S) /\ Total(v, S) = h[S]
  BY TotalIsSum
<1> QED
  BY <1>1, <1>2, SumAgree

(* The empty total, and a total with one element taken out. *)
LEMMA TotalStep ==
    ASSUME NEW S, IsFiniteSet(S), NEW w, \A x \in S : w[x] \in Int
    PROVE  /\ Total(w, S) \in Int
           /\ S = {} => Total(w, S) = 0
           /\ \A x \in S : Total(w, S) = w[x] + Total(w, S \ {x})
<1>1. PICK g : IsSum(g, w, S) /\ Total(w, S) = g[S]
  BY TotalIsSum
<1>2. g[S] \in Int /\ \A x \in S : g[S] = w[x] + g[S \ {x}]
  BY <1>1, SumAnyOrder
<1>3. S = {} => g[S] = 0
  BY <1>1, SumAt
<1>4. ASSUME NEW x \in S PROVE Total(w, S \ {x}) = g[S \ {x}]
  <2>1. IsFiniteSet(S \ {x})
    BY FS_RemoveElement
  <2>2. PICK h : IsSum(h, w, S \ {x}) /\ Total(w, S \ {x}) = h[S \ {x}]
    BY <2>1, TotalIsSum
  <2> QED
    BY <1>1, <2>1, <2>2, SumAgree
<1> QED
  BY <1>1, <1>2, <1>3, <1>4

(* Totals grow with their summands. *)
LEMMA TotalMonotone ==
    ASSUME NEW S, IsFiniteSet(S), NEW w, NEW v,
           \A x \in S : w[x] \in Int /\ v[x] \in Int /\ w[x] <= v[x]
    PROVE  Total(w, S) <= Total(v, S)
<1> DEFINE Bad == {s \in SUBSET S : ~ (Total(w, s) <= Total(v, s))}
<1>1. SUFFICES ASSUME Bad # {} PROVE FALSE
  OBVIOUS
<1>2. Bad \subseteq SUBSET S
  OBVIOUS
<1> HIDE DEF Bad
<1>3. PICK s \in Bad : \A t \in Bad : t \subseteq s => t = s
  BY <1>1, <1>2, SmallestSubset
<1>4. s \in SUBSET S /\ ~ (Total(w, s) <= Total(v, s))
      /\ \A t \in SUBSET s : t # s => Total(w, t) <= Total(v, t)
  BY <1>3 DEF Bad
<1>5. IsFiniteSet(s)
  BY <1>4, FS_Subset
<1>6. Total(w, s) \in Int /\ Total(v, s) \in Int
  BY <1>4, <1>5, TotalStep
<1>7. s # {}
  <2>1. s = {} => Total(w, s) = 0 /\ Total(v, s) = 0
    BY <1>4, <1>5, TotalStep
  <2> QED
    BY <1>4, <2>1
<1>8. PICK x \in s : TRUE
  BY <1>7
<1>9. Total(w, s) = w[x] + Total(w, s \ {x}) /\ Total(v, s) = v[x] + Total(v, s \ {x})
  BY <1>4, <1>5, TotalStep
<1>10. Total(w, s \ {x}) <= Total(v, s \ {x})
  BY <1>4
<1>11. IsFiniteSet(s \ {x})
  BY <1>5, FS_RemoveElement
<1>12. Total(w, s \ {x}) \in Int /\ Total(v, s \ {x}) \in Int
  BY <1>4, <1>11, TotalStep
<1> QED
  BY <1>4, <1>9, <1>10, <1>12

(* Elements with value zero add nothing. *)
LEMMA TotalPad ==
    ASSUME NEW T, IsFiniteSet(T), NEW S \in SUBSET T, NEW w,
           \A x \in T : w[x] \in Int, \A x \in T \ S : w[x] = 0
    PROVE  Total(w, T) = Total(w, S)
<1> DEFINE Bad == {s \in SUBSET T : S \subseteq s /\ Total(w, s) # Total(w, S)}
<1>1. SUFFICES ASSUME Bad # {} PROVE FALSE
  OBVIOUS
<1>2. Bad \subseteq SUBSET T
  OBVIOUS
<1> HIDE DEF Bad
<1>3. PICK s \in Bad : \A t \in Bad : t \subseteq s => t = s
  BY <1>1, <1>2, SmallestSubset
<1>4. s \in SUBSET T /\ S \subseteq s /\ Total(w, s) # Total(w, S)
      /\ \A t \in SUBSET s : S \subseteq t /\ t # s => Total(w, t) = Total(w, S)
  BY <1>3 DEF Bad
<1>5. IsFiniteSet(s) /\ IsFiniteSet(S)
  BY <1>4, FS_Subset
<1>6. PICK x \in s : x \notin S
  <2>1. s # S
    BY <1>4
  <2> QED
    BY <1>4, <2>1
<1>7. Total(w, s) = w[x] + Total(w, s \ {x})
  BY <1>4, <1>5, TotalStep
<1>8. w[x] = 0
  BY <1>4, <1>6
<1>9. Total(w, s \ {x}) = Total(w, S)
  BY <1>4, <1>6
<1>10. Total(w, S) \in Int
  BY <1>5, TotalStep
<1> QED
  BY <1>4, <1>7, <1>8, <1>9, <1>10

(* What the exchange executed of each order. *)
Fills == [o \in DOMAIN exch |-> exch[o].filled]

(* Executed is the total of these quantities. *)
LEMMA ExecutedIsTotal ==
    ASSUME NEW S, IsFiniteSet(S), S \subseteq DOMAIN exch
    PROVE  Executed(S) = Total(Fills, S)
<1> DEFINE P(h) == h = [s \in SUBSET S |->
                           IF s = {} THEN 0
                           ELSE exch[CHOOSE x \in s : TRUE].filled
                                + h[s \ {CHOOSE x \in s : TRUE}]]
           e == CHOOSE h : P(h)
<1>1. PICK g : IsSum(g, Fills, S) /\ Total(Fills, S) = g[S]
  BY TotalIsSum
<1>2. \A s \in SUBSET S : s # {} => Fills[CHOOSE x \in s : TRUE]
                                    = exch[CHOOSE x \in s : TRUE].filled
  BY DEF Fills
<1>3. P(g)
  <2>1. g = [s \in SUBSET S |-> IF s = {} THEN 0
                            ELSE Fills[CHOOSE x \in s : TRUE]
                                 + g[s \ {CHOOSE x \in s : TRUE}]]
    BY <1>1 DEF IsSum
  <2>2. [s \in SUBSET S |-> IF s = {} THEN 0
                            ELSE Fills[CHOOSE x \in s : TRUE]
                                 + g[s \ {CHOOSE x \in s : TRUE}]]
       = [s \in SUBSET S |-> IF s = {} THEN 0
                            ELSE exch[CHOOSE x \in s : TRUE].filled
                                 + g[s \ {CHOOSE x \in s : TRUE}]]
    BY <1>2
  <2> QED
    BY <2>1, <2>2
<1>4. P(e)
  <2> HIDE DEF P
  <2> QED
    BY <1>3
<1>5. Executed(S) = e[S]
  BY DEF Executed, MapThenSumSet, MapThenFoldSet
<1>6. IsSum(e, Fills, S)
  <2> HIDE DEF e
  <2> QED
    BY <1>2, <1>4 DEF IsSum
<1> QED
  BY <1>1, <1>5, <1>6, SumAgree

-----------------------------------------------------------------------------
(* The inductive invariant.  Its first half ties the copies of an order    *)
(* together: what the exchange did, the reports under way, the OMS record  *)
(* and the updates queued in the waiter channel.                           *)

XOrderType == [qty: Nat \ {0}, symbol: Symbols, side: Side, market: BOOLEAN,
               pair: Nat, st: {"sent", "live", "done"}, filled: Nat]

(* Which ids exist where, and what is stored under them. *)
MapInv ==
    /\ seq \in 0..MaxOrders
    /\ DOMAIN exch = 0..(seq - 1) /\ DOMAIN reports = DOMAIN exch
    /\ DOMAIN orders \subseteq DOMAIN exch /\ DOMAIN waiters = DOMAIN orders
    /\ \A o \in DOMAIN orders : /\ orders[o] \in OrderRecord
                                /\ waiters[o] \in Seq(OrderRecord)
                                /\ Len(waiters[o]) <= kChanBuffer + 1
    /\ \A o \in DOMAIN exch : exch[o] \in XOrderType /\ reports[o] \in Seq(Report)
    /\ cancels \subseteq DOMAIN exch

(* How far an order of the exchange can be filled. *)
Sound(x) == /\ x.filled <= x.qty
            /\ x.st = "sent" => x.filled = 0
            /\ x.st = "live" => x.filled < x.qty

ExchInv == \A o \in DOMAIN exch : Sound(exch[o])

(* Status and filled quantity are the final ones of order x. *)
Final(x, status, cum) ==
    /\ x.st = "done"
    /\ cum = x.filled
    /\ status = "Filled" <=> x.filled = x.qty
    /\ status = "Rejected" => x.filled = 0

(* A record about the order x with id o: never ahead of the exchange, and  *)
(* exact once it is terminal.                                              *)
Truthful(o, x, rec) ==
    /\ rec.symbol = x.symbol /\ rec.side = x.side /\ rec.qty = x.qty
    /\ rec.filled_qty <= x.filled
    /\ rec.exchange_order_id \in {0, o + 1}
    /\ rec.filled_qty = 0 => rec.avg_fill_price[1] = 0 /\ rec.avg_fill_price[2] = 1
    /\ rec.filled_qty > 0 => /\ rec.exchange_order_id = o + 1
                             /\ rec.avg_fill_price[1] > 0
                             /\ rec.avg_fill_price[2] = rec.filled_qty
    /\ is_terminal(rec.status) => Final(x, rec.status, rec.filled_qty)

RecordInv ==
    \A o \in DOMAIN orders :
        /\ Truthful(o, exch[o], orders[o])
        /\ \A i \in 1..Len(waiters[o]) : Truthful(o, exch[o], waiters[o][i])

(* A report about x that follows one with cumulative quantity `before`. *)
Follows(o, x, before, r) ==
    /\ before <= r.cum /\ r.cum <= x.filled
    /\ r.price \in {0, 1} /\ (r.price = 0 => r.cum = before)
    /\ r.exchange_order_id \in {0, o + 1}
    /\ r.cum > 0 => r.exchange_order_id = o + 1
    /\ is_terminal(r.status) => Final(x, r.status, r.cum)

(* The cumulative quantity before the i-th report of a queue, when the     *)
(* OMS record of the order has `filled`.                                   *)
Before(queue, filled, i) == IF i = 1 THEN filled ELSE queue[i - 1].cum

(* The reports under way of an order with OMS record rec. *)
Queued(o, x, queue, rec) ==
    /\ \A i \in 1..Len(queue) : Follows(o, x, Before(queue, rec.filled_qty, i), queue[i])
    /\ \A i \in 1..Len(queue) : is_terminal(queue[i].status) => i = Len(queue)
    /\ x.filled = Before(queue, rec.filled_qty, Len(queue) + 1)
    /\ is_terminal(rec.status) => queue = <<>>

ReportInv == \A o \in DOMAIN orders : Queued(o, exch[o], reports[o], orders[o])

OrderInv == MapInv /\ ExchInv /\ RecordInv /\ ReportInv

-----------------------------------------------------------------------------
(* Records.                                                                *)

(* A freshly registered order is a record. *)
LEMMA NewOrderType ==
    ASSUME NEW t \in Ticket PROVE NewOrder(t) \in OrderRecord
BY DEF Ticket, NewOrder, OrderRecord, OrderStatus, Side

(* What Blend computes with the prices the exchange reports: the cumulative*)
(* quantity is the denominator, and the average is positive.               *)
LEMMA BlendFill ==
    ASSUME NEW avg \in Nat \X Nat, NEW filled \in Nat, NEW cum \in Nat, cum > filled,
           IF filled = 0 THEN avg[1] = 0 /\ avg[2] = 1 ELSE avg[1] > 0 /\ avg[2] = filled
    PROVE  /\ Blend(avg, filled, 1, cum) \in Nat \X Nat
           /\ Blend(avg, filled, 1, cum)[1] > 0
           /\ Blend(avg, filled, 1, cum)[2] = cum
<1>1. avg[1] \in Nat /\ avg[2] \in Nat
  OBVIOUS
<1>2. CASE filled = 0
  <2>1. avg[1] = 0 /\ avg[2] = 1 /\ 1 * (cum - filled) = cum /\ 1 * (cum - filled) * 1 = cum
        /\ 0 * filled + 1 * (cum - filled) * 1 = cum /\ 1 * cum = cum
    BY <1>2
  <2>2. Blend(avg, filled, 1, cum) = <<cum, cum>>
    BY <1>2, <2>1 DEF Blend
  <2> QED
    BY <1>2, <2>2
<1>3. CASE filled # 0
  <2>1. 1 * (cum - filled) = cum - filled
    OBVIOUS
  <2>2. Blend(avg, filled, 1, cum) = <<avg[1] + (cum - filled), cum>>
    BY <1>3, <2>1 DEF Blend
  <2>3. avg[1] + (cum - filled) \in Nat /\ avg[1] + (cum - filled) > 0
    BY <1>1, <1>3
  <2> QED
    BY <2>2, <2>3
<1> QED
  BY <1>2, <1>3

(* Applying the next report of the queue to a truthful record gives a      *)
(* truthful record of type OrderRecord with the report's quantity.         *)
LEMMA AppliedTruthful ==
    ASSUME NEW o \in Nat, NEW x \in XOrderType, NEW rec \in OrderRecord, NEW r \in Report,
           Truthful(o, x, rec), Follows(o, x, rec.filled_qty, r)
    PROVE  /\ Applied(rec, r) \in OrderRecord
           /\ Applied(rec, r).status = r.status
           /\ Applied(rec, r).filled_qty = r.cum
           /\ Truthful(o, x, Applied(rec, r))
<1> DEFINE P == Nat \X Nat
           f == IF r.cum > rec.filled_qty THEN r.cum ELSE rec.filled_qty
           a == IF r.cum > rec.filled_qty /\ r.price > 0
                THEN Blend(rec.avg_fill_price, rec.filled_qty, r.price, r.cum)
                ELSE rec.avg_fill_price
           c == rec.cumulative_commission + r.commission
           ap == Applied(rec, r)
<1>1. /\ r.cum \in Nat /\ r.price \in Nat /\ r.commission \in Nat
      /\ r.status \in OrderStatus /\ r.exchange_order_id \in Nat
  BY DEF Report
<1>2. /\ rec.filled_qty \in Nat /\ rec.avg_fill_price \in P
      /\ rec.cumulative_commission \in Nat
  BY DEF OrderRecord
<1>3. c \in Nat
  BY <1>1, <1>2
<1>4. r.cum >= rec.filled_qty /\ (r.cum > rec.filled_qty => r.price = 1) /\ f = r.cum
  BY <1>1, <1>2 DEF Follows
<1>5. /\ a \in P
      /\ r.cum = rec.filled_qty => a = rec.avg_fill_price
      /\ r.cum > rec.filled_qty => a[1] > 0 /\ a[2] = r.cum
  <2>1. CASE r.cum = rec.filled_qty
    BY <2>1, <1>1, <1>2
  <2>2. CASE r.cum > rec.filled_qty
    <3>1. a = Blend(rec.avg_fill_price, rec.filled_qty, 1, r.cum)
      BY <2>2, <1>4
    <3>2. IF rec.filled_qty = 0
          THEN rec.avg_fill_price[1] = 0 /\ rec.avg_fill_price[2] = 1
          ELSE rec.avg_fill_price[1] > 0 /\ rec.avg_fill_price[2] = rec.filled_qty
      BY <1>2 DEF Truthful
    <3> HIDE DEF a
    <3> QED
      BY <2>2, <1>1, <1>2, <3>1, <3>2, BlendFill
  <2> QED
    BY <2>1, <2>2, <1>1, <1>2, <1>4
<1>6. ap = [rec EXCEPT !.filled_qty = f, !.avg_fill_price = a,
                       !.cumulative_commission = c,
                       !.status = r.status, !.exchange_order_id = r.exchange_order_id]
  BY DEF Applied
<1>7. rec \in [symbol: Symbols, side: Side, status: OrderStatus, qty: Nat,
               filled_qty: Nat, avg_fill_price: P,
               cumulative_commission: Nat, exchange_order_id: Nat]
  BY DEF OrderRecord
<1> HIDE DEF P, f, a, c, ap
<1>8. /\ ap \in [symbol: Symbols, side: Side, status: OrderStatus, qty: Nat,
                 filled_qty: Nat, avg_fill_price: P,
                 cumulative_commission: Nat, exchange_order_id: Nat]
      /\ ap.filled_qty = r.cum /\ ap.avg_fill_price = a
      /\ ap.status = r.status /\ ap.exchange_order_id = r.exchange_order_id
      /\ ap.symbol = rec.symbol /\ ap.side = rec.side /\ ap.qty = rec.qty
  BY <1>1, <1>3, <1>4, <1>5, <1>6, <1>7
<1>9. ap \in OrderRecord
  BY <1>8 DEF OrderRecord, P
<1>10. Truthful(o, x, ap)
  <2>1. /\ ap.symbol = x.symbol /\ ap.side = x.side /\ ap.qty = x.qty
        /\ ap.filled_qty <= x.filled /\ ap.exchange_order_id \in {0, o + 1}
        /\ is_terminal(ap.status) => Final(x, ap.status, ap.filled_qty)
    BY <1>8 DEF Truthful, Follows
  <2>2. ap.filled_qty = 0 => ap.avg_fill_price[1] = 0 /\ ap.avg_fill_price[2] = 1
    BY <1>1, <1>2, <1>4, <1>5, <1>8 DEF Truthful
  <2>3. ap.filled_qty > 0 => /\ ap.exchange_order_id = o + 1
                             /\ ap.avg_fill_price[1] > 0
                             /\ ap.avg_fill_price[2] = ap.filled_qty
    BY <1>1, <1>2, <1>4, <1>5, <1>8 DEF Truthful, Follows
  <2> QED
    BY <2>1, <2>2, <2>3 DEF Truthful
<1> QED
  BY <1>8, <1>9, <1>10 DEF ap

-----------------------------------------------------------------------------
(* The exchange.                                                           *)

(* Order o becomes x at the exchange, and report r is sent about it. *)
ExchangeStep(o, x, r) ==
    /\ exch[o].st # "done"
    /\ x \in XOrderType /\ Sound(x) /\ r \in Report
    /\ x.qty = exch[o].qty /\ x.symbol = exch[o].symbol /\ x.side = exch[o].side
    /\ x.market = exch[o].market /\ x.pair = exch[o].pair
    /\ x.filled >= exch[o].filled
    /\ Follows(o, x, exch[o].filled, r) /\ r.cum = x.filled
    /\ exch' = [exch EXCEPT ![o] = x]
    /\ reports' = [reports EXCEPT ![o] = Append(@, r)]
    /\ cancels' \subseteq cancels
    /\ UNCHANGED <<engine, breaker, book, first_status>>

(* Every action of the exchange is such a step. *)
LEMMA ExchangeSteps ==
    ASSUME MapInv, ExchInv, NEW o \in DOMAIN exch, Exchange(o)
    PROVE  \E x, r : ExchangeStep(o, x, r)
<1>1. PICK y : y = exch[o] /\ y \in XOrderType /\ Sound(y) /\ o \in Nat
  BY DEF MapInv, ExchInv
<1>2. /\ y.qty \in Nat \ {0} /\ y.filled \in Nat /\ y.filled <= y.qty
      /\ y.st \in {"sent", "live", "done"} /\ y.market \in BOOLEAN
      /\ y.st = "sent" => y.filled = 0
      /\ y.st = "live" => y.filled < y.qty
  BY <1>1 DEF XOrderType, Sound
<1>3. UNCHANGED <<engine, breaker, book, first_status>>
  BY DEF Exchange
<1>4. CASE XAccept(o)
  <2>1. exch' = [exch EXCEPT ![o] = [y EXCEPT !.st = "live"]]
    BY <1>1, <1>4 DEF XAccept
  <2>2. PICK x : x = [y EXCEPT !.filled = y.filled, !.st = "live"]
    OBVIOUS
  <2>3. [y EXCEPT !.st = "live"] = x
    BY <1>1, <2>2 DEF XOrderType
  <2>4. exch' = [exch EXCEPT ![o] = x]
    BY <2>1, <2>3
  <2>5. /\ x \in XOrderType /\ x.st = "live" /\ x.filled = y.filled
        /\ x.qty = y.qty /\ x.symbol = y.symbol /\ x.side = y.side
        /\ x.market = y.market /\ x.pair = y.pair
    BY <1>1, <1>2, <2>2 DEF XOrderType
  <2>6. PICK r : r = [status |-> "Open", cum |-> 0, price |-> 0,
                      exchange_order_id |-> o + 1, commission |-> 0]
    OBVIOUS
  <2>7. reports' = [reports EXCEPT ![o] = Append(@, r)] /\ y.st = "sent" /\ cancels' \subseteq cancels
    BY <1>1, <1>2, <1>4, <2>6 DEF XAccept, Tell
  <2>8. /\ r \in Report /\ r.status = "Open" /\ r.cum = y.filled /\ r.price = 0
        /\ r.exchange_order_id = o + 1
    BY <1>1, <1>2, <2>6, <2>7 DEF Report, OrderStatus
  <2>9. Sound(x) /\ Follows(o, x, y.filled, r)
    BY <1>1, <1>2, <2>5, <2>7, <2>8 DEF Sound, Follows, Final, is_terminal
  <2>10. ExchangeStep(o, x, r)
    BY <1>1, <1>2, <1>3, <2>4, <2>5, <2>7, <2>8, <2>9 DEF ExchangeStep
  <2> QED
    BY <2>10
<1>5. CASE XReject(o)
  <2>1. exch' = [exch EXCEPT ![o] = [y EXCEPT !.st = "done"]]
    BY <1>1, <1>5 DEF XReject
  <2>2. PICK x : x = [y EXCEPT !.filled = y.filled, !.st = "done"]
    OBVIOUS
  <2>3. [y EXCEPT !.st = "done"] = x
    BY <1>1, <2>2 DEF XOrderType
  <2>4. exch' = [exch EXCEPT ![o] = x]
    BY <2>1, <2>3
  <2>5. /\ x \in XOrderType /\ x.st = "done" /\ x.filled = y.filled
        /\ x.qty = y.qty /\ x.symbol = y.symbol /\ x.side = y.side
        /\ x.market = y.market /\ x.pair = y.pair
    BY <1>1, <1>2, <2>2 DEF XOrderType
  <2>6. PICK r : r = [status |-> "Rejected", cum |-> 0, price |-> 0,
                      exchange_order_id |-> 0, commission |-> 0]
    OBVIOUS
  <2>7. reports' = [reports EXCEPT ![o] = Append(@, r)] /\ y.st = "sent" /\ cancels' \subseteq cancels
    BY <1>1, <1>2, <1>5, <2>6 DEF XReject, Tell
  <2>8. /\ r \in Report /\ r.status = "Rejected" /\ r.cum = y.filled /\ r.price = 0
        /\ r.exchange_order_id = 0
    BY <1>1, <1>2, <2>6, <2>7 DEF Report, OrderStatus
  <2>9. Sound(x) /\ Follows(o, x, y.filled, r)
    BY <1>1, <1>2, <2>5, <2>7, <2>8 DEF Sound, Follows, Final, is_terminal
  <2>10. ExchangeStep(o, x, r)
    BY <1>1, <1>2, <1>3, <2>4, <2>5, <2>7, <2>8, <2>9 DEF ExchangeStep
  <2> QED
    BY <2>10
<1>6. CASE XExpire(o) \/ XCancel(o)
  <2>1. exch' = [exch EXCEPT ![o] = [y EXCEPT !.st = "done"]]
    BY <1>1, <1>6 DEF XExpire, XCancel
  <2>2. PICK x : x = [y EXCEPT !.filled = y.filled, !.st = "done"]
    OBVIOUS
  <2>3. [y EXCEPT !.st = "done"] = x
    BY <1>1, <2>2 DEF XOrderType
  <2>4. exch' = [exch EXCEPT ![o] = x]
    BY <2>1, <2>3
  <2>5. /\ x \in XOrderType /\ x.st = "done" /\ x.filled = y.filled
        /\ x.qty = y.qty /\ x.symbol = y.symbol /\ x.side = y.side
        /\ x.market = y.market /\ x.pair = y.pair
    BY <1>1, <1>2, <2>2 DEF XOrderType
  <2>6. PICK r : r = [status |-> "Canceled", cum |-> y.filled, price |-> 0,
                      exchange_order_id |-> o + 1, commission |-> 0]
    OBVIOUS
  <2>7. reports' = [reports EXCEPT ![o] = Append(@, r)] /\ y.st \in {"sent", "live"} /\ cancels' \subseteq cancels
    BY <1>1, <1>2, <1>6, <2>6 DEF XExpire, XCancel, Tell
  <2>8. /\ r \in Report /\ r.status = "Canceled" /\ r.cum = y.filled /\ r.price = 0
        /\ r.exchange_order_id = o + 1
    BY <1>1, <1>2, <2>6, <2>7 DEF Report, OrderStatus
  <2>9. Sound(x) /\ Follows(o, x, y.filled, r)
    BY <1>1, <1>2, <2>5, <2>7, <2>8 DEF Sound, Follows, Final, is_terminal
  <2>10. ExchangeStep(o, x, r)
    BY <1>1, <1>2, <1>3, <2>4, <2>5, <2>7, <2>8, <2>9 DEF ExchangeStep
  <2> QED
    BY <2>10
<1>7. ASSUME NEW q \in 1..exch[o].qty, XFill(o, q) PROVE \E x, r : ExchangeStep(o, x, r)
  <2>1. PICK cum, s, st : /\ cum = y.filled + q
                          /\ s = IF cum = y.qty THEN "done" ELSE "live"
                          /\ st = IF cum = y.qty THEN "Filled" ELSE "Partial"
    OBVIOUS
  <2>2. PICK x : x = [y EXCEPT !.filled = cum, !.st = s]
    OBVIOUS
  <2>3. exch' = [exch EXCEPT ![o].filled = cum, ![o].st = s]
    BY <1>1, <1>7, <2>1 DEF XFill
  <2>4. exch' = [exch EXCEPT ![o] = x]
    BY <1>1, <2>2, <2>3
  <2>5. PICK r : r = [status |-> st, cum |-> cum, price |-> 1,
                      exchange_order_id |-> o + 1, commission |-> 0]
    OBVIOUS
  <2>6. reports' = [reports EXCEPT ![o] = Append(@, r)]
        /\ y.st = "live" /\ cancels' \subseteq cancels /\ cum <= y.qty
    BY <1>1, <1>7, <2>1, <2>5 DEF XFill, Tell
  <2>7. /\ cum \in Nat /\ cum > y.filled
        /\ s \in {"sent", "live", "done"} /\ st \in OrderStatus
    BY <1>1, <1>2, <2>1 DEF OrderStatus
  <2>8. /\ x \in XOrderType /\ x.st = s /\ x.filled = cum
        /\ x.qty = y.qty /\ x.symbol = y.symbol /\ x.side = y.side
        /\ x.market = y.market /\ x.pair = y.pair
    BY <1>1, <2>2, <2>7 DEF XOrderType
  <2>9. /\ r \in Report /\ r.status = st /\ r.cum = cum /\ r.price = 1
        /\ r.exchange_order_id = o + 1
    BY <1>1, <2>5, <2>7 DEF Report
  <2>10. Sound(x) /\ Follows(o, x, y.filled, r)
    BY <1>1, <1>2, <2>1, <2>6, <2>7, <2>8, <2>9 DEF Sound, Follows, Final, is_terminal
  <2>11. ExchangeStep(o, x, r)
    BY <1>1, <1>2, <1>3, <2>4, <2>6, <2>7, <2>8, <2>9, <2>10 DEF ExchangeStep
  <2> QED
    BY <2>11
<1> QED
  BY <1>4, <1>5, <1>6, <1>7 DEF Exchange

(* A truthful record stays truthful while its order goes on trading. *)
LEMMA TruthfulGrows ==
    ASSUME NEW o, NEW y \in XOrderType, NEW x \in XOrderType, NEW rec \in OrderRecord,
           Truthful(o, y, rec), y.st # "done",
           x.qty = y.qty, x.symbol = y.symbol, x.side = y.side, x.filled >= y.filled
    PROVE  Truthful(o, x, rec) /\ ~is_terminal(rec.status)
<1>1. ~is_terminal(rec.status)
  BY DEF Truthful, Final
<1>2. x.filled \in Nat /\ y.filled \in Nat /\ rec.filled_qty \in Nat
  BY DEF XOrderType, OrderRecord
<1> QED
  BY <1>1, <1>2 DEF Truthful

(* A report sent by the exchange goes behind those under way. *)
LEMMA QueuedAppend ==
    ASSUME NEW o \in Nat, NEW y \in XOrderType, NEW x \in XOrderType,
           NEW queue \in Seq(Report), NEW r \in Report, NEW rec \in OrderRecord,
           Queued(o, y, queue, rec), Truthful(o, y, rec), y.st # "done",
           x.filled >= y.filled,
           Follows(o, x, y.filled, r), r.cum = x.filled
    PROVE  Queued(o, x, Append(queue, r), rec)
<1> DEFINE q == Append(queue, r)
           f == rec.filled_qty
<1>1. /\ Len(queue) \in Nat /\ Len(q) = Len(queue) + 1
      /\ \A i \in 1..Len(queue) : q[i] = queue[i]
      /\ q[Len(queue) + 1] = r
  OBVIOUS
<1>2. ~is_terminal(rec.status) /\ \A i \in 1..Len(queue) : ~is_terminal(queue[i].status)
  BY DEF Truthful, Final, Queued, Follows
<1>3. x.filled \in Nat /\ y.filled \in Nat
  BY DEF XOrderType
<1>4. \A i \in 1..(Len(queue) + 1) : Before(q, f, i) = Before(queue, f, i)
  BY <1>1 DEF Before
<1>5. Before(q, f, Len(q) + 1) = x.filled
  BY <1>1 DEF Before
<1>6. Before(queue, f, Len(queue) + 1) = y.filled
  BY DEF Queued
<1>7. ASSUME NEW i \in 1..Len(queue)
      PROVE  Follows(o, x, Before(q, f, i), q[i])
  <2>1. Follows(o, y, Before(queue, f, i), queue[i])
    BY DEF Queued
  <2>2. Before(q, f, i) = Before(queue, f, i) /\ q[i] = queue[i]
    BY <1>1, <1>4
  <2>3. queue[i].cum \in Nat
    <3>1. queue[i] \in Report
      OBVIOUS
    <3> QED
      BY <3>1 DEF Report
  <2> QED
    BY <1>2, <1>3, <2>1, <2>2, <2>3 DEF Follows
<1>8. Follows(o, x, Before(q, f, Len(queue) + 1), q[Len(queue) + 1])
  BY <1>1, <1>4, <1>6
<1>9. \A i \in 1..Len(q) : Follows(o, x, Before(q, f, i), q[i])
  BY <1>1, <1>7, <1>8
<1>10. \A i \in 1..Len(q) : is_terminal(q[i].status) => i = Len(q)
  BY <1>1, <1>2
<1> QED
  BY <1>2, <1>5, <1>9, <1>10 DEF Queued

(* The next report under way follows the OMS record, and applying it       *)
(* leaves a record that the rest of the queue follows.                     *)
LEMMA QueuedTail ==
    ASSUME NEW o \in Nat, NEW x \in XOrderType, NEW queue \in Seq(Report), queue # <<>>,
           NEW rec \in OrderRecord, Queued(o, x, queue, rec), Truthful(o, x, rec)
    PROVE  /\ Head(queue) \in Report
           /\ Follows(o, x, rec.filled_qty, Head(queue))
           /\ Queued(o, x, Tail(queue), Applied(rec, Head(queue)))
<1> DEFINE q == Tail(queue)
           r == Head(queue)
           ap == Applied(rec, r)
<1>1. /\ Len(queue) \in Nat \ {0} /\ Len(q) = Len(queue) - 1 /\ r = queue[1]
      /\ \A i \in 1..Len(q) : q[i] = queue[i + 1] /\ i + 1 \in 1..Len(queue)
      /\ q \in Seq(Report) /\ r \in Report
  OBVIOUS
<1>2. Follows(o, x, rec.filled_qty, r)
  <2>1. Follows(o, x, Before(queue, rec.filled_qty, 1), queue[1])
    <3>1. 1 \in 1..Len(queue)
      BY <1>1
    <3> QED
      BY <3>1 DEF Queued
  <2> QED
    BY <1>1, <2>1 DEF Before
<1>3. ap.filled_qty = r.cum /\ ap.status = r.status
  BY <1>1, <1>2, AppliedTruthful
<1> HIDE DEF q, r, ap
<1>4. \A i \in 1..(Len(q) + 1) :
          Before(q, ap.filled_qty, i) = Before(queue, rec.filled_qty, i + 1)
  BY <1>1, <1>3 DEF Before
<1>5. ASSUME NEW i \in 1..Len(q)
      PROVE  /\ Follows(o, x, Before(q, ap.filled_qty, i), q[i])
             /\ is_terminal(q[i].status) => i = Len(q)
  <2>1. i + 1 \in 1..Len(queue) /\ q[i] = queue[i + 1]
    BY <1>1
  <2>2. /\ Follows(o, x, Before(queue, rec.filled_qty, i + 1), queue[i + 1])
        /\ is_terminal(queue[i + 1].status) => i + 1 = Len(queue)
    BY <2>1 DEF Queued
  <2>3. Before(q, ap.filled_qty, i) = Before(queue, rec.filled_qty, i + 1)
    BY <1>1, <1>4
  <2> QED
    BY <1>1, <2>1, <2>2, <2>3
<1>6. x.filled = Before(q, ap.filled_qty, Len(q) + 1)
  <2>1. x.filled = Before(queue, rec.filled_qty, Len(queue) + 1)
    BY DEF Queued
  <2>2. Len(q) + 1 \in 1..(Len(q) + 1) /\ Len(q) + 2 = Len(queue) + 1
    BY <1>1
  <2> QED
    BY <1>1, <1>4, <2>1, <2>2
<1>7. is_terminal(ap.status) => q = <<>>
  <2>1. SUFFICES ASSUME is_terminal(r.status) PROVE q = <<>>
    BY <1>3
  <2>2. 1 = Len(queue)
    BY <1>1, <2>1 DEF Queued
  <2> QED
    BY <1>1, <2>2
<1> QED
  BY <1>1, <1>2, <1>5, <1>6, <1>7 DEF Queued, q, r, ap

(* A step of the exchange keeps the copies of the order together. *)
LEMMA ExchangeKeepsOrders ==
    ASSUME OrderInv, NEW o \in DOMAIN exch, NEW x, NEW r, ExchangeStep(o, x, r)
    PROVE  OrderInv'
<1> USE DEF OrderInv
<1>1. /\ seq' = seq /\ orders' = orders /\ waiters' = waiters
      /\ exch' = [exch EXCEPT ![o] = x] /\ reports' = [reports EXCEPT ![o] = Append(@, r)]
      /\ cancels' \subseteq cancels
  BY DEF ExchangeStep, engine
<1>2. /\ DOMAIN exch' = DOMAIN exch /\ exch'[o] = x
      /\ \A k \in DOMAIN exch : k # o => exch'[k] = exch[k]
  BY <1>1
<1>3. /\ DOMAIN reports' = DOMAIN reports /\ reports'[o] = Append(reports[o], r)
      /\ \A k \in DOMAIN exch : k # o => reports'[k] = reports[k]
  BY <1>1 DEF MapInv
<1>4. /\ exch[o] \in XOrderType /\ x \in XOrderType /\ r \in Report /\ o \in Nat
      /\ reports[o] \in Seq(Report) /\ Append(reports[o], r) \in Seq(Report)
  BY DEF MapInv, ExchangeStep
<1>5. MapInv'
  BY <1>1, <1>2, <1>3, <1>4 DEF MapInv
<1>6. ExchInv'
  BY <1>2 DEF ExchInv, ExchangeStep
<1>7. ASSUME NEW k \in DOMAIN orders
      PROVE  /\ orders[k] \in OrderRecord /\ waiters[k] \in Seq(OrderRecord)
             /\ k \in DOMAIN exch
             /\ Truthful(k, exch[k], orders[k])
             /\ \A i \in 1..Len(waiters[k]) : /\ waiters[k][i] \in OrderRecord
                                              /\ Truthful(k, exch[k], waiters[k][i])
             /\ Queued(k, exch[k], reports[k], orders[k])
  BY DEF MapInv, RecordInv, ReportInv
<1>8. ASSUME NEW k \in DOMAIN orders
      PROVE  /\ Truthful(k, exch'[k], orders[k])
             /\ \A i \in 1..Len(waiters[k]) : Truthful(k, exch'[k], waiters[k][i])
             /\ Queued(k, exch'[k], reports'[k], orders[k])
  <2>1. CASE k # o
    BY <1>2, <1>3, <1>7, <2>1
  <2>2. CASE k = o
    <3>1. /\ exch[o].st # "done" /\ x.filled >= exch[o].filled
          /\ x.qty = exch[o].qty /\ x.symbol = exch[o].symbol /\ x.side = exch[o].side
          /\ Follows(o, x, exch[o].filled, r) /\ r.cum = x.filled
      BY DEF ExchangeStep
    <3>2. Truthful(o, x, orders[o])
      BY <1>4, <1>7, <2>2, <3>1, TruthfulGrows
    <3>3. \A i \in 1..Len(waiters[o]) : Truthful(o, x, waiters[o][i])
      BY <1>4, <1>7, <2>2, <3>1, TruthfulGrows
    <3>4. Queued(o, x, Append(reports[o], r), orders[o])
      BY <1>4, <1>7, <2>2, <3>1, QueuedAppend
    <3> QED
      BY <1>2, <1>3, <2>2, <3>2, <3>3, <3>4
  <2> QED
    BY <2>1, <2>2
<1>9. RecordInv' /\ ReportInv'
  BY <1>1, <1>8 DEF RecordInv, ReportInv
<1> QED
  BY <1>5, <1>6, <1>9

-----------------------------------------------------------------------------
(* Delivery of a report.                                                   *)

(* The maps of OrderRecords. *)
LEMMA PutDrop ==
    ASSUME NEW m, NEW k, NEW v
    PROVE  /\ DOMAIN Put(m, k, v) = DOMAIN m \cup {k}
           /\ Put(m, k, v)[k] = v
           /\ \A j \in DOMAIN m : j # k => Put(m, k, v)[j] = m[j]
           /\ DOMAIN Drop(m, k) = DOMAIN m \ {k}
           /\ \A j \in DOMAIN m : j # k => Drop(m, k)[j] = m[j]
BY DEF Put, Drop

(* Delivering a report to a tracked order applies it to the record and     *)
(* offers the result to the waiter; any other report is ignored.           *)
LEMMA DeliverKeepsOrders ==
    ASSUME OrderInv, NEW o \in DOMAIN exch, Deliver(o)
    PROVE  OrderInv' /\ DOMAIN orders' = DOMAIN orders
<1> USE DEF OrderInv
<1>1. /\ seq' = seq /\ exch' = exch /\ cancels' = cancels
      /\ reports[o] # <<>> /\ reports' = [reports EXCEPT ![o] = Tail(@)]
  BY DEF Deliver
<1>2. /\ DOMAIN reports' = DOMAIN reports /\ reports'[o] = Tail(reports[o])
      /\ \A k \in DOMAIN exch : k # o => reports'[k] = reports[k]
      /\ reports[o] \in Seq(Report) /\ Tail(reports[o]) \in Seq(Report)
  BY <1>1 DEF MapInv
<1>3. CASE o \notin DOMAIN orders
  <2>1. orders' = orders /\ waiters' = waiters
    BY <1>3 DEF Deliver, apply_update
  <2>2. MapInv'
    BY <1>1, <1>2, <2>1 DEF MapInv
  <2>3. ExchInv' /\ RecordInv'
    BY <1>1, <2>1 DEF ExchInv, RecordInv
  <2>4. \A k \in DOMAIN orders : k \in DOMAIN exch /\ k # o
    BY <1>3 DEF MapInv
  <2>5. ReportInv'
    BY <1>1, <1>2, <2>1, <2>4 DEF ReportInv
  <2> QED
    BY <2>1, <2>2, <2>3, <2>5
<1>4. CASE o \in DOMAIN orders
  <2>1. PICK ap : ap = Applied(orders[o], Head(reports[o]))
    OBVIOUS
  <2>2. /\ orders[o] \in OrderRecord /\ waiters[o] \in Seq(OrderRecord)
        /\ Len(waiters[o]) <= kChanBuffer + 1 /\ exch[o] \in XOrderType /\ o \in Nat
        /\ Truthful(o, exch[o], orders[o])
        /\ \A i \in 1..Len(waiters[o]) : Truthful(o, exch[o], waiters[o][i])
        /\ Queued(o, exch[o], reports[o], orders[o])
    BY <1>4 DEF MapInv, RecordInv, ReportInv
  <2>3. /\ Head(reports[o]) \in Report
        /\ Follows(o, exch[o], orders[o].filled_qty, Head(reports[o]))
        /\ Queued(o, exch[o], Tail(reports[o]), ap)
    BY <1>1, <1>2, <2>1, <2>2, QueuedTail
  <2>4. ap \in OrderRecord /\ Truthful(o, exch[o], ap)
    BY <2>1, <2>2, <2>3, AppliedTruthful
  <2>5. orders' = Put(orders, o, ap) /\ waiters' = IF Len(waiters[o]) <= kChanBuffer
                                                  THEN [waiters EXCEPT ![o] = Append(@, ap)]
                                                  ELSE waiters
    BY <1>4, <2>1 DEF Deliver, apply_update, dispatch_update, TrySend, MapInv
  <2>6. /\ DOMAIN orders' = DOMAIN orders /\ orders'[o] = ap
        /\ \A k \in DOMAIN orders : k # o => orders'[k] = orders[k]
    BY <1>4, <2>5 DEF Put
  <2>7. /\ DOMAIN waiters' = DOMAIN waiters
        /\ waiters'[o] \in {waiters[o], Append(waiters[o], ap)}
        /\ \A k \in DOMAIN waiters : k # o => waiters'[k] = waiters[k]
    BY <1>4, <2>5 DEF MapInv
  <2>8. /\ waiters'[o] \in Seq(OrderRecord) /\ Len(waiters'[o]) <= kChanBuffer + 1
        /\ \A i \in 1..Len(waiters'[o]) : Truthful(o, exch[o], waiters'[o][i])
    <3>1. CASE ~ (Len(waiters[o]) <= kChanBuffer)
      BY <2>2, <2>5, <3>1
    <3>2. CASE Len(waiters[o]) <= kChanBuffer
      <4>1. waiters'[o] = Append(waiters[o], ap)
        BY <1>4, <2>5, <3>2 DEF MapInv
      <4>2. /\ Append(waiters[o], ap) \in Seq(OrderRecord)
            /\ Len(Append(waiters[o], ap)) = Len(waiters[o]) + 1
            /\ \A i \in 1..Len(waiters[o]) : Append(waiters[o], ap)[i] = waiters[o][i]
            /\ Append(waiters[o], ap)[Len(waiters[o]) + 1] = ap
            /\ Len(waiters[o]) \in Nat
        BY <2>2, <2>4
      <4>3. \A i \in 1..Len(Append(waiters[o], ap)) :
                Truthful(o, exch[o], Append(waiters[o], ap)[i])
        BY <2>2, <2>4, <4>2
      <4> QED
        BY <3>2, <4>1, <4>2, <4>3, EngineAssumption
    <3> QED
      BY <3>1, <3>2
  <2>9. MapInv'
    BY <1>1, <1>2, <2>4, <2>6, <2>7, <2>8 DEF MapInv
  <2>10. ExchInv'
    BY <1>1 DEF ExchInv
  <2>11. RecordInv'
    BY <1>1, <2>4, <2>6, <2>7, <2>8 DEF RecordInv, MapInv
  <2>12. ReportInv'
    BY <1>1, <1>2, <2>3, <2>6 DEF ReportInv, MapInv
  <2> QED
    BY <2>6, <2>9, <2>10, <2>11, <2>12
<1> QED
  BY <1>3, <1>4

-----------------------------------------------------------------------------
(* A turn of a coroutine.  Whatever else it does, it releases some tracked *)
(* orders R, registers and sends new ones, and receives or loses updates   *)
(* of the waiter channels it keeps.                                        *)

Turn(R) ==
    /\ R \subseteq DOMAIN orders
    /\ seq' \in seq..MaxOrders
    /\ DOMAIN orders' = (DOMAIN orders \ R) \cup (seq..(seq' - 1))
    /\ DOMAIN waiters' = DOMAIN orders'
    /\ DOMAIN exch' = 0..(seq' - 1) /\ DOMAIN reports' = DOMAIN exch'
    /\ \A o \in DOMAIN orders \ R : /\ orders'[o] = orders[o]
                                    /\ \/ waiters'[o] = waiters[o]
                                       \/ waiters'[o] = LoseRace(waiters[o])
    /\ \A o \in DOMAIN exch : exch'[o] = exch[o] /\ reports'[o] = reports[o]
    /\ \A o \in seq..(seq' - 1) :
           \E t \in Ticket, is_market \in BOOLEAN, p \in 0..seq :
               /\ t.qty > 0
               /\ exch'[o] = XOrder(t, is_market, p) /\ reports'[o] = <<>>
               /\ orders'[o] = NewOrder(t) /\ waiters'[o] = <<>>
    /\ cancels' \subseteq cancels \cup DOMAIN exch

(* The other side of a race keeps its channel, one update shorter. *)
LEMMA LoseRaceType ==
    ASSUME NEW S, NEW q \in Seq(S)
    PROVE  /\ LoseRace(q) \in Seq(S) /\ Len(LoseRace(q)) <= Len(q)
           /\ \A i \in 1..Len(LoseRace(q)) : \E j \in 1..Len(q) : LoseRace(q)[i] = q[j]
<1>1. CASE q = <<>>
  BY <1>1 DEF LoseRace
<1>2. CASE q # <<>>
  <2>1. /\ Len(q) \in Nat \ {0} /\ Tail(q) \in Seq(S) /\ Len(Tail(q)) = Len(q) - 1
        /\ \A i \in 1..Len(Tail(q)) : i + 1 \in 1..Len(q) /\ Tail(q)[i] = q[i + 1]
    BY <1>2
  <2> QED
    BY <1>2, <2>1 DEF LoseRace
<1> QED
  BY <1>1, <1>2

(* What a newly sent order looks like in every place. *)
LEMMA FreshOrder ==
    ASSUME NEW o \in Nat, NEW t \in Ticket, t.qty > 0, NEW is_market \in BOOLEAN,
           NEW p \in Nat
    PROVE  /\ XOrder(t, is_market, p) \in XOrderType
           /\ Sound(XOrder(t, is_market, p))
           /\ NewOrder(t) \in OrderRecord
           /\ Truthful(o, XOrder(t, is_market, p), NewOrder(t))
           /\ Queued(o, XOrder(t, is_market, p), <<>>, NewOrder(t))
<1>1. /\ t.qty \in Nat \ {0} /\ t.symbol \in Symbols /\ t.side \in Side
  BY DEF Ticket
<1>2. PICK x : x = XOrder(t, is_market, p)
  OBVIOUS
<1>3. /\ x \in XOrderType /\ x.qty = t.qty /\ x.symbol = t.symbol /\ x.side = t.side
      /\ x.filled = 0 /\ x.st = "sent"
  BY <1>1, <1>2 DEF XOrder, XOrderType
<1>4. PICK rec : rec = NewOrder(t)
  OBVIOUS
<1>5. /\ rec \in OrderRecord /\ rec.qty = t.qty /\ rec.symbol = t.symbol
      /\ rec.side = t.side /\ rec.filled_qty = 0 /\ rec.exchange_order_id = 0
      /\ rec.status = "PendingNew" /\ rec.avg_fill_price = <<0, 1>>
  <2>1. rec \in OrderRecord
    BY <1>4, NewOrderType
  <2> QED
    BY <1>4, <2>1 DEF NewOrder
<1>6. rec.avg_fill_price[1] = 0 /\ rec.avg_fill_price[2] = 1
  BY <1>5
<1>7. Sound(x)
  BY <1>1, <1>3 DEF Sound
<1>8. Truthful(o, x, rec)
  BY <1>3, <1>5, <1>6 DEF Truthful, is_terminal
<1>9. Queued(o, x, <<>>, rec)
  <2>1. Len(<<>>) = 0 /\ Before(<<>>, rec.filled_qty, 1) = 0 /\ ~is_terminal(rec.status)
    BY <1>5 DEF Before, is_terminal
  <2> QED
    BY <1>3, <2>1 DEF Queued
<1> QED
  BY <1>2, <1>3, <1>4, <1>5, <1>7, <1>8, <1>9

(* A turn keeps the copies of every order together. *)
LEMMA TurnKeepsOrders ==
    ASSUME OrderInv, NEW R, Turn(R)
    PROVE  OrderInv'
<1> USE DEF OrderInv
<1>1. /\ seq \in Nat /\ seq' \in Nat /\ seq <= seq' /\ seq' <= MaxOrders
      /\ DOMAIN exch = 0..(seq - 1) /\ DOMAIN exch' = 0..(seq' - 1)
      /\ DOMAIN orders \subseteq DOMAIN exch /\ R \subseteq DOMAIN orders
      /\ DOMAIN orders' = (DOMAIN orders \ R) \cup (seq..(seq' - 1))
      /\ DOMAIN exch \subseteq DOMAIN exch'
      /\ DOMAIN orders' \subseteq DOMAIN exch'
  <2>1. /\ seq \in Nat /\ seq' \in Nat /\ seq <= seq' /\ seq' <= MaxOrders
    BY EngineAssumption DEF Turn, MapInv
  <2>2. /\ DOMAIN exch = 0..(seq - 1) /\ DOMAIN exch' = 0..(seq' - 1)
        /\ DOMAIN orders \subseteq DOMAIN exch /\ R \subseteq DOMAIN orders
        /\ DOMAIN orders' = (DOMAIN orders \ R) \cup (seq..(seq' - 1))
    BY DEF Turn, MapInv
  <2>3. DOMAIN exch \subseteq DOMAIN exch' /\ seq..(seq' - 1) \subseteq DOMAIN exch'
    <3>1. \A m, n \in Nat : m <= n => 0..(m - 1) \subseteq 0..(n - 1)
                                         /\ m..(n - 1) \subseteq 0..(n - 1)
      OBVIOUS
    <3> QED
      BY <2>1, <2>2, <3>1
  <2> QED
    BY <2>1, <2>2, <2>3
<1>2. ASSUME NEW o \in seq..(seq' - 1)
      PROVE  /\ exch'[o] \in XOrderType /\ Sound(exch'[o])
             /\ reports'[o] = <<>> /\ waiters'[o] = <<>> /\ orders'[o] \in OrderRecord
             /\ Truthful(o, exch'[o], orders'[o])
             /\ Queued(o, exch'[o], reports'[o], orders'[o])
  <2>1. PICK t \in Ticket, is_market \in BOOLEAN, p \in 0..seq :
               /\ t.qty > 0
               /\ exch'[o] = XOrder(t, is_market, p) /\ reports'[o] = <<>>
               /\ orders'[o] = NewOrder(t) /\ waiters'[o] = <<>>
    BY DEF Turn
  <2>2. o \in Nat /\ p \in Nat
    BY <1>1
  <2> QED
    BY <2>1, <2>2, FreshOrder
<1>3. ASSUME NEW o \in DOMAIN orders \ R
      PROVE  /\ orders'[o] = orders[o] /\ orders[o] \in OrderRecord
             /\ exch'[o] = exch[o] /\ reports'[o] = reports[o]
             /\ waiters'[o] \in Seq(OrderRecord) /\ Len(waiters'[o]) <= kChanBuffer + 1
             /\ Truthful(o, exch[o], orders[o])
             /\ \A i \in 1..Len(waiters'[o]) : Truthful(o, exch[o], waiters'[o][i])
             /\ Queued(o, exch[o], reports[o], orders[o])
  <2>1. /\ orders'[o] = orders[o] /\ exch'[o] = exch[o] /\ reports'[o] = reports[o]
        /\ waiters'[o] = waiters[o] \/ waiters'[o] = LoseRace(waiters[o])
    BY <1>1 DEF Turn
  <2>2. /\ orders[o] \in OrderRecord /\ waiters[o] \in Seq(OrderRecord)
        /\ Len(waiters[o]) <= kChanBuffer + 1 /\ Len(waiters[o]) \in Nat
        /\ Truthful(o, exch[o], orders[o])
        /\ \A i \in 1..Len(waiters[o]) : Truthful(o, exch[o], waiters[o][i])
        /\ Queued(o, exch[o], reports[o], orders[o])
    BY DEF MapInv, RecordInv, ReportInv
  <2>3. /\ LoseRace(waiters[o]) \in Seq(OrderRecord)
        /\ Len(LoseRace(waiters[o])) <= Len(waiters[o])
        /\ Len(LoseRace(waiters[o])) \in Nat
        /\ \A i \in 1..Len(LoseRace(waiters[o])) :
               \E j \in 1..Len(waiters[o]) : LoseRace(waiters[o])[i] = waiters[o][j]
    BY <2>2, LoseRaceType
  <2>4. CASE waiters'[o] = waiters[o]
    BY <2>1, <2>2, <2>4
  <2>5. CASE waiters'[o] = LoseRace(waiters[o])
    <3>1. Len(LoseRace(waiters[o])) <= kChanBuffer + 1
      BY <2>2, <2>3, EngineAssumption
    <3>2. \A i \in 1..Len(LoseRace(waiters[o])) :
              Truthful(o, exch[o], LoseRace(waiters[o])[i])
      BY <2>2, <2>3
    <3> QED
      BY <2>1, <2>2, <2>3, <2>5, <3>1, <3>2
  <2> QED
    BY <2>1, <2>4, <2>5
<1>4. \A o \in DOMAIN exch' : exch'[o] \in XOrderType /\ Sound(exch'[o])
                               /\ reports'[o] \in Seq(Report)
  <2>1. ASSUME NEW o \in DOMAIN exch
        PROVE  exch'[o] \in XOrderType /\ Sound(exch'[o]) /\ reports'[o] \in Seq(Report)
    BY DEF Turn, MapInv, ExchInv
  <2>2. ASSUME NEW o \in seq..(seq' - 1)
        PROVE  exch'[o] \in XOrderType /\ Sound(exch'[o]) /\ reports'[o] \in Seq(Report)
    <3>1. <<>> \in Seq(Report)
      OBVIOUS
    <3> QED
      BY <1>2, <3>1
  <2> QED
    BY <1>1, <2>1, <2>2
<1>5. \A o \in DOMAIN orders' : /\ orders'[o] \in OrderRecord
                                /\ waiters'[o] \in Seq(OrderRecord)
                                /\ Len(waiters'[o]) <= kChanBuffer + 1
  <2>1. <<>> \in Seq(OrderRecord) /\ Len(<<>>) <= kChanBuffer + 1
    BY EngineAssumption
  <2> QED
    BY <1>1, <1>2, <1>3, <2>1
<1>6. MapInv'
  BY <1>1, <1>4, <1>5 DEF MapInv, Turn
<1>7. ExchInv'
  BY <1>4 DEF ExchInv
<1>8. RecordInv'
  <2>1. \A i \in 1..Len(<<>>) : FALSE
    OBVIOUS
  <2>2. ASSUME NEW o \in seq..(seq' - 1)
        PROVE  /\ Truthful(o, exch'[o], orders'[o])
               /\ \A i \in 1..Len(waiters'[o]) : Truthful(o, exch'[o], waiters'[o][i])
    BY <1>2, <2>1
  <2> QED
    BY <1>1, <1>3, <2>2 DEF RecordInv
<1>9. ReportInv'
  BY <1>1, <1>2, <1>3 DEF ReportInv
<1> QED
  BY <1>6, <1>7, <1>8, <1>9

-----------------------------------------------------------------------------
(* The second half of the invariant: pairs, what is booked, what is done   *)
(* with at release, and the hedges.                                        *)

Coroutine == [pc: {"first", "leg", "ack"}, id: Nat \X Nat, leg: Signals, rest: {1, 2}]

(* The market hedges sent for pair p. *)
Hedges(p) == { h \in DOMAIN exch : exch[h].market /\ exch[h].pair = p }

(* Orders p and p + 1 are the legs sent for signal sg. *)
IsLeg(o, p, t) == /\ ~exch[o].market /\ exch[o].pair = p
                  /\ exch[o].symbol = t.symbol /\ exch[o].side = t.side
                  /\ exch[o].qty = t.qty

PairLegs(p, sg) == /\ p \in Nat /\ p + 1 < seq
                   /\ IsLeg(p, p, sg[1]) /\ IsLeg(p + 1, p, sg[2])

(* A running monitor: its legs, and how far it is.  Once a first leg       *)
(* filled, that leg is the one that no longer rests.                       *)
Monitored(p) ==
    LET m == monitors[p]
    IN  /\ m \in Coroutine /\ m.id[1] = p /\ m.id[2] = p + 1 /\ PairLegs(p, m.leg)
        /\ m.pc = "first" <=> p \notin DOMAIN first_status
        /\ m.pc = "leg" => first_status[p] = "Filled"
        /\ m.pc # "first" /\ first_status[p] = "Filled" =>
               exch[m.id[3 - m.rest]].filled = exch[m.id[3 - m.rest]].qty
        /\ Hedges(p) = {}

PairInv ==
    /\ \A p \in DOMAIN monitors : Monitored(p)
    /\ \A p \in DOMAIN first_status : \E sg \in Signals : PairLegs(p, sg)
    /\ \A o \in DOMAIN exch : exch[o].pair < seq
    /\ \A o \in DOMAIN exch : ~exch[o].market => o = exch[o].pair \/ o = exch[o].pair + 1

(* The quantity booked for each order. *)
Booked == [o \in DOMAIN exch |-> AlreadyBooked(o + 1)]

(* An order is booked when it is released, never beyond what it filled,    *)
(* and the position is the sum of what is booked.                          *)
BookInv ==
    /\ DOMAIN last_filled \subseteq 1..seq
    /\ \A x \in DOMAIN last_filled : last_filled[x] \in Nat
    /\ position \in [Symbols -> Int]
    /\ \A o \in DOMAIN orders : o + 1 \notin DOMAIN last_filled
    /\ \A o \in DOMAIN exch : AlreadyBooked(o + 1) <= exch[o].filled
    /\ \A s \in Symbols :
           position[s] = Total(Booked, On(s, "Buy")) - Total(Booked, On(s, "Sell"))

(* The one way a fill may stay unbooked: the partial fill of a first leg   *)
(* that was then cancelled.                                                *)
Excused(o) == /\ ~exch[o].market /\ exch[o].filled < exch[o].qty
              /\ exch[o].pair \in DOMAIN first_status
              /\ first_status[exch[o].pair] = "Canceled"

ReleaseInv ==
    ~AckMayTimeOut =>
        \A o \in Released : /\ exch[o].st = "done"
                            /\ AlreadyBooked(o + 1) = exch[o].filled \/ Excused(o)

(* Leg f of pair p filled, and the hedges of p make up for what leg k      *)
(* lacks.                                                                  *)
Hedged(f, k, p) ==
    /\ exch[f].filled = exch[f].qty
    /\ exch[k].st = "done"
    /\ exch[k].filled = exch[k].qty => Hedges(p) = {}
    /\ exch[k].filled # exch[k].qty =>
           \E h \in DOMAIN exch :
               /\ Hedges(p) = {h} /\ exch[h].symbol = exch[k].symbol
               /\ exch[h].qty = exch[k].qty - exch[k].filled

HedgeInv ==
    ~AckMayTimeOut =>
        \A p \in DOMAIN first_status \ DOMAIN monitors :
            first_status[p] = "Filled" => Hedged(p, p + 1, p) \/ Hedged(p + 1, p, p)

(* The halt is a latch: it holds while the counter is at its limit, and    *)
(* for good once the limit was reached.                                    *)
BreakerInv == /\ halted \in BOOLEAN /\ consecutive_rejects \in Nat
              /\ tripped \in BOOLEAN
              /\ consecutive_rejects >= kMaxConsecutiveRejects => halted
              /\ tripped => halted

OwnerInv == EveryOrderOwned /\ OnePairPerSymbol /\ AtMostOneOverLimit

IInv == /\ OrderInv /\ PairInv /\ OwnerInv /\ BookInv /\ ReleaseInv /\ HedgeInv
        /\ BreakerInv

-----------------------------------------------------------------------------
(* What the turns of the coroutines do.                                    *)

(* The legs of a running monitor. *)
LEMMA MonitorLegs ==
    ASSUME OrderInv, PairInv, EveryOrderOwned, NEW p \in DOMAIN monitors
    PROVE  /\ p \in Nat /\ p + 1 < seq /\ p \in DOMAIN exch /\ p + 1 \in DOMAIN exch
           /\ monitors[p] \in Coroutine
           /\ monitors[p].pc \in {"first", "leg", "ack"} /\ monitors[p].leg \in Signals
           /\ monitors[p].id[1] = p /\ monitors[p].id[2] = p + 1
           /\ monitors[p].rest \in {1, 2}
           /\ OpenLegs(p) \subseteq {p, p + 1}
           /\ monitors[p].pc = "first" => OpenLegs(p) = {p, p + 1}
           /\ monitors[p].pc # "first" => OpenLegs(p) = {monitors[p].id[monitors[p].rest]}
           /\ OpenLegs(p) \subseteq DOMAIN orders
           /\ \A k \in {1, 2} :
                 /\ 3 - k \in {1, 2}
                 /\ monitors[p].id[k] \in DOMAIN exch
                 /\ IsLeg(monitors[p].id[k], p, monitors[p].leg[k])
                 /\ monitors[p].leg[k] \in Ticket /\ monitors[p].leg[k].qty > 0
                 /\ monitors[p].leg[k].symbol \in Symbols
<1>1. Monitored(p)
  BY DEF PairInv
<1>2. /\ monitors[p] \in Coroutine /\ monitors[p].id[1] = p /\ monitors[p].id[2] = p + 1
      /\ PairLegs(p, monitors[p].leg)
  BY <1>1 DEF Monitored
<1>3. /\ monitors[p].pc \in {"first", "leg", "ack"} /\ monitors[p].leg \in Signals
      /\ monitors[p].rest \in {1, 2}
  BY <1>2 DEF Coroutine
<1>4. /\ p \in Nat /\ p + 1 < seq /\ IsLeg(p, p, monitors[p].leg[1])
      /\ IsLeg(p + 1, p, monitors[p].leg[2])
  BY <1>2 DEF PairLegs
<1>5. p \in DOMAIN exch /\ p + 1 \in DOMAIN exch
  BY <1>4 DEF OrderInv, MapInv
<1>6. /\ monitors[p].pc = "first" => OpenLegs(p) = {p, p + 1}
      /\ monitors[p].pc # "first" => OpenLegs(p) = {monitors[p].id[monitors[p].rest]}
  BY <1>2 DEF OpenLegs
<1>7. OpenLegs(p) \subseteq {p, p + 1}
  BY <1>2, <1>3, <1>6
<1>8. OpenLegs(p) \subseteq DOMAIN orders
  BY DEF EveryOrderOwned
<1>9. \A k \in {1, 2} : /\ 3 - k \in {1, 2}
                        /\ monitors[p].id[k] \in DOMAIN exch
                        /\ IsLeg(monitors[p].id[k], p, monitors[p].leg[k])
  BY <1>2, <1>4, <1>5
<1>10. \A k \in {1, 2} : /\ monitors[p].leg[k] \in Ticket /\ monitors[p].leg[k].qty > 0
                         /\ monitors[p].leg[k].symbol \in Symbols
  <2>1. /\ monitors[p].leg \in Ticket \X Ticket
        /\ monitors[p].leg[1].qty > 0 /\ monitors[p].leg[2].qty > 0
    BY <1>3, EngineAssumption
  <2>2. monitors[p].leg[1] \in Ticket /\ monitors[p].leg[2] \in Ticket
    BY <2>1
  <2> QED
    BY <2>1, <2>2 DEF Ticket
<1> QED
  BY <1>2, <1>3, <1>4, <1>5, <1>6, <1>7, <1>8, <1>9, <1>10

(* The record a coroutine receives, or reads from the OMS, is truthful. *)
LEMMA RecordAtHand ==
    ASSUME OrderInv, NEW o \in DOMAIN orders
    PROVE  /\ o \in DOMAIN exch /\ exch[o] \in XOrderType
           /\ orders[o] \in OrderRecord /\ Truthful(o, exch[o], orders[o])
           /\ waiters[o] # <<>> => /\ Head(waiters[o]) \in OrderRecord
                                   /\ Truthful(o, exch[o], Head(waiters[o]))
<1>1. /\ o \in DOMAIN exch /\ exch[o] \in XOrderType
      /\ orders[o] \in OrderRecord /\ Truthful(o, exch[o], orders[o])
      /\ waiters[o] \in Seq(OrderRecord)
      /\ \A i \in 1..Len(waiters[o]) : Truthful(o, exch[o], waiters[o][i])
  BY DEF OrderInv, MapInv, RecordInv
<1>2. ASSUME waiters[o] # <<>>
      PROVE  /\ Head(waiters[o]) \in OrderRecord
             /\ Truthful(o, exch[o], Head(waiters[o]))
  <2>1. 1 \in 1..Len(waiters[o]) /\ Head(waiters[o]) = waiters[o][1]
        /\ Head(waiters[o]) \in OrderRecord
    BY <1>1, <1>2
  <2> QED
    BY <1>1, <2>1
<1> QED
  BY <1>1, <1>2

(* What a truthful record says about the remaining quantity. *)
LEMMA HedgeSize ==
    ASSUME NEW o, NEW x \in XOrderType, Sound(x), NEW rec \in OrderRecord,
           Truthful(o, x, rec), NEW first
    PROVE  /\ HedgeQty(first, rec) \in Nat
           /\ is_terminal(rec.status) /\ first = "Filled" =>
                  HedgeQty(first, rec) = x.qty - x.filled
<1>1. /\ rec.qty \in Nat /\ rec.filled_qty \in Nat /\ x.qty \in Nat /\ x.filled \in Nat
  BY DEF OrderRecord, XOrderType
<1>2. rec.qty = x.qty /\ rec.filled_qty <= x.filled /\ x.filled <= x.qty
  BY DEF Truthful, Sound
<1>3. remaining_qty(rec) = x.qty - rec.filled_qty /\ remaining_qty(rec) \in Nat
  BY <1>1, <1>2 DEF remaining_qty
<1>4. is_terminal(rec.status) => /\ rec.filled_qty = x.filled
                                 /\ rec.status = "Filled" <=> x.filled = x.qty
  BY DEF Truthful, Final
<1> QED
  BY <1>1, <1>2, <1>3, <1>4 DEF HedgeQty

(* Receiving a non-terminal update changes neither the orders nor who owns *)
(* them.                                                                   *)
LEMMA SkipTurn ==
    ASSUME OrderInv, NEW o \in DOMAIN waiters, SkipUpdate(o)
    PROVE  /\ Turn({}) /\ seq' = seq /\ exch' = exch /\ DOMAIN orders' = DOMAIN orders
           /\ UNCHANGED <<monitors, watchers, inflight_symbols, book, first_status, breaker>>
<1>1. /\ waiters[o] # <<>> /\ waiters' = [waiters EXCEPT ![o] = Tail(@)]
      /\ UNCHANGED <<seq, orders, exch, reports, cancels>>
      /\ UNCHANGED <<monitors, watchers, inflight_symbols, book, first_status, breaker>>
  BY DEF SkipUpdate, market
<1>2. seq..(seq' - 1) = {} /\ seq' \in seq..MaxOrders
  BY <1>1, EngineAssumption DEF OrderInv, MapInv
<1>3. \A k \in DOMAIN orders : waiters'[k] = waiters[k] \/ waiters'[k] = LoseRace(waiters[k])
  BY <1>1 DEF OrderInv, MapInv, LoseRace
<1>4. Turn({})
  BY <1>1, <1>2, <1>3 DEF Turn, OrderInv, MapInv
<1> QED
  BY <1>1, <1>4

(* A tick of the sweeper only adds cancel requests. *)
LEMMA SweepTurn ==
    ASSUME OrderInv, NEW young, Sweep(young)
    PROVE  /\ Turn({}) /\ seq' = seq /\ exch' = exch /\ DOMAIN orders' = DOMAIN orders
           /\ UNCHANGED <<monitors, watchers, inflight_symbols, book, first_status, breaker>>
<1>1. /\ UNCHANGED <<seq, orders, waiters, exch, reports>>
      /\ UNCHANGED <<monitors, watchers, inflight_symbols, book, first_status, breaker>>
  BY DEF Sweep, engine
<1>2. seq..(seq' - 1) = {} /\ seq' \in seq..MaxOrders
  BY <1>1, EngineAssumption DEF OrderInv, MapInv
<1>3. cancels' \subseteq cancels \cup DOMAIN exch
  BY DEF Sweep, cancel_order, OrderInv, MapInv
<1>4. Turn({})
  BY <1>1, <1>2, <1>3 DEF Turn, OrderInv, MapInv
<1> QED
  BY <1>1, <1>4

(* on_signal registers both legs. *)
LEMMA SignalTurn ==
    ASSUME OrderInv, NEW sg \in Signals, on_signal(sg)
    PROVE  /\ Turn({}) /\ seq' = seq + 2
           /\ DOMAIN orders' = DOMAIN orders \cup {seq, seq + 1}
           /\ exch'[seq] = XOrder(sg[1], FALSE, seq)
           /\ exch'[seq + 1] = XOrder(sg[2], FALSE, seq)
           /\ UNCHANGED <<watchers, book, first_status, breaker>>
<1>1. PICK a, b : a = seq /\ b = seq + 1
  OBVIOUS
<1>2. /\ seq \in Nat /\ a \in Nat /\ b \in Nat /\ b = a + 1 /\ seq + 2 <= MaxOrders
      /\ MaxOrders \in Nat
      /\ DOMAIN exch = 0..(a - 1) /\ DOMAIN reports = DOMAIN exch
      /\ DOMAIN orders \subseteq DOMAIN exch /\ DOMAIN waiters = DOMAIN orders
  BY <1>1, EngineAssumption DEF OrderInv, MapInv, on_signal
<1>3. /\ seq' = seq + 2
      /\ orders' = Put(Put(orders, a, NewOrder(sg[1])), b, NewOrder(sg[2]))
      /\ waiters' = Put(Put(waiters, a, <<>>), b, <<>>)
      /\ exch' = Put(Put(exch, a, XOrder(sg[1], FALSE, a)), b, XOrder(sg[2], FALSE, a))
      /\ reports' = Put(Put(reports, a, <<>>), b, <<>>)
      /\ cancels' = cancels
      /\ UNCHANGED <<watchers, book, first_status, breaker>>
  BY <1>1 DEF on_signal
<1>4. seq..(seq' - 1) = {a, b} /\ 0..(seq' - 1) = (0..(a - 1)) \cup {a, b} /\ a # b
      /\ a \notin DOMAIN exch /\ b \notin DOMAIN exch /\ seq' \in seq..MaxOrders
      /\ a \in 0..seq
  BY <1>1, <1>2, <1>3
<1>5. /\ DOMAIN orders' = DOMAIN orders \cup {a, b} /\ DOMAIN waiters' = DOMAIN orders'
      /\ DOMAIN exch' = DOMAIN exch \cup {a, b} /\ DOMAIN reports' = DOMAIN exch'
  BY <1>2, <1>3 DEF Put
<1>6. /\ orders'[a] = NewOrder(sg[1]) /\ orders'[b] = NewOrder(sg[2])
      /\ waiters'[a] = <<>> /\ waiters'[b] = <<>>
      /\ exch'[a] = XOrder(sg[1], FALSE, a) /\ exch'[b] = XOrder(sg[2], FALSE, a)
      /\ reports'[a] = <<>> /\ reports'[b] = <<>>
  BY <1>3, <1>4 DEF Put
<1>7. /\ \A o \in DOMAIN orders : orders'[o] = orders[o] /\ waiters'[o] = waiters[o]
      /\ \A o \in DOMAIN exch : exch'[o] = exch[o] /\ reports'[o] = reports[o]
  BY <1>2, <1>3, <1>4 DEF Put
<1>8. /\ sg[1] \in Ticket /\ sg[2] \in Ticket /\ sg[1].qty > 0 /\ sg[2].qty > 0
  BY EngineAssumption
<1>9. \A o \in seq..(seq' - 1) :
           \E t \in Ticket, is_market \in BOOLEAN, p \in 0..seq :
               /\ t.qty > 0
               /\ exch'[o] = XOrder(t, is_market, p) /\ reports'[o] = <<>>
               /\ orders'[o] = NewOrder(t) /\ waiters'[o] = <<>>
  BY <1>4, <1>6, <1>8
<1>10. Turn({})
  BY <1>2, <1>3, <1>4, <1>5, <1>7, <1>9 DEF Turn
<1> QED
  BY <1>1, <1>3, <1>5, <1>6, <1>10

(* A turn that releases the one order o, and may lose an update of r. *)
LEMMA ReleaseTurn ==
    ASSUME OrderInv, NEW o \in DOMAIN orders, NEW r \in DOMAIN orders,
           orders' = Drop(orders, o),
           \/ waiters' = Drop(waiters, o)
           \/ waiters' = Drop([waiters EXCEPT ![r] = LoseRace(@)], o),
           cancels' \subseteq cancels \cup DOMAIN exch,
           UNCHANGED <<seq, exch, reports>>
    PROVE  Turn({o}) /\ DOMAIN orders' = DOMAIN orders \ {o}
<1>1. seq..(seq' - 1) = {} /\ seq' \in seq..MaxOrders
  BY EngineAssumption DEF OrderInv, MapInv
<1>2. DOMAIN waiters = DOMAIN orders /\ DOMAIN exch = 0..(seq - 1) /\ DOMAIN reports = DOMAIN exch
  BY DEF OrderInv, MapInv
<1>3. DOMAIN orders' = DOMAIN orders \ {o} /\ DOMAIN waiters' = DOMAIN orders'
  BY <1>2 DEF Drop
<1>4. \A k \in DOMAIN orders \ {o} :
          /\ orders'[k] = orders[k]
          /\ waiters'[k] = waiters[k] \/ waiters'[k] = LoseRace(waiters[k])
  BY <1>2 DEF Drop
<1> QED
  BY <1>1, <1>2, <1>3, <1>4 DEF Turn

(* The exchange is done with order o, or has a request to cancel it, and   *)
(* the same after a step.                                                  *)
Ending(o) == exch[o].st = "done" \/ o \in cancels
EndingNext(o) == exch'[o].st = "done" \/ o \in cancels'

(* Leg number i of pair p settles first and monitor_pair goes on to wait   *)
(* for the other one.  rec is the record it settled with.                  *)
FirstSettles(p, i, rec, pc) ==
    LET o == monitors[p].id[i]
    IN  /\ i \in {1, 2} /\ monitors[p].pc = "first"
        /\ rec \in OrderRecord /\ Truthful(o, exch[o], rec) /\ is_terminal(rec.status)
        /\ Turn({o}) /\ seq' = seq /\ exch' = exch /\ DOMAIN orders' = DOMAIN orders \ {o}
        /\ monitors' = [monitors EXCEPT ![p].pc = pc, ![p].rest = 3 - i]
        /\ first_status' = Put(first_status, p, rec.status)
        /\ IF rec.status = "Filled" THEN pc = "leg" /\ apply_fill_pnl(rec, monitors[p].leg[i])
                                    ELSE pc = "ack" /\ UNCHANGED book
        /\ cancels \subseteq cancels'
        /\ pc = "ack" => EndingNext(monitors[p].id[3 - i])
        /\ UNCHANGED <<watchers, inflight_symbols, breaker>>

(* monitor_pair for p ends, with record rec of leg number k the last word  *)
(* about the resting leg.                                                  *)
Concludes(p, k, rec) ==
    LET m == monitors[p]
    IN  /\ k \in {1, 2} /\ rec \in OrderRecord
        /\ Truthful(m.id[k], exch[m.id[k]], rec)
        /\ (AckMayTimeOut /\ m.pc = "ack") \/ is_terminal(rec.status)
        /\ cancels' \subseteq cancels \cup DOMAIN exch /\ cancels \subseteq cancels'
        /\ IF m.pc = "first"
           THEN \E first \in OrderRecord :
                   /\ Truthful(m.id[3 - k], exch[m.id[3 - k]], first)
                   /\ is_terminal(first.status) /\ first.status # "Filled"
                   /\ first_status' = Put(first_status, p, first.status)
           ELSE k = m.rest /\ first_status' = first_status
        /\ Conclude(p, k, first_status'[p], rec, OpenLegs(p))

(* kLegTimeout expires and the cancel is awaited. *)
AwaitsCancel(p) ==
    /\ monitors[p].pc = "leg" /\ monitors' = [monitors EXCEPT ![p].pc = "ack"]
    /\ Turn({}) /\ seq' = seq /\ exch' = exch /\ DOMAIN orders' = DOMAIN orders
    /\ cancels \subseteq cancels' /\ EndingNext(monitors[p].id[monitors[p].rest])
    /\ UNCHANGED <<watchers, inflight_symbols, book, first_status, breaker>>

(* Every step of a monitor is one of these. *)
LEMMA MonitorSteps ==
    ASSUME OrderInv, PairInv, EveryOrderOwned, NEW p \in DOMAIN monitors, Monitor(p)
    PROVE  \/ \E i, rec, pc : FirstSettles(p, i, rec, pc)
           \/ \E k, rec : Concludes(p, k, rec)
           \/ AwaitsCancel(p)
<1> DEFINE m == monitors[p]
<1>1. /\ m.id[1] = p /\ m.id[2] = p + 1 /\ m.rest \in {1, 2}
      /\ m.pc = "first" => OpenLegs(p) = {p, p + 1}
      /\ m.pc # "first" => OpenLegs(p) = {m.id[m.rest]}
      /\ OpenLegs(p) \subseteq DOMAIN orders
      /\ \A k \in {1, 2} : 3 - k \in {1, 2} /\ m.id[k] \in DOMAIN exch
  BY MonitorLegs
<1>2. DOMAIN waiters = DOMAIN orders /\ DOMAIN orders \subseteq DOMAIN exch
      /\ DOMAIN exch = 0..(seq - 1) /\ DOMAIN reports = DOMAIN exch
  BY DEF OrderInv, MapInv
<1>3. \A o \in DOMAIN exch : cancel_order({o}) =>
          /\ cancels' \subseteq cancels \cup DOMAIN exch /\ cancels \subseteq cancels'
          /\ exch'[o] = exch[o] => EndingNext(o)
  BY DEF cancel_order, EndingNext
<1>4. ASSUME NEW o \in DOMAIN orders, Settles(o)
      PROVE  /\ Head(waiters[o]) \in OrderRecord /\ Truthful(o, exch[o], Head(waiters[o]))
             /\ is_terminal(Head(waiters[o]).status)
  BY <1>4, RecordAtHand DEF Settles
<1>5. ASSUME m.pc = "first", NEW i \in {1, 2}
      PROVE  /\ m.id[i] \in DOMAIN orders /\ m.id[3 - i] \in DOMAIN orders
             /\ {m.id[i], m.id[3 - i]} = OpenLegs(p)
  BY <1>1, <1>5
<1>6. ASSUME m.pc # "first" PROVE m.id[m.rest] \in DOMAIN orders
  BY <1>1, <1>6
<1> HIDE DEF m
<1>7. ASSUME NEW i \in {1, 2}, FirstLegFilled(p, i)
      PROVE  FirstSettles(p, i, Head(waiters[m.id[i]]), "leg")
  <2>1. /\ m.pc = "first" /\ Settles(m.id[i]) /\ Head(waiters[m.id[i]]).status = "Filled"
        /\ apply_fill_pnl(Head(waiters[m.id[i]]), m.leg[i])
        /\ orders' = Drop(orders, m.id[i])
        /\ waiters' = Drop([waiters EXCEPT ![m.id[3 - i]] = LoseRace(@)], m.id[i])
        /\ monitors' = [monitors EXCEPT ![p].pc = "leg", ![p].rest = 3 - i]
        /\ first_status' = Put(first_status, p, "Filled")
        /\ UNCHANGED <<seq, exch, reports, cancels>>
        /\ UNCHANGED <<watchers, inflight_symbols, breaker>>
    BY <1>7 DEF FirstLegFilled, m, market
  <2>2. m.id[i] \in DOMAIN orders /\ m.id[3 - i] \in DOMAIN orders
    BY <1>5, <2>1
  <2>3. Turn({m.id[i]}) /\ DOMAIN orders' = DOMAIN orders \ {m.id[i]}
    BY <2>1, <2>2, ReleaseTurn
  <2> QED
    BY <1>4, <2>1, <2>2, <2>3 DEF FirstSettles, m
<1>8. ASSUME NEW i \in {1, 2}, FirstLegFailed(p, i)
      PROVE  \/ FirstSettles(p, i, Head(waiters[m.id[i]]), "ack")
             \/ Concludes(p, 3 - i, orders[m.id[3 - i]])
  <2> DEFINE o == m.id[i]
             r == m.id[3 - i]
  <2>1. /\ m.pc = "first" /\ Settles(o) /\ Head(waiters[o]).status # "Filled"
        /\ cancel_order({r})
        /\ first_status' = Put(first_status, p, Head(waiters[o]).status)
    BY <1>8 DEF FirstLegFailed, m
  <2>2. o \in DOMAIN orders /\ r \in DOMAIN orders /\ {o, r} = OpenLegs(p)
    BY <1>5, <2>1
  <2>3. /\ cancels' \subseteq cancels \cup DOMAIN exch /\ cancels \subseteq cancels'
        /\ exch'[r] = exch[r] => EndingNext(r)
    BY <1>2, <1>3, <2>1, <2>2
  <2>4. /\ Head(waiters[o]) \in OrderRecord /\ Truthful(o, exch[o], Head(waiters[o]))
        /\ is_terminal(Head(waiters[o]).status)
        /\ orders[r] \in OrderRecord /\ Truthful(r, exch[r], orders[r])
    BY <1>4, <2>1, <2>2, RecordAtHand
  <2>5. 3 - i \in {1, 2} /\ 3 - (3 - i) = i
    OBVIOUS
  <2>6. CASE is_terminal(orders[r].status)
    <3>1. Conclude(p, 3 - i, first_status'[p], orders[r], {o, r})
      BY <1>8, <2>6 DEF FirstLegFailed, m
    <3> HIDE DEF o, r
    <3>2. Conclude(p, 3 - i, first_status'[p], orders[r], OpenLegs(p))
      BY <2>2, <3>1
    <3> QED
      BY <2>1, <2>3, <2>4, <2>5, <2>6, <3>2 DEF Concludes, m, o, r
  <2>7. CASE ~is_terminal(orders[r].status)
    <3>1. /\ orders' = Drop(orders, o)
          /\ waiters' = Drop([waiters EXCEPT ![r] = LoseRace(@)], o)
          /\ monitors' = [monitors EXCEPT ![p].pc = "ack", ![p].rest = 3 - i]
          /\ UNCHANGED <<seq, watchers, inflight_symbols, breaker, book, exch, reports>>
      BY <1>8, <2>7 DEF FirstLegFailed, m
    <3>2. Turn({o}) /\ DOMAIN orders' = DOMAIN orders \ {o}
      <4> HIDE DEF o, r
      <4> QED
        BY <2>2, <2>3, <3>1, ReleaseTurn
    <3> QED
      BY <2>1, <2>3, <2>4, <3>1, <3>2 DEF FirstSettles, m
  <2> QED
    BY <2>6, <2>7
<1>9. ASSUME RestingLegSettles(p)
      PROVE  Concludes(p, m.rest, Head(waiters[m.id[m.rest]]))
  <2> DEFINE r == m.id[m.rest]
  <2>1. /\ m.pc \in {"leg", "ack"} /\ Settles(r)
        /\ Conclude(p, m.rest, first_status[p], Head(waiters[r]), {r})
        /\ UNCHANGED <<cancels, first_status>>
    BY <1>9 DEF RestingLegSettles, m
  <2>2. r \in DOMAIN orders /\ {r} = OpenLegs(p) /\ m.rest \in {1, 2}
    BY <1>1, <1>6, <2>1 DEF m
  <2>3. /\ Head(waiters[r]) \in OrderRecord /\ Truthful(r, exch[r], Head(waiters[r]))
        /\ is_terminal(Head(waiters[r]).status)
    BY <1>4, <2>1, <2>2
  <2>4. Conclude(p, m.rest, first_status'[p], Head(waiters[r]), OpenLegs(p))
    BY <2>1, <2>2
  <2> QED
    BY <2>1, <2>2, <2>3, <2>4 DEF Concludes, m
<1>10. ASSUME LegTimeout(p)
       PROVE  Concludes(p, m.rest, orders[m.id[m.rest]]) \/ AwaitsCancel(p)
  <2> DEFINE r == m.id[m.rest]
  <2>1. m.pc = "leg" /\ cancel_order({r}) /\ UNCHANGED first_status
    BY <1>10 DEF LegTimeout, m
  <2>2. r \in DOMAIN orders /\ {r} = OpenLegs(p) /\ m.rest \in {1, 2}
    BY <1>1, <1>6, <2>1 DEF m
  <2>3. orders[r] \in OrderRecord /\ Truthful(r, exch[r], orders[r])
    BY <2>2, RecordAtHand
  <2>4. /\ cancels' \subseteq cancels \cup DOMAIN exch /\ cancels \subseteq cancels'
        /\ exch'[r] = exch[r] => EndingNext(r)
    BY <1>2, <1>3, <2>1, <2>2
  <2>5. CASE is_terminal(orders[r].status)
    <3>1. Conclude(p, m.rest, first_status[p], orders[r], {r})
      BY <1>10, <2>5 DEF LegTimeout, m
    <3>2. Conclude(p, m.rest, first_status'[p], orders[r], OpenLegs(p))
      BY <2>1, <2>2, <3>1
    <3> QED
      BY <2>1, <2>2, <2>3, <2>4, <2>5, <3>2 DEF Concludes, m
  <2>6. CASE ~is_terminal(orders[r].status)
    <3>1. /\ waiters' = [waiters EXCEPT ![r] = LoseRace(@)]
          /\ monitors' = [monitors EXCEPT ![p].pc = "ack"]
          /\ UNCHANGED <<seq, orders, watchers, inflight_symbols, breaker, book, exch,
                         reports>>
      BY <1>10, <2>6 DEF LegTimeout, m
    <3>2. seq..(seq' - 1) = {} /\ seq' \in seq..MaxOrders
      BY <3>1, EngineAssumption DEF OrderInv, MapInv
    <3>3. \A k \in DOMAIN orders : \/ waiters'[k] = waiters[k]
                                   \/ waiters'[k] = LoseRace(waiters[k])
      BY <1>2, <3>1
    <3>4. DOMAIN waiters' = DOMAIN waiters
      BY <3>1
    <3>5. Turn({})
      BY <1>2, <2>4, <3>1, <3>2, <3>3, <3>4 DEF Turn
    <3> QED
      BY <2>1, <2>4, <3>1, <3>5 DEF AwaitsCancel, m
  <2> QED
    BY <2>5, <2>6
<1>11. ASSUME AckTimeout(p)
       PROVE  Concludes(p, m.rest, orders[m.id[m.rest]])
  <2> DEFINE r == m.id[m.rest]
  <2>1. /\ m.pc = "ack" /\ (AckMayTimeOut \/ is_terminal(orders[r].status))
        /\ UNCHANGED <<cancels, first_status>>
        /\ Conclude(p, m.rest, first_status[p], orders[r], {r})
    BY <1>11 DEF AckTimeout, m
  <2>2. r \in DOMAIN orders /\ {r} = OpenLegs(p) /\ m.rest \in {1, 2}
    BY <1>1, <1>6, <2>1 DEF m
  <2>3. orders[r] \in OrderRecord /\ Truthful(r, exch[r], orders[r])
    BY <2>2, RecordAtHand
  <2>4. Conclude(p, m.rest, first_status'[p], orders[r], OpenLegs(p))
    BY <2>1, <2>2
  <2> QED
    BY <2>1, <2>2, <2>3, <2>4 DEF Concludes, m
<1> QED
  BY <1>7, <1>8, <1>9, <1>10, <1>11 DEF Monitor

(* The end of monitor_pair: both legs are released, and what is left of    *)
(* the resting leg, if anything, is sent as a market order.                *)
LEMMA ConcludeTurn ==
    ASSUME OrderInv, PairInv, EveryOrderOwned, NEW p \in DOMAIN monitors,
           NEW k, NEW rec, Concludes(p, k, rec), NEW n, n = HedgeQty(first_status'[p], rec)
    PROVE  /\ n \in Nat /\ Turn(OpenLegs(p)) /\ UNCHANGED breaker
           /\ monitors' = Drop(monitors, p)
           /\ inflight_symbols' = inflight_symbols \ MonitorSymbols(p)
           /\ n = 0 => /\ seq' = seq /\ watchers' = watchers /\ DOMAIN exch' = DOMAIN exch
                       /\ DOMAIN orders' = DOMAIN orders \ OpenLegs(p)
           /\ n > 0 => /\ seq' = seq + 1 /\ watchers' = watchers \cup {seq}
                       /\ DOMAIN exch' = DOMAIN exch \cup {seq}
                       /\ DOMAIN orders' = (DOMAIN orders \ OpenLegs(p)) \cup {seq}
                       /\ exch'[seq].market /\ exch'[seq].pair = p
                       /\ exch'[seq].symbol = monitors[p].leg[k].symbol
                       /\ exch'[seq].qty = n
<1> DEFINE leg == monitors[p].leg[k]
           t == [leg EXCEPT !.qty = n]
           R == OpenLegs(p)
           kept == [o \in DOMAIN orders \ R |-> orders[o]]
           open == [o \in DOMAIN waiters \ R |-> waiters[o]]
<1>1. /\ k \in {1, 2} /\ rec \in OrderRecord
      /\ Truthful(monitors[p].id[k], exch[monitors[p].id[k]], rec)
      /\ cancels' \subseteq cancels \cup DOMAIN exch
      /\ Conclude(p, k, first_status'[p], rec, R)
  BY DEF Concludes
<1>2. /\ p \in Nat /\ p + 1 < seq /\ R \subseteq DOMAIN orders
      /\ monitors[p].id[k] \in DOMAIN exch /\ leg \in Ticket
  BY <1>1, MonitorLegs
<1>3. n \in Nat
  <2>1. /\ exch[monitors[p].id[k]] \in XOrderType /\ Sound(exch[monitors[p].id[k]])
    BY <1>2 DEF OrderInv, MapInv, ExchInv
  <2> QED
    BY <1>1, <2>1, HedgeSize
<1>4. /\ seq \in Nat /\ seq <= MaxOrders /\ MaxOrders \in Nat
      /\ DOMAIN exch = 0..(seq - 1) /\ DOMAIN reports = DOMAIN exch
      /\ DOMAIN orders \subseteq DOMAIN exch /\ DOMAIN waiters = DOMAIN orders
  BY EngineAssumption DEF OrderInv, MapInv
<1>5. UNCHANGED breaker /\ ReleaseHedgeAndEnd(p, k, R, n)
  BY <1>1 DEF Conclude
<1>6. /\ monitors' = Drop(monitors, p)
      /\ inflight_symbols' = inflight_symbols \ MonitorSymbols(p)
  BY <1>5 DEF ReleaseHedgeAndEnd, MonitorSymbols
<1>7. /\ DOMAIN kept = DOMAIN orders \ R /\ DOMAIN open = DOMAIN orders \ R
      /\ \A o \in DOMAIN orders \ R : kept[o] = orders[o] /\ open[o] = waiters[o]
  BY <1>4
<1>8. CASE n = 0
  <2>1. /\ orders' = kept /\ waiters' = open
        /\ UNCHANGED <<seq, exch, reports, watchers>>
    BY <1>5, <1>8 DEF ReleaseHedgeAndEnd
  <2>2. seq..(seq' - 1) = {} /\ seq' \in seq..MaxOrders
    BY <1>4, <2>1
  <2> HIDE DEF kept, open, R
  <2>3. Turn(R)
    BY <1>1, <1>2, <1>4, <1>7, <2>1, <2>2 DEF Turn
  <2> QED
    BY <1>3, <1>5, <1>6, <1>7, <1>8, <2>1, <2>3 DEF R
<1>9. CASE n > 0
  <2>1. /\ seq < MaxOrders /\ seq' = seq + 1
        /\ orders' = Put(kept, seq, NewOrder(t)) /\ waiters' = Put(open, seq, <<>>)
        /\ exch' = Put(exch, seq, XOrder(t, TRUE, p))
        /\ reports' = Put(reports, seq, <<>>)
        /\ watchers' = watchers \cup {seq}
    BY <1>5, <1>9 DEF ReleaseHedgeAndEnd
  <2>2. /\ t \in Ticket /\ t.qty = n /\ t.symbol = leg.symbol
    BY <1>2, <1>3 DEF Ticket
  <2> HIDE DEF kept, open, R, t, leg
  <2>3. /\ seq..(seq' - 1) = {seq} /\ seq' \in seq..MaxOrders /\ seq \notin DOMAIN exch
        /\ 0..(seq' - 1) = (0..(seq - 1)) \cup {seq} /\ p \in 0..seq
    BY <1>2, <1>4, <2>1
  <2>4. /\ DOMAIN orders' = (DOMAIN orders \ R) \cup {seq} /\ DOMAIN waiters' = DOMAIN orders'
        /\ DOMAIN exch' = DOMAIN exch \cup {seq} /\ DOMAIN reports' = DOMAIN exch'
    BY <1>4, <1>7, <2>1 DEF Put
  <2>5. /\ orders'[seq] = NewOrder(t) /\ waiters'[seq] = <<>>
        /\ exch'[seq] = XOrder(t, TRUE, p) /\ reports'[seq] = <<>>
    BY <2>1 DEF Put
  <2>6. /\ \A o \in DOMAIN orders \ R : orders'[o] = orders[o] /\ waiters'[o] = waiters[o]
        /\ \A o \in DOMAIN exch : exch'[o] = exch[o] /\ reports'[o] = reports[o]
    BY <1>4, <1>7, <2>1, <2>3 DEF Put
  <2>7. \A o \in seq..(seq' - 1) :
           \E u \in Ticket, is_market \in BOOLEAN, q \in 0..seq :
               /\ u.qty > 0
               /\ exch'[o] = XOrder(u, is_market, q) /\ reports'[o] = <<>>
               /\ orders'[o] = NewOrder(u) /\ waiters'[o] = <<>>
    BY <1>9, <2>2, <2>3, <2>5
  <2>8. Turn(R)
    BY <1>1, <1>2, <1>4, <2>3, <2>4, <2>6, <2>7 DEF Turn
  <2>9. /\ exch'[seq].market /\ exch'[seq].pair = p
        /\ exch'[seq].symbol = leg.symbol /\ exch'[seq].qty = n
    BY <2>2, <2>5 DEF XOrder
  <2>10. n # 0
    BY <1>3, <1>9
  <2> QED
    BY <1>3, <1>5, <1>6, <2>1, <2>4, <2>8, <2>9, <2>10 DEF R, leg
<1>10. n = 0 \/ n > 0
  BY <1>3
<1> QED
  BY <1>8, <1>9, <1>10

(* The end of watch_hedge: the hedge is booked and released. *)
LEMMA WatchTurn ==
    ASSUME OrderInv, EveryOrderOwned, NEW h \in DOMAIN waiters, watch_hedge(h)
    PROVE  \E rec \in OrderRecord :
               /\ h \in watchers /\ h \in DOMAIN orders
               /\ Truthful(h, exch[h], rec) /\ is_terminal(rec.status)
               /\ BookIfFilled(rec, rec)
               /\ Turn({h}) /\ seq' = seq /\ exch' = exch
               /\ DOMAIN orders' = DOMAIN orders \ {h} /\ watchers' = watchers \ {h}
               /\ UNCHANGED <<monitors, inflight_symbols, breaker, first_status>>
<1>1. /\ h \in watchers /\ Settles(h) /\ BookIfFilled(Head(waiters[h]), Head(waiters[h]))
      /\ orders' = Drop(orders, h) /\ waiters' = Drop(waiters, h)
      /\ watchers' = watchers \ {h}
      /\ UNCHANGED <<seq, exch, reports, cancels>>
      /\ UNCHANGED <<monitors, inflight_symbols, breaker, first_status>>
  BY DEF watch_hedge, market
<1>2. h \in DOMAIN orders
  BY DEF OrderInv, MapInv
<1>3. /\ Head(waiters[h]) \in OrderRecord /\ Truthful(h, exch[h], Head(waiters[h]))
      /\ is_terminal(Head(waiters[h]).status)
  BY <1>1, <1>2, RecordAtHand DEF Settles
<1>4. Turn({h}) /\ DOMAIN orders' = DOMAIN orders \ {h}
  BY <1>1, <1>2, ReleaseTurn
<1> QED
  BY <1>1, <1>2, <1>3, <1>4

-----------------------------------------------------------------------------
(* Steps that leave the coroutines and the book alone.                     *)

(* What no step undoes at the exchange. *)
Grows ==
    /\ DOMAIN exch \subseteq DOMAIN exch'
    /\ \A o \in DOMAIN exch :
           /\ exch'[o].qty = exch[o].qty /\ exch'[o].symbol = exch[o].symbol
           /\ exch'[o].side = exch[o].side /\ exch'[o].pair = exch[o].pair
           /\ exch'[o].market <=> exch[o].market
           /\ exch'[o].filled >= exch[o].filled
           /\ exch[o].st = "done" => exch'[o] = exch[o]

Quiet == /\ Grows /\ seq' = seq /\ DOMAIN exch' = DOMAIN exch
         /\ DOMAIN orders' = DOMAIN orders /\ DOMAIN waiters' = DOMAIN waiters
         /\ UNCHANGED <<monitors, watchers, inflight_symbols, book, first_status>>

(* A step of the exchange is quiet: it only advances one order there. *)
LEMMA ExchangeGrows ==
    ASSUME OrderInv, NEW o \in DOMAIN exch, NEW x, NEW r, ExchangeStep(o, x, r)
    PROVE  Quiet /\ UNCHANGED breaker
<1>1. /\ exch' = [exch EXCEPT ![o] = x] /\ exch[o].st # "done"
      /\ x.qty = exch[o].qty /\ x.symbol = exch[o].symbol /\ x.side = exch[o].side
      /\ x.pair = exch[o].pair /\ x.filled >= exch[o].filled
      /\ UNCHANGED <<engine, breaker, book, first_status>>
  BY DEF ExchangeStep
<1>2. x.market <=> exch[o].market
  <2>1. x.market = exch[o].market
    BY DEF ExchangeStep
  <2> QED
    BY <2>1
<1>3. /\ DOMAIN exch' = DOMAIN exch /\ exch'[o] = x
      /\ \A k \in DOMAIN exch : k # o => exch'[k] = exch[k]
  BY <1>1
<1>4. ASSUME NEW k \in DOMAIN exch PROVE exch[k].filled \in Nat
  BY DEF OrderInv, MapInv, XOrderType
<1>5. ASSUME NEW k \in DOMAIN exch
      PROVE  /\ exch'[k].qty = exch[k].qty /\ exch'[k].symbol = exch[k].symbol
             /\ exch'[k].side = exch[k].side /\ exch'[k].pair = exch[k].pair
             /\ exch'[k].market <=> exch[k].market
             /\ exch'[k].filled >= exch[k].filled
             /\ exch[k].st = "done" => exch'[k] = exch[k]
  <2>1. CASE k = o
    BY <1>1, <1>2, <1>3, <2>1
  <2>2. CASE k # o
    <3>1. exch'[k] = exch[k]
      BY <1>3, <2>2
    <3>2. exch[k].filled >= exch[k].filled
      BY <1>4
    <3> QED
      BY <3>1, <3>2
  <2> QED
    BY <2>1, <2>2
<1>6. Grows
  BY <1>3, <1>5 DEF Grows
<1>7. /\ seq' = seq /\ orders' = orders /\ waiters' = waiters
      /\ UNCHANGED <<monitors, watchers, inflight_symbols, book, first_status>>
  BY <1>1 DEF engine
<1> QED
  BY <1>1, <1>3, <1>6, <1>7 DEF Quiet

(* A turn leaves the orders of the exchange as they are and may add some. *)
LEMMA TurnGrows ==
    ASSUME OrderInv, NEW R, Turn(R)
    PROVE  Grows
<1>1. DOMAIN exch \subseteq DOMAIN exch'
  <2>1. /\ seq \in Nat /\ seq' \in Nat /\ seq <= seq'
        /\ DOMAIN exch = 0..(seq - 1) /\ DOMAIN exch' = 0..(seq' - 1)
    BY EngineAssumption DEF Turn, OrderInv, MapInv
  <2>2. \A m, n \in Nat : m <= n => 0..(m - 1) \subseteq 0..(n - 1)
    OBVIOUS
  <2> QED
    BY <2>1, <2>2
<1>2. \A o \in DOMAIN exch : exch'[o] = exch[o]
  BY DEF Turn
<1>3. ASSUME NEW k \in DOMAIN exch PROVE exch[k].filled >= exch[k].filled
  <2>1. exch[k].filled \in Nat
    BY DEF OrderInv, MapInv, XOrderType
  <2> QED
    BY <2>1
<1> QED
  BY <1>1, <1>2, <1>3 DEF Grows

(* A filled order is done. *)
LEMMA FilledIsDone ==
    ASSUME OrderInv, NEW o \in DOMAIN exch, exch[o].filled = exch[o].qty
    PROVE  exch[o].st = "done"
<1>1. exch[o] \in XOrderType /\ Sound(exch[o])
  BY DEF OrderInv, MapInv, ExchInv
<1> QED
  BY <1>1 DEF XOrderType, Sound

(* Legs and hedges of a pair under Grows. *)
LEMMA LegsGrow ==
    ASSUME OrderInv, Grows, seq' >= seq, seq' \in Nat, NEW p, NEW sg, PairLegs(p, sg)
    PROVE  PairLegs(p, sg)' /\ p \in DOMAIN exch /\ p + 1 \in DOMAIN exch
<1>1. seq \in Nat /\ DOMAIN exch = 0..(seq - 1)
  BY EngineAssumption DEF OrderInv, MapInv
<1>2. p \in Nat /\ p + 1 < seq /\ IsLeg(p, p, sg[1]) /\ IsLeg(p + 1, p, sg[2])
  BY DEF PairLegs
<1>3. p \in DOMAIN exch /\ p + 1 \in DOMAIN exch /\ p + 1 < seq'
  BY <1>1, <1>2
<1>4. ASSUME NEW o \in DOMAIN exch, NEW t, IsLeg(o, p, t) PROVE IsLeg(o, p, t)'
  BY <1>4 DEF Grows, IsLeg
<1> QED
  BY <1>2, <1>3, <1>4 DEF PairLegs

(* Quiet steps keep the rest of the invariant. *)
LEMMA QuietKeepsPairs ==
    ASSUME OrderInv, PairInv, Quiet
    PROVE  PairInv'
<1>1. Grows /\ seq' = seq /\ seq \in Nat /\ DOMAIN exch' = DOMAIN exch
      /\ DOMAIN exch = 0..(seq - 1) /\ seq' >= seq
      /\ monitors' = monitors /\ first_status' = first_status
  BY EngineAssumption DEF Quiet, OrderInv, MapInv
<1>2. ASSUME NEW p, NEW sg, PairLegs(p, sg)
      PROVE  PairLegs(p, sg)' /\ p \in DOMAIN exch /\ p + 1 \in DOMAIN exch
  BY <1>1, <1>2, LegsGrow
<1>3. \A p : Hedges(p)' = Hedges(p)
  BY <1>1 DEF Hedges, Grows
<1>4. ASSUME NEW p \in DOMAIN monitors PROVE Monitored(p)'
  <2> DEFINE m == monitors[p]
             o == m.id[3 - m.rest]
  <2>1. Monitored(p)
    BY DEF PairInv
  <2>2. m \in Coroutine /\ m.id[1] = p /\ m.id[2] = p + 1 /\ PairLegs(p, m.leg)
    BY <2>1 DEF Monitored
  <2>3. m.rest \in {1, 2}
    BY <2>2 DEF Coroutine
  <2>4. o \in DOMAIN exch
    BY <1>2, <2>2, <2>3
  <2>5. exch[o].filled = exch[o].qty => exch'[o] = exch[o]
    BY <1>1, <2>4, FilledIsDone DEF Grows
  <2> QED
    BY <1>1, <1>2, <1>3, <2>1, <2>2, <2>5 DEF Monitored
<1>5. ASSUME NEW p \in DOMAIN first_status PROVE \E sg \in Signals : PairLegs(p, sg)'
  <2>1. PICK sg \in Signals : PairLegs(p, sg)
    BY DEF PairInv
  <2> QED
    BY <1>2, <2>1
<1>6. \A o \in DOMAIN exch : exch'[o].pair < seq
  BY <1>1 DEF PairInv, Grows
<1>7. \A o \in DOMAIN exch : ~exch'[o].market => o = exch'[o].pair \/ o = exch'[o].pair + 1
  BY <1>1 DEF PairInv, Grows
<1> QED
  BY <1>1, <1>4, <1>5, <1>6, <1>7 DEF PairInv

(* Quiet steps change no owner. *)
LEMMA QuietKeepsOwners ==
    ASSUME OwnerInv, Quiet
    PROVE  OwnerInv'
<1>1. /\ DOMAIN orders' = DOMAIN orders /\ DOMAIN waiters' = DOMAIN waiters
      /\ monitors' = monitors /\ watchers' = watchers
      /\ inflight_symbols' = inflight_symbols
  BY DEF Quiet
<1>2. /\ \A p : OpenLegs(p)' = OpenLegs(p)
      /\ \A p : MonitorSymbols(p)' = MonitorSymbols(p)
  BY <1>1 DEF OpenLegs, MonitorSymbols
<1>3. EveryOrderOwned'
  BY <1>1, <1>2 DEF OwnerInv, EveryOrderOwned
<1>4. OnePairPerSymbol'
  BY <1>1, <1>2 DEF OwnerInv, OnePairPerSymbol
<1>5. AtMostOneOverLimit'
  BY <1>1 DEF OwnerInv, AtMostOneOverLimit
<1> QED
  BY <1>3, <1>4, <1>5 DEF OwnerInv

(* Quiet steps book nothing, and fills only grow. *)
LEMMA QuietKeepsBook ==
    ASSUME OrderInv, OrderInv', BookInv, Quiet
    PROVE  BookInv'
<1>1. Grows /\ seq' = seq /\ DOMAIN exch' = DOMAIN exch /\ DOMAIN orders' = DOMAIN orders
      /\ last_filled' = last_filled /\ position' = position
  BY DEF Quiet, book
<1>2. \A s, side : On(s, side)' = On(s, side)
  BY <1>1 DEF On, Grows
<1>3. \A x : AlreadyBooked(x)' = AlreadyBooked(x)
  BY <1>1 DEF AlreadyBooked
<1>4. Booked' = Booked
  BY <1>1, <1>3 DEF Booked
<1>5. ASSUME NEW o \in DOMAIN exch PROVE AlreadyBooked(o + 1) <= exch'[o].filled
  <2>1. AlreadyBooked(o + 1) <= exch[o].filled /\ exch[o].filled <= exch'[o].filled
    BY <1>1 DEF BookInv, Grows
  <2>2. exch[o].filled \in Nat
    BY DEF OrderInv, MapInv, XOrderType
  <2>3. exch'[o].filled \in Nat
    BY <1>1 DEF OrderInv, MapInv, XOrderType
  <2>4. AlreadyBooked(o + 1) \in Nat
    BY DEF AlreadyBooked, BookInv
  <2> QED
    BY <2>1, <2>2, <2>3, <2>4
<1> QED
  BY <1>1, <1>2, <1>3, <1>4, <1>5 DEF BookInv

(* A released order is done, so quiet steps do not touch it. *)
LEMMA QuietKeepsReleased ==
    ASSUME ReleaseInv, Quiet
    PROVE  ReleaseInv'
<1>1. Grows /\ DOMAIN exch' = DOMAIN exch /\ DOMAIN orders' = DOMAIN orders
      /\ last_filled' = last_filled /\ first_status' = first_status
  BY DEF Quiet, book
<1>2. Released' = Released /\ Released \subseteq DOMAIN exch
  BY <1>1 DEF Released
<1>3. \A x : AlreadyBooked(x)' = AlreadyBooked(x)
  BY <1>1 DEF AlreadyBooked
<1>4. SUFFICES ASSUME ~AckMayTimeOut, NEW o \in Released
               PROVE  /\ exch'[o].st = "done"
                      /\ AlreadyBooked(o + 1)' = exch'[o].filled \/ Excused(o)'
  BY <1>2 DEF ReleaseInv
<1>5. /\ exch[o].st = "done"
      /\ AlreadyBooked(o + 1) = exch[o].filled \/ Excused(o)
  BY <1>4 DEF ReleaseInv
<1>6. exch'[o] = exch[o]
  BY <1>1, <1>2, <1>5 DEF Grows
<1> QED
  BY <1>1, <1>3, <1>5, <1>6 DEF Excused

(* What holds of the hedges of a pair holds when neither its legs nor its  *)
(* hedges change.                                                          *)
LEMMA HedgedGrows ==
    ASSUME OrderInv, Grows, NEW p, NEW f \in DOMAIN exch, NEW k \in DOMAIN exch,
           Hedged(f, k, p), Hedges(p)' = Hedges(p)
    PROVE  Hedged(f, k, p)'
<1>1. exch[f].filled = exch[f].qty /\ exch[k].st = "done"
  BY DEF Hedged
<1>2. exch'[f] = exch[f] /\ exch'[k] = exch[k]
  BY <1>1, FilledIsDone DEF Grows
<1>3. \A h \in DOMAIN exch : h \in DOMAIN exch' /\ exch'[h].symbol = exch[h].symbol
                             /\ exch'[h].qty = exch[h].qty
  BY DEF Grows
<1> QED
  BY <1>2, <1>3 DEF Hedged

(* Quiet steps send no hedge. *)
LEMMA QuietKeepsHedges ==
    ASSUME OrderInv, PairInv, HedgeInv, Quiet
    PROVE  HedgeInv'
<1>1. Grows /\ DOMAIN exch' = DOMAIN exch /\ seq' = seq /\ seq \in Nat
      /\ monitors' = monitors /\ first_status' = first_status
  BY EngineAssumption DEF Quiet, OrderInv, MapInv
<1>2. SUFFICES ASSUME ~AckMayTimeOut, NEW p \in DOMAIN first_status \ DOMAIN monitors,
                      first_status[p] = "Filled"
               PROVE  Hedged(p, p + 1, p)' \/ Hedged(p + 1, p, p)'
  BY <1>1 DEF HedgeInv
<1>3. Hedged(p, p + 1, p) \/ Hedged(p + 1, p, p)
  BY <1>2 DEF HedgeInv
<1>4. p \in DOMAIN exch /\ p + 1 \in DOMAIN exch
  <2>1. PICK sg \in Signals : PairLegs(p, sg)
    BY DEF PairInv
  <2> QED
    BY <1>1, <2>1, LegsGrow
<1>5. Hedges(p)' = Hedges(p)
  BY <1>1 DEF Hedges, Grows
<1> QED
  BY <1>1, <1>3, <1>4, <1>5, HedgedGrows

-----------------------------------------------------------------------------
(* Who owns the orders and the symbols.                                    *)

(* The tracked orders are finitely many. *)
LEMMA OrdersFinite ==
    ASSUME OrderInv
    PROVE  /\ IsFiniteSet(DOMAIN orders) /\ IsFiniteSet(DOMAIN exch)
           /\ Cardinality(DOMAIN orders) \in Nat
<1>1. seq \in Nat /\ DOMAIN exch = 0..(seq - 1) /\ DOMAIN orders \subseteq DOMAIN exch
  BY EngineAssumption DEF OrderInv, MapInv
<1>2. IsFiniteSet(0..(seq - 1))
  BY <1>1, FS_Interval
<1>3. IsFiniteSet(DOMAIN orders)
  BY <1>1, <1>2, FS_Subset
<1> QED
  BY <1>1, <1>2, <1>3, FS_CardinalityType

(* One more element makes a finite set larger by at most one. *)
LEMMA AddOne ==
    ASSUME NEW S, IsFiniteSet(S), NEW x
    PROVE  /\ IsFiniteSet(S \cup {x})
           /\ Cardinality(S) \in Nat /\ Cardinality(S \cup {x}) \in Nat
           /\ Cardinality(S \cup {x}) <= Cardinality(S) + 1
<1>1. /\ IsFiniteSet(S \cup {x})
      /\ Cardinality(S \cup {x}) = IF x \in S THEN Cardinality(S) ELSE Cardinality(S) + 1
  BY FS_AddElement
<1>2. Cardinality(S) \in Nat
  BY FS_CardinalityType
<1> QED
  BY <1>1, <1>2

(* Ownership, element by element. *)
LEMMA OwnedOrders ==
    ASSUME EveryOrderOwned
    PROVE  /\ \A o : o \in DOMAIN orders <=>
                  o \in watchers \/ \E p \in DOMAIN monitors : o \in OpenLegs(p)
           /\ \A p \in DOMAIN monitors : \A o \in OpenLegs(p) : o \notin watchers
           /\ \A p, q \in DOMAIN monitors : p # q =>
                  \A o \in OpenLegs(p) : o \notin OpenLegs(q)
           /\ DOMAIN waiters = DOMAIN orders
BY DEF EveryOrderOwned

(* Claimed symbols, element by element. *)
LEMMA ClaimedSymbols ==
    ASSUME OnePairPerSymbol
    PROVE  /\ \A s : s \in inflight_symbols <=>
                  \E p \in DOMAIN monitors : s \in MonitorSymbols(p)
           /\ \A p, q \in DOMAIN monitors : p # q =>
                  \A s \in MonitorSymbols(p) : s \notin MonitorSymbols(q)
BY DEF OnePairPerSymbol

(* on_signal: the new monitor owns both legs and claims both symbols, which *)
(* were free, and was admitted below the limit.                            *)
LEMMA SignalKeepsOwners ==
    ASSUME OrderInv, PairInv, OwnerInv, NEW sg \in Signals, on_signal(sg)
    PROVE  OwnerInv'
<1>0. PICK a : a = seq
  OBVIOUS
<1>1. /\ DOMAIN orders' = DOMAIN orders \cup {a, a + 1} /\ watchers' = watchers
      /\ DOMAIN waiters' = DOMAIN orders'
  BY <1>0, SignalTurn DEF Turn
<1>2. /\ monitors' = Put(monitors, a, [pc |-> "first", id |-> <<a, a + 1>>,
                                       leg |-> sg, rest |-> 1])
      /\ inflight_symbols' = inflight_symbols \cup {sg[1].symbol, sg[2].symbol}
      /\ HasCapacity /\ SymbolsFree(sg)
  BY <1>0 DEF on_signal
<1>3. a \in Nat /\ DOMAIN orders \subseteq 0..(a - 1)
  BY <1>0, EngineAssumption DEF OrderInv, MapInv
<1>4. ASSUME NEW p \in DOMAIN monitors PROVE p \in Nat /\ p # a
  BY <1>0, <1>3, MonitorLegs DEF OwnerInv
<1>5. /\ DOMAIN monitors' = DOMAIN monitors \cup {a}
      /\ \A p \in DOMAIN monitors : monitors'[p] = monitors[p]
      /\ monitors'[a].pc = "first" /\ monitors'[a].leg = sg
      /\ monitors'[a].id[1] = a /\ monitors'[a].id[2] = a + 1
  BY <1>2, <1>4 DEF Put
<1>6. /\ \A p \in DOMAIN monitors : OpenLegs(p)' = OpenLegs(p)
      /\ \A p \in DOMAIN monitors : MonitorSymbols(p)' = MonitorSymbols(p)
      /\ OpenLegs(a)' = {a, a + 1}
      /\ MonitorSymbols(a)' = {sg[1].symbol, sg[2].symbol}
  BY <1>5 DEF OpenLegs, MonitorSymbols
<1>7. /\ a \notin DOMAIN orders /\ a + 1 \notin DOMAIN orders
  BY <1>3
<1>8. EveryOrderOwned'
  <2>1. /\ \A o : o \in DOMAIN orders <=>
                  o \in watchers \/ \E p \in DOMAIN monitors : o \in OpenLegs(p)
        /\ \A p \in DOMAIN monitors : \A o \in OpenLegs(p) : o \notin watchers
        /\ \A p, q \in DOMAIN monitors : p # q =>
                  \A o \in OpenLegs(p) : o \notin OpenLegs(q)
    BY OwnedOrders DEF OwnerInv
  <2>2. a \notin watchers /\ a + 1 \notin watchers
    BY <1>7, <2>1
  <2>3. \A p \in DOMAIN monitors : a \notin OpenLegs(p) /\ a + 1 \notin OpenLegs(p)
    BY <1>7, <2>1
  <2>4. DOMAIN orders' = watchers' \cup UNION {OpenLegs(p)' : p \in DOMAIN monitors'}
    BY <1>1, <1>5, <1>6, <2>1
  <2>5. \A p \in DOMAIN monitors' : OpenLegs(p)' \cap watchers' = {}
    BY <1>1, <1>5, <1>6, <2>1, <2>2
  <2>6. \A p, q \in DOMAIN monitors' : p # q => OpenLegs(p)' \cap OpenLegs(q)' = {}
    BY <1>5, <1>6, <2>1, <2>3
  <2> QED
    BY <1>1, <2>4, <2>5, <2>6 DEF EveryOrderOwned
<1>9. OnePairPerSymbol'
  <2>1. /\ \A s : s \in inflight_symbols <=>
                  \E p \in DOMAIN monitors : s \in MonitorSymbols(p)
        /\ \A p, q \in DOMAIN monitors : p # q =>
                  \A s \in MonitorSymbols(p) : s \notin MonitorSymbols(q)
    BY ClaimedSymbols DEF OwnerInv
  <2>2. sg[1].symbol \notin inflight_symbols /\ sg[2].symbol \notin inflight_symbols
    BY <1>2 DEF SymbolsFree
  <2>3. inflight_symbols' = UNION {MonitorSymbols(p)' : p \in DOMAIN monitors'}
    BY <1>2, <1>5, <1>6, <2>1
  <2>4. \A p, q \in DOMAIN monitors' : p # q => MonitorSymbols(p)' \cap MonitorSymbols(q)' = {}
    BY <1>5, <1>6, <2>1, <2>2
  <2> QED
    BY <2>3, <2>4 DEF OnePairPerSymbol
<1>10. AtMostOneOverLimit'
  <2>1. IsFiniteSet(DOMAIN orders) /\ Cardinality(DOMAIN orders) \in Nat
    BY OrdersFinite
  <2>2. PICK S : S = DOMAIN orders \cup {a}
    OBVIOUS
  <2>3. /\ IsFiniteSet(S) /\ Cardinality(S) \in Nat
        /\ Cardinality(S) <= Cardinality(DOMAIN orders) + 1
    BY <2>1, <2>2, AddOne
  <2>4. /\ Cardinality(S \cup {a + 1}) \in Nat
        /\ Cardinality(S \cup {a + 1}) <= Cardinality(S) + 1
    BY <2>3, AddOne
  <2>5. S \cup {a + 1} = DOMAIN orders'
    BY <1>1, <2>2
  <2>6. Cardinality(DOMAIN orders') <= max_open_orders + 1
    BY <1>2, <2>1, <2>3, <2>4, <2>5, EngineAssumption DEF HasCapacity
  <2> QED
    BY <2>6 DEF AtMostOneOverLimit
<1> QED
  BY <1>8, <1>9, <1>10 DEF OwnerInv

(* Fewer orders are within the limit too. *)
LEMMA FewerOrders ==
    ASSUME OrderInv, AtMostOneOverLimit, NEW R, R # {}, R \subseteq DOMAIN orders, NEW h,
           DOMAIN orders' \subseteq (DOMAIN orders \ R) \cup {h}
    PROVE  AtMostOneOverLimit'
<1>1. PICK o \in R : TRUE
  OBVIOUS
<1>2. IsFiniteSet(DOMAIN orders) /\ Cardinality(DOMAIN orders) \in Nat
  BY OrdersFinite
<1>3. /\ IsFiniteSet(DOMAIN orders \ {o})
      /\ Cardinality(DOMAIN orders \ {o}) = Cardinality(DOMAIN orders) - 1
  BY <1>2, FS_RemoveElement
<1>4. /\ IsFiniteSet((DOMAIN orders \ {o}) \cup {h})
      /\ Cardinality((DOMAIN orders \ {o}) \cup {h}) <= Cardinality(DOMAIN orders)
  <2>1. /\ IsFiniteSet((DOMAIN orders \ {o}) \cup {h})
        /\ Cardinality((DOMAIN orders \ {o}) \cup {h}) \in Nat
        /\ Cardinality((DOMAIN orders \ {o}) \cup {h}) <= Cardinality(DOMAIN orders \ {o}) + 1
    BY <1>3, AddOne
  <2> QED
    BY <1>2, <1>3, <2>1
<1>5. DOMAIN orders' \subseteq (DOMAIN orders \ {o}) \cup {h}
  OBVIOUS
<1>6. /\ IsFiniteSet(DOMAIN orders')
      /\ Cardinality(DOMAIN orders') <= Cardinality((DOMAIN orders \ {o}) \cup {h})
  BY <1>4, <1>5, FS_Subset
<1>7. Cardinality(DOMAIN orders') \in Nat /\ Cardinality((DOMAIN orders \ {o}) \cup {h}) \in Nat
  BY <1>4, <1>6, FS_CardinalityType
<1> QED
  BY <1>2, <1>4, <1>6, <1>7, EngineAssumption DEF AtMostOneOverLimit

(* A first leg settles: its monitor owns one order less. *)
LEMMA SettleKeepsOwners ==
    ASSUME OrderInv, PairInv, OwnerInv, NEW p \in DOMAIN monitors,
           NEW i, NEW rec, NEW pc, FirstSettles(p, i, rec, pc)
    PROVE  OwnerInv'
<1> DEFINE o == monitors[p].id[i]
<1>1. /\ i \in {1, 2} /\ monitors[p].pc = "first" /\ pc \in {"leg", "ack"}
      /\ DOMAIN orders' = DOMAIN orders \ {o} /\ DOMAIN waiters' = DOMAIN orders'
      /\ monitors' = [monitors EXCEPT ![p].pc = pc, ![p].rest = 3 - i]
      /\ watchers' = watchers /\ inflight_symbols' = inflight_symbols
  BY DEF FirstSettles, Turn
<1>2. /\ monitors[p] \in Coroutine /\ monitors[p].id[1] = p /\ monitors[p].id[2] = p + 1
      /\ OpenLegs(p) = {p, p + 1} /\ p \in Nat
  BY <1>1, MonitorLegs DEF OwnerInv
<1>3. /\ DOMAIN monitors' = DOMAIN monitors
      /\ \A q \in DOMAIN monitors : q # p => monitors'[q] = monitors[q]
      /\ monitors'[p].pc = pc /\ monitors'[p].rest = 3 - i
      /\ monitors'[p].id = monitors[p].id /\ monitors'[p].leg = monitors[p].leg
  BY <1>1, <1>2 DEF Coroutine
<1>4. /\ \A q \in DOMAIN monitors : q # p => OpenLegs(q)' = OpenLegs(q)
      /\ \A q \in DOMAIN monitors : MonitorSymbols(q)' = MonitorSymbols(q)
  BY <1>3 DEF OpenLegs, MonitorSymbols
<1>5. OpenLegs(p)' = OpenLegs(p) \ {o} /\ o \in OpenLegs(p)
  <2>1. OpenLegs(p)' = {monitors[p].id[3 - i]}
    BY <1>1, <1>3 DEF OpenLegs
  <2> QED
    BY <1>1, <1>2, <2>1
<1> HIDE DEF o
<1>6. /\ \A k : k \in DOMAIN orders <=>
                  k \in watchers \/ \E q \in DOMAIN monitors : k \in OpenLegs(q)
      /\ \A q \in DOMAIN monitors : \A k \in OpenLegs(q) : k \notin watchers
      /\ \A q, r \in DOMAIN monitors : q # r =>
                  \A k \in OpenLegs(q) : k \notin OpenLegs(r)
  BY OwnedOrders DEF OwnerInv
<1>7. EveryOrderOwned'
  <2>1. o \notin watchers /\ \A q \in DOMAIN monitors : q # p => o \notin OpenLegs(q)
    BY <1>5, <1>6
  <2>2. DOMAIN orders' = watchers' \cup UNION {OpenLegs(q)' : q \in DOMAIN monitors'}
    BY <1>1, <1>3, <1>4, <1>5, <1>6, <2>1
  <2>3. \A q \in DOMAIN monitors' : OpenLegs(q)' \cap watchers' = {}
    BY <1>1, <1>3, <1>4, <1>5, <1>6
  <2>4. \A q, r \in DOMAIN monitors' : q # r => OpenLegs(q)' \cap OpenLegs(r)' = {}
    BY <1>3, <1>4, <1>5, <1>6
  <2> QED
    BY <1>1, <2>2, <2>3, <2>4 DEF EveryOrderOwned
<1>8. OnePairPerSymbol'
  BY <1>1, <1>3, <1>4 DEF OwnerInv, OnePairPerSymbol
<1>9. AtMostOneOverLimit'
  <2>1. {o} \subseteq DOMAIN orders /\ {o} # {}
    BY <1>5, <1>6
  <2> QED
    BY <1>1, <2>1, FewerOrders DEF OwnerInv
<1> QED
  BY <1>7, <1>8, <1>9 DEF OwnerInv

(* Waiting for the cancel changes no owner. *)
LEMMA AwaitKeepsOwners ==
    ASSUME OrderInv, PairInv, OwnerInv, NEW p \in DOMAIN monitors, AwaitsCancel(p)
    PROVE  OwnerInv'
<1>1. /\ monitors[p].pc = "leg" /\ monitors' = [monitors EXCEPT ![p].pc = "ack"]
      /\ DOMAIN orders' = DOMAIN orders /\ DOMAIN waiters' = DOMAIN orders'
      /\ watchers' = watchers /\ inflight_symbols' = inflight_symbols
  BY DEF AwaitsCancel, Turn
<1>2. monitors[p] \in Coroutine
  BY MonitorLegs DEF OwnerInv
<1>3. /\ DOMAIN monitors' = DOMAIN monitors
      /\ \A q \in DOMAIN monitors : q # p => monitors'[q] = monitors[q]
      /\ monitors'[p].pc = "ack" /\ monitors'[p].rest = monitors[p].rest
      /\ monitors'[p].id = monitors[p].id /\ monitors'[p].leg = monitors[p].leg
  BY <1>1, <1>2 DEF Coroutine
<1>4. /\ \A q \in DOMAIN monitors : OpenLegs(q)' = OpenLegs(q)
      /\ \A q \in DOMAIN monitors : MonitorSymbols(q)' = MonitorSymbols(q)
  BY <1>1, <1>3 DEF OpenLegs, MonitorSymbols
<1>5. EveryOrderOwned'
  BY <1>1, <1>3, <1>4 DEF OwnerInv, EveryOrderOwned
<1>6. OnePairPerSymbol'
  BY <1>1, <1>3, <1>4 DEF OwnerInv, OnePairPerSymbol
<1>7. AtMostOneOverLimit'
  BY <1>1 DEF OwnerInv, AtMostOneOverLimit
<1> QED
  BY <1>5, <1>6, <1>7 DEF OwnerInv

(* A pair ends: its legs and symbols are given back, and the hedge, if any, *)
(* is owned by its watcher and takes the place of a leg.                   *)
LEMMA ConcludeKeepsOwners ==
    ASSUME OrderInv, PairInv, OwnerInv, NEW p \in DOMAIN monitors,
           NEW k, NEW rec, Concludes(p, k, rec)
    PROVE  OwnerInv'
<1> DEFINE N == IF HedgeQty(first_status'[p], rec) = 0 THEN {} ELSE {seq}
<1>1. /\ monitors' = Drop(monitors, p)
      /\ inflight_symbols' = inflight_symbols \ MonitorSymbols(p)
      /\ watchers' = watchers \cup N /\ DOMAIN waiters' = DOMAIN orders'
      /\ DOMAIN orders' = (DOMAIN orders \ OpenLegs(p)) \cup N
  <2>1. PICK n : n = HedgeQty(first_status'[p], rec)
    OBVIOUS
  <2>2. /\ n \in Nat /\ Turn(OpenLegs(p)) /\ monitors' = Drop(monitors, p)
        /\ inflight_symbols' = inflight_symbols \ MonitorSymbols(p)
        /\ n = 0 => /\ watchers' = watchers
                    /\ DOMAIN orders' = DOMAIN orders \ OpenLegs(p)
        /\ n > 0 => /\ watchers' = watchers \cup {seq}
                    /\ DOMAIN orders' = (DOMAIN orders \ OpenLegs(p)) \cup {seq}
    BY <2>1, ConcludeTurn DEF OwnerInv
  <2>3. DOMAIN waiters' = DOMAIN orders'
    BY <2>2 DEF Turn
  <2> QED
    BY <2>1, <2>2, <2>3
<1>2. N \subseteq {seq} /\ seq \notin DOMAIN orders
  BY EngineAssumption DEF OrderInv, MapInv
<1> HIDE DEF N
<1>3. OpenLegs(p) # {} /\ OpenLegs(p) \subseteq DOMAIN orders
  <2>1. OpenLegs(p) # {}
    BY DEF OpenLegs
  <2> QED
    BY <2>1, MonitorLegs DEF OwnerInv
<1>4. /\ DOMAIN monitors' = DOMAIN monitors \ {p}
      /\ \A q \in DOMAIN monitors : q # p => monitors'[q] = monitors[q]
  BY <1>1 DEF Drop
<1>5. /\ \A q \in DOMAIN monitors : q # p => OpenLegs(q)' = OpenLegs(q)
      /\ \A q \in DOMAIN monitors : q # p => MonitorSymbols(q)' = MonitorSymbols(q)
  BY <1>4 DEF OpenLegs, MonitorSymbols
<1>6. /\ \A o : o \in DOMAIN orders <=>
                  o \in watchers \/ \E q \in DOMAIN monitors : o \in OpenLegs(q)
      /\ \A q \in DOMAIN monitors : \A o \in OpenLegs(q) : o \notin watchers
      /\ \A q, r \in DOMAIN monitors : q # r =>
                  \A o \in OpenLegs(q) : o \notin OpenLegs(r)
  BY OwnedOrders DEF OwnerInv
<1>7. EveryOrderOwned'
  <2>1. \A q \in DOMAIN monitors : seq \notin OpenLegs(q)
    BY <1>2, <1>6
  <2>2. DOMAIN orders' = watchers' \cup UNION {OpenLegs(q)' : q \in DOMAIN monitors'}
    BY <1>1, <1>4, <1>5, <1>6
  <2>3. \A q \in DOMAIN monitors' : OpenLegs(q)' \cap watchers' = {}
    BY <1>1, <1>2, <1>4, <1>5, <1>6, <2>1
  <2>4. \A q, r \in DOMAIN monitors' : q # r => OpenLegs(q)' \cap OpenLegs(r)' = {}
    BY <1>4, <1>5, <1>6
  <2> QED
    BY <1>1, <2>2, <2>3, <2>4 DEF EveryOrderOwned
<1>8. OnePairPerSymbol'
  <2>1. /\ \A s : s \in inflight_symbols <=>
                  \E q \in DOMAIN monitors : s \in MonitorSymbols(q)
        /\ \A q, r \in DOMAIN monitors : q # r =>
                  \A s \in MonitorSymbols(q) : s \notin MonitorSymbols(r)
    BY ClaimedSymbols DEF OwnerInv
  <2>2. inflight_symbols' = UNION {MonitorSymbols(q)' : q \in DOMAIN monitors'}
    BY <1>1, <1>4, <1>5, <2>1
  <2>3. \A q, r \in DOMAIN monitors' : q # r => MonitorSymbols(q)' \cap MonitorSymbols(r)' = {}
    BY <1>4, <1>5, <2>1
  <2> QED
    BY <2>2, <2>3 DEF OnePairPerSymbol
<1>9. AtMostOneOverLimit'
  <2>1. DOMAIN orders' \subseteq (DOMAIN orders \ OpenLegs(p)) \cup {seq}
    BY <1>1, <1>2
  <2> QED
    BY <1>3, <2>1, FewerOrders DEF OwnerInv
<1> QED
  BY <1>7, <1>8, <1>9 DEF OwnerInv

(* A hedge ends: its watcher and its order go together. *)
LEMMA WatchKeepsOwners ==
    ASSUME OrderInv, PairInv, OwnerInv, NEW h \in DOMAIN waiters, watch_hedge(h)
    PROVE  OwnerInv'
<1>1. /\ h \in watchers /\ h \in DOMAIN orders /\ DOMAIN waiters' = DOMAIN orders'
      /\ DOMAIN orders' = DOMAIN orders \ {h} /\ watchers' = watchers \ {h}
      /\ monitors' = monitors /\ inflight_symbols' = inflight_symbols
  BY WatchTurn DEF Turn, OwnerInv
<1>2. /\ \A q : OpenLegs(q)' = OpenLegs(q)
      /\ \A q : MonitorSymbols(q)' = MonitorSymbols(q)
  BY <1>1 DEF OpenLegs, MonitorSymbols
<1>3. /\ \A o : o \in DOMAIN orders <=>
                  o \in watchers \/ \E q \in DOMAIN monitors : o \in OpenLegs(q)
      /\ \A q \in DOMAIN monitors : \A o \in OpenLegs(q) : o \notin watchers
  BY OwnedOrders DEF OwnerInv
<1>4. EveryOrderOwned'
  <2>1. \A q \in DOMAIN monitors : h \notin OpenLegs(q)
    BY <1>1, <1>3
  <2>2. DOMAIN orders' = watchers' \cup UNION {OpenLegs(q)' : q \in DOMAIN monitors'}
    BY <1>1, <1>2, <1>3, <2>1
  <2>3. \A q \in DOMAIN monitors' : OpenLegs(q)' \cap watchers' = {}
    BY <1>1, <1>2, <1>3
  <2>4. \A q, r \in DOMAIN monitors' : q # r => OpenLegs(q)' \cap OpenLegs(r)' = {}
    BY <1>1, <1>2 DEF OwnerInv, EveryOrderOwned
  <2> QED
    BY <1>1, <2>2, <2>3, <2>4 DEF EveryOrderOwned
<1>5. OnePairPerSymbol'
  BY <1>1, <1>2 DEF OwnerInv, OnePairPerSymbol
<1>6. AtMostOneOverLimit'
  <2>1. {h} \subseteq DOMAIN orders /\ {h} # {}
        /\ DOMAIN orders' \subseteq (DOMAIN orders \ {h}) \cup {h}
    BY <1>1
  <2> QED
    BY <2>1, FewerOrders DEF OwnerInv
<1> QED
  BY <1>4, <1>5, <1>6 DEF OwnerInv

-----------------------------------------------------------------------------
(* The pairs.                                                              *)

(* Under a turn a monitor that it does not touch stays as it was. *)
LEMMA MonitoredKept ==
    ASSUME OrderInv, Grows, seq' \in Nat, seq' >= seq,
           NEW q \in DOMAIN monitors, Monitored(q), monitors'[q] = monitors[q],
           q \in DOMAIN first_status' <=> q \in DOMAIN first_status,
           q \in DOMAIN first_status => first_status'[q] = first_status[q],
           Hedges(q)' = Hedges(q)
    PROVE  Monitored(q)'
<1> DEFINE m == monitors[q]
           o == m.id[3 - m.rest]
<1>1. m \in Coroutine /\ m.id[1] = q /\ m.id[2] = q + 1 /\ PairLegs(q, m.leg)
  BY DEF Monitored
<1>2. PairLegs(q, m.leg)' /\ q \in DOMAIN exch /\ q + 1 \in DOMAIN exch
  <2>1. PICK leg : leg = m.leg
    OBVIOUS
  <2>2. PairLegs(q, leg)' /\ q \in DOMAIN exch /\ q + 1 \in DOMAIN exch
    BY <1>1, <2>1, LegsGrow
  <2> QED
    BY <2>1, <2>2
<1>3. m.rest \in {1, 2}
  BY <1>1 DEF Coroutine
<1>4. o \in DOMAIN exch
  BY <1>1, <1>2, <1>3
<1>5. exch[o].filled = exch[o].qty => exch'[o] = exch[o]
  BY <1>4, FilledIsDone DEF Grows
<1>6. /\ m.pc = "first" <=> q \notin DOMAIN first_status
      /\ m.pc = "leg" => first_status[q] = "Filled"
      /\ m.pc # "first" /\ first_status[q] = "Filled" => exch[o].filled = exch[o].qty
      /\ Hedges(q) = {}
  BY DEF Monitored
<1>7. /\ m.pc = "first" <=> q \notin DOMAIN first_status'
      /\ m.pc = "leg" => first_status'[q] = "Filled"
      /\ m.pc # "first" /\ first_status'[q] = "Filled" => exch'[o].filled = exch'[o].qty
      /\ Hedges(q)' = {}
  BY <1>5, <1>6
<1> QED
  BY <1>1, <1>2, <1>7 DEF Monitored

(* The orders of a turn, and the pairs with a first status. *)
LEMMA TurnPairs ==
    ASSUME OrderInv, PairInv, NEW R, Turn(R)
    PROVE  /\ Grows /\ seq' \in Nat /\ seq \in Nat /\ seq' >= seq
           /\ DOMAIN exch = 0..(seq - 1) /\ DOMAIN exch' = 0..(seq' - 1)
           /\ \A o \in DOMAIN exch : /\ exch'[o].pair < seq
                                     /\ ~exch'[o].market => \/ o = exch'[o].pair
                                                            \/ o = exch'[o].pair + 1
           /\ \A p \in DOMAIN first_status : \E sg \in Signals : PairLegs(p, sg)'
           /\ \A p : Hedges(p) = { h \in DOMAIN exch : exch'[h].market /\ exch'[h].pair = p }
<1>1. Grows
  BY TurnGrows
<1>2. seq' \in Nat /\ seq \in Nat /\ seq' >= seq
      /\ DOMAIN exch = 0..(seq - 1) /\ DOMAIN exch' = 0..(seq' - 1)
  BY EngineAssumption DEF Turn, OrderInv, MapInv
<1>3. \A o \in DOMAIN exch : exch'[o] = exch[o]
  BY DEF Turn
<1>4. \A o \in DOMAIN exch : /\ exch'[o].pair < seq
                             /\ ~exch'[o].market => \/ o = exch'[o].pair
                                                    \/ o = exch'[o].pair + 1
  BY <1>3 DEF PairInv
<1>5. ASSUME NEW p \in DOMAIN first_status PROVE \E sg \in Signals : PairLegs(p, sg)'
  <2>1. PICK sg \in Signals : PairLegs(p, sg)
    BY DEF PairInv
  <2> QED
    BY <1>1, <1>2, <2>1, LegsGrow
<1>6. \A p : Hedges(p) = { h \in DOMAIN exch : exch'[h].market /\ exch'[h].pair = p }
  BY <1>3 DEF Hedges
<1> QED
  BY <1>1, <1>2, <1>4, <1>5, <1>6

(* on_signal sends no hedge. *)
LEMMA SignalHedges ==
    ASSUME OrderInv, PairInv, NEW sg \in Signals, on_signal(sg)
    PROVE  \A p : Hedges(p)' = Hedges(p)
<1>0. PICK a : a = seq
  OBVIOUS
<1>1. /\ Turn({}) /\ seq' = a + 2 /\ first_status' = first_status
      /\ exch'[a] = XOrder(sg[1], FALSE, a) /\ exch'[a + 1] = XOrder(sg[2], FALSE, a)
  BY <1>0, SignalTurn
<1>2. /\ Grows /\ seq' \in Nat /\ seq \in Nat /\ seq' >= seq
      /\ DOMAIN exch = 0..(seq - 1) /\ DOMAIN exch' = 0..(seq' - 1)
      /\ \A o \in DOMAIN exch : /\ exch'[o].pair < seq
                                /\ ~exch'[o].market => \/ o = exch'[o].pair
                                                       \/ o = exch'[o].pair + 1
      /\ \A p \in DOMAIN first_status : \E s \in Signals : PairLegs(p, s)'
      /\ \A p : Hedges(p) = { h \in DOMAIN exch : exch'[h].market /\ exch'[h].pair = p }
  BY <1>1, TurnPairs
<1>3. DOMAIN exch' = DOMAIN exch \cup {a, a + 1} /\ a \in Nat
  BY <1>0, <1>1, <1>2
<1>4. /\ ~exch'[a].market /\ exch'[a].pair = a /\ exch'[a].symbol = sg[1].symbol
      /\ exch'[a].side = sg[1].side /\ exch'[a].qty = sg[1].qty
      /\ ~exch'[a + 1].market /\ exch'[a + 1].pair = a /\ exch'[a + 1].symbol = sg[2].symbol
      /\ exch'[a + 1].side = sg[2].side /\ exch'[a + 1].qty = sg[2].qty
  BY <1>1 DEF XOrder
<1>5. ASSUME NEW p PROVE Hedges(p)' = Hedges(p)
  <2>1. PICK b : b = a + 1
    OBVIOUS
  <2>2. DOMAIN exch' = DOMAIN exch \cup {a, b} /\ ~exch'[a].market /\ ~exch'[b].market
    BY <1>3, <1>4, <2>1
  <2>3. Hedges(p)' = { h \in DOMAIN exch' : exch'[h].market /\ exch'[h].pair = p }
    BY DEF Hedges
  <2>4. Hedges(p) = { h \in DOMAIN exch : exch'[h].market /\ exch'[h].pair = p }
    BY <1>2
  <2> QED
    BY <2>2, <2>3, <2>4
<1> QED
  BY <1>5

(* on_signal adds a pair that nothing refers to yet. *)
LEMMA SignalKeepsPairs ==
    ASSUME OrderInv, PairInv, OwnerInv, NEW sg \in Signals, on_signal(sg)
    PROVE  PairInv'
<1>0. PICK a : a = seq
  OBVIOUS
<1>1. /\ Turn({}) /\ seq' = a + 2 /\ first_status' = first_status
      /\ exch'[a] = XOrder(sg[1], FALSE, a) /\ exch'[a + 1] = XOrder(sg[2], FALSE, a)
  BY <1>0, SignalTurn
<1>2. /\ Grows /\ seq' \in Nat /\ seq \in Nat /\ seq' >= seq
      /\ DOMAIN exch = 0..(seq - 1) /\ DOMAIN exch' = 0..(seq' - 1)
      /\ \A o \in DOMAIN exch : /\ exch'[o].pair < seq
                                /\ ~exch'[o].market => \/ o = exch'[o].pair
                                                       \/ o = exch'[o].pair + 1
      /\ \A p \in DOMAIN first_status : \E s \in Signals : PairLegs(p, s)'
      /\ \A p : Hedges(p) = { h \in DOMAIN exch : exch'[h].market /\ exch'[h].pair = p }
  BY <1>1, TurnPairs
<1>3. DOMAIN exch' = DOMAIN exch \cup {a, a + 1} /\ a \in Nat
  BY <1>0, <1>1, <1>2
<1>4. /\ ~exch'[a].market /\ exch'[a].pair = a /\ exch'[a].symbol = sg[1].symbol
      /\ exch'[a].side = sg[1].side /\ exch'[a].qty = sg[1].qty
      /\ ~exch'[a + 1].market /\ exch'[a + 1].pair = a /\ exch'[a + 1].symbol = sg[2].symbol
      /\ exch'[a + 1].side = sg[2].side /\ exch'[a + 1].qty = sg[2].qty
  BY <1>1 DEF XOrder
<1>5. \A p : Hedges(p)' = Hedges(p)
  BY SignalHedges
<1>6. Hedges(a) = {}
  BY <1>0, <1>2, <1>3 DEF Hedges, PairInv
<1>7. \A p \in DOMAIN first_status : p # a
  BY <1>0, <1>2 DEF PairInv, PairLegs
<1>8. monitors' = Put(monitors, a, [pc |-> "first", id |-> <<a, a + 1>>,
                                    leg |-> sg, rest |-> 1])
  BY <1>0 DEF on_signal
<1>9. ASSUME NEW p \in DOMAIN monitors PROVE p # a
  BY <1>0, <1>2, MonitorLegs DEF OwnerInv
<1>10. /\ DOMAIN monitors' = DOMAIN monitors \cup {a}
       /\ \A p \in DOMAIN monitors : monitors'[p] = monitors[p]
       /\ monitors'[a] = [pc |-> "first", id |-> <<a, a + 1>>, leg |-> sg, rest |-> 1]
  BY <1>8, <1>9 DEF Put
<1>11. ASSUME NEW p \in DOMAIN monitors PROVE Monitored(p)'
  <2>1. Monitored(p)
    BY DEF PairInv
  <2> QED
    BY <1>1, <1>2, <1>5, <1>10, <2>1, MonitoredKept
<1>12. PairLegs(a, sg)'
  <2>1. a + 1 < seq'
    BY <1>1, <1>3
  <2>2. IsLeg(a, a, sg[1])' /\ IsLeg(a + 1, a, sg[2])'
    BY <1>4 DEF IsLeg
  <2> QED
    BY <1>3, <2>1, <2>2 DEF PairLegs
<1>13. Monitored(a)'
  <2>1. /\ monitors'[a] \in Coroutine /\ monitors'[a].id[1] = a
        /\ monitors'[a].id[2] = a + 1 /\ monitors'[a].leg = sg /\ monitors'[a].pc = "first"
    BY <1>3, <1>10 DEF Coroutine
  <2> QED
    BY <1>1, <1>5, <1>6, <1>7, <1>12, <2>1 DEF Monitored
<1>14. \A o \in DOMAIN exch' : exch'[o].pair < seq'
  <2>1. \A o \in DOMAIN exch : exch[o].pair \in Nat /\ exch'[o].pair = exch[o].pair
    BY <1>2 DEF Grows, OrderInv, MapInv, XOrderType
  <2>2. a < seq' /\ seq < seq'
    BY <1>0, <1>1, <1>3
  <2>3. \A n \in Nat : n < seq => n < seq'
    BY <1>2, <2>2
  <2>4. \A o \in DOMAIN exch : exch'[o].pair < seq'
    BY <1>2, <2>1, <2>3
  <2> QED
    BY <1>3, <1>4, <2>2, <2>4
<1>15. \A o \in DOMAIN exch' : ~exch'[o].market => o = exch'[o].pair \/ o = exch'[o].pair + 1
  BY <1>2, <1>3, <1>4
<1> QED
  BY <1>1, <1>2, <1>10, <1>11, <1>13, <1>14, <1>15 DEF PairInv

(* A first leg settles: its status is recorded, and if it filled it is the *)
(* leg that no longer rests.                                               *)
LEMMA SettleKeepsPairs ==
    ASSUME OrderInv, PairInv, OwnerInv, NEW p \in DOMAIN monitors,
           NEW i, NEW rec, NEW pc, FirstSettles(p, i, rec, pc)
    PROVE  PairInv'
<1> DEFINE o == monitors[p].id[i]
<1>1. /\ i \in {1, 2} /\ monitors[p].pc = "first" /\ pc \in {"leg", "ack"}
      /\ Turn({o}) /\ seq' = seq /\ exch' = exch
      /\ monitors' = [monitors EXCEPT ![p].pc = pc, ![p].rest = 3 - i]
      /\ first_status' = Put(first_status, p, rec.status)
      /\ rec \in OrderRecord /\ Truthful(o, exch[o], rec) /\ is_terminal(rec.status)
      /\ pc = "leg" => rec.status = "Filled"
  BY DEF FirstSettles
<1>2. Grows /\ seq' \in Nat /\ seq' >= seq /\ DOMAIN exch' = DOMAIN exch
      /\ \A q \in DOMAIN first_status : \E sg \in Signals : PairLegs(q, sg)'
  BY <1>1, TurnPairs
<1>3. /\ monitors[p] \in Coroutine /\ monitors[p].id[1] = p /\ monitors[p].id[2] = p + 1
      /\ 3 - i \in {1, 2} /\ monitors[p].leg \in Signals
  BY <1>1, MonitorLegs DEF OwnerInv
<1>4. /\ DOMAIN monitors' = DOMAIN monitors
      /\ \A q \in DOMAIN monitors : q # p => monitors'[q] = monitors[q]
      /\ monitors'[p] \in Coroutine
      /\ monitors'[p].pc = pc /\ monitors'[p].rest = 3 - i
      /\ monitors'[p].id = monitors[p].id /\ monitors'[p].leg = monitors[p].leg
  BY <1>1, <1>3 DEF Coroutine
<1>5. /\ DOMAIN first_status' = DOMAIN first_status \cup {p}
      /\ first_status'[p] = rec.status
      /\ \A q \in DOMAIN first_status : q # p => first_status'[q] = first_status[q]
  BY <1>1 DEF Put
<1>6. \A q : Hedges(q)' = Hedges(q)
  BY <1>1 DEF Hedges
<1>7. Monitored(p)
  BY DEF PairInv
<1>8. PairLegs(p, monitors[p].leg)' /\ Hedges(p) = {}
  <2>1. PICK leg : leg = monitors[p].leg
    OBVIOUS
  <2>2. PairLegs(p, leg) /\ Hedges(p) = {}
    BY <1>7, <2>1 DEF Monitored
  <2>3. PairLegs(p, leg)' /\ leg = monitors'[p].leg
    BY <1>1, <1>4, <2>1, <2>2 DEF PairLegs, IsLeg
  <2> QED
    BY <2>2, <2>3
<1>9. rec.status = "Filled" => exch[o].filled = exch[o].qty
  BY <1>1 DEF Truthful, Final, is_terminal
<1>10. Monitored(p)'
  <2>1. 3 - monitors'[p].rest = i
    BY <1>1, <1>4
  <2>2. monitors'[p].id[3 - monitors'[p].rest] = o
    BY <1>4, <2>1
  <2> HIDE DEF o
  <2>3. monitors'[p].pc # "first"
    BY <1>1, <1>4
  <2>4. PairLegs(p, monitors[p].leg)' = PairLegs(p, monitors[p].leg)'
    OBVIOUS
  <2> QED
    BY <1>1, <1>3, <1>4, <1>5, <1>6, <1>8, <1>9, <2>2, <2>3 DEF Monitored
<1>11. ASSUME NEW q \in DOMAIN monitors, q # p PROVE Monitored(q)'
  <2>1. Monitored(q)
    BY DEF PairInv
  <2> QED
    BY <1>2, <1>4, <1>5, <1>6, <1>11, <2>1, MonitoredKept
<1>12. ASSUME NEW q \in DOMAIN first_status' PROVE \E sg \in Signals : PairLegs(q, sg)'
  <2>1. PICK leg : leg = monitors[p].leg
    OBVIOUS
  <2>2. PairLegs(p, leg)' /\ leg \in Signals
    BY <1>1, <1>3, <1>7, <2>1 DEF PairLegs, IsLeg, Monitored
  <2> QED
    BY <1>2, <1>5, <2>2
<1>13. /\ \A k \in DOMAIN exch' : exch'[k].pair < seq'
       /\ \A k \in DOMAIN exch' : ~exch'[k].market => k = exch'[k].pair \/ k = exch'[k].pair + 1
  BY <1>1 DEF PairInv
<1> QED
  BY <1>4, <1>10, <1>11, <1>12, <1>13 DEF PairInv

(* Waiting for a cancel changes only the monitor's place. *)
LEMMA AwaitKeepsPairs ==
    ASSUME OrderInv, PairInv, OwnerInv, NEW p \in DOMAIN monitors, AwaitsCancel(p)
    PROVE  PairInv'
<1>1. /\ monitors[p].pc = "leg" /\ monitors' = [monitors EXCEPT ![p].pc = "ack"]
      /\ Turn({}) /\ seq' = seq /\ exch' = exch /\ first_status' = first_status
  BY DEF AwaitsCancel
<1>2. Grows /\ seq' \in Nat /\ seq' >= seq
      /\ \A q \in DOMAIN first_status : \E sg \in Signals : PairLegs(q, sg)'
  BY <1>1, TurnPairs
<1>3. monitors[p] \in Coroutine
  BY MonitorLegs DEF OwnerInv
<1>4. /\ DOMAIN monitors' = DOMAIN monitors
      /\ \A q \in DOMAIN monitors : q # p => monitors'[q] = monitors[q]
      /\ monitors'[p] \in Coroutine
      /\ monitors'[p].pc = "ack" /\ monitors'[p].rest = monitors[p].rest
      /\ monitors'[p].id = monitors[p].id /\ monitors'[p].leg = monitors[p].leg
  BY <1>1, <1>3 DEF Coroutine
<1>5. \A q : Hedges(q)' = Hedges(q)
  BY <1>1 DEF Hedges
<1>6. Monitored(p)'
  <2>1. Monitored(p)
    BY DEF PairInv
  <2>2. PICK leg : leg = monitors[p].leg
    OBVIOUS
  <2>3. PairLegs(p, leg)' /\ leg = monitors'[p].leg
    BY <1>1, <1>4, <2>1, <2>2 DEF PairLegs, IsLeg, Monitored
  <2> QED
    BY <1>1, <1>4, <1>5, <2>1, <2>3 DEF Monitored
<1>7. ASSUME NEW q \in DOMAIN monitors, q # p PROVE Monitored(q)'
  <2>1. Monitored(q)
    BY DEF PairInv
  <2> QED
    BY <1>1, <1>2, <1>4, <1>5, <1>7, <2>1, MonitoredKept
<1>8. /\ \A k \in DOMAIN exch' : exch'[k].pair < seq'
      /\ \A k \in DOMAIN exch' : ~exch'[k].market => k = exch'[k].pair \/ k = exch'[k].pair + 1
  BY <1>1 DEF PairInv
<1> QED
  BY <1>1, <1>2, <1>4, <1>6, <1>7, <1>8 DEF PairInv

(* A pair ends, with or without a hedge, and only its own hedges change. *)
LEMMA ConcludeKeepsPairs ==
    ASSUME OrderInv, PairInv, OwnerInv, NEW p \in DOMAIN monitors,
           NEW k, NEW rec, Concludes(p, k, rec)
    PROVE  PairInv'
<1>0. PICK n, h : n = HedgeQty(first_status'[p], rec) /\ h = seq
  OBVIOUS
<1>1. /\ n \in Nat /\ Turn(OpenLegs(p)) /\ monitors' = Drop(monitors, p)
      /\ n = 0 => seq' = seq /\ DOMAIN exch' = DOMAIN exch
      /\ n > 0 => /\ seq' = h + 1 /\ DOMAIN exch' = DOMAIN exch \cup {h}
                  /\ exch'[h].market /\ exch'[h].pair = p
  BY <1>0, ConcludeTurn DEF OwnerInv
<1>2. /\ Grows /\ seq' \in Nat /\ seq \in Nat /\ seq' >= seq
      /\ \A o \in DOMAIN exch : /\ exch'[o].pair < seq
                                /\ ~exch'[o].market => \/ o = exch'[o].pair
                                                       \/ o = exch'[o].pair + 1
      /\ \A q \in DOMAIN first_status : \E sg \in Signals : PairLegs(q, sg)'
      /\ \A q : Hedges(q) = { o \in DOMAIN exch : exch'[o].market /\ exch'[o].pair = q }
  BY <1>1, TurnPairs
<1>3. DOMAIN exch' = DOMAIN exch \/ (DOMAIN exch' = DOMAIN exch \cup {h}
                                     /\ exch'[h].market /\ exch'[h].pair = p /\ seq' = h + 1)
  BY <1>1
<1>4. \A q : q # p => Hedges(q)' = Hedges(q)
  BY <1>2, <1>3 DEF Hedges
<1>5. /\ DOMAIN monitors' = DOMAIN monitors \ {p}
      /\ \A q \in DOMAIN monitors : q # p => monitors'[q] = monitors[q]
  BY <1>1 DEF Drop
<1>6. /\ DOMAIN first_status' \subseteq DOMAIN first_status \cup {p}
      /\ DOMAIN first_status \subseteq DOMAIN first_status'
      /\ \A q \in DOMAIN first_status : q # p => first_status'[q] = first_status[q]
  BY DEF Concludes, Put
<1>7. ASSUME NEW q \in DOMAIN monitors', q # p PROVE Monitored(q)'
  <2>1. Monitored(q) /\ q \in DOMAIN monitors
    BY <1>5 DEF PairInv
  <2> QED
    BY <1>2, <1>4, <1>5, <1>6, <1>7, <2>1, MonitoredKept
<1>8. ASSUME NEW q \in DOMAIN first_status' PROVE \E sg \in Signals : PairLegs(q, sg)'
  <2>1. PICK leg : leg = monitors[p].leg
    OBVIOUS
  <2>2. PairLegs(p, leg) /\ leg \in Signals
    BY <2>1 DEF PairInv, Monitored, Coroutine
  <2>3. PairLegs(p, leg)'
    BY <1>2, <2>2, LegsGrow
  <2> QED
    BY <1>2, <1>6, <2>2, <2>3
<1>9. p \in Nat /\ p < seq
  BY <1>2, MonitorLegs DEF OwnerInv
<1>10. \A o \in DOMAIN exch : exch'[o].pair \in Nat
  BY <1>2 DEF Grows, OrderInv, MapInv, XOrderType
<1>11. \A o \in DOMAIN exch' : exch'[o].pair < seq'
  BY <1>0, <1>2, <1>3, <1>9, <1>10
<1>12. \A o \in DOMAIN exch' : ~exch'[o].market => o = exch'[o].pair \/ o = exch'[o].pair + 1
  BY <1>2, <1>3
<1> QED
  BY <1>5, <1>7, <1>8, <1>11, <1>12 DEF PairInv

(* A hedge is released: the pairs do not notice. *)
LEMMA WatchKeepsPairs ==
    ASSUME OrderInv, PairInv, OwnerInv, NEW h \in DOMAIN waiters, watch_hedge(h)
    PROVE  PairInv'
<1>1. seq' = seq /\ exch' = exch /\ monitors' = monitors /\ first_status' = first_status
  BY WatchTurn DEF OwnerInv
<1>2. \A p : Hedges(p)' = Hedges(p)
  BY <1>1 DEF Hedges
<1>3. \A p, sg : PairLegs(p, sg) => PairLegs(p, sg)'
  BY <1>1 DEF PairLegs, IsLeg
<1>4. ASSUME NEW p \in DOMAIN monitors PROVE Monitored(p)'
  <2>1. Monitored(p)
    BY DEF PairInv
  <2> QED
    BY <1>1, <1>2, <1>3, <2>1 DEF Monitored
<1>5. \A p \in DOMAIN first_status : \E sg \in Signals : PairLegs(p, sg)'
  BY <1>3 DEF PairInv
<1>6. /\ \A k \in DOMAIN exch' : exch'[k].pair < seq'
      /\ \A k \in DOMAIN exch' : ~exch'[k].market => k = exch'[k].pair \/ k = exch'[k].pair + 1
  BY <1>1 DEF PairInv
<1> QED
  BY <1>1, <1>4, <1>5, <1>6 DEF PairInv

-----------------------------------------------------------------------------
(* The book.                                                               *)

(* Between w on S and v on T the value of o, if it is in S, goes from 0 to *)
(* q, and the elements T has more are worth 0.                             *)
Padded(T, v, S, w, o, q) ==
    /\ IsFiniteSet(T) /\ S \subseteq T /\ q \in Int
    /\ \A x \in T : v[x] \in Int
    /\ \A x \in S : w[x] \in Int
    /\ \A x \in T \ S : v[x] = 0
    /\ \A x \in S : x # o => v[x] = w[x]
    /\ o \in S => w[o] = 0 /\ v[o] = q

(* Then the total grows by q, or not at all. *)
LEMMA TotalPut ==
    ASSUME NEW T, NEW v, NEW S, NEW w, NEW o, NEW q, Padded(T, v, S, w, o, q)
    PROVE  /\ Total(w, S) \in Int
           /\ o \in S => Total(v, T) = Total(w, S) + q
           /\ o \notin S => Total(v, T) = Total(w, S)
<1> USE DEF Padded
<1>1. IsFiniteSet(S) /\ IsFiniteSet(S \ {o})
  <2>1. S \subseteq T /\ S \ {o} \subseteq T
    OBVIOUS
  <2> QED
    BY <2>1, FS_Subset
<1>2. Total(v, T) = Total(v, S)
  BY TotalPad
<1>3. Total(w, S) \in Int
  BY <1>1, TotalStep
<1>4. ASSUME o \notin S PROVE Total(v, S) = Total(w, S)
  <2>1. \A x \in S : v[x] = w[x]
    BY <1>4
  <2> QED
    BY <1>1, <2>1, TotalAgree
<1>5. ASSUME o \in S PROVE Total(v, S) = Total(w, S) + q
  <2>1. \A x \in S : v[x] \in Int
    OBVIOUS
  <2>2. Total(v, S) = v[o] + Total(v, S \ {o})
    BY <1>1, <1>5, <2>1, TotalStep
  <2>3. Total(w, S) = w[o] + Total(w, S \ {o})
    BY <1>1, <1>5, TotalStep
  <2>4. \A x \in S \ {o} : v[x] = w[x] /\ w[x] \in Int
    OBVIOUS
  <2>5. Total(v, S \ {o}) = Total(w, S \ {o}) /\ Total(w, S \ {o}) \in Int
    BY <1>1, <2>4, TotalAgree, TotalStep
  <2> QED
    BY <1>5, <2>2, <2>3, <2>5
<1> QED
  BY <1>2, <1>3, <1>4, <1>5

(* q units of the tracked order o are booked, on its symbol and side. *)
Booking(o, q) ==
    /\ o \in DOMAIN orders /\ q \in Nat \ {0} /\ q <= exch[o].filled
    /\ last_filled' = Put(last_filled, o + 1, q)
    /\ position' = [position EXCEPT ![exch[o].symbol] = @ + signed_dir(exch[o].side) * q]

(* apply_fill_pnl with a truthful record of a tracked order that has fills *)
(* books all of them: nothing was booked for the order before.             *)
LEMMA RecordBooks ==
    ASSUME OrderInv, BookInv, NEW o \in DOMAIN orders, NEW rec \in OrderRecord,
           Truthful(o, exch[o], rec), rec.filled_qty > 0, NEW leg,
           leg.symbol = exch[o].symbol, leg.side = exch[o].side, apply_fill_pnl(rec, leg)
    PROVE  Booking(o, rec.filled_qty)
<1>1. rec.exchange_order_id = o + 1 /\ rec.avg_fill_price[1] > 0
      /\ rec.filled_qty <= exch[o].filled
  BY DEF Truthful
<1>2. rec.filled_qty \in Nat \ {0}
  BY DEF OrderRecord
<1>3. AlreadyBooked(o + 1) = 0
  BY DEF BookInv, AlreadyBooked
<1>4. rec.filled_qty - AlreadyBooked(rec.exchange_order_id) = rec.filled_qty
  BY <1>1, <1>2, <1>3
<1>5. /\ position' = [position EXCEPT ![leg.symbol] = @ + signed_dir(leg.side) * rec.filled_qty]
      /\ last_filled' = Put(last_filled, o + 1, rec.filled_qty)
  BY <1>1, <1>2, <1>4 DEF apply_fill_pnl
<1> QED
  BY <1>1, <1>2, <1>5 DEF Booking

(* The orders of one symbol and side under a turn. *)
LEMMA TurnOn ==
    ASSUME OrderInv, OrderInv', NEW R, Turn(R), NEW s, NEW side
    PROVE  /\ IsFiniteSet(On(s, side)') /\ On(s, side) \in SUBSET On(s, side)'
           /\ On(s, side) \subseteq DOMAIN exch /\ On(s, side)' \subseteq DOMAIN exch'
           /\ On(s, side)' \ On(s, side) \subseteq DOMAIN exch' \ DOMAIN exch
<1>1. DOMAIN exch \subseteq DOMAIN exch'
  BY TurnGrows DEF Grows
<1>2. \A o \in DOMAIN exch : exch'[o] = exch[o]
  BY DEF Turn
<1>3. DOMAIN exch' = 0..(seq' - 1) /\ seq' \in Nat
  BY EngineAssumption DEF OrderInv, MapInv
<1>4. IsFiniteSet(DOMAIN exch')
  BY <1>3, FS_Interval
<1>5. On(s, side)' \subseteq DOMAIN exch'
  BY DEF On
<1>6. IsFiniteSet(On(s, side)')
  BY <1>4, <1>5, FS_Subset
<1> QED
  BY <1>1, <1>2, <1>5, <1>6 DEF On

(* What is booked for each order, before and after a turn that books q     *)
(* units of o (or, with o outside of the orders, nothing).                 *)
LEMMA BookedAfter ==
    ASSUME OrderInv, BookInv, NEW R, Turn(R), NEW o \in Int, NEW q \in Nat,
           \/ last_filled' = last_filled /\ o \notin DOMAIN exch
           \/ last_filled' = Put(last_filled, o + 1, q) /\ o \in DOMAIN orders
    PROVE  /\ \A k \in DOMAIN exch : Booked[k] = AlreadyBooked(k + 1) /\ Booked[k] \in Nat
           /\ \A k \in DOMAIN exch' : Booked'[k] = AlreadyBooked(k + 1)' /\ Booked'[k] \in Nat
           /\ \A k \in DOMAIN exch : k # o => Booked'[k] = Booked[k]
           /\ \A k \in DOMAIN exch' \ DOMAIN exch : Booked'[k] = 0
           /\ o \in DOMAIN exch => Booked[o] = 0 /\ Booked'[o] = q
<1>1. /\ DOMAIN exch \subseteq DOMAIN exch' /\ DOMAIN orders \subseteq DOMAIN exch
      /\ DOMAIN exch = 0..(seq - 1) /\ DOMAIN exch' = 0..(seq' - 1)
      /\ seq \in Nat /\ seq' \in Nat
  <2>1. Grows
    BY TurnGrows
  <2>2. /\ seq \in Nat /\ seq' \in Nat /\ DOMAIN orders \subseteq DOMAIN exch
        /\ DOMAIN exch = 0..(seq - 1)
    BY EngineAssumption DEF OrderInv, MapInv, Turn
  <2>3. DOMAIN exch' = 0..(seq' - 1)
    BY DEF Turn
  <2> QED
    BY <2>1, <2>2, <2>3 DEF Grows
<1>2. /\ DOMAIN last_filled \subseteq 1..seq
      /\ \A x \in DOMAIN last_filled : last_filled[x] \in Nat
      /\ \A k \in DOMAIN orders : k + 1 \notin DOMAIN last_filled
  BY DEF BookInv
<1>3. \A k \in DOMAIN exch : Booked[k] = AlreadyBooked(k + 1)
  BY DEF Booked
<1>4. \A k \in DOMAIN exch' : Booked'[k] = AlreadyBooked(k + 1)'
  BY DEF Booked
<1>5. \A x : AlreadyBooked(x) \in Nat
  BY <1>2 DEF AlreadyBooked
<1>6. \A x : x # o + 1 => AlreadyBooked(x)' = AlreadyBooked(x)
  BY DEF AlreadyBooked, Put
<1>7. o \in DOMAIN exch => AlreadyBooked(o + 1) = 0 /\ AlreadyBooked(o + 1)' = q
  BY <1>1, <1>2 DEF AlreadyBooked, Put
<1>8. \A k \in DOMAIN exch' : k # o => k + 1 # o + 1
  BY <1>1
<1>9. ASSUME NEW k \in DOMAIN exch' \ DOMAIN exch PROVE AlreadyBooked(k + 1)' = 0
  <2>1. k \in Nat /\ k >= seq /\ k + 1 \notin 1..seq
    BY <1>1
  <2>2. AlreadyBooked(k + 1) = 0
    BY <1>2, <2>1 DEF AlreadyBooked
  <2>3. CASE last_filled' = last_filled
    BY <2>2, <2>3 DEF AlreadyBooked
  <2>4. CASE last_filled' = Put(last_filled, o + 1, q) /\ o \in DOMAIN orders
    <3>1. k # o
      BY <1>1, <2>4
    <3> QED
      BY <1>6, <1>8, <2>2, <3>1
  <2> QED
    BY <2>3, <2>4
<1>10. ASSUME NEW k \in DOMAIN exch' PROVE AlreadyBooked(k + 1)' \in Nat
  <2>1. CASE k \notin DOMAIN exch
    BY <1>9, <2>1
  <2>2. CASE k = o /\ k \in DOMAIN exch
    BY <1>7, <2>2
  <2>3. CASE k # o
    BY <1>5, <1>6, <1>8, <2>3
  <2> QED
    BY <2>1, <2>2, <2>3
<1>11. ASSUME NEW k \in DOMAIN exch, k # o PROVE Booked'[k] = Booked[k]
  <2>1. k \in DOMAIN exch'
    BY <1>1
  <2>2. AlreadyBooked(k + 1)' = AlreadyBooked(k + 1)
    BY <1>6, <1>8, <1>11, <2>1
  <2> QED
    BY <1>3, <1>4, <2>1, <2>2
<1> QED
  BY <1>1, <1>3, <1>4, <1>5, <1>7, <1>9, <1>10, <1>11

(* A turn that books nothing, or one order it releases, keeps the book the *)
(* sum of what is booked.                                                  *)
LEMMA TurnKeepsBook ==
    ASSUME OrderInv, OrderInv', BookInv, NEW R, Turn(R),
           UNCHANGED book \/ \E o \in R : \E q : Booking(o, q)
    PROVE  BookInv'
<1>1. PICK o, q : /\ o \in Int /\ q \in Nat
                  /\ \/ UNCHANGED book /\ o \notin DOMAIN exch
                     \/ o \in R /\ Booking(o, q)
  <2>1. -1 \in Int /\ -1 \notin DOMAIN exch
    BY DEF OrderInv, MapInv
  <2>2. CASE UNCHANGED book
    BY <2>1, <2>2
  <2>3. CASE \E k \in R : \E n : Booking(k, n)
    <3>0. PICK k \in R : \E n : Booking(k, n)
      BY <2>3
    <3>1. PICK n : Booking(k, n)
      BY <3>0
    <3>2. n \in Nat /\ k \in Int
      BY <3>1 DEF Booking, OrderInv, MapInv
    <3> QED
      BY <3>1, <3>2
  <2> QED
    BY <2>2, <2>3
<1>2. \/ last_filled' = last_filled /\ o \notin DOMAIN exch
      \/ last_filled' = Put(last_filled, o + 1, q) /\ o \in DOMAIN orders
  BY <1>1 DEF book, Booking
<1>3. /\ \A k \in DOMAIN exch : Booked[k] = AlreadyBooked(k + 1) /\ Booked[k] \in Nat
      /\ \A k \in DOMAIN exch' : Booked'[k] = AlreadyBooked(k + 1)' /\ Booked'[k] \in Nat
      /\ \A k \in DOMAIN exch : k # o => Booked'[k] = Booked[k]
      /\ \A k \in DOMAIN exch' \ DOMAIN exch : Booked'[k] = 0
      /\ o \in DOMAIN exch => Booked[o] = 0 /\ Booked'[o] = q
  BY <1>1, <1>2, BookedAfter
<1>4. /\ DOMAIN orders \subseteq DOMAIN exch /\ seq \in Nat /\ seq' \in Nat /\ seq' >= seq
      /\ DOMAIN exch = 0..(seq - 1) /\ DOMAIN exch' = 0..(seq' - 1)
      /\ \A k \in DOMAIN exch : exch'[k] = exch[k] /\ exch[k].filled \in Nat
      /\ \A k \in DOMAIN exch' : exch'[k].filled \in Nat
  BY EngineAssumption DEF OrderInv, MapInv, Turn, XOrderType
<1>5. /\ DOMAIN last_filled \subseteq 1..seq
      /\ \A x \in DOMAIN last_filled : last_filled[x] \in Nat
      /\ \A k \in DOMAIN orders : k + 1 \notin DOMAIN last_filled
      /\ position \in [Symbols -> Int]
      /\ \A k \in DOMAIN exch : AlreadyBooked(k + 1) <= exch[k].filled
  BY DEF BookInv
<1>6. /\ DOMAIN last_filled' \subseteq 1..seq'
      /\ \A x \in DOMAIN last_filled' : last_filled'[x] \in Nat
  <2>1. \A m, n \in Nat : m <= n => 1..m \subseteq 1..n
    OBVIOUS
  <2>2. 1..seq \subseteq 1..seq'
    BY <1>4, <2>1
  <2>3. o \in DOMAIN orders => o + 1 \in 1..seq
    BY <1>4
  <2> QED
    BY <1>1, <1>2, <1>5, <2>2, <2>3 DEF Put
<1>7. ASSUME NEW k \in DOMAIN orders' PROVE k + 1 \notin DOMAIN last_filled'
  <2>1. k \in DOMAIN orders \ R \/ k \in seq..(seq' - 1)
    BY DEF Turn
  <2>2. k + 1 \notin DOMAIN last_filled
    <3>1. k \in seq..(seq' - 1) => k + 1 \notin 1..seq
      BY <1>4
    <3> QED
      BY <1>5, <2>1, <3>1
  <2>3. CASE UNCHANGED book
    BY <2>2, <2>3 DEF book
  <2>4. CASE o \in R /\ Booking(o, q)
    <3>1. o \in DOMAIN orders /\ last_filled' = Put(last_filled, o + 1, q)
      BY <2>4 DEF Booking
    <3>2. k # o /\ k \in Int
      BY <1>4, <2>1, <2>4, <3>1
    <3>3. k + 1 # o + 1
      BY <1>1, <3>2
    <3> QED
      BY <2>2, <3>1, <3>3 DEF Put
  <2> QED
    BY <1>1, <2>3, <2>4
<1>8. ASSUME NEW k \in DOMAIN exch' PROVE AlreadyBooked(k + 1)' <= exch'[k].filled
  <2>1. CASE k \notin DOMAIN exch
    BY <1>3, <1>4, <2>1
  <2>2. CASE k \in DOMAIN exch /\ k # o
    BY <1>3, <1>4, <1>5, <2>2
  <2>3. CASE k \in DOMAIN exch /\ k = o
    <3>1. q <= exch[o].filled
      BY <1>1, <2>3 DEF Booking
    <3> QED
      BY <1>3, <1>4, <2>3, <3>1
  <2> QED
    BY <2>1, <2>2, <2>3
<1>9. PICK f, g : f = Booked /\ g = Booked'
  OBVIOUS
<1>10. ASSUME NEW s, NEW side
       PROVE  /\ Total(f, On(s, side)) \in Int
              /\ o \in On(s, side) => Total(g, On(s, side)') = Total(f, On(s, side)) + q
              /\ o \notin On(s, side) => Total(g, On(s, side)') = Total(f, On(s, side))
  <2>1. PICK S, T : S = On(s, side) /\ T = On(s, side)'
    OBVIOUS
  <2>2. /\ IsFiniteSet(T) /\ S \in SUBSET T /\ S \subseteq DOMAIN exch
        /\ T \subseteq DOMAIN exch' /\ T \ S \subseteq DOMAIN exch' \ DOMAIN exch
    BY <2>1, TurnOn
  <2>3. /\ \A x \in T : g[x] \in Int
        /\ \A x \in S : f[x] \in Int
        /\ \A x \in T \ S : g[x] = 0
        /\ \A x \in S : x # o => g[x] = f[x]
        /\ o \in S => f[o] = 0 /\ g[o] = q
    BY <1>3, <1>9, <2>2
  <2>4. q \in Int
    BY <1>1
  <2>5. /\ Total(f, S) \in Int
        /\ o \in S => Total(g, T) = Total(f, S) + q
        /\ o \notin S => Total(g, T) = Total(f, S)
    <3>1. Padded(T, g, S, f, o, q)
      BY <2>2, <2>3, <2>4 DEF Padded
    <3> QED
      BY <3>1, TotalPut
  <2> QED
    BY <2>1, <2>5
<1>11. ASSUME NEW s \in Symbols
       PROVE  position'[s] = Total(g, On(s, "Buy")') - Total(g, On(s, "Sell")')
  <2>1. position[s] = Total(f, On(s, "Buy")) - Total(f, On(s, "Sell")) /\ position[s] \in Int
    BY <1>9 DEF BookInv
  <2>2. Total(f, On(s, "Buy")) \in Int /\ Total(f, On(s, "Sell")) \in Int
    BY <1>10
  <2>3. CASE UNCHANGED book /\ o \notin DOMAIN exch
    <3>1. o \notin On(s, "Buy") /\ o \notin On(s, "Sell")
      BY <2>3 DEF On
    <3>2. position'[s] = position[s]
      BY <2>3 DEF book
    <3> QED
      BY <1>10, <2>1, <3>1, <3>2
  <2>4. CASE o \in R /\ Booking(o, q)
    <3>1. /\ o \in DOMAIN exch
          /\ position' = [position EXCEPT ![exch[o].symbol] =
                              @ + signed_dir(exch[o].side) * q]
      BY <1>4, <2>4 DEF Booking
    <3>2. exch[o].side \in {"Buy", "Sell"} /\ exch[o].symbol \in Symbols
      BY <3>1 DEF OrderInv, MapInv, XOrderType, Side
    <3>3. CASE exch[o].symbol # s
      <4>1. o \notin On(s, "Buy") /\ o \notin On(s, "Sell")
        BY <3>3 DEF On
      <4>2. position'[s] = position[s]
        BY <1>5, <3>1, <3>3
      <4> QED
        BY <1>10, <2>1, <4>1, <4>2
    <3>4. CASE exch[o].symbol = s /\ exch[o].side = "Buy"
      <4>1. o \in On(s, "Buy") /\ o \notin On(s, "Sell")
        BY <3>1, <3>4 DEF On
      <4>2. position'[s] = position[s] + q
        <5>1. position'[s] = position[s] + signed_dir("Buy") * q
          BY <1>5, <3>1, <3>4
        <5>2. signed_dir("Buy") * q = q
          BY <1>1 DEF signed_dir
        <5> QED
          BY <5>1, <5>2
      <4>3. Total(g, On(s, "Buy")') = Total(f, On(s, "Buy")) + q
            /\ Total(g, On(s, "Sell")') = Total(f, On(s, "Sell"))
        BY <1>10, <4>1
      <4> QED
        BY <1>1, <2>1, <2>2, <4>2, <4>3
    <3>5. CASE exch[o].symbol = s /\ exch[o].side = "Sell"
      <4>1. o \in On(s, "Sell") /\ o \notin On(s, "Buy")
        BY <3>1, <3>5 DEF On
      <4>2. position'[s] = position[s] - q
        <5>1. position'[s] = position[s] + signed_dir("Sell") * q
          BY <1>5, <3>1, <3>5
        <5>2. signed_dir("Sell") * q = -q
          BY <1>1 DEF signed_dir
        <5> QED
          BY <1>1, <2>1, <5>1, <5>2
      <4>3. Total(g, On(s, "Sell")') = Total(f, On(s, "Sell")) + q
            /\ Total(g, On(s, "Buy")') = Total(f, On(s, "Buy"))
        BY <1>10, <4>1
      <4> QED
        BY <1>1, <2>1, <2>2, <4>2, <4>3
    <3> QED
      BY <3>2, <3>3, <3>4, <3>5
  <2> QED
    BY <1>1, <2>3, <2>4
<1>12. position' \in [Symbols -> Int]
  <2>1. CASE UNCHANGED book
    BY <1>5, <2>1 DEF book
  <2>2. CASE o \in R /\ Booking(o, q)
    <3>1. signed_dir(exch[o].side) * q \in Int
      <4>1. signed_dir(exch[o].side) \in {1, -1}
        BY DEF signed_dir
      <4> QED
        BY <1>1, <4>1
    <3>2. PICK c, d : c = exch[o].symbol /\ d = position[c] + signed_dir(exch[o].side) * q
      OBVIOUS
    <3>3. c \in Symbols
      BY <1>4, <2>2, <3>2 DEF Booking, OrderInv, MapInv, XOrderType
    <3>4. d \in Int
      BY <1>5, <3>1, <3>2, <3>3
    <3>5. position' = [position EXCEPT ![c] = d]
      BY <2>2, <3>2 DEF Booking
    <3> QED
      BY <1>5, <3>4, <3>5
  <2> QED
    BY <1>1, <2>1, <2>2
<1> QED
  BY <1>6, <1>7, <1>8, <1>9, <1>11, <1>12 DEF BookInv

-----------------------------------------------------------------------------
(* The release of orders.                                                  *)

(* What is booked for order o after a step. *)
LEMMA BookedNow ==
    ASSUME OrderInv, NEW o \in DOMAIN exch
    PROVE  /\ UNCHANGED book => AlreadyBooked(o + 1)' = AlreadyBooked(o + 1)
           /\ \A r, q : Booking(r, q) =>
                 AlreadyBooked(o + 1)' = IF r = o THEN q ELSE AlreadyBooked(o + 1)
<1>1. UNCHANGED book => AlreadyBooked(o + 1)' = AlreadyBooked(o + 1)
  BY DEF book, AlreadyBooked
<1>2. ASSUME NEW r, NEW q, Booking(r, q)
      PROVE  AlreadyBooked(o + 1)' = IF r = o THEN q ELSE AlreadyBooked(o + 1)
  <2>1. last_filled' = Put(last_filled, r + 1, q) /\ r \in DOMAIN orders
    BY <1>2 DEF Booking
  <2>2. o \in Int /\ r \in Int
    BY <2>1 DEF OrderInv, MapInv
  <2>3. r # o => r + 1 # o + 1
    BY <2>2
  <2> QED
    BY <2>1, <2>3 DEF AlreadyBooked, Put
<1> QED
  BY <1>1, <1>2

(* The turn releases the orders R, books at most one of them, and what it  *)
(* leaves unbooked of them is excused.                                     *)
Settlement(R) ==
    /\ UNCHANGED book \/ \E o \in R : \E q : Booking(o, q)
    /\ \A p \in DOMAIN first_status : /\ p \in DOMAIN first_status'
                                      /\ first_status'[p] = first_status[p]
    /\ ~AckMayTimeOut =>
           \A o \in R : /\ exch[o].st = "done"
                        /\ AlreadyBooked(o + 1)' = exch[o].filled \/ Excused(o)'

(* Such a turn keeps ReleaseInv: an order released earlier is not touched. *)
LEMMA TurnKeepsReleased ==
    ASSUME OrderInv, ReleaseInv, NEW R, Turn(R), Settlement(R)
    PROVE  ReleaseInv'
<1>1. SUFFICES ASSUME ~AckMayTimeOut, NEW o \in Released'
               PROVE  /\ exch'[o].st = "done"
                      /\ AlreadyBooked(o + 1)' = exch'[o].filled \/ Excused(o)'
  BY DEF ReleaseInv
<1>2. o \in DOMAIN exch /\ (o \in R \/ o \in Released)
  <2>1. /\ DOMAIN exch = 0..(seq - 1) /\ seq \in Nat /\ seq' \in Nat
        /\ DOMAIN exch' = 0..(seq' - 1) /\ DOMAIN orders \subseteq DOMAIN exch
        /\ DOMAIN orders' = (DOMAIN orders \ R) \cup (seq..(seq' - 1))
    BY EngineAssumption DEF OrderInv, MapInv, Turn
  <2>2. o \in DOMAIN exch' /\ o \notin DOMAIN orders'
    BY DEF Released
  <2>3. \A m, n \in Nat : \A k \in 0..(n - 1) : k \notin m..(n - 1) => k \in 0..(m - 1)
    OBVIOUS
  <2> QED
    BY <2>1, <2>2, <2>3 DEF Released
<1>3. exch'[o] = exch[o]
  BY <1>2 DEF Turn
<1>4. CASE o \in R
  BY <1>1, <1>3, <1>4 DEF Settlement
<1>5. CASE o \in Released
  <2>1. /\ exch[o].st = "done"
        /\ AlreadyBooked(o + 1) = exch[o].filled \/ Excused(o)
    BY <1>1, <1>5 DEF ReleaseInv
  <2>2. AlreadyBooked(o + 1)' = AlreadyBooked(o + 1)
    <3>1. CASE UNCHANGED book
      BY <1>2, <3>1, BookedNow
    <3>2. ASSUME NEW r, NEW q, Booking(r, q) PROVE AlreadyBooked(o + 1)' = AlreadyBooked(o + 1)
      <4>1. r # o
        BY <1>5, <3>2 DEF Booking, Released
      <4> QED
        BY <1>2, <3>2, <4>1, BookedNow
    <3> QED
      BY <3>1, <3>2 DEF Settlement
  <2>3. Excused(o) => Excused(o)'
    BY <1>3 DEF Excused, Settlement
  <2> QED
    BY <1>3, <2>1, <2>2, <2>3
<1> QED
  BY <1>2, <1>4, <1>5

(* A terminal record of a leg that did not fill: what was executed of the  *)
(* leg is excused if the first status of the pair becomes this one.        *)
LEMMA FailedLegSettles ==
    ASSUME OrderInv, BookInv, NEW o \in DOMAIN orders, NEW rec \in OrderRecord,
           Truthful(o, exch[o], rec), is_terminal(rec.status), rec.status # "Filled",
           exch'[o] = exch[o], ~exch[o].market, NEW p, exch[o].pair = p,
           p \in DOMAIN first_status', first_status'[p] = rec.status,
           AlreadyBooked(o + 1)' = AlreadyBooked(o + 1)
    PROVE  /\ exch[o].st = "done"
           /\ AlreadyBooked(o + 1)' = exch[o].filled \/ Excused(o)'
<1>1. o \in DOMAIN exch /\ exch[o] \in XOrderType /\ Sound(exch[o])
  BY DEF OrderInv, MapInv, ExchInv
<1>2. exch[o].filled \in Nat /\ exch[o].qty \in Nat /\ exch[o].filled <= exch[o].qty
  BY <1>1 DEF XOrderType, Sound
<1>3. /\ exch[o].st = "done" /\ exch[o].filled # exch[o].qty
      /\ rec.status = "Rejected" => exch[o].filled = 0
  BY DEF Truthful, Final
<1>4. rec.status \in {"Canceled", "Rejected"}
  BY DEF is_terminal
<1>5. AlreadyBooked(o + 1)' = 0
  BY DEF AlreadyBooked, BookInv
<1>6. CASE rec.status = "Rejected"
  BY <1>3, <1>5, <1>6
<1>7. CASE rec.status = "Canceled"
  <2>1. exch[o].filled < exch[o].qty
    BY <1>2, <1>3
  <2>2. Excused(o)'
    BY <1>7, <2>1 DEF Excused
  <2> QED
    BY <1>3, <2>2
<1> QED
  BY <1>4, <1>6, <1>7

(* A first leg settles. *)
LEMMA SettleSettles ==
    ASSUME OrderInv, PairInv, OwnerInv, BookInv, NEW p \in DOMAIN monitors,
           NEW i, NEW rec, NEW pc, FirstSettles(p, i, rec, pc),
           NEW o, o = monitors[p].id[i]
    PROVE  Turn({o}) /\ Settlement({o})
<1>1. /\ i \in {1, 2} /\ monitors[p].pc = "first"
      /\ rec \in OrderRecord /\ Truthful(o, exch[o], rec) /\ is_terminal(rec.status)
      /\ Turn({o}) /\ exch' = exch
      /\ first_status' = Put(first_status, p, rec.status)
      /\ rec.status = "Filled" => apply_fill_pnl(rec, monitors[p].leg[i])
      /\ rec.status # "Filled" => UNCHANGED book
  BY DEF FirstSettles
<1>2. /\ IsLeg(o, p, monitors[p].leg[i]) /\ o \in DOMAIN exch
  BY <1>1, MonitorLegs DEF OwnerInv
<1>3. o \in DOMAIN orders
  BY <1>1 DEF Turn
<1>4. p \notin DOMAIN first_status
  BY <1>1 DEF PairInv, Monitored
<1>5. /\ \A q \in DOMAIN first_status : /\ q \in DOMAIN first_status'
                                        /\ first_status'[q] = first_status[q]
      /\ p \in DOMAIN first_status' /\ first_status'[p] = rec.status
  BY <1>1, <1>4 DEF Put
<1>6. exch[o] \in XOrderType
  BY <1>2 DEF OrderInv, MapInv
<1>7. CASE rec.status = "Filled"
  <2>1. exch[o].st = "done" /\ rec.filled_qty = exch[o].filled /\ exch[o].filled = exch[o].qty
    BY <1>1, <1>7 DEF Truthful, Final
  <2>2. rec.filled_qty > 0
    BY <1>6, <2>1 DEF XOrderType
  <2>3. /\ monitors[p].leg[i].symbol = exch[o].symbol /\ monitors[p].leg[i].side = exch[o].side
    BY <1>2 DEF IsLeg
  <2>4. PICK leg : leg = monitors[p].leg[i]
    OBVIOUS
  <2>5. Booking(o, rec.filled_qty)
    BY <1>1, <1>3, <1>7, <2>2, <2>3, <2>4, RecordBooks
  <2>6. AlreadyBooked(o + 1)' = exch[o].filled
    BY <1>2, <2>1, <2>5, BookedNow
  <2> QED
    BY <1>1, <1>5, <2>1, <2>5, <2>6 DEF Settlement
<1>8. CASE rec.status # "Filled"
  <2>1. AlreadyBooked(o + 1)' = AlreadyBooked(o + 1)
    BY <1>1, <1>2, <1>8, BookedNow
  <2>2. ~exch[o].market /\ exch[o].pair = p
    BY <1>2 DEF IsLeg
  <2>3. /\ exch[o].st = "done"
        /\ AlreadyBooked(o + 1)' = exch[o].filled \/ Excused(o)'
    BY <1>1, <1>3, <1>5, <1>8, <2>1, <2>2, FailedLegSettles
  <2> QED
    BY <1>1, <1>5, <1>8, <2>3 DEF Settlement
<1> QED
  BY <1>1, <1>7, <1>8

(* What BookIfFilled does with a truthful record of a tracked order. *)
LEMMA LastRecordSettles ==
    ASSUME OrderInv, BookInv, NEW r \in DOMAIN orders, NEW rec \in OrderRecord,
           Truthful(r, exch[r], rec), NEW leg, BookIfFilled(rec, leg),
           leg.symbol = exch[r].symbol, leg.side = exch[r].side
    PROVE  /\ UNCHANGED book \/ \E q : Booking(r, q)
           /\ is_terminal(rec.status) => /\ exch[r].st = "done"
                                         /\ AlreadyBooked(r + 1)' = exch[r].filled
           /\ \A o \in DOMAIN exch : o # r => AlreadyBooked(o + 1)' = AlreadyBooked(o + 1)
<1>1. r \in DOMAIN exch /\ AlreadyBooked(r + 1) = 0
  BY DEF OrderInv, MapInv, BookInv, AlreadyBooked
<1>2. is_terminal(rec.status) => exch[r].st = "done" /\ rec.filled_qty = exch[r].filled
  BY DEF Truthful, Final
<1>3. CASE rec.filled_qty > 0
  <2>1. Booking(r, rec.filled_qty)
    BY <1>3, RecordBooks DEF BookIfFilled
  <2>2. \A o \in DOMAIN exch :
            AlreadyBooked(o + 1)' = IF r = o THEN rec.filled_qty ELSE AlreadyBooked(o + 1)
    BY <2>1, BookedNow
  <2> QED
    BY <1>1, <1>2, <2>1, <2>2
<1>4. CASE ~(rec.filled_qty > 0)
  <2>1. UNCHANGED book
    BY <1>4 DEF BookIfFilled
  <2>2. \A o \in DOMAIN exch : AlreadyBooked(o + 1)' = AlreadyBooked(o + 1)
    BY <2>1, BookedNow
  <2>3. rec.filled_qty = 0
    BY <1>4 DEF OrderRecord
  <2> QED
    BY <1>1, <1>2, <2>1, <2>2, <2>3
<1> QED
  BY <1>3, <1>4

(* The end of a pair. *)
LEMMA ConcludeSettles ==
    ASSUME OrderInv, PairInv, OwnerInv, BookInv, NEW p \in DOMAIN monitors,
           NEW k, NEW rec, Concludes(p, k, rec)
    PROVE  Turn(OpenLegs(p)) /\ Settlement(OpenLegs(p))
<1>1. PICK r, o, leg : r = monitors[p].id[k] /\ o = monitors[p].id[3 - k]
                       /\ leg = monitors[p].leg[k]
  OBVIOUS
<1>2. /\ k \in {1, 2} /\ rec \in OrderRecord /\ Truthful(r, exch[r], rec)
      /\ AckMayTimeOut \/ is_terminal(rec.status)
      /\ Conclude(p, k, first_status'[p], rec, OpenLegs(p))
  BY <1>1 DEF Concludes
<1>3. /\ p \in Nat /\ monitors[p].id[1] = p /\ monitors[p].id[2] = p + 1
      /\ monitors[p].pc = "first" => OpenLegs(p) = {p, p + 1}
      /\ monitors[p].pc # "first" => OpenLegs(p) = {monitors[p].id[monitors[p].rest]}
      /\ OpenLegs(p) \subseteq DOMAIN orders /\ 3 - k \in {1, 2}
      /\ r \in DOMAIN exch /\ o \in DOMAIN exch
      /\ IsLeg(r, p, leg) /\ IsLeg(o, p, monitors[p].leg[3 - k])
  BY <1>1, <1>2, MonitorLegs DEF OwnerInv
<1>4. /\ monitors[p].pc = "first" => OpenLegs(p) = {r, o} /\ r # o
      /\ monitors[p].pc # "first" => OpenLegs(p) = {r}
  BY <1>1, <1>2, <1>3 DEF Concludes
<1>5. Turn(OpenLegs(p))
  <2>1. PICK n : n = HedgeQty(first_status'[p], rec)
    OBVIOUS
  <2> QED
    BY <2>1, ConcludeTurn DEF OwnerInv
<1>6. BookIfFilled(rec, leg) /\ r \in DOMAIN orders
      /\ leg.symbol = exch[r].symbol /\ leg.side = exch[r].side
  BY <1>1, <1>2, <1>3, <1>4 DEF Conclude, IsLeg
<1>7. /\ UNCHANGED book \/ \E q : Booking(r, q)
      /\ is_terminal(rec.status) => /\ exch[r].st = "done"
                                    /\ AlreadyBooked(r + 1)' = exch[r].filled
      /\ \A j \in DOMAIN exch : j # r => AlreadyBooked(j + 1)' = AlreadyBooked(j + 1)
  BY <1>2, <1>6, LastRecordSettles
<1>8. UNCHANGED book \/ \E j \in OpenLegs(p) : \E q : Booking(j, q)
  BY <1>4, <1>7
<1>9. CASE monitors[p].pc # "first"
  <2>1. first_status' = first_status
    BY <1>9 DEF Concludes
  <2> QED
    BY <1>2, <1>4, <1>5, <1>7, <1>8, <1>9, <2>1 DEF Settlement
<1>10. CASE monitors[p].pc = "first"
  <2>1. PICK first \in OrderRecord :
            /\ Truthful(o, exch[o], first)
            /\ is_terminal(first.status) /\ first.status # "Filled"
            /\ first_status' = Put(first_status, p, first.status)
    BY <1>1, <1>10 DEF Concludes
  <2>2. p \notin DOMAIN first_status
    BY <1>10 DEF PairInv, Monitored
  <2>3. /\ \A q \in DOMAIN first_status : /\ q \in DOMAIN first_status'
                                          /\ first_status'[q] = first_status[q]
        /\ p \in DOMAIN first_status' /\ first_status'[p] = first.status
    BY <2>1, <2>2 DEF Put
  <2>4. /\ o \in DOMAIN orders /\ exch'[o] = exch[o]
        /\ AlreadyBooked(o + 1)' = AlreadyBooked(o + 1)
        /\ ~exch[o].market /\ exch[o].pair = p
    BY <1>3, <1>4, <1>5, <1>7, <1>10 DEF Turn, IsLeg
  <2>5. /\ exch[o].st = "done"
        /\ AlreadyBooked(o + 1)' = exch[o].filled \/ Excused(o)'
    BY <2>1, <2>3, <2>4, FailedLegSettles
  <2> QED
    BY <1>2, <1>4, <1>5, <1>7, <1>8, <1>10, <2>3, <2>5 DEF Settlement
<1> QED
  BY <1>9, <1>10

(* The end of a hedge. *)
LEMMA WatchSettles ==
    ASSUME OrderInv, EveryOrderOwned, BookInv, NEW h \in DOMAIN waiters, watch_hedge(h)
    PROVE  Turn({h}) /\ Settlement({h})
<1>1. PICK rec \in OrderRecord :
          /\ h \in DOMAIN orders
          /\ Truthful(h, exch[h], rec) /\ is_terminal(rec.status)
          /\ BookIfFilled(rec, rec) /\ Turn({h}) /\ exch' = exch
          /\ first_status' = first_status
  BY WatchTurn
<1>2. rec.symbol = exch[h].symbol /\ rec.side = exch[h].side
  BY <1>1 DEF Truthful
<1>3. /\ UNCHANGED book \/ \E q : Booking(h, q)
      /\ is_terminal(rec.status) => /\ exch[h].st = "done"
                                    /\ AlreadyBooked(h + 1)' = exch[h].filled
  BY <1>1, <1>2, LastRecordSettles
<1> QED
  BY <1>1, <1>3 DEF Settlement

(* A turn that releases nothing and leaves book and history alone. *)
LEMMA NothingReleased ==
    ASSUME UNCHANGED <<book, first_status>>
    PROVE  Settlement({})
BY DEF Settlement

-----------------------------------------------------------------------------
(* The hedges.                                                             *)

(* A pair that ended earlier keeps its hedge. *)
LEMMA OldHedges ==
    ASSUME OrderInv, PairInv, HedgeInv, Grows, seq' \in Nat, seq' >= seq, ~AckMayTimeOut,
           NEW p \in DOMAIN first_status \ DOMAIN monitors, first_status[p] = "Filled",
           Hedges(p)' = Hedges(p)
    PROVE  Hedged(p, p + 1, p)' \/ Hedged(p + 1, p, p)'
<1>1. PICK sg \in Signals : PairLegs(p, sg)
  BY DEF PairInv
<1>2. p \in DOMAIN exch /\ p + 1 \in DOMAIN exch
  BY <1>1, LegsGrow
<1>3. PICK q : q = p + 1
  OBVIOUS
<1>4. Hedged(p, q, p) \/ Hedged(q, p, p)
  BY <1>3 DEF HedgeInv
<1>5. Hedged(p, q, p)' \/ Hedged(q, p, p)'
  BY <1>2, <1>3, <1>4, HedgedGrows
<1> QED
  BY <1>3, <1>5

(* A turn that ends no pair and sends no hedge. *)
LEMMA TurnKeepsHedges ==
    ASSUME OrderInv, PairInv, HedgeInv, NEW R, Turn(R), \A p : Hedges(p)' = Hedges(p),
           DOMAIN monitors \subseteq DOMAIN monitors',
           DOMAIN first_status' \subseteq DOMAIN first_status \cup DOMAIN monitors,
           \A p \in DOMAIN first_status \ DOMAIN monitors : first_status'[p] = first_status[p]
    PROVE  HedgeInv'
<1>1. Grows /\ seq' \in Nat /\ seq' >= seq
  BY TurnPairs
<1>2. SUFFICES ASSUME ~AckMayTimeOut, NEW p \in DOMAIN first_status' \ DOMAIN monitors',
                      first_status'[p] = "Filled"
               PROVE  Hedged(p, p + 1, p)' \/ Hedged(p + 1, p, p)'
  BY DEF HedgeInv
<1>3. p \in DOMAIN first_status \ DOMAIN monitors /\ first_status[p] = "Filled"
  BY <1>2
<1> QED
  BY <1>1, <1>2, <1>3, OldHedges

(* The end of a pair whose first leg filled: the market order makes up for *)
(* exactly what the other leg lacks.                                       *)
LEMMA ConcludeKeepsHedges ==
    ASSUME OrderInv, PairInv, OwnerInv, HedgeInv, NEW p \in DOMAIN monitors,
           NEW k, NEW rec, Concludes(p, k, rec)
    PROVE  HedgeInv'
<1>0. PICK n, h, r, f : /\ n = HedgeQty(first_status'[p], rec) /\ h = seq
                        /\ r = monitors[p].id[k] /\ f = monitors[p].id[3 - k]
  OBVIOUS
<1>1. /\ n \in Nat /\ Turn(OpenLegs(p)) /\ monitors' = Drop(monitors, p)
      /\ n = 0 => DOMAIN exch' = DOMAIN exch
      /\ n > 0 => /\ DOMAIN exch' = DOMAIN exch \cup {h}
                  /\ exch'[h].market /\ exch'[h].pair = p
                  /\ exch'[h].symbol = monitors[p].leg[k].symbol /\ exch'[h].qty = n
  BY <1>0, ConcludeTurn DEF OwnerInv
<1>2. /\ Grows /\ seq' \in Nat /\ seq' >= seq
      /\ \A q : Hedges(q) = { o \in DOMAIN exch : exch'[o].market /\ exch'[o].pair = q }
  BY <1>1, TurnPairs
<1>3. \A q : q # p => Hedges(q)' = Hedges(q)
  BY <1>1, <1>2 DEF Hedges
<1>4. SUFFICES ASSUME ~AckMayTimeOut, NEW q \in DOMAIN first_status' \ DOMAIN monitors',
                      first_status'[q] = "Filled"
               PROVE  Hedged(q, q + 1, q)' \/ Hedged(q + 1, q, q)'
  BY DEF HedgeInv
<1>5. CASE q # p
  <2>1. /\ q \in DOMAIN first_status /\ first_status'[q] = first_status[q]
        /\ q \notin DOMAIN monitors
    BY <1>1, <1>4, <1>5 DEF Concludes, Put, Drop
  <2> QED
    BY <1>2, <1>3, <1>4, <1>5, <2>1, OldHedges
<1>6. CASE q = p
  <2>1. /\ k \in {1, 2} /\ rec \in OrderRecord /\ Truthful(r, exch[r], rec)
        /\ is_terminal(rec.status)
    BY <1>0, <1>4 DEF Concludes
  <2>2. monitors[p].pc # "first" /\ k = monitors[p].rest /\ first_status' = first_status
    <3>1. monitors[p].pc = "first" => first_status'[p] # "Filled"
      BY DEF Concludes, Put
    <3> QED
      BY <1>4, <1>6, <3>1 DEF Concludes
  <2>3. /\ {f, r} = {p, p + 1} /\ r \in DOMAIN exch /\ f \in DOMAIN exch
        /\ exch[r].symbol = monitors[p].leg[k].symbol
    BY <1>0, <2>1, MonitorLegs DEF OwnerInv, IsLeg
  <2>4. exch[f].filled = exch[f].qty /\ Hedges(p) = {}
    <3>1. Monitored(p)
      BY DEF PairInv
    <3> QED
      BY <1>0, <1>4, <1>6, <2>2, <3>1 DEF Monitored
  <2>5. exch[r].st = "done"
    BY <2>1 DEF Truthful, Final
  <2>6. /\ exch[r] \in XOrderType /\ Sound(exch[r])
        /\ exch'[r] = exch[r] /\ exch'[f] = exch[f]
    BY <1>1, <2>3 DEF OrderInv, MapInv, ExchInv, Turn
  <2>7. n = exch[r].qty - exch[r].filled
    BY <1>0, <1>4, <1>6, <2>1, <2>6, HedgeSize
  <2>8. exch[r].qty \in Nat /\ exch[r].filled \in Nat
    BY <2>6 DEF XOrderType
  <2>9. n = 0 => Hedges(p)' = {}
    BY <1>1, <1>2, <2>4 DEF Hedges
  <2>10. n > 0 => Hedges(p)' = {h} /\ h \in DOMAIN exch'
    BY <1>1, <1>2, <2>4 DEF Hedges
  <2>11. Hedged(f, r, p)'
    <3>1. CASE n = 0
      <4>1. exch[r].filled = exch[r].qty
        BY <2>7, <2>8, <3>1
      <4> QED
        BY <2>4, <2>5, <2>6, <2>9, <3>1, <4>1 DEF Hedged
    <3>2. CASE n > 0
      <4>1. exch[r].filled # exch[r].qty
        BY <2>7, <2>8, <3>2
      <4> QED
        BY <1>1, <2>3, <2>4, <2>5, <2>6, <2>7, <2>10, <3>2, <4>1 DEF Hedged
    <3> QED
      BY <1>1, <3>1, <3>2
  <2>12. (f = p /\ r = p + 1) \/ (f = p + 1 /\ r = p)
    BY <2>3
  <2> QED
    BY <1>6, <2>11, <2>12
<1> QED
  BY <1>5, <1>6

-----------------------------------------------------------------------------
(* The invariant is inductive.                                             *)

(* Delivery keeps the reject counter and the halt together: the counter    *)
(* reaches its limit only by the rejection that halts the engine, and      *)
(* nothing clears the halt when the counter is reset.                      *)
LEMMA DeliverKeepsBreaker ==
    ASSUME BreakerInv, NEW o \in DOMAIN exch, Deliver(o)
    PROVE  BreakerInv'
<1>1. \/ UNCHANGED breaker
      \/ \E status :
            /\ CountReject(status)
            /\ tripped' = (tripped \/ consecutive_rejects' >= kMaxConsecutiveRejects)
  BY DEF Deliver, apply_update, dispatch_update
<1>2. CASE UNCHANGED breaker
  BY <1>2 DEF BreakerInv, breaker
<1>3. ASSUME NEW status, CountReject(status),
             tripped' = (tripped \/ consecutive_rejects' >= kMaxConsecutiveRejects)
      PROVE  BreakerInv'
  <2>1. halted' = \/ halted
                  \/ /\ status = "Rejected"
                     /\ consecutive_rejects' >= kMaxConsecutiveRejects
    BY <1>3 DEF CountReject
  <2>2. /\ halted' \in BOOLEAN /\ (halted => halted')
        /\ tripped' \in BOOLEAN
        /\ tripped' => tripped \/ consecutive_rejects' >= kMaxConsecutiveRejects
    BY <1>3, <2>1
  <2>3. kMaxConsecutiveRejects \in Nat \ {0}
    BY EngineAssumption
  <2>4. /\ consecutive_rejects' \in Nat
        /\ consecutive_rejects' >= kMaxConsecutiveRejects => halted'
    <3>1. CASE status = "Rejected"
      <4>1. consecutive_rejects' = consecutive_rejects + 1
        BY <1>3, <3>1 DEF CountReject
      <4>2. consecutive_rejects' \in Nat
        BY <4>1 DEF BreakerInv
      <4>3. consecutive_rejects' >= kMaxConsecutiveRejects => halted'
        BY <2>1, <3>1
      <4> QED
        BY <4>2, <4>3
    <3>2. CASE status # "Rejected" /\ status \in {"Open", "Filled"}
      <4>1. consecutive_rejects' = 0
        BY <1>3, <3>2 DEF CountReject
      <4> QED
        BY <2>3, <4>1
    <3>3. CASE status # "Rejected" /\ status \notin {"Open", "Filled"}
      <4>1. consecutive_rejects' = consecutive_rejects
        BY <1>3, <3>3 DEF CountReject
      <4> QED
        BY <2>2, <4>1 DEF BreakerInv
    <3> QED
      BY <3>1, <3>2, <3>3
  <2>5. tripped' => halted'
    BY <2>2, <2>4 DEF BreakerInv
  <2> QED
    BY <2>2, <2>4, <2>5 DEF BreakerInv
<1> QED
  BY <1>1, <1>2, <1>3

(* A quiet step keeps everything. *)
LEMMA QuietStep ==
    ASSUME IInv, OrderInv', Quiet, BreakerInv'
    PROVE  IInv'
<1>1. PairInv'
  BY QuietKeepsPairs DEF IInv
<1>2. OwnerInv'
  BY QuietKeepsOwners DEF IInv
<1>3. BookInv'
  BY QuietKeepsBook DEF IInv
<1>4. ReleaseInv'
  BY QuietKeepsReleased DEF IInv
<1>5. HedgeInv'
  BY QuietKeepsHedges DEF IInv
<1> QED
  BY <1>1, <1>2, <1>3, <1>4, <1>5 DEF IInv

(* So does a turn that only touches channels and cancel requests. *)
LEMMA QuietTurn ==
    ASSUME IInv, Turn({}), seq' = seq, exch' = exch, DOMAIN orders' = DOMAIN orders,
           UNCHANGED <<monitors, watchers, inflight_symbols, book, first_status, breaker>>
    PROVE  IInv'
<1>1. OrderInv /\ BreakerInv
  BY DEF IInv
<1>2. OrderInv' /\ Grows
  BY <1>1, TurnKeepsOrders, TurnGrows
<1>3. DOMAIN waiters' = DOMAIN waiters
  BY <1>1, <1>2 DEF OrderInv, MapInv
<1>4. Quiet
  BY <1>2, <1>3 DEF Quiet
<1>5. BreakerInv'
  BY <1>1 DEF BreakerInv, breaker
<1> QED
  BY <1>2, <1>4, <1>5, QuietStep

(* The steps outside of the engine's coroutines. *)
LEMMA MarketKeeps ==
    ASSUME IInv, NEW o \in DOMAIN exch, Exchange(o) \/ Deliver(o)
    PROVE  IInv'
<1>1. OrderInv /\ BreakerInv
  BY DEF IInv
<1>2. CASE Exchange(o)
  <2>1. PICK x, r : ExchangeStep(o, x, r)
    BY <1>1, <1>2, ExchangeSteps DEF OrderInv
  <2>2. OrderInv' /\ Quiet /\ UNCHANGED breaker
    BY <1>1, <2>1, ExchangeKeepsOrders, ExchangeGrows
  <2>3. BreakerInv'
    BY <1>1, <2>2 DEF BreakerInv, breaker
  <2> QED
    BY <2>2, <2>3, QuietStep
<1>3. CASE Deliver(o)
  <2>1. OrderInv' /\ DOMAIN orders' = DOMAIN orders
    BY <1>1, <1>3, DeliverKeepsOrders
  <2>2. BreakerInv'
    BY <1>1, <1>3, DeliverKeepsBreaker
  <2>3. UNCHANGED <<seq, monitors, watchers, inflight_symbols, book, exch, first_status>>
    BY <1>3 DEF Deliver
  <2>4. DOMAIN waiters' = DOMAIN waiters
    BY <1>1, <2>1 DEF OrderInv, MapInv
  <2>5. Grows
    <3>1. \A k \in DOMAIN exch : exch[k].filled >= exch[k].filled
      <4>1. \A k \in DOMAIN exch : exch[k].filled \in Nat
        BY <1>1 DEF OrderInv, MapInv, XOrderType
      <4> QED
        BY <4>1
    <3> QED
      BY <2>3, <3>1 DEF Grows
  <2>6. Quiet
    BY <2>1, <2>3, <2>4, <2>5 DEF Quiet
  <2> QED
    BY <2>1, <2>2, <2>6, QuietStep
<1> QED
  BY <1>2, <1>3

(* A turn that settles what it releases: what is left to show is what it   *)
(* does to the pairs, to the owners and to the hedges.                     *)
LEMMA SettledTurn ==
    ASSUME IInv, NEW R, Turn(R), Settlement(R), UNCHANGED breaker,
           PairInv', OwnerInv', HedgeInv'
    PROVE  IInv'
<1>1. OrderInv /\ BookInv /\ ReleaseInv /\ BreakerInv
  BY DEF IInv
<1>2. OrderInv'
  BY <1>1, TurnKeepsOrders
<1>3. UNCHANGED book \/ \E o \in R : \E q : Booking(o, q)
  BY DEF Settlement
<1>4. BookInv'
  BY <1>1, <1>2, <1>3, TurnKeepsBook
<1>5. ReleaseInv'
  BY <1>1, TurnKeepsReleased
<1>6. BreakerInv'
  BY <1>1 DEF BreakerInv, breaker
<1> QED
  BY <1>2, <1>4, <1>5, <1>6 DEF IInv

(* on_signal. *)
LEMMA SignalKeeps ==
    ASSUME IInv, NEW sg \in Signals, on_signal(sg)
    PROVE  IInv'
<1>1. OrderInv /\ PairInv /\ OwnerInv /\ HedgeInv
  BY DEF IInv
<1>2. Turn({}) /\ UNCHANGED <<book, first_status, breaker>>
  BY <1>1, SignalTurn
<1>3. Settlement({})
  BY <1>2, NothingReleased
<1>4. PairInv' /\ OwnerInv' /\ \A p : Hedges(p)' = Hedges(p)
  BY <1>1, SignalKeepsPairs, SignalKeepsOwners, SignalHedges
<1>5. DOMAIN monitors \subseteq DOMAIN monitors'
  BY DEF on_signal, Put
<1>6. HedgeInv'
  BY <1>1, <1>2, <1>4, <1>5, TurnKeepsHedges
<1> QED
  BY <1>2, <1>3, <1>4, <1>6, SettledTurn

(* The steps of monitor_pair. *)
LEMMA MonitorKeeps ==
    ASSUME IInv, NEW p \in DOMAIN monitors, Monitor(p)
    PROVE  IInv' /\ DOMAIN monitors' \subseteq DOMAIN monitors
<1>1. OrderInv /\ PairInv /\ OwnerInv /\ BookInv /\ HedgeInv /\ EveryOrderOwned
  BY DEF IInv, OwnerInv
<1>2. ASSUME NEW i, NEW rec, NEW pc, FirstSettles(p, i, rec, pc)
      PROVE  IInv' /\ DOMAIN monitors' \subseteq DOMAIN monitors
  <2>1. PICK o : o = monitors[p].id[i]
    OBVIOUS
  <2>2. Turn({o}) /\ Settlement({o})
    BY <1>1, <1>2, <2>1, SettleSettles
  <2>3. PairInv' /\ OwnerInv'
    BY <1>1, <1>2, SettleKeepsPairs, SettleKeepsOwners
  <2>4. /\ exch' = exch /\ UNCHANGED breaker
        /\ monitors' = [monitors EXCEPT ![p].pc = pc, ![p].rest = 3 - i]
        /\ first_status' = Put(first_status, p, rec.status)
    BY <1>2 DEF FirstSettles
  <2>5. DOMAIN monitors' = DOMAIN monitors
    BY <2>4
  <2>6. /\ DOMAIN first_status' \subseteq DOMAIN first_status \cup DOMAIN monitors
        /\ \A q \in DOMAIN first_status \ DOMAIN monitors : first_status'[q] = first_status[q]
    BY <2>4 DEF Put
  <2>7. \A q : Hedges(q)' = Hedges(q)
    BY <2>4 DEF Hedges
  <2>8. HedgeInv'
    BY <1>1, <2>2, <2>5, <2>6, <2>7, TurnKeepsHedges
  <2> QED
    BY <2>2, <2>3, <2>4, <2>5, <2>8, SettledTurn
<1>3. ASSUME NEW k, NEW rec, Concludes(p, k, rec)
      PROVE  IInv' /\ DOMAIN monitors' \subseteq DOMAIN monitors
  <2>1. Turn(OpenLegs(p)) /\ Settlement(OpenLegs(p))
    BY <1>1, <1>3, ConcludeSettles
  <2>2. PairInv' /\ OwnerInv' /\ HedgeInv'
    BY <1>1, <1>3, ConcludeKeepsPairs, ConcludeKeepsOwners, ConcludeKeepsHedges
  <2>3. UNCHANGED breaker /\ monitors' = Drop(monitors, p)
    BY <1>3 DEF Concludes, Conclude, ReleaseHedgeAndEnd
  <2>4. DOMAIN monitors' \subseteq DOMAIN monitors
    BY <2>3 DEF Drop
  <2>5. PICK R : R = OpenLegs(p)
    OBVIOUS
  <2>6. Turn(R) /\ Settlement(R)
    BY <2>1, <2>5
  <2> QED
    BY <2>2, <2>3, <2>4, <2>6, SettledTurn
<1>4. ASSUME AwaitsCancel(p)
      PROVE  IInv' /\ DOMAIN monitors' \subseteq DOMAIN monitors
  <2>1. /\ Turn({}) /\ exch' = exch /\ UNCHANGED <<book, first_status, breaker>>
        /\ monitors' = [monitors EXCEPT ![p].pc = "ack"]
    BY <1>4 DEF AwaitsCancel
  <2>2. Settlement({})
    BY <2>1, NothingReleased
  <2>3. PairInv' /\ OwnerInv'
    BY <1>1, <1>4, AwaitKeepsPairs, AwaitKeepsOwners
  <2>4. DOMAIN monitors' = DOMAIN monitors /\ \A q : Hedges(q)' = Hedges(q)
    BY <2>1 DEF Hedges
  <2>5. HedgeInv'
    BY <1>1, <2>1, <2>4, TurnKeepsHedges
  <2> QED
    BY <2>1, <2>2, <2>3, <2>4, <2>5, SettledTurn
<1> QED
  BY <1>1, <1>2, <1>3, <1>4, MonitorSteps

(* watch_hedge. *)
LEMMA WatchKeeps ==
    ASSUME IInv, NEW h \in DOMAIN waiters, watch_hedge(h)
    PROVE  IInv'
<1>1. OrderInv /\ PairInv /\ OwnerInv /\ BookInv /\ HedgeInv /\ EveryOrderOwned
  BY DEF IInv, OwnerInv
<1>2. Turn({h}) /\ Settlement({h})
  BY <1>1, WatchSettles
<1>3. PairInv' /\ OwnerInv'
  BY <1>1, WatchKeepsPairs, WatchKeepsOwners
<1>4. UNCHANGED <<exch, monitors, first_status, breaker>>
  BY DEF watch_hedge, market
<1>5. \A q : Hedges(q)' = Hedges(q)
  BY <1>4 DEF Hedges
<1>6. HedgeInv'
  BY <1>1, <1>2, <1>4, <1>5, TurnKeepsHedges
<1> QED
  BY <1>2, <1>3, <1>4, <1>6, SettledTurn

(* The engine starts with nothing. *)
LEMMA InitInv ==
    ASSUME Init
    PROVE  IInv
<1>1. /\ seq = 0 /\ watchers = {} /\ inflight_symbols = {} /\ cancels = {}
      /\ DOMAIN orders = {} /\ DOMAIN waiters = {} /\ DOMAIN monitors = {}
      /\ DOMAIN exch = {} /\ DOMAIN reports = {} /\ DOMAIN first_status = {}
      /\ DOMAIN last_filled = {} /\ position = [s \in Symbols |-> 0]
      /\ halted = FALSE /\ consecutive_rejects = 0 /\ tripped = FALSE
  BY DEF Init, Empty
<1>2. OrderInv
  <2>1. 0 \in 0..MaxOrders /\ 0..(0 - 1) = {}
    BY EngineAssumption
  <2> QED
    BY <1>1, <2>1 DEF OrderInv, MapInv, ExchInv, RecordInv, ReportInv
<1>3. PairInv /\ ReleaseInv /\ HedgeInv
  BY <1>1 DEF PairInv, ReleaseInv, Released, HedgeInv
<1>4. OwnerInv
  <2>1. EveryOrderOwned /\ OnePairPerSymbol
    BY <1>1 DEF EveryOrderOwned, OnePairPerSymbol
  <2>2. AtMostOneOverLimit
    BY <1>1, FS_EmptySet, EngineAssumption DEF AtMostOneOverLimit
  <2> QED
    BY <2>1, <2>2 DEF OwnerInv
<1>5. BookInv
  <2>1. \A s, side : On(s, side) = {}
    BY <1>1 DEF On
  <2>2. \A w : Total(w, {}) = 0
    BY TotalStep, FS_EmptySet
  <2>3. ASSUME NEW s \in Symbols
        PROVE  position[s] = Total(Booked, On(s, "Buy")) - Total(Booked, On(s, "Sell"))
    <3>1. Total(Booked, On(s, "Buy")) = 0 /\ Total(Booked, On(s, "Sell")) = 0
      BY <2>1, <2>2
    <3>2. position[s] = 0
      BY <1>1
    <3> QED
      BY <3>1, <3>2
  <2>4. position \in [Symbols -> Int]
    BY <1>1
  <2> QED
    BY <1>1, <2>3, <2>4 DEF BookInv
<1>6. BreakerInv
  <2>1. halted \in BOOLEAN /\ tripped \in BOOLEAN /\ ~tripped
    BY <1>1
  <2>2. consecutive_rejects \in Nat /\ ~(consecutive_rejects >= kMaxConsecutiveRejects)
    BY <1>1, EngineAssumption
  <2> QED
    BY <2>1, <2>2 DEF BreakerInv
<1> QED
  BY <1>2, <1>3, <1>4, <1>5, <1>6 DEF IInv

(* No step breaks the invariant. *)
LEMMA StepInv ==
    ASSUME IInv, [Next]_vars
    PROVE  IInv'
<1>1. OrderInv
  BY DEF IInv
<1>2. ASSUME NEW sg \in Signals, on_signal(sg) PROVE IInv'
  BY <1>2, SignalKeeps
<1>3. ASSUME NEW o \in DOMAIN exch, Exchange(o) \/ Deliver(o) PROVE IInv'
  BY <1>3, MarketKeeps
<1>4. ASSUME NEW o \in DOMAIN waiters, SkipUpdate(o) PROVE IInv'
  <2>1. /\ Turn({}) /\ seq' = seq /\ exch' = exch /\ DOMAIN orders' = DOMAIN orders
        /\ UNCHANGED <<monitors, watchers, inflight_symbols, book, first_status, breaker>>
    BY <1>1, <1>4, SkipTurn
  <2> QED
    BY <2>1, QuietTurn
<1>5. ASSUME NEW o \in DOMAIN waiters, watch_hedge(o) PROVE IInv'
  BY <1>5, WatchKeeps
<1>6. ASSUME NEW p \in DOMAIN monitors, Monitor(p) PROVE IInv'
  BY <1>6, MonitorKeeps
<1>7. ASSUME NEW young, Sweep(young) PROVE IInv'
  <2>1. /\ Turn({}) /\ seq' = seq /\ exch' = exch /\ DOMAIN orders' = DOMAIN orders
        /\ UNCHANGED <<monitors, watchers, inflight_symbols, book, first_status, breaker>>
    BY <1>1, <1>7, SweepTurn
  <2> QED
    BY <2>1, QuietTurn
<1>8. CASE UNCHANGED vars
  <2>1. UNCHANGED <<seq, orders, waiters, monitors, watchers, inflight_symbols, halted,
                    consecutive_rejects, tripped, last_filled, position, exch, cancels, reports,
                    first_status>>
    BY <1>8 DEF vars, engine, breaker, book, market
  <2>2. \A o \in DOMAIN orders : waiters'[o] = waiters[o] \/ waiters'[o] = LoseRace(waiters[o])
    BY <2>1
  <2>3. seq..(seq' - 1) = {} /\ seq' \in seq..MaxOrders
    BY <1>1, <2>1, EngineAssumption DEF OrderInv, MapInv
  <2>4. Turn({})
    BY <1>1, <2>1, <2>2, <2>3 DEF Turn, OrderInv, MapInv
  <2> QED
    BY <2>1, <2>4, QuietTurn DEF book, breaker
<1> QED
  BY <1>2, <1>3, <1>4, <1>5, <1>6, <1>7, <1>8 DEF Next

-----------------------------------------------------------------------------
(* What the invariant says.                                                *)

(* Types. *)
LEMMA InvTypes ==
    ASSUME IInv
    PROVE  TypeOK
<1>1. OrderInv /\ PairInv /\ OwnerInv /\ BookInv /\ BreakerInv /\ EveryOrderOwned
      /\ OnePairPerSymbol
  BY DEF IInv, OwnerInv
<1>2. /\ seq \in 0..MaxOrders /\ seq \in Nat /\ MaxOrders \in Nat
      /\ DOMAIN exch = 0..(seq - 1) /\ DOMAIN reports = DOMAIN exch
      /\ DOMAIN orders \subseteq DOMAIN exch /\ DOMAIN waiters = DOMAIN orders
      /\ \A o \in DOMAIN orders : /\ orders[o] \in OrderRecord
                                  /\ waiters[o] \in Seq(OrderRecord)
                                  /\ Len(waiters[o]) <= kChanBuffer + 1
      /\ cancels \subseteq DOMAIN exch
  BY <1>1, EngineAssumption DEF OrderInv, MapInv
<1>3. DOMAIN exch \subseteq Ids
  <2>1. \A m, n \in Nat : m <= n => 0..(m - 1) \subseteq 0..(n - 1)
    OBVIOUS
  <2>2. seq <= MaxOrders
    BY <1>2
  <2> QED
    BY <1>2, <2>1, <2>2 DEF Ids
<1>4. ASSUME NEW p \in DOMAIN monitors
      PROVE  p \in Ids /\ monitors[p] \in Monitor_ /\ MonitorSymbols(p) \subseteq Symbols
  <2>1. /\ p \in DOMAIN exch /\ p + 1 \in DOMAIN exch /\ monitors[p] \in Coroutine
        /\ monitors[p].id[1] = p /\ monitors[p].id[2] = p + 1
        /\ \A k \in {1, 2} : monitors[p].leg[k].symbol \in Symbols
    BY <1>1, MonitorLegs
  <2>2. p \in Ids /\ p + 1 \in Ids
    BY <1>3, <2>1
  <2>3. monitors[p].id \in Ids \X Ids
    <3>1. monitors[p].id \in Nat \X Nat
      BY <2>1 DEF Coroutine
    <3>2. monitors[p].id = <<p, p + 1>>
      BY <2>1, <3>1
    <3> QED
      BY <2>2, <3>2
  <2>4. monitors[p] \in Monitor_
    BY <2>1, <2>3 DEF Coroutine, Monitor_
  <2> QED
    BY <2>1, <2>2, <2>4 DEF MonitorSymbols
<1>5. watchers \subseteq Ids
  BY <1>1, <1>2, <1>3 DEF EveryOrderOwned
<1>6. inflight_symbols \subseteq Symbols
  BY <1>1, <1>4 DEF OnePairPerSymbol
<1>7. DOMAIN last_filled \subseteq 0..MaxOrders
  <2>1. \A m, n \in Nat : m <= n => 1..m \subseteq 0..n
    OBVIOUS
  <2>2. seq <= MaxOrders
    BY <1>2
  <2> QED
    BY <1>1, <1>2, <2>1, <2>2 DEF BookInv
<1> QED
  BY <1>1, <1>2, <1>3, <1>4, <1>5, <1>6, <1>7 DEF TypeOK, BookInv, BreakerInv

(* The orders on one symbol and side are finitely many, and what is booked *)
(* for them and what they executed are natural numbers.                    *)
LEMMA SumsDefined ==
    ASSUME IInv, NEW s, NEW side
    PROVE  /\ IsFiniteSet(On(s, side)) /\ On(s, side) \subseteq DOMAIN exch
           /\ \A o \in On(s, side) : /\ Booked[o] = AlreadyBooked(o + 1)
                                     /\ Booked[o] \in Nat /\ Booked[o] <= exch[o].filled
                                     /\ Fills[o] = exch[o].filled /\ exch[o].filled \in Nat
           /\ Executed(On(s, side)) = Total(Fills, On(s, side))
<1>1. OrderInv /\ BookInv
  BY DEF IInv
<1>2. IsFiniteSet(DOMAIN exch) /\ On(s, side) \subseteq DOMAIN exch
  BY <1>1, OrdersFinite DEF On
<1>3. IsFiniteSet(On(s, side))
  BY <1>2, FS_Subset
<1>4. ASSUME NEW o \in DOMAIN exch
      PROVE  /\ Booked[o] = AlreadyBooked(o + 1)
             /\ Booked[o] \in Nat /\ Booked[o] <= exch[o].filled
             /\ Fills[o] = exch[o].filled /\ exch[o].filled \in Nat
  <2>1. AlreadyBooked(o + 1) \in Nat /\ AlreadyBooked(o + 1) <= exch[o].filled
    BY <1>1 DEF BookInv, AlreadyBooked
  <2>2. exch[o].filled \in Nat
    BY <1>1 DEF OrderInv, MapInv, XOrderType
  <2> QED
    BY <2>1, <2>2 DEF Booked, Fills
<1>5. Executed(On(s, side)) = Total(Fills, On(s, side))
  BY <1>2, <1>3, ExecutedIsTotal
<1> QED
  BY <1>2, <1>3, <1>4, <1>5

(* The position is a sum of parts of fills. *)
LEMMA InvBookedWithinFills ==
    ASSUME IInv
    PROVE  BookedWithinFills
<1>1. ASSUME NEW s, NEW side
      PROVE  /\ Total(Booked, On(s, side)) \in Int /\ Executed(On(s, side)) \in Int
             /\ 0 <= Total(Booked, On(s, side))
             /\ Total(Booked, On(s, side)) <= Executed(On(s, side))
  <2>1. PICK S, w, v, z : /\ S = On(s, side) /\ w = Booked /\ v = Fills
                          /\ z = [o \in DOMAIN exch |-> 0]
    OBVIOUS
  <2>2. /\ IsFiniteSet(S) /\ Executed(S) = Total(v, S)
        /\ \A o \in S : w[o] \in Int /\ v[o] \in Int /\ z[o] \in Int
        /\ \A o \in S : w[o] <= v[o]
        /\ \A o \in S : z[o] <= w[o]
        /\ \A o \in S : z[o] = 0
    BY <2>1, SumsDefined
  <2>3. Total(w, S) \in Int /\ Total(v, S) \in Int
    BY <2>2, TotalStep
  <2>4. Total(w, S) <= Total(v, S) /\ Total(z, S) <= Total(w, S)
    BY <2>2, TotalMonotone
  <2>5. Total(z, S) = 0
    <3>1. IsFiniteSet({}) /\ {} \in SUBSET S
      BY FS_EmptySet
    <3>2. Total(z, {}) = 0
      BY <3>1, TotalStep
    <3>3. Total(z, S) = Total(z, {})
      BY <2>2, <3>1, TotalPad
    <3> QED
      BY <3>2, <3>3
  <2> QED
    BY <2>1, <2>2, <2>3, <2>4, <2>5
<1>2. \A s \in Symbols :
          position[s] = Total(Booked, On(s, "Buy")) - Total(Booked, On(s, "Sell"))
  BY DEF IInv, BookInv
<1>3. ASSUME NEW s \in Symbols
      PROVE  position[s] <= Executed(On(s, "Buy")) /\ position[s] >= -Executed(On(s, "Sell"))
  BY <1>1, <1>2
<1> QED
  BY <1>3 DEF BookedWithinFills

(* Released orders are done and, without excuse, booked. *)
LEMMA InvReleased ==
    ASSUME IInv, ~AckMayTimeOut
    PROVE  ReleasedOnlyWhenTerminal /\ FilledOrdersBooked
<1>1. OrderInv /\ ReleaseInv
  BY DEF IInv
<1>2. ASSUME NEW o \in Released
      PROVE  /\ exch[o].st = "done"
             /\ AlreadyBooked(o + 1) = exch[o].filled \/ Excused(o)
  BY <1>1 DEF ReleaseInv
<1>3. ASSUME NEW o \in Released, exch[o].filled = exch[o].qty
      PROVE  o + 1 \in DOMAIN last_filled /\ last_filled[o + 1] = exch[o].qty
  <2>1. exch[o].qty \in Nat \ {0}
    BY <1>1 DEF OrderInv, MapInv, XOrderType, Released
  <2>2. ~Excused(o)
    BY <1>3, <2>1 DEF Excused
  <2>3. AlreadyBooked(o + 1) = exch[o].qty /\ exch[o].qty # 0
    BY <1>2, <1>3, <2>1, <2>2
  <2> QED
    BY <2>3 DEF AlreadyBooked
<1> QED
  BY <1>2, <1>3 DEF ReleasedOnlyWhenTerminal, FilledOrdersBooked

(* With every order released and none excused, all fills are booked. *)
LEMMA InvQuiescent ==
    ASSUME IInv, ~AckMayTimeOut
    PROVE  QuiescentBookExact
<1>1. SUFFICES ASSUME DOMAIN monitors = {}, watchers = {},
                      \A p \in DOMAIN first_status : first_status[p] # "Canceled",
                      NEW s \in Symbols
               PROVE  position[s] = Executed(On(s, "Buy")) - Executed(On(s, "Sell"))
  BY DEF QuiescentBookExact
<1>2. DOMAIN orders = {}
  BY <1>1, OwnedOrders DEF IInv, OwnerInv
<1>3. ASSUME NEW o \in DOMAIN exch PROVE AlreadyBooked(o + 1) = exch[o].filled
  <2>1. o \in Released /\ ~Excused(o)
    BY <1>1, <1>2 DEF Released, Excused
  <2> QED
    BY <2>1 DEF IInv, ReleaseInv
<1>4. ASSUME NEW side PROVE Total(Booked, On(s, side)) = Executed(On(s, side))
  <2>1. PICK S, w, v : S = On(s, side) /\ w = Booked /\ v = Fills
    OBVIOUS
  <2>2. /\ IsFiniteSet(S) /\ Executed(S) = Total(v, S)
        /\ \A o \in S : w[o] = v[o]
    BY <1>3, <2>1, SumsDefined
  <2>3. Total(w, S) = Total(v, S)
    BY <2>2, TotalAgree
  <2> QED
    BY <2>1, <2>2, <2>3
<1>5. position[s] = Total(Booked, On(s, "Buy")) - Total(Booked, On(s, "Sell"))
  BY DEF IInv, BookInv
<1> QED
  BY <1>4, <1>5

(* The total of one fill and of two. *)
LEMMA ExecutedFew ==
    ASSUME OrderInv, NEW a \in DOMAIN exch
    PROVE  /\ Executed({a}) = exch[a].filled
           /\ \A b \in DOMAIN exch : b # a => Executed({a, b}) = exch[a].filled + exch[b].filled
<1>1. PICK v : v = Fills
  OBVIOUS
<1>2. \A o \in DOMAIN exch : v[o] = exch[o].filled /\ v[o] \in Int
  BY <1>1 DEF Fills, OrderInv, MapInv, XOrderType
<1>3. Total(v, {}) = 0 /\ IsFiniteSet({})
  BY FS_EmptySet, TotalStep
<1>4. ASSUME NEW x \in DOMAIN exch
      PROVE  Total(v, {x}) = v[x] /\ IsFiniteSet({x}) /\ Executed({x}) = Total(v, {x})
  <2>1. IsFiniteSet({x}) /\ {x} \subseteq DOMAIN exch
    BY FS_Singleton
  <2>2. Total(v, {x}) = v[x] + Total(v, {x} \ {x})
    BY <1>2, <2>1, TotalStep
  <2>3. {x} \ {x} = {}
    OBVIOUS
  <2>4. Executed({x}) = Total(v, {x})
    BY <1>1, <2>1, ExecutedIsTotal
  <2>5. Total(v, {x} \ {x}) = 0
    BY <1>3, <2>3
  <2>6. Total(v, {x}) = v[x]
    BY <1>2, <2>2, <2>5
  <2> QED
    BY <2>1, <2>4, <2>6
<1>5. ASSUME NEW b \in DOMAIN exch, b # a
      PROVE  Executed({a, b}) = exch[a].filled + exch[b].filled
  <2>1. IsFiniteSet({a, b}) /\ {a, b} \subseteq DOMAIN exch
    <3>1. {a, b} = {a} \cup {b}
      OBVIOUS
    <3>2. IsFiniteSet({a} \cup {b})
      BY <1>4, FS_AddElement
    <3> QED
      BY <3>1, <3>2
  <2>2. Total(v, {a, b}) = v[a] + Total(v, {a, b} \ {a})
    BY <1>2, <2>1, TotalStep
  <2>3. {a, b} \ {a} = {b}
    BY <1>5
  <2>4. Executed({a, b}) = Total(v, {a, b})
    BY <1>1, <2>1, ExecutedIsTotal
  <2> QED
    BY <1>2, <1>4, <2>2, <2>3, <2>4
<1> QED
  BY <1>2, <1>4, <1>5

(* A filled leg f and a hedged leg k of pair p both executed in full. *)
LEMMA HedgedIsComplete ==
    ASSUME OrderInv, NEW p, NEW f \in DOMAIN exch, NEW k \in DOMAIN exch,
           Hedged(f, k, p), exch[f].symbol # exch[k].symbol,
           \A o \in DOMAIN exch : exch[o].pair = p <=> o \in {f, k} \cup Hedges(p),
           \A h \in Hedges(p) : exch[h].filled = exch[h].qty,
           f \notin Hedges(p), k \notin Hedges(p)
    PROVE  /\ Executed(OrdersOn(p, exch[f].symbol)) = exch[f].qty
           /\ Executed(OrdersOn(p, exch[k].symbol)) = exch[k].qty
<1>1. /\ exch[f].filled = exch[f].qty
      /\ exch[f].qty \in Nat /\ exch[k].qty \in Nat /\ exch[k].filled \in Nat
  BY DEF Hedged, OrderInv, MapInv, XOrderType
<1>2. CASE exch[k].filled = exch[k].qty
  <2>1. Hedges(p) = {}
    BY <1>2 DEF Hedged
  <2>2. OrdersOn(p, exch[f].symbol) = {f} /\ OrdersOn(p, exch[k].symbol) = {k}
    BY <2>1 DEF OrdersOn
  <2>3. Executed({f}) = exch[f].filled /\ Executed({k}) = exch[k].filled
    BY ExecutedFew
  <2> QED
    BY <1>1, <1>2, <2>2, <2>3
<1>3. CASE exch[k].filled # exch[k].qty
  <2>1. PICK h \in DOMAIN exch : /\ Hedges(p) = {h} /\ exch[h].symbol = exch[k].symbol
                                 /\ exch[h].qty = exch[k].qty - exch[k].filled
    BY <1>3 DEF Hedged
  <2>2. h # k /\ h # f /\ exch[h].filled = exch[k].qty - exch[k].filled
    BY <2>1
  <2>3. OrdersOn(p, exch[f].symbol) = {f} /\ OrdersOn(p, exch[k].symbol) = {k, h}
    BY <2>1, <2>2 DEF OrdersOn
  <2>4. Executed({f}) = exch[f].filled /\ Executed({k, h}) = exch[k].filled + exch[h].filled
    BY <2>1, <2>2, ExecutedFew
  <2> QED
    BY <1>1, <2>2, <2>3, <2>4
<1> QED
  BY <1>2, <1>3

(* A pair whose first leg filled is balanced once it is resolved. *)
LEMMA InvFilledFirst ==
    ASSUME IInv, ~AckMayTimeOut PROVE FilledFirstIsHedged
<1>1. OrderInv /\ PairInv /\ HedgeInv
  BY DEF IInv
<1>2. SUFFICES ASSUME NEW p \in DOMAIN first_status, first_status[p] = "Filled", Resolved(p)
               PROVE  Balanced(p)
  BY DEF FilledFirstIsHedged
<1>3. PICK sg \in Signals : PairLegs(p, sg)
  BY <1>1 DEF PairInv
<1>4. PICK q : q = p + 1
  OBVIOUS
<1>5. /\ p \in DOMAIN exch /\ q \in DOMAIN exch /\ p # q
      /\ ~exch[p].market /\ exch[p].pair = p /\ ~exch[q].market /\ exch[q].pair = p
      /\ exch[p].symbol # exch[q].symbol /\ exch[p].qty \in Nat /\ exch[q].qty \in Nat
  <2>1. p \in Nat /\ p + 1 < seq /\ IsLeg(p, p, sg[1]) /\ IsLeg(q, p, sg[2])
    BY <1>3, <1>4 DEF PairLegs
  <2>2. p \in DOMAIN exch /\ q \in DOMAIN exch /\ p # q
    BY <1>1, <1>4, <2>1, EngineAssumption DEF OrderInv, MapInv
  <2>3. sg[1].symbol # sg[2].symbol
    BY EngineAssumption
  <2>4. exch[p].qty \in Nat /\ exch[q].qty \in Nat
    BY <1>1, <2>2 DEF OrderInv, MapInv, XOrderType
  <2> QED
    BY <2>1, <2>2, <2>3, <2>4 DEF IsLeg
<1>6. p \notin DOMAIN monitors /\ \A h \in Hedges(p) : exch[h].filled = exch[h].qty
  BY <1>2 DEF Resolved, Hedges
<1>7. p \notin Hedges(p) /\ q \notin Hedges(p)
  BY <1>5 DEF Hedges
<1>8. ASSUME NEW o \in DOMAIN exch
      PROVE  exch[o].pair = p <=> o \in {p, q} \cup Hedges(p)
  <2>1. CASE exch[o].market
    BY <1>5, <2>1 DEF Hedges
  <2>2. CASE ~exch[o].market
    BY <1>1, <1>4, <1>5, <2>2 DEF Hedges, PairInv
  <2> QED
    BY <2>1, <2>2
<1>9. Hedged(p, q, p) \/ Hedged(q, p, p)
  BY <1>1, <1>2, <1>4, <1>6 DEF HedgeInv
<1>12. exch[p].qty * exch[q].qty = exch[q].qty * exch[p].qty
  BY <1>5
<1>10. CASE Hedged(p, q, p)
  <2>1. /\ Executed(OrdersOn(p, exch[p].symbol)) = exch[p].qty
        /\ Executed(OrdersOn(p, exch[q].symbol)) = exch[q].qty
    BY <1>1, <1>5, <1>6, <1>7, <1>8, <1>10, HedgedIsComplete
  <2> QED
    BY <1>4, <1>12, <2>1 DEF Balanced
<1>11. CASE Hedged(q, p, p)
  <2>1. \A o \in DOMAIN exch : exch[o].pair = p <=> o \in {q, p} \cup Hedges(p)
    BY <1>8
  <2>2. /\ Executed(OrdersOn(p, exch[q].symbol)) = exch[q].qty
        /\ Executed(OrdersOn(p, exch[p].symbol)) = exch[p].qty
    BY <1>1, <1>5, <1>6, <1>7, <1>11, <2>1, HedgedIsComplete
  <2> QED
    BY <1>4, <1>12, <2>2 DEF Balanced
<1> QED
  BY <1>9, <1>10, <1>11

-----------------------------------------------------------------------------
(* Orders given up while they work.                                        *)

(* An order no longer tracked, and one whose cancel is awaited, is done or *)
(* has a cancel request at the exchange.                                   *)
AbandonInv ==
    /\ AbandonedAreCancelled
    /\ \A p \in DOMAIN monitors :
           monitors[p].pc = "ack" => Ending(monitors[p].id[monitors[p].rest])

(* The exchange drops a cancel request only with its order. *)
LEMMA ExchangeKeepsEnding ==
    ASSUME OrderInv, NEW o \in DOMAIN exch, Exchange(o), NEW k \in DOMAIN exch, Ending(k)
    PROVE  EndingNext(k)
<1>1. exch[o] \in XOrderType
  BY DEF OrderInv, MapInv
<1>2. CASE XAccept(o)
  <2>1. /\ exch[o].st = "sent" /\ cancels' = cancels
        /\ exch' = [exch EXCEPT ![o].st = "live"]
    BY <1>2 DEF XAccept
  <2> QED
    BY <2>1 DEF Ending, EndingNext
<1>3. CASE XReject(o) \/ XExpire(o) \/ XCancel(o)
  <2>1. cancels' = cancels \ {o} /\ exch' = [exch EXCEPT ![o].st = "done"]
    BY <1>3 DEF XReject, XExpire, XCancel
  <2> QED
    BY <1>1, <2>1 DEF Ending, EndingNext, XOrderType
<1>4. ASSUME NEW q, XFill(o, q) PROVE EndingNext(k)
  <2>1. PICK full, cum : /\ exch[o].st = "live" /\ full \in BOOLEAN
                         /\ exch' = [exch EXCEPT ![o].filled = cum,
                                                 ![o].st = IF full THEN "done" ELSE "live"]
                         /\ cancels' = IF full THEN cancels \ {o} ELSE cancels
    <3>1. /\ exch[o].st = "live" /\ (exch[o].filled + q = exch[o].qty) \in BOOLEAN
          /\ exch' = [exch EXCEPT ![o].filled = exch[o].filled + q,
                                  ![o].st = IF exch[o].filled + q = exch[o].qty
                                            THEN "done" ELSE "live"]
          /\ cancels' = IF exch[o].filled + q = exch[o].qty THEN cancels \ {o} ELSE cancels
      BY <1>4 DEF XFill
    <3> QED
      BY <3>1, Zenon
  <2>2. CASE k # o
    <3>1. exch'[k] = exch[k] /\ (k \in cancels => k \in cancels')
      BY <2>1, <2>2
    <3> QED
      BY <3>1 DEF Ending, EndingNext
  <2>3. CASE k = o /\ full
    <3>1. exch' = [exch EXCEPT ![o].filled = cum, ![o].st = "done"]
      BY <2>1, <2>3
    <3>2. exch'[o].st = "done"
      BY <1>1, <3>1 DEF XOrderType
    <3> QED
      BY <2>3, <3>2 DEF EndingNext
  <2>4. CASE k = o /\ ~full
    BY <2>1, <2>4 DEF Ending, EndingNext
  <2> QED
    BY <2>1, <2>2, <2>3, <2>4
<1> QED
  BY <1>2, <1>3, <1>4 DEF Exchange

(* A turn keeps the invariant if the orders it releases end, and the       *)
(* cancels that its monitors newly await are under way.                    *)
LEMMA TurnKeepsAbandoned ==
    ASSUME IInv, AbandonInv, NEW R, Turn(R), cancels \subseteq cancels',
           \A o \in R : EndingNext(o),
           \A p \in DOMAIN monitors' :
               monitors'[p].pc = "ack" =>
                   \/ p \in DOMAIN monitors /\ monitors'[p] = monitors[p]
                   \/ EndingNext(monitors'[p].id[monitors'[p].rest])
    PROVE  AbandonInv'
<1>1. OrderInv /\ PairInv /\ EveryOrderOwned
  BY DEF IInv, OwnerInv
<1>2. ASSUME NEW o \in DOMAIN exch, Ending(o) PROVE EndingNext(o)
  BY <1>2 DEF Turn, Ending, EndingNext
<1>3. ASSUME NEW o \in Released' PROVE EndingNext(o)
  <2>1. /\ DOMAIN exch = 0..(seq - 1) /\ seq \in Nat /\ seq' \in Nat
        /\ DOMAIN exch' = 0..(seq' - 1) /\ DOMAIN orders \subseteq DOMAIN exch
        /\ DOMAIN orders' = (DOMAIN orders \ R) \cup (seq..(seq' - 1))
    BY <1>1, EngineAssumption DEF OrderInv, MapInv, Turn
  <2>2. o \in DOMAIN exch' /\ o \notin DOMAIN orders'
    BY <1>3 DEF Released
  <2>3. \A m, n \in Nat : \A k \in 0..(n - 1) : k \notin m..(n - 1) => k \in 0..(m - 1)
    OBVIOUS
  <2>4. o \in DOMAIN exch /\ (o \in R \/ o \in Released)
    BY <2>1, <2>2, <2>3 DEF Released
  <2> QED
    BY <1>2, <2>4 DEF AbandonInv, AbandonedAreCancelled, Ending
<1>4. AbandonedAreCancelled'
  BY <1>3 DEF AbandonedAreCancelled, EndingNext
<1>5. ASSUME NEW p \in DOMAIN monitors', monitors'[p].pc = "ack"
      PROVE  EndingNext(monitors'[p].id[monitors'[p].rest])
  <2>1. CASE p \in DOMAIN monitors /\ monitors'[p] = monitors[p]
    <3>1. monitors[p].id[monitors[p].rest] \in DOMAIN exch
      BY <1>1, <2>1, MonitorLegs
    <3>2. Ending(monitors[p].id[monitors[p].rest])
      BY <1>5, <2>1 DEF AbandonInv
    <3> QED
      BY <1>2, <2>1, <3>1, <3>2
  <2> QED
    BY <1>5, <2>1
<1> QED
  BY <1>4, <1>5 DEF AbandonInv, Ending, EndingNext

(* No step of monitor_pair breaks it: a leg is released with its terminal  *)
(* record in hand or after its cancel was sent.                            *)
LEMMA MonitorKeepsAbandoned ==
    ASSUME IInv, AbandonInv, NEW p \in DOMAIN monitors, Monitor(p)
    PROVE  AbandonInv'
<1>1. OrderInv /\ PairInv /\ OwnerInv /\ EveryOrderOwned
  BY DEF IInv, OwnerInv
<1>2. /\ monitors[p].id[1] = p /\ monitors[p].id[2] = p + 1 /\ p \in Nat
      /\ monitors[p].pc = "first" => OpenLegs(p) = {p, p + 1}
      /\ monitors[p].pc # "first" => OpenLegs(p) = {monitors[p].id[monitors[p].rest]}
      /\ monitors[p] \in Coroutine
      /\ \A k \in {1, 2} : 3 - k \in {1, 2} /\ monitors[p].id[k] \in DOMAIN exch
  BY <1>1, MonitorLegs
<1>3. ASSUME NEW R, Turn(R), NEW o \in DOMAIN exch, Ending(o), cancels \subseteq cancels'
      PROVE  EndingNext(o)
  BY <1>3 DEF Turn, Ending, EndingNext
<1>4. ASSUME NEW i, NEW rec, NEW pc, FirstSettles(p, i, rec, pc) PROVE AbandonInv'
  <2>1. PICK o : o = monitors[p].id[i]
    OBVIOUS
  <2>2. /\ i \in {1, 2} /\ Turn({o}) /\ cancels \subseteq cancels' /\ exch' = exch
        /\ Truthful(o, exch[o], rec) /\ is_terminal(rec.status)
        /\ monitors' = [monitors EXCEPT ![p].pc = pc, ![p].rest = 3 - i]
        /\ pc = "ack" => EndingNext(monitors[p].id[3 - i])
    BY <1>4, <2>1 DEF FirstSettles
  <2>3. EndingNext(o)
    BY <2>2 DEF Truthful, Final, EndingNext
  <2>4. /\ DOMAIN monitors' = DOMAIN monitors
        /\ \A q \in DOMAIN monitors : q # p => monitors'[q] = monitors[q]
        /\ monitors'[p].pc = pc /\ monitors'[p].rest = 3 - i
        /\ monitors'[p].id = monitors[p].id
    BY <1>2, <2>2 DEF Coroutine
  <2> QED
    BY <2>2, <2>3, <2>4, TurnKeepsAbandoned
<1>5. ASSUME NEW k, NEW rec, Concludes(p, k, rec) PROVE AbandonInv'
  <2>1. PICK R : R = OpenLegs(p)
    OBVIOUS
  <2>2. Turn(R) /\ monitors' = Drop(monitors, p)
    <3>1. PICK n : n = HedgeQty(first_status'[p], rec)
      OBVIOUS
    <3> QED
      BY <1>1, <1>5, <2>1, <3>1, ConcludeTurn
  <2>3. /\ k \in {1, 2} /\ cancels \subseteq cancels'
        /\ Truthful(monitors[p].id[k], exch[monitors[p].id[k]], rec)
        /\ monitors[p].pc = "ack" \/ is_terminal(rec.status)
        /\ monitors[p].pc # "first" => k = monitors[p].rest
    BY <1>5 DEF Concludes
  <2>4. Ending(monitors[p].id[k])
    <3>1. CASE is_terminal(rec.status)
      BY <2>3, <3>1 DEF Truthful, Final, Ending
    <3>2. CASE monitors[p].pc = "ack"
      BY <2>3, <3>2 DEF AbandonInv
    <3> QED
      BY <2>3, <3>1, <3>2
  <2>5. monitors[p].pc = "first" => Ending(monitors[p].id[3 - k])
    BY <1>5 DEF Concludes, Truthful, Final, Ending
  <2>6. ASSUME NEW o \in R PROVE o \in DOMAIN exch /\ Ending(o)
    <3>1. CASE monitors[p].pc = "first"
      <4>1. o = monitors[p].id[k] \/ o = monitors[p].id[3 - k]
        BY <1>2, <2>1, <2>3, <2>6, <3>1
      <4> QED
        BY <1>2, <2>3, <2>4, <2>5, <3>1, <4>1
    <3>2. CASE monitors[p].pc # "first"
      BY <1>2, <2>1, <2>3, <2>4, <2>6, <3>2
    <3> QED
      BY <3>1, <3>2
  <2>7. \A o \in R : EndingNext(o)
    BY <1>3, <2>2, <2>3, <2>6
  <2>8. \A q \in DOMAIN monitors' : q \in DOMAIN monitors /\ monitors'[q] = monitors[q]
    BY <2>2 DEF Drop
  <2> QED
    BY <2>2, <2>3, <2>7, <2>8, TurnKeepsAbandoned
<1>6. CASE AwaitsCancel(p)
  <2>1. /\ Turn({}) /\ cancels \subseteq cancels'
        /\ monitors' = [monitors EXCEPT ![p].pc = "ack"]
        /\ EndingNext(monitors[p].id[monitors[p].rest])
    BY <1>6 DEF AwaitsCancel
  <2>2. /\ DOMAIN monitors' = DOMAIN monitors
        /\ \A q \in DOMAIN monitors : q # p => monitors'[q] = monitors[q]
        /\ monitors'[p].rest = monitors[p].rest /\ monitors'[p].id = monitors[p].id
    BY <1>2, <2>1 DEF Coroutine
  <2> QED
    BY <2>1, <2>2, TurnKeepsAbandoned
<1> QED
  BY <1>1, <1>4, <1>5, <1>6, MonitorSteps

(* Nor does any other step. *)
LEMMA StepAbandoned ==
    ASSUME IInv, AbandonInv, [Next]_vars
    PROVE  AbandonInv'
<1>1. OrderInv /\ PairInv /\ OwnerInv /\ EveryOrderOwned
  BY DEF IInv, OwnerInv
<1>2. ASSUME UNCHANGED monitors, NEW R, Turn(R), cancels \subseteq cancels',
             \A o \in R : EndingNext(o)
      PROVE  AbandonInv'
  BY <1>2, TurnKeepsAbandoned
<1>3. ASSUME UNCHANGED monitors, Released' = Released,
             \A o \in DOMAIN exch : Ending(o) => EndingNext(o)
      PROVE  AbandonInv'
  <2>1. \A p \in DOMAIN monitors : monitors[p].id[monitors[p].rest] \in DOMAIN exch
    BY <1>1, MonitorLegs
  <2>2. Released \subseteq DOMAIN exch
    BY DEF Released
  <2> QED
    BY <1>3, <2>1, <2>2 DEF AbandonInv, AbandonedAreCancelled, Ending, EndingNext
<1>4. ASSUME NEW sg \in Signals, on_signal(sg) PROVE AbandonInv'
  <2>1. Turn({}) /\ cancels' = cancels
    BY <1>1, <1>4, SignalTurn DEF on_signal
  <2>2. ASSUME NEW p \in DOMAIN monitors', monitors'[p].pc = "ack"
        PROVE  p \in DOMAIN monitors /\ monitors'[p] = monitors[p]
    <3>1. PICK m : monitors' = Put(monitors, seq, m) /\ m.pc = "first"
      BY <1>4 DEF on_signal
    <3> QED
      BY <2>2, <3>1 DEF Put
  <2> QED
    BY <2>1, <2>2, TurnKeepsAbandoned
<1>5. ASSUME NEW o \in DOMAIN exch, Exchange(o) PROVE AbandonInv'
  <2>1. PICK x, r : ExchangeStep(o, x, r)
    BY <1>1, <1>5, ExchangeSteps DEF OrderInv
  <2>2. DOMAIN exch' = DOMAIN exch /\ UNCHANGED <<orders, monitors>>
    BY <2>1 DEF ExchangeStep, engine
  <2>3. Released' = Released
    BY <2>2 DEF Released
  <2> QED
    BY <1>1, <1>3, <1>5, <2>2, <2>3, ExchangeKeepsEnding
<1>6. ASSUME NEW o \in DOMAIN exch, Deliver(o) PROVE AbandonInv'
  <2>1. DOMAIN orders' = DOMAIN orders
    BY <1>1, <1>6, DeliverKeepsOrders
  <2>2. UNCHANGED <<monitors, exch, cancels>>
    BY <1>6 DEF Deliver
  <2>3. Released' = Released
    BY <2>1, <2>2 DEF Released
  <2> QED
    BY <1>3, <2>2, <2>3 DEF Ending, EndingNext
<1>7. ASSUME NEW o \in DOMAIN waiters, SkipUpdate(o) PROVE AbandonInv'
  <2>1. Turn({}) /\ UNCHANGED <<monitors, cancels>>
    BY <1>1, <1>7, SkipTurn DEF SkipUpdate, market
  <2> QED
    BY <1>2, <2>1
<1>8. ASSUME NEW h \in DOMAIN waiters, watch_hedge(h) PROVE AbandonInv'
  <2>1. PICK rec \in OrderRecord :
            /\ Truthful(h, exch[h], rec) /\ is_terminal(rec.status)
            /\ Turn({h}) /\ exch' = exch
    BY <1>1, <1>8, WatchTurn
  <2>2. UNCHANGED <<monitors, cancels>>
    BY <1>8 DEF watch_hedge, market
  <2>3. EndingNext(h)
    BY <2>1 DEF Truthful, Final, EndingNext
  <2> QED
    BY <1>2, <2>1, <2>2, <2>3
<1>9. ASSUME NEW p \in DOMAIN monitors, Monitor(p) PROVE AbandonInv'
  BY <1>9, MonitorKeepsAbandoned
<1>10. ASSUME NEW young, Sweep(young) PROVE AbandonInv'
  <2>1. Turn({}) /\ UNCHANGED monitors
    BY <1>1, <1>10, SweepTurn
  <2>2. cancels \subseteq cancels'
    BY <1>10 DEF Sweep, cancel_order
  <2> QED
    BY <1>2, <2>1, <2>2
<1>11. CASE UNCHANGED vars
  <2>1. UNCHANGED <<orders, monitors, exch, cancels>>
    BY <1>11 DEF vars, engine, market
  <2>2. Released' = Released
    BY <2>1 DEF Released
  <2> QED
    BY <1>3, <2>1, <2>2 DEF Ending, EndingNext
<1> QED
  BY <1>4, <1>5, <1>6, <1>7, <1>8, <1>9, <1>10, <1>11 DEF Next

-----------------------------------------------------------------------------
(* The theorems.                                                           *)

(* The invariant holds in every reachable state. *)
THEOREM Invariance == Spec => []IInv
<1>1. Init => IInv
  BY InitInv
<1>2. IInv /\ [Next]_vars => IInv'
  BY StepInv
<1> QED
  BY <1>1, <1>2, PTL DEF Spec

(* Every variable of the engine keeps its type: ids stay below the bound,  *)
(* a waiter channel never holds more than its buffer and one handed-over   *)
(* update, positions are integers.                                         *)
THEOREM EngineTypes == Spec => []TypeOK
<1>1. IInv => TypeOK
  BY InvTypes
<1> QED
  BY <1>1, Invariance, PTL

(* Every tracked order has exactly one coroutine that will release it, in  *)
(* every interleaving of monitor_pair, watch_hedge, on_signal and the      *)
(* exchange, with any number of pairs, hedges and lost updates.            *)
THEOREM OrdersOwned == Spec => []EveryOrderOwned
<1>1. IInv => EveryOrderOwned
  BY DEF IInv, OwnerInv
<1> QED
  BY <1>1, Invariance, PTL

(* A symbol is in inflight_symbols exactly while one monitor_pair trades   *)
(* it, and two monitors never share one.                                   *)
THEOREM SymbolsExclusive == Spec => []OnePairPerSymbol
<1>1. IInv => OnePairPerSymbol
  BY DEF IInv, OwnerInv
<1> QED
  BY <1>1, Invariance, PTL

(* Whatever max_open_orders_ is, the OMS tracks at most one order more:    *)
(* the two legs of a signal overshoot by one and a hedge replaces its leg. *)
THEOREM OpenOrdersBounded == Spec => []AtMostOneOverLimit
<1>1. IInv => AtMostOneOverLimit
  BY DEF IInv, OwnerInv
<1> QED
  BY <1>1, Invariance, PTL

(* The booked position never leaves what the exchange executed, cancel     *)
(* acks that time out included: apply_fill_pnl books no fill twice, early  *)
(* or on the wrong symbol or side.                                         *)
THEOREM PositionWithinFills == Spec => []BookedWithinFills
<1>1. IInv => BookedWithinFills
  BY InvBookedWithinFills
<1> QED
  BY <1>1, Invariance, PTL

(* Once kMaxConsecutiveRejects rejections came in a row no pair is ever    *)
(* started again, whatever opens or fills afterwards and resets the        *)
(* counter: the halt is a latch, and only on_signal starts a pair.         *)
THEOREM BreakerStopsPairs == Spec => NoPairAfterRejects
<1> DEFINE A == tripped => DOMAIN monitors' \subseteq DOMAIN monitors
<1>1. ASSUME IInv, [Next]_vars PROVE [A]_vars
  <2>1. CASE UNCHANGED vars
    BY <2>1
  <2>2. ASSUME NEW sg \in Signals, on_signal(sg) PROVE A
    <3>1. ~halted
      BY <2>2 DEF on_signal
    <3> QED
      BY <1>1, <3>1 DEF IInv, BreakerInv
  <2>3. ASSUME NEW o, Exchange(o) \/ Deliver(o) PROVE A
    BY <2>3 DEF Exchange, engine, Deliver
  <2>4. ASSUME NEW o, SkipUpdate(o) \/ watch_hedge(o) PROVE A
    BY <2>4 DEF SkipUpdate, watch_hedge
  <2>5. ASSUME NEW p \in DOMAIN monitors, Monitor(p) PROVE A
    BY <1>1, <2>5, MonitorKeeps
  <2>6. ASSUME NEW young, Sweep(young) PROVE A
    BY <2>6 DEF Sweep, engine
  <2> HIDE DEF A
  <2> QED
    BY <1>1, <2>1, <2>2, <2>3, <2>4, <2>5, <2>6 DEF Next
<1> QED
  BY <1>1, Invariance, PTL DEF Spec, NoPairAfterRejects

(* However late the acks are, monitor_pair never gives up an order it left *)
(* working: what it releases is finished, or its cancel is on its way.     *)
THEOREM AbandonedEnd == Spec => []AbandonedAreCancelled
<1>1. Init => AbandonInv
  BY DEF Init, Empty, AbandonInv, AbandonedAreCancelled, Released
<1>2. IInv /\ AbandonInv /\ [Next]_vars => AbandonInv'
  BY StepAbandoned
<1>3. AbandonInv => AbandonedAreCancelled
  BY DEF AbandonInv
<1> QED
  BY <1>1, <1>2, <1>3, Invariance, PTL DEF Spec

(* When cancel acks arrive in time, release() really is called only for    *)
(* orders in a terminal state, whichever way monitor_pair learned of it.   *)
THEOREM ReleasedAreTerminal ==
    ASSUME ~AckMayTimeOut PROVE Spec => []ReleasedOnlyWhenTerminal
<1>1. IInv => ReleasedOnlyWhenTerminal
  BY InvReleased
<1> QED
  BY <1>1, Invariance, PTL

(* And an order that filled completely is booked completely by then. *)
THEOREM ReleasedAreBooked ==
    ASSUME ~AckMayTimeOut PROVE Spec => []FilledOrdersBooked
<1>1. IInv => FilledOrdersBooked
  BY InvReleased
<1> QED
  BY <1>1, Invariance, PTL

(* And when everything is resolved and no first leg was cancelled, the     *)
(* position of every symbol is what the exchange executed, to the unit.    *)
THEOREM BookExact ==
    ASSUME ~AckMayTimeOut PROVE Spec => []QuiescentBookExact
<1>1. IInv => QuiescentBookExact
  BY InvQuiescent
<1> QED
  BY <1>1, Invariance, PTL

(* And the two legs of a pair whose first leg filled end up executed in    *)
(* equal shares, the market hedge included: monitor_pair hedges exactly    *)
(* what is missing, whatever the sizes of the legs.                        *)
THEOREM PairsHedged ==
    ASSUME ~AckMayTimeOut PROVE Spec => []FilledFirstIsHedged
<1>1. IInv => FilledFirstIsHedged
  BY InvFilledFirst
<1> QED
  BY <1>1, Invariance, PTL
=============================================================================
