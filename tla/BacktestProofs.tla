--------------------------- MODULE BacktestProofs ---------------------------
(***************************************************************************)
(* EachBatchOnce and Reproducible for every set of files, batch size and   *)
(* ring.  What makes the first inductive is what the two tests of the loop *)
(* have established: a consumer past the first has seen `finished`, after  *)
(* which the replay does nothing, so the ring it then finds empty stays    *)
(* empty.  The second adds where every update of the file is: applied, in  *)
(* the ring, in the row or in the lines not yet parsed, in this order.     *)
(***************************************************************************)
EXTENDS Backtest, SequenceTheorems, WellFoundedInduction, TLAPS

(* `finished` is the replay's last word. *)
ReplayOver == finished => row = <<>>

(* What the consumer's position says. *)
LoopInv ==
    /\ cpc \in {"check", "drained", "pop", "flush", "done"}
    /\ cpc = "drained" => finished
    /\ cpc \in {"flush", "done"} => finished /\ queue = <<>>

IsSequence(s) == \E S : s \in Seq(S)

Batches == Len(analysed) =
    local_count \div k_gpu_batch
    + (IF cpc = "done" /\ local_count % k_gpu_batch # 0 THEN 1 ELSE 0)

IInv == ReplayOver /\ LoopInv /\ local_count \in Nat /\ IsSequence(analysed) /\ Batches

-----------------------------------------------------------------------------
(* Appending to a sequence, of whatever elements. *)
LEMMA AppendLonger ==
    ASSUME NEW s, NEW x, IsSequence(s)
    PROVE  IsSequence(Append(s, x)) /\ Len(Append(s, x)) = Len(s) + 1
  <1>1. PICK S : s \in Seq(S)
    BY DEF IsSequence
  <1>2. s \in Seq(S \cup {x})
    BY <1>1
  <1>3. Append(s, x) \in Seq(S \cup {x}) /\ Len(Append(s, x)) = Len(s) + 1
    BY <1>2
  <1> QED
    BY <1>3 DEF IsSequence

(* The number of full batches grows exactly when a batch is full. *)
LEMMA NextBatch ==
    ASSUME NEW n \in Nat, NEW k \in Nat \ {0}
    PROVE  (n + 1) \div k = n \div k + (IF (n + 1) % k = 0 THEN 1 ELSE 0)
  <1>1. n = k * (n \div k) + (n % k) /\ n % k \in 0 .. k - 1 /\ n \div k \in Nat
    BY Z3
  <1>2. n + 1 = k * ((n + 1) \div k) + ((n + 1) % k) /\ (n + 1) % k \in 0 .. k - 1
        /\ (n + 1) \div k \in Nat
    BY Z3
  <1> QED
    BY <1>1, <1>2, Z3

(* The invariant holds when the consumer starts, with nothing read and nothing counted. *)
LEMMA Initially == Init => IInv
  BY BacktestAssumption DEF Init, ReplayInit, IInv, ReplayOver, LoopInv, IsSequence, Batches

(* After `finished` the replay does nothing; before, it only touches what  *)
(* the consumer has not yet seen.                                          *)
LEMMA ReplayPreserves == IInv /\ Replay => IInv'
  <1> SUFFICES ASSUME IInv, Replay PROVE IInv'
    OBVIOUS
  <1>1. UNCHANGED consumer
    BY DEF Replay
  <1>2. ~finished
    BY DEF IInv, ReplayOver, Replay, ReplayStep, OpenFails, ParseRow, PushUpdate, Finish
  <1>3. finished' => row' = <<>>
    BY <1>2 DEF Replay, ReplayStep, OpenFails, ParseRow, PushUpdate, Finish
  <1> QED
    BY <1>1, <1>2, <1>3 DEF IInv, ReplayOver, LoopInv, Batches, consumer

(* Testing finished() and empty() changes only where the consumer is. *)
LEMMA ConditionPreserves == IInv /\ LoopCondition => IInv'
  BY DEF IInv, LoopCondition, ReplayOver, LoopInv, Batches, replay

(* One popped update adds one to the batch, or empties a full batch. *)
LEMMA PopPreserves == IInv /\ PopUpdate => IInv'
  <1> SUFFICES ASSUME IInv, PopUpdate PROVE IInv'
    OBVIOUS
  <1> USE BacktestAssumption
  <1>1. ReplayOver' /\ LoopInv'
    BY DEF IInv, PopUpdate, ReplayOver, LoopInv, replay
  <1>2. CASE queue = <<>>
    BY <1>1, <1>2 DEF IInv, PopUpdate, LoopInv, Batches
  <1>3. CASE queue # <<>>
    <2>1. cpc = "pop" /\ cpc' = "check" /\ local_count' = local_count + 1
      BY <1>3 DEF PopUpdate
    <2>2. local_count' \div k_gpu_batch =
            local_count \div k_gpu_batch + (IF local_count' % k_gpu_batch = 0 THEN 1 ELSE 0)
      BY <2>1, NextBatch DEF IInv
    <2>3. CASE local_count' % k_gpu_batch = 0
      <3>1. analysed' = Append(analysed, book')
        BY <1>3, <2>3 DEF PopUpdate, process_signal
      <3>2. IsSequence(analysed') /\ Len(analysed') = Len(analysed) + 1
        BY <3>1, AppendLonger DEF IInv
      <3> QED
        BY <1>1, <2>1, <2>2, <2>3, <3>2 DEF IInv, Batches
    <2>4. CASE local_count' % k_gpu_batch # 0
      BY <1>1, <1>3, <2>1, <2>2, <2>4 DEF IInv, PopUpdate, Batches
    <2> QED
      BY <2>3, <2>4
  <1> QED
    BY <1>2, <1>3

(* The trailing batch is analysed once, and the program is over. *)
LEMMA FlushPreserves == IInv /\ Flush => IInv'
  <1> SUFFICES ASSUME IInv, Flush PROVE IInv'
    OBVIOUS
  <1>1. ReplayOver' /\ LoopInv'
    BY DEF IInv, Flush, ReplayOver, LoopInv, replay
  <1>2. CASE local_count % k_gpu_batch # 0
    <2>1. analysed' = Append(analysed, book)
      BY <1>2 DEF Flush, process_signal
    <2>2. IsSequence(analysed') /\ Len(analysed') = Len(analysed) + 1
      BY <2>1, AppendLonger DEF IInv
    <2> QED
      BY <1>1, <1>2, <2>2, BacktestAssumption DEF IInv, Flush, Batches
  <1>3. CASE local_count % k_gpu_batch = 0
    BY <1>1, <1>3 DEF IInv, Flush, Batches
  <1> QED
    BY <1>2, <1>3

(* Every batch is analysed exactly once and nothing is left when the loop  *)
(* ends, for every file, batch size and ring size.                         *)
THEOREM BatchesExact == Spec => []EachBatchOnce
  <1>1. IInv => EachBatchOnce
    BY DEF IInv, EachBatchOnce, ReplayOver, LoopInv, Batches
  <1>2. IInv /\ [Next]_vars => IInv'
    <2>1. IInv /\ UNCHANGED vars => IInv'
      BY DEF IInv, ReplayOver, LoopInv, Batches, vars, replay, consumer
    <2> QED
      BY <2>1, ReplayPreserves, ConditionPreserves, PopPreserves, FlushPreserves
      DEF Next, Consume
  <1> QED
    BY <1>1, <1>2, Initially, PTL DEF Spec

-----------------------------------------------------------------------------
(* What the recursive definitions compute.  A property of every number is  *)
(* shown by looking at the least one that fails it.                        *)

(* A non-empty set of numbers has a least element. *)
LEMMA LeastNumber ==
    ASSUME NEW T, T \subseteq Nat, T # {}
    PROVE  \E m \in T : \A n \in T : m <= n
  <1> DEFINE Less == {ss \in Nat \X Nat : ss[1] < ss[2]}
  <1>1. IsWellFoundedOn(Less, Nat)
    BY NatLessThanWellFounded, Zenon DEF OpToRel
  <1> HIDE DEF Less
  <1>2. PICK m \in T : \A n \in T : ~ (<<n, m>> \in Less)
    BY <1>1, WFMin
  <1>3. \A n \in T : n < m => <<n, m>> \in Less
    BY DEF Less
  <1>4. \A n \in T : ~ (n < m)
    BY <1>2, <1>3
  <1> QED
    BY <1>4

(* What Min chooses. *)
LEMMA MinIsLeast ==
    ASSUME NEW T, T \subseteq Nat, T # {}
    PROVE  Min(T) \in T /\ \A n \in T : Min(T) <= n
  BY LeastNumber DEF Min

(* The smaller of two numbers. *)
LEMMA MinOfTwo ==
    ASSUME NEW a \in Nat, NEW b \in Nat
    PROVE  Min({a, b}) = IF a <= b THEN a ELSE b
  <1>1. Min({a, b}) \in {a, b} /\ \A n \in {a, b} : Min({a, b}) <= n
    <2>1. {a, b} \subseteq Nat /\ {a, b} # {}
      OBVIOUS
    <2> QED
      BY <2>1, MinIsLeast
  <1> QED
    BY <1>1

(* after holds the values of the recursion in BookAfter up to n. *)
IsBooks(after, s, n) ==
    after = [i \in 0 .. n |-> IF i = 0 THEN EmptyBook ELSE apply(after[i - 1], s[i])]

(* The recursion has a solution: one for n - 1 extends to one for n. *)
LEMMA BooksExist ==
    ASSUME NEW s, NEW n \in Nat
    PROVE  \E after : IsBooks(after, s, n)
  <1> DEFINE Bad == {m \in Nat : ~ \E after : IsBooks(after, s, m)}
  <1>1. SUFFICES ASSUME Bad # {} PROVE FALSE
    OBVIOUS
  <1>2. Bad \subseteq Nat
    OBVIOUS
  <1> HIDE DEF Bad
  <1>3. PICK m \in Bad : \A k \in Bad : m <= k
    BY <1>1, <1>2, LeastNumber
  <1>4. m \in Nat /\ ~ \E after : IsBooks(after, s, m)
    BY <1>3 DEF Bad
  <1>5. m # 0
    <2>1. IsBooks([i \in 0 .. 0 |-> EmptyBook], s, 0)
      BY DEF IsBooks
    <2> QED
      BY <1>4, <2>1
  <1>6. PICK g : IsBooks(g, s, m - 1)
    BY <1>3, <1>4, <1>5 DEF Bad
  <1>7. \A i \in 0 .. m - 1 : g[i] = IF i = 0 THEN EmptyBook ELSE apply(g[i - 1], s[i])
    BY <1>6 DEF IsBooks
  <1> DEFINE h == [i \in 0 .. m |-> IF i = m THEN apply(g[m - 1], s[m]) ELSE g[i]]
  <1>8. \A i \in 0 .. m : h[i] = IF i = 0 THEN EmptyBook ELSE apply(h[i - 1], s[i])
    BY <1>4, <1>5, <1>7
  <1>9. h = [i \in 0 .. m |-> h[i]]
    OBVIOUS
  <1> HIDE DEF h
  <1>10. IsBooks(h, s, m)
    BY <1>8, <1>9 DEF IsBooks
  <1> QED
    BY <1>4, <1>10

(* What BookAfter computes: one update after the other. *)
LEMMA BookSteps ==
    ASSUME NEW s, Len(s) \in Nat
    PROVE  /\ BookAfter(s, 0) = EmptyBook
           /\ \A n \in 1 .. Len(s) : BookAfter(s, n) = apply(BookAfter(s, n - 1), s[n])
  <1> DEFINE g == CHOOSE h : IsBooks(h, s, Len(s))
  <1>1. IsBooks(g, s, Len(s))
    BY BooksExist
  <1>2. \A n : BookAfter(s, n) = g[n]
    BY DEF BookAfter, IsBooks
  <1> HIDE DEF g
  <1>3. \A n \in 0 .. Len(s) : g[n] = IF n = 0 THEN EmptyBook ELSE apply(g[n - 1], s[n])
    BY <1>1 DEF IsBooks
  <1> QED
    BY <1>2, <1>3

(* after holds the values of the recursion in ResultAfter up to n. *)
IsResults(after, books, n) ==
    after = [i \in 0 .. n |->
                IF i = 0 THEN NewTracker
                ELSE RecordAll(after[i - 1], books[i], Routed(SubSeq(books, 1, i)))]

(* This recursion has a solution for the same reason. *)
LEMMA ResultsExist ==
    ASSUME NEW books, NEW n \in Nat
    PROVE  \E after : IsResults(after, books, n)
  <1> DEFINE Bad == {m \in Nat : ~ \E after : IsResults(after, books, m)}
             Step(g, i) == RecordAll(g[i - 1], books[i], Routed(SubSeq(books, 1, i)))
  <1>1. SUFFICES ASSUME Bad # {} PROVE FALSE
    OBVIOUS
  <1>2. Bad \subseteq Nat
    OBVIOUS
  <1> HIDE DEF Bad
  <1>3. PICK m \in Bad : \A k \in Bad : m <= k
    BY <1>1, <1>2, LeastNumber
  <1>4. m \in Nat /\ ~ \E after : IsResults(after, books, m)
    BY <1>3 DEF Bad
  <1>5. m # 0
    <2>1. IsResults([i \in 0 .. 0 |-> NewTracker], books, 0)
      BY DEF IsResults
    <2> QED
      BY <1>4, <2>1
  <1>6. PICK g : IsResults(g, books, m - 1)
    BY <1>3, <1>4, <1>5 DEF Bad
  <1>7. \A i \in 0 .. m - 1 : g[i] = IF i = 0 THEN NewTracker ELSE Step(g, i)
    BY <1>6 DEF IsResults
  <1> DEFINE h == [i \in 0 .. m |-> IF i = m THEN Step(g, m) ELSE g[i]]
  <1>8. \A i \in 0 .. m : h[i] = IF i = 0 THEN NewTracker ELSE Step(h, i)
    BY <1>4, <1>5, <1>7
  <1>9. h = [i \in 0 .. m |-> h[i]]
    OBVIOUS
  <1> HIDE DEF h
  <1>10. IsResults(h, books, m)
    BY <1>8, <1>9 DEF IsResults
  <1> QED
    BY <1>4, <1>10

(* What ResultAfter computes: the edges of one book after the other. *)
LEMMA ResultSteps ==
    ASSUME NEW books, Len(books) \in Nat
    PROVE  /\ ResultAfter(books, 0) = NewTracker
           /\ \A n \in 1 .. Len(books) :
                  ResultAfter(books, n) = RecordAll(ResultAfter(books, n - 1), books[n],
                                                    Routed(SubSeq(books, 1, n)))
  <1> DEFINE g == CHOOSE h : IsResults(h, books, Len(books))
  <1>1. IsResults(g, books, Len(books))
    BY ResultsExist
  <1>2. \A n : ResultAfter(books, n) = g[n]
    BY DEF ResultAfter, IsResults
  <1> HIDE DEF g
  <1>3. \A n \in 0 .. Len(books) :
            g[n] = IF n = 0 THEN NewTracker
                   ELSE RecordAll(g[n - 1], books[n], Routed(SubSeq(books, 1, n)))
    BY <1>1 DEF IsResults
  <1> QED
    BY <1>2, <1>3

(* skip_comma never goes back, and never past the end. *)
LEMMA SkipForward ==
    ASSUME NEW f, Len(f) \in Nat, NEW p, p.line \in 1 .. Len(f) + 1
    PROVE  skip_comma(f, p).line \in p.line .. Len(f) + 1
  <1> DEFINE later == {l \in p.line + 1 .. Len(f) : Len(f[l].fields) > 1}
  <1>1. later # {} => Min(later) \in later
    <2>1. later \subseteq Nat
      OBVIOUS
    <2> QED
      BY <2>1, MinIsLeast
  <1>2. CASE p.line <= Len(f) /\ p.col < Len(f[p.line].fields)
    BY <1>2 DEF skip_comma, At
  <1>3. CASE ~(p.line <= Len(f) /\ p.col < Len(f[p.line].fields)) /\ later = {}
    BY <1>3 DEF skip_comma, At
  <1>4. CASE ~(p.line <= Len(f) /\ p.col < Len(f[p.line].fields)) /\ later # {}
    <2>1. skip_comma(f, p) = At(Min(later), 2)
      BY <1>4 DEF skip_comma
    <2> QED
      BY <1>1, <1>4, <2>1 DEF At
  <1> QED
    BY <1>2, <1>3, <1>4

(* A row takes at least the line it starts on. *)
LEMMA RowForward ==
    ASSUME NEW f, Len(f) \in Nat, NEW l \in 1 .. Len(f)
    PROVE  NextLine(f, l) \in l + 1 .. Len(f) + 1
  <1> DEFINE instr == skip_comma(f, At(l, 1))
             bid   == skip_comma(f, instr)
             bqty  == skip_comma(f, bid)
             ask   == skip_comma(f, bqty)
             aqty  == skip_comma(f, ask)
  <1>1. At(l, 1).line = l
    BY DEF At
  <1>2. instr.line \in l .. Len(f) + 1
    BY <1>1, SkipForward
  <1>3. bid.line \in l .. Len(f) + 1
    BY <1>2, SkipForward
  <1>4. bqty.line \in l .. Len(f) + 1
    BY <1>3, SkipForward
  <1>5. ask.line \in l .. Len(f) + 1
    BY <1>4, SkipForward
  <1>6. aqty.line \in l .. Len(f) + 1
    BY <1>5, SkipForward
  <1>7. Row(f, l).next = Min({aqty.line, Len(f)}) + 1
    BY DEF Row
  <1> HIDE DEF aqty
  <1>8. Min({aqty.line, Len(f)}) \in l .. Len(f)
    BY <1>6, MinOfTwo
  <1> QED
    BY <1>7, <1>8 DEF NextLine

(* from holds the values of the recursion in StreamFrom from line m on. *)
IsStream(from, f, m) ==
    from = [l \in m .. Len(f) + 1 |->
               IF l > Len(f) THEN <<>> ELSE Parsed(f, l) \o from[NextLine(f, l)]]

(* The recursion has a solution: one for the lines after m extends to m,   *)
(* as every row goes on with a later line.                                 *)
LEMMA StreamsExist ==
    ASSUME NEW f, Len(f) \in Nat
    PROVE  \E from : IsStream(from, f, 1)
  <1> DEFINE Bad == {k \in 0 .. Len(f) : ~ \E from : IsStream(from, f, Len(f) + 1 - k)}
             Step(g, l) == Parsed(f, l) \o g[NextLine(f, l)]
  <1>1. SUFFICES ASSUME Bad # {} PROVE FALSE
    <2>1. Len(f) \notin Bad
      BY <1>1
    <2>2. Len(f) + 1 - Len(f) = 1
      OBVIOUS
    <2> QED
      BY <2>1, <2>2
  <1>2. Bad \subseteq Nat
    OBVIOUS
  <1> HIDE DEF Bad
  <1>3. PICK k \in Bad : \A j \in Bad : k <= j
    BY <1>1, <1>2, LeastNumber
  <1> DEFINE m == Len(f) + 1 - k
  <1>4. k \in 0 .. Len(f) /\ m \in 1 .. Len(f) + 1 /\ ~ \E from : IsStream(from, f, m)
    BY <1>3 DEF Bad
  <1>5. k # 0
    <2> DEFINE e == [l \in Len(f) + 1 .. Len(f) + 1 |-> <<>>]
    <2>1. \A l \in Len(f) + 1 .. Len(f) + 1 : l > Len(f)
      OBVIOUS
    <2>2. e = [l \in Len(f) + 1 .. Len(f) + 1 |->
                  IF l > Len(f) THEN <<>> ELSE Parsed(f, l) \o e[NextLine(f, l)]]
      BY <2>1, Zenon
    <2>3. IsStream(e, f, Len(f) + 1)
      BY <2>2 DEF IsStream
    <2>4. k = 0 => m = Len(f) + 1
      OBVIOUS
    <2> QED
      BY <1>4, <2>3, <2>4
  <1>6. PICK g : IsStream(g, f, m + 1)
    <2>1. k - 1 \in 0 .. Len(f) /\ k - 1 \notin Bad /\ Len(f) + 1 - (k - 1) = m + 1
      BY <1>3, <1>4, <1>5
    <2> QED
      BY <2>1 DEF Bad
  <1>7. \A l \in m + 1 .. Len(f) + 1 : g[l] = IF l > Len(f) THEN <<>> ELSE Step(g, l)
    BY <1>6 DEF IsStream
  <1> DEFINE h == [l \in m .. Len(f) + 1 |-> IF l = m THEN Step(g, m) ELSE g[l]]
  <1>8. m \in 1 .. Len(f)
    BY <1>4, <1>5
  <1> HIDE DEF m
  <1>9. \A l \in m + 1 .. Len(f) + 1 : h[l] = g[l]
    BY <1>8
  <1>10. \A l \in m .. Len(f) : NextLine(f, l) \in m + 1 .. Len(f) + 1
    <2>1. \A l \in m .. Len(f) : l \in 1 .. Len(f)
      BY <1>8
    <2>2. \A l \in m .. Len(f) : NextLine(f, l) \in l + 1 .. Len(f) + 1
      BY <2>1, RowForward
    <2> QED
      BY <2>2, <1>8
  <1>11. \A l \in m .. Len(f) : Step(h, l) = Step(g, l)
    BY <1>9, <1>10
  <1>12. h[m] = Step(g, m)
    BY <1>8
  <1>13. h = [l \in m .. Len(f) + 1 |-> h[l]]
    OBVIOUS
  <1> HIDE DEF h
  <1> HIDE DEF Step
  <1>14. \A l \in m .. Len(f) + 1 : h[l] = IF l > Len(f) THEN <<>> ELSE Step(h, l)
    <2>1. \A l \in m .. Len(f) + 1 : l = m \/ l \in m + 1 .. Len(f) + 1
      BY <1>8
    <2>2. \A l \in m .. Len(f) + 1 : ~(l > Len(f)) => l \in m .. Len(f)
      BY <1>8
    <2>3. ~(m > Len(f)) /\ m \in m .. Len(f)
      BY <1>8
    <2>4. \A l \in m + 1 .. Len(f) + 1 : l \in m .. Len(f) + 1
      BY <1>8
    <2> QED
      BY <1>7, <1>9, <1>11, <1>12, <2>1, <2>2, <2>3, <2>4
  <1> USE DEF Step
  <1>15. IsStream(h, f, m)
    BY <1>13, <1>14 DEF IsStream
  <1> QED
    BY <1>4, <1>15

(* What StreamFrom computes: one row after the other. *)
LEMMA StreamSteps ==
    ASSUME NEW f, Len(f) \in Nat
    PROVE  /\ StreamFrom(f, Len(f) + 1) = <<>>
           /\ \A l \in 1 .. Len(f) :
                  StreamFrom(f, l) = Parsed(f, l) \o StreamFrom(f, NextLine(f, l))
  <1> DEFINE g == CHOOSE h : IsStream(h, f, 1)
  <1>1. IsStream(g, f, 1)
    BY StreamsExist
  <1>2. \A n : StreamFrom(f, n) = g[n]
    BY DEF StreamFrom, IsStream
  <1> HIDE DEF g
  <1>3. \A l \in 1 .. Len(f) + 1 :
            g[l] = IF l > Len(f) THEN <<>> ELSE Parsed(f, l) \o g[NextLine(f, l)]
    BY <1>1 DEF IsStream
  <1>4. Len(f) + 1 \in 1 .. Len(f) + 1 /\ Len(f) + 1 > Len(f)
    OBVIOUS
  <1>5. \A l \in 1 .. Len(f) : l \in 1 .. Len(f) + 1 /\ ~(l > Len(f))
    OBVIOUS
  <1> QED
    BY <1>2, <1>3, <1>4, <1>5, Zenon

(* The updates the rows of f can give. *)
FileUpdates(f) ==
    {Row(f, l).bid : l \in 1 .. Len(f)} \cup {Row(f, l).ask : l \in 1 .. Len(f)}

(* Parsing gives sequences of these. *)
LEMMA ParsedTyped ==
    ASSUME NEW f, NEW l \in 1 .. Len(f)
    PROVE  Parsed(f, l) \in Seq(FileUpdates(f))
  <1>1. Row(f, l).bid \in FileUpdates(f) /\ Row(f, l).ask \in FileUpdates(f)
    BY DEF FileUpdates
  <1> QED
    BY <1>1 DEF Parsed

(* And so does the rest of the file, from every line. *)
LEMMA StreamTyped ==
    ASSUME NEW f, Len(f) \in Nat, NEW l \in 1 .. Len(f) + 1
    PROVE  StreamFrom(f, l) \in Seq(FileUpdates(f))
  <1> DEFINE Bad == {k \in 0 .. Len(f) : StreamFrom(f, Len(f) + 1 - k) \notin Seq(FileUpdates(f))}
  <1>1. SUFFICES ASSUME Bad # {} PROVE FALSE
    <2>1. Len(f) + 1 - l \in 0 .. Len(f) /\ Len(f) + 1 - (Len(f) + 1 - l) = l
      OBVIOUS
    <2> QED
      BY <1>1, <2>1
  <1>2. Bad \subseteq Nat
    OBVIOUS
  <1> HIDE DEF Bad
  <1>3. PICK k \in Bad : \A j \in Bad : k <= j
    BY <1>1, <1>2, LeastNumber
  <1>4. k \in 0 .. Len(f) /\ StreamFrom(f, Len(f) + 1 - k) \notin Seq(FileUpdates(f))
    BY <1>3 DEF Bad
  <1>5. k # 0
    <2>1. k = 0 => Len(f) + 1 - k = Len(f) + 1
      OBVIOUS
    <2>2. StreamFrom(f, Len(f) + 1) = <<>> /\ <<>> \in Seq(FileUpdates(f))
      BY StreamSteps
    <2> QED
      BY <1>4, <2>1, <2>2
  <1>6. PICK m : m = Len(f) + 1 - k
    OBVIOUS
  <1>7. m \in 1 .. Len(f)
    BY <1>4, <1>5, <1>6
  <1>8. PICK n : n = NextLine(f, m)
    OBVIOUS
  <1>9. n \in m + 1 .. Len(f) + 1
    BY <1>7, <1>8, RowForward
  <1>10. StreamFrom(f, n) \in Seq(FileUpdates(f))
    <2>1. Len(f) + 1 - n \in 0 .. Len(f) /\ Len(f) + 1 - n < k /\ Len(f) + 1 - (Len(f) + 1 - n) = n
      BY <1>4, <1>6, <1>7, <1>9
    <2>2. Len(f) + 1 - n \notin Bad
      BY <1>3, <1>4, <2>1
    <2> QED
      BY <2>1, <2>2 DEF Bad
  <1>11. StreamFrom(f, m) = Parsed(f, m) \o StreamFrom(f, n)
    BY <1>7, <1>8, StreamSteps
  <1>12. StreamFrom(f, m) \in Seq(FileUpdates(f))
    BY <1>7, <1>10, <1>11, ParsedTyped, ConcatProperties
  <1> QED
    BY <1>4, <1>6, <1>12

(* A row of six fields stays on its line, and its fields are its own. *)
LEMMA WholeRow ==
    ASSUME NEW f, Len(f) \in Nat, NEW l \in 1 .. Len(f), Len(f[l].fields) = 6
    PROVE  /\ Row(f, l).next = l + 1
           /\ Row(f, l).bid = [instr |-> f[l].fields[2], side |-> "Bid", price |-> f[l].fields[3]]
           /\ Row(f, l).ask = [instr |-> f[l].fields[2], side |-> "Ask", price |-> f[l].fields[5]]
  <1>1. \A c \in 1 .. 5 : skip_comma(f, At(l, c)) = At(l, c + 1)
    <2> SUFFICES ASSUME NEW c \in 1 .. 5 PROVE skip_comma(f, At(l, c)) = At(l, c + 1)
      OBVIOUS
    <2>1. At(l, c).line = l /\ At(l, c).col = c
      BY DEF At
    <2>2. l <= Len(f) /\ c < Len(f[l].fields)
      OBVIOUS
    <2> QED
      BY <2>1, <2>2, Zenon DEF skip_comma
  <1>2. /\ skip_comma(f, At(l, 1)) = At(l, 2) /\ skip_comma(f, At(l, 2)) = At(l, 3)
        /\ skip_comma(f, At(l, 3)) = At(l, 4) /\ skip_comma(f, At(l, 4)) = At(l, 5)
        /\ skip_comma(f, At(l, 5)) = At(l, 6)
    BY <1>1
  <1>3. \A c \in 1 .. 6 : Field(f, At(l, c)) = f[l].fields[c]
    BY DEF Field, At
  <1>4. Min({At(l, 6).line, Len(f)}) = l
    BY MinOfTwo DEF At
  <1>5. Row(f, l) =
          [bid  |-> [instr |-> Field(f, At(l, 2)), side |-> "Bid", price |-> Field(f, At(l, 3))],
           ask  |-> [instr |-> Field(f, At(l, 2)), side |-> "Ask", price |-> Field(f, At(l, 5))],
           next |-> Min({At(l, 6).line, Len(f)}) + 1]
    BY <1>2, Zenon DEF Row
  <1> QED
    BY <1>3, <1>4, <1>5

(* For a well-formed file, then, the parser and the file agree on every    *)
(* line, and so on the whole file: both recursions are the same.           *)
LEMMA UpdatesAreStream ==
    ASSUME NEW f \in Seq(Line)
    PROVE  Updates(f) = Stream(f)
  <1>1. CASE ~WellFormed(f)
    BY <1>1 DEF Updates
  <1>2. CASE WellFormed(f)
    <2> DEFINE New(g) == g = [l \in 1 .. Len(f) + 1 |->
                   IF l > Len(f) THEN <<>> ELSE RowUpdates(f[l]) \o g[l + 1]]
               g0 == CHOOSE g : New(g)
               h0 == CHOOSE h : IsStream(h, f, 1)
    <2>1. Updates(f) = g0[1] /\ Stream(f) = h0[1]
      BY <1>2 DEF Updates, Stream, StreamFrom, IsStream
    <2>2. \A l \in 1 .. Len(f) : Parsed(f, l) = RowUpdates(f[l]) /\ NextLine(f, l) = l + 1
      <3> SUFFICES ASSUME NEW l \in 1 .. Len(f)
                   PROVE  Parsed(f, l) = RowUpdates(f[l]) /\ NextLine(f, l) = l + 1
        OBVIOUS
      <3>1. CASE f[l].header
        BY <3>1 DEF Parsed, RowUpdates, NextLine, is_header
      <3>2. CASE ~f[l].header
        <4>1. Len(f[l].fields) = 6
          BY <1>2, <3>2 DEF WellFormed
        <4>2. /\ Row(f, l).next = l + 1
              /\ Row(f, l).bid = [instr |-> f[l].fields[2], side |-> "Bid", price |-> f[l].fields[3]]
              /\ Row(f, l).ask = [instr |-> f[l].fields[2], side |-> "Ask", price |-> f[l].fields[5]]
          BY <4>1, WholeRow
        <4>3. f[l].fields[2] \in Nat /\ k_max_instruments \in Nat
          <5>1. f[l] \in Line
            BY ElementOfSeq
          <5>2. f[l].fields \in Seq(Nat)
            BY <5>1 DEF Line
          <5> QED
            BY <4>1, <5>2, BacktestAssumption, ElementOfSeq
        <4>4. NextLine(f, l) = l + 1
          BY <3>2, <4>2 DEF NextLine, is_header
        <4>5. Valid(Row(f, l)) <=> ~(\/ f[l].fields[2] >= k_max_instruments
                                    \/ f[l].fields[3] = 0 \/ f[l].fields[5] = 0)
          BY <4>2, <4>3 DEF Valid
        <4>6. Parsed(f, l) = RowUpdates(f[l])
          BY <3>2, <4>2, <4>5, Zenon DEF Parsed, RowUpdates, is_header
        <4> QED
          BY <4>4, <4>6
      <3> QED
        BY <3>1, <3>2
    <2>3. ASSUME NEW g PROVE New(g) <=> IsStream(g, f, 1)
      <3>1. \A l \in 1 .. Len(f) + 1 : ~(l > Len(f)) => l \in 1 .. Len(f)
        OBVIOUS
      <3>2. [l \in 1 .. Len(f) + 1 |-> IF l > Len(f) THEN <<>> ELSE RowUpdates(f[l]) \o g[l + 1]]
          = [l \in 1 .. Len(f) + 1 |-> IF l > Len(f) THEN <<>> ELSE Parsed(f, l) \o g[NextLine(f, l)]]
        BY <2>2, <3>1, Zenon
      <3> QED
        BY <3>2 DEF IsStream
    <2>4. g0 = h0
      BY <2>3, Zenon
    <2> QED
      BY <2>1, <2>4
  <1> QED
    BY <1>1, <1>2

-----------------------------------------------------------------------------
(* The ring, the row and the rest of the file. *)

(* Pushing moves the first update of the row to the end of the ring, and   *)
(* leaves the order of what is still to be applied as it was.              *)
LEMMA PushKeepsOrder ==
    ASSUME NEW U, NEW q \in Seq(U), NEW r \in Seq(U), NEW x \in Seq(U), r # <<>>
    PROVE  Append(q, Head(r)) \o (Tail(r) \o x) = q \o (r \o x)
  <1>1. Head(r) \in U /\ Tail(r) \in Seq(U) /\ <<Head(r)>> \in Seq(U)
    OBVIOUS
  <1>2. Append(q, Head(r)) = q \o <<Head(r)>>
    BY <1>1, AppendIsConcat
  <1>3. r = <<Head(r)>> \o Tail(r)
    <2>1. Len(<<Head(r)>> \o Tail(r)) = Len(r)
      BY <1>1
    <2>2. \A i \in 1 .. Len(r) : (<<Head(r)>> \o Tail(r))[i] = r[i]
      BY <1>1
    <2>3. <<Head(r)>> \o Tail(r) \in Seq(U)
      BY <1>1, ConcatProperties
    <2> QED
      BY <2>1, <2>2, <2>3, SeqEqual
  <1>4. Tail(r) \o x \in Seq(U)
    BY <1>1, ConcatProperties
  <1>5. (q \o <<Head(r)>>) \o (Tail(r) \o x) = q \o (<<Head(r)>> \o (Tail(r) \o x))
    BY <1>1, <1>4, ConcatAssociative
  <1>6. (<<Head(r)>> \o Tail(r)) \o x = <<Head(r)>> \o (Tail(r) \o x)
    BY <1>1, ConcatAssociative
  <1> QED
    BY <1>2, <1>3, <1>5, <1>6

(* q \o x is what s holds after its first n elements. *)
Remains(q, x, s, n) == n \in 0 .. Len(s) /\ q \o x = SubSeq(s, n + 1, Len(s))

(* Popping takes the next update of the file. *)
LEMMA PopTakesNext ==
    ASSUME NEW U, NEW q \in Seq(U), NEW x \in Seq(U), NEW s \in Seq(U),
           NEW n \in Nat, q # <<>>, Remains(q, x, s, n)
    PROVE  Head(q) = s[n + 1] /\ Remains(Tail(q), x, s, n + 1)
  <1>0. n \in 0 .. Len(s) /\ q \o x = SubSeq(s, n + 1, Len(s))
    BY DEF Remains
  <1>1. Len(q) \in Nat \ {0} /\ Len(x) \in Nat /\ Tail(q) \in Seq(U)
    OBVIOUS
  <1>2. Len(q \o x) = Len(q) + Len(x)
    BY ConcatProperties
  <1>3. n < Len(s)
    <2>1. n = Len(s) => SubSeq(s, n + 1, Len(s)) = <<>>
      BY SubSeqEmpty
    <2> QED
      BY <1>0, <1>1, <1>2, <2>1, EmptySeq
  <1>4. Head(SubSeq(s, n + 1, Len(s))) = s[n + 1]
        /\ Tail(SubSeq(s, n + 1, Len(s))) = SubSeq(s, n + 1 + 1, Len(s))
    BY <1>0, <1>3, HeadTailOfSubSeq
  <1>5. Head(q \o x) = Head(q)
    <2>1. 1 \in 1 .. Len(q) + Len(x) /\ 1 <= Len(q)
      BY <1>1
    <2>2. (q \o x)[1] = q[1]
      BY <2>1, ConcatProperties
    <2>3. q \o x \in Seq(U) /\ q \o x # <<>>
      BY <1>1, <1>2, ConcatProperties, EmptySeq
    <2> QED
      BY <2>2, <2>3
  <1>6. Tail(q \o x) = Tail(q) \o x
    <2>1. q \o x \in Seq(U) /\ q \o x # <<>>
      BY <1>1, <1>2, ConcatProperties, EmptySeq
    <2>2. Tail(q \o x) \in Seq(U) /\ Tail(q) \o x \in Seq(U)
      BY <1>1, <2>1, ConcatProperties, HeadTailProperties
    <2>3. Len(Tail(q \o x)) = Len(q) + Len(x) - 1 /\ Len(Tail(q) \o x) = Len(q) + Len(x) - 1
      BY <1>1, <1>2, <2>1, ConcatProperties, HeadTailProperties
    <2>4. ASSUME NEW i \in 1 .. Len(q) + Len(x) - 1
          PROVE  Tail(q \o x)[i] = (Tail(q) \o x)[i]
      <3>1. Tail(q \o x)[i] = (q \o x)[i + 1]
        BY <2>1, <2>3, HeadTailProperties
      <3>2. (q \o x)[i + 1] = IF i + 1 <= Len(q) THEN q[i + 1] ELSE x[i + 1 - Len(q)]
        <4>1. i + 1 \in 1 .. Len(q) + Len(x)
          BY <1>1
        <4>2. \A j \in 1 .. Len(q) + Len(x) :
                 (q \o x)[j] = IF j <= Len(q) THEN q[j] ELSE x[j - Len(q)]
          BY ConcatProperties, Zenon
        <4> QED
          BY <4>1, <4>2
      <3>3. Len(Tail(q)) = Len(q) - 1
        BY HeadTailProperties
      <3>4. (Tail(q) \o x)[i] = IF i <= Len(q) - 1 THEN Tail(q)[i] ELSE x[i - (Len(q) - 1)]
        BY <1>1, <3>3, ConcatProperties
      <3>5. i <= Len(q) - 1 => Tail(q)[i] = q[i + 1]
        BY <1>1, <3>3, HeadTailProperties
      <3>6. i + 1 - Len(q) = i - (Len(q) - 1) /\ (i + 1 <= Len(q) <=> i <= Len(q) - 1)
        BY <1>1
      <3> QED
        BY <3>1, <3>2, <3>4, <3>5, <3>6
    <2> QED
      BY <2>2, <2>3, <2>4, SeqEqual
  <1>7. n + 1 \in 0 .. Len(s)
    BY <1>3
  <1>8. Tail(q) \o x = SubSeq(s, n + 1 + 1, Len(s)) /\ Head(q) = s[n + 1]
    BY <1>0, <1>4, <1>5, <1>6, Zenon
  <1> QED
    BY <1>7, <1>8 DEF Remains

(* How many books there are to analyse. *)
LEMMA SampleCount ==
    ASSUME NEW s, Len(s) \in Nat
    PROVE  Len(Samples(s)) = Len(s) \div k_gpu_batch
                             + (IF Len(s) % k_gpu_batch # 0 THEN 1 ELSE 0)
  <1>1. PICK n \in Nat : n = Len(s)
    OBVIOUS
  <1>2. PICK k \in Nat \ {0} : k = k_gpu_batch
    BY BacktestAssumption
  <1>3. n = k * (n \div k) + (n % k) /\ n % k \in 0 .. k - 1 /\ n \div k \in Nat
    BY Z3
  <1>4. n + k - 1 = k * ((n + k - 1) \div k) + ((n + k - 1) % k)
        /\ (n + k - 1) % k \in 0 .. k - 1 /\ (n + k - 1) \div k \in Nat
    BY Z3
  <1>5. (n + k - 1) \div k = n \div k + (IF n % k # 0 THEN 1 ELSE 0)
    <2>1. PICK a \in Nat, r \in 0 .. k - 1 : a = n \div k /\ r = n % k /\ n = k * a + r
      BY <1>3
    <2>2. PICK b \in Nat, t \in 0 .. k - 1 :
            b = (n + k - 1) \div k /\ n + k - 1 = k * b + t
      BY <1>4
    <2>3. k * b + t = k * a + r + k - 1
      BY <2>1, <2>2
    <2>4. b >= a
      <3>1. b < a => k * b + k <= k * a
        BY Z3
      <3> QED
        BY <2>3, <3>1
    <2>5. b <= a + 1
      <3>1. b >= a + 2 => k * b >= k * a + k + k
        BY Z3
      <3> QED
        BY <2>3, <3>1
    <2>6. b = a => r = 0
      BY <2>3
    <2>7. b = a + 1 => r # 0
      <3>1. b = a + 1 => k * b = k * a + k
        BY Z3
      <3> QED
        BY <2>3, <3>1
    <2> QED
      BY <2>1, <2>2, <2>4, <2>5, <2>6, <2>7
  <1>6. Len(Samples(s)) = (n + k - 1) \div k
    BY <1>1, <1>2, <1>4 DEF Samples
  <1> QED
    BY <1>1, <1>2, <1>5, <1>6

(* After a full batch, the book is the next one to analyse; *)
LEMMA FullBatch ==
    ASSUME NEW s, Len(s) \in Nat, NEW n \in 1 .. Len(s), n % k_gpu_batch = 0
    PROVE  /\ n \div k_gpu_batch \in 1 .. Len(Samples(s))
           /\ Samples(s)[n \div k_gpu_batch] = BookAfter(s, n)
  <1>1. PICK len \in Nat : len = Len(s)
    OBVIOUS
  <1>2. PICK k \in Nat \ {0} : k = k_gpu_batch
    BY BacktestAssumption
  <1>3. PICK m \in Nat : m = n \div k /\ n = m * k
    <2>1. n = k * (n \div k) + (n % k) /\ n \div k \in Nat
      BY Z3
    <2> QED
      BY <1>2, <2>1
  <1>4. PICK c \in Nat : c = (len + k - 1) \div k /\ c * k >= len /\ Len(Samples(s)) = c
        /\ Samples(s) = [i \in 1 .. c |-> BookAfter(s, Min({i * k, len}))]
    <2>1. len + k - 1 = k * ((len + k - 1) \div k) + ((len + k - 1) % k)
          /\ (len + k - 1) % k \in 0 .. k - 1 /\ (len + k - 1) \div k \in Nat
      BY Z3
    <2>2. ((len + k - 1) \div k) * k >= len
      BY <2>1, Z3
    <2>3. Samples(s) = [i \in 1 .. (len + k - 1) \div k |-> BookAfter(s, Min({i * k, len}))]
      BY <1>1, <1>2 DEF Samples
    <2>4. Len(Samples(s)) = (len + k - 1) \div k
      BY <2>1, <2>3
    <2> QED
      BY <2>1, <2>2, <2>3, <2>4
  <1>5. m \in 1 .. c
    BY <1>1, <1>3, <1>4, Z3
  <1>6. Min({m * k, len}) = n
    BY <1>1, <1>3, MinOfTwo
  <1> QED
    BY <1>2, <1>3, <1>4, <1>5, <1>6

(* after the last update of a file with a trailing batch, the last one. *)
LEMMA LastBatch ==
    ASSUME NEW s, Len(s) \in Nat, Len(s) % k_gpu_batch # 0
    PROVE  /\ Len(Samples(s)) = Len(s) \div k_gpu_batch + 1
           /\ Samples(s)[Len(s) \div k_gpu_batch + 1] = BookAfter(s, Len(s))
  <1>1. PICK n \in Nat : n = Len(s)
    OBVIOUS
  <1>2. PICK k \in Nat \ {0} : k = k_gpu_batch
    BY BacktestAssumption
  <1>3. n = k * (n \div k) + (n % k) /\ n % k \in 0 .. k - 1 /\ n \div k \in Nat
    BY Z3
  <1>4. PICK m \in Nat : m = n \div k + 1 /\ m * k >= n /\ m >= 1
    <2>1. (n \div k + 1) * k >= n
      BY <1>3, Z3
    <2> QED
      BY <1>3, <2>1
  <1>5. Len(Samples(s)) = m
    BY <1>1, <1>2, <1>4, SampleCount
  <1>6. Min({m * k, n}) = n
    BY <1>4, MinOfTwo
  <1>7. Samples(s)[m] = BookAfter(s, Min({m * k, n}))
    <2>1. DOMAIN Samples(s) = 1 .. (n + k - 1) \div k /\ (n + k - 1) \div k \in Nat
      BY <1>1, <1>2, Z3 DEF Samples
    <2>2. (n + k - 1) \div k = m
      BY <1>1, <1>2, <1>5, <2>1 DEF Samples
    <2> QED
      BY <1>1, <1>2, <1>4, <2>2 DEF Samples
  <1> QED
    BY <1>1, <1>2, <1>4, <1>5, <1>6, <1>7

(* Analysing the next book of `books` after the first m of them. *)
LEMMA AnalyseNext ==
    ASSUME NEW books, IsSequence(books), NEW seen, IsSequence(seen), NEW b,
           Len(seen) + 1 \in 1 .. Len(books), b = books[Len(seen) + 1],
           \A i \in 1 .. Len(seen) : seen[i] = books[i]
    PROVE  /\ \A i \in 1 .. Len(Append(seen, b)) : Append(seen, b)[i] = books[i]
           /\ Len(Append(seen, b)) = Len(seen) + 1
           /\ RecordAll(ResultAfter(books, Len(seen)), b, Routed(Append(seen, b)))
              = ResultAfter(books, Len(seen) + 1)
  <1>1. PICK A : books \in Seq(A)
    BY DEF IsSequence
  <1>2. PICK B : seen \in Seq(B)
    BY DEF IsSequence
  <1> DEFINE S == (A \cup B) \cup {b}
  <1>3. books \in Seq(S) /\ seen \in Seq(S) /\ b \in S
    BY <1>1, <1>2, SeqMonotonic
  <1> HIDE DEF S
  <1>4. PICK m \in Nat : m = Len(seen)
    BY <1>3
  <1>5. /\ Append(seen, b) \in Seq(S) /\ Len(Append(seen, b)) = m + 1
        /\ \A i \in 1 .. m : Append(seen, b)[i] = seen[i]
        /\ Append(seen, b)[m + 1] = b
    BY <1>3, <1>4, AppendProperties
  <1>6. \A i \in 1 .. m + 1 : Append(seen, b)[i] = books[i]
    BY <1>4, <1>5
  <1>7. SubSeq(books, 1, m + 1) = Append(seen, b)
    <2>1. \A i \in 1 .. m + 1 : books[i] \in S
      BY <1>3, <1>4, ElementOfSeq
    <2>2. SubSeq(books, 1, m + 1) \in Seq(S) /\ Len(SubSeq(books, 1, m + 1)) = m + 1
          /\ \A i \in 1 .. m + 1 : SubSeq(books, 1, m + 1)[i] = books[i]
      BY <1>3, <1>4
    <2> QED
      BY <1>5, <1>6, <2>2, SeqEqual
  <1>8. Len(books) \in Nat /\ m + 1 \in 1 .. Len(books) /\ m + 1 - 1 = m
    BY <1>3, <1>4
  <1>9. ResultAfter(books, m + 1) = RecordAll(ResultAfter(books, m + 1 - 1), books[m + 1],
                                              Routed(SubSeq(books, 1, m + 1)))
    BY <1>8, ResultSteps
  <1> QED
    BY <1>4, <1>5, <1>6, <1>7, <1>8, <1>9

(* The books to analyse are a sequence. *)
LEMMA SamplesSequence ==
    ASSUME NEW s, Len(s) \in Nat
    PROVE  IsSequence(Samples(s)) /\ Len(Samples(s)) \in Nat
  <1>1. PICK c \in Nat : c = (Len(s) + k_gpu_batch - 1) \div k_gpu_batch
    <2>1. PICK n \in Nat, k \in Nat \ {0} : n = Len(s) /\ k = k_gpu_batch
      BY BacktestAssumption
    <2>2. (n + k - 1) \div k \in Nat
      BY Z3
    <2> QED
      BY <2>1, <2>2
  <1> DEFINE B == {BookAfter(s, Min({i * k_gpu_batch, Len(s)})) : i \in 1 .. c}
  <1>2. Samples(s) \in [1 .. c -> B]
    BY <1>1 DEF Samples
  <1>3. Samples(s) \in Seq(B) /\ Len(Samples(s)) = c
    <2> HIDE DEF B
    <2> QED
      BY <1>2
  <1> QED
    BY <1>3 DEF IsSequence

(* What is still to be applied: the ring, then the row, then the lines not *)
(* yet parsed are the file's updates after the first local_count.          *)
InFileOrder ==
    queue \o (row \o StreamFrom(file, line))
        = SubSeq(Stream(file), local_count + 1, Len(Stream(file)))

(* Where the parser is, and that it stops only before the first line (the  *)
(* file cannot be opened) or after the last.                               *)
FlowInv ==
    /\ file \in Seq(Line) /\ line \in 1 .. Len(file) + 1
    /\ row \in Seq(FileUpdates(file)) /\ queue \in Seq(FileUpdates(file))
    /\ local_count \in 0 .. Len(Stream(file))
    /\ InFileOrder
    /\ line = 1 => local_count = 0 /\ queue = <<>> /\ row = <<>>
    /\ finished => line \in {1, Len(file) + 1}

(* What has been applied and analysed: what the file says so far. *)
ResultInv ==
    LET books == Samples(Stream(file))
    IN  /\ book = BookAfter(Stream(file), local_count)
        /\ Len(analysed) <= Len(books)
        /\ \A i \in 1 .. Len(analysed) : analysed[i] = books[i]
        /\ pnl = ResultAfter(books, Len(analysed))

(* The updates of a file, and what is left of them, are sequences. *)
LEMMA StreamFacts ==
    ASSUME NEW f \in Seq(Line)
    PROVE  /\ Len(f) \in Nat
           /\ Stream(f) \in Seq(FileUpdates(f)) /\ Len(Stream(f)) \in Nat
           /\ \A l \in 1 .. Len(f) + 1 : StreamFrom(f, l) \in Seq(FileUpdates(f))
  <1>1. Len(f) \in Nat
    OBVIOUS
  <1>2. \A l \in 1 .. Len(f) + 1 : StreamFrom(f, l) \in Seq(FileUpdates(f))
    BY <1>1, StreamTyped
  <1>3. Stream(f) \in Seq(FileUpdates(f))
    BY <1>1, <1>2 DEF Stream
  <1> QED
    BY <1>1, <1>2, <1>3

(* At the start everything is still to be applied. *)
LEMMA FlowInitially == Init => FlowInv /\ ResultInv
  <1> SUFFICES ASSUME Init PROVE FlowInv /\ ResultInv
    OBVIOUS
  <1>1. /\ file \in Seq(Line) /\ line = 1 /\ row = <<>> /\ queue = <<>> /\ local_count = 0
        /\ book = EmptyBook /\ analysed = <<>> /\ pnl = NewTracker /\ finished = FALSE
    BY FilesAssumption DEF Init, ReplayInit, ring!FifoInit
  <1>2. PICK s : s = Stream(file)
    OBVIOUS
  <1>3. s \in Seq(FileUpdates(file)) /\ Len(s) \in Nat /\ Len(file) \in Nat
    BY <1>1, <1>2, StreamFacts
  <1>4. <<>> \o (<<>> \o s) = s /\ SubSeq(s, 0 + 1, Len(s)) = s
    <2>1. <<>> \o s = s
      BY <1>3, ConcatEmptySeq
    <2>2. SubSeq(s, 1, Len(s)) = s
      BY <1>3, SubSeqFull
    <2> QED
      BY <2>1, <2>2
  <1>5. FlowInv
    <2>1. InFileOrder
      BY <1>1, <1>2, <1>4 DEF InFileOrder, Stream
    <2> QED
      BY <1>1, <1>2, <1>3, <2>1 DEF FlowInv
  <1>6. ResultInv
    <2>1. BookAfter(s, 0) = EmptyBook
      BY <1>3, BookSteps
    <2>2. Len(Samples(s)) \in Nat
      BY <1>3, SamplesSequence
    <2>3. ResultAfter(Samples(s), 0) = NewTracker
      BY <2>2, ResultSteps
    <2> QED
      BY <1>1, <1>2, <2>1, <2>2, <2>3 DEF ResultInv
  <1> QED
    BY <1>5, <1>6

-----------------------------------------------------------------------------
(* The steps. *)

(* The variables of FlowInv, and those of ResultInv. *)
Flow == <<file, line, row, finished, queue, local_count>>
Results == <<file, book, local_count, analysed, pnl>>

(* What a step leaves alone is what it was. *)
LEMMA FlowUnchanged == FlowInv /\ UNCHANGED Flow => FlowInv'
  BY DEF FlowInv, Flow, InFileOrder

(* The same for what the consumer keeps. *)
LEMMA ResultsUnchanged == ResultInv /\ UNCHANGED Results => ResultInv'
  BY DEF ResultInv, Results

(* The replay thread keeps the order: what it parses it puts in the row,   *)
(* what it takes from the row it puts in the ring.                         *)
LEMMA FlowReplay == IInv /\ FlowInv /\ Replay => FlowInv'
  <1> SUFFICES ASSUME IInv, FlowInv, Replay PROVE FlowInv'
    OBVIOUS
  <1>1. UNCHANGED <<file, local_count>>
    BY DEF Replay, ReplayStep, OpenFails, ParseRow, PushUpdate, Finish, consumer
  <1>2. PICK f \in Seq(Line), l \in Nat : f = file /\ l = line /\ l \in 1 .. Len(f) + 1
    BY DEF FlowInv
  <1>3. PICK U : U = FileUpdates(f)
    OBVIOUS
  <1>4. PICK s \in Seq(U), n \in Nat :
             s = Stream(f) /\ n = local_count /\ n \in 0 .. Len(s)
    BY <1>2, <1>3, StreamFacts DEF FlowInv
  <1>5. PICK q \in Seq(U), r \in Seq(U), x \in Seq(U) : q = queue /\ r = row /\ x = StreamFrom(f, l)
    BY <1>2, <1>3, StreamFacts DEF FlowInv
  <1>6. q \o (r \o x) = SubSeq(s, n + 1, Len(s))
    BY <1>2, <1>4, <1>5 DEF FlowInv, InFileOrder
  <1>7. Len(f) \in Nat
    BY <1>2
  <1>8. CASE OpenFails \/ Finish
    <2>1. UNCHANGED <<line, row, queue>> /\ (line = 1 \/ line = Len(file) + 1)
      BY <1>2, <1>7, <1>8 DEF OpenFails, Finish
    <2>2. InFileOrder'
      BY <1>1, <2>1 DEF FlowInv, InFileOrder
    <2> QED
      BY <1>1, <2>1, <2>2 DEF FlowInv
  <1>9. CASE ParseRow
    <2>1. /\ line' = NextLine(f, l) /\ row' = Parsed(f, l) /\ r = <<>> /\ l \in 1 .. Len(f)
          /\ queue' = q /\ UNCHANGED finished /\ ~finished
      BY <1>2, <1>5, <1>7, <1>9 DEF ParseRow
    <2>2. NextLine(f, l) \in l + 1 .. Len(f) + 1
      BY <1>7, <2>1, RowForward
    <2>3. Parsed(f, l) \in Seq(U)
      BY <1>3, <2>1, ParsedTyped
    <2>4. r \o x = Parsed(f, l) \o StreamFrom(f, NextLine(f, l))
      <3>1. r \o x = x
        BY <2>1, ConcatEmptySeq
      <3> QED
        BY <1>5, <1>7, <2>1, <3>1, StreamSteps
    <2>5. InFileOrder'
      BY <1>1, <1>2, <1>4, <1>6, <2>1, <2>4 DEF InFileOrder
    <2>6. line' # 1 /\ line' \in 1 .. Len(f) + 1
      BY <1>7, <2>1, <2>2
    <2> QED
      BY <1>1, <1>2, <1>3, <1>4, <2>1, <2>3, <2>5, <2>6 DEF FlowInv
  <1>10. CASE PushUpdate
    <2>1. /\ r # <<>> /\ queue' = Append(q, Head(r)) /\ row' = Tail(r)
          /\ UNCHANGED <<line, finished>>
      BY <1>5, <1>10 DEF PushUpdate, ring!Push
    <2>2. Append(q, Head(r)) \in Seq(U) /\ Tail(r) \in Seq(U)
      BY <2>1
    <2>3. Append(q, Head(r)) \o (Tail(r) \o x) = q \o (r \o x)
      BY <2>1, PushKeepsOrder
    <2>4. InFileOrder'
      BY <1>1, <1>2, <1>4, <1>5, <1>6, <2>1, <2>3 DEF InFileOrder
    <2>5. line # 1
      BY <1>5, <2>1 DEF FlowInv
    <2> QED
      BY <1>1, <1>2, <1>3, <1>4, <2>1, <2>2, <2>4, <2>5 DEF FlowInv
  <1> QED
    BY <1>8, <1>9, <1>10 DEF Replay, ReplayStep

(* Popping an update applies the next one of the file, and after a full    *)
(* batch the book is the next one to analyse.                              *)
LEMMA FlowPop == IInv /\ FlowInv /\ ResultInv /\ PopUpdate => FlowInv' /\ ResultInv'
  <1> SUFFICES ASSUME IInv, FlowInv, ResultInv, PopUpdate PROVE FlowInv' /\ ResultInv'
    OBVIOUS
  <1>1. UNCHANGED <<file, line, row, finished>>
    BY DEF PopUpdate, replay
  <1>2. CASE queue = <<>>
    <2>1. UNCHANGED <<queue, book, local_count, analysed, pnl>>
      BY <1>2 DEF PopUpdate
    <2> QED
      BY <1>1, <2>1, FlowUnchanged, ResultsUnchanged DEF Flow, Results
  <1>3. CASE queue # <<>>
    <2>1. PICK f \in Seq(Line), l \in Nat : f = file /\ l = line /\ l \in 1 .. Len(f) + 1
      BY DEF FlowInv
    <2>2. PICK U : U = FileUpdates(f)
      OBVIOUS
    <2>3. PICK s \in Seq(U), n \in Nat :
             s = Stream(f) /\ n = local_count /\ n \in 0 .. Len(s)
      BY <2>1, <2>2, StreamFacts DEF FlowInv
    <2>4. PICK q \in Seq(U), r \in Seq(U), y \in Seq(U) :
             q = queue /\ r = row /\ y = StreamFrom(f, l)
      BY <2>1, <2>2, StreamFacts DEF FlowInv
    <2>5. q \o (r \o y) = SubSeq(s, n + 1, Len(s)) /\ r \o y \in Seq(U)
      BY <2>1, <2>3, <2>4, ConcatProperties DEF FlowInv, InFileOrder
    <2>6. /\ queue' = Tail(q) /\ u' = Head(q) /\ book' = apply(book, u')
          /\ local_count' = n + 1 /\ q # <<>>
      BY <1>3, <2>3, <2>4 DEF PopUpdate, ring!Pop
    <2>7. /\ n + 1 \in 1 .. Len(s) /\ Head(q) = s[n + 1]
          /\ Tail(q) \o (r \o y) = SubSeq(s, n + 2, Len(s))
      <3>1. PICK w \in Seq(U) : w = r \o y
        BY <2>5
      <3>2. /\ q \in Seq(U) /\ w \in Seq(U) /\ s \in Seq(U) /\ n \in Nat
            /\ q # <<>> /\ Remains(q, w, s, n)
        BY <2>3, <2>4, <2>5, <2>6, <3>1 DEF Remains
      <3>3. Head(q) = s[n + 1] /\ Remains(Tail(q), w, s, n + 1)
        BY ONLY <3>2, PopTakesNext, Zenon
      <3>4. n + 1 \in 1 .. Len(s) /\ Tail(q) \o w = SubSeq(s, n + 2, Len(s))
        <4>1. n + 1 + 1 = n + 2
          OBVIOUS
        <4>2. n + 1 \in 0 .. Len(s) /\ Tail(q) \o w = SubSeq(s, n + 1 + 1, Len(s))
          BY <3>3, Zenon DEF Remains
        <4>3. n \in Nat /\ Len(s) \in Nat
          BY <2>3
        <4>4. n + 1 \in 1 .. Len(s)
          BY <4>2, <4>3
        <4> QED
          BY <4>1, <4>2, <4>4, Zenon
      <3> QED
        BY <3>1, <3>3, <3>4
    <2>8. FlowInv'
      <3>1. n + 1 + 1 = n + 2
        OBVIOUS
      <3>2. InFileOrder'
        BY <1>1, <2>1, <2>3, <2>4, <2>6, <2>7, <3>1 DEF InFileOrder
      <3>3. Tail(q) \in Seq(U)
        BY <2>6
      <3>4. line # 1
        BY <1>3 DEF FlowInv
      <3> QED
        BY <1>1, <2>1, <2>2, <2>3, <2>6, <2>7, <3>2, <3>3, <3>4 DEF FlowInv
    <2>9. ResultInv'
      <3>1. book' = BookAfter(s, n + 1)
        <4>1. BookAfter(s, n + 1) = apply(BookAfter(s, n + 1 - 1), s[n + 1]) /\ n + 1 - 1 = n
          BY <2>7, BookSteps
        <4> QED
          BY <2>1, <2>3, <2>6, <2>7, <4>1 DEF ResultInv
      <3>2. PICK books : books = Samples(s)
        OBVIOUS
      <3>3. /\ IsSequence(analysed) /\ Len(analysed) <= Len(books)
            /\ \A i \in 1 .. Len(analysed) : analysed[i] = books[i]
            /\ pnl = ResultAfter(books, Len(analysed))
        BY <2>1, <2>3, <3>2 DEF ResultInv, IInv
      <3>4. CASE (n + 1) % k_gpu_batch = 0
        <4>1. analysed' = Append(analysed, book') /\ pnl' = RecordAll(pnl, book', Routed(analysed'))
          BY <1>3, <2>6, <3>4 DEF PopUpdate, process_signal
        <4>2. (n + 1) \div k_gpu_batch \in 1 .. Len(books)
              /\ books[(n + 1) \div k_gpu_batch] = BookAfter(s, n + 1)
          BY <2>7, <3>2, <3>4, FullBatch
        <4>3. Len(analysed) + 1 = (n + 1) \div k_gpu_batch
          <5>1. cpc = "pop"
            BY DEF PopUpdate
          <5>2. Len(analysed) = n \div k_gpu_batch
            <6>1. n \div k_gpu_batch \in Int
              BY BacktestAssumption
            <6> QED
              BY <2>3, <5>1, <6>1 DEF IInv, Batches
          <5>3. (n + 1) \div k_gpu_batch = n \div k_gpu_batch + 1
            BY <3>4, NextBatch, BacktestAssumption
          <5> QED
            BY <5>2, <5>3
        <4>4. IsSequence(books)
          BY <3>2, SamplesSequence
        <4>5. book' = books[Len(analysed) + 1] /\ Len(analysed) + 1 \in 1 .. Len(books)
          BY <3>1, <4>2, <4>3
        <4>6. /\ \A i \in 1 .. Len(analysed') : analysed'[i] = books[i]
              /\ Len(analysed') = Len(analysed) + 1
              /\ RecordAll(ResultAfter(books, Len(analysed)), book', Routed(analysed'))
                 = ResultAfter(books, Len(analysed) + 1)
          BY <3>3, <4>1, <4>4, <4>5, AnalyseNext
        <4>7. pnl' = ResultAfter(books, Len(analysed'))
          BY <3>3, <4>1, <4>6
        <4>8. Len(analysed') <= Len(books)
          BY <4>2, <4>3, <4>6
        <4> QED
          BY <1>1, <2>1, <2>3, <2>6, <3>1, <3>2, <4>6, <4>7, <4>8 DEF ResultInv
      <3>5. CASE (n + 1) % k_gpu_batch # 0
        <4>1. UNCHANGED <<analysed, pnl>>
          BY <1>3, <2>6, <3>5 DEF PopUpdate
        <4> QED
          BY <1>1, <2>1, <2>3, <2>6, <3>1, <3>2, <3>3, <4>1 DEF ResultInv
      <3> QED
        BY <3>4, <3>5
    <2> QED
      BY <2>8, <2>9
  <1> QED
    BY <1>2, <1>3

(* When the loop is over and the file was read, every update is applied. *)
LEMMA AllApplied ==
    ASSUME IInv, FlowInv, cpc \in {"flush", "done"}, line # 1
    PROVE  local_count = Len(Stream(file))
  <1>1. PICK f \in Seq(Line) : f = file
    BY DEF FlowInv
  <1>2. PICK U : U = FileUpdates(f)
    OBVIOUS
  <1>3. PICK s \in Seq(U), n \in Nat :
             s = Stream(f) /\ n = local_count /\ n \in 0 .. Len(s)
    BY <1>1, <1>2, StreamFacts DEF FlowInv
  <1>4. line = Len(f) + 1 /\ queue = <<>> /\ row = <<>>
    BY <1>1 DEF FlowInv, IInv, LoopInv, ReplayOver
  <1>5. StreamFrom(f, Len(f) + 1) = <<>>
    BY StreamSteps
  <1>6. <<>> \o (<<>> \o <<>>) = SubSeq(s, n + 1, Len(s))
    BY <1>1, <1>3, <1>4, <1>5 DEF FlowInv, InFileOrder
  <1>7. SubSeq(s, n + 1, Len(s)) = <<>>
    BY <1>6
  <1>8. n < Len(s) => Len(SubSeq(s, n + 1, Len(s))) # 0
    BY <1>3
  <1> QED
    <2>1. Len(SubSeq(s, n + 1, Len(s))) = 0
      <3>1. Len(<<>>) = 0
        OBVIOUS
      <3> QED
        BY <1>7, <3>1, Zenon
    <2>2. Len(s) \in Nat /\ n <= Len(s)
      BY <1>3
    <2>3. n = Len(s)
      BY <1>8, <2>1, <2>2
    <2> QED
      BY <1>1, <1>3, <2>3

(* The trailing batch analyses the last book. *)
LEMMA ResultFlush == IInv /\ FlowInv /\ ResultInv /\ Flush => ResultInv'
  <1> SUFFICES ASSUME IInv, FlowInv, ResultInv, Flush PROVE ResultInv'
    OBVIOUS
  <1>1. UNCHANGED <<file, book, local_count>> /\ cpc = "flush"
    BY DEF Flush, replay
  <1>2. CASE local_count % k_gpu_batch = 0
    <2>1. UNCHANGED <<analysed, pnl>>
      BY <1>2 DEF Flush
    <2> QED
      BY <1>1, <2>1, ResultsUnchanged DEF Results
  <1>3. CASE local_count % k_gpu_batch # 0
    <2>1. analysed' = Append(analysed, book) /\ pnl' = RecordAll(pnl, book, Routed(analysed'))
      BY <1>3 DEF Flush, process_signal
    <2>2. line # 1
      <3>1. 0 % k_gpu_batch = 0
        BY BacktestAssumption
      <3> QED
        BY <1>3, <3>1 DEF FlowInv
    <2>3. PICK s : s = Stream(file) /\ Len(s) \in Nat
      BY StreamFacts DEF FlowInv
    <2>4. local_count = Len(s)
      BY <1>1, <2>2, <2>3, AllApplied
    <2>5. PICK books : books = Samples(s)
      OBVIOUS
    <2>6. /\ IsSequence(analysed) /\ Len(analysed) <= Len(books)
          /\ \A i \in 1 .. Len(analysed) : analysed[i] = books[i]
          /\ pnl = ResultAfter(books, Len(analysed)) /\ book = BookAfter(s, Len(s))
      BY <2>3, <2>4, <2>5 DEF ResultInv, IInv
    <2>7. Len(books) = Len(s) \div k_gpu_batch + 1
          /\ books[Len(s) \div k_gpu_batch + 1] = BookAfter(s, Len(s))
      BY <1>3, <2>3, <2>4, <2>5, LastBatch
    <2>8. Len(s) \div k_gpu_batch \in Nat
      <3>1. PICK n \in Nat, k \in Nat \ {0} : n = Len(s) /\ k = k_gpu_batch
        BY <2>3, BacktestAssumption
      <3>2. n \div k \in Nat
        BY Z3
      <3> QED
        BY <3>1, <3>2
    <2>9. Len(analysed) = Len(s) \div k_gpu_batch
      BY <1>1, <2>4, <2>8 DEF IInv, Batches
    <2>10. IsSequence(books) /\ book = books[Len(analysed) + 1]
           /\ Len(analysed) + 1 \in 1 .. Len(books)
      <3>1. IsSequence(books)
        BY <2>3, <2>5, SamplesSequence
      <3>2. Len(analysed) + 1 \in 1 .. Len(books)
        BY <2>7, <2>8, <2>9
      <3> QED
        BY <2>6, <2>7, <2>9, <3>1, <3>2
    <2>11. /\ \A i \in 1 .. Len(analysed') : analysed'[i] = books[i]
           /\ Len(analysed') = Len(analysed) + 1
           /\ RecordAll(ResultAfter(books, Len(analysed)), book, Routed(analysed'))
              = ResultAfter(books, Len(analysed) + 1)
      BY <2>1, <2>6, <2>10, AnalyseNext
    <2>12. pnl' = ResultAfter(books, Len(analysed'))
      BY <2>1, <2>6, <2>11
    <2>13. Len(analysed') <= Len(books)
      BY <2>7, <2>8, <2>9, <2>11
    <2> QED
      BY <1>1, <2>3, <2>4, <2>5, <2>6, <2>11, <2>12, <2>13 DEF ResultInv
  <1> QED
    BY <1>2, <1>3

(* The three invariants together are inductive. *)
LEMMA FlowNext == IInv /\ FlowInv /\ ResultInv /\ [Next]_vars => (IInv /\ FlowInv /\ ResultInv)'
  <1> SUFFICES ASSUME IInv, FlowInv, ResultInv, [Next]_vars PROVE (IInv /\ FlowInv /\ ResultInv)'
    OBVIOUS
  <1>1. CASE Replay
    <2>1. UNCHANGED Results
      BY <1>1 DEF Replay, ReplayStep, OpenFails, ParseRow, PushUpdate, Finish, consumer, Results
    <2> QED
      BY <1>1, <2>1, ReplayPreserves, FlowReplay, ResultsUnchanged
  <1>2. CASE LoopCondition \/ UNCHANGED vars
    <2>1. UNCHANGED Flow /\ UNCHANGED Results
      BY <1>2 DEF LoopCondition, vars, consumer, replay, Flow, Results
    <2>2. IInv /\ UNCHANGED vars => IInv'
      BY DEF IInv, ReplayOver, LoopInv, Batches, vars, replay, consumer
    <2> QED
      BY <1>2, <2>1, <2>2, ConditionPreserves, FlowUnchanged, ResultsUnchanged
  <1>3. CASE PopUpdate
    BY <1>3, PopPreserves, FlowPop
  <1>4. CASE Flush
    <2>1. UNCHANGED Flow
      BY <1>4 DEF Flush, replay, Flow
    <2> QED
      BY <1>4, <2>1, FlushPreserves, FlowUnchanged, ResultFlush
  <1> QED
    BY <1>1, <1>2, <1>3, <1>4 DEF Next, Consume

(* When the program has reached its report, the invariants say what it     *)
(* analysed and what it booked.                                            *)
LEMMA ReportedIsTheFile == IInv /\ FlowInv /\ ResultInv => Reproducible
  <1> SUFFICES ASSUME IInv, FlowInv, ResultInv, cpc = "done"
               PROVE  LET books == Samples(IF line = 1 THEN <<>> ELSE Updates(file))
                      IN  analysed = books /\ pnl = Result(books)
    BY DEF Reproducible
  <1>1. PICK s : s = Stream(file) /\ Len(s) \in Nat
    BY StreamFacts DEF FlowInv
  <1>2. Updates(file) = s
    BY <1>1, UpdatesAreStream DEF FlowInv
  <1>3. PICK t : t = IF line = 1 THEN <<>> ELSE s
    OBVIOUS
  <1>4. Len(t) \in Nat /\ local_count = Len(t)
    <2>1. CASE line = 1
      BY <1>3, <2>1 DEF FlowInv
    <2>2. CASE line # 1
      BY <1>1, <1>3, <2>2, AllApplied
    <2> QED
      BY <2>1, <2>2
  <1>5. Len(analysed) = Len(Samples(t)) /\ IsSequence(analysed)
        /\ IsSequence(Samples(t)) /\ Len(Samples(t)) \in Nat
    <2>1. Len(Samples(t)) = Len(t) \div k_gpu_batch
                            + (IF Len(t) % k_gpu_batch # 0 THEN 1 ELSE 0)
      BY <1>4, SampleCount
    <2>2. Len(analysed) = Len(Samples(t))
      BY <1>4, <2>1 DEF IInv, Batches
    <2> QED
      BY <1>4, <2>2, SamplesSequence DEF IInv
  <1>6. CASE line = 1
    <2>1. t = <<>> /\ Len(t) = 0
      BY <1>3, <1>6
    <2>2. Len(analysed) = 0
      <3>1. 0 \div k_gpu_batch = 0 /\ 0 % k_gpu_batch = 0
        BY BacktestAssumption
      <3> QED
        BY <1>4, <2>1, <3>1 DEF IInv, Batches
    <2>3. analysed = <<>> /\ Samples(t) = <<>>
      BY <1>5, <2>2, EmptySeq DEF IsSequence
    <2>4. ResultAfter(<<>>, 0) = NewTracker
      <3>1. Len(<<>>) = 0
        OBVIOUS
      <3> QED
        BY <3>1, ResultSteps
    <2>5. pnl = NewTracker
      <3>1. Len(Samples(s)) \in Nat
        BY <1>1, SamplesSequence
      <3>2. ResultAfter(Samples(s), 0) = NewTracker
        BY <3>1, ResultSteps
      <3> QED
        BY <1>1, <2>2, <3>2 DEF ResultInv
    <2>6. Result(<<>>) = NewTracker
      BY <2>4 DEF Result
    <2> QED
      BY <1>3, <1>6, <2>1, <2>3, <2>5, <2>6
  <1>7. CASE line # 1
    <2>1. t = s
      BY <1>3, <1>7
    <2>2. \A i \in 1 .. Len(analysed) : analysed[i] = Samples(t)[i]
      BY <1>1, <2>1 DEF ResultInv
    <2>3. analysed = Samples(t)
      <3>1. PICK A, B : analysed \in Seq(A) /\ Samples(t) \in Seq(B)
        BY <1>5 DEF IsSequence
      <3>2. analysed \in Seq(A \cup B) /\ Samples(t) \in Seq(A \cup B)
        BY <3>1, SeqMonotonic
      <3> QED
        BY <1>5, <2>2, <3>2, SeqEqual
    <2>4. pnl = Result(Samples(t))
      BY <1>1, <1>5, <2>1 DEF ResultInv, Result
    <2> QED
      BY <1>2, <1>7, <2>1, <2>3, <2>4
  <1> QED
    BY <1>6, <1>7

(* The backtest is reproducible, for every file, batch size, ring size,    *)
(* routing and cost function: whatever the speed of the two threads, the   *)
(* analysed books and the booked returns are those of the file (the loop   *)
(* of main and CsvReplayHandler::run).                                     *)
THEOREM RunsReproducible == Spec => []Reproducible
  BY Initially, FlowInitially, FlowNext, ReportedIsTheFile, PTL DEF Spec
=============================================================================
