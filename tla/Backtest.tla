------------------------------ MODULE Backtest ------------------------------
(***************************************************************************)
(* The backtest program (engine/app/main_backtest.cpp): the main thread    *)
(* pops the updates the replay thread pushes, applies them to the book,    *)
(* runs the pipeline on every k_gpu_batch-th of them and once more on the  *)
(* trailing partial batch, and books the routed edges.                     *)
(*                                                                         *)
(* Pipeline and router run in the same thread as the loop: what they route *)
(* is a function of the books analysed so far (Routed).  A baseline is the *)
(* sequence of price ratios it was updated with, which determines its mean *)
(* and deviation; NetReturn is the return record computes from it, 0 when  *)
(* the costs exceed it.                                                    *)
(***************************************************************************)
EXTENDS CsvReplay

CONSTANTS n_instruments, k_gpu_batch, Routed(_), NetReturn(_, _, _)

ASSUME BacktestAssumption ==
    /\ n_instruments \in Nat \ {0} /\ k_gpu_batch \in Nat \ {0}
    /\ RingLimit \in Nat \ {0} /\ k_max_instruments \in Nat

VARIABLES cpc,                  \* check | drained | pop | flush | done
          book, local_count,
          analysed,             \* the books run_once has seen
          pnl                   \* PnlTracker: baselines, ticks, filtered

consumer == <<cpc, book, local_count, analysed, pnl>>
vars == <<replay, queue, u, consumer>>

Instruments == 0 .. n_instruments - 1

EmptyBook == [i \in Instruments |-> [Bid |-> 100, Ask |-> 100]]
NewTracker == [baselines |-> [p \in Instruments \X Instruments |-> <<>>],
               ticks |-> <<>>, filtered |-> 0]

Init == /\ ReplayInit
        /\ cpc = "check" /\ book = EmptyBook /\ local_count = 0
        /\ analysed = <<>> /\ pnl = NewTracker

-----------------------------------------------------------------------------
(* LobSoA::apply; an instrument the book does not have is ignored. *)
apply(b, x) == IF x.instr < n_instruments THEN [b EXCEPT ![x.instr][x.side] = x.price] ELSE b

(* Twice the mid price. *)
mid_price(b, i) == b[i].Bid + b[i].Ask

(* The first sighting of a pair only warms its baseline. *)
record(t, b, edge) ==
    LET pair == <<edge.src, edge.dst>>
        seen == Append(t.baselines[pair], <<mid_price(b, edge.dst), mid_price(b, edge.src)>>)
        net  == IF Len(seen) = 1 THEN 0 ELSE NetReturn(seen, edge.flow, b[edge.src])
    IN  [baselines |-> [t.baselines EXCEPT ![pair] = seen],
         ticks     |-> IF net = 0 THEN t.ticks ELSE Append(t.ticks, net),
         filtered  |-> IF net = 0 THEN t.filtered + 1 ELSE t.filtered]

RecordAll(t, b, edges) == FoldLeft(LAMBDA r, e : record(r, b, e), t, edges)

process_signal(b) ==
    /\ analysed' = Append(analysed, b)
    /\ pnl' = RecordAll(pnl, b, Routed(analysed'))

(* As LoopCondition, with the two tests in the other order. *)
DrainedBeforeFinished ==
    /\ \/ cpc = "check" /\ cpc' = IF queue = <<>> THEN "drained" ELSE "pop"
       \/ cpc = "drained" /\ cpc' = IF finished THEN "flush" ELSE "pop"
    /\ UNCHANGED <<replay, queue, u, book, local_count, analysed, pnl>>

(* while (!replay.finished() || !ring.empty()): two loads, in this order. *)
LoopCondition ==
    /\ \/ cpc = "check" /\ cpc' = IF finished THEN "drained" ELSE "pop"
       \/ cpc = "drained" /\ cpc' = IF queue = <<>> THEN "flush" ELSE "pop"
    /\ UNCHANGED <<replay, queue, u, book, local_count, analysed, pnl>>

(* try_pop: apply the update, and analyse the book after a full batch. *)
PopUpdate ==
    /\ cpc = "pop" /\ cpc' = "check"
    /\ IF queue = <<>>
       THEN UNCHANGED <<queue, u, book, local_count, analysed, pnl>>
       ELSE /\ ring!Pop
            /\ book' = apply(book, u')
            /\ local_count' = local_count + 1
            /\ IF local_count' % k_gpu_batch = 0
               THEN process_signal(book') ELSE UNCHANGED <<analysed, pnl>>
    /\ UNCHANGED replay

(* The trailing partial batch, then the report. *)
Flush ==
    /\ cpc = "flush" /\ cpc' = "done"
    /\ IF local_count % k_gpu_batch # 0
       THEN process_signal(book) ELSE UNCHANGED <<analysed, pnl>>
    /\ UNCHANGED <<replay, queue, u, book, local_count>>

Consume == LoopCondition \/ PopUpdate \/ Flush

Replay == ReplayStep /\ UNCHANGED consumer

Next == Replay \/ Consume

(* The operating system runs both threads. *)
Spec == Init /\ [][Next]_vars /\ WF_vars(Replay) /\ WF_vars(Consume)

-----------------------------------------------------------------------------
(* What a file means.  If every row has six fields, its updates are those  *)
(* of its valid rows; otherwise a short row swallows the row after it, and *)
(* the updates are what the parser makes of it.                            *)
WellFormed(f) == \A l \in 1 .. Len(f) : f[l].header \/ Len(f[l].fields) = 6

RowUpdates(x) ==
    IF x.header \/ x.fields[2] >= k_max_instruments \/ x.fields[3] = 0 \/ x.fields[5] = 0
    THEN <<>>
    ELSE <<[instr |-> x.fields[2], side |-> "Bid", price |-> x.fields[3]],
           [instr |-> x.fields[2], side |-> "Ask", price |-> x.fields[5]]>>

Updates(f) ==
    LET from[l \in 1 .. Len(f) + 1] ==
            IF l > Len(f) THEN <<>> ELSE RowUpdates(f[l]) \o from[l + 1]
    IN  IF WellFormed(f) THEN from[1] ELSE Stream(f)

(* The book after the first n updates of s. *)
BookAfter(s, n) ==
    LET after[i \in 0 .. Len(s)] ==
            IF i = 0 THEN EmptyBook ELSE apply(after[i - 1], s[i])
    IN  after[n]

(* The books to analyse: after every full batch, and after the last update.*)
Samples(s) ==
    [i \in 1 .. (Len(s) + k_gpu_batch - 1) \div k_gpu_batch |->
        BookAfter(s, Min({i * k_gpu_batch, Len(s)}))]

(* The tracker after the analysis of the first n books. *)
ResultAfter(books, n) ==
    LET after[i \in 0 .. Len(books)] ==
            IF i = 0 THEN NewTracker
            ELSE RecordAll(after[i - 1], books[i], Routed(SubSeq(books, 1, i)))
    IN  after[n]

Result(books) == ResultAfter(books, Len(books))

(* The backtest is reproducible: whatever the speed of the two threads and *)
(* however often the ring was full, the analysed books and the result are  *)
(* a function of the file (comment in main: one run_once per batch "in     *)
(* file order, regardless of how fast/slow the GPU happens to run").       *)
Reproducible ==
    cpc = "done" =>
        LET books == Samples(IF line = 1 THEN <<>> ELSE Updates(file))
        IN  analysed = books /\ pnl = Result(books)

(* Every k_gpu_batch-th applied update causes exactly one analysis, the    *)
(* trailing partial batch one more, and the loop ends only when the replay *)
(* has pushed its last update and that update has been applied.            *)
EachBatchOnce ==
    /\ Len(analysed) = local_count \div k_gpu_batch
                       + (IF cpc = "done" /\ local_count % k_gpu_batch # 0 THEN 1 ELSE 0)
    /\ cpc \in {"flush", "done"} => finished /\ queue = <<>> /\ row = <<>>

(* The program comes to its report, also if the file cannot be opened. *)
BacktestEnds == <>(cpc = "done")
=============================================================================
