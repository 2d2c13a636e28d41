----------------------------- MODULE SignalPath -----------------------------
(***************************************************************************)
(* From signal to orders: the pipeline thread (CudaPipeline) and the main  *)
(* loop of engine/app/main_live.cpp, which polls last_signal(), routes a   *)
(* new signal over last_topology() (SignalRouter) and starts on_signal for *)
(* each routed edge.  The two threads share the history and the host       *)
(* buffers and nothing keeps them apart.                                   *)
(*                                                                         *)
(* The engine's answers to is_halted, is_at_capacity and the position      *)
(* limit are inputs.                                                       *)
(***************************************************************************)
EXTENDS SignalRouter

VARIABLES write_idx,    \* last_signal(): the index it loaded
          last_sig_ts,
          spawned       \* legs of the on_signal calls of this batch

mainvars == <<mpc, sig, router, write_idx, last_sig_ts, spawned>>
vars == <<pipeline, mainvars>>

Init == /\ PipelineInit /\ RouterInit
        /\ mpc = "poll" /\ sig = NoRecord
        /\ write_idx = 0 /\ last_sig_ts = 0 /\ spawned = <<>>

-----------------------------------------------------------------------------
(* last_signal(), for the loop itself: load the index, copy the record. *)
Poll ==
    /\ mpc = "poll"
    /\ write_idx' = signal_write_idx
    /\ mpc' = "stamp"
    /\ spawned' = <<>>
    /\ UNCHANGED <<sig, router, last_sig_ts>>

ReadStamp ==
    /\ mpc = "stamp"
    /\ sig' = [sig EXCEPT !.ts = signal_history[read_idx(write_idx)].ts]
    /\ mpc' = "load"
    /\ UNCHANGED <<router, write_idx, last_sig_ts, spawned>>

(* As ReadLoad, taking notice of strong signals only. *)
NoticeStrong ==
    /\ mpc = "load"
    /\ sig' = [sig EXCEPT !.load = signal_history[read_idx(write_idx)].load]
    /\ IF sig.ts # last_sig_ts /\ sig'.load.action >= active_threshold
       THEN mpc' = "topology" /\ last_sig_ts' = sig.ts
       ELSE mpc' = "poll" /\ UNCHANGED last_sig_ts
    /\ UNCHANGED <<router, write_idx, spawned>>

(* A record with a new time stamp is a new signal. *)
ReadLoad ==
    /\ mpc = "load"
    /\ sig' = [sig EXCEPT !.load = signal_history[read_idx(write_idx)].load]
    /\ IF sig.ts # last_sig_ts /\ sig.ts # 0
       THEN mpc' = "topology" /\ last_sig_ts' = sig.ts
       ELSE mpc' = "poll" /\ UNCHANGED last_sig_ts
    /\ UNCHANGED <<router, write_idx, spawned>>

(* last_topology(): the edge count of the record that is newest by now,    *)
(* and pointers to the buffers.                                            *)
LoadTopologyIdx ==
    /\ mpc = "topology"
    /\ write_idx' = signal_write_idx
    /\ mpc' = "count"
    /\ UNCHANGED <<sig, router, last_sig_ts, spawned>>

LoadTopology ==
    /\ mpc = "count"
    /\ LET n == signal_history[read_idx(write_idx)].load.n_edges
       IN  IF n > 0 THEN StartRoute(n) ELSE mpc' = "poll" /\ UNCHANGED router
    /\ UNCHANGED <<sig, write_idx, last_sig_ts, spawned>>

route == RouteStep /\ UNCHANGED <<sig, write_idx, last_sig_ts, spawned>>

(* Everything routed is dropped if the engine is halted or at capacity. *)
Gate(blocked) ==
    /\ mpc = "gate"
    /\ mpc' = IF blocked \/ batch = <<>> THEN "poll" ELSE "spawn"
    /\ UNCHANGED <<sig, router, write_idx, last_sig_ts, spawned>>

(* As Legs, with both legs on the same side. *)
LegsSameSide(x) ==
    LET side == IF x.flow > 0 THEN "Buy" ELSE "Sell"
    IN  <<[symbol |-> x.src, side |-> side], [symbol |-> x.dst, side |-> side]>>

(* The two legs of an edge: with the flow on the source, against it on the *)
(* destination.                                                            *)
Legs(x) == <<[symbol |-> x.src, side |-> IF x.flow > 0 THEN "Buy" ELSE "Sell"],
             [symbol |-> x.dst, side |-> IF x.flow > 0 THEN "Sell" ELSE "Buy"]>>

(* The loop over the routed edges: an edge whose source is beyond its      *)
(* position limit is skipped, the others go to the engine.                 *)
Spawn(beyond) ==
    /\ mpc = "spawn"
    /\ spawned' = Append(spawned, IF beyond THEN <<>>
                                  ELSE Legs(batch[Len(spawned) + 1]))
    /\ mpc' = IF Len(spawned') = Len(batch) THEN "poll" ELSE "spawn"
    /\ UNCHANGED <<sig, router, write_idx, last_sig_ts>>

MainStep ==
    \/ Poll \/ ReadStamp \/ ReadLoad \/ LoadTopologyIdx \/ LoadTopology \/ route
    \/ \E b \in BOOLEAN : Gate(b) \/ Spawn(b)

Main == MainStep /\ UNCHANGED pipeline

(* A copy that overlaps a routing is what `torn` remembers. *)
Pipeline == /\ PipelineStep
            /\ torn' = (torn \/ (Scanning /\ ppc = "copy"))
            /\ UNCHANGED <<mpc, sig, n_edges, scan, batch, seen, write_idx,
                           last_sig_ts, spawned>>

Next == Main \/ Pipeline

(* Each thread keeps running; the pipeline thread ends its ticks. *)
Spec == Init /\ [][Next]_vars /\ WF_vars(Main) /\ WF_vars(Pipeline)

-----------------------------------------------------------------------------
(* The type invariant; in particular route never reads a buffer word the   *)
(* pipeline has not yet written, however the copies of later ticks overlap *)
(* with it, and never runs past the length it was given.                   *)
TypeOK ==
    /\ tick \in 0..MaxTicks /\ copied \in Nat
    /\ ppc \in {"idle", "copy", "stamp", "load", "publish", "fit"}
    /\ dev \in Topology
    /\ \A i \in 1..Len(published) : published[i].ts \in 1..tick
    /\ signal_write_idx = Len(published)
    /\ last_refit \in 0..signal_write_idx
    /\ streak.current \in 0..streak.max /\ streak.max \in 0..tick
    /\ Len(batch) <= k_signal_router_top_k
    /\ Scanning => /\ n_edges <= Len(host.flow)
                   /\ n_edges <= Len(host.src) /\ n_edges <= Len(host.dst)
                   /\ scan.best \in 0..n_edges
    /\ mpc \in {"flow", "src", "dst"} => scan.e \in 1..n_edges
    /\ write_idx \in 0..signal_write_idx

(* The signal the main loop acts on is a record the pipeline published,    *)
(* and all of it: the loop can read a mixture of two records only if the   *)
(* pipeline has since filled the rest of the history.                      *)
SignalIntact ==
    mpc = "topology" /\ signal_write_idx + 1 < write_idx + k_signal_history_len
        => write_idx > 0 /\ sig = published[write_idx]

(* If the pipeline did not touch the buffers while route was reading them, *)
(* the batch is the greedy choice among the edges in the buffers -- every  *)
(* edge at or above the threshold, strongest first, no instrument twice    *)
(* (comment in route: "Guarantees every edge in one routed batch touches   *)
(* disjoint instruments").  Without the premise nothing is guaranteed.     *)
RoutesGreedily ==
    mpc = "gate" /\ ~torn /\ sig.load.action >= active_threshold =>
        Greedy(seen, n_edges, batch)

(* Orders of one batch: unless the buffers changed under route, the legs   *)
(* of a pair are opposite sides of two different instruments and no        *)
(* instrument is used twice, so on_signal's in-flight check never has to   *)
(* drop an edge because of its own batch.                                  *)
LegsHedged ==
    ~torn => \A i \in 1..Len(spawned) : spawned[i] # <<>> =>
        /\ spawned[i][1].symbol # spawned[i][2].symbol
        /\ spawned[i][1].side # spawned[i][2].side
        /\ \A j \in 1..Len(spawned) \ {i} : spawned[j] # <<>> =>
               {spawned[i][1].symbol, spawned[i][2].symbol} \cap
               {spawned[j][1].symbol, spawned[j][2].symbol} = {}

(* Every published signal, or a later one, is noticed by the main loop. *)
SignalsNoticed ==
    \A i \in 1..MaxTicks :
        i <= Len(published) ~> i <= Len(published) /\ last_sig_ts >= published[i].ts
=============================================================================
