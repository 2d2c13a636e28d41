---------------------------- MODULE CudaPipeline ----------------------------
(***************************************************************************)
(* The pipeline thread of engine/math/cuda_pipeline.cu after the book has  *)
(* been mirrored (LobMirror): run_once computes a topology on the device,  *)
(* copies it to the host buffers, writes a record into the signal history, *)
(* publishes it by raising signal_write_idx_, and refits the clusters.     *)
(* Another thread reads the buffers and the history without a lock, so     *)
(* the copies are done word by word here.                                  *)
(*                                                                         *)
(* The numbers the kernels compute are inputs: a topology is a sequence of *)
(* edges with their flow, in the order the edge kernel's atomic counter    *)
(* happened to give them, and its Yang-Mills action.  A record is its time *)
(* stamp and the rest of its fields, which are written one after the       *)
(* other; `figures` stands for the curl and Floer fields.                  *)
(***************************************************************************)
EXTENDS Integers, Sequences

CONSTANTS Topologies,           \* what a tick may compute
          k_signal_history_len,
          k_cluster_window,
          k_cluster_refit_every,
          MaxTicks              \* model bound on run_once calls

Edge == [src: Nat, dst: Nat, flow: Int]
Topology == [edges: Seq(Edge), action: Nat]

(* The edge kernel lists an edge from the lower to the higher node only. *)
ASSUME PipelineAssumption ==
    /\ Topologies \subseteq Topology
    /\ \A t \in Topologies : \A k \in 1..Len(t.edges) : t.edges[k].src < t.edges[k].dst
    /\ k_signal_history_len \in Nat \ {0}
    /\ k_cluster_window \in 1..k_signal_history_len
    /\ k_cluster_refit_every \in Nat
    /\ MaxTicks \in Nat

VARIABLES tick,             \* run_once calls so far; also the clock
          ppc,              \* where the pipeline thread is
          dev,              \* the topology on the device
          copied,           \* words of it copied to the host buffers
          host,             \* h_harmonic_out_, h_edge_src_, h_edge_dst_
          signal_history,   \* signal_history_: slot -> record
          signal_write_idx,
          features,         \* the window given to the last clusterer fit
          last_refit,       \* last_cluster_refit_signal_count_
          streak,           \* zero_edge_streak_current_, _max_
          published         \* history: the records in order of publication

pipeline == <<tick, ppc, dev, copied, host, signal_history, signal_write_idx,
              features, last_refit, streak, published>>

Slots == 0..(k_signal_history_len - 1)

NoLoad == [n_edges |-> 0, action |-> 0, figures |-> 0]
NoRecord == [ts |-> 0, load |-> NoLoad]

PipelineInit ==
    /\ tick = 0 /\ ppc = "idle" /\ copied = 0
    /\ dev = [edges |-> <<>>, action |-> 0]
    /\ host = [flow |-> <<>>, src |-> <<>>, dst |-> <<>>]
    /\ signal_history = [s \in Slots |-> NoRecord]
    /\ signal_write_idx = 0
    /\ features = <<>> /\ last_refit = 0
    /\ streak = [current |-> 0, max |-> 0]
    /\ published = <<>>

(* record_signal's new_rec: the current topology, stamped with the time at *)
(* which extract_arbitrage_signal ran.                                     *)
new_rec == [ts   |-> tick,
            load |-> [n_edges |-> Len(dev.edges), action |-> dev.action, figures |-> tick]]

-----------------------------------------------------------------------------
(* run_once up to record_signal: a topology is computed; if no edge        *)
(* survived, only the streak of such ticks is counted.                     *)
Compute(t) ==
    /\ ppc = "idle" /\ tick < MaxTicks
    /\ tick' = tick + 1
    /\ dev' = t
    /\ copied' = 0
    /\ IF t.edges # <<>>
       THEN /\ ppc' = "copy"
            /\ streak' = [streak EXCEPT !.current = 0]
       ELSE /\ ppc' = "idle"
            /\ streak' = LET n == streak.current + 1
                         IN  [current |-> n,
                              max |-> IF n > streak.max THEN n ELSE streak.max]
    /\ UNCHANGED <<host, signal_history, signal_write_idx, features, last_refit, published>>

(* The word at position i of a host buffer; a buffer keeps what earlier,   *)
(* longer topologies left behind.                                          *)
Stored(buf, i, v) == IF i <= Len(buf) THEN [buf EXCEPT ![i] = v] ELSE Append(buf, v)

(* copy_signal_to_host and the two edge copies, in stream order: all flow  *)
(* words, then all sources, then all destinations.                         *)
CopyWord ==
    LET n == Len(dev.edges)
        i == (copied % n) + 1
    IN  /\ ppc = "copy"
        /\ copied' = copied + 1
        /\ host' = CASE copied < n     -> [host EXCEPT !.flow = Stored(@, i, dev.edges[i].flow)]
                     [] copied >= 2 * n -> [host EXCEPT !.dst = Stored(@, i, dev.edges[i].dst)]
                     [] OTHER           -> [host EXCEPT !.src = Stored(@, i, dev.edges[i].src)]
        /\ ppc' = IF copied' = 3 * n THEN "stamp" ELSE "copy"
        /\ UNCHANGED <<tick, dev, signal_history, signal_write_idx, features,
                       last_refit, streak, published>>

idx == signal_write_idx % k_signal_history_len

(* signal_history_[idx] = new_rec: the time stamp, then the rest. *)
WriteStamp ==
    /\ ppc = "stamp"
    /\ ppc' = "load"
    /\ signal_history' = [signal_history EXCEPT ![idx].ts = new_rec.ts]
    /\ UNCHANGED <<tick, dev, copied, host, signal_write_idx, features,
                   last_refit, streak, published>>

WriteLoad ==
    /\ ppc = "load"
    /\ ppc' = "publish"
    /\ signal_history' = [signal_history EXCEPT ![idx].load = new_rec.load]
    /\ UNCHANGED <<tick, dev, copied, host, signal_write_idx, features,
                   last_refit, streak, published>>

Publish ==
    /\ ppc = "publish"
    /\ ppc' = "fit"
    /\ signal_write_idx' = signal_write_idx + 1
    /\ published' = Append(published, new_rec)
    /\ UNCHANGED <<tick, dev, copied, host, signal_history, features,
                   last_refit, streak>>

(* As record_signal, publishing the record before it is written. *)
PublishFirst ==
    \/ /\ ppc = "stamp"
       /\ ppc' = "stamp2"
       /\ signal_write_idx' = signal_write_idx + 1
       /\ published' = Append(published, new_rec)
       /\ UNCHANGED <<tick, dev, copied, host, signal_history, features,
                      last_refit, streak>>
    \/ /\ ppc = "stamp2"
       /\ ppc' = "fit"
       /\ signal_history' = [signal_history EXCEPT
              ![(signal_write_idx - 1) % k_signal_history_len] = new_rec]
       /\ UNCHANGED <<tick, dev, copied, host, signal_write_idx, features,
                      last_refit, streak, published>>

(* record_signal after the copies: write, then publish. *)
record_signal == WriteStamp \/ WriteLoad \/ Publish

(* As WindowSlot, one record too early. *)
WindowSlotEarly(total, i) ==
    (total - k_cluster_window + i - 2 + k_signal_history_len) % k_signal_history_len

(* Where the window's row i is: the last k_cluster_window records, oldest  *)
(* first.                                                                  *)
WindowSlot(total, i) == (total - k_cluster_window + i - 1) % k_signal_history_len

(* build_cluster_window_and_fit: not before the window can be filled, and  *)
(* not more often than every k_cluster_refit_every signals.                *)
build_cluster_window_and_fit ==
    LET total == signal_write_idx
    IN  /\ ppc = "fit"
        /\ ppc' = "idle"
        /\ IF /\ total >= k_cluster_window
              /\ total - last_refit >= k_cluster_refit_every
           THEN /\ features' = [i \in 1..k_cluster_window |->
                                    signal_history[WindowSlot(total, i)].load]
                /\ last_refit' = total
           ELSE UNCHANGED <<features, last_refit>>
        /\ UNCHANGED <<tick, dev, copied, host, signal_history, signal_write_idx,
                       streak, published>>

PipelineStep ==
    \/ \E t \in Topologies : Compute(t)
    \/ CopyWord \/ record_signal \/ build_cluster_window_and_fit

-----------------------------------------------------------------------------
(* As read_idx, taking the next slot to be written. *)
ReadNextSlot(write_idx) == write_idx % k_signal_history_len

(* last_signal(): the slot of the newest record, given signal_write_idx_.  *)
(* Before the first record it is a slot that was never written.            *)
read_idx(write_idx) == (write_idx + k_signal_history_len - 1) % k_signal_history_len

(* A published record stays in the history, whole, until the pipeline has  *)
(* come round to its slot: what release / acquire on signal_write_idx_ is  *)
(* for (comment in record_signal on the index published too early).        *)
PublishedIntact ==
    \A i \in 1..Len(published) :
        \/ i + k_signal_history_len <= Len(published)
        \/ i + k_signal_history_len = Len(published) + 1
             /\ ppc \in {"load", "publish"}
        \/ signal_history[read_idx(i)] = published[i]

(* The clusterer is always fitted to the last k_cluster_window records in  *)
(* the order they were published, across the wrap-around of the history    *)
(* and whatever ticks without edges came between.                          *)
ClusterWindowExact ==
    features # <<>> =>
        features = [i \in 1..k_cluster_window |->
                        published[last_refit - k_cluster_window + i].load]
=============================================================================
