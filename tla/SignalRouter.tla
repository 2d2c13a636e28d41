---------------------------- MODULE SignalRouter ----------------------------
(***************************************************************************)
(* SignalRouter::route of engine/net/signal_router.hpp, run by the main    *)
(* thread over the pipeline's live host buffers: up to                     *)
(* k_signal_router_top_k times, scan all edges for the strongest one none  *)
(* of whose instruments is taken, then read that edge again and take it.   *)
(* Every read of a buffer word is a step of its own.                       *)
(***************************************************************************)
EXTENDS CudaPipeline

CONSTANTS k_signal_router_top_k,
          active_threshold      \* HOLO_THRESHOLD

ASSUME RouterAssumption == /\ k_signal_router_top_k \in Nat \ {0}
                           /\ active_threshold \in Nat

VARIABLES mpc,      \* where the main thread is
          sig,      \* the record the main loop is working on
          n_edges,  \* length of the spans route was called with
          scan,     \* the scan: edge, words read, best edge so far
          batch,    \* out_buf[0 .. written - 1]
          torn,     \* history: the buffers changed while route read them
          seen      \* history: the buffers when route started

router == <<n_edges, scan, batch, torn, seen>>

Scanning == mpc \in {"flow", "src", "dst", "take_src", "take_dst", "take_flow"}

Abs(x) == IF x < 0 THEN -x ELSE x

FreshScan == [e |-> 1, flow |-> 0, src |-> 0, dst |-> 0, best |-> 0, best_af |-> 0]

RouterInit == /\ n_edges = 0 /\ scan = FreshScan /\ batch = <<>>
              /\ torn = FALSE /\ seen = host

(* is_used: the instrument belongs to an edge already selected. *)
is_used(i) == \E k \in 1..Len(batch) : i \in {batch[k].src, batch[k].dst}

(* The endpoint test of the scan. *)
BothFree(src, dst) == ~is_used(src) /\ ~is_used(dst)

(* route, up to the first scan: a weak signal routes nothing. *)
StartRoute(n) ==
    /\ n_edges' = n
    /\ batch' = <<>>
    /\ scan' = FreshScan
    /\ seen' = host
    /\ torn' = (ppc = "copy")
    /\ mpc' = IF sig.load.action < active_threshold THEN "gate" ELSE "flow"

(* As Advance, with the last edge off by one. *)
AdvancePast(s) ==
    /\ scan' = [s EXCEPT !.e = @ + 1]
    /\ mpc' = IF s.e <= n_edges THEN "flow"
              ELSE IF s.best # 0 THEN "take_src" ELSE "gate"

(* On to the next edge, or to the end of the scan with best edge s.best.   *)
Advance(s) ==
    /\ scan' = [s EXCEPT !.e = @ + 1]
    /\ mpc' = IF s.e < n_edges THEN "flow"
              ELSE IF s.best # 0 THEN "take_src" ELSE "gate"

ReadFlow ==
    /\ mpc = "flow"
    /\ LET s == [scan EXCEPT !.flow = Abs(host.flow[scan.e])]
       IN  IF s.flow < active_threshold
           THEN Advance(s)
           ELSE scan' = s /\ mpc' = "src"
    /\ UNCHANGED <<n_edges, batch, torn, seen>>

ReadSrc ==
    /\ mpc = "src"
    /\ scan' = [scan EXCEPT !.src = host.src[scan.e]]
    /\ mpc' = "dst"
    /\ UNCHANGED <<n_edges, batch, torn, seen>>

(* As Better, keeping the last of the candidates. *)
BetterLast(s) == TRUE

Better(s) == s.best = 0 \/ s.flow > s.best_af

ReadDst ==
    /\ mpc = "dst"
    /\ Advance(IF BothFree(scan.src, host.dst[scan.e]) /\ Better(scan)
               THEN [scan EXCEPT !.best = scan.e, !.best_af = scan.flow]
               ELSE scan)
    /\ UNCHANGED <<n_edges, batch, torn, seen>>

(* The selected edge is read once more into out_buf. *)
TakeSrc ==
    /\ mpc = "take_src"
    /\ scan' = [scan EXCEPT !.src = host.src[scan.best]]
    /\ mpc' = "take_dst"
    /\ UNCHANGED <<n_edges, batch, torn, seen>>

TakeDst ==
    /\ mpc = "take_dst"
    /\ scan' = [scan EXCEPT !.dst = host.dst[scan.best]]
    /\ mpc' = "take_flow"
    /\ UNCHANGED <<n_edges, batch, torn, seen>>

TakeFlow ==
    /\ mpc = "take_flow"
    /\ batch' = Append(batch, [src |-> scan.src, dst |-> scan.dst,
                               flow |-> host.flow[scan.best]])
    /\ scan' = FreshScan
    /\ mpc' = IF Len(batch') < k_signal_router_top_k THEN "flow" ELSE "gate"
    /\ UNCHANGED <<n_edges, torn, seen>>

RouteStep == ReadFlow \/ ReadSrc \/ ReadDst \/ TakeSrc \/ TakeDst \/ TakeFlow

-----------------------------------------------------------------------------
(* The specification of a batch: the greedy choice from the buffers' first *)
(* n edges, strongest first, no instrument twice, none left out that       *)
(* would still fit.                                                        *)
Ends(x) == {x.src, x.dst}
Candidate(h, k) == [src |-> h.src[k], dst |-> h.dst[k], flow |-> h.flow[k]]
Strong(h, n) == {x \in {Candidate(h, k) : k \in 1..n} : Abs(x.flow) >= active_threshold}
Left(h, n, b) == {x \in Strong(h, n) :
                      \A j \in 1..Len(b) : Ends(x) \cap Ends(b[j]) = {}}

Greedy(h, n, b) ==
    /\ \A j \in 1..Len(b) :
           LET left == Left(h, n, SubSeq(b, 1, j - 1))
           IN  b[j] \in left /\ \A x \in left : Abs(x.flow) <= Abs(b[j].flow)
    /\ Len(b) = k_signal_router_top_k \/ Left(h, n, b) = {}
=============================================================================
