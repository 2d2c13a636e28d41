-------------------------- MODULE SignalPathProofs --------------------------
(***************************************************************************)
(* The signal history for every length, window, topology and schedule:     *)
(* published records stay whole until their slot comes round again, the    *)
(* clusterer sees the right window, and the main loop acts on whole        *)
(* records.  The argument is about slots: two records less than the length *)
(* of the history apart are in different slots.  Then routing: what a      *)
(* batch holds if the buffers stayed the same, for which the copies are    *)
(* followed word by word.                                                  *)
(***************************************************************************)
EXTENDS SignalPath, TLAPS

K == k_signal_history_len

Load == [n_edges: Nat, action: Nat, figures: Nat]
Record == [ts: Nat, load: Load]

TypeInv ==
    /\ tick \in Nat /\ dev \in Topology
    /\ ppc \in {"idle", "copy", "stamp", "load", "publish", "fit"}
    /\ signal_history \in [Slots -> Record]
    /\ published \in Seq(Record) /\ signal_write_idx = Len(published)
    /\ last_refit \in 0 .. Len(published)
    /\ sig \in Record /\ write_idx \in 0 .. Len(published)

(* The record being written. *)
WriteInv ==
    /\ ppc = "load" => signal_history[idx].ts = tick
    /\ ppc = "publish" => signal_history[idx] = new_rec

(* How many records of the history have been given up: the slot being      *)
(* written holds a record no longer.                                       *)
Lost == IF ppc \in {"load", "publish"} THEN Len(published) + 1 ELSE Len(published)

HistoryInv ==
    /\ \A i \in 1 .. Len(published) :
           i + K > Lost => signal_history[(i - 1) % K] = published[i]
    /\ Lost < K => signal_history[K - 1] = NoRecord

WindowInv == ClusterWindowExact /\ (features # <<>> => last_refit >= k_cluster_window)

(* What the main loop has read so far of the record it is reading. *)
InTime == signal_write_idx + 1 < write_idx + K

ReadInv ==
    /\ mpc = "load" /\ InTime =>
           sig.ts = IF write_idx = 0 THEN 0 ELSE published[write_idx].ts
    /\ mpc = "topology" /\ InTime => write_idx > 0 /\ sig = published[write_idx]

IInv == TypeInv /\ WriteInv /\ HistoryInv /\ WindowInv /\ ReadInv

-----------------------------------------------------------------------------
(* The history has at least one slot, and the window fits into it. *)
LEMMA KNat == K \in Nat \ {0} /\ k_cluster_window \in 1 .. K
  BY PipelineAssumption DEF K

(* Records less than K apart have different slots. *)
LEMMA SlotsDiffer ==
    ASSUME NEW a \in Nat, NEW b \in Nat, a < b, b < a + K
    PROVE  a % K # b % K
  <1>1. a = K * (a \div K) + (a % K) /\ a % K \in 0 .. K - 1 /\ a \div K \in Nat
    BY KNat, Z3
  <1>2. b = K * (b \div K) + (b % K) /\ b % K \in 0 .. K - 1 /\ b \div K \in Nat
    BY KNat, Z3
  <1>3. SUFFICES ASSUME a % K = b % K PROVE FALSE
    OBVIOUS
  <1> DEFINE qa == a \div K
             qb == b \div K
  <1>4. b - a = K * (qb - qa)
    BY <1>1, <1>2, <1>3, KNat, Z3
  <1>5. qb - qa \in Int
    BY <1>1, <1>2
  <1> DEFINE d == qb - qa
  <1> HIDE DEF d, qa, qb
  <1>6. b - a = K * d /\ d \in Int
    BY <1>4, <1>5 DEF d
  <1>7. CASE d <= 0
    BY <1>6, <1>7, KNat, Z3
  <1>8. CASE d >= 1
    <2>1. K * d >= K
      BY <1>8, <1>6, KNat, Z3
    <2> QED
      BY <2>1, <1>6, KNat
  <1> QED
    BY <1>6, <1>7, <1>8

(* A whole turn of n slots leads to the same slot. *)
LEMMA FullTurn ==
    ASSUME NEW n \in Nat \ {0}, NEW a \in Nat
    PROVE  (a + n) % n = a % n
  <1> DEFINE q == a \div n
             r == a % n
             p == (a + n) \div n
             s == (a + n) % n
             d == p - q - 1
  <1>1. a = n * q + r /\ r \in 0 .. n - 1 /\ q \in Nat
    BY Z3
  <1>2. a + n = n * p + s /\ s \in 0 .. n - 1 /\ p \in Nat
    BY Z3
  <1> HIDE DEF q, r, p, s
  <1>3. d \in Int /\ n * d = r - s
    BY <1>1, <1>2, Z3
  <1> HIDE DEF d
  <1>4. CASE d >= 1
    <2>1. n * d >= n
      BY <1>3, <1>4, Z3
    <2> QED
      BY <2>1, <1>1, <1>2, <1>3
  <1>5. CASE d <= -1
    <2>1. n * d <= -n
      BY <1>3, <1>5, Z3
    <2> QED
      BY <2>1, <1>1, <1>2, <1>3
  <1>6. CASE d = 0
    <2>1. n * d = 0
      BY <1>6, Z3
    <2>2. r = s
      BY <2>1, <1>1, <1>2, <1>3
    <2> QED
      BY <2>2 DEF r, s
  <1> QED
    BY <1>3, <1>4, <1>5, <1>6

(* last_signal reads the slot of the newest record. *)
LEMMA ReadSlot ==
    ASSUME NEW n \in Nat
    PROVE  /\ n > 0 => read_idx(n) = (n - 1) % K
           /\ n = 0 => read_idx(n) = K - 1
           /\ read_idx(n) \in Slots
  <1>1. \A a \in Nat : (a + K) % K = a % K
    BY FullTurn, KNat
  <1>2. \A a \in Nat : a % K \in 0 .. K - 1
    BY KNat, Z3
  <1>3. ASSUME n > 0 PROVE (n + K - 1) % K = (n - 1) % K
    <2>1. n - 1 \in Nat /\ n + K - 1 = (n - 1) + K
      BY <1>3, KNat
    <2> QED
      BY <2>1, <1>1
  <1>4. (K - 1) % K = K - 1
    BY KNat, Z3
  <1>5. n + K - 1 \in Nat
    BY KNat
  <1>6. ASSUME n = 0 PROVE (n + K - 1) % K = K - 1
    BY <1>4, <1>6, KNat
  <1> QED
    BY <1>2, <1>3, <1>5, <1>6, KNat DEF read_idx, Slots, K

(* The slot of a record's number is a slot of the history. *)
LEMMA IdxSlot ==
    ASSUME TypeInv
    PROVE  idx \in Slots /\ idx = Len(published) % K /\ Len(published) \in Nat
  BY KNat, Z3 DEF idx, TypeInv, Slots, K

(* The record the pipeline writes next is well formed. *)
LEMMA NewRecord == ASSUME TypeInv PROVE new_rec \in Record
  BY DEF TypeInv, new_rec, Record, Load, Topology

(* The invariant holds before the first record. *)
LEMMA Initially == Init => IInv
  <1> SUFFICES ASSUME Init PROVE IInv
    OBVIOUS
  <1> USE DEF Init, PipelineInit, RouterInit
  <1>1. NoRecord \in Record
    BY DEF NoRecord, NoLoad, Record, Load
  <1>2. TypeInv
    BY <1>1 DEF TypeInv, Topology
  <1>3. WriteInv /\ WindowInv /\ ReadInv
    BY DEF WriteInv, WindowInv, ClusterWindowExact, ReadInv
  <1>4. HistoryInv
    BY KNat DEF HistoryInv, Slots, K, Lost
  <1> QED
    BY <1>2, <1>3, <1>4 DEF IInv

-----------------------------------------------------------------------------
(* Steps of the pipeline thread.  ReadInv speaks of published records and  *)
(* of a premise that only gets weaker as more are published.               *)
LEMMA ReadInvKept ==
    ASSUME TypeInv, ReadInv, UNCHANGED <<mpc, sig, write_idx>>,
           \/ UNCHANGED <<published, signal_write_idx>>
           \/ /\ published' = Append(published, new_rec)
              /\ signal_write_idx' = signal_write_idx + 1
    PROVE  ReadInv'
  <1>1. CASE UNCHANGED <<published, signal_write_idx>>
    BY <1>1 DEF ReadInv, InTime
  <1>2. CASE published' = Append(published, new_rec) /\ signal_write_idx' = signal_write_idx + 1
    <2>1. InTime' => InTime
      BY <1>2, KNat DEF TypeInv, InTime
    <2>2. write_idx > 0 => published'[write_idx'] = published[write_idx]
      BY <1>2, NewRecord DEF TypeInv
    <2> QED
      BY <2>1, <2>2 DEF ReadInv, TypeInv
  <1> QED
    BY <1>1, <1>2

(* Steps that write no part of the history. *)
LEMMA QuietPreserves ==
    ASSUME IInv, UNCHANGED <<mpc, sig, write_idx>>,
           (\E t \in Topologies : Compute(t)) \/ CopyWord
    PROVE  IInv'
  <1>1. ppc \in {"idle", "copy"} /\ ppc' \in {"idle", "copy", "stamp"}
    BY DEF Compute, CopyWord
  <1>2. UNCHANGED <<signal_history, signal_write_idx, published, features, last_refit>>
    BY DEF Compute, CopyWord
  <1>3. tick' \in Nat /\ dev' \in Topology
    BY PipelineAssumption DEF Compute, CopyWord, IInv, TypeInv
  <1>4. TypeInv'
    BY <1>1, <1>2, <1>3 DEF IInv, TypeInv
  <1>5. WriteInv' /\ HistoryInv' /\ WindowInv'
    BY <1>1, <1>2 DEF IInv, WriteInv, HistoryInv, Lost, WindowInv, ClusterWindowExact
  <1>6. ReadInv'
    BY <1>2, ReadInvKept DEF IInv
  <1> QED
    BY <1>4, <1>5, <1>6 DEF IInv

(* Writing into the slot that is given up touches no record still kept. *)
LEMMA WritePreservesHistory ==
    ASSUME IInv, NEW r \in Record,
           ppc \in {"stamp", "load"}, ppc' \in {"load", "publish"},
           signal_history' = [signal_history EXCEPT ![idx] = r],
           UNCHANGED published
    PROVE  HistoryInv'
  <1> DEFINE n == Len(published)
  <1>1. n \in Nat /\ idx = n % K /\ idx \in Slots
    BY IdxSlot DEF IInv
  <1>2. Lost' = n + 1 /\ Lost <= n + 1
    BY <1>1 DEF Lost
  <1>3. ASSUME NEW i \in 1 .. n, i + K > n + 1
        PROVE  signal_history'[(i - 1) % K] = published[i]
    <2>1. signal_history[(i - 1) % K] = published[i]
      BY <1>1, <1>2, <1>3, KNat DEF IInv, HistoryInv, Lost
    <2>2. i - 1 \in Nat /\ i - 1 < n /\ n < (i - 1) + K
      BY <1>1, <1>3, KNat
    <2>3. (i - 1) % K # idx
      BY <2>2, <1>1, SlotsDiffer
    <2>4. (i - 1) % K \in Slots
      BY <2>2, KNat, Z3 DEF Slots, K
    <2> QED
      BY <2>1, <2>3, <2>4 DEF IInv, TypeInv
  <1>4. ASSUME n + 1 < K PROVE signal_history'[K - 1] = NoRecord
    <2>1. signal_history[K - 1] = NoRecord
      BY <1>1, <1>2, <1>4, KNat DEF IInv, HistoryInv, Lost
    <2>2. n % K = n
      BY <1>1, <1>4, KNat, Z3
    <2>3. K - 1 \in Slots /\ idx # K - 1
      BY <1>1, <1>4, <2>2, KNat DEF Slots, K
    <2> QED
      BY <2>1, <2>3 DEF IInv, TypeInv
  <1> QED
    BY <1>2, <1>3, <1>4 DEF HistoryInv

(* The first word of a record goes to a slot that is not published as it stands. *)
LEMMA StampPreserves ==
    ASSUME IInv, UNCHANGED <<mpc, sig, write_idx>>, WriteStamp PROVE IInv'
  <1> DEFINE r == [signal_history[idx] EXCEPT !.ts = tick]
  <1>1. idx \in Slots /\ signal_history[idx] \in Record
    BY IdxSlot DEF IInv, TypeInv
  <1>2. r \in Record
    BY <1>1 DEF IInv, TypeInv, Record
  <1>3. signal_history' = [signal_history EXCEPT ![idx] = r]
    BY <1>1 DEF WriteStamp, new_rec, IInv, TypeInv
  <1>4. ppc = "stamp" /\ ppc' = "load" /\ idx' = idx
        /\ UNCHANGED <<tick, dev, signal_write_idx, published, features, last_refit>>
    BY DEF WriteStamp, idx
  <1>5. TypeInv'
    BY <1>2, <1>3, <1>4 DEF IInv, TypeInv
  <1>6. HistoryInv'
    BY <1>2, <1>3, <1>4, WritePreservesHistory
  <1>7. WriteInv'
    <2>1. signal_history'[idx] = r
      BY <1>1, <1>3 DEF IInv, TypeInv
    <2>2. r.ts = tick
      BY <1>1 DEF Record
    <2> QED
      BY <2>1, <2>2, <1>4 DEF WriteInv
  <1>8. WindowInv' /\ ReadInv'
    BY <1>4, ReadInvKept DEF IInv, WindowInv, ClusterWindowExact
  <1> QED
    BY <1>5, <1>6, <1>7, <1>8 DEF IInv

(* So does the second. *)
LEMMA LoadPreserves ==
    ASSUME IInv, UNCHANGED <<mpc, sig, write_idx>>, WriteLoad PROVE IInv'
  <1>1. idx \in Slots /\ signal_history[idx] \in Record /\ new_rec \in Record
    BY IdxSlot, NewRecord DEF IInv, TypeInv
  <1>2. ppc = "load" /\ ppc' = "publish" /\ idx' = idx /\ new_rec' = new_rec
        /\ UNCHANGED <<tick, dev, signal_write_idx, published, features, last_refit>>
    BY DEF WriteLoad, idx, new_rec
  <1>3. [signal_history[idx] EXCEPT !.load = new_rec.load] = new_rec
    <2>1. signal_history[idx].ts = new_rec.ts
      BY <1>2 DEF IInv, WriteInv, new_rec
    <2> QED
      BY <2>1, <1>1 DEF Record
  <1>4. signal_history' = [signal_history EXCEPT ![idx] = new_rec]
    BY <1>1, <1>3 DEF WriteLoad, IInv, TypeInv
  <1>5. TypeInv'
    BY <1>1, <1>2, <1>4 DEF IInv, TypeInv
  <1>6. HistoryInv'
    BY <1>1, <1>2, <1>4, WritePreservesHistory
  <1>7. WriteInv'
    BY <1>1, <1>2, <1>4 DEF WriteInv, IInv, TypeInv
  <1>8. WindowInv' /\ ReadInv'
    BY <1>2, ReadInvKept DEF IInv, WindowInv, ClusterWindowExact
  <1> QED
    BY <1>5, <1>6, <1>7, <1>8 DEF IInv

(* HistoryInv for one record. *)
LEMMA Kept ==
    ASSUME HistoryInv, NEW i \in 1 .. Len(published), i + K > Lost
    PROVE  signal_history[(i - 1) % K] = published[i]
  BY Zenon DEF HistoryInv

(* Two words of the same record make that record. *)
LEMMA SameRecord ==
    ASSUME NEW a \in Record, NEW b \in Record, a.ts = b.ts, a.load = b.load
    PROVE  a = b
  BY DEF Record

(* Publishing the index: the record written is whole. *)
LEMMA PublishPreserves ==
    ASSUME IInv, UNCHANGED <<mpc, sig, write_idx>>, Publish PROVE IInv'
  <1> DEFINE n == Len(published)
  <1>1. new_rec \in Record /\ idx \in Slots /\ idx = n % K /\ n \in Nat
    BY IdxSlot, NewRecord DEF IInv
  <1>2. ppc = "publish" /\ ppc' = "fit" /\ published' = Append(published, new_rec)
        /\ signal_write_idx' = signal_write_idx + 1
        /\ UNCHANGED <<tick, dev, signal_history, features, last_refit>>
    BY DEF Publish
  <1>3. /\ published' \in Seq(Record) /\ Len(published') = n + 1
        /\ \A i \in 1 .. n : published'[i] = published[i]
        /\ published'[n + 1] = new_rec
    BY <1>1, <1>2 DEF IInv, TypeInv
  <1>4. TypeInv'
    BY <1>1, <1>2, <1>3 DEF IInv, TypeInv
  <1>5. HistoryInv'
    <2>1. Lost = n + 1 /\ Lost' = n + 1
      BY <1>2, <1>3 DEF Lost
    <2>2. ASSUME NEW i \in 1 .. n + 1, i + K > n + 1
          PROVE  signal_history[(i - 1) % K] = published'[i]
      <3>1. CASE i = n + 1
        <4>1. signal_history[n % K] = new_rec
          BY <1>1, <1>2 DEF IInv, WriteInv
        <4>2. i - 1 = n
          BY <3>1, <1>1
        <4>3. signal_history[(i - 1) % K] = new_rec
          BY <4>1, <4>2, Zenon
        <4>4. published'[i] = new_rec
          BY <3>1, <1>3
        <4> QED
          BY <4>3, <4>4, Zenon
      <3>2. CASE i \in 1 .. n
        <4>1. i + K > Lost
          BY <2>1, <2>2
        <4>2. signal_history[(i - 1) % K] = published[i]
          BY <3>2, <4>1, Kept, Zenon DEF IInv
        <4> QED
          BY <4>2, <3>2, <1>3, Zenon
      <3> QED
        BY <3>1, <3>2, <1>1
    <2> QED
      BY <2>1, <2>2, <1>2, <1>3 DEF HistoryInv, IInv
  <1>6. WriteInv'
    BY <1>2 DEF WriteInv
  <1>7. WindowInv'
    <2>1. ASSUME features # <<>>
          PROVE  \A i \in 1 .. k_cluster_window : last_refit - k_cluster_window + i \in 1 .. n
      BY <2>1, <1>1, KNat DEF IInv, WindowInv, TypeInv
    <2> QED
      BY <2>1, <1>2, <1>3 DEF IInv, WindowInv, ClusterWindowExact
  <1>8. ReadInv'
    BY <1>2, ReadInvKept DEF IInv
  <1> QED
    BY <1>4, <1>5, <1>6, <1>7, <1>8 DEF IInv

(* Clustering reads the window and changes nothing else. *)
LEMMA FitPreserves ==
    ASSUME IInv, UNCHANGED <<mpc, sig, write_idx>>, build_cluster_window_and_fit PROVE IInv'
  <1> DEFINE n == Len(published)
             W == k_cluster_window
  <1>1. n \in Nat /\ signal_write_idx = n /\ last_refit \in 0 .. n
    BY IdxSlot DEF IInv, TypeInv
  <1>2. ppc = "fit" /\ ppc' = "idle"
        /\ UNCHANGED <<tick, dev, signal_history, signal_write_idx, published>>
    BY DEF build_cluster_window_and_fit
  <1>3. last_refit' \in 0 .. n
    BY <1>1 DEF build_cluster_window_and_fit
  <1>4. TypeInv' /\ WriteInv' /\ HistoryInv'
    BY <1>2, <1>3 DEF IInv, TypeInv, WriteInv, HistoryInv, Lost
  <1>5. WindowInv'
    <2>1. CASE UNCHANGED <<features, last_refit>>
      BY <2>1, <1>2 DEF IInv, WindowInv, ClusterWindowExact
    <2>2. CASE /\ n >= W
               /\ features' = [i \in 1 .. W |-> signal_history[WindowSlot(n, i)].load]
               /\ last_refit' = n
      <3>1. ASSUME NEW i \in 1 .. W
            PROVE  signal_history[WindowSlot(n, i)] = published[n - W + i]
        <4>1. n - W + i \in 1 .. n /\ (n - W + i) + K > n
          BY <1>1, <2>2, KNat
        <4>2. Lost = n
          BY <1>2 DEF Lost
        <4>3. signal_history[((n - W + i) - 1) % K] = published[n - W + i]
          BY <4>1, <4>2, Kept DEF IInv
        <4>4. n - W + i - 1 = (n - W + i) - 1
          BY <1>1, KNat
        <4>5. WindowSlot(n, i) = ((n - W + i) - 1) % K
          BY <4>4, Zenon DEF WindowSlot, K
        <4> QED
          BY <4>3, <4>5, Zenon
      <3>2. features' = [i \in 1 .. W |-> published[n - W + i].load]
        BY <2>2, <3>1
      <3> QED
        BY <2>2, <3>2, <1>2 DEF WindowInv, ClusterWindowExact
    <2> QED
      BY <2>1, <2>2, <1>1 DEF build_cluster_window_and_fit
  <1>6. ReadInv'
    BY <1>2, ReadInvKept DEF IInv
  <1> QED
    BY <1>4, <1>5, <1>6 DEF IInv

-----------------------------------------------------------------------------
(* Steps of the main thread leave the pipeline's state alone. *)
LEMMA PipelineInvKept ==
    ASSUME IInv, UNCHANGED pipeline, sig' \in Record, write_idx' \in 0 .. Len(published)
    PROVE  TypeInv' /\ WriteInv' /\ HistoryInv' /\ WindowInv'
  <1>1. TypeInv'
    BY DEF IInv, TypeInv, pipeline
  <1>2. WriteInv'
    BY DEF IInv, WriteInv, idx, new_rec, pipeline
  <1>3. HistoryInv' /\ WindowInv'
    BY DEF IInv, HistoryInv, Lost, WindowInv, ClusterWindowExact, pipeline
  <1> QED
    BY <1>1, <1>2, <1>3

(* A record can be read while it is kept. *)
LEMMA ReadsPublished ==
    ASSUME IInv, InTime
    PROVE  /\ write_idx > 0 => signal_history[read_idx(write_idx)] = published[write_idx]
           /\ write_idx = 0 => signal_history[read_idx(write_idx)] = NoRecord
  <1>1. write_idx \in Nat /\ Len(published) \in Nat /\ write_idx <= Len(published)
        /\ Len(published) + 1 < write_idx + K
    BY DEF IInv, TypeInv, InTime
  <1>2. Lost <= Len(published) + 1
    BY <1>1 DEF Lost
  <1>3. CASE write_idx > 0
    <2>1. write_idx \in 1 .. Len(published) /\ write_idx + K > Lost
      BY <1>1, <1>2, <1>3, KNat DEF Lost
    <2>2. signal_history[(write_idx - 1) % K] = published[write_idx]
      BY <2>1 DEF IInv, HistoryInv
    <2> QED
      BY <2>2, <1>1, <1>3, ReadSlot
  <1>4. CASE write_idx = 0
    <2>1. Lost < K
      BY <1>1, <1>4, KNat DEF Lost
    <2>2. signal_history[K - 1] = NoRecord
      BY <2>1 DEF IInv, HistoryInv
    <2> QED
      BY <2>2, <1>1, <1>4, ReadSlot
  <1> QED
    BY <1>1, <1>3, <1>4

(* Steps of the main loop. *)
LEMMA MainPreserves == IInv /\ Main => IInv'
  <1> SUFFICES ASSUME IInv, Main PROVE IInv'
    OBVIOUS
  <1>0. UNCHANGED pipeline /\ write_idx \in 0 .. Len(published) /\ sig \in Record
        /\ Len(published) \in Nat /\ signal_write_idx = Len(published)
    BY DEF Main, IInv, TypeInv
  <1>1. signal_history[read_idx(write_idx)] \in Record
    BY <1>0, ReadSlot DEF IInv, TypeInv
  <1>2. CASE ReadStamp
    <2> DEFINE r == signal_history[read_idx(write_idx)]
    <2>1. mpc' = "load" /\ write_idx' = write_idx /\ sig' = [sig EXCEPT !.ts = r.ts]
      BY <1>2 DEF ReadStamp
    <2>2. sig' \in Record /\ sig'.ts = r.ts
      BY <2>1, <1>0, <1>1 DEF Record
    <2>3. InTime' => sig'.ts = IF write_idx = 0 THEN 0 ELSE published[write_idx].ts
      <3>1. InTime' => InTime
        BY <1>0, <2>1 DEF InTime, pipeline
      <3> QED
        BY <3>1, <2>2, <1>0, ReadsPublished DEF NoRecord
    <2>4. ReadInv'
      BY <2>1, <2>3, <1>0 DEF ReadInv, pipeline
    <2> QED
      BY <2>1, <2>2, <2>4, <1>0, PipelineInvKept DEF IInv
  <1>3. CASE ReadLoad
    <2> DEFINE r == signal_history[read_idx(write_idx)]
    <2>1. mpc = "load" /\ write_idx' = write_idx /\ sig' = [sig EXCEPT !.load = r.load]
          /\ mpc' \in {"topology", "poll"} /\ (mpc' = "topology" => sig.ts # 0)
      BY <1>3 DEF ReadLoad
    <2>2. sig' \in Record /\ sig'.ts = sig.ts /\ sig'.load = r.load
      BY <2>1, <1>0, <1>1 DEF Record
    <2>3. ASSUME mpc' = "topology", InTime' PROVE write_idx > 0 /\ sig' = published[write_idx]
      <3>1. InTime
        BY <2>3, <1>0, <2>1 DEF InTime, pipeline
      <3>2. write_idx > 0 /\ sig.ts = published[write_idx].ts
        BY <3>1, <2>1, <2>3, <1>0 DEF IInv, ReadInv
      <3>3. r = published[write_idx]
        BY <3>1, <3>2, ReadsPublished
      <3>4. sig'.ts = r.ts /\ sig'.load = r.load
        BY <3>2, <3>3, <2>2
      <3>5. sig' = r
        BY <3>4, <2>2, <1>1, SameRecord, Zenon
      <3> QED
        BY <3>2, <3>3, <3>5
    <2>4. ReadInv'
      BY <2>1, <2>3, <1>0 DEF ReadInv, pipeline
    <2> QED
      BY <2>1, <2>2, <2>4, <1>0, PipelineInvKept DEF IInv
  <1>4. CASE Poll \/ LoadTopologyIdx \/ LoadTopology \/ route
             \/ \E b \in BOOLEAN : Gate(b) \/ Spawn(b)
    <2>1. sig' = sig /\ write_idx' \in 0 .. Len(published)
      BY <1>4, <1>0 DEF Poll, LoadTopologyIdx, LoadTopology, route, Gate, Spawn
    <2>2. mpc' \notin {"load", "topology"}
      <3>1. CASE Poll \/ LoadTopologyIdx \/ \E b \in BOOLEAN : Gate(b) \/ Spawn(b)
        BY <3>1 DEF Poll, LoadTopologyIdx, Gate, Spawn
      <3>2. CASE LoadTopology
        BY <3>2 DEF LoadTopology, StartRoute
      <3>3. CASE route
        BY <3>3 DEF route, RouteStep, ReadFlow, ReadSrc, ReadDst, TakeSrc, TakeDst, TakeFlow, Advance
      <3> QED
        BY <1>4, <3>1, <3>2, <3>3
    <2> QED
      BY <1>0, <2>1, <2>2, PipelineInvKept DEF IInv, ReadInv
  <1> QED
    BY <1>2, <1>3, <1>4 DEF Main, MainStep

(* Steps of the pipeline thread. *)
LEMMA PipelinePreserves == IInv /\ Pipeline => IInv'
  <1> SUFFICES ASSUME IInv, Pipeline PROVE IInv'
    OBVIOUS
  <1>1. UNCHANGED <<mpc, sig, write_idx>>
    BY DEF Pipeline
  <1> QED
    BY <1>1, QuietPreserves, StampPreserves, LoadPreserves, PublishPreserves, FitPreserves
    DEF Pipeline, PipelineStep, record_signal

(* The invariant holds in every reachable state. *)
LEMMA Invariance == Spec => []IInv
  <1>1. IInv /\ [Next]_vars => IInv'
    <2>1. IInv /\ UNCHANGED vars => IInv'
      <3> SUFFICES ASSUME IInv, UNCHANGED vars PROVE IInv'
        OBVIOUS
      <3>1. UNCHANGED pipeline /\ UNCHANGED <<mpc, sig, write_idx, published, signal_write_idx>>
        BY DEF vars, mainvars, pipeline
      <3>2. sig' \in Record /\ write_idx' \in 0 .. Len(published)
        BY <3>1 DEF IInv, TypeInv
      <3>3. ReadInv'
        BY <3>1, ReadInvKept DEF IInv
      <3> QED
        BY <3>1, <3>2, <3>3, PipelineInvKept DEF IInv
    <2> QED
      BY <2>1, MainPreserves, PipelinePreserves DEF Next
  <1> QED
    BY <1>1, Initially, PTL DEF Spec

-----------------------------------------------------------------------------
(* A published record stays in the history, whole, until the pipeline has  *)
(* come round to its slot.                                                 *)
THEOREM HistoryIntact == Spec => []PublishedIntact
  <1>1. IInv => PublishedIntact
    <2> SUFFICES ASSUME IInv, NEW i \in 1 .. Len(published),
                        ~(i + K <= Len(published)),
                        ~(i + K = Len(published) + 1 /\ ppc \in {"load", "publish"})
                 PROVE  signal_history[read_idx(i)] = published[i]
      BY DEF PublishedIntact, K
    <2>1. Len(published) \in Nat /\ i \in Nat /\ i > 0
      BY DEF IInv, TypeInv
    <2>2. i + K > Lost
      BY <2>1, KNat DEF Lost
    <2>3. signal_history[(i - 1) % K] = published[i]
      BY <2>2 DEF IInv, HistoryInv
    <2> QED
      BY <2>1, <2>3, ReadSlot
  <1> QED
    BY <1>1, Invariance, PTL

(* The clusterer is always fitted to the last window of records. *)
THEOREM WindowExact == Spec => []ClusterWindowExact
  <1>1. IInv => ClusterWindowExact
    BY DEF IInv, WindowInv
  <1> QED
    BY <1>1, Invariance, PTL

(* The main loop acts on whole, published records, unless the pipeline has *)
(* filled the rest of the history while it was reading one.                *)
THEOREM SignalWhole == Spec => []SignalIntact
  <1>1. IInv => SignalIntact
    BY DEF IInv, ReadInv, SignalIntact, InTime, K
  <1> QED
    BY <1>1, Invariance, PTL
-----------------------------------------------------------------------------
(* Routing.  The buffers: how far they reach, and that source and          *)
(* destination of an edge belong together unless a copy is under way.      *)
N == Len(dev.edges)
Buffers == [flow: Seq(Int), src: Seq(Nat), dst: Seq(Nat)]
Reaches(h, n) == n <= Len(h.flow) /\ n <= Len(h.src) /\ n <= Len(h.dst)
Joined(k) == k <= Len(host.src) /\ k <= Len(host.dst) => host.src[k] < host.dst[k]

(* The words of the current topology copied so far. *)
WordsCopied ==
    \A k \in 1 .. N :
        /\ k <= copied => k <= Len(host.flow)
        /\ k + N <= copied => k <= Len(host.src) /\ host.src[k] = dev.edges[k].src
        /\ k + 2 * N <= copied => k <= Len(host.dst) /\ host.dst[k] = dev.edges[k].dst

(* Behind them, edges that longer topologies left. *)
RestJoined == \A k \in Nat \ {0} : k > N => Joined(k)

CopyInv ==
    /\ host \in Buffers /\ copied \in Nat
    /\ ppc # "idle" => dev \in Topologies /\ N > 0
    /\ ppc \in {"stamp", "load", "publish"} => Reaches(host, N)
    /\ \A s \in Slots : Reaches(host, signal_history[s].load.n_edges)
    /\ ppc # "copy" => \A k \in Nat \ {0} : Joined(k)
    /\ ppc = "copy" => copied < 3 * N /\ RestJoined /\ WordsCopied

(* Counters of the pipeline thread. *)
CountInv ==
    /\ tick \in 0 .. MaxTicks /\ (ppc # "idle" => tick > 0)
    /\ \A i \in 1 .. Len(published) : published[i].ts \in 1 .. tick
    /\ streak \in [current: Nat, max: Nat]
    /\ streak.current <= streak.max /\ streak.max <= tick

(* Where route is in its scan. *)
Scan == [e: Nat, flow: Nat, src: Nat, dst: Nat, best: Nat, best_af: Nat]
Taking == {"take_src", "take_dst", "take_flow"}

ScanInv ==
    /\ n_edges \in Nat /\ Reaches(host, n_edges)
    /\ scan \in Scan /\ batch \in Seq(Edge) /\ Len(batch) <= k_signal_router_top_k
    /\ Scanning => /\ n_edges > 0 /\ Len(batch) < k_signal_router_top_k
                   /\ scan.best \in 0 .. n_edges
    /\ mpc \in {"flow", "src", "dst"} => scan.e \in 1 .. n_edges
    /\ mpc \in Taking => scan.best > 0 /\ scan.e = n_edges + 1
    /\ torn \in BOOLEAN

(* The greedy choice, by the positions of the edges: what has been chosen, *)
(* and the best of the edges scanned so far.                               *)
Picked(k) == Candidate(seen, k)
Apart(x, j) == \A i \in 1 .. j : Ends(x) \cap Ends(batch[i]) = {}
Eligible(k, j) == Abs(seen.flow[k]) >= active_threshold /\ Apart(Picked(k), j)

ChoiceInv ==
    \A j \in 1 .. Len(batch) :
        /\ \E k \in 1 .. n_edges : batch[j] = Picked(k) /\ Eligible(k, j - 1)
        /\ \A k \in 1 .. n_edges : Eligible(k, j - 1) => Abs(seen.flow[k]) <= Abs(batch[j].flow)

BestInv ==
    /\ scan.best > 0 => /\ Eligible(scan.best, Len(batch))
                        /\ scan.best_af = Abs(seen.flow[scan.best])
    /\ \A k \in 1 .. n_edges : k < scan.e /\ Eligible(k, Len(batch)) =>
           scan.best > 0 /\ Abs(seen.flow[k]) <= scan.best_af
    /\ mpc \in {"src", "dst"} => /\ scan.flow = Abs(seen.flow[scan.e])
                                 /\ scan.flow >= active_threshold
    /\ mpc = "dst" => scan.src = seen.src[scan.e]
    /\ mpc \in {"take_dst", "take_flow"} => scan.src = seen.src[scan.best]
    /\ mpc = "take_flow" => scan.dst = seen.dst[scan.best]

GreedyInv ==
    ~torn => /\ seen \in Buffers /\ Reaches(seen, n_edges)
             /\ \A k \in 1 .. n_edges : seen.src[k] < seen.dst[k]
             /\ ChoiceInv
             /\ Scanning => seen = host /\ BestInv
             /\ mpc = "gate" /\ sig.load.action >= active_threshold =>
                    \/ Len(batch) = k_signal_router_top_k
                    \/ \A k \in 1 .. n_edges : ~Eligible(k, Len(batch))

(* The batch on its way to the engine. *)
Leg == [symbol: Nat, side: {"Buy", "Sell"}]

SpawnInv ==
    /\ spawned \in Seq(Seq(Leg)) /\ Len(spawned) <= Len(batch)
    /\ mpc \notin {"spawn", "poll"} => spawned = <<>>
    /\ mpc = "spawn" => Len(spawned) < Len(batch)
    /\ \A i \in 1 .. Len(spawned) : spawned[i] \in {<<>>, Legs(batch[i])}

RouteInv == CopyInv /\ CountInv /\ ScanInv /\ GreedyInv /\ SpawnInv

(* The word a copy step writes: flows first, then sources, then targets. *)
LEMMA CopyIndex ==
    ASSUME NEW n \in Nat \ {0}, NEW c \in Nat, c < 3 * n
    PROVE  /\ c < n => c % n = c
           /\ c >= n /\ c < 2 * n => c % n = c - n
           /\ c >= 2 * n => c % n = c - 2 * n
  <1>1. \A a \in Nat : a < n => a % n = a
    BY Z3
  <1>2. \A a \in Nat : (a + n) % n = a % n
    BY FullTurn
  <1>3. ASSUME c >= n, c < 2 * n PROVE c % n = c - n
    <2>1. c - n \in Nat /\ c - n < n /\ (c - n) + n = c
      BY <1>3
    <2> QED
      BY <2>1, <1>1, <1>2
  <1>4. ASSUME c >= 2 * n PROVE c % n = c - 2 * n
    <2> DEFINE a == c - 2 * n
    <2>1. a \in Nat /\ a < n /\ a + n \in Nat /\ (a + n) + n = c
      BY <1>4
    <2>2. a % n = a
      BY <2>1, <1>1
    <2>3. (a + n) % n = a % n
      BY <2>1, <1>2
    <2>4. ((a + n) + n) % n = (a + n) % n
      BY <2>1, <1>2
    <2> HIDE DEF a
    <2>5. c % n = a
      BY <2>1, <2>2, <2>3, <2>4
    <2> QED
      BY <2>5 DEF a
  <1> QED
    BY <1>1, <1>3, <1>4

(* A word stored at or just behind the end of a buffer. *)
WordStored(S, buf, i, v, b) ==
    /\ b \in Seq(S) /\ Len(b) \in {Len(buf), i} /\ Len(buf) <= Len(b) /\ i <= Len(b)
    /\ b[i] = v /\ \A k \in 1 .. Len(buf) : k # i => b[k] = buf[k]

(* What Stored does to a buffer. *)
LEMMA StoredWord ==
    ASSUME NEW S, NEW buf \in Seq(S), NEW i \in 1 .. Len(buf) + 1, NEW v \in S
    PROVE  WordStored(S, buf, i, v, Stored(buf, i, v))
  <1>1. CASE i <= Len(buf)
    BY <1>1 DEF Stored, WordStored
  <1>2. CASE i = Len(buf) + 1
    BY <1>2 DEF Stored, WordStored
  <1> QED
    BY <1>1, <1>2

-----------------------------------------------------------------------------
(* What the buffers held stays within them. *)
Grows(h, g) == Len(h.flow) <= Len(g.flow) /\ Len(h.src) <= Len(g.src) /\ Len(h.dst) <= Len(g.dst)

(* Buffers that grow reach as far as before. *)
LEMMA GrowsReaches ==
    ASSUME NEW h \in Buffers, NEW g \in Buffers, Grows(h, g), NEW n \in Nat, Reaches(h, n)
    PROVE  Reaches(g, n)
  BY DEF Buffers, Grows, Reaches

(* Every edge a tick computes leads from a lower to a higher instrument. *)
LEMMA EdgesAscend ==
    ASSUME dev \in Topologies, NEW k \in 1 .. N
    PROVE  /\ dev.edges[k].src \in Nat /\ dev.edges[k].dst \in Nat /\ dev.edges[k].flow \in Int
           /\ dev.edges[k].src < dev.edges[k].dst
  <1>1. dev.edges \in Seq(Edge)
    BY PipelineAssumption DEF Topology
  <1>2. dev.edges[k] \in Edge
    BY <1>1 DEF N
  <1>3. dev.edges[k].src < dev.edges[k].dst
    BY PipelineAssumption DEF N
  <1> QED
    BY <1>2, <1>3 DEF Edge

(* Where a copy is. *)
LEMMA CopyFacts ==
    ASSUME CopyInv, CopyWord
    PROVE  /\ N \in Nat \ {0} /\ copied \in Nat /\ copied < 3 * N
           /\ dev \in Topologies /\ ppc = "copy" /\ host \in Buffers
           /\ copied' = copied + 1
           /\ ppc' = IF copied + 1 = 3 * N THEN "stamp" ELSE "copy"
           /\ UNCHANGED <<tick, dev, signal_history, streak, published>>
  <1>1. dev \in Topologies /\ ppc = "copy" /\ host \in Buffers /\ copied \in Nat
        /\ copied < 3 * N /\ N > 0
    BY DEF CopyInv, CopyWord
  <1>2. N \in Nat
    BY <1>1, PipelineAssumption DEF N, Topology
  <1>3. copied' = copied + 1 /\ ppc' = (IF copied' = 3 * N THEN "stamp" ELSE "copy")
    BY DEF CopyWord, N
  <1> QED
    BY <1>1, <1>2, <1>3 DEF CopyWord

(* The word a copy step writes. *)
LEMMA CopyStep ==
    ASSUME CopyInv, CopyWord
    PROVE  /\ copied < N => host' =
                  [host EXCEPT !.flow = Stored(host.flow, copied + 1, dev.edges[copied + 1].flow)]
           /\ copied >= N /\ copied < 2 * N => host' =
                  [host EXCEPT !.src = Stored(host.src, copied - N + 1, dev.edges[copied - N + 1].src)]
           /\ copied >= 2 * N => host' =
                  [host EXCEPT !.dst = Stored(host.dst, copied - 2 * N + 1,
                                              dev.edges[copied - 2 * N + 1].dst)]
  <1>1. N \in Nat \ {0} /\ copied \in Nat /\ copied < 3 * N
    BY CopyFacts
  <1>2. PICK i : i = (copied % N) + 1
    OBVIOUS
  <1>3. host' = CASE copied < N     -> [host EXCEPT !.flow = Stored(host.flow, i, dev.edges[i].flow)]
                  [] copied >= 2 * N -> [host EXCEPT !.dst = Stored(host.dst, i, dev.edges[i].dst)]
                  [] OTHER           -> [host EXCEPT !.src = Stored(host.src, i, dev.edges[i].src)]
    BY <1>2, Zenon DEF CopyWord, N
  <1>4. ASSUME copied < N
        PROVE  host' = [host EXCEPT !.flow = Stored(host.flow, copied + 1, dev.edges[copied + 1].flow)]
    <2>1. i = copied + 1
      BY <1>1, <1>2, <1>4, CopyIndex
    <2> QED
      BY <1>1, <1>3, <1>4, <2>1
  <1>5. ASSUME copied >= N, copied < 2 * N
        PROVE  host' = [host EXCEPT !.src =
                            Stored(host.src, copied - N + 1, dev.edges[copied - N + 1].src)]
    <2>1. copied % N = copied - N
      BY <1>1, <1>5, CopyIndex
    <2>2. i = copied - N + 1
      BY <1>2, <2>1
    <2>3. ~(copied < N) /\ ~(copied >= 2 * N)
      BY <1>1, <1>5
    <2>4. host' = [host EXCEPT !.src = Stored(host.src, i, dev.edges[i].src)]
      BY <1>3, <2>3
    <2> QED
      BY <2>2, <2>4, Zenon
  <1>6. ASSUME copied >= 2 * N
        PROVE  host' = [host EXCEPT !.dst =
                            Stored(host.dst, copied - 2 * N + 1, dev.edges[copied - 2 * N + 1].dst)]
    <2>1. copied % N = copied - 2 * N
      BY <1>1, <1>6, CopyIndex
    <2>2. i = copied - 2 * N + 1
      BY <1>2, <2>1
    <2>3. ~(copied < N)
      BY <1>1, <1>6
    <2>4. host' = [host EXCEPT !.dst = Stored(host.dst, i, dev.edges[i].dst)]
      BY <1>3, <1>6, <2>3
    <2> QED
      BY <2>2, <2>4, Zenon
  <1> QED
    BY <1>4, <1>5, <1>6

(* A word of the flow array. *)
LEMMA CopyFlow ==
    ASSUME CopyInv, CopyWord, copied < N
    PROVE  host' \in Buffers /\ Grows(host, host') /\ host'.src = host.src /\ host'.dst = host.dst
           /\ Len(host'.flow) >= copied + 1
  <1>1. N \in Nat \ {0} /\ copied \in Nat /\ ppc = "copy" /\ dev \in Topologies
    BY CopyFacts
  <1>2. host \in Buffers
    BY CopyFacts
  <1>3. copied <= Len(host.flow)
    <2>1. CASE copied = 0
      BY <2>1, <1>2 DEF Buffers
    <2>2. CASE copied \in 1 .. N
      BY <2>2, <1>1 DEF CopyInv, WordsCopied
    <2> QED
      BY <2>1, <2>2, <1>1
  <1>4. PICK i \in Nat : i = copied + 1
    BY <1>1
  <1>5. i \in 1 .. N
    BY <1>1, <1>4
  <1>6. PICK v \in Int : v = dev.edges[i].flow
    BY <1>1, <1>5, EdgesAscend
  <1>7. host' = [host EXCEPT !.flow = Stored(host.flow, i, v)]
    BY <1>4, <1>6, CopyStep
  <1>8. host.flow \in Seq(Int) /\ i \in 1 .. Len(host.flow) + 1
    BY <1>1, <1>2, <1>3, <1>4 DEF Buffers
  <1>9. PICK b \in Seq(Int) : /\ b = Stored(host.flow, i, v)
                             /\ Len(host.flow) <= Len(b) /\ i <= Len(b)
    <2>1. WordStored(Int, host.flow, i, v, Stored(host.flow, i, v))
      BY <1>6, <1>8, StoredWord, Zenon
    <2> QED
      BY <2>1, Zenon DEF WordStored
  <1>10. host' = [host EXCEPT !.flow = b]
    BY <1>7, <1>9, Zenon
  <1>11. host'.flow = b /\ host'.src = host.src /\ host'.dst = host.dst
    BY <1>2, <1>10 DEF Buffers
  <1>12. host' \in Buffers
    BY <1>2, <1>9, <1>10 DEF Buffers
  <1>13. Grows(host, host')
    BY <1>2, <1>9, <1>11 DEF Buffers, Grows
  <1> QED
    BY <1>4, <1>9, <1>11, <1>12, <1>13

(* A word of the source array. *)
LEMMA CopySrc ==
    ASSUME CopyInv, CopyWord, copied >= N, copied < 2 * N, NEW i \in Nat, i = copied - N + 1
    PROVE  /\ host' \in Buffers /\ Grows(host, host') /\ host'.flow = host.flow /\ host'.dst = host.dst
           /\ Len(host'.src) \in {Len(host.src), i} /\ i <= Len(host'.src)
           /\ host'.src[i] = dev.edges[i].src
           /\ \A k \in 1 .. Len(host.src) : k # i => host'.src[k] = host.src[k]
  <1>1. N \in Nat \ {0} /\ copied \in Nat /\ ppc = "copy" /\ dev \in Topologies
    BY CopyFacts
  <1>2. host \in Buffers
    BY CopyFacts
  <1>3. i \in 1 .. N /\ i - 1 + N <= copied
    BY <1>1
  <1>4. i - 1 <= Len(host.src)
    <2>1. CASE i = 1
      BY <2>1, <1>2 DEF Buffers
    <2>2. CASE i > 1
      <3>1. PICK k \in 1 .. N : k = i - 1
        BY <2>2, <1>1, <1>3
      <3> QED
        BY <3>1, <1>1, <1>3 DEF CopyInv, WordsCopied
    <2> QED
      BY <2>1, <2>2, <1>3
  <1>6. PICK v \in Nat : v = dev.edges[i].src
    BY <1>1, <1>3, EdgesAscend
  <1>7. host' = [host EXCEPT !.src = Stored(host.src, i, v)]
    BY <1>6, CopyStep
  <1>8. host.src \in Seq(Nat) /\ i \in 1 .. Len(host.src) + 1
    BY <1>2, <1>3, <1>4 DEF Buffers
  <1>5. PICK b : b = Stored(host.src, i, v)
    OBVIOUS
  <1>9. /\ b \in Seq(Nat) /\ Len(b) \in {Len(host.src), i} /\ Len(host.src) <= Len(b) /\ i <= Len(b)
        /\ b[i] = v /\ \A k \in 1 .. Len(host.src) : k # i => b[k] = host.src[k]
    <2>1. v \in Nat
      BY <1>6
    <2>2. WordStored(Nat, host.src, i, v, Stored(host.src, i, v))
      BY <2>1, <1>8, StoredWord, Zenon
    <2> QED
      BY <2>2, <1>5, Zenon DEF WordStored
  <1>10. host' = [host EXCEPT !.src = b]
    BY <1>7, <1>5, Zenon
  <1>11. host'.flow = host.flow /\ host'.dst = host.dst /\ host'.src = b
    BY <1>2, <1>10 DEF Buffers
  <1>12. host' \in Buffers
    BY <1>2, <1>9, <1>10 DEF Buffers
  <1>13. Grows(host, host')
    BY <1>2, <1>9, <1>11 DEF Buffers, Grows
  <1> QED
    BY <1>6, <1>9, <1>11, <1>12, <1>13, Zenon

(* A word of the destination array. *)
LEMMA CopyDst ==
    ASSUME CopyInv, CopyWord, copied >= 2 * N, NEW i \in Nat, i = copied - 2 * N + 1
    PROVE  /\ host' \in Buffers /\ Grows(host, host') /\ host'.flow = host.flow /\ host'.src = host.src
           /\ Len(host'.dst) \in {Len(host.dst), i} /\ i <= Len(host'.dst)
           /\ host'.dst[i] = dev.edges[i].dst
           /\ \A k \in 1 .. Len(host.dst) : k # i => host'.dst[k] = host.dst[k]
  <1>1. N \in Nat \ {0} /\ copied \in Nat /\ ppc = "copy" /\ dev \in Topologies /\ copied < 3 * N
    BY CopyFacts
  <1>2. host \in Buffers
    BY CopyFacts
  <1>3. i \in 1 .. N /\ i - 1 + 2 * N <= copied
    BY <1>1
  <1>4. i - 1 <= Len(host.dst)
    <2>1. CASE i = 1
      BY <2>1, <1>2 DEF Buffers
    <2>2. CASE i > 1
      <3>1. PICK k \in 1 .. N : k = i - 1
        BY <2>2, <1>1, <1>3
      <3> QED
        BY <3>1, <1>1, <1>3 DEF CopyInv, WordsCopied
    <2> QED
      BY <2>1, <2>2, <1>3
  <1>6. PICK v \in Nat : v = dev.edges[i].dst
    BY <1>1, <1>3, EdgesAscend
  <1>7. host' = [host EXCEPT !.dst = Stored(host.dst, i, v)]
    BY <1>6, CopyStep
  <1>8. host.dst \in Seq(Nat) /\ i \in 1 .. Len(host.dst) + 1
    BY <1>2, <1>3, <1>4 DEF Buffers
  <1>5. PICK b : b = Stored(host.dst, i, v)
    OBVIOUS
  <1>9. /\ b \in Seq(Nat) /\ Len(b) \in {Len(host.dst), i} /\ Len(host.dst) <= Len(b) /\ i <= Len(b)
        /\ b[i] = v /\ \A k \in 1 .. Len(host.dst) : k # i => b[k] = host.dst[k]
    <2>1. v \in Nat
      BY <1>6
    <2>2. WordStored(Nat, host.dst, i, v, Stored(host.dst, i, v))
      BY <2>1, <1>8, StoredWord, Zenon
    <2> QED
      BY <2>2, <1>5, Zenon DEF WordStored
  <1>10. host' = [host EXCEPT !.dst = b]
    BY <1>7, <1>5, Zenon
  <1>11. host'.flow = host.flow /\ host'.src = host.src /\ host'.dst = b
    BY <1>2, <1>10 DEF Buffers
  <1>12. host' \in Buffers
    BY <1>2, <1>9, <1>10 DEF Buffers
  <1>13. Grows(host, host')
    BY <1>2, <1>9, <1>11 DEF Buffers, Grows
  <1> QED
    BY <1>6, <1>9, <1>11, <1>12, <1>13, Zenon

(* A copy step adds one word and leaves those copied before. *)
LEMMA CopyAdvances ==
    ASSUME CopyInv, CopyWord
    PROVE  host' \in Buffers /\ Grows(host, host') /\ WordsCopied' /\ RestJoined'
  <1>1. N \in Nat \ {0} /\ copied \in Nat /\ copied < 3 * N
    BY CopyFacts
  <1>2. ppc = "copy" /\ dev' = dev /\ copied' = copied + 1 /\ N' = N /\ host \in Buffers
    BY CopyFacts DEF N
  <1>3. WordsCopied /\ RestJoined
    BY <1>2 DEF CopyInv
  <1>4. CASE copied < N
    <2>1. host' \in Buffers /\ Grows(host, host') /\ host'.src = host.src /\ host'.dst = host.dst
          /\ Len(host'.flow) >= copied + 1
      BY <1>4, CopyFlow
    <2>2. RestJoined'
      BY <1>2, <1>3, <2>1 DEF RestJoined, Joined
    <2>3. \A k \in 1 .. N : k <= copied + 1 => k <= Len(host'.flow)
      BY <2>1, <1>1 DEF Buffers
    <2>4. \A k \in 1 .. N : ~(k + N <= copied + 1) /\ ~(k + 2 * N <= copied + 1)
      BY <1>1, <1>4
    <2>5. WordsCopied'
      BY <1>2, <2>3, <2>4 DEF WordsCopied
    <2> QED
      BY <2>1, <2>2, <2>5
  <1>5. CASE copied >= N /\ copied < 2 * N
    <2>1. PICK i \in Nat : i = copied - N + 1
      BY <1>1, <1>5
    <2>2. /\ host' \in Buffers /\ Grows(host, host') /\ host'.flow = host.flow /\ host'.dst = host.dst
          /\ Len(host'.src) \in {Len(host.src), i} /\ i <= Len(host'.src)
          /\ host'.src[i] = dev.edges[i].src
          /\ \A k \in 1 .. Len(host.src) : k # i => host'.src[k] = host.src[k]
      BY <1>5, <2>1, CopySrc
    <2>3. i \in 1 .. N /\ Len(host.src) \in Nat /\ Len(host'.src) \in Nat
          /\ Len(host.src) <= Len(host'.src)
      BY <1>1, <1>2, <1>5, <2>1, <2>2 DEF Buffers, Grows
    <2>4. RestJoined'
      <3> SUFFICES ASSUME NEW k \in Nat \ {0}, k > N, k <= Len(host'.src), k <= Len(host.dst)
                   PROVE  host'.src[k] < host.dst[k]
        BY <1>2, <2>2 DEF RestJoined, Joined
      <3>1. k <= Len(host.src) /\ k # i
        BY <1>1, <2>2, <2>3
      <3>2. host'.src[k] = host.src[k]
        BY <3>1, <2>2, <2>3
      <3> QED
        BY <3>1, <3>2, <1>3 DEF RestJoined, Joined
    <2>5. ASSUME NEW k \in 1 .. N
          PROVE  /\ k <= copied + 1 => k <= Len(host'.flow)
                 /\ k + N <= copied + 1 => k <= Len(host'.src) /\ host'.src[k] = dev.edges[k].src
                 /\ ~(k + 2 * N <= copied + 1)
      <3>1. k <= Len(host.flow)
        BY <1>1, <1>3, <1>5 DEF WordsCopied
      <3>2. ASSUME k + N <= copied + 1, k # i
            PROVE  k <= Len(host'.src) /\ host'.src[k] = dev.edges[k].src
        <4>1. k + N <= copied
          BY <3>2, <1>1, <2>1
        <4>2. k <= Len(host.src) /\ host.src[k] = dev.edges[k].src
          BY <4>1, <1>3 DEF WordsCopied
        <4>3. k \in 1 .. Len(host.src) /\ k <= Len(host'.src)
          BY <4>2, <2>3
        <4> QED
          BY <3>2, <4>2, <4>3, <2>2
      <3>3. ~(k + 2 * N <= copied + 1)
        BY <1>1, <1>5
      <3> QED
        BY <3>1, <3>2, <3>3, <2>2
    <2>6. WordsCopied'
      BY <1>2, <2>5 DEF WordsCopied
    <2> QED
      BY <2>2, <2>4, <2>6
  <1>6. CASE copied >= 2 * N
    <2>1. PICK i \in Nat : i = copied - 2 * N + 1
      BY <1>1, <1>6
    <2>2. /\ host' \in Buffers /\ Grows(host, host') /\ host'.flow = host.flow /\ host'.src = host.src
          /\ Len(host'.dst) \in {Len(host.dst), i} /\ i <= Len(host'.dst)
          /\ host'.dst[i] = dev.edges[i].dst
          /\ \A k \in 1 .. Len(host.dst) : k # i => host'.dst[k] = host.dst[k]
      BY <1>6, <2>1, CopyDst
    <2>3. i \in 1 .. N /\ Len(host.dst) \in Nat /\ Len(host'.dst) \in Nat
          /\ Len(host.dst) <= Len(host'.dst)
      BY <1>1, <1>2, <1>6, <2>1, <2>2 DEF Buffers, Grows
    <2>4. RestJoined'
      <3> SUFFICES ASSUME NEW k \in Nat \ {0}, k > N, k <= Len(host.src), k <= Len(host'.dst)
                   PROVE  host.src[k] < host'.dst[k]
        BY <1>2, <2>2 DEF RestJoined, Joined
      <3>1. k <= Len(host.dst) /\ k # i
        BY <1>1, <2>2, <2>3
      <3>2. host'.dst[k] = host.dst[k]
        BY <3>1, <2>2, <2>3
      <3> QED
        BY <3>1, <3>2, <1>3 DEF RestJoined, Joined
    <2>5. ASSUME NEW k \in 1 .. N
          PROVE  /\ k <= Len(host.flow) /\ k <= Len(host.src) /\ host.src[k] = dev.edges[k].src
                 /\ k + 2 * N <= copied + 1 => k <= Len(host'.dst) /\ host'.dst[k] = dev.edges[k].dst
      <3>1. k <= copied /\ k + N <= copied
        BY <1>1, <1>6
      <3>2. k <= Len(host.flow) /\ k <= Len(host.src) /\ host.src[k] = dev.edges[k].src
        BY <3>1, <1>3 DEF WordsCopied
      <3>3. ASSUME k + 2 * N <= copied + 1, k # i
            PROVE  k <= Len(host'.dst) /\ host'.dst[k] = dev.edges[k].dst
        <4>1. k + 2 * N <= copied
          BY <3>3, <1>1, <2>1
        <4>2. k <= Len(host.dst) /\ host.dst[k] = dev.edges[k].dst
          BY <4>1, <1>3 DEF WordsCopied
        <4>3. k \in 1 .. Len(host.dst) /\ k <= Len(host'.dst)
          BY <4>2, <2>3
        <4> QED
          BY <3>3, <4>2, <4>3, <2>2
      <3> QED
        BY <3>2, <3>3, <2>2
    <2>6. WordsCopied'
      BY <1>2, <2>2, <2>5 DEF WordsCopied
    <2> QED
      BY <2>2, <2>4, <2>6
  <1> QED
    BY <1>1, <1>4, <1>5, <1>6

(* The last word copied makes the buffers whole. *)
LEMMA CopyPreserves ==
    ASSUME IInv, CopyInv, CopyWord
    PROVE  CopyInv'
  <1>1. N \in Nat \ {0} /\ copied \in Nat /\ copied < 3 * N
    BY CopyFacts
  <1>2. dev' = dev /\ copied' = copied + 1 /\ N' = N /\ host \in Buffers /\ dev \in Topologies
        /\ signal_history' = signal_history /\ ppc' = IF copied + 1 = 3 * N THEN "stamp" ELSE "copy"
    BY CopyFacts DEF N
  <1>3. host' \in Buffers /\ Grows(host, host') /\ WordsCopied' /\ RestJoined'
    BY CopyAdvances
  <1>4. ASSUME NEW s \in Slots PROVE Reaches(host', signal_history[s].load.n_edges)
    <2>1. signal_history[s].load.n_edges \in Nat
      BY DEF IInv, TypeInv, Record, Load
    <2>2. Reaches(host, signal_history[s].load.n_edges)
      BY DEF CopyInv
    <2> QED
      BY <2>1, <2>2, <1>2, <1>3, GrowsReaches, Zenon
  <1>5. CASE copied + 1 = 3 * N
    <2>1. \A k \in 1 .. N : k <= copied + 1 /\ k + N <= copied + 1 /\ k + 2 * N <= copied + 1
      BY <1>5, <1>1
    <2>2. \A k \in 1 .. N : /\ k <= Len(host'.flow) /\ k <= Len(host'.src) /\ k <= Len(host'.dst)
                            /\ host'.src[k] = dev.edges[k].src /\ host'.dst[k] = dev.edges[k].dst
      BY <2>1, <1>2, <1>3 DEF WordsCopied
    <2>3. Reaches(host', N)
      <3>1. N \in 1 .. N
        BY <1>1
      <3> QED
        BY <3>1, <2>2 DEF Reaches
    <2>4. ASSUME NEW k \in Nat \ {0} PROVE Joined(k)'
      <3>1. CASE k > N
        BY <3>1, <1>2, <1>3 DEF RestJoined
      <3>2. CASE k \in 1 .. N
        <4>1. dev.edges[k].src < dev.edges[k].dst
          BY <3>2, <1>2, EdgesAscend
        <4> QED
          BY <4>1, <3>2, <2>2 DEF Joined
      <3> QED
        BY <3>1, <3>2, <1>1
    <2>5. ppc' = "stamp"
      BY <1>2, <1>5
    <2>6. (\A k \in Nat \ {0} : Joined(k))'
      BY <2>4
    <2> QED
      BY <2>3, <2>5, <2>6, <1>1, <1>2, <1>3, <1>4 DEF CopyInv
  <1>6. CASE copied + 1 # 3 * N
    <2>1. ppc' = "copy" /\ copied + 1 < 3 * N
      BY <1>1, <1>2, <1>6
    <2> QED
      BY <2>1, <1>1, <1>2, <1>3, <1>4 DEF CopyInv
  <1> QED
    BY <1>5, <1>6

(* A new topology: nothing of it has been copied yet. *)
LEMMA ComputeKeepsCopy ==
    ASSUME CopyInv, NEW t \in Topologies, Compute(t)
    PROVE  CopyInv' /\ host' = host
  <1>1. ppc = "idle" /\ dev' = t /\ copied' = 0 /\ host' = host /\ signal_history' = signal_history
        /\ ppc' = IF t.edges # <<>> THEN "copy" ELSE "idle"
    BY DEF Compute
  <1>2. host \in Buffers /\ (\A s \in Slots : Reaches(host, signal_history[s].load.n_edges))
        /\ \A k \in Nat \ {0} : Joined(k)
    BY <1>1 DEF CopyInv
  <1>3. \A k \in Nat \ {0} : Joined(k)'
    BY <1>1, <1>2 DEF Joined
  <1>4. N' \in Nat
    BY <1>1, PipelineAssumption DEF N, Topology
  <1>5. CASE t.edges = <<>>
    <2>1. ppc' = "idle"
      BY <1>1, <1>5
    <2> QED
      BY <2>1, <1>1, <1>2, <1>3 DEF CopyInv
  <1>6. CASE t.edges # <<>>
    <2>1. ppc' = "copy"
      BY <1>1, <1>6
    <2>2. t.edges \in Seq(Edge)
      BY PipelineAssumption DEF Topology
    <2>3. N' > 0
      BY <1>1, <1>6, <2>2 DEF N
    <2>4. WordsCopied'
      <3>1. PICK m \in Nat : m = N'
        BY <1>4
      <3>2. \A k \in 1 .. m : ~(k <= 0) /\ ~(k + m <= 0) /\ ~(k + 2 * m <= 0)
        OBVIOUS
      <3> QED
        BY <3>1, <3>2, <1>1 DEF WordsCopied
    <2>5. RestJoined'
      BY <1>3 DEF RestJoined
    <2>6. copied' < 3 * N'
      <3>1. \A m \in Nat : m > 0 => 0 < 3 * m
        OBVIOUS
      <3> QED
        BY <3>1, <1>1, <1>4, <2>3
    <2> QED
      BY <2>1, <2>3, <2>4, <2>5, <2>6, <1>1, <1>2 DEF CopyInv
  <1> QED
    BY <1>5, <1>6

(* Recording, publishing and clustering only copy the edge count of a      *)
(* topology that has reached the buffers.                                  *)
LEMMA RecordKeepsCopy ==
    ASSUME IInv, CopyInv, record_signal \/ build_cluster_window_and_fit
    PROVE  CopyInv' /\ host' = host
  <1>1. dev' = dev /\ copied' = copied /\ host' = host /\ ppc \in {"stamp", "load", "publish", "fit"}
        /\ (ppc = "fit" => ppc' = "idle") /\ (ppc' \in {"load", "publish", "fit", "idle"})
        /\ (ppc' = "load" => ppc = "stamp") /\ (ppc' = "publish" => ppc = "load")
    BY DEF record_signal, WriteStamp, WriteLoad, Publish, build_cluster_window_and_fit
  <1>2. ASSUME NEW s \in Slots PROVE Reaches(host, signal_history'[s].load.n_edges)
    <2>1. Reaches(host, signal_history[s].load.n_edges)
      BY DEF CopyInv
    <2>2. signal_history \in [Slots -> Record] /\ idx \in Slots
      BY IdxSlot DEF IInv, TypeInv
    <2>3. CASE WriteStamp
      <3>1. signal_history'[s].load = signal_history[s].load
        BY <2>2, <2>3 DEF WriteStamp, Record
      <3> QED
        BY <2>1, <3>1
    <2>4. CASE WriteLoad
      <3>1. CASE s = idx
        <4>1. signal_history'[s].load = new_rec.load
          BY <2>2, <2>4, <3>1 DEF WriteLoad, Record
        <4>2. new_rec.load.n_edges = N
          BY DEF new_rec, N
        <4>3. Reaches(host, N)
          BY <2>4 DEF CopyInv, WriteLoad
        <4> QED
          BY <4>1, <4>2, <4>3
      <3>2. CASE s # idx
        <4>1. signal_history'[s] = signal_history[s]
          BY <2>2, <2>4, <3>2 DEF WriteLoad
        <4> QED
          BY <2>1, <4>1
      <3> QED
        BY <3>1, <3>2
    <2>5. CASE Publish \/ build_cluster_window_and_fit
      BY <2>1, <2>5 DEF Publish, build_cluster_window_and_fit
    <2> QED
      BY <2>3, <2>4, <2>5 DEF record_signal
  <1>3. host \in Buffers /\ copied \in Nat /\ dev \in Topologies /\ N > 0
        /\ (ppc \in {"stamp", "load", "publish"} => Reaches(host, N))
        /\ \A k \in Nat \ {0} : Joined(k)
    BY <1>1 DEF CopyInv
  <1>4. N' = N /\ \A k \in Nat \ {0} : Joined(k)'
    BY <1>1, <1>3 DEF N, Joined
  <1> QED
    BY <1>1, <1>2, <1>3, <1>4 DEF CopyInv

(* Every step of the pipeline thread. *)
LEMMA PipelineKeepsCopy ==
    ASSUME IInv, CopyInv, PipelineStep
    PROVE  CopyInv' /\ Grows(host, host') /\ (ppc # "copy" => host' = host)
  <1>1. host \in Buffers
    BY DEF CopyInv
  <1>2. host' = host => Grows(host, host')
    BY <1>1 DEF Grows, Buffers
  <1>3. CASE CopyWord
    BY <1>3, CopyPreserves, CopyAdvances DEF CopyWord
  <1> QED
    BY <1>2, <1>3, ComputeKeepsCopy, RecordKeepsCopy DEF PipelineStep

(* The counters of the pipeline thread. *)
LEMMA PipelineKeepsCount ==
    ASSUME IInv, CountInv, PipelineStep
    PROVE  CountInv'
  <1>0. tick \in 0 .. MaxTicks /\ tick \in Nat /\ published \in Seq(Record)
    BY DEF IInv, TypeInv, CountInv
  <1>1. CASE \E t \in Topologies : Compute(t)
    <2>1. PICK t \in Topologies : Compute(t)
      BY <1>1
    <2>2. tick' = tick + 1 /\ tick < MaxTicks /\ published' = published
      BY <2>1 DEF Compute
    <2>3. tick' \in 1 .. MaxTicks
      BY <2>2, <1>0, PipelineAssumption
    <2>4. \A i \in 1 .. Len(published') : published'[i].ts \in 1 .. tick'
      BY <2>2, <1>0 DEF CountInv
    <2>5. streak' \in [current: Nat, max: Nat] /\ streak'.current <= streak'.max /\ streak'.max <= tick'
      <3>1. streak \in [current: Nat, max: Nat] /\ streak.current <= streak.max /\ streak.max <= tick
        BY DEF CountInv
      <3>2. CASE t.edges # <<>>
        <4>1. streak' = [streak EXCEPT !.current = 0]
          BY <2>1, <3>2 DEF Compute
        <4> QED
          BY <4>1, <3>1, <2>2, <1>0
      <3>3. CASE t.edges = <<>>
        <4>1. PICK n \in Nat : n = streak.current + 1
          BY <3>1
        <4>2. PICK m \in Nat : m = IF n > streak.max THEN n ELSE streak.max
          BY <3>1, <4>1
        <4>3. streak' = [current |-> n, max |-> m]
          BY <2>1, <3>3, <4>1, <4>2 DEF Compute
        <4>4. n <= m /\ m <= tick'
          BY <3>1, <4>1, <4>2, <2>2, <1>0
        <4> QED
          BY <4>3, <4>4
      <3> QED
        BY <3>2, <3>3
    <2> QED
      BY <2>3, <2>4, <2>5 DEF CountInv
  <1>2. CASE Publish
    <2>1. published' = Append(published, new_rec) /\ tick' = tick /\ streak' = streak /\ ppc = "publish"
      BY <1>2 DEF Publish
    <2>2. tick > 0 /\ new_rec.ts = tick /\ new_rec \in Record
      BY <2>1, NewRecord DEF CountInv, new_rec, IInv
    <2>3. \A i \in 1 .. Len(published') : published'[i].ts \in 1 .. tick
      BY <2>1, <2>2, <1>0 DEF CountInv
    <2> QED
      BY <2>1, <2>2, <2>3 DEF CountInv
  <1>3. CASE CopyWord \/ WriteStamp \/ WriteLoad \/ build_cluster_window_and_fit
    <2>1. UNCHANGED <<tick, streak, published>> /\ ppc # "idle"
      BY <1>3 DEF CopyWord, WriteStamp, WriteLoad, build_cluster_window_and_fit
    <2> QED
      BY <2>1 DEF CountInv
  <1> QED
    BY <1>1, <1>2, <1>3 DEF PipelineStep, record_signal

-----------------------------------------------------------------------------
(* The choice depends on the batch and the buffers seen only. *)
LEMMA SameChoice ==
    ASSUME UNCHANGED <<seen, batch>>
    PROVE  /\ \A k, j : Eligible(k, j)' = Eligible(k, j)
           /\ \A k : Picked(k)' = Picked(k)
  <1>1. \A k : Picked(k)' = Picked(k)
    BY DEF Picked, Candidate
  <1>2. \A x, j : Apart(x, j)' = Apart(x, j)
    BY DEF Apart
  <1> QED
    BY <1>1, <1>2 DEF Eligible

(* The same, for the batch as a whole. *)
LEMMA SameChoiceInv ==
    ASSUME UNCHANGED <<seen, batch, n_edges>>
    PROVE  ChoiceInv' = ChoiceInv
  <1>1. /\ \A k, j : Eligible(k, j)' = Eligible(k, j)
        /\ \A k : Picked(k)' = Picked(k)
    BY SameChoice
  <1> QED
    BY <1>1 DEF ChoiceInv

(* A step of the pipeline thread disturbs a routing only by tearing it. *)
LEMMA PipelineKeepsRoute ==
    ASSUME IInv, RouteInv, Pipeline
    PROVE  RouteInv'
  <1>1. PipelineStep /\ torn' = (torn \/ (Scanning /\ ppc = "copy"))
        /\ UNCHANGED <<mpc, sig, n_edges, scan, batch, seen, spawned>>
    BY DEF Pipeline
  <1>2. CopyInv' /\ Grows(host, host') /\ (ppc # "copy" => host' = host)
    BY <1>1, PipelineKeepsCopy DEF RouteInv
  <1>3. CountInv'
    BY <1>1, PipelineKeepsCount DEF RouteInv
  <1>4. ScanInv'
    <2>1. n_edges \in Nat /\ Reaches(host, n_edges) /\ host \in Buffers /\ host' \in Buffers
      BY <1>2 DEF RouteInv, ScanInv, CopyInv
    <2>2. Reaches(host', n_edges)
      BY <2>1, <1>2, GrowsReaches, Zenon
    <2>3. torn' \in BOOLEAN /\ Scanning' = Scanning
      BY <1>1 DEF Scanning
    <2> QED
      BY <1>1, <2>2, <2>3 DEF RouteInv, ScanInv
  <1>5. GreedyInv'
    <2> SUFFICES ASSUME ~torn' PROVE GreedyInv'
      BY DEF GreedyInv
    <2>1. ~torn /\ (Scanning => host' = host) /\ Scanning' = Scanning
      BY <1>1, <1>2 DEF Scanning
    <2>2. \A k, j : Eligible(k, j)' = Eligible(k, j)
      BY <1>1, SameChoice
    <2>3. ChoiceInv' = ChoiceInv
      BY <1>1, SameChoiceInv
    <2>4. BestInv' = BestInv
      BY <1>1, <2>2 DEF BestInv
    <2> QED
      BY <1>1, <2>1, <2>2, <2>3, <2>4 DEF RouteInv, GreedyInv
  <1>6. SpawnInv'
    BY <1>1 DEF RouteInv, SpawnInv, Legs
  <1> QED
    BY <1>2, <1>3, <1>4, <1>5, <1>6 DEF RouteInv

(* Steps of the main thread leave what the pipeline thread knows alone. *)
LEMMA MainKeepsPipeline ==
    ASSUME CopyInv, CountInv, UNCHANGED pipeline
    PROVE  CopyInv' /\ CountInv'
  <1>1. CopyInv'
    BY DEF CopyInv, N, Joined, RestJoined, WordsCopied, pipeline
  <1>2. CountInv'
    BY DEF CountInv, pipeline
  <1> QED
    BY <1>1, <1>2

-----------------------------------------------------------------------------
(* The start of a routing. *)
LEMMA StartKeepsRoute ==
    ASSUME IInv, RouteInv, LoadTopology, UNCHANGED pipeline
    PROVE  ScanInv' /\ GreedyInv'
  <1>1. PICK n : n = signal_history[read_idx(write_idx)].load.n_edges
    OBVIOUS
  <1>2. n \in Nat /\ Reaches(host, n)
    <2>1. read_idx(write_idx) \in Slots
      BY ReadSlot DEF IInv, TypeInv
    <2>2. signal_history[read_idx(write_idx)] \in Record
      BY <2>1 DEF IInv, TypeInv
    <2> QED
      BY <1>1, <2>1, <2>2 DEF Record, Load, RouteInv, CopyInv
  <1>3. host' = host /\ mpc = "count" /\ sig' = sig
    BY DEF LoadTopology, pipeline
  <1>4. CASE n > 0
    <2>1. StartRoute(n)
      BY <1>1, <1>4 DEF LoadTopology
    <2>2. n_edges' = n /\ batch' = <<>> /\ scan' = FreshScan /\ seen' = host
          /\ torn' = (ppc = "copy")
          /\ mpc' = IF sig.load.action < active_threshold THEN "gate" ELSE "flow"
      BY <2>1 DEF StartRoute
    <2>3. ScanInv'
      BY <2>2, <1>2, <1>3, <1>4, RouterAssumption DEF ScanInv, FreshScan, Scan, Scanning, Taking
    <2>4. ASSUME ~torn' PROVE GreedyInv'
      <3>1. host \in Buffers /\ \A k \in Nat \ {0} : Joined(k)
        BY <2>2, <2>4 DEF RouteInv, CopyInv
      <3>2. \A k \in 1 .. n : host.src[k] < host.dst[k]
        <4>1. ASSUME NEW k \in 1 .. n PROVE k <= Len(host.src) /\ k <= Len(host.dst)
          BY <1>2, <3>1 DEF Reaches, Buffers
        <4> QED
          BY <4>1, <3>1, <1>2 DEF Joined
      <3>3. ChoiceInv'
        BY <2>2 DEF ChoiceInv
      <3>4. mpc' = "flow" => BestInv'
        BY <2>2 DEF BestInv, FreshScan
      <3>5. mpc' = "gate" => ~(sig.load.action >= active_threshold)
        <4>1. sig.load.action \in Nat
          BY DEF IInv, TypeInv, Record, Load
        <4> QED
          BY <4>1, <2>2, RouterAssumption
      <3>6. Scanning' => mpc' = "flow"
        BY <2>2 DEF Scanning
      <3> QED
        BY <3>1, <3>2, <3>3, <3>4, <3>5, <3>6, <2>2, <1>2, <1>3 DEF GreedyInv
    <2>5. torn' => GreedyInv'
      BY DEF GreedyInv
    <2> QED
      BY <2>3, <2>4, <2>5
  <1>5. CASE ~(n > 0)
    <2>1. mpc' = "poll" /\ UNCHANGED router
      BY <1>1, <1>5 DEF LoadTopology
    <2>2. UNCHANGED <<n_edges, scan, batch, torn, seen>>
      BY <2>1 DEF router
    <2>3. ScanInv'
      BY <2>1, <2>2, <1>3 DEF RouteInv, ScanInv, Scanning, Taking
    <2>4. ChoiceInv' = ChoiceInv
      BY <2>2, SameChoiceInv
    <2>5. GreedyInv'
      BY <2>1, <2>2, <2>4, <1>3 DEF RouteInv, GreedyInv, Scanning
    <2> QED
      BY <2>3, <2>5
  <1> QED
    BY <1>4, <1>5

-----------------------------------------------------------------------------
(* The magnitude of a flow is a natural number. *)
LEMMA AbsNat == \A x \in Int : Abs(x) \in Nat
  BY DEF Abs

(* is_used tests for an instrument what Apart says of an edge. *)
LEMMA FreeIsApart ==
    ASSUME NEW x
    PROVE  BothFree(x.src, x.dst) <=> Apart(x, Len(batch))
  BY DEF BothFree, is_used, Apart, Ends

(* What a step of route leaves alone, unless it takes an edge. *)
Frame == UNCHANGED <<host, sig, n_edges, batch, torn, seen>>

(* On to the next edge or to the end of the scan: s has taken account of   *)
(* the current edge.                                                       *)
Accounted(s) ==
    /\ s.best > 0 => /\ Eligible(s.best, Len(batch))
                     /\ s.best_af = Abs(seen.flow[s.best])
    /\ \A k \in 1 .. n_edges : k <= scan.e /\ Eligible(k, Len(batch)) =>
           s.best > 0 /\ Abs(seen.flow[k]) <= s.best_af

(* Then the scan may go on. *)
LEMMA AdvanceKeepsRoute ==
    ASSUME ScanInv, GreedyInv, Frame, mpc \in {"flow", "src", "dst"},
           NEW s \in Scan, s.e = scan.e, s.best \in 0 .. n_edges, Advance(s),
           ~torn => Accounted(s)
    PROVE  ScanInv' /\ GreedyInv'
  <1>1. scan' = [s EXCEPT !.e = s.e + 1]
        /\ mpc' = IF s.e < n_edges THEN "flow" ELSE IF s.best # 0 THEN "take_src" ELSE "gate"
    BY DEF Advance
  <1>2. s.e \in 1 .. n_edges /\ n_edges \in Nat /\ Scanning
    BY DEF ScanInv, Scanning
  <1>3. scan' \in Scan /\ scan'.e = s.e + 1 /\ scan'.best = s.best /\ scan'.best_af = s.best_af
    BY <1>1, <1>2 DEF Scan
  <1>4. (mpc' = "flow" => s.e < n_edges) /\ (mpc' = "take_src" => s.e = n_edges /\ s.best > 0)
        /\ (mpc' = "gate" => s.e = n_edges /\ s.best = 0)
        /\ mpc' \in {"flow", "take_src", "gate"}
    BY <1>1, <1>2
  <1>5. ScanInv'
    <2>1. n_edges' \in Nat /\ Reaches(host', n_edges') /\ batch' \in Seq(Edge)
          /\ Len(batch') <= k_signal_router_top_k /\ torn' \in BOOLEAN
          /\ n_edges > 0 /\ Len(batch') < k_signal_router_top_k
      BY <1>2 DEF ScanInv, Frame
    <2>2. mpc' = "flow" => scan'.e \in 1 .. n_edges'
      BY <1>2, <1>3, <1>4 DEF Frame
    <2>3. mpc' = "take_src" => scan'.best > 0 /\ scan'.e = n_edges' + 1
      BY <1>3, <1>4 DEF Frame
    <2>4. scan'.best \in 0 .. n_edges' /\ n_edges' > 0
      BY <1>3, <2>1 DEF Frame
    <2> QED
      BY <1>3, <1>4, <2>1, <2>2, <2>3, <2>4 DEF ScanInv, Taking
  <1>6. ASSUME ~torn' PROVE GreedyInv'
    <2>1. ~torn /\ Accounted(s) /\ seen = host /\ seen' = seen /\ host' = host /\ n_edges' = n_edges
          /\ batch' = batch /\ sig' = sig
      BY <1>2, <1>6 DEF Frame, GreedyInv
    <2>2. \A k, j : Eligible(k, j)' = Eligible(k, j)
      BY <2>1, SameChoice
    <2>3. ChoiceInv' = ChoiceInv
      BY <2>1, SameChoiceInv
    <2>4. \A k \in 1 .. n_edges : k < s.e + 1 <=> k <= scan.e
      BY <1>2
    <2>5. mpc' \in {"flow", "take_src"} => BestInv'
      <3>1. scan'.best > 0 => /\ Eligible(scan'.best, Len(batch))
                              /\ scan'.best_af = Abs(seen.flow[scan'.best])
        BY <1>3, <2>1 DEF Accounted
      <3>2. \A k \in 1 .. n_edges : k < scan'.e /\ Eligible(k, Len(batch)) =>
                scan'.best > 0 /\ Abs(seen.flow[k]) <= scan'.best_af
        BY <1>3, <2>1, <2>4 DEF Accounted
      <3> QED
        BY <3>1, <3>2, <2>1, <2>2 DEF BestInv
    <2>6. mpc' = "gate" => \A k \in 1 .. n_edges : ~Eligible(k, Len(batch))
      <3>1. SUFFICES ASSUME mpc' = "gate", NEW k \in 1 .. n_edges, Eligible(k, Len(batch)) PROVE FALSE
        OBVIOUS
      <3>2. s.best = 0 /\ k <= scan.e
        BY <3>1, <1>4, <1>2
      <3> QED
        BY <3>1, <3>2, <2>1 DEF Accounted
    <2>7. Scanning' => mpc' \in {"flow", "take_src"}
      BY <1>4 DEF Scanning
    <2> QED
      BY <2>1, <2>2, <2>3, <2>5, <2>6, <2>7 DEF GreedyInv
  <1>7. torn' => GreedyInv'
    BY DEF GreedyInv
  <1> QED
    BY <1>5, <1>6, <1>7

(* Reading the flow of the current edge. *)
LEMMA ReadFlowKeepsRoute ==
    ASSUME CopyInv, ScanInv, GreedyInv, Frame, ReadFlow
    PROVE  ScanInv' /\ GreedyInv'
  <1>1. mpc = "flow" /\ scan.e \in 1 .. n_edges /\ n_edges \in Nat /\ scan \in Scan /\ Scanning
    BY DEF ReadFlow, ScanInv, Scanning
  <1>2. PICK f \in Nat : f = Abs(host.flow[scan.e])
    <2>1. host.flow \in Seq(Int) /\ scan.e \in 1 .. Len(host.flow)
      BY <1>1 DEF CopyInv, Buffers, ScanInv, Reaches
    <2>2. host.flow[scan.e] \in Int
      BY <2>1
    <2> QED
      BY <2>2, AbsNat
  <1>3. PICK s \in Scan : s = [scan EXCEPT !.flow = f]
    BY <1>1, <1>2 DEF Scan
  <1>4. s.e = scan.e /\ s.flow = f /\ s.best = scan.best /\ s.best_af = scan.best_af
    BY <1>1, <1>3 DEF Scan
  <1>5. IF f < active_threshold THEN Advance(s) ELSE scan' = s /\ mpc' = "src"
    BY <1>2, <1>3, <1>4 DEF ReadFlow
  <1>6. scan.best \in 0 .. n_edges
    BY <1>1 DEF ScanInv
  <1>7. CASE f < active_threshold
    <2>1. ASSUME ~torn PROVE Accounted(s)
      <3>1. seen = host /\ BestInv
        BY <1>1, <2>1 DEF GreedyInv
      <3>2. ~Eligible(scan.e, Len(batch))
        BY <3>1, <1>2, <1>7, RouterAssumption DEF Eligible
      <3>3. \A k \in 1 .. n_edges : k <= scan.e <=> k < scan.e \/ k = scan.e
        BY <1>1
      <3> QED
        BY <3>1, <3>2, <3>3, <1>4 DEF Accounted, BestInv
    <2> QED
      BY <1>1, <1>4, <1>5, <1>6, <1>7, <2>1, AdvanceKeepsRoute
  <1>8. CASE ~(f < active_threshold)
    <2>1. scan' = s /\ mpc' = "src" /\ f >= active_threshold
      BY <1>2, <1>5, <1>8, RouterAssumption
    <2>2. ScanInv'
      BY <2>1, <1>1, <1>4 DEF ScanInv, Frame, Scanning, Taking
    <2>3. ASSUME ~torn' PROVE GreedyInv'
      <3>1. ~torn /\ seen = host /\ BestInv
        BY <1>1, <2>3 DEF GreedyInv, Frame
      <3>2. \A k, j : Eligible(k, j)' = Eligible(k, j)
        BY SameChoice DEF Frame
      <3>3. ChoiceInv' = ChoiceInv
        BY SameChoiceInv DEF Frame
      <3>4. BestInv'
        BY <3>1, <3>2, <2>1, <1>2, <1>4 DEF BestInv, Frame
      <3> QED
        BY <3>1, <3>3, <3>4, <2>1 DEF GreedyInv, Frame
    <2> QED
      BY <2>2, <2>3 DEF GreedyInv
  <1> QED
    BY <1>7, <1>8

(* Reading its source, and the source and destination of the chosen edge. *)
LEMMA ReadEndKeepsRoute ==
    ASSUME CopyInv, ScanInv, GreedyInv, Frame, ReadSrc \/ TakeSrc \/ TakeDst
    PROVE  ScanInv' /\ GreedyInv'
  <1>1. n_edges \in Nat /\ scan \in Scan /\ Scanning
    BY DEF ReadSrc, TakeSrc, TakeDst, ScanInv, Scanning
  <1>2. PICK i \in 1 .. n_edges : i = IF mpc = "src" THEN scan.e ELSE scan.best
    <2>1. mpc = "src" => scan.e \in 1 .. n_edges
      BY DEF ScanInv
    <2>2. mpc # "src" => scan.best \in 1 .. n_edges
      BY <1>1 DEF ScanInv, ReadSrc, TakeSrc, TakeDst, Taking
    <2> QED
      BY <2>1, <2>2
  <1>3. host.src[i] \in Nat /\ host.dst[i] \in Nat
    <2>1. host.src \in Seq(Nat) /\ host.dst \in Seq(Nat) /\ i \in 1 .. Len(host.src)
          /\ i \in 1 .. Len(host.dst)
      <3>1. host \in Buffers /\ Reaches(host, n_edges)
        BY DEF CopyInv, ScanInv
      <3>2. i \in Nat /\ 1 <= i /\ i <= n_edges
        BY <1>1, <1>2
      <3> QED
        BY <1>1, <3>1, <3>2 DEF Buffers, Reaches
    <2> QED
      BY <2>1
  <1>4. scan' \in Scan
        /\ scan'.e = scan.e /\ scan'.flow = scan.flow /\ scan'.best = scan.best
        /\ scan'.best_af = scan.best_af
        /\ (mpc = "src" => mpc' = "dst" /\ scan'.src = host.src[scan.e])
        /\ (mpc = "take_src" => mpc' = "take_dst" /\ scan'.src = host.src[scan.best])
        /\ (mpc = "take_dst" => mpc' = "take_flow" /\ scan'.src = scan.src
                                /\ scan'.dst = host.dst[scan.best])
        /\ mpc \in {"src", "take_src", "take_dst"}
    <2>1. CASE ReadSrc
      BY <2>1, <1>1, <1>2, <1>3 DEF ReadSrc, Scan
    <2>2. CASE TakeSrc
      BY <2>2, <1>1, <1>2, <1>3 DEF TakeSrc, Scan
    <2>3. CASE TakeDst
      BY <2>3, <1>1, <1>2, <1>3 DEF TakeDst, Scan
    <2> QED
      BY <2>1, <2>2, <2>3
  <1>5. ScanInv'
    BY <1>1, <1>4 DEF ScanInv, Frame, Scanning, Taking
  <1>6. ASSUME ~torn' PROVE GreedyInv'
    <2>1. ~torn /\ seen = host /\ BestInv
      BY <1>1, <1>6 DEF GreedyInv, Frame
    <2>2. \A k, j : Eligible(k, j)' = Eligible(k, j)
      BY SameChoice DEF Frame
    <2>3. ChoiceInv' = ChoiceInv
      BY SameChoiceInv DEF Frame
    <2>4. BestInv'
      BY <2>1, <2>2, <1>4 DEF BestInv, Frame
    <2>5. mpc' # "gate"
      BY <1>4
    <2> QED
      BY <2>1, <2>3, <2>4, <2>5 DEF GreedyInv, Frame
  <1> QED
    BY <1>5, <1>6 DEF GreedyInv

(* Reading its destination: the edge is compared with the best so far. *)
LEMMA ReadDstKeepsRoute ==
    ASSUME CopyInv, ScanInv, GreedyInv, Frame, ReadDst
    PROVE  ScanInv' /\ GreedyInv'
  <1>1. mpc = "dst" /\ scan.e \in 1 .. n_edges /\ n_edges \in Nat /\ scan \in Scan /\ Scanning
        /\ scan.best \in 0 .. n_edges
    BY DEF ReadDst, ScanInv, Scanning
  <1>2. PICK s : s = IF BothFree(scan.src, host.dst[scan.e]) /\ Better(scan)
                     THEN [scan EXCEPT !.best = scan.e, !.best_af = scan.flow] ELSE scan
    OBVIOUS
  <1>3. Advance(s)
    BY <1>2 DEF ReadDst
  <1>4. s \in Scan /\ s.e = scan.e /\ s.best \in 0 .. n_edges
    <2>1. PICK t : t = [scan EXCEPT !.best = scan.e, !.best_af = scan.flow]
      OBVIOUS
    <2>2. t \in Scan /\ t.e = scan.e /\ t.best = scan.e
      BY <2>1, <1>1 DEF Scan
    <2>3. t.best \in 0 .. n_edges
      BY <2>2, <1>1
    <2>4. s \in {t, scan}
      BY <2>1, <1>2
    <2> QED
      BY <2>2, <2>3, <2>4, <1>1
  <1>5. ASSUME ~torn PROVE Accounted(s)
    <2>1. seen = host /\ BestInv
      BY <1>1, <1>5 DEF GreedyInv
    <2>2. scan.flow = Abs(seen.flow[scan.e]) /\ scan.flow >= active_threshold
          /\ scan.src = seen.src[scan.e]
      BY <2>1, <1>1 DEF BestInv
    <2>3. BothFree(scan.src, host.dst[scan.e]) <=> Eligible(scan.e, Len(batch))
      <3>1. Picked(scan.e).src = scan.src /\ Picked(scan.e).dst = host.dst[scan.e]
        BY <2>1, <2>2 DEF Picked, Candidate
      <3>2. BothFree(Picked(scan.e).src, Picked(scan.e).dst) <=> Apart(Picked(scan.e), Len(batch))
        BY FreeIsApart
      <3> QED
        BY <3>1, <3>2, <2>2 DEF Eligible
    <2>4. \A k \in 1 .. n_edges : k <= scan.e <=> k < scan.e \/ k = scan.e
      BY <1>1
    <2>5. scan.flow \in Nat /\ scan.best_af \in Nat /\ scan.best \in Nat
      BY <1>1 DEF Scan
    <2>6. \A k \in 1 .. n_edges : k < scan.e /\ Eligible(k, Len(batch)) =>
              scan.best > 0 /\ Abs(seen.flow[k]) <= scan.best_af
      BY <2>1 DEF BestInv
    <2>7. \A k \in 1 .. n_edges : Abs(seen.flow[k]) \in Nat
      <3>1. ASSUME NEW k \in 1 .. n_edges PROVE host.flow[k] \in Int
        <4>1. host \in Buffers /\ Reaches(host, n_edges)
          BY DEF CopyInv, ScanInv
        <4>2. k \in 1 .. Len(host.flow) /\ host.flow \in Seq(Int)
          BY <4>1, <1>1 DEF Buffers, Reaches
        <4> QED
          BY <4>2
      <3> QED
        BY <3>1, <2>1, AbsNat
    <2>8. CASE Eligible(scan.e, Len(batch)) /\ Better(scan)
      <3>1. s.best = scan.e /\ s.best_af = scan.flow
        BY <2>3, <2>8, <1>1, <1>2 DEF Scan
      <3>2. ASSUME NEW k \in 1 .. n_edges, k <= scan.e, Eligible(k, Len(batch))
            PROVE  Abs(seen.flow[k]) <= scan.flow
        <4>1. CASE k = scan.e
          BY <4>1, <2>2, <2>5
        <4>2. CASE k < scan.e
          <5>1. scan.best > 0 /\ Abs(seen.flow[k]) <= scan.best_af
            BY <4>2, <3>2, <2>6
          <5>2. scan.flow > scan.best_af
            BY <5>1, <2>5, <2>8 DEF Better
          <5>3. Abs(seen.flow[k]) \in Nat
            BY <2>7
          <5> QED
            BY <5>1, <5>2, <5>3, <2>5
        <4> QED
          BY <4>1, <4>2, <3>2, <2>4
      <3>3. scan.e > 0
        BY <1>1
      <3> QED
        BY <3>1, <3>2, <3>3, <2>2, <2>8 DEF Accounted
    <2>9. CASE ~(Eligible(scan.e, Len(batch)) /\ Better(scan))
      <3>1. s = scan
        BY <2>3, <2>9, <1>2
      <3>2. Eligible(scan.e, Len(batch)) => scan.best > 0 /\ scan.flow <= scan.best_af
        BY <2>5, <2>9 DEF Better
      <3>3. ASSUME NEW k \in 1 .. n_edges, k <= scan.e, Eligible(k, Len(batch))
            PROVE  scan.best > 0 /\ Abs(seen.flow[k]) <= scan.best_af
        BY <3>2, <3>3, <2>2, <2>4, <2>6
      <3>4. scan.best > 0 => /\ Eligible(scan.best, Len(batch))
                             /\ scan.best_af = Abs(seen.flow[scan.best])
        BY <2>1 DEF BestInv
      <3> QED
        BY <3>1, <3>3, <3>4 DEF Accounted
    <2> QED
      BY <2>8, <2>9
  <1> QED
    BY <1>1, <1>3, <1>4, <1>5, AdvanceKeepsRoute

(* An edge joins the batch: it is the strongest of those that fit. *)
LEMMA TakeKeepsRoute ==
    ASSUME CopyInv, ScanInv, GreedyInv, TakeFlow, UNCHANGED <<host, sig>>
    PROVE  ScanInv' /\ GreedyInv'
  <1>1. mpc = "take_flow" /\ scan.best \in 1 .. n_edges /\ scan.e = n_edges + 1 /\ n_edges \in Nat
        /\ scan \in Scan /\ Scanning /\ n_edges > 0
    BY DEF TakeFlow, ScanInv, Scanning, Taking
  <1>2. PICK x : x = [src |-> scan.src, dst |-> scan.dst, flow |-> host.flow[scan.best]]
    OBVIOUS
  <1>3. batch' = Append(batch, x) /\ scan' = FreshScan /\ UNCHANGED <<n_edges, torn, seen>>
        /\ mpc' = IF Len(batch') < k_signal_router_top_k THEN "flow" ELSE "gate"
    BY <1>2 DEF TakeFlow
  <1>4. x \in Edge
    <2>1. host \in Buffers /\ Reaches(host, n_edges)
      BY DEF CopyInv, ScanInv
    <2>2. scan.best \in 1 .. Len(host.flow) /\ host.flow \in Seq(Int)
      BY <2>1, <1>1 DEF Buffers, Reaches
    <2>3. host.flow[scan.best] \in Int
      BY <2>2
    <2> QED
      BY <2>3, <1>1, <1>2 DEF Edge, Scan
  <1>5. PICK m \in Nat : m = Len(batch)
    BY DEF ScanInv
  <1>6. /\ batch \in Seq(Edge) /\ batch' \in Seq(Edge) /\ Len(batch') = m + 1
        /\ \A i \in 1 .. m : batch'[i] = batch[i]
        /\ batch'[m + 1] = x /\ m < k_signal_router_top_k
    BY <1>1, <1>3, <1>4, <1>5 DEF ScanInv
  <1>7. (mpc' = "flow" => m + 1 < k_signal_router_top_k)
        /\ (mpc' = "gate" => m + 1 = k_signal_router_top_k) /\ mpc' \in {"flow", "gate"}
    BY <1>3, <1>5, <1>6, RouterAssumption
  <1>8. ScanInv'
    <2>1. FreshScan \in Scan /\ FreshScan.best = 0 /\ FreshScan.e = 1
      BY DEF FreshScan, Scan
    <2>2. m + 1 <= k_signal_router_top_k
      BY <1>5, <1>6, RouterAssumption
    <2>3. Reaches(host, n_edges) /\ torn \in BOOLEAN
      BY DEF ScanInv
    <2> QED
      BY <2>1, <2>2, <2>3, <1>1, <1>3, <1>6, <1>7 DEF ScanInv, Scanning, Taking
  <1>9. ASSUME ~torn' PROVE GreedyInv'
    <2>1. ~torn /\ seen = host /\ BestInv /\ ChoiceInv /\ seen \in Buffers /\ Reaches(seen, n_edges)
          /\ \A k \in 1 .. n_edges : seen.src[k] < seen.dst[k]
      BY <1>1, <1>3, <1>9 DEF GreedyInv
    <2>2. x = Picked(scan.best)
      BY <2>1, <1>1, <1>2 DEF BestInv, Picked, Candidate
    <2>3. \A k : Picked(k)' = Picked(k)
      BY <1>3 DEF Picked, Candidate
    <2>4. ASSUME NEW j \in 0 .. m, NEW y PROVE Apart(y, j)' = Apart(y, j)
      <3>1. \A i \in 1 .. j : i \in 1 .. m
        BY <1>5
      <3> QED
        BY <3>1, <1>6 DEF Apart
    <2>5. \A j \in 0 .. m : \A k : Eligible(k, j)' = Eligible(k, j)
      BY <2>3, <2>4, <1>3 DEF Eligible
    <2>6. ASSUME NEW j \in 1 .. m + 1
          PROVE  /\ \E k \in 1 .. n_edges : batch'[j] = Picked(k) /\ Eligible(k, j - 1)
                 /\ \A k \in 1 .. n_edges : Eligible(k, j - 1) =>
                        Abs(seen.flow[k]) <= Abs(batch'[j].flow)
      <3>1. CASE j \in 1 .. m
        <4>1. batch'[j] = batch[j] /\ j \in 1 .. Len(batch)
          BY <3>1, <1>5, <1>6
        <4> QED
          BY <4>1, <2>1 DEF ChoiceInv
      <3>2. CASE j = m + 1
        <4>1. j - 1 = Len(batch) /\ batch'[j] = x
          BY <3>2, <1>5, <1>6
        <4>2. Eligible(scan.best, Len(batch)) /\ scan.best_af = Abs(seen.flow[scan.best])
          BY <2>1, <1>1 DEF BestInv
        <4>3. x.flow = seen.flow[scan.best]
          BY <2>1, <1>2
        <4>4. ASSUME NEW k \in 1 .. n_edges, Eligible(k, Len(batch))
              PROVE  Abs(seen.flow[k]) <= Abs(x.flow)
          <5>1. k < scan.e
            BY <1>1
          <5> QED
            BY <5>1, <4>2, <4>3, <4>4, <2>1 DEF BestInv
        <4> QED
          BY <4>1, <4>2, <4>4, <2>2, <1>1
      <3> QED
        BY <3>1, <3>2, <1>5
    <2>7. ChoiceInv'
      <3>1. \A j \in 1 .. m + 1 : j - 1 \in 0 .. m
        BY <1>5
      <3>2. \A j \in 1 .. m + 1 : \A k : Eligible(k, j - 1)' = Eligible(k, j - 1)
        BY <3>1, <2>5
      <3> QED
        BY <3>2, <2>3, <2>6, <1>3, <1>6 DEF ChoiceInv
    <2>8. mpc' = "flow" => BestInv'
      BY <1>1, <1>3 DEF BestInv, FreshScan
    <2>9. Scanning' => mpc' = "flow"
      BY <1>7 DEF Scanning
    <2> QED
      BY <2>1, <2>7, <2>8, <2>9, <1>3, <1>6, <1>7 DEF GreedyInv
  <1> QED
    BY <1>8, <1>9 DEF GreedyInv

-----------------------------------------------------------------------------
(* Steps of the main loop outside route. *)
LEMMA QuietKeepsRoute ==
    ASSUME ScanInv, GreedyInv, UNCHANGED <<host, n_edges, scan, batch, torn, seen>>,
           ~Scanning', mpc' # "gate"
    PROVE  ScanInv' /\ GreedyInv'
  <1>1. ScanInv'
    BY DEF ScanInv, Scanning, Taking
  <1>2. ChoiceInv' = ChoiceInv
    BY SameChoiceInv
  <1>3. GreedyInv'
    BY <1>2 DEF GreedyInv
  <1> QED
    BY <1>1, <1>3

(* The legs of an edge. *)
LEMMA LegsTyped == ASSUME NEW x \in Edge PROVE Legs(x) \in Seq(Leg)
  <1>0. PICK f, g : /\ f = (IF x.flow > 0 THEN "Buy" ELSE "Sell")
                    /\ g = (IF x.flow > 0 THEN "Sell" ELSE "Buy")
    OBVIOUS
  <1>1. PICK a : a = [symbol |-> x.src, side |-> f]
    OBVIOUS
  <1>2. PICK b : b = [symbol |-> x.dst, side |-> g]
    OBVIOUS
  <1>4. a \in Leg /\ b \in Leg
    <2>1. f \in {"Buy", "Sell"} /\ g \in {"Buy", "Sell"} /\ x.src \in Nat /\ x.dst \in Nat
      BY <1>0 DEF Edge
    <2> QED
      BY <2>1, <1>1, <1>2 DEF Leg
  <1>3. Legs(x) = <<a, b>>
    BY <1>0, <1>1, <1>2, Zenon DEF Legs
  <1> QED
    BY <1>3, <1>4

(* The next edge of the batch goes to the engine, or is skipped. *)
LEMMA SpawnKeeps ==
    ASSUME ScanInv, SpawnInv, NEW beyond \in BOOLEAN, Spawn(beyond)
    PROVE  SpawnInv'
  <1>1. mpc = "spawn" /\ batch' = batch /\ spawned \in Seq(Seq(Leg)) /\ Len(spawned) < Len(batch)
        /\ batch \in Seq(Edge)
    BY DEF Spawn, ScanInv, SpawnInv, router
  <1>2. PICK m \in Nat : m = Len(spawned)
    BY <1>1
  <1>3. m + 1 \in 1 .. Len(batch) /\ batch[m + 1] \in Edge
    BY <1>1, <1>2
  <1>4. PICK l : l = IF beyond THEN <<>> ELSE Legs(batch[m + 1])
    OBVIOUS
  <1>5. l \in Seq(Leg) /\ l \in {<<>>, Legs(batch[m + 1])}
    BY <1>3, <1>4, LegsTyped
  <1>6. spawned' = Append(spawned, l)
    BY <1>2, <1>4 DEF Spawn
  <1>7. /\ spawned' \in Seq(Seq(Leg)) /\ Len(spawned') = m + 1
        /\ \A i \in 1 .. m : spawned'[i] = spawned[i]
        /\ spawned'[m + 1] = l
    BY <1>1, <1>2, <1>5, <1>6
  <1>8. mpc' = IF m + 1 = Len(batch) THEN "poll" ELSE "spawn"
    BY <1>7 DEF Spawn
  <1>9. \A i \in 1 .. m + 1 : spawned'[i] \in {<<>>, Legs(batch[i])}
    <2>1. ASSUME NEW i \in 1 .. m PROVE spawned'[i] \in {<<>>, Legs(batch[i])}
      BY <1>2, <1>7 DEF SpawnInv
    <2>2. \A i \in 1 .. m + 1 : i \in 1 .. m \/ i = m + 1
      BY <1>2
    <2> QED
      BY <2>1, <2>2, <1>5, <1>7
  <1>10. mpc' = "spawn" => m + 1 < Len(batch)
    BY <1>1, <1>2, <1>3, <1>8
  <1>11. m + 1 <= Len(batch)
    BY <1>3
  <1> QED
    BY <1>1, <1>7, <1>8, <1>9, <1>10, <1>11 DEF SpawnInv, Legs

(* A batch not yet spawned may change. *)
LEMMA UnspawnedKeeps ==
    ASSUME ScanInv', spawned = <<>>, spawned' = <<>>, mpc' # "spawn"
    PROVE  SpawnInv'
  <1>1. Len(batch') \in Nat
    BY DEF ScanInv
  <1>2. spawned' \in Seq(Seq(Leg)) /\ Len(spawned') = 0
    OBVIOUS
  <1> QED
    BY <1>1, <1>2 DEF SpawnInv

(* Every step of the main loop. *)
LEMMA MainKeepsRoute ==
    ASSUME IInv, RouteInv, Main
    PROVE  RouteInv'
  <1>1. UNCHANGED pipeline /\ host' = host
    BY DEF Main, pipeline
  <1>2. CopyInv' /\ CountInv'
    BY <1>1, MainKeepsPipeline DEF RouteInv
  <1>3. CASE Poll \/ ReadStamp \/ ReadLoad \/ LoadTopologyIdx
    <2>1. UNCHANGED <<n_edges, scan, batch, torn, seen>> /\ ~Scanning' /\ mpc' \notin {"gate", "spawn"}
          /\ (spawned' = <<>> \/ (spawned' = spawned /\ mpc \notin {"spawn", "poll"}))
      BY <1>3 DEF Poll, ReadStamp, ReadLoad, LoadTopologyIdx, router, Scanning
    <2>2. ScanInv' /\ GreedyInv'
      BY <1>1, <2>1, QuietKeepsRoute DEF RouteInv
    <2>3. spawned' = <<>>
      BY <2>1 DEF RouteInv, SpawnInv
    <2>4. SpawnInv'
      BY <2>1, <2>2, <2>3 DEF SpawnInv, ScanInv
    <2> QED
      BY <1>2, <2>2, <2>4 DEF RouteInv
  <1>4. CASE LoadTopology
    <2>1. ScanInv' /\ GreedyInv'
      BY <1>1, <1>4, StartKeepsRoute
    <2>2. spawned = <<>> /\ spawned' = spawned /\ mpc' # "spawn"
      BY <1>4 DEF LoadTopology, StartRoute, RouteInv, SpawnInv
    <2>3. SpawnInv'
      BY <2>1, <2>2, UnspawnedKeeps
    <2> QED
      BY <1>2, <2>1, <2>3 DEF RouteInv
  <1>5. CASE route
    <2>1. RouteStep /\ sig' = sig /\ spawned' = spawned /\ mpc \notin {"spawn", "poll"} /\ mpc' # "spawn"
      BY <1>5 DEF route, RouteStep, ReadFlow, ReadSrc, ReadDst, TakeSrc, TakeDst, TakeFlow, Advance
    <2>2. ScanInv' /\ GreedyInv'
      <3>1. CASE TakeFlow
        BY <3>1, <1>1, <2>1, TakeKeepsRoute DEF RouteInv
      <3>2. CASE ReadFlow
        BY <3>2, <1>1, <2>1, ReadFlowKeepsRoute DEF RouteInv, Frame, ReadFlow
      <3>3. CASE ReadDst
        BY <3>3, <1>1, <2>1, ReadDstKeepsRoute DEF RouteInv, Frame, ReadDst
      <3>4. CASE ReadSrc \/ TakeSrc \/ TakeDst
        BY <3>4, <1>1, <2>1, ReadEndKeepsRoute DEF RouteInv, Frame, ReadSrc, TakeSrc, TakeDst
      <3> QED
        BY <2>1, <3>1, <3>2, <3>3, <3>4 DEF RouteStep
    <2>3. spawned = <<>>
      BY <2>1 DEF RouteInv, SpawnInv
    <2>4. SpawnInv'
      BY <2>1, <2>2, <2>3, UnspawnedKeeps
    <2> QED
      BY <1>2, <2>2, <2>4 DEF RouteInv
  <1>6. CASE \E b \in BOOLEAN : Gate(b)
    <2>1. UNCHANGED <<n_edges, scan, batch, torn, seen>> /\ ~Scanning' /\ mpc' \in {"poll", "spawn"}
          /\ spawned' = spawned /\ mpc = "gate" /\ (mpc' = "spawn" => batch # <<>>)
      BY <1>6 DEF Gate, router, Scanning
    <2>2. ScanInv' /\ GreedyInv'
      BY <1>1, <2>1, QuietKeepsRoute DEF RouteInv
    <2>3. spawned = <<>> /\ batch \in Seq(Edge)
      BY <2>1 DEF RouteInv, SpawnInv, ScanInv
    <2>4. mpc' = "spawn" => Len(spawned) < Len(batch)
      BY <2>1, <2>3
    <2>5. SpawnInv'
      BY <2>1, <2>3, <2>4 DEF SpawnInv, RouteInv
    <2> QED
      BY <1>2, <2>2, <2>5 DEF RouteInv
  <1>7. CASE \E b \in BOOLEAN : Spawn(b)
    <2>1. UNCHANGED <<n_edges, scan, batch, torn, seen>> /\ ~Scanning' /\ mpc' # "gate"
      BY <1>7 DEF Spawn, router, Scanning
    <2>2. ScanInv' /\ GreedyInv'
      BY <1>1, <2>1, QuietKeepsRoute DEF RouteInv
    <2>3. SpawnInv'
      BY <1>7, SpawnKeeps DEF RouteInv
    <2> QED
      BY <1>2, <2>2, <2>3 DEF RouteInv
  <1> QED
    BY <1>3, <1>4, <1>5, <1>6, <1>7 DEF Main, MainStep

(* Empty buffers, nothing routed. *)
LEMMA RouteInitially == Init => RouteInv
  <1> SUFFICES ASSUME Init PROVE RouteInv
    OBVIOUS
  <1> USE DEF Init, PipelineInit, RouterInit
  <1>1. host \in Buffers /\ Len(host.flow) = 0 /\ Len(host.src) = 0 /\ Len(host.dst) = 0
    BY DEF Buffers
  <1>2. \A k \in Nat \ {0} : Joined(k)
    BY <1>1 DEF Joined
  <1>3. \A s \in Slots : Reaches(host, signal_history[s].load.n_edges)
    BY <1>1 DEF Reaches, NoRecord, NoLoad
  <1>4. CopyInv
    BY <1>1, <1>2, <1>3 DEF CopyInv
  <1>5. CountInv
    BY PipelineAssumption DEF CountInv
  <1>6. ScanInv
    <2>1. Reaches(host, n_edges) /\ n_edges \in Nat
      BY <1>1 DEF Reaches
    <2>2. scan \in Scan
      BY DEF FreshScan, Scan
    <2>3. batch \in Seq(Edge) /\ Len(batch) <= k_signal_router_top_k
      BY RouterAssumption
    <2>4. ~Scanning /\ mpc \notin {"flow", "src", "dst"} /\ mpc \notin Taking
      BY DEF Scanning, Taking
    <2>5. torn \in BOOLEAN
      BY DEF Init
    <2> QED
      BY <2>1, <2>2, <2>3, <2>4, <2>5 DEF ScanInv
  <1>7. GreedyInv
    BY <1>1 DEF GreedyInv, Reaches, ChoiceInv, Scanning
  <1>8. SpawnInv
    BY DEF SpawnInv
  <1> QED
    BY <1>4, <1>5, <1>6, <1>7, <1>8 DEF RouteInv

(* The invariant of routing holds in every reachable state. *)
LEMMA RouteInvariance == Spec => []RouteInv
  <1>1. IInv /\ RouteInv /\ [Next]_vars => RouteInv'
    <2> SUFFICES ASSUME IInv, RouteInv, [Next]_vars PROVE RouteInv'
      OBVIOUS
    <2>1. CASE UNCHANGED vars
      <3>1. UNCHANGED pipeline
            /\ UNCHANGED <<mpc, sig, n_edges, scan, batch, torn, seen, spawned, host>>
        BY <2>1 DEF vars, mainvars, router, pipeline
      <3>2. CopyInv' /\ CountInv'
        BY <3>1, MainKeepsPipeline DEF RouteInv
      <3>3. \A k, j : Eligible(k, j)' = Eligible(k, j)
        BY <3>1, SameChoice
      <3>4. ChoiceInv' = ChoiceInv
        BY <3>1, SameChoiceInv
      <3>5. BestInv' = BestInv /\ Scanning' = Scanning
        BY <3>1, <3>3 DEF BestInv, Scanning
      <3>6. ScanInv'
        BY <3>1, <3>5 DEF RouteInv, ScanInv
      <3>7. GreedyInv'
        BY <3>1, <3>3, <3>4, <3>5 DEF RouteInv, GreedyInv
      <3>8. SpawnInv'
        BY <3>1 DEF RouteInv, SpawnInv, Legs
      <3> QED
        BY <3>2, <3>6, <3>7, <3>8 DEF RouteInv
    <2> QED
      BY <2>1, MainKeepsRoute, PipelineKeepsRoute DEF Next
  <1> QED
    BY <1>1, Invariance, RouteInitially, PTL DEF Spec

-----------------------------------------------------------------------------
(* route reads only words of the buffers the pipeline has written, for any *)
(* topologies and however many copies overlap with it, and the counters of *)
(* both threads stay in their ranges.                                      *)
THEOREM PathTypes == Spec => []TypeOK
  <1>1. IInv /\ RouteInv => TypeOK
    <2> SUFFICES ASSUME IInv, RouteInv PROVE TypeOK
      OBVIOUS
    <2>1. tick \in 0..MaxTicks /\ copied \in Nat /\ dev \in Topology
          /\ ppc \in {"idle", "copy", "stamp", "load", "publish", "fit"}
          /\ (\A i \in 1..Len(published) : published[i].ts \in 1..tick)
          /\ signal_write_idx = Len(published) /\ last_refit \in 0..signal_write_idx
          /\ write_idx \in 0..signal_write_idx
      BY DEF IInv, TypeInv, RouteInv, CopyInv, CountInv
    <2>2. streak.current \in 0..streak.max /\ streak.max \in 0..tick
      BY <2>1, PipelineAssumption DEF RouteInv, CountInv
    <2>3. Len(batch) <= k_signal_router_top_k
          /\ (Scanning => Reaches(host, n_edges) /\ scan.best \in 0..n_edges)
          /\ (mpc \in {"flow", "src", "dst"} => scan.e \in 1..n_edges)
      BY DEF RouteInv, ScanInv
    <2> QED
      BY <2>1, <2>2, <2>3 DEF TypeOK, Reaches
  <1> QED
    BY <1>1, Invariance, RouteInvariance, PTL

(* What is left to choose from, by the positions of the edges. *)
LEMMA LeftByPosition ==
    ASSUME NEW b, NEW j \in Nat, Len(b) = j, \A i \in 1 .. j : b[i] = batch[i], NEW x
    PROVE  x \in Left(seen, n_edges, b) <=>
               \E k \in 1 .. n_edges : x = Picked(k) /\ Eligible(k, j)
  <1>1. (\A i \in 1 .. Len(b) : Ends(x) \cap Ends(b[i]) = {}) <=> Apart(x, j)
    BY DEF Apart
  <1>2. x \in Strong(seen, n_edges) <=>
            \E k \in 1 .. n_edges : x = Picked(k) /\ Abs(x.flow) >= active_threshold
    BY DEF Strong, Picked
  <1>3. \A k : Picked(k).flow = seen.flow[k]
    BY DEF Picked, Candidate
  <1> QED
    BY <1>1, <1>2, <1>3 DEF Left, Eligible

(* For every topology, threshold and batch size: a batch read while the    *)
(* buffers stayed the same is the greedy choice, strongest edge first, no  *)
(* instrument twice, and nothing left out that would fit.                  *)
THEOREM RoutesAreGreedy == Spec => []RoutesGreedily
  <1>1. IInv /\ RouteInv => RoutesGreedily
    <2> SUFFICES ASSUME RouteInv, mpc = "gate", ~torn, sig.load.action >= active_threshold
                 PROVE  Greedy(seen, n_edges, batch)
      BY DEF RoutesGreedily
    <2>1. batch \in Seq(Edge) /\ ChoiceInv
          /\ (Len(batch) = k_signal_router_top_k \/ \A k \in 1 .. n_edges : ~Eligible(k, Len(batch)))
      BY DEF RouteInv, ScanInv, GreedyInv
    <2>2. ASSUME NEW j \in 1 .. Len(batch), NEW left, left = Left(seen, n_edges, SubSeq(batch, 1, j - 1))
          PROVE  batch[j] \in left /\ \A x \in left : Abs(x.flow) <= Abs(batch[j].flow)
      <3>1. PICK b : b = SubSeq(batch, 1, j - 1)
        OBVIOUS
      <3>2. PICK i \in Nat : i = j - 1
        OBVIOUS
      <3>3. Len(b) = i /\ \A k \in 1 .. i : b[k] = batch[k]
        BY <2>1, <3>1, <3>2
      <3>4. \A x : x \in left <=> \E k \in 1 .. n_edges : x = Picked(k) /\ Eligible(k, i)
        BY <2>2, <3>1, <3>3, LeftByPosition
      <3>5. /\ \E k \in 1 .. n_edges : batch[j] = Picked(k) /\ Eligible(k, i)
            /\ \A k \in 1 .. n_edges : Eligible(k, i) => Abs(seen.flow[k]) <= Abs(batch[j].flow)
        BY <2>1, <3>2 DEF ChoiceInv
      <3>6. \A k : Picked(k).flow = seen.flow[k]
        BY DEF Picked, Candidate
      <3> QED
        BY <3>4, <3>5, <3>6
    <2>3. (\A k \in 1 .. n_edges : ~Eligible(k, Len(batch))) => Left(seen, n_edges, batch) = {}
      <3>1. Len(batch) \in Nat
        BY <2>1
      <3>2. \A x : x \in Left(seen, n_edges, batch) <=>
                \E k \in 1 .. n_edges : x = Picked(k) /\ Eligible(k, Len(batch))
        BY <3>1, LeftByPosition
      <3> QED
        BY <3>2
    <2> QED
      BY <2>1, <2>2, <2>3 DEF Greedy
  <1> QED
    BY <1>1, Invariance, RouteInvariance, PTL

(* For every topology: the pairs started for one batch are opposite sides  *)
(* of two different instruments, and no two of them share one, unless the  *)
(* pipeline wrote into the buffers while route was reading.                *)
THEOREM LegsAreHedged == Spec => []LegsHedged
  <1>1. IInv /\ RouteInv => LegsHedged
    <2> SUFFICES ASSUME RouteInv, ~torn, NEW i \in 1 .. Len(spawned), spawned[i] # <<>>
                 PROVE  /\ spawned[i][1].symbol # spawned[i][2].symbol
                        /\ spawned[i][1].side # spawned[i][2].side
                        /\ \A j \in 1 .. Len(spawned) \ {i} : spawned[j] # <<>> =>
                               {spawned[i][1].symbol, spawned[i][2].symbol} \cap
                               {spawned[j][1].symbol, spawned[j][2].symbol} = {}
      BY DEF LegsHedged
    <2>1. batch \in Seq(Edge) /\ Len(spawned) <= Len(batch) /\ Len(spawned) \in Nat
          /\ Len(batch) \in Nat
      BY DEF RouteInv, ScanInv, SpawnInv
    <2>2. ASSUME NEW j \in 1 .. Len(spawned), spawned[j] # <<>>
          PROVE  /\ j \in 1 .. Len(batch)
                 /\ spawned[j][1].symbol = batch[j].src /\ spawned[j][2].symbol = batch[j].dst
                 /\ spawned[j][1].side # spawned[j][2].side
      <3>1. spawned[j] = Legs(batch[j])
        BY <2>2 DEF RouteInv, SpawnInv
      <3>2. spawned[j][1].side # spawned[j][2].side
        BY <3>1 DEF Legs
      <3>3. spawned[j][1].symbol = batch[j].src /\ spawned[j][2].symbol = batch[j].dst
        BY <3>1 DEF Legs
      <3> QED
        BY <2>1, <3>2, <3>3
    <2>3. ASSUME NEW j \in 1 .. Len(batch)
          PROVE  batch[j].src # batch[j].dst
                 /\ \A k \in 1 .. j - 1 : Ends(batch[j]) \cap Ends(batch[k]) = {}
      <3>1. PICK k \in 1 .. n_edges : batch[j] = Picked(k) /\ Eligible(k, j - 1)
        BY DEF RouteInv, GreedyInv, ChoiceInv
      <3>2. batch[j].src = seen.src[k] /\ batch[j].dst = seen.dst[k]
        BY <3>1 DEF Picked, Candidate
      <3>3. seen.src[k] < seen.dst[k] /\ seen.src[k] \in Nat
        <4>1. seen \in Buffers /\ Reaches(seen, n_edges) /\ seen.src[k] < seen.dst[k] /\ n_edges \in Nat
          BY DEF RouteInv, GreedyInv, ScanInv
        <4>2. seen.src \in Seq(Nat) /\ k \in 1 .. Len(seen.src)
          BY <4>1 DEF Buffers, Reaches
        <4> QED
          BY <4>1, <4>2
      <3>4. seen.src[k] # seen.dst[k]
        BY <3>3
      <3> QED
        BY <3>1, <3>2, <3>4 DEF Eligible, Apart
    <2>4. ASSUME NEW j \in 1 .. Len(spawned) \ {i}, spawned[j] # <<>>
          PROVE  Ends(batch[i]) \cap Ends(batch[j]) = {}
      <3>1. i \in 1 .. Len(batch) /\ j \in 1 .. Len(batch)
        BY <2>2, <2>4
      <3>2. CASE i < j
        <4>1. i \in 1 .. j - 1
          BY <3>1, <3>2
        <4> QED
          BY <4>1, <3>1, <2>3
      <3>3. CASE j < i
        <4>1. j \in 1 .. i - 1
          BY <3>1, <3>3
        <4> QED
          BY <4>1, <3>1, <2>3
      <3> QED
        BY <3>1, <3>2, <3>3, <2>4
    <2> QED
      BY <2>2, <2>3, <2>4 DEF Ends
  <1> QED
    BY <1>1, Invariance, RouteInvariance, PTL
=============================================================================
