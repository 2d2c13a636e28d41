------------------------------ MODULE LobMirror ------------------------------
(***************************************************************************)
(* The seqlock between the drain thread, which writes the order book       *)
(* (LobSoA::apply, engine/core/lob_core.hpp), and the pipeline thread,     *)
(* which copies it for the GPU (transfer_lob_to_gpu in                     *)
(* engine/math/cuda_pipeline.cu, stage_snapshot and async_push in          *)
(* engine/math/gpu_lob_mirror.cu).                                         *)
(*                                                                         *)
(* The book is a set of words, a price and a quantity per side and level;  *)
(* word accesses are atomic on the x86 target and the fences keep them     *)
(* between the accesses of the sequence counter, in any order.  An update  *)
(* outside the book is only counted as dropped, and seq_nos_ and           *)
(* last_ts_ns_ have no reader, so neither appears.                         *)
(***************************************************************************)
EXTENDS Naturals

CONSTANTS Slots,     \* the (instrument, depth) pairs of the book
          Values,    \* prices and quantities
          Seed,      \* what the constructor fills the book with
          Blank,     \* what fresh staging and device memory hold
          k_max_seqlock_retries,
          MaxUpdates \* model bound on the number of updates

ASSUME MirrorAssumption == k_max_seqlock_retries \in Nat /\ MaxUpdates \in Nat

VARIABLES book, seq, total_updates,
          wpc, update, unwritten, \* writer: step, its update, words left
          rpc, gen, seq1, attempt, uncopied, \* reader
          stage, mirror,          \* pinned staging buffers, device arrays
          last_lob_generation,
          forced,                 \* was the last push forced?
          stable                  \* history: the book when seq was last even

writer == <<book, seq, total_updates, wpc, update, unwritten, stable>>
reader == <<rpc, gen, seq1, attempt, uncopied, stage, mirror,
            last_lob_generation, forced>>
vars == <<writer, reader>>

Gpu == INSTANCE BookMirror WITH book <- stable

Words == Gpu!Words
Contents == Gpu!Contents
Updates == Gpu!Updates

Init ==
    /\ book = [w \in Words |-> Seed] /\ stable = book
    /\ seq = 0 /\ total_updates = 0
    /\ wpc = "idle" /\ update \in Updates /\ unwritten = {}
    /\ rpc = "idle" /\ gen = 0 /\ seq1 = 0 /\ attempt = 0 /\ uncopied = {}
    /\ stage = [w \in Words |-> Blank] /\ mirror = [w \in Words |-> Blank]
    /\ last_lob_generation = 0 /\ forced = FALSE

-----------------------------------------------------------------------------
(* LobSoA::apply. *)

(* The counter becomes odd. *)
BeginApply(u) ==
    /\ wpc = "idle" /\ total_updates < MaxUpdates
    /\ seq' = seq + 1
    /\ wpc' = "write" /\ update' = u /\ unwritten' = Gpu!Touched(u)
    /\ UNCHANGED <<book, total_updates, stable, reader>>

(* The stores to the price and quantity arrays. *)
WriteWord(w) ==
    /\ wpc = "write" /\ w \in unwritten
    /\ book' = [book EXCEPT ![w] = Gpu!New(update, w)]
    /\ unwritten' = unwritten \ {w}
    /\ UNCHANGED <<seq, total_updates, wpc, update, stable, reader>>

(* The counter becomes even again. *)
EndApply ==
    /\ wpc = "write" /\ unwritten = {}
    /\ seq' = seq + 1 /\ stable' = book
    /\ wpc' = "count"
    /\ UNCHANGED <<book, total_updates, update, unwritten, reader>>

(* The generation the pipeline polls moves last. *)
CountApply ==
    /\ wpc = "count"
    /\ total_updates' = total_updates + 1
    /\ wpc' = "idle"
    /\ UNCHANGED <<book, seq, update, unwritten, stable, reader>>

-----------------------------------------------------------------------------
(* transfer_lob_to_gpu. *)

(* A new generation: remember it and stage a snapshot. *)
Poll ==
    /\ rpc = "idle" /\ total_updates # last_lob_generation
    /\ gen' = total_updates
    /\ rpc' = "seq1" /\ attempt' = 0
    /\ UNCHANGED <<writer, seq1, uncopied, stage, mirror, last_lob_generation, forced>>

IsOdd(n) == n % 2 = 1

give_up == attempt >= k_max_seqlock_retries

(* As ReadSeq1, forgetting to count the attempt. *)
SpinOnBusy ==
    /\ rpc = "seq1"
    /\ seq1' = seq
    /\ IF IsOdd(seq) /\ ~give_up
       THEN UNCHANGED <<rpc, uncopied, attempt>>
       ELSE rpc' = "copy" /\ uncopied' = Words /\ UNCHANGED attempt
    /\ UNCHANGED <<writer, gen, stage, mirror, last_lob_generation, forced>>

(* Read the counter; a busy writer costs an attempt. *)
ReadSeq1 ==
    /\ rpc = "seq1"
    /\ seq1' = seq
    /\ IF IsOdd(seq) /\ ~give_up
       THEN attempt' = attempt + 1 /\ UNCHANGED <<rpc, uncopied>>
       ELSE rpc' = "copy" /\ uncopied' = Words /\ UNCHANGED attempt
    /\ UNCHANGED <<writer, gen, stage, mirror, last_lob_generation, forced>>

(* The four memcpy's. *)
CopyWord(w) ==
    /\ rpc = "copy" /\ w \in uncopied
    /\ stage' = [stage EXCEPT ![w] = book[w]]
    /\ uncopied' = uncopied \ {w}
    /\ UNCHANGED <<writer, rpc, gen, seq1, attempt, mirror, last_lob_generation, forced>>

(* As Clean, forgetting that the writer may have been busy all along. *)
CleanIfUnchanged == seq1 = seq

(* The snapshot is consistent: no write was in progress or happened. *)
Clean == ~IsOdd(seq1) /\ seq1 = seq

(* As ReadSeq2, reading the generation after the copy. *)
LateGeneration ==
    /\ rpc = "copy" /\ uncopied = {}
    /\ IF Clean \/ give_up
       THEN /\ mirror' = stage /\ last_lob_generation' = total_updates
            /\ forced' = ~Clean
            /\ rpc' = "idle" /\ UNCHANGED attempt
       ELSE /\ attempt' = attempt + 1 /\ rpc' = "seq1"
            /\ UNCHANGED <<mirror, last_lob_generation, forced>>
    /\ UNCHANGED <<writer, gen, seq1, uncopied, stage>>

(* Read the counter again: push the snapshot if it is clean or, flagged,   *)
(* if the attempts are used up; else try again.                            *)
ReadSeq2 ==
    /\ rpc = "copy" /\ uncopied = {}
    /\ IF Clean \/ give_up
       THEN /\ mirror' = stage /\ last_lob_generation' = gen
            /\ forced' = ~Clean
            /\ rpc' = "idle" /\ UNCHANGED attempt
       ELSE /\ attempt' = attempt + 1 /\ rpc' = "seq1"
            /\ UNCHANGED <<mirror, last_lob_generation, forced>>
    /\ UNCHANGED <<writer, gen, seq1, uncopied, stage>>

-----------------------------------------------------------------------------
Apply == \/ \E u \in Updates : BeginApply(u)
         \/ \E w \in Words : WriteWord(w)
         \/ EndApply \/ CountApply

Transfer == Poll \/ ReadSeq1 \/ ReadSeq2 \/ \E w \in Words : CopyWord(w)

Next == Apply \/ Transfer

Spec == Init /\ [][Next]_vars

(* The pipeline thread keeps running.  Nothing is assumed of the writer,   *)
(* which may be descheduled in the middle of an update for ever.           *)
FairSpec == Spec /\ WF_vars(Transfer)

-----------------------------------------------------------------------------
TypeOK ==
    /\ book \in [Words -> Contents] /\ stable \in [Words -> Contents]
    /\ stage \in [Words -> Contents] /\ mirror \in [Words -> Contents]
    /\ seq \in Nat /\ total_updates \in 0..MaxUpdates
    /\ wpc \in {"idle", "write", "count"} /\ update \in Updates
    /\ unwritten \subseteq Gpu!Touched(update)
    /\ rpc \in {"idle", "seq1", "copy"}
    /\ gen \in 0..total_updates /\ last_lob_generation \in 0..total_updates
    /\ seq1 \in 0..seq /\ attempt \in 0..k_max_seqlock_retries
    /\ uncopied \subseteq Words /\ forced \in BOOLEAN

(* A push that is not flagged by forced_after_max_retries carries the book *)
(* exactly as it was at one moment, with every update applied as a whole,  *)
(* however the copy and the writes interleave.                             *)
ImplementsBookMirror == Gpu!MirrorSpec

(* When the pipeline believes it is up to date and the writer is quiet,    *)
(* the device holds the current book.  So a torn, forced push is always    *)
(* repaired by a later one: the generation read before the copy is older   *)
(* than the update that tore it, since apply() counts an update last.      *)
FreshWhenCurrent ==
    /\ wpc = "idle"
    /\ total_updates = last_lob_generation /\ total_updates > 0
    => mirror = book

(* stage_snapshot ends even if the writer never leaves an update.          *)
StagingTerminates == rpc # "idle" ~> rpc = "idle"

(* Once the feed is quiet the device catches up with the book.             *)
MirrorCatchesUp ==
    total_updates = MaxUpdates /\ wpc = "idle" ~> mirror = book
=============================================================================
