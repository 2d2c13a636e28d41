--------------------------- MODULE LobMirrorProofs ---------------------------
(***************************************************************************)
(* For every book size, retry limit and schedule: a push that is not       *)
(* flagged as forced carries one state of the book, and a quiet writer     *)
(* with a current generation means a current device copy.                  *)
(***************************************************************************)
EXTENDS LobMirror, Integers, TLAPS

(* The writer: the counter is odd exactly during the stores, and the words *)
(* stored so far are those of the update.                                  *)
WriterInv ==
    /\ IsOdd(seq) <=> wpc = "write"
    /\ wpc # "idle" => total_updates < MaxUpdates
    /\ wpc # "write" => book = stable
    /\ wpc = "write" =>
           \A w \in Words :
               book[w] = IF w \in Gpu!Touched(update) \ unwritten
                         THEN Gpu!New(update, w) ELSE stable[w]

(* The reader: while the counter still has the even value it read first,   *)
(* the words copied so far are those of the book.                          *)
CopyInv ==
    /\ rpc = "copy" /\ ~IsOdd(seq1) /\ seq1 = seq
    => \A w \in Words \ uncopied : stage[w] = book[w]

(* If the generation the reader took is still current and the writer is    *)
(* idle, no update began since, and the copy is clean.                     *)
GenerationInv ==
    /\ wpc = "idle" /\ rpc = "copy" /\ gen = total_updates
    => seq1 = seq

IInv == TypeOK /\ WriterInv /\ CopyInv /\ GenerationInv /\ FreshWhenCurrent

(* An update has two words, both in the book. *)
LEMMA TouchedWords ==
    ASSUME NEW u \in Updates
    PROVE  Gpu!Touched(u) \subseteq Words
  BY DEF Updates, Words, Gpu!Updates, Gpu!Words, Gpu!Touched

(* What an update stores is a value. *)
LEMMA NewType ==
    ASSUME NEW u \in Updates, NEW w
    PROVE  Gpu!New(u, w) \in Contents
  BY DEF Updates, Contents, Gpu!Updates, Gpu!Contents, Gpu!New

(* Parity alternates. *)
LEMMA Parity ==
    ASSUME NEW n \in Nat
    PROVE  IsOdd(n + 1) <=> ~IsOdd(n)
  BY SMT DEF IsOdd

(* The constructed book and mirror satisfy the inductive invariant. *)
LEMMA InitIInv == Init => IInv
<1> SUFFICES ASSUME Init PROVE IInv
  OBVIOUS
<1>1. TypeOK
  <2>1. Seed \in Contents /\ Blank \in Contents
    BY DEF Contents, Gpu!Contents
  <2>2. /\ book \in [Words -> Contents] /\ stable \in [Words -> Contents]
        /\ stage \in [Words -> Contents] /\ mirror \in [Words -> Contents]
    BY <2>1 DEF Init
  <2>3. /\ total_updates \in 0..MaxUpdates /\ attempt \in 0..k_max_seqlock_retries
        /\ gen \in 0..total_updates /\ last_lob_generation \in 0..total_updates
        /\ seq1 \in 0..seq /\ seq \in Nat
    BY MirrorAssumption DEF Init
  <2>4. /\ wpc \in {"idle", "write", "count"} /\ rpc \in {"idle", "seq1", "copy"}
        /\ update \in Updates /\ unwritten \subseteq Gpu!Touched(update)
        /\ uncopied \subseteq Words /\ forced \in BOOLEAN
    BY DEF Init
  <2> QED
    BY <2>2, <2>3, <2>4 DEF TypeOK
<1>2. ~IsOdd(0)
  BY DEF IsOdd
<1> QED
  BY <1>1, <1>2 DEF Init, IInv, WriterInv, CopyInv, GenerationInv, FreshWhenCurrent

(* Starting an update. *)
LEMMA BeginIInv ==
    ASSUME IInv, NEW u \in Updates, BeginApply(u)
    PROVE  IInv'
<1> USE DEF BeginApply, IInv, reader
<1>1. TypeOK'
  BY DEF TypeOK
<1>2. seq' = seq + 1 /\ seq \in Nat /\ (IsOdd(seq') <=> ~IsOdd(seq)) /\ seq1' = seq1
      /\ seq1 # seq'
  BY Parity DEF TypeOK
<1>3. WriterInv'
  BY <1>2 DEF WriterInv, TypeOK
<1>4. CopyInv' /\ GenerationInv' /\ FreshWhenCurrent'
  BY <1>2 DEF CopyInv, GenerationInv, FreshWhenCurrent
<1> QED
  BY <1>1, <1>3, <1>4

(* Storing one word. *)
LEMMA WriteIInv ==
    ASSUME IInv, NEW w \in Words, WriteWord(w)
    PROVE  IInv'
<1> USE DEF WriteWord, IInv, reader
<1>1. TypeOK'
  BY NewType DEF TypeOK
<1>2. WriterInv'
  BY DEF WriterInv, TypeOK
<1>3. IsOdd(seq)
  BY DEF WriterInv
<1>4. CopyInv' /\ GenerationInv' /\ FreshWhenCurrent'
  BY <1>3 DEF CopyInv, GenerationInv, FreshWhenCurrent
<1> QED
  BY <1>1, <1>2, <1>4

(* Finishing the stores. *)
LEMMA EndIInv ==
    ASSUME IInv, EndApply
    PROVE  IInv'
<1> USE DEF EndApply, IInv, reader
<1>1. TypeOK'
  BY DEF TypeOK
<1>2. seq' = seq + 1 /\ seq \in Nat /\ (IsOdd(seq') <=> ~IsOdd(seq)) /\ seq1' = seq1
      /\ seq1 # seq'
  BY Parity DEF TypeOK
<1>3. WriterInv'
  BY <1>2 DEF WriterInv
<1>4. CopyInv' /\ GenerationInv' /\ FreshWhenCurrent'
  BY <1>2 DEF CopyInv, GenerationInv, FreshWhenCurrent
<1> QED
  BY <1>1, <1>3, <1>4

(* Counting the update: no generation taken so far is current any more. *)
LEMMA CountIInv ==
    ASSUME IInv, CountApply
    PROVE  IInv'
<1> USE DEF CountApply, IInv, reader
<1>1. TypeOK'
  BY MirrorAssumption DEF TypeOK, WriterInv
<1>2. WriterInv' /\ CopyInv'
  BY DEF WriterInv, CopyInv
<1>3. gen # total_updates' /\ last_lob_generation # total_updates'
  BY DEF TypeOK
<1>4. GenerationInv' /\ FreshWhenCurrent'
  BY <1>3 DEF GenerationInv, FreshWhenCurrent
<1> QED
  BY <1>1, <1>2, <1>4

(* Taking a new generation. *)
LEMMA PollIInv ==
    ASSUME IInv, Poll
    PROVE  IInv'
<1> USE DEF Poll, IInv, writer
<1>1. TypeOK'
  BY MirrorAssumption DEF TypeOK
<1> QED
  BY <1>1 DEF WriterInv, CopyInv, GenerationInv, FreshWhenCurrent

(* Reading the counter before the copy. *)
LEMMA Seq1IInv ==
    ASSUME IInv, ReadSeq1
    PROVE  IInv'
<1> USE DEF ReadSeq1, IInv, writer
<1>1. TypeOK'
  BY MirrorAssumption DEF TypeOK, give_up
<1> QED
  BY <1>1 DEF WriterInv, CopyInv, GenerationInv, FreshWhenCurrent

(* Copying one word. *)
LEMMA CopyIInv ==
    ASSUME IInv, NEW w \in Words, CopyWord(w)
    PROVE  IInv'
<1> USE DEF CopyWord, IInv, writer
<1>1. TypeOK'
  BY DEF TypeOK
<1>2. CopyInv'
  BY DEF CopyInv, TypeOK
<1> QED
  BY <1>1, <1>2 DEF WriterInv, GenerationInv, FreshWhenCurrent

(* A snapshot the reader finds clean is the book. *)
LEMMA CleanIsBook ==
    ASSUME IInv, rpc = "copy", uncopied = {}, Clean
    PROVE  stage = book /\ stage = stable
<1>1. stage = book
  BY DEF IInv, TypeOK, CopyInv, Clean
<1>2. wpc # "write"
  BY DEF IInv, WriterInv, Clean
<1> QED
  BY <1>1, <1>2 DEF IInv, WriterInv

(* Accepting or retrying the copy. *)
LEMMA Seq2IInv ==
    ASSUME IInv, ReadSeq2
    PROVE  IInv'
<1> USE DEF ReadSeq2, IInv, writer
<1>1. TypeOK'
  <2>1. forced' \in BOOLEAN
    BY Zenon DEF TypeOK, Clean
  <2>2. attempt' \in 0..k_max_seqlock_retries
    BY MirrorAssumption DEF TypeOK, give_up
  <2>3. /\ mirror' \in [Words -> Contents] /\ last_lob_generation' \in 0..total_updates
        /\ rpc' \in {"idle", "seq1", "copy"}
    BY DEF TypeOK
  <2> QED
    BY <2>1, <2>2, <2>3 DEF TypeOK
<1>2. WriterInv'
  BY DEF WriterInv
<1>0. rpc' # "copy"
  OBVIOUS
<1>4. CopyInv' /\ GenerationInv'
  BY <1>0 DEF CopyInv, GenerationInv
<1>3. FreshWhenCurrent'
  <2>1. CASE wpc = "idle" /\ gen = total_updates
    <3>1. Clean
      BY <2>1 DEF GenerationInv, WriterInv, Clean
    <3> QED
      BY <3>1, CleanIsBook DEF FreshWhenCurrent
  <2>2. CASE ~(wpc = "idle" /\ gen = total_updates)
    BY <2>2 DEF FreshWhenCurrent
  <2> QED
    BY <2>1, <2>2
<1> QED
  BY <1>1, <1>2, <1>3, <1>4

(* Every step of either thread keeps the inductive invariant. *)
LEMMA NextIInv == IInv /\ [Next]_vars => IInv'
<1> SUFFICES ASSUME IInv, [Next]_vars PROVE IInv'
  OBVIOUS
<1>1. CASE UNCHANGED vars
  BY <1>1 DEF vars, writer, reader, IInv, TypeOK, WriterInv, CopyInv, GenerationInv,
              FreshWhenCurrent
<1> QED
  BY <1>1, BeginIInv, WriteIInv, EndIInv, CountIInv, PollIInv, Seq1IInv, CopyIInv,
     Seq2IInv DEF Next, Apply, Transfer

(* The pipeline never believes in a stale or torn copy once the writer is  *)
(* quiet.                                                                  *)
THEOREM MirrorFresh == Spec => [](TypeOK /\ FreshWhenCurrent)
<1>1. IInv => TypeOK /\ FreshWhenCurrent
  BY DEF IInv
<1> QED
  BY <1>1, InitIInv, NextIInv, PTL DEF Spec

-----------------------------------------------------------------------------
(* The end of an update applies it to the stable book as a whole. *)
LEMMA EndApplies ==
    ASSUME IInv, EndApply
    PROVE  Gpu!ApplyUpdate(update) /\ update \in Updates
<1>1. \A w \in Words : book[w] = IF w \in Gpu!Touched(update)
                                 THEN Gpu!New(update, w) ELSE stable[w]
  BY DEF IInv, WriterInv, EndApply
<1>2. book = Gpu!With(stable, update)
  BY <1>1 DEF IInv, TypeOK, Words, Gpu!With
<1> QED
  BY <1>2 DEF EndApply, reader, IInv, TypeOK, Gpu!ApplyUpdate

(* Every step is a step of BookMirror or leaves its variables unchanged. *)
LEMMA StepRefines ==
    ASSUME IInv, [Next]_vars
    PROVE  [Gpu!MirrorNext]_<<stable, mirror, forced>>
<1>1. ASSUME NEW u \in Updates, BeginApply(u) PROVE UNCHANGED <<stable, mirror, forced>>
  BY <1>1 DEF BeginApply, reader
<1>2. ASSUME NEW w \in Words, WriteWord(w) PROVE UNCHANGED <<stable, mirror, forced>>
  BY <1>2 DEF WriteWord, reader
<1>3. CASE EndApply
  BY <1>3, EndApplies DEF Gpu!MirrorNext, Updates
<1>4. CASE CountApply
  BY <1>4 DEF CountApply, reader
<1>5. CASE Poll
  BY <1>5 DEF Poll, writer
<1>6. CASE ReadSeq1
  BY <1>6 DEF ReadSeq1, writer
<1>7. ASSUME NEW w \in Words, CopyWord(w) PROVE UNCHANGED <<stable, mirror, forced>>
  BY <1>7 DEF CopyWord, writer
<1>8. CASE ReadSeq2
  <2>1. CASE Clean
    <3>1. mirror' = stable /\ forced' = FALSE /\ stable' = stable
      BY <1>8, <2>1, CleanIsBook DEF ReadSeq2, writer
    <3> QED
      BY <3>1 DEF Gpu!MirrorNext, Gpu!PushExact
  <2>2. CASE ~Clean /\ give_up
    <3>1. mirror' \in [Words -> Contents] /\ forced' = TRUE /\ stable' = stable
      BY <1>8, <2>2 DEF ReadSeq2, writer, IInv, TypeOK
    <3> QED
      BY <3>1 DEF Gpu!MirrorNext, Gpu!PushTorn, Words, Contents
  <2>3. CASE ~Clean /\ ~give_up
    BY <1>8, <2>3 DEF ReadSeq2, writer
  <2> QED
    BY <2>1, <2>2, <2>3
<1>9. CASE UNCHANGED vars
  BY <1>9 DEF vars, writer, reader
<1> QED
  BY <1>1, <1>2, <1>3, <1>4, <1>5, <1>6, <1>7, <1>8, <1>9 DEF Next, Apply, Transfer

(* The seqlock works: book and mirror behave as if updates and unflagged   *)
(* pushes were atomic.                                                     *)
THEOREM MirrorRefinement == Spec => ImplementsBookMirror
<1>1. Init => Gpu!MirrorInit
  BY DEF Init, Gpu!MirrorInit, Words
<1>2. IInv /\ [Next]_vars => [Gpu!MirrorNext]_<<stable, mirror, forced>>
  BY StepRefines
<1> QED
  BY <1>1, <1>2, InitIInv, NextIInv, PTL DEF Spec, ImplementsBookMirror, Gpu!MirrorSpec
=============================================================================
