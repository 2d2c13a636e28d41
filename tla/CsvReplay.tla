------------------------------ MODULE CsvReplay ------------------------------
(***************************************************************************)
(* CsvReplayHandler (engine/net/csv_replay.hpp): the thread that maps a    *)
(* CSV file, parses it row by row and pushes a bid and an ask update per   *)
(* row into the ring, waiting whenever the ring is full.                   *)
(*                                                                         *)
(* A line is the sequence of its fields and whether it starts like a       *)
(* header; a field is the number it parses to (text parses to 0, and no    *)
(* parser knows a sign).  Sleeps of the paced modes change no state.       *)
(***************************************************************************)
EXTENDS Naturals, SequencesExt

CONSTANTS Files,               \* the files that may be replayed
          k_max_instruments,
          RingLimit,           \* what the ring holds
          NoUpdate

Line == [header : BOOLEAN, fields : Seq(Nat)]

ASSUME FilesAssumption == Files \subseteq Seq(Line)

VARIABLES file, line,          \* the mapped file and the line p points at
          row,                 \* updates of the current row not yet pushed
          parse_errors, finished,
          queue, u             \* the ring, and the update popped last

ring == INSTANCE BoundedFifo
            WITH Items <- {}, NoItem <- NoUpdate, Limit <- RingLimit, out <- u

replay == <<file, line, row, parse_errors, finished>>

ReplayInit ==
    /\ file \in Files /\ line = 1 /\ row = <<>>
    /\ parse_errors = 0 /\ finished = FALSE
    /\ ring!FifoInit

-----------------------------------------------------------------------------
(* Positions in the text: field col of line l, or the end of the file.     *)
At(l, col) == [line |-> l, col |-> col]

(* Just past the next comma, which may be that of a later line: on the     *)
(* last field of a line, skip_comma runs over the line end.                *)
skip_comma(f, p) ==
    IF p.line <= Len(f) /\ p.col < Len(f[p.line].fields)
    THEN At(p.line, p.col + 1)
    ELSE LET later == {l \in p.line + 1 .. Len(f) : Len(f[l].fields) > 1}
         IN  IF later = {} THEN At(Len(f) + 1, 1) ELSE At(Min(later), 2)

Field(f, p) == IF p.line > Len(f) THEN 0 ELSE f[p.line].fields[p.col]

is_header(f, l) == f[l].header

(* The row that starts on line l: time stamp, instrument, then price and   *)
(* quantity of bid and ask; next is where skip_line leaves p.              *)
Row(f, l) ==
    LET instr == skip_comma(f, At(l, 1))
        bid   == skip_comma(f, instr)
        bqty  == skip_comma(f, bid)
        ask   == skip_comma(f, bqty)
        aqty  == skip_comma(f, ask)
        Update(side, p) == [instr |-> Field(f, instr), side |-> side, price |-> Field(f, p)]
    IN  [bid |-> Update("Bid", bid), ask |-> Update("Ask", ask),
         next |-> Min({aqty.line, Len(f)}) + 1]

(* Rows without a price, or of an unknown instrument, are not replayed. *)
Valid(r) == r.bid.price # 0 /\ r.ask.price # 0 /\ r.bid.instr < k_max_instruments

(* What the parser gets out of line l, and the line it goes on with. *)
Parsed(f, l) ==
    LET r == Row(f, l)
    IN  IF ~is_header(f, l) /\ Valid(r) THEN <<r.bid, r.ask>> ELSE <<>>

NextLine(f, l) == IF is_header(f, l) THEN l + 1 ELSE Row(f, l).next

-----------------------------------------------------------------------------
(* The file cannot be opened, examined or mapped. *)
OpenFails ==
    /\ line = 1 /\ row = <<>> /\ ~finished
    /\ finished' = TRUE
    /\ UNCHANGED <<file, line, row, parse_errors, queue, u>>

(* One line of the file, or as many as skip_comma runs over. *)
ParseRow ==
    /\ row = <<>> /\ line <= Len(file) /\ ~finished
    /\ line' = NextLine(file, line)
    /\ row' = Parsed(file, line)
    /\ parse_errors' = IF is_header(file, line) \/ row' # <<>>
                       THEN parse_errors ELSE parse_errors + 1
    /\ UNCHANGED <<file, finished, queue, u>>

(* As PushUpdate, dropping the update at a full ring (the earlier code). *)
PushOrDrop ==
    /\ row # <<>>
    /\ IF Len(queue) < RingLimit THEN ring!Push(Head(row)) ELSE UNCHANGED <<queue, u>>
    /\ row' = Tail(row)
    /\ UNCHANGED <<file, line, parse_errors, finished>>

(* One turn of the spin that gets its update in: bid first, then ask. *)
PushUpdate ==
    /\ row # <<>>
    /\ ring!Push(Head(row))
    /\ row' = Tail(row)
    /\ UNCHANGED <<file, line, parse_errors, finished>>

(* As Finish, giving up on a file with bad rows. *)
FinishIfClean ==
    /\ row = <<>> /\ line > Len(file) /\ ~finished /\ parse_errors = 0
    /\ finished' = TRUE
    /\ UNCHANGED <<file, line, row, parse_errors, queue, u>>

(* munmap, then tell the consumer that nothing more will come. *)
Finish ==
    /\ row = <<>> /\ line > Len(file) /\ ~finished
    /\ finished' = TRUE
    /\ UNCHANGED <<file, line, row, parse_errors, queue, u>>

(* Everything the parser gets out of f, from line n on; and from the start. *)
StreamFrom(f, n) ==
    LET from[l \in 1 .. Len(f) + 1] ==
            IF l > Len(f) THEN <<>> ELSE Parsed(f, l) \o from[NextLine(f, l)]
    IN  from[n]

Stream(f) == StreamFrom(f, 1)

ReplayStep == OpenFails \/ ParseRow \/ PushUpdate \/ Finish
=============================================================================
