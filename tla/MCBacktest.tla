----------------------------- MODULE MCBacktest -----------------------------
(* Every file of up to MaxLines lines: a header, good rows of two          *)
(* instruments the book has and of one it has not, a row without a price   *)
(* and one of an instrument that does not exist, and a short row.          *)
EXTENDS Backtest

Data(instr, bid, ask) == [header |-> FALSE, fields |-> <<7, instr, bid, 1, ask, 1>>]
Header == [header |-> TRUE, fields |-> <<0, 0, 0, 0, 0, 0>>]
Short == [header |-> FALSE, fields |-> <<7, 1>>]

MaxLines == 3
MCFiles == SeqOf({Header, Data(0, 3, 4), Data(1, 5, 6), Data(0, 8, 9), Data(2, 8, 9),
                  Data(1, 0, 6), Data(9, 1, 2), Short}, MaxLines)

(* One edge per analysis, its direction changing with the book. *)
MCRouted(books) ==
    LET b == books[Len(books)]
    IN  IF b[0].Ask > b[1].Bid THEN <<[src |-> 0, dst |-> 1, flow |-> 1]>>
        ELSE IF b[0].Bid = 100 THEN <<>>
        ELSE <<[src |-> 1, dst |-> 0, flow |-> 1], [src |-> 0, dst |-> 1, flow |-> 1]>>

(* The change of the ratio since the first sighting, less the spread. *)
MCNetReturn(seen, flow, quote) ==
    LET last == seen[Len(seen)]
        move == last[1] * seen[1][2] - seen[1][1] * last[2]
    IN  IF move > quote.Ask - quote.Bid THEN flow ELSE 0
=============================================================================
