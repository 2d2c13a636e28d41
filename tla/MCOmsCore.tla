------------------------------ MODULE MCOmsCore ------------------------------
(***************************************************************************)
(* OmsCore on a small instance: three keys and three slots, so that a slot *)
(* is released, reused and orphaned while other orders are tracked; the    *)
(* reports of an order of two units in any order, so stale and duplicate   *)
(* ones are among them; MaxCommission bounds how often the one that        *)
(* carries a commission is delivered.                                      *)
(***************************************************************************)
EXTENDS OmsCore, TLC

MCTickets == { [symbol |-> s, side |-> "Buy", qty |-> 2] : s \in Symbols }

MCReport(s, c, p, f) ==
    [status |-> s, cum |-> c, price |-> p, exchange_order_id |-> 1, commission |-> f]

MCReports == { MCReport("Open", 0, 0, 0), MCReport("Partial", 1, 1, 0),
               MCReport("Filled", 2, 1, 1), MCReport("Canceled", 1, 0, 0) }

MCSymmetry == Permutations(Keys)
=============================================================================
