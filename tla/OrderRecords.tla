---------------------------- MODULE OrderRecords ----------------------------
(***************************************************************************)
(* The order record of engine/net/oms_core.hpp and what one execution      *)
(* report does to it.  Pure operators, shared by the OMS modules and by    *)
(* the execution engine.                                                   *)
(*                                                                         *)
(* Quantities, prices and commissions are natural numbers of some tick.    *)
(* avg_fill_price is a quotient in the code; here it is the pair           *)
(* <<numerator, denominator>>, so that the blend is exact.                 *)
(***************************************************************************)
EXTENDS Naturals

CONSTANTS Symbols   \* the instruments orders are placed on

OrderStatus == {"PendingNew", "Open", "Partial", "Filled", "Canceled", "Rejected"}

is_terminal(s) == s \in {"Filled", "Canceled", "Rejected"}

(* As is_live, forgetting partially filled orders. *)
IsLiveNoPartial(s) == s \in {"PendingNew", "Open"}

is_live(s) == s \in {"PendingNew", "Open", "Partial"}

Side == {"Buy", "Sell"}

(* The fields of OrderRecord the rest of the program reads.  The client id *)
(* is the key the OMS files the record under, and the timestamps only feed *)
(* the staleness cutoff, which the engine's sweeper abstracts.             *)
OrderRecord ==
    [symbol: Symbols, side: Side, status: OrderStatus, qty: Nat,
     filled_qty: Nat, avg_fill_price: Nat \X Nat,
     cumulative_commission: Nat, exchange_order_id: Nat]

(* The arguments of register_new_order; the limit price plays no part.     *)
Ticket == [symbol: Symbols, side: Side, qty: Nat]

(* A freshly sent order: register_new_order's `rec`. *)
NewOrder(t) ==
    [symbol |-> t.symbol, side |-> t.side, status |-> "PendingNew", qty |-> t.qty,
     filled_qty |-> 0, avg_fill_price |-> <<0, 1>>,
     cumulative_commission |-> 0, exchange_order_id |-> 0]

remaining_qty(rec) == rec.qty - rec.filled_qty

(* The arguments of apply_update: what one execution report carries.       *)
Report == [status: OrderStatus, cum: Nat, price: Nat,
           exchange_order_id: Nat, commission: Nat]

(* (avg * filled + price * delta) / cum.  A common factor `filled` is      *)
(* cancelled when the denominator already is the filled quantity.          *)
Blend(avg, filled, price, cum) ==
    LET delta == cum - filled
    IN  IF avg[2] = filled
        THEN <<avg[1] + price * delta, cum>>
        ELSE <<avg[1] * filled + price * delta * avg[2], avg[2] * cum>>

(* As Applied, believing a stale report's cumulative quantity. *)
AppliedAsReported(rec, r) ==
    [rec EXCEPT !.filled_qty            = r.cum,
                !.cumulative_commission = @ + r.commission,
                !.status                = r.status,
                !.exchange_order_id     = r.exchange_order_id]

(* The body of apply_update on a record that was found: the filled         *)
(* quantity never goes back, the commission accumulates, and the status    *)
(* and the exchange id are overwritten whatever they were.                 *)
Applied(rec, r) ==
    [rec EXCEPT
        !.filled_qty     = IF r.cum > @ THEN r.cum ELSE @,
        !.avg_fill_price = IF r.cum > rec.filled_qty /\ r.price > 0
                           THEN Blend(@, rec.filled_qty, r.price, r.cum)
                           ELSE @,
        !.cumulative_commission = @ + r.commission,
        !.status                = r.status,
        !.exchange_order_id     = r.exchange_order_id]

(* Maps from keys to records, as the OMS, the waiter registry and the PnL   *)
(* tables use std::unordered_map: operator[] / insert, and erase.          *)
Put(m, k, v) == [j \in DOMAIN m \cup {k} |-> IF j = k THEN v ELSE m[j]]

Drop(m, k) == [j \in DOMAIN m \ {k} |-> m[j]]

Empty == [j \in {} |-> {}]
=============================================================================
