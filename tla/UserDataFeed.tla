---------------------------- MODULE UserDataFeed ----------------------------
(***************************************************************************)
(* UserDataFeed of engine/net/user_data_feed.hpp: the stream of order      *)
(* events and the reconciliation after every (re)connect, because events   *)
(* while the stream is down are lost.  The feed gets a fresh listen key,   *)
(* opens the stream, asks for the open orders, looks up each order that is *)
(* live in the OMS and not among them, and only then reads events.         *)
(*                                                                         *)
(* The REST calls block the io thread: while the feed reconciles, only     *)
(* the exchange moves (see OrderEntry).                                    *)
(***************************************************************************)
EXTENDS OrderVenue

CONSTANTS MaxGaps       \* model bound on streams that end

ASSUME FeedAssumption == MaxGaps \in Nat

VARIABLES feed,         \* where run() is
          local_live,   \* reconcile_open_orders: orders still to look up
          complete,     \* history: no REST call failed since the handshake
          gaps          \* streams that ended

feedvars == <<feed, local_live, complete, gaps>>

FeedPhase == {"down", "keyed", "open_orders", "lookups", "reading"}

Reconciling == feed \in {"open_orders", "lookups"}

FeedInit == feed = "down" /\ local_live = {} /\ complete = FALSE /\ gaps = 0

(* As map_status, without EXPIRED. *)
MapStatusNoExpired(s) == CASE s = "PARTIALLY_FILLED" -> "Partial"
                           [] s = "FILLED"           -> "Filled"
                           [] s = "CANCELED"         -> "Canceled"
                           [] s = "REJECTED"         -> "Rejected"
                           [] OTHER                  -> "Open"

(* map_status.  A status the code does not know counts as open. *)
map_status(s) == CASE s = "PARTIALLY_FILLED"         -> "Partial"
                   [] s = "FILLED"                   -> "Filled"
                   [] s \in {"CANCELED", "EXPIRED"}  -> "Canceled"
                   [] s = "REJECTED"                 -> "Rejected"
                   [] OTHER                          -> "Open"

-----------------------------------------------------------------------------
(* delete_listen_key, whose result does not matter, and                    *)
(* fetch_fresh_listen_key; a failure is retried by run_with_backoff.       *)
fetch_fresh_listen_key ==
    /\ feed = "down"
    /\ feed' = "keyed"
    /\ UNCHANGED <<orders, venue, local_live, complete, gaps>>

(* The orders reconcile_open_orders starts from: get_stale_orders(0). *)
LiveOrders == {c \in DOMAIN orders : is_live(orders[c].status)}

(* As Handshake, reading events without a reconciliation. *)
HandshakeOnly ==
    /\ feed = "keyed"
    /\ subscribed' = TRUE
    /\ local_live' = {}
    /\ feed' = "reading"
    /\ complete' = TRUE
    /\ UNCHANGED <<orders, exch, wire, acks, stream, gaps>>

(* The stream is open: events from now on are kept for the feed.  Nothing  *)
(* is to be reconciled if the OMS has no live order.                       *)
Handshake ==
    /\ feed = "keyed"
    /\ subscribed' = TRUE
    /\ local_live' = LiveOrders
    /\ feed' = IF local_live' = {} THEN "reading" ELSE "open_orders"
    /\ complete' = TRUE
    /\ UNCHANGED <<orders, exch, wire, acks, stream, gaps>>

HandshakeFails ==
    /\ feed = "keyed"
    /\ feed' = "down"
    /\ UNCHANGED <<orders, venue, local_live, complete, gaps>>

Answers == {"list", "object", "failed"}

(* GET openOrders: what the exchange lists as open needs no look-up.  A    *)
(* failed call, or an answer that does not parse, ends the reconciliation; *)
(* one that is no list, such as an error object, lists nothing as open.    *)
GetOpenOrders(answer) ==
    /\ feed = "open_orders"
    /\ local_live' = CASE answer = "list"   -> local_live \ Open
                       [] answer = "object" -> local_live
                       [] answer = "failed" -> {}
    /\ feed' = IF local_live' = {} THEN "reading" ELSE "lookups"
    /\ complete' = (answer # "failed")
    /\ UNCHANGED <<orders, venue, gaps>>

(* As Looked, with the traded amount for the average price. *)
LookedCost(x) ==
    [status |-> map_status(x.status), cum |-> x.filled, price |-> x.cost,
     exchange_order_id |-> 1, commission |-> 0]

(* What the look-up of x tells the OMS: the average price stands in for    *)
(* the price of the last fill, and there is no commission.                 *)
Looked(x) ==
    [status |-> map_status(x.status), cum |-> x.filled,
     price |-> IF x.filled > 0 THEN x.cost \div x.filled ELSE 0,
     exchange_order_id |-> 1, commission |-> 0]

(* reconcile_single_order: the look-up fails, finds no such order at the   *)
(* exchange, or its answer is applied as if it were an event.              *)
reconcile_single_order(c, ok) ==
    /\ feed = "lookups" /\ c \in local_live
    /\ local_live' = local_live \ {c}
    /\ feed' = IF local_live' = {} THEN "reading" ELSE "lookups"
    /\ complete' = (complete /\ ok)
    /\ orders' = IF ok /\ c \in DOMAIN exch THEN Update(c, Looked(exch[c]))
                                            ELSE orders
    /\ UNCHANGED <<venue, gaps>>

(* handle_order_trade_update. *)
handle_message ==
    /\ feed = "reading" /\ stream # <<>>
    /\ LET e == Head(stream)
       IN  orders' = Update(e.c, [status |-> map_status(e.status), cum |-> e.z,
                                  price |-> e.L, exchange_order_id |-> 1,
                                  commission |-> 0])
    /\ stream' = Tail(stream)
    /\ UNCHANGED <<exch, wire, acks, subscribed, feedvars>>

(* The read fails or brings listenKeyExpired: run() ends, the events it    *)
(* has not read are gone.                                                  *)
StreamEnds ==
    /\ feed = "reading"
    /\ gaps < MaxGaps
    /\ gaps' = gaps + 1
    /\ feed' = "down"
    /\ subscribed' = FALSE
    /\ stream' = <<>>
    /\ UNCHANGED <<orders, exch, wire, acks, local_live, complete>>

FeedStep ==
    \/ fetch_fresh_listen_key \/ Handshake \/ HandshakeFails
    \/ handle_message \/ StreamEnds
    \/ \E answer \in Answers : GetOpenOrders(answer)
    \/ \E ok \in BOOLEAN, c \in local_live : reconcile_single_order(c, ok)
=============================================================================
