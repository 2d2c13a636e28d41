----------------------------- MODULE OrderVenue -----------------------------
(***************************************************************************)
(* What lies between the OMS and the exchange: the OMS's order map, which  *)
(* the gateway and the user-data feed both update, and, external to the    *)
(* repository, the exchange with the two connections to it.  The modules   *)
(* BinanceGateway and UserDataFeed are the two clients.                    *)
(*                                                                         *)
(* A client order id is also the OMS key.  Each id belongs to a post-only  *)
(* limit order or to a market order of Lot units.                          *)
(***************************************************************************)
EXTENDS OrderRecords, Sequences

CONSTANTS LimitIds, MarketIds,  \* the client order ids the engine may use
          Lot,                  \* size of every order
          Prices                \* prices fills happen at

ASSUME VenueAssumption == /\ LimitIds \cap MarketIds = {}
                          /\ Lot \in Nat \ {0}
                          /\ Prices \subseteq Nat \ {0}

Ids == LimitIds \cup MarketIds

VARIABLES orders,     \* the OMS: tracked id -> record
          exch,       \* external: id -> the exchange's order of that id
          wire,       \* external: requests written, not yet at the exchange
          acks,       \* external: answers not yet read
          stream,     \* external: order events not yet read
          subscribed  \* external: is the user-data stream open?

venue == <<exch, wire, acks, stream, subscribed>>

VenueInit == /\ orders = Empty /\ exch = Empty
             /\ wire = <<>> /\ acks = <<>>
             /\ stream = <<>> /\ subscribed = FALSE

(* A request of the WebSocket API: its message id, the order it is about,  *)
(* and whether it places or cancels it.                                    *)
Request == [id: Nat, cid: Ids, method: {"order.place", "order.cancel"}]

Ack == [id: Nat, ok: BOOLEAN]

(* OMSCore::apply_update on a tracked order; other ids are ignored. *)
Update(c, r) == IF c \in DOMAIN orders
                THEN Put(orders, c, Applied(orders[c], r))
                ELSE orders

-----------------------------------------------------------------------------
(* The exchange.  An order that is not open any more leaves its id free    *)
(* for a new one; `copies` counts how often the id was accepted, and lo    *)
(* and hi bound the prices it traded at.                                   *)

ExchStatus == {"NEW", "PARTIALLY_FILLED", "FILLED", "CANCELED", "EXPIRED"}

ExchOrder == [status: ExchStatus, filled: Nat, cost: Nat, lo: Nat, hi: Nat, copies: Nat]

Open == {c \in DOMAIN exch : exch[c].status \in {"NEW", "PARTIALLY_FILLED"}}

Accepted(c) == [status |-> "NEW", filled |-> 0, cost |-> 0, lo |-> 0, hi |-> 0,
                copies |-> IF c \in DOMAIN exch THEN exch[c].copies + 1 ELSE 1]

(* ORDER_TRADE_UPDATE events: sent to an open stream, lost otherwise.  The *)
(* last fill price is 0 in an event that is not a fill.                    *)
Announce(evs) == stream' = IF subscribed THEN stream \o evs ELSE stream

Event(c, x, price) == [c |-> c, status |-> x.status, z |-> x.filled, L |-> price]

Traded(x, q, p) ==
    [x EXCEPT !.filled = @ + q, !.cost = @ + q * p,
              !.lo = IF @ = 0 \/ p < @ THEN p ELSE @,
              !.hi = IF p > @ THEN p ELSE @,
              !.status = IF x.filled + q = Lot THEN "FILLED" ELSE "PARTIALLY_FILLED"]

Answer(ok) == /\ acks' = Append(acks, [id |-> Head(wire).id, ok |-> ok])
              /\ wire' = Tail(wire)

(* A new order: refused if its id is in use or for a reason of the         *)
(* exchange's own.  Two assumptions on the exchange: a refused order was   *)
(* not accepted (no "unknown" answers), which NoFalseReject rests on; and  *)
(* a market order trades at once, at one price.                            *)
Place(c) ==
    \/ /\ Answer(FALSE)
       /\ UNCHANGED <<exch, stream>>
    \/ /\ c \notin Open
       /\ Answer(TRUE)
       /\ IF c \in LimitIds
          THEN /\ exch' = Put(exch, c, Accepted(c))
               /\ Announce(<<Event(c, Accepted(c), 0)>>)
          ELSE \E p \in Prices :
                 LET x == Traded(Accepted(c), Lot, p)
                 IN  /\ exch' = Put(exch, c, x)
                     /\ Announce(<<Event(c, Accepted(c), 0), Event(c, x, p)>>)

Finish(c, status) ==
    LET x == [exch[c] EXCEPT !.status = status]
    IN  /\ exch' = Put(exch, c, x)
        /\ Announce(<<Event(c, x, 0)>>)

Receive ==
    /\ wire # <<>>
    /\ LET c == Head(wire).cid
       IN  IF Head(wire).method = "order.place"
           THEN Place(c)
           ELSE IF c \in Open THEN Finish(c, "CANCELED") /\ Answer(TRUE)
                              ELSE Answer(FALSE) /\ UNCHANGED <<exch, stream>>
    /\ UNCHANGED <<orders, subscribed>>

Fill(c, p) ==
    /\ c \in Open
    /\ LET x == Traded(exch[c], 1, p)
       IN  /\ exch' = Put(exch, c, x)
           /\ Announce(<<Event(c, x, p)>>)
    /\ UNCHANGED <<orders, wire, acks, subscribed>>

(* A post-only order that would cross, or a close by the exchange. *)
Expire(c) ==
    /\ c \in Open
    /\ Finish(c, "EXPIRED")
    /\ UNCHANGED <<orders, wire, acks, subscribed>>

Exchange == Receive \/ \E c \in LimitIds : Expire(c) \/ \E p \in Prices : Fill(c, p)
=============================================================================
