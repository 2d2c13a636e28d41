--------------------------- MODULE ExecutionEngine ---------------------------
(***************************************************************************)
(* ExecutionEngine of engine/net/execution_engine.hpp: admission of arb    *)
(* signals, the legging risk manager (monitor_pair), market hedges         *)
(* (watch_hedge), the stale-order sweeper, the reject circuit breaker and  *)
(* the booking of fills, over the order map of OrderMap and an external    *)
(* exchange.                                                               *)
(*                                                                         *)
(* main_live.cpp runs every coroutine of the engine, the gateway and the   *)
(* user-data feed on one io_context thread, and the gateway calls only     *)
(* queue a message, so code between two waits (a channel receive, a timer) *)
(* is one step.  The two timers have no clock here: a timeout may fire at  *)
(* any moment while its wait is pending.                                   *)
(*                                                                         *)
(* A client order id is its sequence number; it is also the OMS key.       *)
(***************************************************************************)
EXTENDS OrderRecords, Integers, Sequences, FiniteSetsExt

CONSTANTS Signals,       \* the <<leg1, leg2>> tickets the router may send
          max_open_orders,
          kMaxConsecutiveRejects,
          kChanBuffer,   \* buffer of an order's waiter channel
          AckMayTimeOut, \* can kCancelAckTimeout expire before the OMS has the ack?
          MaxOrders,     \* model bound on client order ids
          MaxUnderWay    \* model bound on orders with reports under way

ASSUME EngineAssumption ==
    /\ Signals \subseteq Ticket \X Ticket
    /\ \A sg \in Signals : /\ sg[1].symbol # sg[2].symbol
                           /\ sg[1].qty > 0 /\ sg[2].qty > 0
    /\ max_open_orders \in Nat /\ kMaxConsecutiveRejects \in Nat \ {0}
    /\ kChanBuffer \in Nat /\ AckMayTimeOut \in BOOLEAN /\ MaxOrders \in Nat
    /\ MaxUnderWay \in Nat \ {0}

VARIABLES seq,              \* seq_: next client order id
          orders,           \* the OMS: tracked id -> record
          waiters,          \* waiters_: id -> updates not yet received
          monitors,         \* running monitor_pair coroutines, by id of leg 1
          watchers,         \* ids of the hedges with a running watch_hedge
          inflight_symbols,
          halted, consecutive_rejects,
          tripped,          \* history: has the reject limit ever been reached?
          last_filled,      \* exchange order id -> quantity already booked
          position,         \* PnlBook: signed quantity per symbol
          exch,             \* external: id -> the order at the exchange
          cancels,          \* external: ids with a cancel request under way
          reports,          \* external: id -> execution reports under way
          first_status      \* history: pair -> status its first leg settled in

engine == <<seq, orders, waiters, monitors, watchers, inflight_symbols>>
breaker == <<halted, consecutive_rejects, tripped>>
book == <<last_filled, position>>
market == <<exch, cancels, reports>>
vars == <<engine, breaker, book, market, first_status>>

Ids == 0..(MaxOrders - 1)

Init ==
    /\ seq = 0 /\ orders = Empty /\ waiters = Empty /\ monitors = Empty
    /\ watchers = {} /\ inflight_symbols = {}
    /\ halted = FALSE /\ consecutive_rejects = 0 /\ tripped = FALSE
    /\ last_filled = Empty /\ position = [s \in Symbols |-> 0]
    /\ exch = Empty /\ cancels = {} /\ reports = Empty
    /\ first_status = Empty

-----------------------------------------------------------------------------
(* The exchange, its user-data stream and the order-entry responses: code  *)
(* outside the repository, as the feed and the gateway observe it.  Reports*)
(* of one order arrive in order (user_data_feed.hpp reads one stream); a   *)
(* rejection is the gateway's answer to the request.                       *)

XOrder(t, is_market, pair) ==
    [qty |-> t.qty, symbol |-> t.symbol, side |-> t.side, market |-> is_market,
     pair |-> pair, st |-> "sent", filled |-> 0]

Tell(o, status, cum, price, xid) ==
    /\ Cardinality({x \in DOMAIN reports \ {o} : reports[x] # <<>>}) < MaxUnderWay
    /\ reports' = [reports EXCEPT ![o] =
           Append(@, [status |-> status, cum |-> cum, price |-> price,
                      exchange_order_id |-> xid, commission |-> 0])]

XAccept(o) ==
    /\ exch[o].st = "sent"
    /\ exch' = [exch EXCEPT ![o].st = "live"]
    /\ Tell(o, "Open", 0, 0, o + 1)
    /\ UNCHANGED cancels

XReject(o) ==
    /\ exch[o].st = "sent"
    /\ exch' = [exch EXCEPT ![o].st = "done"]
    /\ Tell(o, "Rejected", 0, 0, 0)
    /\ cancels' = cancels \ {o}

(* A post-only order that would cross, or a market order out of liquidity. *)
XExpire(o) ==
    /\ exch[o].st = IF exch[o].market THEN "live" ELSE "sent"
    /\ exch' = [exch EXCEPT ![o].st = "done"]
    /\ Tell(o, "Canceled", exch[o].filled, 0, o + 1)
    /\ cancels' = cancels \ {o}

XFill(o, q) ==
    /\ exch[o].st = "live"
    /\ LET cum == exch[o].filled + q
           full == cum = exch[o].qty
       IN  /\ cum <= exch[o].qty
           /\ exch' = [exch EXCEPT ![o].filled = cum,
                                   ![o].st = IF full THEN "done" ELSE "live"]
           /\ Tell(o, IF full THEN "Filled" ELSE "Partial", cum, 1, o + 1)
           /\ cancels' = IF full THEN cancels \ {o} ELSE cancels

(* A cancel request travels behind its order.  One that finds the order    *)
(* finished is answered with an error the gateway ignores, so `cancels`    *)
(* keeps only the requests for orders that are not.                        *)
XCancel(o) ==
    /\ o \in cancels /\ exch[o].st = "live"
    /\ cancels' = cancels \ {o}
    /\ exch' = [exch EXCEPT ![o].st = "done"]
    /\ Tell(o, "Canceled", exch[o].filled, 0, o + 1)

cancel_order(os) ==
    cancels' = cancels \cup {o \in os : exch[o].st # "done"}

Exchange(o) ==
    /\ \/ XAccept(o) \/ XReject(o) \/ XExpire(o) \/ XCancel(o)
       \/ \E q \in 1..exch[o].qty : XFill(o, q)
    /\ UNCHANGED <<engine, breaker, book, first_status>>

-----------------------------------------------------------------------------
(* Delivery of the next report of o: OMSCore::apply_update, whose callback *)
(* is dispatch_update.  A report for an order no longer tracked is ignored.*)

(* As CountReject, with the breaker cleared by the next success. *)
CountRejectRearming(status) ==
    /\ consecutive_rejects' = CASE status = "Rejected" -> consecutive_rejects + 1
                                [] status \in {"Open", "Filled"} -> 0
                                [] OTHER -> consecutive_rejects
    /\ halted' = \/ halted /\ status \notin {"Open", "Filled"}
                 \/ /\ status = "Rejected"
                    /\ consecutive_rejects' >= kMaxConsecutiveRejects

(* dispatch_update's reject counter; Partial and Canceled leave it alone. *)
CountReject(status) ==
    /\ consecutive_rejects' = CASE status = "Rejected" -> consecutive_rejects + 1
                                [] status \in {"Open", "Filled"} -> 0
                                [] OTHER -> consecutive_rejects
    /\ halted' = \/ halted
                 \/ /\ status = "Rejected"
                    /\ consecutive_rejects' >= kMaxConsecutiveRejects

(* As TrySend, into a channel without a limit. *)
TrySendUnbounded(o, rec) == waiters' = [waiters EXCEPT ![o] = Append(@, rec)]

(* try_send: one update is handed to the waiting receiver, kChanBuffer     *)
(* more are buffered, any other is dropped.                                *)
TrySend(o, rec) ==
    waiters' = IF Len(waiters[o]) <= kChanBuffer
               THEN [waiters EXCEPT ![o] = Append(@, rec)]
               ELSE waiters

dispatch_update(o, rec) ==
    /\ CountReject(rec.status)
    /\ tripped' = (tripped \/ consecutive_rejects' >= kMaxConsecutiveRejects)
    /\ IF o \in DOMAIN waiters THEN TrySend(o, rec) ELSE UNCHANGED waiters

apply_update(o, r) ==
    IF o \in DOMAIN orders
    THEN /\ orders' = Put(orders, o, Applied(orders[o], r))
         /\ dispatch_update(o, Applied(orders[o], r))
    ELSE UNCHANGED <<orders, waiters, breaker>>

Deliver(o) ==
    /\ reports[o] # <<>>
    /\ reports' = [reports EXCEPT ![o] = Tail(@)]
    /\ apply_update(o, Head(reports[o]))
    /\ UNCHANGED <<seq, monitors, watchers, inflight_symbols, book, exch,
                   cancels, first_status>>

-----------------------------------------------------------------------------
(* As HasCapacity, with the comparison off by one. *)
HasCapacityOffByOne == Cardinality(DOMAIN orders) <= max_open_orders

HasCapacity == Cardinality(DOMAIN orders) < max_open_orders

(* As SymbolsFree, looking only at the first leg. *)
FirstSymbolFree(sg) == sg[1].symbol \notin inflight_symbols

SymbolsFree(sg) == {sg[1].symbol, sg[2].symbol} \cap inflight_symbols = {}

(* on_signal, for a signal that passes the three guards (a signal that     *)
(* fails one is dropped without effect): claim both symbols, register,     *)
(* create the channels, send, spawn the monitor.  Registering fires        *)
(* dispatch_update too, but a PendingNew record moves no counter and no    *)
(* channel exists yet.  The last guard is the model bound.                 *)
on_signal(sg) ==
    LET a == seq
        b == seq + 1
    IN  /\ ~halted
        /\ HasCapacity
        /\ SymbolsFree(sg)
        /\ seq + 2 <= MaxOrders
        /\ inflight_symbols' = inflight_symbols \cup {sg[1].symbol, sg[2].symbol}
        /\ seq' = seq + 2
        /\ orders' = Put(Put(orders, a, NewOrder(sg[1])), b, NewOrder(sg[2]))
        /\ waiters' = Put(Put(waiters, a, <<>>), b, <<>>)
        /\ exch' = Put(Put(exch, a, XOrder(sg[1], FALSE, a)),
                       b, XOrder(sg[2], FALSE, a))
        /\ reports' = Put(Put(reports, a, <<>>), b, <<>>)
        /\ monitors' = Put(monitors, a, [pc |-> "first", id |-> <<a, b>>,
                                         leg |-> sg, rest |-> 1])
        /\ UNCHANGED <<watchers, breaker, book, cancels, first_status>>

(* wait_for_terminal_or_filled skips an update that is not terminal. *)
SkipUpdate(o) ==
    /\ waiters[o] # <<>>
    /\ ~is_terminal(Head(waiters[o]).status)
    /\ waiters' = [waiters EXCEPT ![o] = Tail(@)]
    /\ UNCHANGED <<seq, orders, monitors, watchers, inflight_symbols, breaker,
                   book, market, first_status>>

(* As Settles, with any update, and with a fill only. *)
SettlesOnAny(o) == waiters[o] # <<>>
SettlesOnFill(o) == waiters[o] # <<>> /\ Head(waiters[o]).status = "Filled"

(* The update wait_for_terminal_or_filled returns with is at hand. *)
Settles(o) == waiters[o] # <<>> /\ is_terminal(Head(waiters[o]).status)

(* The other side of an `a || b` race is cancelled, and an update already  *)
(* handed to its pending receive is consumed and lost.                     *)
LoseRace(queue) == IF queue = <<>> THEN <<>> ELSE Tail(queue)

signed_dir(side) == IF side = "Buy" THEN 1 ELSE -1

AlreadyBooked(xid) == IF xid \in DOMAIN last_filled THEN last_filled[xid] ELSE 0

(* As apply_fill_pnl, booking the ordered quantity. *)
ApplyOrderedQty(rec, leg) ==
    LET delta == rec.qty - AlreadyBooked(rec.exchange_order_id)
    IN  /\ position' = [position EXCEPT ![leg.symbol] =
                            @ + signed_dir(leg.side) * delta]
        /\ last_filled' = Put(last_filled, rec.exchange_order_id, rec.qty)

(* Book what rec adds to the quantity already booked for its order. *)
apply_fill_pnl(rec, leg) ==
    LET delta == rec.filled_qty - AlreadyBooked(rec.exchange_order_id)
    IN  /\ position' = IF delta > 0 /\ rec.avg_fill_price[1] > 0
                       THEN [position EXCEPT ![leg.symbol] =
                                @ + signed_dir(leg.side) * delta]
                       ELSE position
        /\ last_filled' = Put(last_filled, rec.exchange_order_id, rec.filled_qty)

(* As BookIfFilled, forgetting the partial fill of a cancelled order. *)
BookIfFilledCompletely(rec, leg) ==
    IF rec.status = "Filled" THEN apply_fill_pnl(rec, leg) ELSE UNCHANGED book

BookIfFilled(rec, leg) ==
    IF rec.filled_qty > 0 THEN apply_fill_pnl(rec, leg) ELSE UNCHANGED book

(* The end of monitor_pair for pair p with leg number k the resting one:   *)
(* release, hedge `remaining` units of leg k at market (hedge_remaining),  *)
(* return, and let the completion handler clear the in-flight symbols.     *)
ReleaseHedgeAndEnd(p, k, released, remaining) ==
    LET leg  == monitors[p].leg
        h    == seq
        t    == [leg[k] EXCEPT !.qty = remaining]
        kept == [o \in DOMAIN orders \ released |-> orders[o]]
        open == [o \in DOMAIN waiters \ released |-> waiters[o]]
    IN  /\ monitors' = Drop(monitors, p)
        /\ inflight_symbols' = inflight_symbols \ {leg[1].symbol, leg[2].symbol}
        /\ IF remaining > 0
           THEN /\ seq < MaxOrders      \* model bound
                /\ seq' = seq + 1
                /\ orders' = Put(kept, h, NewOrder(t))
                /\ waiters' = Put(open, h, <<>>)
                /\ exch' = Put(exch, h, XOrder(t, TRUE, p))
                /\ reports' = Put(reports, h, <<>>)
                /\ watchers' = watchers \cup {h}
           ELSE /\ orders' = kept
                /\ waiters' = open
                /\ UNCHANGED <<seq, exch, reports, watchers>>

(* As HedgeQty, hedging the resting leg's whole size. *)
HedgeWholeLeg(first, rec) ==
    IF first = "Filled"
    THEN IF rec.status = "Filled" THEN 0 ELSE rec.qty
    ELSE IF rec.filled_qty > 0 THEN remaining_qty(rec) ELSE 0

(* What monitor_pair does with the resting leg's final record, after a     *)
(* first leg that filled and after one that did not.                       *)
HedgeQty(first, rec) ==
    IF first = "Filled"
    THEN IF rec.status = "Filled" THEN 0 ELSE remaining_qty(rec)
    ELSE IF rec.filled_qty > 0 THEN remaining_qty(rec) ELSE 0

Conclude(p, k, first, rec, released) ==
    /\ BookIfFilled(rec, monitors[p].leg[k])
    /\ ReleaseHedgeAndEnd(p, k, released, HedgeQty(first, rec))
    /\ UNCHANGED breaker

-----------------------------------------------------------------------------
(* monitor_pair.  Leg number i is the first to settle, by filling: book    *)
(* and release it, and give the other leg kLegTimeout.                     *)
FirstLegFilled(p, i) ==
    LET m == monitors[p]
        o == m.id[i]
        r == m.id[3 - i]
    IN  /\ m.pc = "first" /\ Settles(o) /\ Head(waiters[o]).status = "Filled"
        /\ apply_fill_pnl(Head(waiters[o]), m.leg[i])
        /\ orders' = Drop(orders, o)
        /\ waiters' = Drop([waiters EXCEPT ![r] = LoseRace(@)], o)
        /\ monitors' = [monitors EXCEPT ![p].pc = "leg", ![p].rest = 3 - i]
        /\ first_status' = Put(first_status, p, "Filled")
        /\ UNCHANGED <<seq, watchers, inflight_symbols, breaker, market>>

(* As FirstLegFailed, trusting the partner's record of before the cancel. *)
TrustPreCancelRecord(p, i) ==
    LET m == monitors[p]
        o == m.id[i]
        r == m.id[3 - i]
    IN  /\ m.pc = "first" /\ Settles(o) /\ Head(waiters[o]).status # "Filled"
        /\ cancel_order({r})
        /\ first_status' = Put(first_status, p, Head(waiters[o]).status)
        /\ Conclude(p, 3 - i, first_status'[p], orders[r], {o, r})

(* The first leg to settle did not fill: release it, cancel the partner,   *)
(* and conclude at once if the OMS already has the partner's outcome (the  *)
(* short-circuit of await_authoritative_after_cancel), else wait for it.   *)
FirstLegFailed(p, i) ==
    LET m == monitors[p]
        o == m.id[i]
        r == m.id[3 - i]
    IN  /\ m.pc = "first" /\ Settles(o) /\ Head(waiters[o]).status # "Filled"
        /\ cancel_order({r})
        /\ first_status' = Put(first_status, p, Head(waiters[o]).status)
        /\ IF is_terminal(orders[r].status)
           THEN Conclude(p, 3 - i, first_status'[p], orders[r], {o, r})
           ELSE /\ orders' = Drop(orders, o)
                /\ waiters' = Drop([waiters EXCEPT ![r] = LoseRace(@)], o)
                /\ monitors' = [monitors EXCEPT ![p].pc = "ack", ![p].rest = 3 - i]
                /\ UNCHANGED <<seq, watchers, inflight_symbols, breaker, book,
                               exch, reports>>

(* The resting leg settles within kLegTimeout, or while its cancel is      *)
(* awaited.                                                                *)
RestingLegSettles(p) ==
    LET m == monitors[p]
        r == m.id[m.rest]
    IN  /\ m.pc \in {"leg", "ack"} /\ Settles(r)
        /\ Conclude(p, m.rest, first_status[p], Head(waiters[r]), {r})
        /\ UNCHANGED <<cancels, first_status>>

(* As LegTimeout, leaving the cancel to the sweeper. *)
LegTimeoutNoCancel(p) ==
    LET m == monitors[p]
        r == m.id[m.rest]
    IN  /\ m.pc = "leg"
        /\ IF is_terminal(orders[r].status)
           THEN Conclude(p, m.rest, first_status[p], orders[r], {r})
           ELSE /\ waiters' = [waiters EXCEPT ![r] = LoseRace(@)]
                /\ monitors' = [monitors EXCEPT ![p].pc = "ack"]
                /\ UNCHANGED <<seq, orders, watchers, inflight_symbols, breaker,
                               book, exch, reports>>
        /\ UNCHANGED <<cancels, first_status>>

(* kLegTimeout expires: cancel the resting leg, then as in FirstLegFailed. *)
LegTimeout(p) ==
    LET m == monitors[p]
        r == m.id[m.rest]
    IN  /\ m.pc = "leg"
        /\ cancel_order({r})
        /\ IF is_terminal(orders[r].status)
           THEN Conclude(p, m.rest, first_status[p], orders[r], {r})
           ELSE /\ waiters' = [waiters EXCEPT ![r] = LoseRace(@)]
                /\ monitors' = [monitors EXCEPT ![p].pc = "ack"]
                /\ UNCHANGED <<seq, orders, watchers, inflight_symbols, breaker,
                               book, exch, reports>>
        /\ UNCHANGED first_status

(* kCancelAckTimeout expires: go on with the last known OMS record.  With  *)
(* acks in time, that is when the channel has lost the ack the OMS has.    *)
AckTimeout(p) ==
    LET m == monitors[p]
        r == m.id[m.rest]
    IN  /\ m.pc = "ack" /\ (AckMayTimeOut \/ is_terminal(orders[r].status))
        /\ Conclude(p, m.rest, first_status[p], orders[r], {r})
        /\ UNCHANGED <<cancels, first_status>>

(* As watch_hedge, forgetting to erase the waiter. *)
WatchKeepsWaiter(h) ==
    LET rec == Head(waiters[h])
    IN  /\ h \in watchers /\ Settles(h)
        /\ BookIfFilled(rec, rec)
        /\ orders' = Drop(orders, h)
        /\ watchers' = watchers \ {h}
        /\ UNCHANGED <<seq, waiters, monitors, inflight_symbols, breaker, market,
                       first_status>>

(* A hedge's coroutine books what filled and releases the order. *)
watch_hedge(h) ==
    LET rec == Head(waiters[h])
    IN  /\ h \in watchers /\ Settles(h)
        /\ BookIfFilled(rec, rec)
        /\ orders' = Drop(orders, h)
        /\ waiters' = Drop(waiters, h)
        /\ watchers' = watchers \ {h}
        /\ UNCHANGED <<seq, monitors, inflight_symbols, breaker, market, first_status>>

(* One tick of sweeper_loop: cancel every live order older than max_age,   *)
(* that is every one with an id below some id.                             *)
Sweep(young) ==
    LET stale == { o \in DOMAIN orders : is_live(orders[o].status) /\ o < young }
    IN  /\ stale # {}
        /\ cancel_order(stale)
        /\ UNCHANGED <<engine, breaker, book, exch, reports, first_status>>

Monitor(p) ==
    \/ \E i \in {1, 2} : FirstLegFilled(p, i) \/ FirstLegFailed(p, i)
    \/ RestingLegSettles(p) \/ LegTimeout(p) \/ AckTimeout(p)

Next ==
    \/ \E sg \in Signals : on_signal(sg)
    \/ \E o \in DOMAIN exch : Exchange(o) \/ Deliver(o)
    \/ \E o \in DOMAIN waiters : SkipUpdate(o) \/ watch_hedge(o)
    \/ \E p \in DOMAIN monitors : Monitor(p)
    \/ \E young \in 1..MaxOrders : Sweep(young)

Spec == Init /\ [][Next]_vars

-----------------------------------------------------------------------------
Monitor_ == [pc: {"first", "leg", "ack"}, id: Ids \X Ids, leg: Signals, rest: {1, 2}]

TypeOK ==
    /\ seq \in 0..MaxOrders
    /\ DOMAIN orders \subseteq Ids /\ \A o \in DOMAIN orders : orders[o] \in OrderRecord
    /\ DOMAIN waiters \subseteq Ids
    /\ \A o \in DOMAIN waiters : /\ waiters[o] \in Seq(OrderRecord)
                                 /\ Len(waiters[o]) <= kChanBuffer + 1
    /\ DOMAIN monitors \subseteq Ids
    /\ \A p \in DOMAIN monitors : monitors[p] \in Monitor_
    /\ watchers \subseteq Ids /\ inflight_symbols \subseteq Symbols
    /\ halted \in BOOLEAN /\ consecutive_rejects \in Nat /\ tripped \in BOOLEAN
    /\ DOMAIN last_filled \subseteq 0..MaxOrders
    /\ \A x \in DOMAIN last_filled : last_filled[x] \in Nat
    /\ position \in [Symbols -> Int]
    /\ DOMAIN exch = 0..(seq - 1) /\ DOMAIN reports = DOMAIN exch
    /\ cancels \subseteq DOMAIN exch

(* The legs of a running monitor that it has not released yet.             *)
OpenLegs(p) == LET m == monitors[p]
               IN  IF m.pc = "first" THEN {m.id[1], m.id[2]} ELSE {m.id[m.rest]}

(* Every order the OMS tracks is owned by exactly one running coroutine -- *)
(* a monitor that still awaits it or its watch_hedge -- and has the        *)
(* channel that coroutine waits on.  An order without an owner would never *)
(* be released and would eat max_open_orders_ for good (notes 5 and 6 of   *)
(* execution_engine.hpp).                                                  *)
EveryOrderOwned ==
    /\ DOMAIN waiters = DOMAIN orders
    /\ DOMAIN orders = watchers \cup UNION {OpenLegs(p) : p \in DOMAIN monitors}
    /\ \A p \in DOMAIN monitors : OpenLegs(p) \cap watchers = {}
    /\ \A p, q \in DOMAIN monitors : p # q => OpenLegs(p) \cap OpenLegs(q) = {}

MonitorSymbols(p) == {monitors[p].leg[1].symbol, monitors[p].leg[2].symbol}

(* A symbol is claimed exactly while one unresolved pair trades it: two    *)
(* pairs sharing a leg never run together (the guard of on_signal), and no *)
(* symbol stays blocked after its pair ended (clear_inflight).             *)
OnePairPerSymbol ==
    /\ inflight_symbols = UNION {MonitorSymbols(p) : p \in DOMAIN monitors}
    /\ \A p, q \in DOMAIN monitors :
           p # q => MonitorSymbols(p) \cap MonitorSymbols(q) = {}

(* What the exchange executed of the orders os.                            *)
Executed(os) == MapThenSumSet(LAMBDA o : exch[o].filled, os)

On(s, side) == { o \in DOMAIN exch : exch[o].symbol = s /\ exch[o].side = side }

(* No fill is booked twice, before it happened, or on another symbol or    *)
(* side: the booked position stays within what the exchange executed,      *)
(* whichever of channel, OMS snapshot and timeout fallback monitor_pair    *)
(* took the record from, late and lost updates included.                   *)
BookedWithinFills ==
    \A s \in Symbols : /\ position[s] <= Executed(On(s, "Buy"))
                       /\ position[s] >= -Executed(On(s, "Sell"))

(* When no coroutine is left and no pair went the Canceled-first way, the  *)
(* PnL book's position is exactly what the exchange executed: every partial*)
(* fill was booked, once, with its sign -- provided cancel acks arrive in  *)
(* time (apply_fill_pnl and its call sites in monitor_pair, watch_hedge).  *)
QuiescentBookExact ==
    /\ DOMAIN monitors = {} /\ watchers = {}
    /\ \A p \in DOMAIN first_status : first_status[p] # "Canceled"
    => \A s \in Symbols :
           position[s] = Executed(On(s, "Buy")) - Executed(On(s, "Sell"))

(* Orders the engine is done with: registered once, tracked no more.       *)
Released == DOMAIN exch \ DOMAIN orders

(* Note (6) of execution_engine.hpp, first half: release() is called only  *)
(* "once its terminal state has been observed", so an untracked order is   *)
(* never still working at the exchange.                                    *)
ReleasedOnlyWhenTerminal == \A o \in Released : exch[o].st = "done"

(* Note (6), second half: an order is released only after its PnL was      *)
(* applied, so every executed quantity of a released order is booked.      *)
ReleasedOnlyWhenBooked ==
    \A o \in Released : exch[o].filled > 0 => /\ o + 1 \in DOMAIN last_filled
                                              /\ last_filled[o + 1] = exch[o].filled

(* The part of it that holds if cancel acks arrive in time: an order that  *)
(* filled completely is booked completely when it is released, in every    *)
(* order of fills, cancels, timeouts and lost race operands.               *)
FilledOrdersBooked ==
    \A o \in Released : exch[o].filled = exch[o].qty =>
                            /\ o + 1 \in DOMAIN last_filled
                            /\ last_filled[o + 1] = exch[o].qty

(* A working order is given up only by the ack timeout of                  *)
(* await_authoritative_after_cancel, and then its cancel has been sent and *)
(* is not yet done: an order the engine no longer tracks is finished at    *)
(* the exchange or about to be cancelled, however late the acks are.       *)
AbandonedAreCancelled == \A o \in Released : exch[o].st = "done" \/ o \in cancels

(* The comment on on_signal calls max_open_orders_ "a hard ceiling on      *)
(* concurrently-live orders".  What holds: a signal is admitted below it   *)
(* and adds two orders, and a hedge replaces the leg it hedges, so one     *)
(* order over the configured limit is the worst case.                      *)
AtMostOneOverLimit == Cardinality(DOMAIN orders) <= max_open_orders + 1

(* The monitor of p is done and its hedge, if any, filled completely.      *)
Resolved(p) == /\ p \in DOMAIN first_status /\ p \notin DOMAIN monitors
               /\ \A h \in DOMAIN exch :
                      exch[h].pair = p /\ exch[h].market =>
                          exch[h].filled = exch[h].qty

OrdersOn(p, s) == { o \in DOMAIN exch : exch[o].pair = p /\ exch[o].symbol = s }

(* The legs of pair p, with its hedge, executed the same share of their    *)
(* sizes: the main loop sizes both legs to the same value in dollars, so   *)
(* the shares and not the quantities are to be equal.                      *)
Balanced(p) == Executed(OrdersOn(p, exch[p].symbol)) * exch[p + 1].qty
             = Executed(OrdersOn(p, exch[p + 1].symbol)) * exch[p].qty

(* The legging risk manager's purpose: once a leg filled, the other one is *)
(* completed by its own fill or by the market hedge, in exactly the missing*)
(* quantity -- not under-hedged, not double-hedged -- provided the cancel  *)
(* ack arrives in time and the hedge fills.                                *)
FilledFirstIsHedged ==
    \A p \in DOMAIN first_status :
        first_status[p] = "Filled" /\ Resolved(p) => Balanced(p)

(* The same for every resolved pair, whichever way its first leg settled:  *)
(* the bug-fix comment in monitor_pair names "a bare, unhedged directional *)
(* position" as what must not be left.                                     *)
NoNakedLeg == \A p \in DOMAIN first_status : Resolved(p) => Balanced(p)

(* The circuit breaker "does NOT auto-clear": once kMaxConsecutiveRejects  *)
(* rejections came in a row, with no Open or Filled between them, no pair  *)
(* is ever started again, although an order already under way may open or  *)
(* fill later and reset the counter, the rejections may be those of several*)
(* pairs and hedges, and signals keep arriving.  Only reset_halt, which no *)
(* program calls, re-arms the engine.                                      *)
NoPairAfterRejects ==
    [][tripped => DOMAIN monitors' \subseteq DOMAIN monitors]_vars

-----------------------------------------------------------------------------
(* Fairness.  One io_context thread keeps running the ready handlers, the  *)
(* timers expire, the sweeper ticks, the exchange answers every request    *)
(* and completes market orders, and the stream delivers.  Nothing makes a  *)
(* resting limit order fill.                                               *)
Fairness ==
    /\ \A o \in Ids :
        /\ WF_vars(/\ o \in DOMAIN exch
                   /\ XAccept(o) \/ XReject(o) \/ XExpire(o) \/ XCancel(o)
                      \/ (exch[o].market /\ \E q \in 1..exch[o].qty : XFill(o, q))
                   /\ UNCHANGED <<engine, breaker, book, first_status>>)
        /\ WF_vars(o \in DOMAIN exch /\ Deliver(o))
        /\ WF_vars(o \in DOMAIN waiters /\ (SkipUpdate(o) \/ watch_hedge(o)))
        /\ WF_vars(o \in DOMAIN monitors /\ Monitor(o))
    /\ WF_vars(Sweep(MaxOrders))

FairSpec == Spec /\ Fairness

(* Every admitted pair is eventually resolved, so its symbols trade again: *)
(* the sweeper cancels what never fills, and no interleaving of cancel,    *)
(* fill, timeout and lost update leaves a monitor waiting for ever.        *)
PairsResolve ==
    \A p \in Ids : p \in DOMAIN monitors ~> p \notin DOMAIN monitors

(* Every registered order, hedges included, is eventually released from    *)
(* the OMS (notes 5 and 6: no slot leaks).                                 *)
OrdersReleased ==
    \A o \in Ids : o \in DOMAIN orders ~> o \notin DOMAIN orders
=============================================================================
