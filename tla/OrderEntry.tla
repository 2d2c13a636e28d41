----------------------------- MODULE OrderEntry -----------------------------
(***************************************************************************)
(* The gateway, the user-data feed and the OMS together: the order path of *)
(* main_live.cpp.  One io_context thread runs both clients and the         *)
(* engine's coroutines, so while the feed reconciles (blocking REST calls) *)
(* no other client step happens; the exchange does not wait.               *)
(*                                                                         *)
(* The engine appears by what it asks for: it registers and sends an order *)
(* with a fresh id, cancels a live order, and releases one that is         *)
(* terminal or whose cancel it has waited for (ExecutionEngine).           *)
(***************************************************************************)
EXTENDS BinanceGateway, UserDataFeed, FiniteSets

CONSTANTS MaxOrders,   \* model bound on orders the engine sends
          MaxMessages  \* model bound on messages, for cancels sent again

VARIABLES used,     \* ids the engine has used
          asked     \* ids whose cancel the engine has asked for

engine == <<used, asked>>
vars == <<orders, venue, gateway, feedvars, engine>>

AnySymbol == CHOOSE s \in Symbols : TRUE

Init == VenueInit /\ GatewayInit /\ FeedInit /\ used = {} /\ asked = {}

IoThreadFree == ~Reconciling

Submit(c) ==
    /\ IoThreadFree /\ c \notin used
    /\ Cardinality(used) < MaxOrders
    /\ used' = used \cup {c}
    /\ orders' = Put(orders, c, NewOrder([symbol |-> AnySymbol, side |-> "Buy", qty |-> Lot]))
    /\ send_order(c)
    /\ UNCHANGED <<venue, queue, connected, writing, session, losses, feedvars, asked>>

(* monitor_pair cancels a leg, and so does every tick of the sweeper while *)
(* the order is live: a cancel may be sent again.                          *)
Cancel(c) ==
    /\ IoThreadFree
    /\ c \in DOMAIN orders
    /\ is_live(orders[c].status)
    /\ c \in asked => msg_id < MaxMessages
    /\ asked' = asked \cup {c}
    /\ cancel_order(c)
    /\ UNCHANGED <<orders, venue, queue, connected, writing, session, losses, feedvars, used>>

Release(c) ==
    /\ IoThreadFree
    /\ c \in DOMAIN orders
    /\ is_terminal(orders[c].status) \/ c \in asked
    /\ orders' = Drop(orders, c)
    /\ UNCHANGED <<venue, gateway, feedvars, engine>>

GatewayTurn == IoThreadFree /\ GatewayStep /\ UNCHANGED <<feedvars, engine>>

FeedTurn == FeedStep /\ UNCHANGED <<gateway, engine>>

ExchangeTurn == Exchange /\ UNCHANGED <<gateway, feedvars, engine>>

Next ==
    \/ \E c \in LimitIds \cup MarketIds : Submit(c) \/ Release(c)
    \/ \E c \in LimitIds : Cancel(c)
    \/ GatewayTurn \/ FeedTurn \/ ExchangeTurn

Spec == Init /\ [][Next]_vars

(* The io thread runs what is ready, the exchange reads what is sent, and  *)
(* connection attempts do not fail for ever: run_with_backoff and the      *)
(* feed's own backoff loop retry without end.  After a failed write the    *)
(* read fails too (comment in do_write).                                   *)
FairSpec ==
    /\ Spec
    /\ WF_vars(IoThreadFree /\ (HandlePost \/ WriteDone \/ WriteFails \/ handle_ack)
                 /\ UNCHANGED <<feedvars, engine>>)
    /\ WF_vars(IoThreadFree /\ session /\ ~connected /\ RunFails
                 /\ UNCHANGED <<feedvars, engine>>)
    /\ SF_vars(IoThreadFree /\ Connect /\ UNCHANGED <<feedvars, engine>>)
    /\ WF_vars(FeedTurn)
    /\ SF_vars(Handshake /\ UNCHANGED <<gateway, engine>>)
    /\ WF_vars(Receive /\ UNCHANGED <<gateway, feedvars, engine>>)

-----------------------------------------------------------------------------
(* The types of the gateway's members, of the connection and of the        *)
(* exchange's orders.                                                      *)
TypeOK ==
    /\ posted \in Seq(Request) /\ queue \in Seq(Request) /\ wire \in Seq(Request)
    /\ acks \in Seq(Ack)
    /\ msg_id \in Nat /\ losses \in Nat
    /\ connected \in BOOLEAN /\ writing \in BOOLEAN /\ session \in BOOLEAN
    /\ \A c \in DOMAIN exch : exch[c] \in ExchOrder

(* Whenever the gateway is connected and has something to send, a write is *)
(* under way: no message waits for a completion that never comes, whatever *)
(* the order of posts, completions, failures and reconnects (send_msg,     *)
(* do_write and run() start writes on three different occasions).          *)
WriterNeverStalls ==
    /\ connected /\ queue # <<>> => writing
    /\ writing => queue # <<>>

(* The OMS calls an order rejected only if the exchange never accepted it. *)
(* A request sent again after a reconnect may be refused as a duplicate of *)
(* the copy that got through; run_with_backoff must have forgotten it by   *)
(* then ("they may have gone through").                                    *)
NoFalseReject ==
    \A c \in DOMAIN orders : orders[c].status = "Rejected" => c \notin DOMAIN exch

(* A request reaches the exchange a second time only by way of a lost      *)
(* connection: no order is placed twice on a connection that works.        *)
RepeatsNeedLoss == \A c \in DOMAIN exch : exch[c].copies <= 1 + losses

OnlyCopy(c) == c \in DOMAIN exch /\ exch[c].copies = 1

Done(c) == OnlyCopy(c) /\ c \notin Open

CaughtUp == feed = "reading" /\ complete /\ stream = <<>>

(* Once the feed has caught up -- stream open, reconciled, every event     *)
(* read -- the OMS knows the outcome of every order the exchange is done   *)
(* with, wherever the stream was cut and however the look-ups interleave   *)
(* with events that were already on their way.                             *)
SettledOrdersKnown ==
    CaughtUp => \A c \in DOMAIN orders :
                    Done(c) => /\ orders[c].status = map_status(exch[c].status)
                               /\ orders[c].filled_qty = exch[c].filled

(* The average price the OMS computes lies between the lowest and the      *)
(* highest price the order traded at, although a look-up reports an        *)
(* average where apply_update expects the price of the last fill.          *)
AvgWithinFills ==
    \A c \in DOMAIN orders :
        LET avg == orders[c].avg_fill_price
        IN  OnlyCopy(c) /\ avg[1] > 0 =>
                /\ exch[c].lo * avg[2] <= avg[1]
                /\ avg[1] <= exch[c].hi * avg[2]

(* The comment in run() says that what happened in a gap "is gone unless   *)
(* we go fetch it ourselves", and reconcile_open_orders that an order      *)
(* still open at the exchange is "fine": once caught up, no fill is        *)
(* missing in the OMS.                                                     *)
NoFillMissed ==
    CaughtUp => \A c \in DOMAIN orders :
                    OnlyCopy(c) => orders[c].filled_qty = exch[c].filled

(* An order the exchange is done with becomes terminal in the OMS or is    *)
(* released -- unless a REST call of the last reconciliation failed and    *)
(* the stream stays up ("will retry on next reconnect").                   *)
OutcomesArrive ==
    \A c \in LimitIds \cup MarketIds :
        \/ <>[](~complete)
        \/ Done(c) ~> \/ c \notin DOMAIN orders
                      \/ is_terminal(orders[c].status)
                      \/ ~OnlyCopy(c)
=============================================================================
