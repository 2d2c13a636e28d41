--------------------------- MODULE BinanceGateway ---------------------------
(***************************************************************************)
(* BinanceGateway of engine/net/binance_gateway.hpp: requests are posted   *)
(* to the io thread, queued, and written one at a time; answers are        *)
(* matched to orders by message id; a lost connection is replaced by a new *)
(* one.  All of it runs on one io thread (comment on run()), so each       *)
(* handler and each stretch of run() between two waits is one action.      *)
(*                                                                         *)
(* A request is the record of its message id, order and method: signing    *)
(* and number formatting are left out.  queue_ keeps a message until its   *)
(* write has completed without error.                                      *)
(***************************************************************************)
EXTENDS OrderVenue

CONSTANTS MaxLosses     \* model bound on connections lost or not made

ASSUME GatewayAssumption == MaxLosses \in Nat

VARIABLES posted,       \* send_msg handlers not yet run: their messages
          queue,        \* queue_
          pending,      \* pending_: message id -> client order id
          connected,    \* connected_
          writing,      \* writing_
          session,      \* is run() past the handshake, reading answers?
          msg_id,       \* msg_id_
          losses        \* run() calls that ended, by an exception

gateway == <<posted, queue, pending, connected, writing, session, msg_id, losses>>

GatewayInit == /\ posted = <<>> /\ queue = <<>> /\ pending = Empty
               /\ connected = FALSE /\ writing = FALSE /\ session = FALSE
               /\ msg_id = 0 /\ losses = 0

-----------------------------------------------------------------------------
(* send_limit_post_only and send_market: number the request, remember      *)
(* which order it is for, post it.                                         *)
send_order(c) ==
    LET id == msg_id + 1
    IN  /\ msg_id' = id
        /\ pending' = Put(pending, id, c)
        /\ posted' = Append(posted, [id |-> id, cid |-> c, method |-> "order.place"])

(* cancel_order: not remembered, its answer is ignored. *)
cancel_order(c) ==
    LET id == msg_id + 1
    IN  /\ msg_id' = id
        /\ posted' = Append(posted, [id |-> id, cid |-> c, method |-> "order.cancel"])
        /\ UNCHANGED pending

(* do_write, with the queue q and connected_ = up: writes the front of the *)
(* queue, if there is one and a connection to write it to.                 *)
do_write(q, up) ==
    /\ writing' = (q # <<>> /\ up)
    /\ wire' = IF q # <<>> /\ up THEN Append(wire, Head(q)) ELSE wire

(* As HandlePost, relying on the next completion to start the write. *)
HandlePostIdle ==
    /\ posted # <<>>
    /\ posted' = Tail(posted)
    /\ queue' = Append(queue, Head(posted))
    /\ UNCHANGED <<orders, exch, acks, stream, subscribed, wire, writing,
                   pending, connected, session, msg_id, losses>>

(* The handler send_msg posted: queue, and write unless a write is going on. *)
HandlePost ==
    /\ posted # <<>>
    /\ posted' = Tail(posted)
    /\ queue' = Append(queue, Head(posted))
    /\ IF connected /\ ~writing THEN do_write(queue', connected)
                                ELSE UNCHANGED <<writing, wire>>
    /\ UNCHANGED <<orders, exch, acks, stream, subscribed,
                   pending, connected, session, msg_id, losses>>

(* As WriteDone, taking the message off the queue after the next write. *)
WriteDonePopsLate ==
    /\ writing
    /\ do_write(queue, connected)
    /\ queue' = IF connected THEN queue ELSE Tail(queue)
    /\ UNCHANGED <<orders, exch, acks, stream, subscribed,
                   posted, pending, connected, session, msg_id, losses>>

(* The write completed: on to the next message.  Also after the read side  *)
(* has failed, when there is no connection for the next one.               *)
WriteDone ==
    /\ writing
    /\ queue' = Tail(queue)
    /\ do_write(queue', connected)
    /\ UNCHANGED <<orders, exch, acks, stream, subscribed,
                   posted, pending, connected, session, msg_id, losses>>

(* The write failed: the message stays at the front of the queue.  While   *)
(* the connection is up the failure means that the exchange did not get    *)
(* all of it; a write aborted because the connection was lost may have     *)
(* reached the exchange (RunFails has emptied the wire by then).          *)
WriteFails ==
    /\ writing
    /\ session => wire # <<>> /\ losses < MaxLosses    \* RunFails will follow
    /\ wire' = IF session THEN SubSeq(wire, 1, Len(wire) - 1) ELSE wire
    /\ writing' = FALSE
    /\ connected' = FALSE
    /\ UNCHANGED <<orders, exch, acks, stream, subscribed,
                   posted, queue, pending, session, msg_id, losses>>

-----------------------------------------------------------------------------
(* run(): the new connection is ready; write what is waiting.  The old     *)
(* stream was destroyed before the first wait of run(), so its aborted     *)
(* write has completed by now.                                             *)
Connect ==
    /\ ~session /\ ~writing
    /\ session' = TRUE
    /\ connected' = TRUE
    /\ do_write(queue, TRUE)
    /\ UNCHANGED <<orders, exch, acks, stream, subscribed,
                   posted, queue, pending, msg_id, losses>>

(* As RunFails, keeping the requests whose outcome is unknown. *)
RunFailsKeepsPending ==
    /\ losses < MaxLosses
    /\ losses' = losses + 1
    /\ session' = FALSE
    /\ connected' = FALSE
    /\ wire' = <<>> /\ acks' = <<>>
    /\ UNCHANGED <<orders, exch, stream, subscribed, posted, queue, writing,
                   pending, msg_id>>

(* run() ends with an exception, while connecting or reading:              *)
(* run_with_backoff forgets all requests without an answer.  Requests and  *)
(* answers on the connection are lost.                                     *)
RunFails ==
    /\ losses < MaxLosses
    /\ losses' = losses + 1
    /\ session' = FALSE
    /\ connected' = FALSE
    /\ pending' = Empty
    /\ wire' = <<>> /\ acks' = <<>>
    /\ UNCHANGED <<orders, exch, stream, subscribed, posted, queue, writing, msg_id>>

Rejection == [status |-> "Rejected", cum |-> 0, price |-> 0,
              exchange_order_id |-> 0, commission |-> 0]

(* handle_ack: the error answer to an order request rejects the order; an  *)
(* answer to a cancel or to a forgotten request is ignored.  The answer to *)
(* a request cannot be read before the completion of its own write, which  *)
(* was queued when its last byte was handed over.                          *)
handle_ack ==
    /\ session /\ acks # <<>>
    /\ ~(writing /\ Head(queue).id = Head(acks).id)
    /\ acks' = Tail(acks)
    /\ LET a == Head(acks)
       IN  IF a.id \in DOMAIN pending
           THEN /\ pending' = Drop(pending, a.id)
                /\ orders' = IF a.ok THEN orders ELSE Update(pending[a.id], Rejection)
           ELSE UNCHANGED <<pending, orders>>
    /\ UNCHANGED <<exch, wire, stream, subscribed,
                   posted, queue, writing, connected, session, msg_id, losses>>

GatewayStep == HandlePost \/ WriteDone \/ WriteFails \/ Connect \/ RunFails \/ handle_ack
=============================================================================
