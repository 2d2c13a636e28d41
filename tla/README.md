# Verification of holographic_market

The program trades pairs of instruments: a market-data feed fills a limit order
book, a GPU pipeline looks for arbitrage loops in it, a router turns loops into
pairs of limit orders, and an execution engine places the pairs, watches them
and hedges what is left over.  This directory models the parts whose
correctness depends on interleavings, lost or late messages and long histories,
checks them with TLC, and proves the central results with TLAPS.

## 1. The system

| Component | State | Operations | Talks to |
|---|---|---|---|
| `OMSCore` (`oms_core.hpp`) | slot vector, key index, free list, under a shared mutex | `register_new_order`, `apply_update`, `release`; readers `get`, `get_stale_orders`, `live_order_count` | called by engine and feeds; calls back `dispatch_update` after unlocking |
| `ExecutionEngine` (`execution_engine.hpp`) | waiter channels, in-flight symbols, reject counter, halt flag, booked quantities | `on_signal`, `monitor_pair`, `hedge_remaining`, `watch_hedge`, `sweeper_loop`, `dispatch_update` | OMS, gateway, `PnlBook`; coroutines on one `io_context` thread |
| `PnlBook` (`execution_engine.hpp`) | position, average price, realized PnL per symbol | `apply_fill`, `mark_to_market` | engine; read by the PnL thread |
| `BinanceGateway` (`binance_gateway.hpp`) | write queue, `connected_`, `writing_`, table of pending requests, message counter | `send_*`, `cancel_order`, `do_write`, `handle_ack`, `run_with_backoff` | exchange; reports rejections to the OMS |
| `UserDataFeed` (`user_data_feed.hpp`) | stream, listen key | order events, reconciliation after every (re)connect | exchange (stream and REST), OMS |
| SPSC ring (`lockfree_ring_buffer.hpp`) | slots, `head_`, `tail_` | `try_push`, `try_pop`, `push_blocking` | feed thread to drain thread |
| `LobSoA` (`lob_core.hpp`) | price and size arrays, seqlock counter, `total_updates` | `apply` | drain thread writes, pipeline and main threads read |
| `GpuLobMirror`, `CudaPipeline` | staging copy, device copy, last generation; signal history | `stage_snapshot`, `async_push`, `transfer_lob_to_gpu`, `record_signal` | reads `LobSoA` |
| `SignalRouter` (`signal_router.hpp`) | none between calls | `route`: greedy choice of disjoint edges | called by the main loop on the pipeline's buffers |
| Feeds (`binance_feed.hpp`, `csv_replay.hpp`) | reconnect state, replay cursor, `finished` | push into the ring | ring |
| Programs (`main_live.cpp`, `main_backtest.cpp`) | threads, last signal seen, PnL tracker | main loop, consumer loop | everything above |
| Hodge and Floer combinatorics, arena, latency trace | - | pure algorithms and bump allocation | pipeline |

What is hard here: a pair's two legs, its timeouts, the sweeper and the exchange
race each other; a race between two channel waits loses the losing side's
update; the cancel acknowledgement may be late or never come; a full channel
drops updates; order slots are reused.  A connection may be lost between a
request and its answer, so that the request is sent again; events while the
stream is down are gone, and what the REST look-ups bring back is applied before
events already on their way.  Ring, seqlock, signal history and topology buffers
are read and written by two threads without a common lock, the seqlock reader
gives up after a bounded number of attempts, and the pipeline may lap the main
loop.  `PROJECT.json` lists these hazards with their lines.

What makes each part correct:

- OMS: a report changes exactly the order it names; no slot leaks or is used
  twice; filled quantities never go back.
- Engine: every order has an owner until it is released; no fill is lost or
  booked twice; a leg that filled is completed or hedged in exactly the missing
  quantity; capacity and the reject breaker limit what is sent; every pair ends.
- Ring: a FIFO queue without data races.
- Book mirror: a pushed snapshot is one state of the book, or is flagged and
  later repaired; the reader never hangs.
- Order entry: no request is stuck, none is placed twice on a connection that
  works, no order that lives is called rejected, and after a reconnection the
  OMS learns what became of every order.
- Signals: a record the main loop acts on is whole; a routed batch is the greedy
  choice, with no instrument twice; no signal goes unnoticed for good.
- Backtest: the result is a function of the file, whatever the schedule.

## 2. Modules

| Module | Models | Kind |
|---|---|---|
| `OrderRecords` | order record, the effect of one execution report, map helpers | pure operators |
| `OrderMap` | what the OMS promises: a map from keys to records | abstract specification |
| `OmsCore` | the slot store that implements it | component |
| `ExecutionEngine` | engine, its PnL position, an external exchange | composition over the map of `OrderMap` |
| `BoundedFifo` / `SpscRing` | the queue promised / the ring, one step per shared access | abstract / component |
| `BookMirror` / `LobMirror` | atomic updates and pushes / seqlock writer and reader, one step per word | abstract / component |
| `OrderVenue` | OMS map, connections, external exchange | shared environment |
| `BinanceGateway`, `UserDataFeed` | the two clients of the exchange | components |
| `OrderEntry` | both clients, the OMS and the engine's requests | composition |
| `CudaPipeline`, `SignalRouter` | signal history and buffers; `route` | components |
| `SignalPath` | pipeline thread and live main loop | composition |
| `CsvReplay` | the replay thread, over `BoundedFifo` | component |
| `Backtest` | replay thread and backtest main loop | composition |
| `HodgeComplex`, `FloerComplex` | incidence matrices, boundary matrix | pure operators |
| `OmsCoreProofs`, `ExecutionEngineProofs`, `SpscRingProofs`, `LobMirrorProofs`, `OrderEntryProofs`, `SignalPathProofs`, `BacktestProofs`, `ChainProofs` | | theorems |
| `MCOmsCore`, `MCExecutionEngine`, `MCSignalPath`, `MCBacktest` | | instances for TLC |

**OmsCore.** `slots`, `index` and `free_list` are the three members of the
class.  Each operation holds the mutex for its whole body and is one action.
Positions start at 1, as TLA+ sequences do.  Registering a key that is still
indexed is allowed (the code warns and overwrites); the history variable
`orphaned` records the slots lost that way.  A client id is hashed to a key in
the code; keys here are opaque, and a collision is one key registered twice.
Average prices are exact fractions.

**ExecutionEngine.** The coroutines of engine, gateway and user-data feed run
on one `io_context` thread (`main_live.cpp`), so code between two suspension
points is one step.  A monitor's `pc` is the wait it is in: `first` (either leg
settles), `leg` (the resting leg settles or `kLegTimeout`), `ack` (the cancel is
acknowledged or `kCancelAckTimeout`).  Timers have no clock: they may fire at any
moment of their wait.  The `a || b` race cancels its loser and loses an update
already handed to it (`LoseRace`); the code is written to survive that by
looking at the OMS record.  The OMS is used through `OrderMap`'s operations,
which `OmsCore` is proved to implement.  The exchange is external: it accepts,
rejects, expires, fills in pieces and cancels, and its reports for one order
arrive in order.  `AckMayTimeOut` says whether `kCancelAckTimeout` may expire
before the acknowledgement has reached the OMS.  If it is FALSE the timeout is
left for the acknowledgement that a full channel or a lost race has kept from the
monitor; the exactness properties are checked under that assumption only.
`first_status` and `tripped` (a run of rejections has happened) are history
variables.

**SpscRing.** Both classes of the header are one algorithm.  A thread's load of
the other side's index, its slot copy and its index store are separate steps.
`blocking` chooses the live feed, which drops an update at a full ring, or the
replay, which spins.

**LobMirror.** The book is a set of words, a price and a quantity per side and
level.  `apply` increments the counter, writes its two words in either order, increments again and counts the update last.  The reader reads the
generation, then tries up to `k_max_seqlock_retries` times to copy between two
equal even counter values, and otherwise pushes the last copy with
`forced_after_max_retries`.  The memory order of the code makes these steps
appear in this order; a reordering below that level is not modelled.

**OrderVenue, BinanceGateway, UserDataFeed, OrderEntry.** One `io_context` thread
runs gateway, feed and engine, so every handler is one action, and while the feed
makes its blocking REST calls (`Reconciling`) only the exchange moves.  `posted`
are the handlers `send_msg` has given to the thread, `queue` is `queue_`, `wire`
what has been handed to the socket.  A message leaves `queue` only when its write
has completed, so one that was written when the connection broke is sent again.
The sweeper may repeat the cancel of an order that stays open.  `GetOpenOrders` has
three answers: a list, a JSON value that is not one (nothing counts as open, so
every order is looked up), and a failed call, which ends the reconciliation.
A failed write on a connection that is up means the exchange did not get all of
it; a write aborted by the loss of the connection may have reached it.  The
exchange accepts or refuses an order, fills it at one of `Prices`, expires or
cancels it, and announces each change if the stream is open.  Two things are
assumed of it: a refusal means that the order was not accepted (an answer that
leaves this open, as for a timeout inside the exchange, is outside the model, and
`NoFalseReject` depends on that, since `handle_ack` takes every status but 200 for a
rejection), and a market order fills at once, at one price.  `copies` (how
often an id was accepted), `lo`, `hi`, `losses` and `complete` are history
variables.  The engine appears by what it asks for: submit, cancel, release.

**CudaPipeline, SignalRouter, SignalPath.** The pipeline copies its topology to
the host buffers word by word, writes a record of the history in two words,
publishes its index, and gives the clusterer a window of the history.  The main
loop copies the record behind the index it loaded, in two words as well, and
`route` reads flow, source and destination of each edge from the live buffers,
then the chosen edge once more.  What the kernels compute (`Topologies`) and the
engine's answers (halted, at capacity, beyond the position limit) are inputs.
`published`, `seen` and `torn` are history variables; `torn` says that the buffers
changed while `route` was reading.

**CsvReplay, Backtest.** A line is the sequence of the numbers its fields parse
to.  `skip_comma` is modelled as it is: on the last field of a line it runs into
the next.  The ring is `BoundedFifo`, which `SpscRing` is proved to implement.
What the pipeline routes (`Routed`) and the return of an edge (`NetReturn`) are
parameters: functions of the books analysed so far and of the pair's baseline.

**HodgeComplex, FloerComplex.** The entries of the matrices, written as functions
of nodes and critical points; the order in which GPU threads number them plays no
part in them.

## 3. Runs

| Run | Question | Result |
|---|---|---|
| `oms` | Do reuse, key collisions and stale reports ever touch another order? | holds; the store implements the map |
| `engine_depth` | One pair at a time with two-unit orders, a two-deep channel, acks in time: is everything booked and hedged, and does a run of rejections end trading for good? | holds, outside the finding below |
| `engine_pairs` | Several pairs, crossing symbols, hedges, lost acks: ownership, symbols, capacity | holds, one order over the limit |
| `engine_live` | With late acks, do all pairs end and all orders get released, with nothing booked twice and no order given up without its cancel? | holds |
| `engine_naked_leg` | Is a resolved pair always balanced? | violated |
| `engine_unbooked` | Is a released order always booked? | violated |
| `ring` | Is the ring a FIFO queue without slot races, and does a spinning push end? | holds |
| `lob_mirror` | Are unflagged pushes atomic, torn ones repaired, and does the reader end? | holds |
| `order_entry` | With a lost connection, a lost stream and failing REST calls: do requests get through once, and does the OMS learn every outcome? | holds |
| `missed_fill` | Once the feed has caught up, does the OMS know every fill? | violated |
| `signal_path` | Are records, windows and batches whole where they are used, and is every signal noticed? | holds, outside torn or lapped reads |
| `backtest` | Is the result the same for every schedule, is each batch analysed once, does the program end? | holds |

### Findings

- *Naked leg* (`execution_engine.hpp:486`).  If the first leg to settle is
  cancelled or rejected and the partner turns out filled, the engine hedges
  `partner.qty - partner.filled_qty`, which is zero, and returns: the partner's
  fill stays open.  The sibling branch was fixed for exactly this outcome.
  After a partial fill the branch enlarges the exposure instead of closing it.
- *Unbooked partial fill* (`:480`).  The cancelled first leg is released without
  `apply_fill_pnl`; what it filled before the cancel never reaches the book.
- *Missed fill* (`user_data_feed.hpp:374`).  Reconciliation skips an order that
  the exchange still lists as open, so what it filled while the stream was down
  is not fetched.  The next fill event repairs the quantity; if a cancel comes
  instead, its event carries no fill price, `filled_qty` is right and the average
  price stays 0, and `apply_fill_pnl` (`execution_engine.hpp:694`) does not book
  it.

The passing runs state what remains true beside these: `QuiescentBookExact`
excludes pairs whose first leg was cancelled, `FilledFirstIsHedged` covers pairs
whose first leg filled, and `ReleasedOnlyWhenTerminal`, `FilledOrdersBooked` and
these two are checked with acknowledgements in time only.  Other observations:

- The comment at `execution_engine.hpp:307` calls `max_open_orders_` a hard
  ceiling.  The count is compared before two orders are added, so one more than
  it can be live; `AtMostOneOverLimit` shows that this is the worst case, hedges
  included.
- When the acknowledgement misses its timeout (`:600`), the engine goes on with the
  last OMS record and releases an order that may still work, while note (6) (`:60`)
  says that its terminal state has been observed.  What it fills afterwards is
  never booked.  `AbandonedAreCancelled` says what still holds: its cancel has been
  sent and the exchange has yet to carry it out, or the order is over.
- The comment in `route` (`signal_router.hpp:90`) promises disjoint instruments
  in a batch.  That holds while the buffers stay the same (`RoutesGreedily`,
  `LegsHedged`); a batch read across a copy may even pair an instrument with
  itself, and only the engine's in-flight check is left then.
- A request still queued when the connection is lost is forgotten by `pending_`:
  if it is refused later, its order stays `PendingNew` until the sweeper cancels it
  or a reconciliation looks at it.  That is the price of `NoFalseReject`.
- A CSV row with fewer than six fields swallows the row after it
  (`csv_replay.hpp:184`).  For such a file `Reproducible` takes the parser's own
  reading as the reference.
- `CycleIffLowest`: `B1 * B2` is not zero (`hodge_kernel.cu:94-99`): the signs of a
  triangle's edges do not depend on where its third node lies, and every triangle
  is found three times.  The split into gradient and curl parts described in the
  repository's README is therefore not orthogonal.
- `FloerBlocksEmpty`: the boundary matrix is written at [higher][lower]
  (`floer_homology.cu:148`) and its blocks are read at [lower][higher] (`:205`,
  `:226`): both ranks are always 0.

### Bounds

- `oms`: three keys, three slots, and the reports of a two-unit order that opens,
  fills in part, fills and is cancelled, in any order and as often as it likes,
  but for the complete fill: it carries a commission, which only accumulates, and
  `MaxCommission` lets it arrive twice on one order.  Three slots let one be
  tracked, one free and one orphaned at once.
- `engine_depth`: `MaxOrders` 6, pairs one after the other and their hedges: two
  rejections trip the breaker, an order that opens or fills after them sets the
  counter back, and there is room for the pair that must not follow;
  two-unit orders have partial fills; `kChanBuffer` 1 so that a channel really
  overflows (the code's value is 16); `MaxUnderWay` 3 orders with reports in
  transit, so both legs and a hedge can race.
- `engine_pairs`: three signals over four symbols, two of them disjoint, one
  crossing both; one-unit orders; `max_open_orders` 2 so that the limit is met and
  passed; one order's reports under way at a time, since the questions are about
  ownership and not about the order of deliveries.
- `engine_naked_leg`, `engine_unbooked`: one pair and its hedge.
- `engine_live`: one pair and its hedge, which is all a liveness property of a
  pair needs.  The hedge bound disables no monitor step here: a pair makes at
  most one hedge and `MaxOrders` leaves room for it.
- `ring`: capacity 4 and three items: wrap-around, full and empty all occur; the
  theorems cover every capacity.
- `lob_mirror`: one level (a price and a quantity word per side), two values, one
  retry, two updates: the first starts the reader, and one tears its copy.  That a
  copy may be torn by any number of updates is covered by the theorems, which hold
  for every book and retry limit.
- `order_entry`, `missed_fill`: one order of two units, limit or market, with its
  cancel: two requests are queued at once, partial fills happen, and two prices
  tell an average from a last price.  `MaxMessages` 3 lets the cancel be repeated
  once.  One lost connection and one ended stream, each at any moment; the theorems
  cover any number of orders, requests and losses.
- `signal_path`: a history of two slots and three ticks, so that the main loop is
  lapped and the window runs across the end; batches of up to two edges, with
  edges that share an instrument, are too weak or too few; the theorems on the
  safety properties cover every instance.
- `backtest`: every file of up to three lines out of eight kinds (header, good,
  without a price, unknown instrument, short); a ring of two and batches of three,
  so that the ring fills and a partial batch is left over.

The engine, mirror and order-entry runs switch deadlock checking off: with the
bound on orders, updates or losses used up and everything settled, nothing is
left to do.  In `backtest` the program ends.

### Fairness

- Engine: the single `io_context` thread runs ready handlers, timers expire, the
  sweeper ticks, the exchange answers each request and completes market orders,
  the stream delivers.  No resting limit order is assumed to fill.  The
  assumption on the exchange does not hold while a connection is down, which is
  what `order_entry` is about.
- Order entry: the thread runs what is ready (weak fairness); connecting and the
  handshake succeed if tried again and again (strong fairness), since both backoff
  loops retry for ever; after a failed write the read fails too; the exchange
  reads what reaches it.  `OutcomesArrive` excepts the case that a REST call of the
  last reconciliation failed and the stream then stays up for good, in which the
  code promises a retry on the next reconnect only.
- Signal path and backtest: both threads keep running.
- Ring: both threads keep running, and nothing is assumed about the arrival of
  updates.
- Mirror: only the pipeline thread keeps running; the writer may stop in the
  middle of an update.

## 4. Theorems

All are proved for every value of the constants.  The assumptions are the named
`ASSUME`s of the component modules (types of the constants, a ring of at least
two, a reject limit of at least one, edges listed from the lower to the higher
node as the edge kernel does), and one hypothesis that four theorems about the
engine name themselves.

- `OmsCoreProofs`.  The inductive invariant is the conjunction of the type
  invariant, `NoSharedSlot`, `FreeSlotsUnused` and `SlotsAccountedFor`; none is
  inductive alone, since reusing a slot is harmless only because free slots are
  distinct and unused, and releasing only because slots are not shared.
  `SlotStoreCorrect` is the invariant, `FilledMonotone` the action property,
  `Refinement` the implementation of `OrderMap`.
- `ExecutionEngineProofs`.  For any signals, symbols, limits and channel depths,
  any number of pairs and hedges, and every interleaving with exchange, sweeper
  and lost updates:

  | Theorem | Result | Hypotheses |
  |---|---|---|
  | `EngineTypes` | the engine's state keeps its types | |
  | `OrdersOwned` | every tracked order has one coroutine that will release it | |
  | `SymbolsExclusive` | a symbol is claimed exactly while one pair trades it | |
  | `OpenOrdersBounded` | at most one order over `max_open_orders` | |
  | `PositionWithinFills` | no fill is booked twice, early or on the wrong side | |
  | `BreakerStopsPairs` | after a run of rejections no pair is ever started again | |
  | `AbandonedEnd` | an order let go of is over, or its cancel has been sent | |
  | `ReleasedAreTerminal` | only orders the exchange is done with are released | acks in time |
  | `ReleasedAreBooked` | an order that filled is booked when released | acks in time |
  | `BookExact` | at rest, the book is what was executed (first legs cancelled excepted) | acks in time |
  | `PairsHedged` | a pair whose first leg filled ends balanced, whatever the legs' sizes | acks in time |

  "Acks in time" is `~AckMayTimeOut`: the cancel acknowledgement reaches the OMS
  before `kCancelAckTimeout`, without which the code's fallback releases working
  orders (see the observations).  The main loop sizes both legs to the same value in dollars;
  "balanced" is therefore that equal shares of both legs were executed.

  The inductive invariant `IInv` has two halves.  The first, `OrderInv`, ties the
  four places where an order's state is kept: what the exchange executed, the
  reports still under way, the OMS record, and the copies in the waiter channel.
  A record is true of some earlier moment of the exchange; the reports queued for
  an order lead from the record to the exchange's present state; a terminal record
  is final.  Without it nothing a coroutine reads could be trusted after a lost
  race.  The second half is about the coroutines: `PairInv` (what a monitor in a
  given wait knows of its legs), `OwnerInv`, `BookInv` (the position is the sum of
  what was booked per order, and no order is booked beyond its fills),
  `ReleaseInv` (a released order is done and booked, but for the cancelled first
  leg of the finding), `HedgeInv` (a resolved pair has the hedge that makes up for
  what is missing), `BreakerInv` (after a run of rejections the halt flag is set for
  good, whatever the counter says).  `AbandonInv` (an order let go of, or whose
  acknowledgement is awaited, is over or has its cancel sent) is inductive relative
  to `IInv` and gives `AbandonedEnd`.  The ownership of orders is what makes booking
  safe: only the owner books, once, in the step that releases.  Every step is
  either a turn of a coroutine, which releases and registers orders, or leaves the
  coroutines' state alone; the second half of the proof is one lemma about turns
  and one case per action.  Sums over sets of orders are handled without
  induction, by looking at a smallest subset for which a sum would be wrong.
- `SpscRingProofs`.  The invariant says what each thread still knows after its
  test: a producer about to write keeps its room (`RoomKept`), a consumer about
  to read keeps its item (`ItemKept`), a written slot holds the item
  (`SlotWritten`).  `RingSafe` and `RingRefinement` follow for every capacity.
- `LobMirrorProofs`.  `WriterInv` ties the counter's parity to the writer's step
  and the half-written book to the update; `CopyInv` says that as long as the
  counter has not moved, every copied word is current; `GenerationInv` says that
  a reader whose generation is current began after the last counted update.
  `MirrorFresh` shows that a forced, torn push is never remembered as current,
  `MirrorRefinement` that unflagged pushes are atomic.

- `OrderEntryProofs`.  `OrderInv` says that message ids grow from the answers
  through the wire and the queue to the posted handlers, `UniqueInv` that one
  request places an order and that `pending_` names it, `CopyInv` that a request
  the exchange has yet to see is accepted at most once per connection, and that one
  still pending has not been accepted at all.  From these: `WriterLive`,
  `CopiesBounded`, and, with an invariant on what stream and OMS hold,
  `RejectsTrue`: the answer that could reject a duplicate finds no pending entry.

  `KInv` is about what the OMS knows of an order the exchange accepted once.  An
  order's state is in three places: at the exchange, in the events on their way,
  and in the OMS record.  `EventsKnown`: an event may be old, but never ahead of
  the exchange, and the last one on an order says what the exchange says now.
  `RecordsKnown`: the record is not ahead either, is terminal only with the
  exchange's own outcome, and averages lie between the prices of the fills.
  `OutcomesKnown`: while the stream is open, a finished order the OMS does not yet
  agree on is announced in the stream or still to be looked up, unless a REST call
  failed.  The three need each other: a look-up applied before older events is
  harmless only because those events are not ahead and a terminal record ignores
  them.  The average needs one fact more: a record with fills and no average got
  them from an event that ends its order, so that no later fill is averaged with a
  price that is missing.  From `KInv`: `OutcomesSettled` (once the feed has caught
  up, every finished order is known), `AveragesBounded`, and `NeverAhead` (at every
  moment the OMS has no more filled than the exchange).
- `SignalPathProofs`.  `HistoryInv` says which slots hold which records while one
  is being overwritten (`Lost`), `ReadInv` what the main loop has copied so far.
  `HistoryIntact`, `WindowExact` and `SignalWhole` hold for every history length,
  window and set of topologies.  `RouteInv` follows the buffers and the scan:
  `CopyInv` says which words of the current topology have been copied and that
  source and destination of every other edge belong together; the edge counts in
  the history never reach beyond the buffers, whatever is overwritten.
  `GreedyInv` says that while the buffers stayed the same, the batch so far is the
  greedy choice and `scan.best` the strongest edge scanned that still fits.
  From these: `PathTypes` (no read beyond what was written), `RoutesAreGreedy`,
  `LegsAreHedged`.
- `BacktestProofs`.  `ReplayOver` (a finished replay has nothing left to push) and
  `LoopInv` (a consumer past the first test knows that the replay has finished)
  give `BatchesExact` for every file, ring and batch size.  `RunsReproducible`
  says that the report is a function of the file.  `FlowInv` follows the updates:
  the ring, then the row, then what the parser will make of the lines it has not
  read are together the file's updates after the first `local_count`
  (`InFileOrder`), and the replay stops only before the first line or after the
  last.  `ResultInv` says that the book, the analysed books and the tracker are
  those of the first `local_count` updates.  What the recursive definitions
  (`StreamFrom`, `BookAfter`, `ResultAfter`, `Updates`) compute is proved first:
  each recursion has a solution, since at the least length without one the
  solution for the length before could be extended; rows always go forward
  (`RowForward`); and for a file whose rows are whole the parser reads what is
  written (`UpdatesAreStream`).  The proof assumes that files are sequences of
  lines whose fields are natural numbers: the parsers know no sign.
- `ChainProofs`.  Two results on the matrices, without a run: they are about
  operators, and hold for all nodes and all assignments of Morse indices.

Every inductive invariant was checked by TLC on the runs' instances before it was
proved.

Every safety property of the passing runs is stated by a theorem.  Only
model-checked: the liveness properties, since the prover handles neither fairness
nor `ENABLED`.  The library's induction theorems cannot be used either, as no
installed prover instantiates their operator parameter; where induction over data
was needed (sums in the engine, recursions in the backtest) a least counterexample
takes its place.

## 5. Not modelled

- In the engine: the exception path of `on_signal` (the gateway calls fail at most
  for want of memory); commissions and average cost in `PnlBook`, which feed only
  the printed figures; `reset_halt`, `force_halt` and `check_drawdown`, which no
  program calls.
- In the book: `seq_nos_` and `last_ts_ns_`, which nothing reads; the accessors
  that read without the seqlock.
- The live feed's reconnect loop and JSON parsing: a lost message is one the ring
  might have dropped as well.  Start-up, credentials, the listen-key renewal
  thread, the PnL logger and the printed reports.
- Signing, number formatting, HTTP and TLS: they change no state of the model.
- Floating-point kernels (Hodge decomposition, LOBPCG, clustering, EWMA): nothing
  a finite model tells apart; what they hand on is an input.
- The memory arena (used at start-up only), the latency trace, the Python analysis
  and the provisioning scripts.
