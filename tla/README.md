# Verification of queue_aware_smdp

TLA+ models of the execution probe and of the telemetry storage of this repository, checked with TLC on small
instances and, where it says so, proved with TLAPS for all parameters. Paths without a
directory are under `src/arch/` of the crate: `base.rs`, `state.rs`, `utils.rs` are in
`execution_probe_module/`.

## 1. The system

The collector places one tiny maker order ("probe") at a time on Hyperliquid, watches it,
cancels it or lets it fill, samples markouts, flattens the inventory and writes everything
to a raw log. It is one tokio process:

| part | state | operations | talks to |
|---|---|---|---|
| **ExecutionProbe** (`base.rs`) | active probe and its phase, account, pending markouts, seen fills, REST gate, shutdown flags | callbacks of the framework: websocket frames, reconnects, a timer; each runs to its end before the next (`&mut self`) | everything below |
| **REST worker** (`base.rs:2384-2637`) | cached account | takes one request, joins two (or six) HTTP reads, records and publishes a snapshot | request channel of capacity 1, watch channel |
| **ActionGateway** (`action_gateway.rs`) | next request id, last nonce | place ALO, cancel, reduce-only IOC; outcome of a response | action websocket |
| **MarketState** (`state.rs:193-337`) | books, external quotes, time of every feed | frames, freshness, freshest book, reset on reconnect | read by the timer |
| **QueueBelief** (`state.rs:66-150`) | bounds and quantiles of the size ahead | initialise, trade, visible size, partial fill | frames of two public feeds |
| **Markouts** (`base.rs:1631-1665`) | pending fills with their next horizon | a fill enters, samples at each horizon, clearing by the inventory guard or a stop | fair value; the flatten and the next probe wait for it |
| **Storage** (`storage.rs`) | bounded channel, buffered segment per stream, files | record, flush and sync, hourly rotation, finalize (rename, compress, checksum, remove), recovery of abandoned segments at the next start | channel from all writers; the disk |
| **main** (`main.rs`) | - | on a signal: ask the probe to stop, wait for its acknowledgement, abort the runtime, stop workers, shut the storage down | watch and mpsc channels |
| configuration, clock, rounding (`utils.rs`), schema, system worker, feed plans | - | pure functions and I/O | - |

What is hard here: the action websocket, the private feed, REST and the clock are four
unsynchronised sources about the same order. An order's response, its update, its fill, a
position frame and a REST snapshot of it arrive in any order; requests and feeds get lost;
timeouts race late answers; a snapshot is two reads that are not atomic; the log may fail in
the middle of a callback, after something irreversible was sent. Below that, quotes come over
websockets with different delays and reconnects, nonces come from a wall clock that may be set,
and the process or the machine may fail between any two effects on the disk. `PROJECT.json` lists
these hazards at their lines with the properties that cover them.

What makes each part correct: at most one order and no new one before the last is
reconciled; every wait ends; the gate and the worker agree; a finished probe leaves neither
order nor position; a stop that was acknowledged is really over; the belief's bounds hold and
stay ordered; what is acted on is fresh, priced on its side and numbered once; every fill gets
its markouts; a record that was flushed is never lost to a failing process.

## 2. Modules

| module | models |
|---|---|
| `ExecutionProbe` | all stateful handlers of `base.rs` with an open environment: any message about an order that was sent may arrive, any number of times |
| `ProbeExchange` | `ExecutionProbe` composed with an exchange: matching, in-order subscriptions, responses, the REST worker's separate reads, losses, fairness |
| `ProbeContract` | the abstract promise about lots at risk; `ProbeExchange!MeetsContract` is the refinement |
| `QueueBelief` | the belief beside a true first-in first-out price level, fed by a fast book and trades and by a slower default book |
| `Storage` | the channel, the writer actor, finalization and recovery, with failures of the writer, the process and the machine at any step |
| `DurableLog` | the abstract promise of the storage; `Storage!MeetsDurableLog` is the refinement |
| `MarketState`, `ActionGateway`, `Markouts` | the three components an order passes on its way out and after its fill; each only its own state and steps |
| `OrderEntry` | the three composed with the prices, sizes and guards of `maybe_start_probe`, `cancel_active`, `maybe_flatten` and `drive_shutdown` |
| `ExecutionProbe_proofs`, `Storage_proofs`, `QueueBelief_proofs`, `OrderEntry_proofs` | theorems: types and invariants |
| `ExecutionProbe_steps`, `Storage_steps`, `Storage_order` | theorems: what a step may do, the refinement of `DurableLog`, the order of the records; each extends the one before |
| `ProbeExchange_proofs` | theorems: a probe ends clean, and the refinement of `ProbeContract` |
| `MC*` | the instances for TLC |

### How ExecutionProbe follows the code

A Rust callback is a sequence of calls, each of which may return early with `?` after having
changed state. A callback is therefore a function from a *context* to a context: a record
of all variables plus `fuel` (how many more records the log accepts) and `err` (an `Err` is
on its way up, so nothing below runs). `Record` is `storage.record(..).await?`; `Offer` is a
record whose result is ignored (`let _ =`) or kept for later, as `Dispatch` does between the
write to the socket and the update of the probe. `Become` turns the final context into the
primed variables. With the fault `"writer"`, `Fuel` ranges over all numbers up to
`RecordLimit`, so that every record of every callback is, in some behaviour, the first to
fail. What was assigned before an error stays assigned, as in the code.

| code | model |
|---|---|
| `active_probe`, `ActiveProbe` | `probe`; `None` is phase `"Absent"`. Times are replaced by what the code asks of them: `armed` (the time is `Some`), `opened`, `late` (the deadline of this phase has passed), `terminal` (`"stale"`: older than the last cancel) |
| `account` | inventory, whether any order is open, whether ever healthy. "Newer than" is `rest.stale`: something touched the account since the worker took the request |
| `RestRequestGate`, channels, worker | `rest` |
| `place_alo`, `cancel`, `flatten_ioc` and responses | `wire`, the requests without an answer |
| the timer | `TimerTick`: `refresh_account_state`, then either `drive_shutdown` or periodic request, `sample_markouts`, `evaluate_active_probe`, `maybe_start_probe`, as one step |
| what a tick reads of the market and clock | the record `t` of `Ticks` |

Only the bid side is modelled: the ask side is the same with signs exchanged. Sizes are
lots. The phase of a probe, and nothing else, decides which deadline `Elapse` refers to, and
`Enter` clears `late` when the phase changes.
Between `Resting` and `Partial`, which share their expiry, this forgets a passed deadline
until `Elapse` sets it again: the model allows more than the code. `cooldown_ms` is taken to be
positive, so that a callback which ends a probe does not also start the next.

`ProbeExchange` replaces the open environment by `book`, `position`, `line`, `answers`, `frames` and
`history`, and keeps every handler. The exchange is external code: a post-only order
rests or is refused; a trade emits its fill and its update in either order; the three private subscriptions
are each in order; a reconnect loses the frames on their way and replays all fills. `snap` holds the reads of
the REST worker, so that the exchange may change between them.

Two of its constants say what the action websocket and the order book may do. `InTurn`: the exchange processes
requests in the order in which they were written (`line`, kept by `Lined` in every step that writes, processes or
loses one; a callback writes at most a cancel and then a flatten, or one place). Without it any request that is
on its way may be next, which is more than one websocket does but assumes nothing about how the exchange
schedules what it received. `Shortfalls`: a reduce-only IOC sells at most the position, and with `"all"` it may be
refused for want of bids, with `"some"` it may be filled in part (`FallShort`, at most `MaxLosses` times).
`wire` is a set: a cancel of the same order that is written while the first has not been processed is the same
request and is processed once. The second would find nothing live, and the answer to a cancel moves nothing.

### How Storage follows the code

A name is (run, stream, hour): the run directory, the file stem and the hour key. Each name has up
to five files, one variable each. A file's contents are the numbers of its records in order; the
number 0 (`Cut`) is a piece of a line. Sizes of lines are not kept: `BufWriter` may run full at any
line (`WriteLine`).

| code | model |
|---|---|
| `mpsc::channel(writer_capacity)` | `queue`, at most `Capacity` |
| `segments`, their `BufWriter`s | `segs` (hour key by stream), `buf` |
| where `start_storage` and `writer_actor` are | `pc`, with `hand` for the record that waits for a rotation, `todo` and `readies` for the loops over files |
| `.jsonl.partial`, `.jsonl.ready`, `.jsonl.zst.partial`, `.jsonl.zst`, `.zst.sha256` | `part`, `ready`, `temp`, `zst`, `sum` |
| `sync_data` | `synced`, the length of `.partial` that survives the machine |
| `compress_ready_file` | `stage` of the file: one step each for the temporary, its contents with `sync_all`, the rename, the checksum, the removal of `.ready` |
| `finalize_all` | `FinalizeSegment` (flush, sync and rename are one step: nothing else reads between them, and a failure before the rename is one of `LoseBuffers`), then the stages |
| `recover_abandoned_segments` | the listing is made in `Start`; `.partial` files first, then the `.ready` files of that listing that still exist |
| `?` in the writer; a kill; a power failure | `WriterFails`, `Crash`, `PowerFails`: enabled in every state of the process, also during recovery |

What the failure of a writer or a process leaves of its buffers is any prefix, with or without a
cut line (`Outcomes`). A failing machine leaves of every unrenamed file what was synced. That is
the worst case for the properties here; assumed is that a rename, once done, is not undone.

### How OrderEntry follows the code

`MarketState` keeps of a book its top and its receive time, because `feed_last_receive_ns` and
`received_monotonic_ns` are set and cleared together for these feeds. Of the exchange it assumes
nothing: any socket may deliver any top or reconnect at any time. `ActionGateway` takes the wall
clock of each request from `1 .. MaxWall`, so it may stand still or go back; a write that returns
an error may have reached the exchange. `Markouts` takes a time in every step and records sample
by sample. `OrderEntry` prices with integers: a price counts units of the decimal cap, a tick is a
power of ten, ceilings and floors are exact. What decides on phase and account, which
`ExecutionProbe` models, is left open here, so the steps of `OrderEntry` are a superset.

## 3. Runs

`CHECK_DEADLOCK FALSE` everywhere: a behaviour may end, because the number of probes is
bounded and because main aborts the runtime after the acknowledgement; `storage_*` because the last run may stop. `order_entry` checks deadlock.

| run | instance | shows |
|---|---|---|
| `core_two_probes` | open environment, 2 probes of 2 lots | `TypeOK`, `PhasesMatchProgress`, `OnlyOwnMessagesBind`, `WaitsCanTimeOut`, `PlacesOnlyWhenIdle`, `LateResponseNeverRegresses`, `RecancelsOnlySeenOrders` |
| `core_faults` | writer stops at any record, reconnects, losses, stop signal | `GateCountsOneRequest`, `PlacesAreRecorded`, `AcknowledgesWhenIdle` |
| `exchange_clean` | 2 probes of 2 lots, a guard of 4 lots, timely network, one common order of the private frames, position frames, requests in any order, one failed REST read or refused IOC | `FinishedIsClean`, `MeetsContract` |
| `exchange_ends` | fair, one lost feed or request or refused IOC | `EndsOrStalls` |
| `exchange_stops` | fair, stop signal | `StopsOrStalls` |
| `queue_bounds` | order of 2 lots, level of 3, 3 frames and a slow book under way, "open" in step with the book | `TypeOK`, `QuantilesOrdered`, `BoundsHoldAhead` |
| `storage_crashes` | 2 streams, channel of 2, 2 records, 2 hours, 3 processes; every failure at every step | `TypeOK`, `FinalFilesAreSound`, `FilesKeepTheOrder`, `OnlyTheRunIsOpen`, `OnlyFailuresLose`, `FlushedSurvives`, `FinalizedIsImmutable`, `MeetsDurableLog`, `AcceptedReachesFile`, `ShutdownEnds` |
| `order_entry` | 3 steps of time, 2 requests, 2 fills of 2 horizons, prices on both sides of a power of ten | `TypeOK`, `FreshQuotesAreUsed`, `ActionsAreNumberedOnce`, `PricesKeepTheirSide`, `MarkoutsAreComplete` |
| `shutdown_stalls`, `shutdown_orders`, `partial_flatten`, `storage_clock_back` | the first three with requests in turn | violated, see section 4 |

**Bounds.** `MaxProbes`, `MaxFlattens`, `MaxTrades` cap the counters `issued` and the trade
ids in the guards (`Become`, `UserFills`), `MaxLosses` the faults of the network, `MaxLevel`
and `MaxFeed` the price level and the public frames. Two probes are enough for "the previous one" and
"this one"; two lots for a partial fill; one flatten per lot plus one covers a repeated
flatten. One probe of `exchange_clean` sends at most three, and its two share four. Elsewhere behaviours that need
more flattens are outside the runs. `RecordLimit` (7) is more
than any callback records; it only keeps `Fuel` finite. `core_two_probes` has no flatten
(`MaxFlattens = 0`); the two properties that a flatten touches, `WaitsCanTimeOut` and
`GateCountsOneRequest`, are also proved for any number of them.

In `storage_crashes` two records suffice for an order within a file, across a rotation and behind
Shutdown; two hours for a rotation; three processes for a recovery that is itself interrupted and
recovered. In `order_entry` three steps of time let a book outlive `Freshness` while another feed
is fresh, and two horizons fall due in one call; two digits instead of the exchange's five, since
only the power of ten matters to a tick. `MaxDigits` covers the largest price of the instance.

**What the two environments are for.** The open one (`core_*`) over-approximates the
network, so what holds there needs no assumption about the exchange. Whether a
probe really ends clean depends on what the exchange does, so those properties are of
`ProbeExchange`. `exchange_clean` states what it assumes: `Timely` (a timeout of the probe
passes only when nothing is on its way), `InOrder` (frames of different private
subscriptions keep their order), and a guard of two orders. The last is more than the configuration
must give (`GuardAssumption`). A fill may be counted twice, once by the snapshot and once by its frame, and a
smaller guard takes that for too much inventory and flattens with the maker order live (`base.rs:1453-1462`).
With a guard of one order (`MaxInventory = 2`, 4 in the cfg) TLC finds `FinishedIsClean` violated, also with
`InTurn = TRUE` (a trace of 38 states): a doubled fill trips the guard, its flatten is refused for want of bids, the
next one is left by a `filled` update with its fill still on its way, a third one is sent, and in that one's phase
the second one's fill brings an inventory that a snapshot had already corrected to zero, with a lot left. With
`InTurn = TRUE` and no refused IOC TLC finds no violation for a guard of one order (4.8 million states); that there
is none for other sizes is not proved. The markout
horizons and the cooldown are deadlines like the timeouts: they, too, pass only when nothing is on its way
(the example configuration has 5 s of timeout and 10 s of cooldown). The violation runs
add one event each: a stop, an IOC that is filled in part, a clock that is set back.

**Fairness** (`FairSpec`). Messages arrive and the exchange answers (`WF MessagesArrive`); the
REST worker runs (`WF WorkerRuns`; its HTTP reads end); a deadline that stays set passes, even
if it is interrupted again and again (`SF ExElapse`); a published snapshot is taken over (the
timer runs); and, unless nothing is due, there are infinitely many *healthy* timer ticks: one
with a valid book, at least a second after the last request, with passed markout horizons and
a writable socket. The last is a fairness condition on the subset of ticks, written out by
hand because `ENABLED` of it is too slow to evaluate. The schedule task (`base.rs:2697-2703`)
fires for ever, and nothing in the code turns the other parts off for good; a market that
never has a book again is outside. Nothing is assumed about `Trade`: the market may never
trade the order. `RestTimely` says that a probe's timeout is longer than a REST read.

`Storage!Fairness`: the recovery and the writer go on (`WF`), and `tokio::select!` passes over neither
of its two branches for ever while both are ready (`WF` for each branch; its choice is random,
and the flush interval always becomes ready again). Nothing is assumed about producers,
clock, or failures. `AcceptedReachesFile` and `ShutdownEnds` follow from it.

`EndsOrStalls` and `StopsOrStalls` are the strongest liveness that holds: they exclude
every way of getting stuck except the two that `Stalled` names and section 4 explains.

## 4. What the model checker found

- **A stop that never ends** (`shutdown_stalls`). A `filled` order update after the flatten
  was sent moves `FlattenPending` back to `MarkoutPending` (`base.rs:709-718`). The flatten's
  fill empties the inventory, but only `FlattenPending` finishes on that, and `maybe_flatten`
  has nothing to sell. `main` waits without a timeout. The same dead end is the first
  disjunct of `Stalled`; the second is an `open` update after the cancel, which returns the
  probe to `Resting` with `cancel_request_id` set, so that no cancel is ever sent again.
- **A stop acknowledged with an open order** (`shutdown_orders`). `PlacePending` becomes
  `Recovering` at once, a REST read that comes before the place finishes the probe, and the
  final snapshot, which shows the order, is only recorded (`base.rs:1055-1071`).
- **A probe finished with a position** (`partial_flatten`). An order of two trades, a flatten of two is sent, and
  the IOC sells one: no more is bid above its limit. A REST snapshot that was read after the sale sets the inventory
  to 1, which is right; then the fill frame of the flatten arrives and subtracts the sale again (`base.rs:792`).
  `maybe_finish_flatten` asks for the phase and the inventory only (`base.rs:1786-1795`), so the probe ends with one
  left, and without a probe nothing sells it (`base.rs:1668-1670`). Requests are processed in turn, frames are in
  one order, nothing is lost, no timeout passes early, and every REST read is faster than the probe's timeouts: the
  fill frame only has to come later than one snapshot. With IOCs that sell all they may or nothing, and a guard
  of two orders, it does not happen (`exchange_clean`).
- **A finalized hour is replaced** (`storage_clock_back`). When the wall clock goes back over the
  begin of an hour, the rotation opens that hour again under the name that was finalized, and the
  rename of the new compressed file replaces the old one (`storage.rs:273`). The same happens
  with a clock that only goes forward when an hour begins between two opens of
  `open_all_segments` (fault `"straddle"` of `ClockFaults`): the next rotation finalizes the
  streams of the new hour and reopens them under the same name.

Seven more limits were met while modelling and proving, and have no run of their own (all but the last
belong to a hazard of `PROJECT.json`):

- A recovering probe is finished with inventory (`"rest_reconciled_absent"`, `base.rs:1134-1136`) when the
  snapshot shows the position, no order, and no fill has been seen. The network of `exchange_clean` with the
  fault `reconnect` reaches it: the open update is lost, the open timeout leads to `Recovering`, the order
  trades, and the snapshot is taken over before the fill frame. (TLC's shortest trace for that cfg, of 16 states, is another
  one: the recovering probe is finished on a snapshot that was read before the exchange had the order.)
- Fills that arrive after the first call of `drive_shutdown` are neither marked out nor recorded as
  censored.
- `BoundsHoldAhead` needs `InSync`: initialised from a book that is older than the private `open`
  update, the upper bound can be smaller than what is ahead.
- A flatten that was answered as resting and is listed by the next snapshot becomes the probe's
  `oid` (`base.rs:1117`); once a second flatten is sent, a late fill of the first is handled as a fill
  of the maker order: it moves the inventory the wrong way and opens a markout. The exchange
  answers no IOC like that, so no run shows it, but the first form of `OnlyOwnMessagesBind`, which said
  that a markout is always of the maker order, could not be proved because of it. What holds, and
  is proved, names the flattens.
- The three others are the assumptions of `exchange_clean`: with any one of them changed in its cfg, TLC finds
  `FinishedIsClean` violated. `Timely = FALSE` (a trace of 13 states): the timeout of the place passes while the place is
  still on its way, and a snapshot read before the exchange has the order finishes the recovering probe.
- `InOrder = FALSE` (a trace of 18 states): the `filled` update overtakes a fill that it already covers, the fill is
  counted again behind it, and what the probe then flattens and subtracts makes its account 0 with a lot left.
- `ResizeUpdates = TRUE` (a trace of 16 states): an `open` update for a partial fill sets `remaining_size`
  (`base.rs:679-681`) and the fill itself subtracts once more (`base.rs:859`); the probe takes its order for
  filled while the rest is on the book. The exchange would have to send such updates.

## 5. Proofs

`ExecutionProbe_proofs` proves for all values of the constants and all faults (also `"send"`, a
failed socket write, which no run enables):

- `TypeCorrect`: `Spec => []TypeOK`
- `WaitsCorrect`: `Spec => []WaitsCanTimeOut`
- `PhasesCorrect`: `Spec => []PhasesMatchProgress`

The inductive invariant is `Inv`, the conjunction of the three and of `OneRequest`, the part of
`GateCountsOneRequest` about the gate alone. `TypeOK` would do for the gate, but the phases need more: that a passed deadline belongs to a waiting phase, that an
untouched order has its whole remainder, and that nothing has been filled before `Partial`;
these are the conjuncts of `CanTimeOut` and `MatchesProgress`. It is carried through the handlers as
membership of the context in the set `Contexts`, whose `probe` field is a record with
`CanTimeOut` and `MatchesProgress` and whose `rest` field has `OneRequest`. There is one lemma for each
operator that transforms a context ("from `Contexts` to `Contexts`, with or without an
error"), used wherever the operator is called; `InvStep` then has one step per
action. The assumptions are `SizeAssumption`, `GuardAssumption`, `BoundsAssumption` and
`FaultsAssumption` of the module; the probe's order size is positive (`minimum_probe_size`) and
the guard is at least one order (`utils.rs:183-189`).

`ExecutionProbe_steps` adds what relates a state to the next:

- `BindingsCorrect`: `Spec => []OnlyOwnMessagesBind`
- `GateCorrect`: `Spec => []GateCountsOneRequest`, also that the worker ends over a read only when the
  telemetry writer is down
- `PlacesCorrect`, `AcknowledgesCorrect`, `RecancelsCorrect`, `RecordsCorrect`, `AnswersCorrect`: the five
  action properties of the `core_*` runs

A callback is a composition of a dozen operators, and what it may do is not visible in any one
of them. The proofs use relations between two contexts: `Background` (records and REST requests,
nothing else), `Evolves` (no order is placed, no probe appears, one that ends leaves a cooldown or an
error, a cancel is sent only if none was asked for, the account is as before) and `Reacts` (the
same with news about the account). They are reflexive and transitive, so there is one lemma per
operator ("`Evolves(c, Op(c))`") and the handlers follow by composition. The timer is the only one
that goes beyond `Reacts`: it adopts a snapshot, may reopen a cancel for an order the snapshot lists,
acknowledges a stop, and starts a probe last. The inductive invariant is
`StepInv == Inv /\ OwnInv /\ IdleInv`. `OwnInv` says of every identifier where it can have come from:
the probe's `oid` is its own or one of its flattens, the flatten it waits for is one that was sent for it,
and every markout's fill is in `seen` once. To be inductive it says in addition that the flatten the probe
waits for is never numbered below the one it is bound to.
`IdleInv` says that after an acknowledgement no probe is active.

`QueueBelief_proofs` proves `TypeCorrect` and `BeliefOrdered` (`Spec => []QuantilesOrdered`) from
`TypeOK /\ QuantilesOrdered`: whatever frames arrive, in sync or not, `f64::clamp` never gets
crossed bounds, so it never panics. `ClampedBetween` is the lemma about `clamp` it rests on.
`BeliefHoldsAhead` proves `BoundsHoldAhead` under the assumption `InSync`. `BoundsHoldAhead` is not
inductive: the trades still in the feed will lower the upper bound later. `BoundsInv` adds them as the
existence of a function `w` of suffix sums over the feed with `upper >= 10 * (ahead + w[1])`; each
frame published or handled gives the next witness, so no induction over the feed is needed. The
default book never lowers the upper bound, so its age does not matter.

`Storage_proofs` proves, for any number of streams, runs, hours and records, any clock fault and a failure
at any step: `TypeCorrect`, `FinalFilesSound` (`FinalFilesAreSound`) and `OnlyOneRunOpen`
(`OnlyTheRunIsOpen`). The inductive invariant is `TypeOK /\ MemoryInv /\ PartInv /\ StageInv`: what the
writer holds in each of its states; that only a failure leaves a cut line, at the end of a
`.partial`; and, for each stage of a finalization, what the files of that name agree on. It is
the last part that makes an interrupted finalization repeatable: `.ready` outlives every stage but
the last, and between the rename of `.zst` and that of its checksum the two may disagree only
while `.ready` is there. The assumption is `StorageAssumption`.

`Storage_steps` and `Storage_order` prove what is written to disk is kept, and kept in order:

- `FlushedRecordsSurvive` (`FlushedSurvives`), `RecordsLostByFailures` (`OnlyFailuresLose`),
  `FinalFilesImmutable` (`FinalizedIsImmutable`: no step changes a final file that holds a record)
- `ImplementsDurableLog`: `Spec => MeetsDurableLog`, the refinement
- `FilesInOrder`: `Spec => []FilesKeepTheOrder`

All five have the hypothesis `SteadyClock == ClockFaults = {}`: the clock never goes back and no hour
begins between two opens of `open_all_segments` while a record waits to be written. Nothing in the code prevents
either (`storage.rs:183`, `214-216`). It is not there for convenience: with either fault an
hour is finalized twice and the first file, with its records, is replaced (`storage_clock_back`), and a clock
that goes back also puts later records under an earlier hour. Nothing is assumed about failures. The argument for the first four rests on `NameInv`: no name gets records twice.
A segment opened in this hour and finalized in this hour is empty, since only an hour's end finalizes;
so when a `.zst` is replaced, either the old or both hold nothing, or they are equal because an interrupted
finalization is repeated. `ClockInv` carries the facts about hours that this needs through the states of a
rotation, `QueueInv` that nothing waits behind Shutdown, `SentInv` that nothing is stored that was not
sent. Of each step two lemmas say what it does: `MemoryMoves` to the records in the channel, in hand and in
buffers, `DiskStep` (`FileEffect`) to each file. The refinement then maps `Record` to `Accept`, the removal of
a `.ready` to `Seal` (or a stutter, if it was empty), failures to `Lose`, and every other step to `Persist` of
what it newly put on the disk, or a stutter. The order needs `OrderInv`: the records of a name's file, of
its buffer, in hand and in the channel follow each other in this sequence, and those of an earlier hour
precede those of a later one; `HourInv` says that no stored record is of a later hour than the open segment.

`OrderEntry_proofs` proves `TypeCorrect`, `ActsOnFreshQuotes` (`FreshQuotesAreUsed`), `NumberedOnce`
(`ActionsAreNumberedOnce`) and `MarkoutsCorrect` (`MarkoutsAreComplete`) for every market, every list of
increasing horizons and every clock. Freshness follows from the types and the definition of the
freshest book alone. Numbers need `NumbersPassed`: every id and nonce written is below the gateway's next.
Markouts need `PendingAhead`: a fill is pending once, a completed one stays in the list only after a
failed record, and the samples of the horizons before its `next` are all there while the writer is up.
`PricesCorrect` (`PricesKeepTheirSide`) rests on `Rounded`, the lemma about `RoundToTick`, and needs of the
tick only that it is positive: the property does not depend on which price the tick was taken from, which is
what the code gets right by rounding away from the market. That a power of ten is positive is an induction
that the provers do not find; `TickSize` picks the tick from the numbers up to the price, which is true of
it anyway and makes it positive. The assumptions are those of the four modules, which restate what
`AppConfig::validate` checks.

`ProbeExchange_proofs` proves the two properties of `exchange_clean` for every order size, number of probes,
of flattens and of lost REST reads, with and without position frames:

- `EndsClean`: `CleanNetwork => (ExSpec => []FinishedIsClean)`
- `ImplementsContract`: `CleanNetwork => (ExSpec => MeetsContract)`, the refinement

`CleanNetwork` is what `exchange_clean.cfg` fixes: no fault, deadlines that outlast what is on its way, one
common order of the private frames, no update for a partial fill, a guard of at least two orders, except that
the run also lets an IOC be refused and `CleanNetwork` has `Shortfalls = {}`. What it
does not fix is left to the environment: which lots trade and when, which of fill and update comes first, when
the worker makes its two reads, whether a read fails, when an answer or a cancel overtakes what, and whether
requests are processed in turn (`InTurn` is left open). Two of its parts
were found by the proof. The two-order guard keeps a doubled
fill from flattening while the order is live. That the cooldown
is a deadline (`CoolDown /\ Quiet`) is needed because a late fill of the last probe could otherwise open a
markout or move the inventory of the next one. `RestTimely` is not assumed.

The invariant cannot be a list of facts about single variables: that a finished probe is clean depends on
messages that were sent long before. `Good(c, N)` is a predicate of a context `c` (as in `ExecutionProbe`, so
that it is carried through a callback operator by operator) and of a record `N` of the exchange's variables. It
splits the life of a probe into stages:

| stage | the probe | the exchange and what is on its way |
|---|---|---|
| `Placed` | waits for its place | the place is the only message; nothing live, nothing held |
| `Early` | may still trade | only its order is live, held is what traded; the frames form a `Stream` of this order; while it is live, either no fill has been handled or a cancel is on its way |
| `Settling` | its order is over and known to be | a position is left; at most one fill is still on its way, and a flatten on its way covers the position |
| `Spent` | not yet finished | nothing live, nothing held, no place on its way |
| `Idle` | none | the same; and once the cooldown is over, no message at all |

`Stream` says of the frames that each fill continues the one before (`FillsFollow`), that the end of the order is
announced once and after its fills, or just before the last (`EndsLast`), and that a position frame shows what
had traded when it was sent (`PositionsFit`). The hard part is the inventory, which fills, position frames and
snapshots write while others of them are on their way: a snapshot counts a fill that then is added again. `Worth`
bounds it on both sides in `Early`; it may be too large, never too small. In `Settling` after a last fill that came
behind its update, `LastFill` says why nothing is flattened too early, or, if the whole order traded at once, that
the account shows all of it or nothing. With that, no path to `finish_probe` is open before the last lot is sold.

For the refinement, `AtStake` counts the lots of live orders and of places on their way. It is 0 in every stage
but `Placed` and `Early`, so `PromiseNext` has one short lemma for each action: an accepted place is a stutter, a
trade is `Buy`, a cancel or a refusal is `Withdraw`, a flatten is `Sell`, a callback that ends the probe is
`Finish`, the timer may be `Start`.

Only model-checked: liveness (`EndsOrStalls`, `StopsOrStalls`, `AcceptedReachesFile`, `ShutdownEnds`), which the proof system does
not reach (fairness, `ENABLED`). That a refused IOC leaves a probe clean is
model-checked only (`exchange_clean`). `EndsClean` needs what it assumes of the network: section 4 says what happens
without each of `Timely`, `InOrder`, the missing updates for partial fills and IOCs that sell all they may.

## 6. Not modelled

- `f64`: prices and sizes are integers. What rounding errors of `units.ceil() * tick` or of `observe_*`
  do is not shown by any run.
- The choice of the probe cell, decision payloads, envelopes, formatting, signing, hashes of
  payloads: no property here depends on them.
- Reading the configuration; its bounds are the named assumptions.
- Lengths of lines and files. That zstd decodes what it encoded is assumed; the comparison of lengths is
  a guard of `Install` that always holds here.
- Losing a rename when the machine fails, and the blocks of an unsynced file that survive it: the
  file system's business; the code never syncs a directory.
- Producers' deadlock on a full channel cannot occur with the writer alone; what a strategy
  does while it waits for room is not modelled (records are instantaneous in `ExecutionProbe`).
- A post-only order that fills at once (`PlaceOutcome::Filled`), a rejected order update and an
  IOC that rests are in `ExecutionProbe` but not produced by the exchange of `ProbeExchange`.
- How often the same cancel is on its way: `wire` is a set (section 2). An IOC that is filled in part is in
  `partial_flatten` only, one that is refused in `exchange_clean` and `exchange_ends` only, at most once each;
  `exchange_stops` has neither; with a refused IOC it holds too, but takes long (436,062 states).
- The sidecar of a checksum: writing `.sha256.partial` and renaming it (`storage.rs:280-281`) is one step, since
  a repeated finalization writes it again.
- Feeds that are recorded but read by no decision (asset context, depth, foreign trades), feed plans
  beyond the private reconnect, the system worker, the schema and the module glue hold no state that
  a property is about.

## 7. Plan

Done: `ExecutionProbe`, `ProbeExchange` and `ProbeContract`; `QueueBelief` over two feeds; `Storage` and
`DurableLog`; `MarketState`, `ActionGateway`, `Markouts` and `OrderEntry`; theorems for every safety
property that a passing run checks, and both refinements.

Left, in order of importance:

1. Weaker hypotheses for `EndsClean`: refused IOCs, a guard of one order when requests are processed in turn, subscriptions that are each in order but not in step, updates for partial
   fills, and which losses a probe survives. What of the stages needs them is collected in `Stream`.
2. The ask side in `ExecutionProbe`, where inventory may be negative.
3. `OrderEntry` beside `ExecutionProbe`: the guards on phase and account that are open here.
