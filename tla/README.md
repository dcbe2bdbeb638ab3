# Stockspotter in TLA+

A verification development for [`src/`](../src): TLA+ models of the parts of
stockspotter where order, failure and time decide whether the program is right,
TLC configurations that check them on small instances, and TLAPS proofs for
every value of the constants.

Run everything from this directory:

    tlc -workers 2 -config PaperOneTrade.cfg MCPaperTrader
    tlc -workers 2 -config Services.cfg Services
    tlapm PaperTraderProofs.tla

`PROJECT.json` lists the runs, the source lines every definition models, the
hazards, the mutants that each property catches, the findings and the theorems.

## 1. The system

Stockspotter watches the US stock market through one Alpaca data stream,
recognises momentum set-ups, shows them to clients, keeps research captures of
what it saw, and can trade a paper account from the same signals.

    Alpaca stream -> market-data (live scan) -> detectors and strategies
                                             -> ws-server -> web and mobile clients
                                                 |-> captures on disk -> offline readers
                                                 '-> auto-trader (journal mode | paper runner) -> Alpaca paper API

| Component | State | Operations | Talks to | Hard behaviour | Correct when |
|---|---|---|---|---|---|
| **Paper runner** `auto-trader/src/paper_runtime.rs`, `paper.rs` | ledger (`State::trades`, each with a buy and its sells) in memory and on disk; engine; last bars | event -> entry or exit; 5 s tick: reconcile, timer exits, recovery bars; startup verification | broker API (await per call), scanner channel, bar fetches | crash between save and POST, lost answers, partial fills, abandoned intents, state read before an await | nothing is sent twice or sold twice, the ledger follows the broker, every order and every decided exit is resolved |
| **OI session capture** `ws-server/src/research_writer.rs`, `opportunity_shadow.rs`, `observation_oi_extract.rs` | bounded queue and its counters, session tallies, deferred barriers; writer batch, buffers, ranges; files; reader's verdict | rank and offer rows, roll the session, close it with a barrier; drain, write, flush, sync, mark; certify offline | channel between a task and a thread, files between processes | full queue, disk errors, power loss, restart in mid-session, clock steps | a certified session is complete; an honest one is certifiable |
| **Journal-mode trader** `auto-trader/src/engine.rs`, `journal.rs`, `client.rs`, `main.rs` | the book of positions and the day of each symbol's last entry in memory, rows of the journal file, caches of momentum and price | connect, replay the journal, recover missed bars; event -> simulated entry, raised stop, exit; append row by row | server's event stream, bar fetches, a file | restart between decision and append, failed or torn appends, lag, reconnects | memory is what a restart reads back, one entry per symbol and day, no verdict of a bar is lost |
| **Live scan** `market-data/src/live.rs`, `ws.rs` | which symbols four sources track, channels subscribed, monitors and their history, caches | rescan, movers tick, chart tick, eviction, reconnect; results of background work | stream, REST, chart hub | sources that overlap, answers that come late | what is wanted is subscribed and watched, nothing else is, history survives |
| **Chart hub and feed state** `client_feed.rs` | how many connections chart a symbol, a version, feed up or down and why, tiered symbols | subscribe, release, publish | connections, scan | a version and a set read apart | the scan follows the charts, clients know when data stopped |
| **Idle deadline** `idle_deadline.rs`, reconnect loop in `live.rs` and `main.rs` | deadline, timeout, moment it was armed | batch, retune, expire | stream | silence versus death | a dead transport is found in time, a quiet night ends no connection |
| **Forming bars** `forming_bar.rs`, senders in `live.rs`, merge in the client | two series of forming bars, of tracked and of charted symbols; throttle, closed or not | print, flush, track and untrack, chart and unchart, official bar, reconnect | scan -> clients | late prints, roll against clock, a bucket handed from one series to the other | a candle is its series' prints, each series closes it once, and it gives way to the official bar |
| **Halt log** `halt_log.rs` | marks per symbol, counters, market day | record, roll, read | scan, server | three clocks | in order, and what made no mark is counted |
| Halt and status taps, quotes `halt_tap.rs`, `status_tap.rs`, `quote_book.rs` | last values | overwrite | scan, server | - | - |
| **Retention** `retention_registry.rs`, `research_retention.rs` | protected days, holds, receipts, files; the sweep's view of them | scan, decide, verify, remove | writers, exporter, operator | deletion beside writing and designation | what a sweep saw of a protected day goes only when a copy holds it; space is freed when it may be |
| **Order-flow store** `order_flow_store.rs`, `order_flow_backfill.rs` | an engine per symbol, buffer during a backfill, the day's budget | live print, idle sweep, day roll, begin, fetch, replay, splice or refuse, read | scan, REST task | replay without the lock, an entry swept meanwhile | every trade counted once, every attempt accounted for |
| **Ignition monitor** `ignition-detector/src/monitor.rs` | pending candidate, last status, cooldown, windows | trade, quote, status | live scan | statuses around halts in any order | a halt-lift is earned, alerts keep their distance |
| **Event stream** `ws-server/src/server.rs` | the collector's place in the scan's events, bounded snapshot, broadcast, connections | publish, accept, replay, deliver, lag (of a connection, of the collector) | scan, clients, trader | a client overtaken by the broadcast, the collector by the scan | what the collector numbered is delivered or disclosed, what it lost is all that may be missing, what is replayed is current |
| Halt detector `halt-detector/src` | reference price, bands, limit state | tick | live scan | floating point | - |
| Order-flow engine `order-flow/src`, recorder | book, windows | trade, quote | store | floating point | - |
| Strategies `consolidation-breakout`, `momentum-*`, `fast-funnel` | candles | pure rules | live scan | floating point | - |
| HTTP, push, bar cache `http.rs`, `access.rs`, `push.rs`, `bar_cache.rs`, ... | caches, tokens | serve | clients | - | - |
| **Observation capture** `observation.rs`, `observation_writer.rs` | the observer's sequence, lag taint, budget; bounded queue and counters; rotating writer; files; certifier's verdict | receipt, lag, window, stop; write, rotate, close durably; roll over; certify | consumer thread, writer thread, closing thread, files | lag, drops, a rotation or close that fails halfway, timeouts, crash | a run that certifies is whole, its eligible rows lost no event, an untroubled run certifies |
| Observation campaign `observation_campaign.rs`, `observation_policy.rs`, `observation_outcome.rs`, `observation_analysis.rs` | none across runs | batch | files | numeric | - |
| **Opportunity engine and outcomes** `backtest-metrics/src/opportunity.rs`, `opportunity_outcome.rs`, `ws-server/src/opportunity_outcomes.rs` | open opportunities and their index, edge memory per symbol, what was ranked; anchors outstanding and their index, rows and markers written | one event: expire, cross the day, open, extend, evict, rank; close, anchor, settle; end of the stream | detectors, capture files, offline replay | events later than others of a later day, eviction, closes told after the fact | opened and closed once, no anchor after its close, ids new, every anchor one row that a replay agrees with |
| Offline evaluation `offline_eval.rs`, the rest of `backtest-metrics`, `replay-engine` | none across runs | batch | files | numeric | - |
| Clients, `python`, `ops`, `tools` | views, scripts | - | HTTP, files | - | - |

Every component is listed, with the reason where it is not modelled, under
`components` in `PROJECT.json`; every hazard, at its line, under `hazards`.

## 2. Modules

| Module | Models |
|---|---|
| `PaperTrader` | the paper runner, the broker, the network, the market's sessions |
| `PaperCustody` | the abstract promise: an order id lives one life, shares move only on ids the ledger holds as sent |
| `MCPaperTrader` | TLC instances of `PaperTrader` |
| `PaperTraderProofs` | theorems about `PaperTrader` |
| `SessionCapture` | the capture task, the queue, the writer thread, the files, the offline reader |
| `MCSessionCapture` | TLC instances of `SessionCapture` |
| `ObservationRun` | one run of the observation: observer, queue, rotating writer, close, certifier |
| `Opportunities` | the opportunity engine and the collector of its outcomes |
| `Captures` | `SessionCapture`, `ObservationRun` and `Opportunities`, side by side |
| `OpportunityProofs`, `CapturesProofs` | theorems about `Opportunities`, and about the parts of `Captures` |
| `Retention` | the retention sweep beside writers, copies, receipts and the operator |
| `RetentionProofs` | theorems about `Retention` |
| `JournalTrader` | the journal-mode trader, its journal, the market and the server's queue for it |
| `OrderFlowStore` | one symbol of the order-flow store and its backfill |
| `EventStream` | the server's collector, snapshot, broadcast and connections |
| `FormingBars` | the two series of forming bars of one symbol and interval, up to what a client shows |
| `ScanCoverage` | the live scan's tiers, channels and monitors |
| `ChartHub` | the hub of charted symbols and the scan that follows it |
| `FeedWatch` | the upstream connection, its idle deadline, the feed state |
| `IgnitionMonitor` | the ignition detector's state machine for one symbol |
| `HaltLog` | the record of the day's halts |
| `Services` | the nine modules above, side by side |
| `JournalTraderProofs` | theorems about `JournalTrader` |
| `LiveScanProofs` | theorems about the parts of `Services` in the live scan: tiers, chart hub, feed, bars, ignition |
| `ServicesProofs` | theorems about the other parts of `Services`: event stream, halt log, order-flow store |
| `FoldTheorems` | lemmas about picks, finite sets and sums that the proofs above share |

### PaperTrader

The runner is one asynchronous task, so the only places where the world can
move between two of its steps are its `await`s on the broker. `at` names the
answer it waits for, on behalf of which caller (`task`) and which intent (`id`);
an action is that answer with all the code up to the next await, every save
included. `mem` is `State` in memory and `disk` the snapshot a crash leaves; an
order is named by its client id: `<<t, 0>>` the buy of trade `t`, `<<t, k>>` its
k-th sell (`{buy}-s{k}` in the code).

| Code | Actions and operators |
|---|---|
| `run`: startup, `select!`, tick loop | `Start`, `Verify`, `Tick`, `TickClock`, `NextTrade`, `TimerExit`, `FetchBars`, `BarExit`, `BarsDone` |
| `reconcile` | `Pending`, `Reconcile` (next intent), `Resume` |
| `sync_intent` | `SyncPoint`, `LookupFound`, `LookupMissing`, `SubmitMarketClosed`, `CancelLocally`, `Attempt`, `PostAnswered`, `PostFails` |
| `process_event`, entry | `EventEnter`, `EntryPositions`, `EntryOrders`, `EntrySkipped`, `EntryPushed` |
| `process_event`, exit | `EventExit`, `Decide`, `ExitClock` |
| `exit_trade` | `ExitPoint`, `ExitPositions`, `ExitAllowed`, `ExitRefused`, `PushSell` |
| any other call's `?` | `CallFails`, `Fail` |
| process death, `PersistenceError` | `Crash` |
| broker and network (external) | `Accept`, `Drop`, `Fill`, `Finish` |
| time | `SignalExpires` (2 s entry window), `GraceElapses` (abandonment grace), `CloseMarket`, `OpenMarket` |

Abstractions. What a strategy decides is a free choice, except that the engine
proposes no entry for a symbol it holds (`EngineHolds`) and an exit only for
one it does. Prices, quotes, budget and sizing reduce to a quantity up to
`MaxQty` or `EntrySkipped`. `StopAdjusted` rows carry no control and are left
out. A broker answer is read from the broker in the step that receives it.

### SessionCapture

The producer is a task that never blocks; the writer is a thread. Both share
the counters without a lock, so the three stores of one offer (reserve, send,
end the loss) are three steps (`Reserve`, `Send`, `Sent`) and the writer's
`StartMessage` may fall between any two. A line has length one, so an offset is
a count of lines, and a hash is the sequence of lines hashed: equal hashes are
equal contents. Each file is a buffer, a content, and how much of it is synced.

| Code | Actions and operators |
|---|---|
| `ShadowDriver::observe_tick`, `roll_oi_session` | `Tick`, `Rolled`, `Roll`, `AccountingStart` |
| `observe`, `record_in_session`, `offer_in` | `Record`, `Reserve`, `Send`, `Sent`, `Drop`, `SessionDrop` |
| `close_session`, `send_pending_barriers` | `CloseSession`, `SendPending` |
| `marker`, `describe_any_loss_span` | `Offer`, `Describe` |
| `finish`, `flush` | `Finish`, `SendDeferred` |
| writer loop | `Receive`, `WriteLine`, `LineFails`, `FlushBatch` |
| `session_barrier` and the marker | `SessionBarrier`, `WriteMarker`, `MarkerFails`, `SyncMarker`, `SyncMarkerFails` |
| `extract` | `Clean`, `RangeVerifies`, `RowsVerify`, `Certifies` |
| process and machine | `Restart`, `PowerLoss`, `NextSession`, `StepBack` |

Abstractions. Other markers (`writer_started` and the like) say nothing the
reader's certification of a session reads; a `Flush` request and its 5 s wait
fold into `SendDeferred` and `Restart`; the handle table never overflows;
serialisation does not fail; a torn last line counts as lost; all marker lines
share one file; one file at a time loses its unsynced tail, one flush fails per
batch, and the ranking of candidates is the free choice of when to `Record`.

### ObservationRun

One run, from `start_run` to what the certifier makes of its files. Three threads:
the consumer calls the observer's hooks, the writer empties the queue and rotates
files, and after a rollover a closing thread runs `on_finish`. The consumer emits a
record at a time, so the writer may come between any two of them; `close_durably`
is three steps, because what survives a failure differs after each. The certifier
is an operator over the files, asked in every state.

| Code | Actions and operators |
|---|---|
| `receive_inner`, `lag_inner`, `window_inner` | `Receive`, `Lag`, `Window`, `Tainted` |
| `emit`, `stop`, `charge` | `Emit` |
| `AsyncSink::write_serialized_owned` | `Room`, `Offer` |
| `SessionObserver::roll`, `finish_inner` | `Roll`, `EmitEnd` |
| `drain_for`, `AsyncSink::close` | `SendDrain`, `Drained`, `GivesUp`, `SendStop`, `Closed` |
| writer thread | `AnswerDrain`, `WriteLine`, `TakeStop` |
| `RotatingFileWriter::rotate` | `Rotate`, `CreateNext`, `CreateFails` |
| `close_durably` | `SyncData`, `ShowTerminal`, `SealTerminal`, `SyncFails`, `TerminalFails` |
| `acquire`, `authenticate`, `reconcile_windows`, `Certificate::issue`, `assess` | `Chained`, `Authentic`, `Lossless`, `WentOn`, `Reconciled`, `LagsApplied`, `Passes` |
| the engine, the machine | `OpenLifecycle`, `CloseLifecycle`, `Crash` |

Abstractions. A record has length one, for the budget and for rotation. Whether
freshness, confirmations and mapping make a row eligible is a free input; lag and
left-censoring are what the model decides. What a lifecycle lost is a history
(`missed`) that the observer does not see. A line that fails is lost; a torn one
would only make the reader refuse its file sooner. Status rows, the byte budget of
the queue, loss telemetry and the binding to a preregistration are left out. In
`Captures` a behaviour follows one of its three parts (`part`), as in `Services`.

### Opportunities

The server drives the engine and the collector with one call per event
(`observe_both`), and ends both with another (`finish_both`), so one event is one
step of both: the engine expires what is due, applies the event, ranks; the
collector applies the closes, takes an anchor for each ranked opportunity, evicts
and settles. Time is one scale of instants, of which a market day and a UTC date
are intervals that begin apart. Each event is received at an instant of its own,
later than the one before, and carries an instant that is no later than that:
late events, also of an earlier day, are the rule and not a fault. `lifecycle`
is chosen at the start: `move` is move-v1, `symbol_activity` its predecessor.

| Code | Actions and operators |
|---|---|
| `OpportunityOutcomes::observe_both`, `finish_both` | `Receive`, `Tick` (an event without a symbol), `Finish` |
| `expire_inactive`, `expire_moves`, `close` | `Expired`, `ExpiryNotice`, `Silence`, `ClosedAt`, `Notice` |
| `observe`, the session boundary | `Late`, `Crosses`, `Stays` |
| `day_scoped_edges`, `classify_move_evidence`, the opening edge | `Was`, `Edge`, `Positive`, `EdgesAfter` |
| `sequence_for`, the guard against duplicate ids | `Identity`, `Issued`, `Duplicate` |
| `enforce_capacity`, `record` | `Victims`, `Recorded`, `Since`, `Opportunities` |
| `rank` | `Ranked`, `Rank` |
| `apply_closure`, `anchor`, `settle_due`, `pending_capacity` | `Concerns`, `Marked`, `Anchor`, `Overflow`, `Collect` |
| `disposition_as_of_settlement` | `Replayed` |

Abstractions. Scores, contexts and ranks do not decide what opens or closes; that a
price is known is an input of the event. Prices and what a row measures from them
(returns, excursions, censoring) are left out, so a row is its anchor and why it was
written. The rows that `Finish` and eviction force are kept apart from the settled.

### Retention

A sweep reads the clock, the writers' current files and the protection registry
once, then the directory, then decides, hashes and deletes session by session
and file by file, for minutes and without a lock. Each of these is an action,
and everybody else may move between any two.

| Code | Actions and operators |
|---|---|
| `start`, `sweep`, `scan_with_registry` | `Begin`, `ScanDay` |
| `eligibility`, the loop over sessions | `Eligible`, `Rest`, `LoopEnds`, `Decide` |
| `unverified_file`, `verify_file` | `VerifyFile`, `Verified` |
| removal | `RemoveFile`, `Reclaimed` |
| outcome and `apply` | `End` |
| process death | `Restart` |
| the capture's writer | `AppendRecord`, `GraceElapses` (`finalize_grace`) |
| `cmd_designate`, hold files | `Designate`, `HoldOrRelease` |
| preservation and `retention_receipt.py` | `CopyFile`, `InstallReceipt` |

Abstractions. A record has length one. A file only grows, and is not created
again once its day is old enough to be deleted (`min_age_days` is at least one),
so its length stands for its bytes and for their hash. A session's files, hold
and receipt are read in one step, as is the removal of a file with the reading
of its length. A registry entry that does not parse protects as a good one does,
and a receipt that does not parse is none, so neither needs a state of its own.
The legacy `exported/` markers, the global `HOLD` and the hash cache, which is
keyed by what a change of the file changes, are left out. The writer's
`current_file` follows its write at once; in the code at the end of the batch.

### JournalTrader

One process, one task: `run_once` connects, replays the journal, fetches the
bars it missed, feeds them, then reads events until something fails, and `main`
calls it again. The engine changes its book in memory and returns rows; `main`
appends them one at a time, each followed by a sync. So the states that matter
lie between a decision and its rows. `mem` is the engine's book, `pending` the
rows decided and not yet appended, `disk` what `seed_from_history` would build
from the file: the fold of `Replay` over the rows written.

| Code | Actions and operators |
|---|---|
| `main`, `run_once` | `Connect`, `Fetch`, `RecoverBar`, `Recovered`, `Receive`, `Closed`, `FetchFails` |
| `Engine::seed_from_history`, `recovery_requests` | `Replay`, `ClearSeen`, `Missed` |
| `Engine::on_event`, `try_enter`, `on_bar`, `momentum_entry` | `OnSignal`, `OnMomentum`, `OnBar`, `TryEnter`, `Gates`, `Verdict` |
| `append` | `AppendRow`, `AppendFails` (nothing written, written but not synced, torn) |
| `serve_client` for a trader | `Deliver`: a full queue ends the connection |
| the market, the network, process death | `Minute`, `BarCloses`, `Alert`, `Cut`, `Crash` |

Abstractions. Time is in whole minutes. The gates that read neither journal nor
clock are one free refusal. The stop trails the closes, as in the code. Money is
left out.
`link = "down"` also stands for the sleep between two runs. The model begins at the
frames the server broadcasts: a bar that the server's collector loses
(`EventStream`, `CollectorLag`) ends no connection, so no recovery asks for it, and
`NoVerdictLost` and `PositionResolves` do not speak of it.

### OrderFlowStore

One symbol. Prints are numbers, two to a timestamp, so that the cut between
history and buffer can fall inside a timestamp. An engine is how often it has
counted each trade. The backfill task takes the lock twice, to look and to
splice, and replays in between: `Fetched`, `Commit`; every other way out of it is
`Abandon` or `Refused`. Other symbols appear as `OtherTraffic`, which rolls the
day and sweeps an idle entry, and as the engines that are all in use. Left out:
venues, the comparison of the feeds (either answer is possible) and the panic of
a replay apart from its effect.

### EventStream

There are two bounded channels. The scan sends its events to the first (`Send`),
whether or not the collector keeps up. The collector numbers the event it reads,
records it in the snapshot and broadcasts it on the second (`Publish`); when the scan
has overtaken it (`CollectorLag`, `server.rs:188`), it writes a warning to the log and
goes on from the oldest event still held. What it lost there has no number, no screen
gets a `StreamLagged` for it and the trader stays connected. A frame is its number;
`event` says which of the scan's events it carries, `lost` which of them none does.

Each connection has its receiver's position (`next`), what it was sent, what it was
told it missed, and what a screen shows of each key. `Accept`, `Hello`, `Receive`,
`Lag` and `Leave` follow `serve_client`. A screen's writes may take up to their
timeout, which is what lets the broadcast overtake it.

The promise is stated of the scan's events, not of frames, so that it counts what the
collector loses. `Accounted`: an event the collector has passed is one frame, in order,
or is one it lost, and it loses only events a whole channel behind. `NoSilentGap` and
`TraderMissesNothing`: of the events a connection has passed it was sent each, or (a
screen) told of the gap, or the event was lost to the collector. So the server does
have a silent gap, and this is its exact extent: no other is possible. No comment or
test of the code says that there is none, so it is described here and is no finding.

### FormingBars

One symbol at one interval, 30 or 60 seconds. Prices are the set of prints that made
them, so the claim that a candle is its prints is about sets.

The scan keeps two series of it: `live_bars` (`sub_minute_bars`) while the funnel
tracks the symbol, `chart_bars` (`chart_sub_minute_bars`) while a client charts it.
A print goes to the first of them that applies (`Routed`, `live.rs` 986-995), frames of
both go to the same candle.

| Code | Actions and operators |
|---|---|
| `step_series`, `BarSeries::on_trade` | `HearPrint`, `Ignores`, `Moved`, `Rollover`, `Sends` |
| the chart tick, `flush_series` of both series | `Tick`, and the end of `Chart` and `Unchart`: `Flush` |
| the tick finds changed charts (1452-1483) | `Chart`, whose `subscribe_chart` may fail, and `Unchart`, which removes the chart's series |
| the funnel takes or drops the symbol | `Track`, `Untrack` |
| a new run of the live scan | `Reconnect`: no series, no charts |
| `Bar` (`close_superseded`), `UpdatedBar` | `Official`, `Corrected` |
| `reconcileBars`, `foldBarsByBucket` | `Show`: a forming bar does not replace a final one, a final one does |

When a charted symbol is promoted in the middle of a bucket, its prints go to the
tracked series from then on, and the chart's series stays as it is until the tick
closes it: one 30-second bucket (and a minute whose official bar is not subscribed) then
has two final frames, the chart's sent after the tracked one's in the same tick (1487,
1490), each without the prints of the other. A client shows the one that comes last. The
same happens the other way when the symbol is dropped and charted on, and a series that
was removed and created again (dropped and taken again, reconnected) may close a bucket a
second time with the prints of its second life. So the properties are per series and per life
of it: `CandleIsItsPrints` says that what a client shows is the fold of every print that
came in time to the series that sent the frame, since that series began; `ClosedOnce`
that a life of a series closes a bucket once, and that both series as they stand have
closed it only if both were given prints of it, which takes a promotion or a demotion.
`OfficialStands` excepts the chart's own close where `subscribe_chart` failed
(`live.rs:1477`), which may follow an official bar that another tier's subscription
brought. `CandleCloses` asks for a close only of a series that is kept: one that is removed
in mid-bucket leaves its 30-second candle forming at the client.

Left out: the order in which one connection reads its two channels (the broadcast and
the chart's, `server.rs` 349-383), so that which of two final frames comes last is that
of the scan; frames a slow connection skips (those of the broadcast are `EventStream`'s
subject, those of the chart's channel are only logged); and clients that do not chart the
symbol, which get the tracked series' frames alone.

### ScanCoverage, ChartHub, FeedWatch

`ScanCoverage` has one action
for each arm of the scan's `select!` that changes what is tracked; a rescan's
answer, seeds and catalysts arrive by actions of their own, after the state they
were asked for has moved on. What a scan finds is free. The calls that subscribe or
unsubscribe symbols and only warn when they fail (`live.rs` 1261, 1283, 1327, 1381, 1467,
1477) are taken to succeed: after one that failed, what is subscribed is not what the
scan believes, and `CoverageMatches` does not speak of that. `ChartHub` reads the
version and the set in two steps, as the chart tick does. `FeedWatch` lets time
pass only while no deadline is due: it asks whether the deadline is right, not
whether the runtime is punctual.

### IgnitionMonitor, HaltLog

`IgnitionMonitor` keeps the phases and leaves the windows out: whether the tape
triggers, the gate blocks and the dips were bought are inputs of `OnTrade`.
`HaltLog` gives a status two clocks that step freely, its own and the receipt's.

### Services

The journal-mode trader and the eight parts above share no state, so no
interleaving of two of them reaches anything that one alone does not. `Services`
puts them side by side, and each behaviour follows one (`part`): the states add
up instead of multiplying, and what is checked and proved of a part is a claim
about one specification. What one part gives another is an input of the receiver
and is chosen freely there: any charted set, any events, any statuses.

## 3. What the runs check

| Run | Shows |
|---|---|
| `paper_one_trade` | one trade of up to two shares over two sessions with two faults: types, save-before-send, ledger never ahead of the broker, abandoned orders do not exist, no oversell, one open sell, no id sent twice, nothing finished is reopened, and the refinement of `PaperCustody` |
| `paper_slots` | there is one live trade per symbol, also across a night and when another slot is free, and the position limit holds when slots are pinned by an unknown buy, an unsold position or an unfinished sell, and when requests arrive after their intent was given up; the two symbols are interchangeable, so the run uses symmetry |
| `paper_liveness` | attempted orders resolve and decided exits complete, also when requests arrive after they were given up; an exit is left to a human only when the broker rejects its sell or an order given up surfaces |
| `paper_late_sell` (violation) | finding 1 |
| `capture_session` | counters never wrap and the byte bound holds; the tally balances at every barrier; what the reader certifies is exactly what was offered; what the writer calls clean verifies; the health counters hide no record. Beside it, of an observation run: what certifies is every record emitted, in durable files; its eligible rows are of lifecycles that lost no event; a run nothing troubled certifies. And of the opportunities: opened and closed once, the index in step, no anchor after its close, no id twice, no move beyond its market day, every anchor one row, and a row says what a replay of the closes says |
| `capture_barrier` | a deferred barrier is delivered, also when the clock steps back |
| `capture_late` (violation) | finding 2 |
| `retention` | of a protected session nothing goes that the sweep saw and no copy holds; pressure is never silent; what may be deleted is, while space is needed, and no session goes while the directory is inside its ceiling |
| `retention_contract` (violation) | finding 3 |
| `services` | of the journal-mode trader: memory is what a restart would read, no verdict is lost, one entry per symbol and day, positions are closed; of the order-flow store: trades counted once, attempts accounted for; of the stream: no gap but the collector's own is silent, gaps are mended; of forming bars: each is true of its series' prints, closed once by it, and closed in time; of the scan: coverage matches, history is kept; of the hub, the feed, the ignition monitor and the halt log: the invariants named after them in `Services` |
| `journal_pair` (violation) | finding 4 |
| `order_flow_counts` (violation) | finding 5 |

Each property has a mutant: a small change of one mapped definition, of a kind
a plausible edit would make, under which TLC reports the property violated.

### Bounds, and why they are enough

* **Paper.** `MaxTrades` 1 for the life of one order; 3, of two symbols, with two
  slots in `paper_slots`: the code relates trades only through the slot count, the
  symbol gate and the expected position of one symbol, and three trades fill both
  slots, refuse a third and bring a symbol back while another slot is free. `MaxSells` 2 or 3: a sell that fails in each of its ways
  and the ones that replace it; the broker always fills a trade's last slot
  (`Spare`), so the bound is never what stops a trade. `MaxQty` 2: a partial
  fill exists. Shares fill one at a time. `MaxDays` 2, the last session never
  closes: everything carried overnight is carried once. `MaxFaults` 1 or 2: a
  crash and a lost answer, or two of either.
* **Capture.** `MaxSession` 3: the first session of a process is always a
  mid-session start, so the first that can certify is the second, and it closes
  at the third. `QueueRecords` 1 makes the queue full when it holds anything;
  `QueueBytes` 2 lets the byte bound and the record bound be met separately.
  `MaxRows` 2 or 3 (a row in the queue, a row that is dropped, a row of another
  session), `Batch` 1 or 2, `MaxFaults` 1 or 2. `QueueRecords` 2 with `Batch` 2
  puts a row and a barrier in one batch.
* **Observation.** One lifecycle, a queue of two, files of four records, a budget of
  eight; three hooks in all, of which one may be a lag, and one mishap (a drop, a
  timeout, a failing call, an overrun or a crash): a run rotates twice, meets its
  budget, and has a window before and after the lag. Outside the runs, four hooks
  (531,532 states), two lags in four hooks (669,641), two lifecycles (1,822,790)
  and two mishaps (641,247) pass too.
* **Opportunities.** Two symbols under a bound of one open opportunity (evictions),
  at most two anchors outstanding (`pending_capacity`), instants 0..4 over days of
  three, the UTC date one instant ahead, events up to two instants late, so that an
  event of an earlier day follows one of a later; `SettleAfter` 2, so that a close may
  be told before, at and after an anchor's deadline.
* **Retention.** `MaxDay` 3: two days that may go beside today's, so that the
  older may have to stay and the younger must be reached. `Ceiling` 1 and
  `MaxRecords` 2: over the ceiling by one session, or with a record that came
  late. Day 1 is `Designated`, one more designation or hold happens at any moment
  (`MaxRulings`), `MaxFaults` 1: a removal that fails or a restart;
  `RequireExport` is on, so an unprotected session without a receipt stays too.
  One stream: a session is one file, so sessions half verified or half removed do
  not occur in this run. `ProtectedCopied` covers them for every number of
  streams; for the other properties, `MaxDay` 2 with `Streams` {1, 2} (175,293
  states) also passes, and both together exceed what TLC does in five minutes.
* **Journal-mode trader.** One symbol: between symbols there is only the slot
  count. Two bars, each closing below or above the price an alert asks, in one
  session of two minutes and the first of the next; a position lasts at most two.
  Four alerts: one enters, the others meet an open position, a used-up day and a
  restart. The server keeps one event for a trader that is behind; one fault.
  `journal_pair` needs three alerts and lets the fault fall between two rows.
* **Order-flow store.** Six prints, two to a timestamp, three of them quotes, over
  two market days; a buffer of two, so that it overflows; an idle limit of one
  timestamp and one backfill a day. `order_flow_counts` needs a seventh print.
* **Stream.** A screen and a trader that compete for the one slot; channels of one
  event and of one frame, which three events overrun: the collector and a connection
  are overtaken in the same behaviour; two keys and room to keep one.
* **Forming bars.** Three prints, a bucket of two seconds with a grace of one, clock up
  to three: the first bucket can be in progress, in its grace and closed while the second is
  open. Two moves (of the funnel, the charts, the connection): charted, then promoted in
  mid-bucket; promoted, then charted; charted, then removed. The throttle is one second,
  so that an update may be held back and then flushed or rolled.
* **Coverage.** One symbol, dropped at its second miss: what is asked of a symbol's
  monitors and channels speaks of that symbol alone. The cap of the quiet watch,
  the one rule that relates two, is not reached here.
* **Chart hub.** Two connections and three symbols under limits of two: a symbol
  may be shared, and one may be refused. The version reaches four, enough for the
  set to change twice while the scan reads it.
* **Feed.** One day across all four sessions and past the close, so that a deadline
  armed in one session expires in another, with the long timeout and the short.
* **Ignition.** Two trades confirm, the cooldown is two of five seconds, so that two
  alerts fit with a refused one between; two halts lift.
* **Halts.** Two symbols of which one is admitted, two marks kept and four statuses,
  so that both bounds are met; two market days, and timestamps ahead of and behind
  the receipt clock by more than is tolerated.

### What the environment may do

* Nobody trades the account by hand, and the broker keeps client ids unique.
* A POST reaches the broker within the abandonment grace or never, unless
  `LateArrival`; a lookup does not fail from one session to the next, and no request
  is under way that long, unless `OvernightOutage`; no single call is waited for overnight (10 s timeout).
* The clock does not step back over a session boundary, unless `ClockSteps`.
* Nobody but the sweep deletes capture files, and a copy called verified holds
  what it says.
* The socket has delivered what a REST answer contains before the answer is used,
  unless `FeedLags`; a journal fault does not fall between the two rows of one
  bar, unless `SplitPairs`.

### Fairness

* The runner is polled by its runtime, every broker call returns or times out:
  weak fairness of each of its steps. `select!` polls ready branches in random
  order, so a due tick is not passed over for ever: strong fairness of `Tick`.
  A fetch returns finitely many bars: strong fairness of `BarsDone`. The broker
  ends every order it accepted, the grace elapses and the market opens again.
  Faults and crashes are never fair, and finitely many.
* In the capture nothing blocks and the loop ticks every second: weak fairness
  of `Tick`, of the steps of an offer and of the writer thread.
* The retention thread is never blocked and its sleep ends: weak fairness of its
  steps. Writers, copies and the operator owe nothing: `PressureRelieved` gives
  up on a day as soon as it may not be deleted any more.

* The trader's loop (`Run`) and the scan's chart tick with the clock are polled by
  their runtimes and block on nothing that does not end: weak fairness of them in
  `Services`. That it is one condition over both changes nothing, since a
  behaviour follows one part. The market owes no bar: `PositionResolves` asks for
  a close only after a bar of the symbol.

## 4. Findings

1. `paper_late_sell`: `exit_trade` reads positions before open orders, so an
   abandoned sell that surfaces and fills between the two reads passes both
   checks, which the doc of `abandon_if_no_broker_order` says it cannot. It
   takes a request that arrives after the grace (`LateArrival`).
2. `capture_late`: a late row and the marker that reports it can both be refused
   by a full queue, and the session certifies; the doc says it "can never be
   silent". It takes a clock step (`ClockSteps`).
3. `retention_contract`: a protected session is verified file by file and then
   deleted by name without looking again; a record a late writer appends in
   between goes with its file, which by then is not the one the receipt lists.
   What the sweep did see is always in a copy (`ProtectedHasCopy`). A day that is
   designated after the sweep read the registry is not protected from it either.
4. `journal_pair`: one bar may decide a raised stop and an exit, written as two
   rows. A death or a failed append between them leaves the bar counted as
   managed and the position open; recovery asks only for later bars, so the exit
   the bar called for is lost, although the comment says that missing completed
   bars are replayed.
5. `order_flow_counts`: a backfill attempt that ingestion has failed and counted,
   and whose entry is then swept or cleared, is counted again when its task ends;
   the doc says "exactly once".

Two limits of the checked properties are worth knowing. `OneLiveTradePerSymbol`,
which `engine.rs:95` states ("ever have one open position at a time"), needs the
assumption that the broker is not out of reach overnight (`OneTradePerSymbol`
proves it from that, section 5): with
`OvernightOutage = TRUE` the entry gates pass before the entry's own reconcile
learns of yesterday's fill, and the symbol has two live trades, once a second slot
is free. And
`HealthHidesNothing` is an inequality: a failed batch flush adds a write error
beside records already counted as written, and a failed marker adds one that is
no record, so the exact identity the writer's comment states can fail, on the
safe side.

Other things the modelling met, without a run of their own:

* A session marker whose sync fails is in the file all the same, or comes there
  with the next flush; the comment in `research_writer.rs` says none exists. The
  rows it vouches for are synced before it, so what it certifies is true.
* A catalyst lookup that ends after its symbol was dropped puts the record back
  (`live.rs:1431`) into a cache that only the drop cleans (`live.rs:1307`).
* With `FeedLags = TRUE` a print the REST answer contains and the socket still
  owes is counted twice: the splice has nothing to recognise it by.
* `read_all` fails on a torn last line and the trader then never connects again
  (`journal.rs:194`); `PositionResolves` excepts that state. `append` may also
  leave a line without its newline, so that the next row is glued to it.
* `main.rs:84` says that state in memory survives a reconnect; `run_once` reseeds
  it, with momentum and last prices cleared, which can only lose entries.
* The hold limit of a simulated position is looked at when a bar of its symbol
  arrives, so a symbol that stops trading is held until it trades again.
* A candidate pending when a halt begins goes on collecting after it, and a
  resume during it is answered by a later print than the first
  (`monitor.rs`, `on_trade`); the lift is still earned, once.
* The doc of `close_durably` says that after a failure "the capture cannot read PASS"
  (`observation_writer.rs:683`). When cutting off the terminal record fails, and the
  marker, whose result is ignored, fails too, the run may read PASS although `close`
  returned an error. Its data are durable all the same, so what passes is whole.
* `dropped_symbols` of the halt log counts messages, not symbols.
* Events the collector of the event stream loses are known to its log alone
  (section 2, `EventStream`).
* A 30-second bucket that is handed from the chart's series to the tracked one, or back,
  is closed twice, by two frames that each lack prints (section 2, `FormingBars`). The
  comments (`live.rs` 354-357 and 983-984) speak of one final frame, built from the bucket's
  trades.
* A 30-second candle whose series is removed in mid-bucket never gets its final frame.
* The doc of `disposition_as_of_settlement` (`opportunity_outcome.rs`) promises what
  the live collector writes. Three cases are outside it, and outside
  `LiveAgreesWithReplay`: a row evicted by capacity before its deadline, which knows
  less than the replay; a close observed by a later event with the very instant of
  the deadline, after the row settled (the model gives every event an instant of its
  own); and symbol-activity, where a late event can reopen an id that was closed, so
  that a marker may be another opportunity's. The memory that keeps move-v1 from
  issuing an id twice is the process's own and does not survive a restart.

Hazards no run covers: an answer of the broker that aged on its way, applied after a
newer one (`paper.rs:308`; in `PaperTrader` the step that receives an answer reads the
broker, so answers are never out of order, and what `SentOnce` and `KeepsCustody` show is
that no later step reopens what one of them ended); idle capture files are flushed with the result ignored when
too many are open (`research_writer.rs:655`); a `StopAdjusted` of the paper runner is
saved before the `Exited` of the same event (`paper_runtime.rs:660`), and a crash
between the two leaves that exit undecided.

## 5. What is proved

Everything below holds for every value of the constants under the named
assumptions of the modules (bounds are naturals, `None` is no member of the types
it stands beside, scenario switches are Booleans; the assumptions stand in the
modules that declare the constants and TLC evaluates them on every run). A theorem
that needs a scenario switch off says so in its statement: `paper_late_sell` and
`journal_pair` show what happens with `LateArrival` and `SplitPairs` on; of
`OvernightOutage` and `FeedLags` no run does (section 4 says what happens then).

### The paper runner

| Theorem of `PaperTraderProofs` | Property |
|---|---|
| `TypeCorrect` | `TypeOK` |
| `SentIsAlwaysDurable` | `SentIsDurable` |
| `EachIdSentOnce` | `SentOnce` |
| `FinishedIsFinal` | `DoneIsFinal` |
| `OneOpenSellEach` | `OneOpenSell` |
| `LedgerAlwaysTrails` | `LedgerTrailsBroker` |
| `SlotsAreKept` | `WithinSlots` |
| `OneTradePerSymbol` | `OneLiveTradePerSymbol`, when no outage lasts a night |
| `GivenUpStaysWithoutOrder` | `GivenUpHasNoOrder`, when no request arrives late |
| `SellsAreCovered` | `NeverOversold`, when no request arrives late |
| `CustodyIsKept` | `KeepsCustody` (the refinement of `PaperCustody`), when no request arrives late |

None of these is inductive alone. `Inv` adds what the code relies on without
saying: memory and disk agree at every await (`mem = disk` outside `Down`, since
every change is saved before the next await), an intent on the ledger has a symbol
and a quantity and only an attempted one has an order (`GoodLedger`), and the point
the runner waits at concerns an intent in the state that call needs (`GoodPoint`: a
lookup only of an attempted one, a clock before a POST only of one not yet
attempted). The runner's steps are classified once (`RunnerMoves`: the ledger is
unchanged, gains an intent, or one intent changes in one of five ways), and each
property is then shown kept by each kind of move instead of by each action.
`OneOpenSell`, the ledger order and the grace window each add one further
invariant on top of `Inv`.

- *Slots* (`SlotsInv`): a trade that comes to count is one whose entry was pushed,
  and an entry in progress keeps a slot free from the moment the slots were
  counted, since the one task makes no other entry meanwhile.
- *One trade per symbol* (`InTurn`): the trades of a symbol are of different
  sessions, and each is over (`Spent`: it holds nothing, and its buy is done or too
  late to be sent) before the next is pushed. The entry gates see only the ledger,
  so what could break this is a buy of an earlier session that may still fill.
  There is none once the process runs (`Awake`): a session ends with no order open
  and no request under way (`Lost`), a running process has resolved its intents by
  then, and a start looks every such buy up, in the order of the ids, before it
  lets an event in. `Known` makes that one answer enough to settle it: what the
  broker has is terminal, and for what it has not the ledger has no order and the
  grace is over. `Left` keeps a trade that holds nothing at nothing: the
  ledger's remainder always covers what its unfinished sell may still take. None of
  this needs the grace window to be long enough: requests may be late within the
  session.
- *Sells*: what the sells of a trade owe (a fill that is final, or the whole
  quantity of one that may still fill) is covered by what its buy filled
  (`Covered`); the account's holdings are what is left of the fills (`Held`); a
  new sell asks for no more than is held (`Fits`), and the ledger it is computed
  from trails the broker (`Trails`, `GraceInv`: an intent given up after the grace
  has no order to come).
- *Custody*: with these every step of the runner, the broker and time maps to a
  step of `PaperCustody` or to a stutter.
- *Sums*: the sums are folds over sets, whose recursion is given by a `CHOOSE`.
  That the recursive function exists, and that it does not depend on the order in
  which elements are taken, is shown in `FoldTheorems` by a least counterexample
  over finite sets (`EveryFinite`, `SumsExist`, `SumsAgree`), after which
  `TotalTake` and `TotalChange` are all that is needed here; the retention, the halt
  log and the order-flow store also use totals of unions, tables and filtered sets.

### The capture of a session, the opportunities

| Theorem | Property |
|---|---|
| `CapturesProofs!SessionIsTyped` | `TypeOK` of `SessionCapture` |
| `CapturesProofs!CaptureAlwaysAddsUp` | `CaptureAddsUp` |
| `CapturesProofs!HealthNeverHides` | `HealthHidesNothing` |
| `CapturesProofs!CleanMarkersVerifyAlways` | `CleanMarkerVerifies`, when `~ClockSteps` |
| `CapturesProofs!CertifiedIsCompleteAlways` | `CertifiedIsComplete`, when `~ClockSteps` |
| `OpportunityProofs!OutcomesAreTrue`, `CapturesProofs!OpportunitiesAreTrueAlways` | `OpportunitiesAreTrue` |

What is on its way from the producer to the writer thread is spread over the batch
in the thread's hands, the channel and the barriers that wait for room, but it is
one sequence, `Way`. `IInv` says what may be in it: a session closes once
(`ClosedOnce`); a row behind the barrier of its session was counted late
(`LateIsCounted`); reservations are the lines under way (`Reserved`); and a
session's tally accounts for all but what is on its way, until its barrier is
taken, so at the barrier it balances. A step moves rows along `Way`, appends one to
its end or takes one off its front, and the proofs say which.

A clean marker, and a certificate, speak of what the files hold. `SInv` adds to `IInv`
what they rest on, and is an invariant as long as the wall clock does not step back
over a session boundary (`ClockSteps` is `FALSE`, as in the run):

- the rows on their way are in the order of their sessions, behind the rows their
  files have already (`Order`), and a session's barrier is sent after its end unless
  its start was missed (`Timely`);
- the open range of a session in a file counts and hashes the session's rows
  there and no others (`RangesFit`); no row of a session that this process saw from
  before its start lies outside of it (`RangesCover`); and the tally's written rows
  are those of the ranges (`WrittenCounted`);
- of a session that this process saw from before its start, with no row counted
  dropped or in error, every row offered is on its way or in a file (`Accounted`). When
  the thread takes the session's barrier, which is behind its rows, a balanced tally
  says that none is on its way: all are in the ranges the marker names;
- a marker with nothing to report is written after its rows were flushed and synced,
  and that stays so (`AllSettled`): files only grow, a power loss takes only
  what was not synced, and no further row of that session can come.

`SettledVerifies` shows that the certifier accepts what `Settled` describes, and
`CertifiedFollows` that the files of a certified session are complete. The condition is needed: when the
clock may step back, a row can be offered for a session whose marker is already
written, and TLC finds both properties violated in a few steps.

For the opportunities `IInv` adds to the promised parts what they rest on: every
id issued is of a day before the one the symbol remembers, or is remembered
(`Remembered`); an anchor that waits is not yet due, and one that is still open is of
the opportunity its symbol has open, which was ranked (`Waiting`); ids of anchors
are the numbers up to the next, each once (`Numbered`); and a close is reported
once, of nothing that is still open (`Told`).

### Retention

| Theorem of `RetentionProofs` | Property |
|---|---|
| `RetentionTypes` | `TypeOK` |
| `ProtectedCopied` | `ProtectedHasCopy` |
| `NothingExtraAlways` | `NothingExtra` |
| `PressureNeverSilentAlways` | `PressureNeverSilent` |

`IInv` adds three facts to the types: a receipt, on disk or as the sweep read it,
lists no more than a copy holds (`ReceiptsAreCopies`); a file the sweep has not
worked on yet still has at least what it saw (`AheadStands`), since files only grow
until the sweep itself removes them; so a file that passes `verify_file` has
everything the sweep saw of it in a copy, and the loop reaches removal only when
all of them have (`HandledIsCopied`). The steps of everybody else preserve all
three at once (`WorldMoves`): files and copies only grow.

The last two rest on the account a sweep keeps (`Balanced`): its bytes and what it
has removed of the session in hand are at most what the sessions it has read hold,
with that removal undone, and fall short of it by no more than what was written to
sessions already read (`late`). Reading a session adds its bytes to both sides, a
removal moves a file's length from one term to the other, one that fails moves
nothing, and a record is new on the disk and, if its session was read, late.

### The journal trader

| Theorem of `JournalTraderProofs` | Property |
|---|---|
| `TypeCorrect` | `TypeOK` of `JournalTrader` |
| `MemoryIsJournal` | `MemoryFollowsJournal` |
| `EnteredOnceADay` | `OneEntryPerDay` |
| `SlotsKept` | `WithinSlots` of `JournalTrader` |
| `VerdictsAreKept` | `NoVerdictLost`, when no fault falls between the two rows of one bar |

`MemoryFollowsJournal` speaks of the moments when no row waits, which is not
inductive. `IInv` says what the waiting rows mean: replayed over the journal they
give the engine's book (`MemoryIsAppended`, up to a last managed bar that changed
nothing and so wrote no row), and each is a row the journal may take, since the
gates were passed in a book that is the journal's (`RowsTaken`). Appending a row
moves it from one side of the equation to the other; a fault drops the book and
the rows together; a connection makes the equation true by replay.

`NoVerdictLost` rests on `VInv`. A position is right when its high is the highest
close since its entry and no bar that it counts as managed calls for its exit. A
held position has yet to see exactly the bars in the server's backlog for it or
behind them on the wire (`Coming`, `Follows`), and the wire is in order of time
(`InOrder`), so every event the engine takes is timely and `managed` never jumps
over a bar. The rows that wait are right of the journal (`RowsRight`), so a replay
of any prefix of them is right, except of a prefix that ends between the row that
raises the high and the row that closes on the same bar. With such a fault the
property is false (run `journal_pair` and its finding), which is why `SplitPairs`
is off in the theorem.

### The services

`LiveScanProofs` and `ServicesProofs` prove all the invariants that the run
`services` checks. Each part has an inductive invariant of its own, and each theorem is
carried to `Services` by showing that every step of it is a step of the part or
leaves the part alone.

| Theorem of `LiveScanProofs` | Property of `Services` |
|---|---|
| `CoverageMatchesAlways` | `CoverageMatches` |
| `CoverageKeepsHistoryAlways` | `CoverageKeepsHistory` |
| `HubFollowsAlways` | `HubFollows` |
| `FeedIsWatchedAlways` | `FeedIsWatched` |
| `BarsAreTrueAlways` | `BarsAreTrue` |
| `IgnitionIsEarnedAlways` | `IgnitionIsEarned` |

| Theorem of `ServicesProofs` | Property of `Services` |
|---|---|
| `StreamTellsEveryGapAlways` | `StreamTellsEveryGap` |
| `StreamMendsAlways` | `StreamMends` |
| `HaltsAreDisclosedAlways` | `HaltsAreDisclosed` |
| `StoreLosesNothingAlways` | `StoreLosesNothing`, when the history does not lag the feed |

- *Stream*: every receiver is placed (`StreamPlaced`) and the frames behind it are
  accounted for (`StreamTold`). `EventsInv` ties frames to the scan's events: `event` is
  increasing, and up to the collector's place each event is in it or lost, never both.
  An event a connection has passed therefore lies between the events of two of its frames
  or is the event of one, and in the first case it was lost. For `StreamMends`, the snapshot holds the newest state of
  each key that is kept and the last alerts, whatever chatter was dropped for room,
  and a screen whose receiver is past a kept state shows it.
- *Scan*: no strengthening, but symbol by symbol: channels and monitors before and
  after a step are functions of the sources the symbol is in.
- *Hub*: a request is a fold over the list of symbols it names. The fold is opened as
  a chain of takes, each of which keeps the counts equal to the number of holders; the
  scan's copy is never newer than the version, and is the charted set when it is as new.
- *Halts*: what was logged, and what was dropped for either limit, too late or with a
  day that has gone, add up to what was received; the sums over counters and over
  symbols change by one together.
- *Store*: while a fetch is in flight the prints that arrived since it began are in
  the buffer, each once and in order of time, and what the answer and the buffer share
  is what the splice drops; so at the commit the replayed engine and the rest of the
  buffer have no print in common and miss none. Attempts begun are at most those in
  flight, spliced and given up, and the day's budget covers them. With `FeedLags` the
  answer may hold a print that is still to come and that the splice cannot recognise,
  so the theorem has `~FeedLags`.
- *Feed* (`FeedInv`): the deadline was armed by data, or re-armed over a night, and
  time never passes the arming plus the timeout of the session it was armed in.
  The assumption is that sessions are in order, that the short timeout is no longer
  than the long one and that a retry takes time.
- *Bars* (`BarsInv`): the open bar of each series is the fold of its bucket's prints that
  came in time since the series began, and a bucket with a final frame of the series got
  exactly one, was given a print, and is behind the bar or is the bar, closed
  (`SeriesKept`); every frame shown tells what the tape of the series that sent it says
  (`Told`), which a longer tape does not change (`StillTold`); and an official bar stands
  at the client, or the close of a chart that has none subscribed (`Stand`). Rollover and
  flush send only such final frames (`Allowed`), since a series that has an official
  bar coming sends none. Each series is carried through a step alone, since a print, a
  flush, a removal and an official bar act on one without reading the other.
- *Ignition* (`IgnitionInv`): the cooldown holds because of a fact about the
  candidate that is pending (`Apart`): the newest print is already a cooldown away
  from the last alert of the tape when such a candidate exists, although the alert
  comes later.

### What is only model-checked

- All liveness (`AttemptResolves`, `ExitCompletes`, `BarrierDelivered`,
  `PressureRelieved`, `PositionResolves`, `BarsClose`): the prover has no `ENABLED`.
- `ObservationIsTrue`: its certifier is a fold over the lines of a run's files.

## 6. Not modelled

`PROJECT.json` gives the reason for each component. Numeric rules (strategies,
ignition detection, halt bands, order-flow classification) and statistics
(`backtest-metrics`, `offline_eval.rs`) are sequential functions of floating-point
windows: what could be stated of them in TLA+ would be the code again. REST tables,
calendars, HTTP routing, the user interface and the deployment scripts keep no state
whose order matters. The observation campaign is an offline program over certified
runs.

Of the modelled components, each section of 2 says what it leaves out. Of the proofs,
the last list of section 5 is what is left.
