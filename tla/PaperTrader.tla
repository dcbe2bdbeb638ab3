---------------------------- MODULE PaperTrader ----------------------------
(***************************************************************************)
(* The Alpaca paper runner of src/crates/auto-trader: one asynchronous      *)
(* task (paper_runtime.rs) that turns scanner events and a 5 s tick into    *)
(* broker orders, and the ledger (paper.rs) it saves before every broker    *)
(* mutation.  The broker, the network, the clock and crashes are the        *)
(* environment.                                                             *)
(*                                                                          *)
(* Every `await` on the broker is a step boundary: `at` names the answer    *)
(* the runner waits for, and one action is that answer together with all    *)
(* the code up to the next await.                                           *)
(***************************************************************************)
EXTENDS Integers, FiniteSets, FiniteSetsExt

CONSTANTS
    Symbols,           \* the symbols scanner events name
    MaxConcurrent,     \* Config::max_concurrent_positions
    MaxTrades,         \* bound: trades pushed to State::trades
    MaxSells,          \* bound: sell intents of one trade
    MaxQty,            \* bound: shares of one entry
    MaxDays,           \* bound: trading sessions
    MaxFaults,         \* bound: crashes, failed calls, lost requests and answers
    LateArrival,       \* may a POST reach the broker after the grace window?
    OvernightOutage,   \* may lookups fail, and such a POST be late, into the next session?
    None

ASSUME BoundsAssumption ==
    /\ MaxConcurrent \in Nat \ {0}
    /\ MaxTrades \in Nat \ {0}
    /\ MaxSells \in Nat \ {0}
    /\ MaxQty \in Nat \ {0}
    /\ MaxDays \in Nat \ {0}
    /\ MaxFaults \in Nat
ASSUME ScenarioAssumption == LateArrival \in BOOLEAN /\ OvernightOutage \in BOOLEAN
ASSUME NoneAssumption == None \notin Symbols

Trades == 1..MaxTrades
Sells  == 1..MaxSells
Ids    == Trades \X (0..MaxSells)     \* client order ids: <<t, 0>> is the buy
Buy(t) == <<t, 0>>                    \* of trade t, <<t, k>> its k-th sell

VARIABLES
    mem,         \* the runner's State
    disk,        \* the snapshot at the ledger path
    at,          \* the broker answer the runner waits for, and for whom
    want,        \* the symbol of the entry being processed
    seen,        \* exit_trade's copy of the broker position
    wire,        \* POST requests between the runner and the broker
    orders,      \* the broker's orders, by client order id
    pos,         \* the broker's positions
    open,        \* is the market open?
    day,         \* the calendar day
    stale,       \* trades whose signal left the 2 s entry window
    graceOver,   \* attempts older than NO_BROKER_ORDER_GRACE_SECS
    faults

ledger == <<mem, disk>>
runner == <<at, want, seen>>
broker == <<wire, orders, pos>>
world  == <<open, day, stale, graceOver>>
vars   == <<mem, disk, at, want, seen, wire, orders, pos,
            open, day, stale, graceOver, faults>>

-----------------------------------------------------------------------------
(* Orders and intents.                                                     *)

Status  == {"none", "open", "filled", "canceled", "rejected"}
NoOrder == [symbol |-> None, qty |-> 0, filled |-> 0, status |-> "none"]
OrderSet == [symbol: Symbols \cup {None}, qty: Nat, filled: Nat, status: Status]

AcceptedIsTerminal(o) == o.status # "none"                       \* mutant
Terminal(o) == o.status \in {"filled", "canceled", "rejected"}

NoIntent == [qty |-> 0, attempted |-> FALSE, canceled |-> FALSE,
             abandoned |-> FALSE, order |-> NoOrder]
NewIntentMayBeEmpty(q) == [NoIntent EXCEPT !.qty = q - 1]        \* mutant
NewIntent(q) == [NoIntent EXCEPT !.qty = q]
IntentSet == [qty: Nat, attempted: BOOLEAN, canceled: BOOLEAN,
              abandoned: BOOLEAN, order: OrderSet]

Exists(i) == i.qty > 0
Done(i)   == i.canceled \/ i.abandoned \/ Terminal(i.order)

(* Intent::update refuses an answer that is not this intent's order.       *)
CanUpdate(i, symbol, o) ==
    /\ o.symbol = symbol
    /\ o.qty = i.qty
    /\ i.order.filled <= o.filled /\ o.filled <= i.qty

-----------------------------------------------------------------------------
(* The ledger: State::trades, with buy and sells indexed by client id.     *)

EmptyLedger == [intent  |-> [id \in Ids |-> NoIntent],
                symbol  |-> [t \in Trades |-> None],
                day     |-> [t \in Trades |-> 0],
                exiting |-> {}]
LedgerSet == [intent: [Ids -> IntentSet], symbol: [Trades -> Symbols \cup {None}],
              day: [Trades -> 0..MaxDays], exiting: SUBSET Trades]

Pushed(l, t)   == Exists(l.intent[Buy(t)])
Filled(l, id)  == l.intent[id].order.filled
Sold(l, t)     == MapThenSumSet(LAMBDA k : Filled(l, <<t, k>>), Sells)
Remaining(l, t) == Filled(l, Buy(t)) - Sold(l, t)
Short(l, t)    == Remaining(l, t) < 0     \* Trade::remaining is an error

OpenSells(l, t) ==
    {k \in Sells : Exists(l.intent[<<t, k>>]) /\ ~Done(l.intent[<<t, k>>])}
Active(l, t) ==
    /\ Pushed(l, t)
    /\ ~Done(l.intent[Buy(t)]) \/ Remaining(l, t) > 0 \/ OpenSells(l, t) # {}
ActiveTrades(l) == {t \in Trades : Active(l, t)}

FreeTrades(l)   == {t \in Trades : ~Pushed(l, t)}
FreeSells(l, t) == {k \in Sells : ~Exists(l.intent[<<t, k>>])}
LastRejected(l, t) ==
    LET used == Sells \ FreeSells(l, t)
    IN  used # {} /\ l.intent[<<t, Max(used)>>].order.status = "rejected"

(* expected_positions and verify_positions: the broker holds exactly what  *)
(* the ledger accounts for.                                                *)
Expected(l, s) ==
    MapThenSumSet(LAMBDA t : Remaining(l, t), {t \in Trades : l.symbol[t] = s})
PositionsMatch(l) ==
    /\ \A t \in Trades : ~Short(l, t)
    /\ \A s \in Symbols : pos[s] = Expected(l, s)

(* What the strategy engine, seeded from State::history, takes for an open *)
(* position: an Entered without its Exited.                                *)
EngineHolds(l, s) ==
    \E t \in Trades : /\ l.symbol[t] = s
                      /\ Filled(l, Buy(t)) > 0
                      /\ ~(Remaining(l, t) = 0 /\ Done(l.intent[Buy(t)]))

(* Store::save: memory and the renamed snapshot agree when it returns.  A  *)
(* save that fails ends the process (PersistenceError), which is Crash     *)
(* before or after the step that saves.                                    *)
Save(l) == mem' = l /\ disk' = l

-----------------------------------------------------------------------------
(* Control.  A point is the answer awaited (pc), the caller (task) and the *)
(* intent concerned; the operators below say where the code goes next.     *)

Point(pc, task, id) == [pc |-> pc, task |-> task, id |-> id]
Idle == Point("idle", "none", Buy(1))
Down == Point("down", "none", Buy(1))
Pcs  == {"down", "idle", "lookup", "clock", "posted", "verify",
         "entryPositions", "entryOrders", "entryClock",
         "tickClock", "manage", "bars", "exitClock", "positions", "exitOrders"}
Tasks == {"none", "start", "entry", "enter", "tick", "manage", "timer", "bar", "event"}

Go(p) == /\ at' = p
         /\ want' = IF p.task = "entry" THEN want ELSE None
         /\ seen' = 0

Before(a, b) == a[1] < b[1] \/ (a[1] = b[1] /\ a[2] < b[2])
First(S) == CHOOSE a \in S : \A b \in S \ {a} : Before(a, b)

(* reconcile: every intent after `from`, with can_submit = false.          *)
Pending(l) == {id \in Ids : l.intent[id].attempted /\ ~Done(l.intent[id])}
Reconcile(l, task, from) ==
    LET todo == {id \in Pending(l) : Before(from, id)}
        after == CASE task = "start" -> "verify"
                   [] task = "entry" -> "entryPositions"
                   [] OTHER          -> "tickClock"
    IN  IF todo = {} THEN Point(after, task, Buy(1))
                     ELSE Point("lookup", task, First(todo))

(* sync_intent with can_submit = true, on an intent that is not done.      *)
BlindRetry(l, task, id) ==                                       \* mutant
    IF l.intent[id].order # NoOrder THEN Point("lookup", task, id)
                                    ELSE Point("clock", task, id)
SyncPoint(l, task, id) ==
    IF l.intent[id].attempted THEN Point("lookup", task, id)
                              ELSE Point("clock", task, id)

(* The tick's loop over active trades.  A trade whose buy is done and      *)
(* fully sold is passed over without an await; one that would be short     *)
(* ends run with an error.                                                 *)
NeedsWork(l, t) ==
    Active(l, t) /\ ~(Done(l.intent[Buy(t)]) /\ Remaining(l, t) = 0)
NextTrade(l, t) ==
    LET rest == {u \in Trades : u > t /\ (NeedsWork(l, u) \/ Short(l, u))}
        u == Min(rest)
    IN  IF rest = {} THEN Idle
        ELSE IF Short(l, u) THEN Down
        ELSE IF Done(l.intent[Buy(u)]) THEN Point("manage", "manage", Buy(u))
        ELSE SyncPoint(l, "manage", Buy(u))

(* Where a call made for `task` about `id` returns to, Ok ...              *)
Resume(l, task, id) ==
    CASE task \in {"start", "entry", "tick"} -> Reconcile(l, task, id)
      [] task = "manage" -> IF Remaining(l, id[1]) = 0 THEN NextTrade(l, id[1])
                            ELSE Point("manage", "manage", Buy(id[1]))
      [] task = "timer"  -> NextTrade(l, id[1])
      [] task = "bar"    -> Point("bars", "bar", Buy(id[1]))
      [] OTHER           -> Idle

(* ... and Err.                                                            *)
Fail(l, task, id) ==
    CASE task = "start"                -> Down
      [] task \in {"manage", "timer"} -> NextTrade(l, id[1])
      [] task = "bar"                  -> Point("bars", "bar", Buy(id[1]))
      [] OTHER                         -> Idle

(* exit_trade up to its first await.                                       *)
NothingHeld(l, t) == Remaining(l, t) = 0                         \* mutant
NothingToExit(l, t) == ~Done(l.intent[Buy(t)]) \/ Remaining(l, t) = 0
ExitIgnoresOpenSell(l, task, t) ==                               \* mutant
    IF NothingToExit(l, t)        THEN Resume(l, task, Buy(t))
    ELSE IF LastRejected(l, t)    THEN Fail(l, task, Buy(t))
    ELSE Point("positions", task, Buy(t))
ExitPoint(l, task, t) ==
    IF NothingToExit(l, t)        THEN Resume(l, task, Buy(t))
    ELSE IF OpenSells(l, t) # {}  THEN SyncPoint(l, task, <<t, Min(OpenSells(l, t))>>)
    ELSE IF LastRejected(l, t)    THEN Fail(l, task, Buy(t))
    ELSE Point("positions", task, Buy(t))

-----------------------------------------------------------------------------
Init ==
    /\ mem = EmptyLedger /\ disk = EmptyLedger
    /\ at = Down /\ want = None /\ seen = 0
    /\ wire = {}
    /\ orders = [id \in Ids |-> NoOrder]
    /\ pos = [s \in Symbols |-> 0]
    /\ open = TRUE /\ day = 1
    /\ stale = {} /\ graceOver = {}
    /\ faults = 0

Fault == faults < MaxFaults /\ faults' = faults + 1
Env == UNCHANGED <<broker, world>>
I == mem.intent[at.id]

(***************************************************************************)
(* run, before its loop.                                                    *)
(***************************************************************************)

(* Store::open reads the last snapshot, then reconcile begins.             *)
Start ==
    /\ at.pc = "down"
    /\ mem' = disk
    /\ Go(Reconcile(disk, "start", <<0, 0>>))
    /\ UNCHANGED <<disk, broker, world, faults>>

Verify ==
    /\ at.pc = "verify"
    /\ Go(IF PositionsMatch(mem) THEN Idle ELSE Down)
    /\ UNCHANGED <<ledger, broker, world, faults>>

(***************************************************************************)
(* sync_intent.                                                             *)
(***************************************************************************)

(* update and save when the answer is new; an answer update refuses is an  *)
(* error to the caller.                                                    *)
Receive(o) ==
    LET l == [mem EXCEPT !.intent[at.id].order = o]
    IN  IF o = I.order THEN Go(Resume(mem, at.task, at.id)) /\ UNCHANGED ledger
        ELSE IF CanUpdate(I, mem.symbol[at.id[1]], o)
        THEN Go(Resume(l, at.task, at.id)) /\ Save(l)
        ELSE Go(Fail(mem, at.task, at.id)) /\ UNCHANGED ledger

LookupFound ==
    /\ at.pc = "lookup"
    /\ orders[at.id] # NoOrder
    /\ Receive(orders[at.id])
    /\ Env /\ UNCHANGED faults

(* 404: abandon_if_no_broker_order, or wait for the grace window.          *)
AbandonAtOnce == I.order = NoOrder                               \* mutant
NeverAbandon  == FALSE                                           \* mutant
MayAbandon    == I.order = NoOrder /\ at.id \in graceOver
LookupMissing ==
    LET l == [mem EXCEPT !.intent[at.id].abandoned = TRUE]
    IN  /\ at.pc = "lookup"
        /\ orders[at.id] = NoOrder
        /\ IF MayAbandon
           THEN Save(l) /\ Go(Resume(l, at.task, at.id))
           ELSE UNCHANGED ledger /\ Go(Resume(mem, at.task, at.id))
        /\ Env /\ UNCHANGED faults

SubmitMarketClosed ==
    /\ at.pc = "clock" /\ ~open
    /\ Go(Resume(mem, at.task, at.id))
    /\ Env /\ UNCHANGED <<ledger, faults>>

(* A buy outside entry_window: late, or within a minute of the close.      *)
CancelLocally ==
    LET l == [mem EXCEPT !.intent[at.id].canceled = TRUE]
    IN  /\ at.pc = "clock" /\ open
        /\ at.id[2] = 0
        /\ Save(l) /\ Go(Resume(l, at.task, at.id))
        /\ Env /\ UNCHANGED faults

(* The attempt is saved, then POST /v2/orders leaves.                      *)
SaveAttemptLater ==                                              \* mutant
    mem' = [mem EXCEPT !.intent[at.id].attempted = TRUE] /\ UNCHANGED disk
SaveAttempt == Save([mem EXCEPT !.intent[at.id].attempted = TRUE])
Attempt ==
    /\ at.pc = "clock" /\ open
    /\ at.id[2] = 0 => at.id[1] \notin stale
    /\ SaveAttempt
    /\ wire' = wire \cup {[id |-> at.id, symbol |-> mem.symbol[at.id[1]], qty |-> I.qty]}
    /\ Go(Point("posted", at.task, at.id))
    /\ UNCHANGED <<orders, pos, world, faults>>

PostAnswered ==
    /\ at.pc = "posted"
    /\ orders[at.id] # NoOrder
    /\ Receive(orders[at.id])
    /\ Env /\ UNCHANGED faults

OnWire(id) == \E r \in wire : r.id = id

(* Refused, timed out, or the answer was lost: only a warning.             *)
PostFails ==
    /\ at.pc = "posted"
    /\ IF orders[at.id] # NoOrder \/ OnWire(at.id) THEN Fault ELSE UNCHANGED faults
    /\ Go(Resume(mem, at.task, at.id))
    /\ Env /\ UNCHANGED ledger

(* Any other broker call fails.                                            *)
CallFails ==
    /\ at.pc \notin {"down", "idle", "posted", "manage", "bars"}
    /\ Fault
    /\ Go(Fail(mem, at.task, at.id))
    /\ Env /\ UNCHANGED ledger

(***************************************************************************)
(* process_event: entries.                                                  *)
(***************************************************************************)

(* The engine's gates and the checks made before the first await.          *)
GatesCountHoldings(s) ==                                         \* mutant
    /\ ~EngineHolds(mem, s)
    /\ Cardinality({t \in Trades : Remaining(mem, t) > 0}) < MaxConcurrent
    /\ \A t \in Trades : ~(mem.symbol[t] = s /\ mem.day[t] = day)
GatesForgetYesterday(s) ==                                       \* mutant
    /\ Cardinality({t \in ActiveTrades(mem) : mem.day[t] = day}) < MaxConcurrent
    /\ \A t \in Trades : ~(mem.symbol[t] = s /\ mem.day[t] = day)
EntryGates(s) ==
    /\ ~EngineHolds(mem, s)
    /\ Cardinality(ActiveTrades(mem)) < MaxConcurrent
    /\ \A t \in Trades : ~(mem.symbol[t] = s /\ mem.day[t] = day)

EventEnter(s) ==
    /\ at = Idle
    /\ FreeTrades(mem) # {}
    /\ \A t \in Trades : ~Short(mem, t)
    /\ EntryGates(s)
    /\ at' = Reconcile(mem, "entry", <<0, 0>>)
    /\ want' = s /\ seen' = 0
    /\ UNCHANGED <<ledger, broker, world, faults>>

EntryPositions ==
    /\ at.pc = "entryPositions"
    /\ Go(IF PositionsMatch(mem) THEN Point("entryOrders", "entry", Buy(1)) ELSE Idle)
    /\ UNCHANGED <<ledger, broker, world, faults>>

EntryOrders ==
    /\ at.pc = "entryOrders"
    /\ Go(IF \A id \in Ids : orders[id].status = "open" => Exists(mem.intent[id])
          THEN Point("entryClock", "entry", Buy(1)) ELSE Idle)
    /\ UNCHANGED <<ledger, broker, world, faults>>

(* The quote, the budget or the entry window rules the entry out.          *)
EntrySkipped ==
    /\ at.pc = "entryClock"
    /\ Go(Idle)
    /\ UNCHANGED <<ledger, broker, world, faults>>

EntryPushed(n, q) ==
    LET l == [mem EXCEPT !.intent[Buy(n)] = NewIntent(q),
                         !.symbol[n] = want,
                         !.day[n] = day]
    IN  /\ at.pc = "entryClock" /\ open
        /\ \A m \in FreeTrades(mem) : n <= m
        /\ Save(l)
        /\ Go(SyncPoint(l, "enter", Buy(n)))
        /\ Env /\ UNCHANGED faults

(***************************************************************************)
(* process_event: exits decided by the strategy engine, and the tick.       *)
(***************************************************************************)

(* Exited for a symbol: the newest trade that still holds shares of it.    *)
Decide(s, task) ==
    LET held == {t \in Trades : mem.symbol[t] = s /\ Remaining(mem, t) > 0}
    IN  /\ \A t \in Trades : ~Short(mem, t)
        /\ held # {}
        /\ Save([mem EXCEPT !.exiting = @ \cup {Max(held)}])
        /\ Go(Point("exitClock", task, Buy(Max(held))))
        /\ Env /\ UNCHANGED faults

EventExit(s) == at = Idle /\ Decide(s, "event")

ExitClock ==
    /\ at.pc = "exitClock"
    /\ Go(IF open THEN ExitPoint(mem, at.task, at.id[1])
                  ELSE Resume(mem, at.task, at.id))
    /\ UNCHANGED <<ledger, broker, world, faults>>

Tick ==
    /\ at = Idle
    /\ Go(Reconcile(mem, "tick", <<0, 0>>))
    /\ UNCHANGED <<ledger, broker, world, faults>>

TickClock ==
    /\ at.pc = "tickClock"
    /\ Go(IF open THEN NextTrade(mem, 0) ELSE Idle)
    /\ UNCHANGED <<ledger, broker, world, faults>>

(* must_exit (close or holding time), or an exit already decided.          *)
TimerExit ==
    /\ at.pc = "manage"
    /\ Go(ExitPoint(mem, "timer", at.id[1]))
    /\ UNCHANGED <<ledger, broker, world, faults>>

AnyTrade == TRUE                                                 \* mutant
NoExitDecided == at.id[1] \notin mem.exiting
FetchBars ==
    /\ at.pc = "manage"
    /\ NoExitDecided
    /\ Go(Point("bars", "bar", at.id))
    /\ UNCHANGED <<ledger, broker, world, faults>>

(* A fetched bar proposes an exit of its symbol's newest held trade, which *)
(* may not be the loop's own; there may be more bars behind it.            *)
BarExit == at.pc = "bars" /\ Decide(mem.symbol[at.id[1]], "bar")

BarsDone ==
    /\ at.pc = "bars"
    /\ Go(NextTrade(mem, at.id[1]))
    /\ UNCHANGED <<ledger, broker, world, faults>>

(***************************************************************************)
(* exit_trade, from its first await.                                        *)
(***************************************************************************)
ExitPositions ==
    /\ at.pc = "positions"
    /\ at' = Point("exitOrders", at.task, at.id)
    /\ want' = None
    /\ seen' = pos[mem.symbol[at.id[1]]]
    /\ UNCHANGED <<ledger, broker, world, faults>>

ExitAllowed(t) ==
    /\ \A id \in Ids : orders[id].status = "open" => orders[id].symbol # mem.symbol[t]
    /\ seen > 0 /\ seen = Remaining(mem, t)

ExitRefused ==
    /\ at.pc = "exitOrders"
    /\ ~ExitAllowed(at.id[1])
    /\ Go(Fail(mem, at.task, at.id))
    /\ UNCHANGED <<ledger, broker, world, faults>>

(* The next free sell number makes the client id `{buy}-s{n}`.             *)
PushSell(k) ==
    LET t  == at.id[1]
        id == <<t, k>>
        l  == [mem EXCEPT !.intent[id] = NewIntent(Remaining(mem, t)),
                          !.exiting = @ \cup {t}]
    IN  /\ at.pc = "exitOrders"
        /\ ExitAllowed(t)
        /\ k \in FreeSells(mem, t) /\ \A j \in FreeSells(mem, t) : k <= j
        /\ Save(l)
        /\ Go(SyncPoint(l, at.task, id))
        /\ Env /\ UNCHANGED faults

(***************************************************************************)
(* The environment: the broker behind paper::Broker, time and crashes.      *)
(***************************************************************************)

(* Bound: a trade's last sell slot always fills, so that a trade never     *)
(* needs more than MaxSells sells.                                         *)
Spare(id) == id[2] < MaxSells

Accept(r) ==
    /\ r \in wire
    /\ wire' = wire \ {r}
    /\ orders' = [orders EXCEPT ![r.id] = [symbol |-> r.symbol, qty |-> r.qty,
                                           filled |-> 0, status |-> "open"]]
    /\ UNCHANGED <<ledger, runner, pos, world, faults>>

(* The request is lost, or refused without creating an order (HTTP 422).   *)
Drop(r) ==
    /\ r \in wire /\ Spare(r.id)
    /\ Fault
    /\ wire' = wire \ {r}
    /\ UNCHANGED <<ledger, runner, orders, pos, world>>

Fill(id) ==
    LET o == orders[id]
        n == o.filled + 1
    IN  /\ o.status = "open" /\ open
        /\ orders' = [orders EXCEPT
               ![id] = [o EXCEPT !.filled = n,
                                 !.status = IF n = o.qty THEN "filled" ELSE "open"]]
        /\ pos' = [pos EXCEPT ![o.symbol] = IF id[2] = 0 THEN @ + 1 ELSE @ - 1]
        /\ UNCHANGED <<ledger, runner, wire, world, faults>>

(* IOC remainder, DAY expiry, cancellation; or rejection after acceptance. *)
Finish(id, status) ==
    /\ orders[id].status = "open" /\ Spare(id)
    /\ status = "rejected" => orders[id].filled = 0
    /\ orders' = [orders EXCEPT ![id].status = status]
    /\ UNCHANGED <<ledger, runner, wire, pos, world, faults>>

SignalExpires(t) ==
    /\ Pushed(disk, t) /\ t \notin stale
    /\ ~disk.intent[Buy(t)].attempted /\ ~disk.intent[Buy(t)].canceled
    /\ stale' = stale \cup {t}
    /\ UNCHANGED <<ledger, runner, broker, open, day, graceOver, faults>>

GraceElapses(id) ==
    /\ disk.intent[id].attempted /\ id \notin graceOver
    /\ ~Done(disk.intent[id]) /\ disk.intent[id].order = NoOrder
    /\ OnWire(id) => LateArrival /\ Spare(id)
    /\ graceOver' = graceOver \cup {id}
    /\ UNCHANGED <<ledger, runner, broker, open, day, stale, faults>>

(* Bounds: the last session never closes, and a session does not close on  *)
(* a trade's last sell.                                                    *)
CloseMarket ==
    /\ open /\ day < MaxDays
    /\ \A id \in Ids : Spare(id) \/ (~OnWire(id) /\ orders[id].status # "open")
    /\ open' = FALSE
    /\ UNCHANGED <<ledger, runner, broker, day, stale, graceOver, faults>>

(* Overnight every order of the session ends, every window elapses, no     *)
(* call is still waited for (10 s timeout), and unless the outage lasts    *)
(* the night no request is under way any more and a running process        *)
(* resolves its intents (it ticks every 5 s).                              *)
OpenMarket ==
    /\ ~open
    /\ at.pc \in {"down", "idle"}
    /\ \A id \in Ids : orders[id].status # "open"
    /\ (LateArrival /\ OvernightOutage) \/ wire = {}
    /\ OvernightOutage \/ at.pc = "down" \/ Pending(mem) = {}
    /\ open' = TRUE /\ day' = day + 1
    /\ stale' = {t \in Trades : Pushed(disk, t)}
    /\ graceOver' = graceOver \cup Pending(disk)
    /\ UNCHANGED <<ledger, runner, broker, faults>>

(* The process dies, or a save fails and run returns PersistenceError.     *)
Crash ==
    /\ at.pc # "down"
    /\ Fault
    /\ Go(Down)
    /\ UNCHANGED <<ledger, broker, world>>

-----------------------------------------------------------------------------
SyncIntent == LookupFound \/ LookupMissing \/ SubmitMarketClosed \/ CancelLocally
                \/ Attempt \/ PostAnswered \/ PostFails
Enter == (\E s \in Symbols : EventEnter(s)) \/ EntryPositions \/ EntryOrders
            \/ EntrySkipped \/ \E n \in FreeTrades(mem), q \in 1..MaxQty : EntryPushed(n, q)
Manage == Tick \/ TickClock \/ TimerExit \/ FetchBars \/ BarExit \/ BarsDone
Exit == (\E s \in Symbols : EventExit(s)) \/ ExitClock \/ ExitPositions
            \/ ExitRefused \/ \E k \in Sells : PushSell(k)
Runner == Start \/ Verify \/ SyncIntent \/ Enter \/ Manage \/ Exit \/ CallFails \/ Crash

Broker ==
    \/ \E r \in wire : Accept(r) \/ Drop(r)
    \/ \E id \in Ids : Fill(id) \/ \E st \in {"canceled", "rejected"} : Finish(id, st)
Time == \/ \E t \in Trades : SignalExpires(t)
        \/ \E id \in Ids : GraceElapses(id)
        \/ CloseMarket \/ OpenMarket

Next == Runner \/ Broker \/ Time
Spec == Init /\ [][Next]_vars

-----------------------------------------------------------------------------
(* Safety.                                                                 *)

TypeOK ==
    /\ mem \in LedgerSet /\ disk \in LedgerSet
    /\ at \in [pc: Pcs, task: Tasks, id: Ids]
    /\ want \in Symbols \cup {None} /\ seen \in Int
    /\ wire \subseteq [id: Ids, symbol: Symbols, qty: Nat \ {0}]
    /\ orders \in [Ids -> OrderSet]
    /\ pos \in [Symbols -> Int]
    /\ open \in BOOLEAN /\ day \in 1..MaxDays
    /\ stale \subseteq Trades /\ graceOver \subseteq Ids
    /\ faults \in 0..MaxFaults

(* Whatever the broker was ever sent is in the ledger on disk, marked      *)
(* attempted and with the same symbol and size: a crash at any point       *)
(* leaves no order the next process does not look up ("a durable snapshot  *)
(* write before every broker mutation"), and Intent::update's identity     *)
(* and size checks never refuse an answer.                                 *)
Recorded(id, symbol, qty) ==
    /\ disk.intent[id].attempted
    /\ disk.intent[id].qty = qty
    /\ disk.symbol[id[1]] = symbol
SentIsDurable ==
    /\ \A r \in wire : Recorded(r.id, r.symbol, r.qty)
    /\ \A id \in Ids : orders[id] # NoOrder =>
                           Recorded(id, orders[id].symbol, orders[id].qty)

(* The ledger never runs ahead of the broker, and an order it holds as     *)
(* terminal is exactly the broker's.                                       *)
LedgerTrailsBroker ==
    \A id \in Ids : LET o == disk.intent[id].order IN
        /\ o.filled <= orders[id].filled
        /\ Terminal(o) => o = orders[id]

(* An intent ended without an order (canceled locally, or abandoned after  *)
(* the grace window) has none at the broker and none on its way.           *)
GivenUpHasNoOrder ==
    \A id \in Ids : disk.intent[id].canceled \/ disk.intent[id].abandoned =>
        orders[id] = NoOrder /\ ~OnWire(id)

(* Shares that sells already pushed may still take from the position.      *)
Committed(id) ==
    IF Done(disk.intent[id]) /\ ~OnWire(id) /\ orders[id] = NoOrder THEN 0
    ELSE IF Terminal(orders[id]) THEN 0
    ELSE disk.intent[id].qty - orders[id].filled
CommittedSells(s) ==
    MapThenSumSet(Committed, {id \in Ids : id[2] > 0 /\ disk.symbol[id[1]] = s})

(* No oversell: all sells still able to fill are covered by the shares the *)
(* broker holds, so no interleaving of fills makes the account short.      *)
NeverOversold == \A s \in Symbols : CommittedSells(s) <= pos[s]

(* exit_trade leaves at most one sell of a trade unfinished, across        *)
(* retries, partial fills and restarts.                                    *)
OneOpenSell == \A t \in Trades : Cardinality(OpenSells(disk, t)) <= 1

(* "A symbol can only ever have one open position at a time".              *)
OneLiveTradePerSymbol ==
    \A t, u \in Trades :
        t # u /\ disk.symbol[t] = disk.symbol[u] /\ Remaining(disk, t) > 0
            => Remaining(disk, u) = 0

(* Active trades never outgrow max_concurrent_positions, counting a buy    *)
(* whose outcome is unknown and a position that waits to be sold.          *)
WithinSlots == Cardinality(ActiveTrades(disk)) <= MaxConcurrent

(* No client order id is sent twice: a POST leaves only for an intent the  *)
(* ledger on disk had not yet marked attempted.                            *)
SentOnce ==
    [][\A id \in Ids : OnWire(id)' /\ ~OnWire(id) =>
           ~disk.intent[id].attempted /\ orders[id] = NoOrder]_vars

(* A finished intent is final: no later answer, retry or restart changes   *)
(* what the ledger says of it.                                             *)
DoneIsFinal ==
    [][\A id \in Ids : Done(disk.intent[id]) => disk.intent'[id] = disk.intent[id]]_vars

(* exit_trade checks positions and open orders "so even an order that      *)
(* somehow surfaced late makes that check fail closed": no sell is pushed  *)
(* while an abandoned sell of the trade turns out to have a broker order.  *)
LateSellFailsClosed ==
    [][\A t \in Trades, k \in Sells :
           ~Exists(disk.intent[<<t, k>>]) /\ Exists(disk.intent'[<<t, k>>]) =>
               \A j \in Sells : disk.intent[<<t, j>>].abandoned =>
                   orders[<<t, j>>] = NoOrder]_vars

(* The runner implements PaperCustody: the ledger on disk is the phase of  *)
(* every order, the broker's position what is held.  A fill is therefore   *)
(* always of an order the ledger holds as sent and not yet finished.       *)
Phase(i) == IF ~Exists(i) THEN "unused" ELSE IF Done(i) THEN "over"
            ELSE IF i.attempted THEN "sent" ELSE "prepared"
Custody == INSTANCE PaperCustody WITH
    phase  <- [id \in Ids |-> Phase(disk.intent[id])],
    symbol <- disk.symbol,
    held   <- pos
KeepsCustody == Custody!Spec

-----------------------------------------------------------------------------
(* Liveness.  The runner is one task on a runtime that polls it; select!   *)
(* polls its ready branches in random order, so a due tick is not passed   *)
(* over for ever (SF), and a fetch returns finitely many bars (SF).  The   *)
(* broker finishes what it accepted, and time passes.                      *)
Fairness ==
    /\ WF_vars(Start) /\ WF_vars(Verify)
    /\ WF_vars(SyncIntent) /\ WF_vars(TickClock) /\ WF_vars(TimerExit)
    /\ WF_vars(EntryPositions) /\ WF_vars(EntryOrders)
    /\ WF_vars(EntrySkipped)
    /\ WF_vars(ExitClock) /\ WF_vars(ExitPositions) /\ WF_vars(ExitRefused)
    /\ WF_vars(\E k \in Sells : PushSell(k))
    /\ SF_vars(Tick) /\ SF_vars(BarsDone)
    /\ \A id \in Ids :
         /\ WF_vars(\E r \in wire : r.id = id /\ (Accept(r) \/ Drop(r)))
         /\ WF_vars(Fill(id) \/ Finish(id, "canceled"))
         /\ WF_vars(GraceElapses(id))
    /\ SF_vars(OpenMarket)
FairSpec == Spec /\ Fairness

(* Every attempted order is resolved: no intent stays unknown for ever and *)
(* pins its position slot.                                                 *)
AttemptResolves ==
    \A id \in Ids : disk.intent[id].attempted ~> Done(disk.intent[id])

(* A decided exit is carried out, whatever restarts, failed calls, partial *)
(* fills and abandoned sells come between, unless the broker rejects the   *)
(* sell or an order given up surfaces after all: both are left to a human. *)
Surfaced(t) ==
    \E k \in 0..MaxSells : disk.intent[<<t, k>>].abandoned /\ orders[<<t, k>>] # NoOrder
ExitCompletes ==
    \A t \in Trades : t \in disk.exiting ~>
        \/ Done(disk.intent[Buy(t)]) /\ Remaining(disk, t) = 0
        \/ LastRejected(disk, t) \/ Surfaced(t)

=============================================================================
