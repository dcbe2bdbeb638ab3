------------------------- MODULE PaperTraderProofs -------------------------
(***************************************************************************)
(* Theorems about PaperTrader, for every number of symbols, trades, sells,  *)
(* sessions and faults.                                                     *)
(***************************************************************************)
EXTENDS PaperTrader, FoldTheorems, TLAPS

-----------------------------------------------------------------------------
(* Picked ids.                                                             *)

(* First picks an element of the set of ids it is given, before every      *)
(* other.                                                                  *)
LEMMA FirstIn ==
    ASSUME NEW S, S \subseteq Ids, S # {}
    PROVE  First(S) \in S /\ \A b \in S \ {First(S)} : Before(First(S), b)
<1> DEFINE Ts == {a[1] : a \in S}
<1>1. \A a \in S : a = <<a[1], a[2]>> /\ a[1] \in Nat /\ a[2] \in Nat
  BY BoundsAssumption, SMT DEF Ids, Trades
<1>2. Ts \subseteq Nat /\ Ts # {}
  BY <1>1, Zenon
<1>3. PICK m \in Ts : \A t \in Ts : m <= t
  BY <1>2, LeastNat, Zenon
<1> DEFINE Ks == {a[2] : a \in {b \in S : b[1] = m}}
<1>4. Ks \subseteq Nat /\ Ks # {}
  BY <1>1, Zenon
<1>5. PICK k \in Ks : \A j \in Ks : k <= j
  BY <1>4, LeastNat, Zenon
<1>6. PICK a \in S : a[1] = m /\ a[2] = k
  BY Zenon
<1>7. ASSUME NEW b \in S \ {a}  PROVE Before(a, b)
  <2>1. b[1] \in Ts /\ (b[1] = m => b[2] \in Ks)
    BY Zenon
  <2>2. m <= b[1] /\ (b[1] = m => k <= b[2])
    BY <2>1, <1>3, <1>5, Zenon
  <2>3. ~(b[1] = a[1] /\ b[2] = a[2])
    BY <1>1, Zenon
  <2> QED BY <2>2, <2>3, <1>1, <1>6, SMT DEF Before
<1> QED BY <1>7, Zenon DEF First

-----------------------------------------------------------------------------
(* What holds of a ledger and of the point the runner waits at.            *)

(* Only pushed intents carry state; a pushed sell has a pushed buy, and    *)
(* its trade a symbol.                                                     *)
GoodLedger(l) ==
    /\ l \in LedgerSet
    /\ \A id \in Ids : ~Exists(l.intent[id]) => l.intent[id] = NoIntent
    /\ \A id \in Ids : Exists(l.intent[id]) =>
           l.symbol[id[1]] \in Symbols /\ Exists(l.intent[Buy(id[1])])

(* An answer is awaited only for an intent it can still concern: looked up *)
(* once attempted, submitted once, and a new sell is considered only when  *)
(* no sell of the trade is unfinished.                                     *)
GoodPoint(l, p) ==
    /\ p \in [pc: Pcs, task: Tasks, id: Ids]
    /\ p.pc \in {"lookup", "posted"} =>
           l.intent[p.id].attempted /\ ~Done(l.intent[p.id])
    /\ p.pc = "clock" => /\ Exists(l.intent[p.id])
                         /\ ~l.intent[p.id].attempted
                         /\ ~Done(l.intent[p.id])
    /\ p.pc \in {"positions", "exitOrders"} =>
           /\ Exists(l.intent[Buy(p.id[1])])
           /\ Done(l.intent[Buy(p.id[1])])
           /\ OpenSells(l, p.id[1]) = {}
    /\ p.pc \in {"exitClock", "positions", "exitOrders"} => p.task # "entry"
    /\ p.pc \in {"entryPositions", "entryOrders", "entryClock"} => p.task = "entry"

(* The buy of a trade has a client order id.                               *)
LEMMA BuyIsId == \A t \in Trades : Buy(t) \in Ids
BY BoundsAssumption, SMT DEF Buy, Ids, Trades

(* A client order id names a trade and an intent of it.                    *)
LEMMA IdParts == \A id \in Ids : id[1] \in Trades /\ id[2] \in 0..MaxSells
                                     /\ id = <<id[1], id[2]>>
BY SMT DEF Ids

(* Every sell slot of a trade has a client order id.                       *)
LEMMA SellIsId == \A t \in Trades, k \in Sells : <<t, k>> \in Ids
BY BoundsAssumption, SMT DEF Ids, Trades, Sells

(* The runner may wait for nothing, or be down, whatever the ledger.       *)
LEMMA IdleIsGood == \A l : GoodPoint(l, Idle) /\ GoodPoint(l, Down)
<1>1. Buy(1) \in Ids
  BY BuyIsId, BoundsAssumption, SMT DEF Trades
<1> QED BY <1>1, SMT DEF GoodPoint, Idle, Down, Point, Pcs, Tasks

(* An intent not yet pushed was neither sent nor finished.                 *)
LEMMA NoIntentNotDone == ~Done(NoIntent) /\ ~NoIntent.attempted /\ ~Exists(NoIntent)
BY SMT DEF Done, NoIntent, NoOrder, Terminal, Exists

(* The empty intent has the type of an intent.                             *)
LEMMA NoIntentIsTyped == NoIntent \in IntentSet
BY SMT DEF NoIntent, NoOrder, IntentSet, OrderSet, Status

(* A new intent is pushed and not finished.                                *)
LEMMA NewIntentIsLive ==
    ASSUME NEW q \in Nat \ {0}
    PROVE  /\ Exists(NewIntent(q)) /\ ~Done(NewIntent(q))
           /\ NewIntent(q) \in IntentSet
           /\ NewIntent(q).qty = q /\ ~NewIntent(q).attempted
<1>1. NoIntent \in IntentSet
  BY SMT DEF NoIntent, NoOrder, IntentSet, OrderSet, Status
<1>2. /\ NewIntent(q) \in IntentSet /\ NewIntent(q).qty = q
      /\ NewIntent(q).canceled = NoIntent.canceled
      /\ NewIntent(q).abandoned = NoIntent.abandoned
      /\ NewIntent(q).order = NoIntent.order
      /\ NewIntent(q).attempted = NoIntent.attempted
  BY <1>1, Zenon DEF NewIntent, IntentSet
<1> QED BY <1>2, NoIntentNotDone, SMT DEF Exists, Done

(* sync_intent starts on a pushed intent that is not done: it looks an     *)
(* attempted one up and asks the clock for any other.                      *)
LEMMA SyncPointGood ==
    ASSUME NEW l, l \in LedgerSet, NEW task \in Tasks, NEW id \in Ids,
           Exists(l.intent[id]), ~Done(l.intent[id])
    PROVE  /\ GoodPoint(l, SyncPoint(l, task, id))
           /\ SyncPoint(l, task, id).task = task
BY SMT DEF GoodPoint, SyncPoint, Point, Pcs

(* reconcile goes to an attempted, unfinished intent, or to what its       *)
(* caller does next.                                                       *)
LEMMA ReconcileGood ==
    ASSUME NEW l, l \in LedgerSet, NEW task \in Tasks, NEW from
    PROVE  /\ GoodPoint(l, Reconcile(l, task, from))
           /\ Reconcile(l, task, from).task = task
<1> DEFINE todo == {id \in Pending(l) : Before(from, id)}
<1>1. Buy(1) \in Ids
  BY BuyIsId, BoundsAssumption, SMT DEF Trades
<1>2. CASE todo = {}
  BY <1>1, <1>2, SMT DEF Reconcile, GoodPoint, Point, Pcs
<1>3. CASE todo # {}
  <2>1. First(todo) \in todo
    BY <1>3, FirstIn, Zenon DEF Pending
  <2> HIDE DEF todo
  <2>2. Reconcile(l, task, from) = Point("lookup", task, First(todo))
    BY <1>3, Zenon DEF Reconcile, todo
  <2>3. /\ First(todo) \in Ids
        /\ l.intent[First(todo)].attempted
        /\ ~Done(l.intent[First(todo)])
    BY <2>1, Zenon DEF Pending, todo
  <2> QED BY <2>2, <2>3, SMT DEF GoodPoint, Point, Pcs
<1> QED BY <1>2, <1>3

(* The tick's loop goes to a trade that was pushed: to its buy if that is  *)
(* not finished, else to its exit rules.                                   *)
LEMMA NextTradeGood ==
    ASSUME NEW l, l \in LedgerSet, NEW t
    PROVE  /\ GoodPoint(l, NextTrade(l, t))
           /\ NextTrade(l, t).task # "entry"
<1> DEFINE rest == {u \in Trades : u > t /\ (NeedsWork(l, u) \/ Short(l, u))}
           u == Min(rest)
<1>1. CASE rest = {}
  BY <1>1, IdleIsGood, Zenon DEF NextTrade, Idle, Point
<1>2. CASE rest # {}
  <2>1. u \in rest
    BY <1>2, MinIn, SMT DEF Trades
  <2> HIDE DEF rest, u
  <2>2. u \in Trades /\ Buy(u) \in Ids /\ (Short(l, u) \/ NeedsWork(l, u))
    BY <2>1, BuyIsId, Zenon DEF rest
  <2>3. NextTrade(l, t) = IF Short(l, u) THEN Down
                          ELSE IF Done(l.intent[Buy(u)]) THEN Point("manage", "manage", Buy(u))
                          ELSE SyncPoint(l, "manage", Buy(u))
    BY <1>2, Zenon DEF NextTrade, rest, u
  <2>4. CASE Short(l, u)
    BY <2>3, <2>4, IdleIsGood, SMT DEF Down, Point
  <2>5. CASE ~Short(l, u) /\ Done(l.intent[Buy(u)])
    BY <2>2, <2>3, <2>5, SMT DEF GoodPoint, Point, Pcs, Tasks
  <2>6. CASE ~Short(l, u) /\ ~Done(l.intent[Buy(u)])
    <3>1. Exists(l.intent[Buy(u)])
      BY <2>2, <2>6, Zenon DEF NeedsWork, Active, Pushed
    <3>2. "manage" \in Tasks
      BY DEF Tasks
    <3> QED BY <2>2, <2>3, <2>6, <3>1, <3>2, SyncPointGood, SMT
  <2> QED BY <2>4, <2>5, <2>6
<1> QED BY <1>1, <1>2

(* A call that returned leaves the runner at a good point.                 *)
LEMMA ResumeGood ==
    ASSUME NEW l, l \in LedgerSet, NEW task \in Tasks, NEW id \in Ids
    PROVE  /\ GoodPoint(l, Resume(l, task, id))
           /\ Resume(l, task, id).task = "entry" => task = "entry"
<1>1. id[1] \in Trades /\ Buy(id[1]) \in Ids
  BY IdParts, BuyIsId
<1>2. CASE task \in {"start", "entry", "tick"}
  BY <1>2, ReconcileGood, Zenon DEF Resume
<1>3. CASE task \in {"manage", "timer", "bar"}
  <2>1. /\ GoodPoint(l, Point("manage", "manage", Buy(id[1])))
        /\ GoodPoint(l, Point("bars", "bar", Buy(id[1])))
    BY <1>1, SMT DEF GoodPoint, Point, Pcs, Tasks
  <2>2. GoodPoint(l, NextTrade(l, id[1])) /\ NextTrade(l, id[1]).task # "entry"
    BY NextTradeGood
  <2> QED BY <1>3, <2>1, <2>2, SMT DEF Resume, Point
<1>4. CASE task \notin {"start", "entry", "tick", "manage", "timer", "bar"}
  BY <1>4, IdleIsGood, SMT DEF Resume, Idle, Point
<1> QED BY <1>2, <1>3, <1>4

(* So does a call that failed.                                             *)
LEMMA FailGood ==
    ASSUME NEW l, l \in LedgerSet, NEW task \in Tasks, NEW id \in Ids
    PROVE  /\ GoodPoint(l, Fail(l, task, id))
           /\ Fail(l, task, id).task # "entry"
<1>1. id[1] \in Trades /\ Buy(id[1]) \in Ids
  BY IdParts, BuyIsId
<1>2. GoodPoint(l, Point("bars", "bar", Buy(id[1])))
  BY <1>1, SMT DEF GoodPoint, Point, Pcs, Tasks
<1>3. GoodPoint(l, NextTrade(l, id[1])) /\ NextTrade(l, id[1]).task # "entry"
  BY NextTradeGood
<1> QED BY <1>2, <1>3, IdleIsGood, SMT DEF Fail, Point, Idle, Down

(* exit_trade's early returns and its first await are good points, once    *)
(* the trade's buy is finished.                                            *)
LEMMA ExitPointGood ==
    ASSUME NEW l, GoodLedger(l), NEW task \in Tasks, task # "entry", NEW t \in Trades
    PROVE  /\ GoodPoint(l, ExitPoint(l, task, t))
           /\ ExitPoint(l, task, t).task # "entry"
<1>1. Buy(t) \in Ids /\ l \in LedgerSet /\ Buy(t)[1] = t
  BY BuyIsId DEF GoodLedger, Buy
<1>2. CASE NothingToExit(l, t)
  BY <1>1, <1>2, ResumeGood, Zenon DEF ExitPoint
<1>3. CASE ~NothingToExit(l, t) /\ OpenSells(l, t) # {}
  <2>1. OpenSells(l, t) \subseteq Nat
    BY SMT DEF OpenSells, Sells
  <2>5. Min(OpenSells(l, t)) \in OpenSells(l, t)
    BY <1>3, <2>1, MinIn, Zenon
  <2> DEFINE id == <<t, Min(OpenSells(l, t))>>
  <2>2. id \in Ids /\ Exists(l.intent[id]) /\ ~Done(l.intent[id])
    BY <2>5, SellIsId, Zenon DEF OpenSells
  <2>3. ExitPoint(l, task, t) = SyncPoint(l, task, id)
    BY <1>3, Zenon DEF ExitPoint
  <2> HIDE DEF id
  <2>4. GoodPoint(l, SyncPoint(l, task, id)) /\ SyncPoint(l, task, id).task = task
    BY <1>1, <2>2, SyncPointGood, Zenon
  <2> QED BY <2>3, <2>4, Zenon
<1>4. CASE ~NothingToExit(l, t) /\ OpenSells(l, t) = {} /\ LastRejected(l, t)
  BY <1>1, <1>4, FailGood, Zenon DEF ExitPoint
<1>5. CASE ~NothingToExit(l, t) /\ OpenSells(l, t) = {} /\ ~LastRejected(l, t)
  <2>1. Done(l.intent[Buy(t)])
    BY <1>5, Zenon DEF NothingToExit
  <2>2. Exists(l.intent[Buy(t)])
    BY <1>1, <2>1, NoIntentNotDone, Zenon DEF GoodLedger
  <2>3. ExitPoint(l, task, t) = Point("positions", task, Buy(t))
    BY <1>5, Zenon DEF ExitPoint
  <2> QED BY <1>1, <1>5, <2>1, <2>2, <2>3, SMT DEF GoodPoint, Point, Pcs
<1> QED BY <1>2, <1>3, <1>4, <1>5

(* What a trade sold is the total of its sells' fills.                     *)
LEMMA SoldIs ==
    ASSUME NEW l, NEW t
    PROVE  Sold(l, t) = Total([k \in Sells |-> Filled(l, <<t, k>>)], Sells)
<1> DEFINE f == [k \in Sells |-> Filled(l, <<t, k>>)]
           Step(g, s) == IF s = {} THEN 0
                         ELSE LET x == CHOOSE x \in s : TRUE
                              IN  Filled(l, <<t, x>>) + g[s \ {x}]
           Solves(g) == g = [s \in SUBSET Sells |-> Step(g, s)]
           h == CHOOSE g : Solves(g)
<1>1. Sold(l, t) = h[Sells] BY DEF Sold, MapThenSumSet, MapThenFoldSet
<1>2. \A g : Solves(g) <=> SumsOver(g, f, Sells)
  <2>1. ASSUME NEW g, NEW s \in SUBSET Sells PROVE Adds(g, f, s) = Step(g, s)
    <3>1. Step(g, s) = IF s = {} THEN 0 ELSE Filled(l, <<t, Pick(s)>>) + g[s \ {Pick(s)}]
      BY DEF Pick
    <3>2. CASE s = {} BY <3>1, <3>2 DEF Adds
    <3>3. CASE s # {}
      <4>1. Pick(s) \in Sells BY <3>3, PickIn
      <4>2. f[Pick(s)] = Filled(l, <<t, Pick(s)>>) BY <4>1
      <4> HIDE DEF f, Step
      <4> QED BY <3>1, <3>3, <4>2, Zenon DEF Adds
    <3> QED BY <3>2, <3>3
  <2> HIDE DEF Step
  <2>2. ASSUME NEW g
        PROVE  [s \in SUBSET Sells |-> Step(g, s)] = [s \in SUBSET Sells |-> Adds(g, f, s)]
    BY <2>1, Zenon
  <2> QED BY <2>2, Zenon DEF SumsOver
<1> HIDE DEF Solves
<1>3. IsFiniteSet(Sells) BY FS_Interval, BoundsAssumption DEF Sells
<1>4. SumsOver(h, f, Sells)
  <2>1. \E g : Solves(g) BY <1>2, <1>3, SumsExist
  <2>2. Solves(h) BY <2>1, Zenon
  <2> QED BY <1>2, <2>2
<1> HIDE DEF f, h
<1>5. Total(f, Sells) = h[Sells] BY <1>3, <1>4, TotalSums
<1> QED BY <1>1, <1>5 DEF f

-----------------------------------------------------------------------------
(* What one step may do to the ledger.                                     *)

Decides == \E t \in Trades :
    disk' = [disk EXCEPT !.exiting = @ \cup {t}] /\ UNCHANGED wire

Learns(id) ==
    /\ disk.intent[id].attempted /\ ~Done(disk.intent[id])
    /\ orders[id] # NoOrder
    /\ disk' = [disk EXCEPT !.intent[id].order = orders[id]]
    /\ UNCHANGED wire

Abandons(id) ==
    /\ disk.intent[id].attempted /\ ~Done(disk.intent[id])
    /\ orders[id] = NoOrder /\ id \in graceOver
    /\ disk' = [disk EXCEPT !.intent[id].abandoned = TRUE]
    /\ UNCHANGED wire

Cancels(id) ==
    /\ Exists(disk.intent[id]) /\ ~disk.intent[id].attempted /\ ~Done(disk.intent[id])
    /\ disk' = [disk EXCEPT !.intent[id].canceled = TRUE]
    /\ UNCHANGED wire

Sends(id) ==
    /\ Exists(disk.intent[id]) /\ ~disk.intent[id].attempted /\ ~Done(disk.intent[id])
    /\ disk' = [disk EXCEPT !.intent[id].attempted = TRUE]
    /\ wire' = wire \cup {[id |-> id, symbol |-> disk.symbol[id[1]],
                           qty |-> disk.intent[id].qty]}

PushesBuy(n, q, s) ==
    /\ at.pc = "entryClock" /\ s = want
    /\ ~Exists(disk.intent[Buy(n)])
    /\ disk' = [disk EXCEPT !.intent[Buy(n)] = NewIntent(q),
                            !.symbol[n] = s, !.day[n] = day]
    /\ UNCHANGED wire

PushesSell(t, k, q) ==
    /\ Exists(disk.intent[Buy(t)])
    /\ ~Exists(disk.intent[<<t, k>>]) /\ OpenSells(disk, t) = {}
    /\ Done(disk.intent[Buy(t)]) /\ q = Remaining(disk, t)
    /\ disk' = [disk EXCEPT !.intent[<<t, k>>] = NewIntent(q),
                            !.exiting = @ \cup {t}]
    /\ UNCHANGED wire

(* Every step of the runner is one of these, and the saved ledger is the   *)
(* one in memory.                                                          *)
RunnerStep ==
    /\ mem' = disk'
    /\ UNCHANGED <<orders, pos, world>>
    /\ \/ UNCHANGED <<disk, wire>>
       \/ Decides
       \/ \E id \in Ids : Learns(id) \/ Abandons(id) \/ Cancels(id) \/ Sends(id)
       \/ \E n \in Trades, q \in Nat \ {0}, s \in Symbols : PushesBuy(n, q, s)
       \/ \E t \in Trades, k \in Sells, q \in Nat \ {0} : PushesSell(t, k, q)

(* The inductive invariant: the ledger in memory is the one on disk, it    *)
(* and the awaited answer are well-formed, what was sent is recorded, and  *)
(* a session that closed is not the last.                                  *)
Inv ==
    /\ TypeOK
    /\ mem = disk
    /\ GoodLedger(disk)
    /\ GoodPoint(disk, at)
    /\ at.task = "entry" => want \in Symbols
    /\ ~open => day < MaxDays
    /\ SentIsDurable

(* The inductive invariant holds before the first start.                   *)
LEMMA InitInv == Init => Inv
<1> SUFFICES ASSUME Init PROVE Inv
  OBVIOUS
<1>1. Buy(1) \in Ids
  BY BuyIsId, BoundsAssumption, SMT DEF Trades
<1>2. EmptyLedger \in LedgerSet
  BY BoundsAssumption, SMT DEF EmptyLedger, LedgerSet, IntentSet, NoIntent, OrderSet, NoOrder, Status
<1>3. GoodLedger(EmptyLedger)
  BY <1>2, SMT DEF GoodLedger, EmptyLedger, NoIntent, Exists
<1>4. NoOrder \in OrderSet
  BY SMT DEF OrderSet, NoOrder, Status
<1>5. TypeOK
  BY <1>1, <1>2, <1>4, BoundsAssumption, SMT DEF Init, TypeOK, Down, Point, Pcs, Tasks
<1>6. SentIsDurable
  BY SMT DEF Init, SentIsDurable
<1>7. GoodPoint(disk, at) /\ at.task # "entry"
  BY IdleIsGood, SMT DEF Init, Down, Point
<1> QED BY <1>3, <1>5, <1>6, <1>7, Zenon DEF Init, Inv

(* Every step of the runner is a RunnerStep.                               *)
LEMMA RunnerMoves ==
    ASSUME Inv, Runner
    PROVE  RunnerStep
<1> USE DEF ledger, broker, world
<1>1. mem = disk /\ GoodLedger(disk) /\ GoodPoint(disk, at) /\ disk \in LedgerSet
  BY Zenon DEF Inv, GoodLedger
<1>2. at.id \in Ids /\ at.id[1] \in Trades /\ I = disk.intent[at.id]
  BY <1>1, IdParts, Zenon DEF Inv, TypeOK, I
<1>3. CASE Start \/ Verify \/ SubmitMarketClosed \/ PostFails \/ CallFails \/ Crash
  BY <1>1, <1>3, Zenon DEF Start, Verify, SubmitMarketClosed, PostFails, CallFails, Crash,
                           Env, RunnerStep
<1>4. CASE (\E s \in Symbols : EventEnter(s)) \/ EntryPositions \/ EntryOrders \/ EntrySkipped
  BY <1>1, <1>4, Zenon DEF EventEnter, EntryPositions, EntryOrders, EntrySkipped, RunnerStep
<1>5. CASE Tick \/ TickClock \/ TimerExit \/ FetchBars \/ BarsDone
  BY <1>1, <1>5, Zenon DEF Tick, TickClock, TimerExit, FetchBars, BarsDone, RunnerStep
<1>6. CASE ExitClock \/ ExitPositions \/ ExitRefused
  BY <1>1, <1>6, Zenon DEF ExitClock, ExitPositions, ExitRefused, RunnerStep
<1>7. CASE LookupFound \/ PostAnswered
  <2>1. /\ disk.intent[at.id].attempted /\ ~Done(disk.intent[at.id])
        /\ orders[at.id] # NoOrder
    BY <1>1, <1>7, Zenon DEF GoodPoint, LookupFound, PostAnswered
  <2>2. Receive(orders[at.id]) /\ UNCHANGED <<broker, world>>
    BY <1>7, Zenon DEF LookupFound, PostAnswered, Env
  <2>3. CASE UNCHANGED <<mem, disk>>
    BY <1>1, <2>2, <2>3, Zenon DEF RunnerStep
  <2>4. CASE Save([mem EXCEPT !.intent[at.id].order = orders[at.id]])
    <3>1. Learns(at.id) /\ mem' = disk'
      BY <1>1, <2>1, <2>2, <2>4, Zenon DEF Learns, Save
    <3> QED BY <1>2, <2>2, <3>1, Zenon DEF RunnerStep
  <2> QED BY <2>2, <2>3, <2>4, Zenon DEF Receive
<1>8. CASE LookupMissing
  <2>1. CASE MayAbandon
    <3>1. Abandons(at.id) /\ mem' = disk'
      BY <1>1, <1>8, <2>1, Zenon DEF LookupMissing, GoodPoint, MayAbandon, Save, Abandons, Env
    <3> QED BY <1>2, <1>8, <3>1, Zenon DEF RunnerStep, LookupMissing, Env
  <2>2. CASE ~MayAbandon
    BY <1>1, <1>8, <2>2, Zenon DEF LookupMissing, RunnerStep, Env
  <2> QED BY <2>1, <2>2
<1>9. CASE CancelLocally
  <2>1. Cancels(at.id) /\ mem' = disk'
    BY <1>1, <1>9, Zenon DEF CancelLocally, GoodPoint, Save, Cancels, Env
  <2> QED BY <1>2, <1>9, <2>1, Zenon DEF RunnerStep, CancelLocally, Env
<1>10. CASE Attempt
  <2>1. Sends(at.id) /\ mem' = disk'
    BY <1>1, <1>2, <1>10, Zenon DEF Attempt, SaveAttempt, GoodPoint, Save, Sends
  <2> QED BY <1>2, <1>10, <2>1, Zenon DEF RunnerStep, Attempt
<1>11. CASE \E n \in FreeTrades(mem), q \in 1..MaxQty : EntryPushed(n, q)
  <2>1. PICK n \in FreeTrades(mem), q \in 1..MaxQty : EntryPushed(n, q)
    BY <1>11
  <2>2. n \in Trades /\ ~Exists(disk.intent[Buy(n)])
    BY <1>1, <2>1, Zenon DEF FreeTrades, Pushed
  <2>3. q \in Nat \ {0}
    BY <2>1, BoundsAssumption, SMT
  <2>4. want \in Symbols
    BY <1>1, <2>1, Zenon DEF EntryPushed, GoodPoint, Inv
  <2>5. PushesBuy(n, q, want) /\ mem' = disk'
    BY <1>1, <2>1, <2>2, Zenon DEF EntryPushed, Save, PushesBuy, Env
  <2> QED BY <2>1, <2>2, <2>3, <2>4, <2>5, Zenon DEF RunnerStep, EntryPushed, Env
<1>12. CASE BarExit \/ \E s \in Symbols : EventExit(s)
  <2>1. PICK s, task : Decide(s, task)
    BY <1>12, Zenon DEF BarExit, EventExit
  <2> DEFINE held == {t \in Trades : mem.symbol[t] = s /\ Remaining(mem, t) > 0}
  <2>2. held \subseteq 1..MaxTrades /\ MaxTrades \in Nat
    BY BoundsAssumption, Zenon DEF Trades
  <2>3. Max(held) \in held
    BY <2>1, <2>2, MaxIn, Zenon DEF Decide
  <2>4. Max(held) \in Trades
    BY <2>3, Zenon
  <2>5. Decides /\ mem' = disk'
    BY <1>1, <2>1, <2>4, Zenon DEF Decide, Decides, Save, Env
  <2> QED BY <2>1, <2>5, Zenon DEF RunnerStep, Decide, Env
<1>13. CASE \E k \in Sells : PushSell(k)
  <2>1. PICK k \in Sells : PushSell(k)
    BY <1>13
  <2> DEFINE t == at.id[1]  q == Remaining(mem, t)
  <2>2. t \in Trades /\ ~Exists(disk.intent[<<t, k>>])
    BY <1>1, <1>2, <2>1, Zenon DEF PushSell, FreeSells
  <2>3. seen \in Int /\ seen > 0 /\ seen = q
    BY <2>1, Zenon DEF PushSell, ExitAllowed, Inv, TypeOK
  <2>4. q \in Nat \ {0}
    BY <2>3, SMT
  <2>5. Exists(disk.intent[Buy(t)]) /\ OpenSells(disk, t) = {} /\ Done(disk.intent[Buy(t)])
    BY <1>1, <2>1, Zenon DEF GoodPoint, PushSell
  <2>6. PushesSell(t, k, q) /\ mem' = disk'
    BY <1>1, <2>1, <2>2, <2>5, Zenon DEF PushSell, PushesSell, Save, Env
  <2>7. UNCHANGED <<orders, pos, world>>
    BY <2>1, Zenon DEF PushSell, Env
  <2> HIDE DEF q, t
  <2> QED BY <2>2, <2>4, <2>6, <2>7, Zenon DEF RunnerStep
<1> QED
  BY <1>3, <1>4, <1>5, <1>6, <1>7, <1>8, <1>9, <1>10, <1>11, <1>12, <1>13, Zenon
     DEF Runner, SyncIntent, Enter, Manage, Exit

(* A good ledger with one intent replaced by another of the same trade,    *)
(* still pushed, is a good ledger.                                         *)
LEMMA OneIntentChanged ==
    ASSUME NEW l, GoodLedger(l), NEW id \in Ids, NEW i \in IntentSet,
           Exists(l.intent[id]), i.qty = l.intent[id].qty
    PROVE  GoodLedger([l EXCEPT !.intent[id] = i])
<1> DEFINE m == [l EXCEPT !.intent[id] = i]
<1>1. l \in LedgerSet
  BY Zenon DEF GoodLedger
<1>2. m \in LedgerSet
  BY <1>1, SMT DEF LedgerSet
<1>3. m.symbol = l.symbol /\ \A j \in Ids : m.intent[j] = IF j = id THEN i ELSE l.intent[j]
  BY <1>1, SMT DEF LedgerSet
<1> HIDE DEF m
<1>4. \A j \in Ids : Exists(m.intent[j]) <=> Exists(l.intent[j])
  BY <1>3, SMT DEF Exists
<1>5. \A j \in Ids : Buy(j[1]) \in Ids
  BY IdParts, BuyIsId, Zenon
<1>6. \A j \in Ids : ~Exists(m.intent[j]) => m.intent[j] = NoIntent
  BY <1>3, <1>4, Zenon DEF GoodLedger
<1>7. \A j \in Ids : Exists(m.intent[j]) =>
          m.symbol[j[1]] \in Symbols /\ Exists(m.intent[Buy(j[1])])
  BY <1>3, <1>4, <1>5, Zenon DEF GoodLedger
<1>8. GoodLedger(m)
  BY <1>2, <1>6, <1>7, Zenon DEF GoodLedger
<1> QED BY <1>8, Zenon DEF m

(* The ledger stays well-formed.                                           *)
LEMMA LedgerStaysGood ==
    ASSUME Inv, RunnerStep
    PROVE  GoodLedger(disk')
<1>1. GoodLedger(disk) /\ disk \in LedgerSet
  BY Zenon DEF Inv, GoodLedger
<1>2. ASSUME NEW id \in Ids
      PROVE  /\ disk.intent[id] \in IntentSet
             /\ disk.intent[id].attempted => Exists(disk.intent[id])
  BY <1>1, NoIntentNotDone, Zenon DEF GoodLedger, LedgerSet
<1>3. CASE UNCHANGED <<disk, wire>>
  BY <1>1, <1>3
<1>4. CASE Decides
  <2>1. PICK t \in Trades : disk' = [disk EXCEPT !.exiting = @ \cup {t}]
    BY <1>4, Zenon DEF Decides
  <2>2. disk' \in LedgerSet /\ disk'.intent = disk.intent /\ disk'.symbol = disk.symbol
    BY <1>1, <2>1, SMT DEF LedgerSet
  <2> QED BY <1>1, <2>2, Zenon DEF GoodLedger
<1>5. ASSUME NEW id \in Ids, Learns(id) \/ Abandons(id) \/ Cancels(id) \/ Sends(id)
      PROVE  GoodLedger(disk')
  <2>1. Exists(disk.intent[id]) /\ disk.intent[id] \in IntentSet
    BY <1>2, <1>5, Zenon DEF Learns, Abandons, Cancels, Sends
  <2>2. PICK i : /\ disk' = [disk EXCEPT !.intent[id] = i]
                 /\ i \in IntentSet /\ i.qty = disk.intent[id].qty
    <3>1. orders[id] \in OrderSet
      BY Zenon DEF Inv, TypeOK
    <3>2. CASE Learns(id)
      <4>1. disk' = [disk EXCEPT !.intent[id] = [@ EXCEPT !.order = orders[id]]]
        BY <3>2, Zenon DEF Learns
      <4>2. /\ [disk.intent[id] EXCEPT !.order = orders[id]] \in IntentSet
            /\ [disk.intent[id] EXCEPT !.order = orders[id]].qty = disk.intent[id].qty
        BY <2>1, <3>1, SMT DEF IntentSet
      <4> QED BY <4>1, <4>2, Zenon
    <3>3. CASE Abandons(id)
      <4>1. disk' = [disk EXCEPT !.intent[id] = [@ EXCEPT !.abandoned = TRUE]]
        BY <3>3, Zenon DEF Abandons
      <4>2. /\ [disk.intent[id] EXCEPT !.abandoned = TRUE] \in IntentSet
            /\ [disk.intent[id] EXCEPT !.abandoned = TRUE].qty = disk.intent[id].qty
        BY <2>1, Zenon DEF IntentSet
      <4> QED BY <4>1, <4>2, Zenon
    <3>4. CASE Cancels(id)
      <4>1. disk' = [disk EXCEPT !.intent[id] = [@ EXCEPT !.canceled = TRUE]]
        BY <3>4, Zenon DEF Cancels
      <4>2. /\ [disk.intent[id] EXCEPT !.canceled = TRUE] \in IntentSet
            /\ [disk.intent[id] EXCEPT !.canceled = TRUE].qty = disk.intent[id].qty
        BY <2>1, Zenon DEF IntentSet
      <4> QED BY <4>1, <4>2, Zenon
    <3>5. CASE Sends(id)
      <4>1. disk' = [disk EXCEPT !.intent[id] = [@ EXCEPT !.attempted = TRUE]]
        BY <3>5, Zenon DEF Sends
      <4>2. /\ [disk.intent[id] EXCEPT !.attempted = TRUE] \in IntentSet
            /\ [disk.intent[id] EXCEPT !.attempted = TRUE].qty = disk.intent[id].qty
        BY <2>1, Zenon DEF IntentSet
      <4> QED BY <4>1, <4>2, Zenon
    <3> QED BY <1>5, <3>2, <3>3, <3>4, <3>5
  <2> QED BY <1>1, <2>1, <2>2, OneIntentChanged, Zenon
<1>6. ASSUME NEW q \in Nat \ {0}
      PROVE  NewIntent(q) \in IntentSet /\ Exists(NewIntent(q))
  BY NewIntentIsLive
<1>7. ASSUME NEW n \in Trades, NEW q \in Nat \ {0}, NEW s \in Symbols, PushesBuy(n, q, s)
      PROVE  GoodLedger(disk')
  <2>1. Buy(n) \in Ids /\ day \in 0..MaxDays /\ NewIntent(q) \in IntentSet
        /\ Exists(NewIntent(q))
    BY BuyIsId, <1>6, SMT DEF Inv, TypeOK
  <2> DEFINE i == NewIntent(q)
  <2> HIDE DEF i
  <2>2. disk' = [disk EXCEPT !.intent[Buy(n)] = i, !.symbol[n] = s, !.day[n] = day]
    BY <1>7, Zenon DEF PushesBuy, i
  <2>10. i \in IntentSet
    BY <2>1, Zenon DEF i
  <2>3. disk' \in LedgerSet
    BY <1>1, <2>1, <2>2, <2>10, Zenon DEF LedgerSet
  <2>4. /\ \A id \in Ids : disk'.intent[id] = IF id = Buy(n) THEN i ELSE disk.intent[id]
        /\ \A t \in Trades : disk'.symbol[t] = IF t = n THEN s ELSE disk.symbol[t]
    BY <1>1, <2>1, <2>2, SMT DEF LedgerSet
  <2>5. \A id \in Ids : id[1] \in Trades /\ Buy(id[1]) \in Ids
    BY IdParts, BuyIsId, Zenon
  <2>6. Exists(i)
    BY <2>1, Zenon DEF i
  <2>7. Buy(n)[1] = n
    BY DEF Buy
  <2>8. \A id \in Ids : ~Exists(disk'.intent[id]) => disk'.intent[id] = NoIntent
    BY <1>1, <2>4, <2>6, Zenon DEF GoodLedger
  <2>9. \A id \in Ids : Exists(disk'.intent[id]) =>
            disk'.symbol[id[1]] \in Symbols /\ Exists(disk'.intent[Buy(id[1])])
    <3> SUFFICES ASSUME NEW id \in Ids, Exists(disk'.intent[id])
                 PROVE  disk'.symbol[id[1]] \in Symbols /\ Exists(disk'.intent[Buy(id[1])])
      BY Zenon
    <3>1. CASE id[1] = n
      BY <2>4, <2>5, <2>6, <3>1, Zenon
    <3>2. CASE id[1] # n
      BY <1>1, <2>4, <2>5, <2>6, <2>7, <3>2, Zenon DEF GoodLedger
    <3> QED BY <3>1, <3>2
  <2> QED BY <2>3, <2>8, <2>9, Zenon DEF GoodLedger
<1>8. ASSUME NEW t \in Trades, NEW k \in Sells, NEW q \in Nat \ {0}, PushesSell(t, k, q)
      PROVE  GoodLedger(disk')
  <2> DEFINE i == NewIntent(q)  new == <<t, k>>
  <2>1. new \in Ids /\ new[1] = t /\ i \in IntentSet /\ Exists(i)
    BY SellIsId, <1>6
  <2> HIDE DEF i, new
  <2>2. disk' = [disk EXCEPT !.intent[new] = i, !.exiting = @ \cup {t}]
    BY <1>8, Zenon DEF PushesSell, i, new
  <2>3. disk' \in LedgerSet
    BY <1>1, <2>1, <2>2, Zenon DEF LedgerSet
  <2>4. /\ \A id \in Ids : disk'.intent[id] = IF id = new THEN i ELSE disk.intent[id]
        /\ disk'.symbol = disk.symbol
    BY <1>1, <2>1, <2>2, SMT DEF LedgerSet
  <2>5. \A id \in Ids : id[1] \in Trades /\ Buy(id[1]) \in Ids
    BY IdParts, BuyIsId, Zenon
  <2>6. Exists(disk.intent[Buy(t)])
    BY <1>8, Zenon DEF PushesSell
  <2>7. disk.symbol[t] \in Symbols
    BY <1>1, <2>5, <2>6, BuyIsId, Zenon DEF GoodLedger, Buy
  <2>8. \A id \in Ids : ~Exists(disk'.intent[id]) => disk'.intent[id] = NoIntent
    BY <1>1, <2>1, <2>4, Zenon DEF GoodLedger
  <2>9. \A id \in Ids : Exists(disk'.intent[id]) =>
            disk'.symbol[id[1]] \in Symbols /\ Exists(disk'.intent[Buy(id[1])])
    BY <1>1, <2>1, <2>4, <2>5, <2>6, <2>7, Zenon DEF GoodLedger
  <2> QED BY <2>3, <2>8, <2>9, Zenon DEF GoodLedger
<1> QED
  BY <1>3, <1>4, <1>5, <1>7, <1>8, Zenon DEF RunnerStep

(* What a step of the runner does to one intent.                           *)
Moves(id) ==
    \/ disk'.intent[id] = disk.intent[id]
    \/ Learns(id) /\ disk'.intent[id] = [disk.intent[id] EXCEPT !.order = orders[id]]
    \/ Abandons(id) /\ disk'.intent[id] = [disk.intent[id] EXCEPT !.abandoned = TRUE]
    \/ Cancels(id) /\ disk'.intent[id] = [disk.intent[id] EXCEPT !.canceled = TRUE]
    \/ Sends(id) /\ disk'.intent[id] = [disk.intent[id] EXCEPT !.attempted = TRUE]
    \/ /\ ~Exists(disk.intent[id])
       /\ \E q \in Nat \ {0} : disk'.intent[id] = NewIntent(q)
       /\ id[2] # 0 => OpenSells(disk, id[1]) = {}

(* Each step of the runner takes every intent of the ledger one legal move *)
(* further: pushed, attempted, answered, canceled or abandoned.            *)
LEMMA IntentMoves ==
    ASSUME Inv, RunnerStep, NEW id \in Ids
    PROVE  /\ Moves(id)
           /\ Exists(disk.intent[id]) => disk'.symbol[id[1]] = disk.symbol[id[1]]
<1>1. GoodLedger(disk) /\ disk \in LedgerSet
  BY Zenon DEF Inv, GoodLedger
<1>2. id[1] \in Trades /\ Buy(id[1]) \in Ids /\ id = <<id[1], id[2]>>
  BY IdParts, BuyIsId, Zenon
<1>3. CASE UNCHANGED <<disk, wire>>
  BY <1>3, Zenon DEF Moves
<1>4. CASE Decides
  <2>1. PICK t \in Trades : disk' = [disk EXCEPT !.exiting = @ \cup {t}]
    BY <1>4, Zenon DEF Decides
  <2>2. disk'.intent = disk.intent /\ disk'.symbol = disk.symbol
    BY <1>1, <2>1, SMT DEF LedgerSet
  <2> QED BY <2>2, Zenon DEF Moves
<1>5. ASSUME NEW j \in Ids, Learns(j) \/ Abandons(j) \/ Cancels(j) \/ Sends(j)
      PROVE  Moves(id) /\ disk'.symbol = disk.symbol
  <2>1. PICK i : disk' = [disk EXCEPT !.intent[j] = i]
    BY <1>5, Zenon DEF Learns, Abandons, Cancels, Sends
  <2>2. /\ disk'.symbol = disk.symbol
        /\ id # j => disk'.intent[id] = disk.intent[id]
    BY <1>1, <2>1, SMT DEF LedgerSet
  <2>3. CASE id # j
    BY <2>2, <2>3, Zenon DEF Moves
  <2>4. CASE id = j
    <3>1. Learns(id) => disk'.intent[id] = [disk.intent[id] EXCEPT !.order = orders[id]]
      BY <1>1, Zenon DEF Learns, LedgerSet
    <3>2. Abandons(id) => disk'.intent[id] = [disk.intent[id] EXCEPT !.abandoned = TRUE]
      BY <1>1, Zenon DEF Abandons, LedgerSet
    <3>3. Cancels(id) => disk'.intent[id] = [disk.intent[id] EXCEPT !.canceled = TRUE]
      BY <1>1, Zenon DEF Cancels, LedgerSet
    <3>4. Sends(id) => disk'.intent[id] = [disk.intent[id] EXCEPT !.attempted = TRUE]
      BY <1>1, Zenon DEF Sends, LedgerSet
    <3> QED BY <1>5, <2>2, <2>4, <3>1, <3>2, <3>3, <3>4, Zenon DEF Moves
  <2> QED BY <2>2, <2>3, <2>4
<1>6. ASSUME NEW n \in Trades, NEW q \in Nat \ {0}, NEW s \in Symbols, PushesBuy(n, q, s)
      PROVE  /\ Moves(id)
             /\ Exists(disk.intent[id]) => disk'.symbol[id[1]] = disk.symbol[id[1]]
  <2>1. disk' = [disk EXCEPT !.intent[Buy(n)] = NewIntent(q), !.symbol[n] = s, !.day[n] = day]
    BY <1>6, Zenon DEF PushesBuy
  <2>2. /\ id # Buy(n) => disk'.intent[id] = disk.intent[id]
        /\ id = Buy(n) => disk'.intent[id] = NewIntent(q)
        /\ id[1] # n => disk'.symbol[id[1]] = disk.symbol[id[1]]
    BY <1>1, <1>2, <2>1, BuyIsId, Zenon DEF LedgerSet
  <2>3. ~Exists(disk.intent[Buy(n)]) /\ Buy(n)[2] = 0
    BY <1>6, Zenon DEF PushesBuy, Buy
  <2>4. Exists(disk.intent[id]) => id[1] # n
    BY <1>1, <2>3, Zenon DEF GoodLedger
  <2> QED BY <2>2, <2>3, <2>4, Zenon DEF Moves
<1>7. ASSUME NEW t \in Trades, NEW k \in Sells, NEW q \in Nat \ {0}, PushesSell(t, k, q)
      PROVE  Moves(id) /\ disk'.symbol = disk.symbol
  <2>1. disk' = [disk EXCEPT !.intent[<<t, k>>] = NewIntent(q), !.exiting = @ \cup {t}]
    BY <1>7, Zenon DEF PushesSell
  <2>2. /\ id # <<t, k>> => disk'.intent[id] = disk.intent[id]
        /\ id = <<t, k>> => disk'.intent[id] = NewIntent(q)
        /\ disk'.symbol = disk.symbol
    BY <1>1, <2>1, SMT DEF LedgerSet
  <2>3. ~Exists(disk.intent[<<t, k>>]) /\ OpenSells(disk, t) = {} /\ <<t, k>>[1] = t
    BY <1>7, Zenon DEF PushesSell
  <2> QED BY <2>2, <2>3, Zenon DEF Moves
<1> QED BY <1>3, <1>4, <1>5, <1>6, <1>7, Zenon DEF RunnerStep

(* An attempt stays recorded.                                              *)
LEMMA AttemptedStays ==
    ASSUME Inv, RunnerStep, NEW id \in Ids, disk.intent[id].attempted
    PROVE  /\ disk'.intent[id].attempted
           /\ disk'.intent[id].qty = disk.intent[id].qty
           /\ disk'.symbol[id[1]] = disk.symbol[id[1]]
<1>1. Exists(disk.intent[id]) /\ disk.intent[id] \in IntentSet
  BY NoIntentNotDone, Zenon DEF Inv, GoodLedger, LedgerSet
<1>2. Moves(id) /\ disk'.symbol[id[1]] = disk.symbol[id[1]]
  BY <1>1, IntentMoves, Zenon
<1>3. ASSUME NEW i \in IntentSet, i.attempted
      PROVE  /\ [i EXCEPT !.order = orders[id]].attempted
             /\ [i EXCEPT !.order = orders[id]].qty = i.qty
             /\ [i EXCEPT !.abandoned = TRUE].attempted
             /\ [i EXCEPT !.abandoned = TRUE].qty = i.qty
             /\ [i EXCEPT !.canceled = TRUE].attempted
             /\ [i EXCEPT !.canceled = TRUE].qty = i.qty
  BY <1>3, Zenon DEF IntentSet
<1>4. \/ disk'.intent[id] = disk.intent[id]
      \/ disk'.intent[id] = [disk.intent[id] EXCEPT !.order = orders[id]]
      \/ disk'.intent[id] = [disk.intent[id] EXCEPT !.abandoned = TRUE]
      \/ disk'.intent[id] = [disk.intent[id] EXCEPT !.canceled = TRUE]
  BY <1>1, <1>2, Zenon DEF Moves, Sends
<1>5. /\ disk'.intent[id].attempted
      /\ disk'.intent[id].qty = disk.intent[id].qty
  BY <1>1, <1>3, <1>4, Zenon
<1> QED BY <1>2, <1>5

-----------------------------------------------------------------------------
(* The runner waits only for answers that can still concern the ledger.    *)

ControlOK ==
    /\ GoodPoint(disk', at')
    /\ at'.task = "entry" => want' \in Symbols
    /\ at'.task = "entry" =>
           \/ at.task = "entry" /\ want' = want
           \/ \E s \in Symbols : EventEnter(s)
    /\ want' \in Symbols \cup {None}
    /\ seen' \in Int

(* Going to a good point keeps the runner's control state well-formed.     *)
LEMMA GoIsOK ==
    ASSUME Inv, NEW p, Go(p), GoodPoint(disk', p), p.task = "entry" => at.task = "entry"
    PROVE  ControlOK
<1>1. p.task = "entry" => want \in Symbols
  BY Zenon DEF Inv
<1>2. at' = p /\ want' = (IF p.task = "entry" THEN want ELSE None) /\ seen' = 0
  BY Zenon DEF Go
<1>3. seen' \in Int
  BY <1>2, SMT
<1> QED BY <1>1, <1>2, <1>3, Zenon DEF ControlOK

(* Every step of the runner ends at a good point for the ledger it leaves  *)
(* behind.                                                                 *)
LEMMA ControlMoves ==
    ASSUME Inv, Runner, RunnerStep, GoodLedger(disk')
    PROVE  ControlOK
<1> USE DEF ledger, broker, world
<1>1. /\ mem = disk /\ mem' = disk' /\ disk \in LedgerSet /\ disk' \in LedgerSet
      /\ GoodLedger(disk) /\ GoodPoint(disk, at)
  BY Zenon DEF Inv, RunnerStep, GoodLedger
<1>2. at.id \in Ids /\ at.id[1] \in Trades /\ at.task \in Tasks /\ I = disk.intent[at.id]
  BY <1>1, IdParts, Zenon DEF Inv, TypeOK, I
<1>3. /\ GoodPoint(disk', Resume(disk', at.task, at.id))
      /\ Resume(disk', at.task, at.id).task = "entry" => at.task = "entry"
  BY <1>1, <1>2, ResumeGood
<1>4. /\ GoodPoint(disk', Fail(disk', at.task, at.id))
      /\ Fail(disk', at.task, at.id).task # "entry"
  BY <1>1, <1>2, FailGood
<1>5. /\ GoodPoint(disk', Idle) /\ Idle.task # "entry"
      /\ GoodPoint(disk', Down) /\ Down.task # "entry"
  BY IdleIsGood, SMT DEF Idle, Down, Point
<1>6. Buy(1) \in Ids
  BY BuyIsId, BoundsAssumption, SMT DEF Trades
<1>7. \A task \in Tasks : \A from : GoodPoint(disk', Reconcile(disk', task, from))
                             /\ Reconcile(disk', task, from).task = task
  BY <1>1, ReconcileGood, Zenon
<1>8. \A t : GoodPoint(disk', NextTrade(disk', t)) /\ NextTrade(disk', t).task # "entry"
  BY <1>1, NextTradeGood, Zenon
<1>10. CASE Start
  <2>1. Go(Reconcile(disk', "start", <<0, 0>>)) /\ "start" \in Tasks /\ "start" # "entry"
    BY <1>10, SMT DEF Start, Tasks
  <2> QED BY <1>7, <2>1, GoIsOK, Zenon
<1>11. CASE Verify \/ EntrySkipped \/ Crash
  BY <1>5, <1>11, GoIsOK, Zenon DEF Verify, EntrySkipped, Crash
<1>12. CASE SubmitMarketClosed \/ PostFails \/ CancelLocally
  <2>1. Go(Resume(disk', at.task, at.id))
    BY <1>1, <1>12, Zenon DEF SubmitMarketClosed, PostFails, CancelLocally, Save
  <2> QED BY <1>3, <2>1, GoIsOK, Zenon
<1>13. CASE LookupMissing
  <2>1. Go(Resume(disk', at.task, at.id))
    BY <1>1, <1>13, Zenon DEF LookupMissing, Save
  <2> QED BY <1>3, <2>1, GoIsOK, Zenon
<1>14. CASE LookupFound \/ PostAnswered
  <2>1. Receive(orders[at.id])
    BY <1>14, Zenon DEF LookupFound, PostAnswered
  <2>2. Go(Resume(disk', at.task, at.id)) \/ Go(Fail(disk', at.task, at.id))
    BY <1>1, <2>1, Zenon DEF Receive, Save
  <2> QED BY <1>3, <1>4, <2>2, GoIsOK, Zenon
<1>15. CASE CallFails \/ ExitRefused
  <2>1. Go(Fail(disk', at.task, at.id))
    BY <1>1, <1>15, Zenon DEF CallFails, ExitRefused
  <2> QED BY <1>4, <2>1, GoIsOK, Zenon
<1>16. CASE Attempt
  <2>1. at.pc = "clock" /\ Sends(at.id)
    BY <1>1, <1>2, <1>16, Zenon DEF Attempt, SaveAttempt, Save, GoodPoint, Sends
  <2>2. disk'.intent[at.id] = [disk.intent[at.id] EXCEPT !.attempted = TRUE]
    BY <1>1, <1>2, <2>1, Zenon DEF Sends, LedgerSet
  <2>3. disk.intent[at.id] \in IntentSet
    BY <1>1, <1>2, Zenon DEF LedgerSet
  <2>4. disk'.intent[at.id].attempted /\ ~Done(disk'.intent[at.id])
    BY <2>1, <2>2, <2>3, Zenon DEF Sends, Done, IntentSet
  <2>5. GoodPoint(disk', Point("posted", at.task, at.id))
    BY <1>2, <2>4, SMT DEF GoodPoint, Point, Pcs
  <2>6. Go(Point("posted", at.task, at.id)) /\ Point("posted", at.task, at.id).task = at.task
    BY <1>16, Zenon DEF Attempt, Point
  <2> QED BY <2>5, <2>6, GoIsOK, Zenon
<1>17. CASE \E s \in Symbols : EventEnter(s)
  <2>1. PICK s \in Symbols : EventEnter(s)
    BY <1>17
  <2>2. "entry" \in Tasks
    BY DEF Tasks
  <2>3. at' = Reconcile(disk', "entry", <<0, 0>>) /\ want' = s /\ seen' = 0
    BY <1>1, <2>1, Zenon DEF EventEnter
  <2> QED BY <1>7, <1>17, <2>2, <2>3, SMT DEF ControlOK
<1>18. CASE EntryPositions \/ EntryOrders
  <2>1. at.task = "entry"
    BY <1>1, <1>18, Zenon DEF EntryPositions, EntryOrders, GoodPoint
  <2>2. /\ GoodPoint(disk', Point("entryOrders", "entry", Buy(1)))
        /\ GoodPoint(disk', Point("entryClock", "entry", Buy(1)))
    BY <1>6, SMT DEF GoodPoint, Point, Pcs, Tasks
  <2> QED BY <1>5, <1>18, <2>1, <2>2, GoIsOK, Zenon DEF EntryPositions, EntryOrders
<1>19. CASE \E n \in FreeTrades(mem), q \in 1..MaxQty : EntryPushed(n, q)
  <2>1. PICK n \in FreeTrades(mem), q \in 1..MaxQty : EntryPushed(n, q)
    BY <1>19
  <2>2. n \in Trades /\ Buy(n) \in Ids /\ q \in Nat \ {0}
    BY <2>1, BuyIsId, BoundsAssumption, SMT DEF FreeTrades
  <2>3. Go(SyncPoint(disk', "enter", Buy(n))) /\ disk'.intent[Buy(n)] = NewIntent(q)
    BY <1>1, <2>1, <2>2, Zenon DEF EntryPushed, Save, LedgerSet
  <2>4. "enter" \in Tasks /\ "enter" # "entry"
    BY SMT DEF Tasks
  <2> QED BY <1>1, <2>2, <2>3, <2>4, NewIntentIsLive, SyncPointGood, GoIsOK, Zenon
<1>20. CASE BarExit \/ \E s \in Symbols : EventExit(s)
  <2>1. PICK s, task : task \in {"bar", "event"} /\ Decide(s, task)
    BY <1>20, Zenon DEF BarExit, EventExit
  <2> DEFINE t == Max({u \in Trades : mem.symbol[u] = s /\ Remaining(mem, u) > 0})
  <2>2. t \in Trades
    <3>1. {u \in Trades : mem.symbol[u] = s /\ Remaining(mem, u) > 0} \subseteq 1..MaxTrades
      BY Zenon DEF Trades
    <3> QED BY <2>1, <3>1, MaxIn, BoundsAssumption, Zenon DEF Decide, Trades
  <2>3. Go(Point("exitClock", task, Buy(t)))
    BY <2>1, Zenon DEF Decide
  <2> HIDE DEF t
  <2>4. GoodPoint(disk', Point("exitClock", task, Buy(t)))
        /\ Point("exitClock", task, Buy(t)).task # "entry"
    BY <2>1, <2>2, BuyIsId, SMT DEF GoodPoint, Point, Pcs, Tasks
  <2> QED BY <2>3, <2>4, GoIsOK, Zenon
<1>21. CASE ExitClock
  <2>1. at.task # "entry"
    BY <1>1, <1>21, Zenon DEF ExitClock, GoodPoint
  <2>2. Go(ExitPoint(disk', at.task, at.id[1])) \/ Go(Resume(disk', at.task, at.id))
    BY <1>1, <1>21, Zenon DEF ExitClock
  <2> QED BY <1>2, <1>3, <2>1, <2>2, ExitPointGood, GoIsOK, Zenon
<1>22. CASE Tick
  <2>1. Go(Reconcile(disk', "tick", <<0, 0>>)) /\ "tick" \in Tasks /\ "tick" # "entry"
    BY <1>1, <1>22, SMT DEF Tick, Tasks
  <2> QED BY <1>7, <2>1, GoIsOK, Zenon
<1>23. CASE TickClock \/ BarsDone
  <2>1. Go(NextTrade(disk', 0)) \/ Go(NextTrade(disk', at.id[1])) \/ Go(Idle)
    BY <1>1, <1>23, Zenon DEF TickClock, BarsDone
  <2> QED BY <1>5, <1>8, <2>1, GoIsOK, Zenon
<1>24. CASE TimerExit
  <2>1. Go(ExitPoint(disk', "timer", at.id[1])) /\ "timer" \in Tasks /\ "timer" # "entry"
    BY <1>1, <1>24, SMT DEF TimerExit, Tasks
  <2> QED BY <1>2, <2>1, ExitPointGood, GoIsOK, Zenon
<1>25. CASE FetchBars
  <2>1. GoodPoint(disk', Point("bars", "bar", at.id)) /\ Point("bars", "bar", at.id).task # "entry"
    BY <1>2, SMT DEF GoodPoint, Point, Pcs, Tasks
  <2> QED BY <1>25, <2>1, GoIsOK, Zenon DEF FetchBars
<1>26. CASE ExitPositions
  <2>1. /\ at' = Point("exitOrders", at.task, at.id) /\ want' = None
        /\ seen' = pos[disk.symbol[at.id[1]]] /\ disk' = disk
        /\ at.pc = "positions"
    BY <1>1, <1>26, Zenon DEF ExitPositions
  <2>2. /\ Exists(disk.intent[Buy(at.id[1])]) /\ Done(disk.intent[Buy(at.id[1])])
        /\ OpenSells(disk, at.id[1]) = {}
        /\ at.task # "entry"
    BY <1>1, <2>1, Zenon DEF GoodPoint
  <2>3. GoodPoint(disk', at') /\ at'.task # "entry"
    BY <1>2, <2>1, <2>2, SMT DEF GoodPoint, Point, Pcs
  <2>4. disk.symbol[at.id[1]] \in Symbols
    BY <1>1, <1>2, <2>2, BuyIsId, Zenon DEF GoodLedger, Buy
  <2>5. seen' \in Int
    BY <2>1, <2>4, Zenon DEF Inv, TypeOK
  <2> QED BY <2>1, <2>3, <2>5, Zenon DEF ControlOK
<1>27. CASE \E k \in Sells : PushSell(k)
  <2>1. PICK k \in Sells : PushSell(k)
    BY <1>27
  <2> DEFINE id == <<at.id[1], k>>  q == Remaining(mem, at.id[1])
  <2>2. id \in Ids
    BY <1>2, SellIsId, Zenon
  <2>3. Go(SyncPoint(disk', at.task, id)) /\ disk'.intent[id] = NewIntent(q)
    BY <1>1, <2>1, <2>2, Zenon DEF PushSell, Save, LedgerSet
  <2>4. seen \in Int /\ seen > 0 /\ seen = q
    BY <2>1, Zenon DEF PushSell, ExitAllowed, Inv, TypeOK
  <2>5. q \in Nat \ {0}
    BY <2>4, SMT
  <2>6. at.task # "entry"
    BY <1>1, <2>1, Zenon DEF PushSell, GoodPoint
  <2> HIDE DEF id, q
  <2>7. Exists(disk'.intent[id]) /\ ~Done(disk'.intent[id])
    BY <2>3, <2>5, NewIntentIsLive, Zenon
  <2>8. /\ GoodPoint(disk', SyncPoint(disk', at.task, id))
        /\ SyncPoint(disk', at.task, id).task = at.task
    BY <1>1, <1>2, <2>2, <2>7, SyncPointGood, Zenon
  <2> QED BY <2>3, <2>6, <2>8, GoIsOK, Zenon
<1> QED
  BY <1>10, <1>11, <1>12, <1>13, <1>14, <1>15, <1>16, <1>17, <1>18, <1>19, <1>20,
     <1>21, <1>22, <1>23, <1>24, <1>25, <1>26, <1>27, Zenon
     DEF Runner, SyncIntent, Enter, Manage, Exit

-----------------------------------------------------------------------------
(* The invariant is inductive.                                             *)

(* The runner's failed calls and crashes stay within the bound on faults.  *)
LEMMA RunnerFaults ==
    ASSUME Runner
    PROVE  faults' = faults \/ Fault
<1>1. CASE SyncIntent
  BY <1>1, Zenon DEF SyncIntent, LookupFound, LookupMissing, SubmitMarketClosed,
                     CancelLocally, Attempt, PostAnswered, PostFails
<1>2. CASE Enter \/ Manage \/ Exit
  BY <1>2, Zenon DEF Enter, EventEnter, EntryPositions, EntryOrders, EntrySkipped,
                     EntryPushed, Manage, Tick, TickClock, TimerExit, FetchBars, BarExit,
                     BarsDone, Exit, EventExit, ExitClock, ExitPositions, ExitRefused,
                     PushSell, Decide
<1>3. CASE Start \/ Verify \/ CallFails \/ Crash
  BY <1>3, Zenon DEF Start, Verify, CallFails, Crash
<1> QED BY <1>1, <1>2, <1>3, Zenon DEF Runner

(* What a step of the runner leaves on the wire: what was there, and the   *)
(* request of an intent just attempted.                                    *)
LEMMA WireMoves ==
    ASSUME Inv, RunnerStep, NEW r \in wire'
    PROVE  \/ r \in wire
           \/ \E id \in Ids : /\ Sends(id)
                              /\ r = [id |-> id, symbol |-> disk.symbol[id[1]],
                                      qty |-> disk.intent[id].qty]
BY Zenon DEF RunnerStep, Decides, Learns, Abandons, Cancels, Sends, PushesBuy, PushesSell

(* The runner's steps preserve the inductive invariant.                    *)
LEMMA RunnerKeepsInv ==
    ASSUME Inv, Runner
    PROVE  Inv'
<1>1. RunnerStep
  BY RunnerMoves
<1>2. GoodLedger(disk')
  BY <1>1, LedgerStaysGood
<1>3. ControlOK
  BY <1>1, <1>2, ControlMoves
<1>4. GoodLedger(disk) /\ disk \in LedgerSet /\ disk' \in LedgerSet
      /\ mem' = disk' /\ UNCHANGED <<orders, pos, open, day, stale, graceOver>>
  BY <1>1, <1>2, Zenon DEF Inv, GoodLedger, RunnerStep, world
<1>5. faults' \in 0..MaxFaults
  BY RunnerFaults, BoundsAssumption, SMT DEF Inv, TypeOK, Fault
<1>6. ASSUME NEW id \in Ids, Sends(id)
      PROVE  /\ disk.symbol[id[1]] \in Symbols
             /\ disk.intent[id].qty \in Nat \ {0}
             /\ disk'.intent[id].attempted
             /\ disk'.intent[id].qty = disk.intent[id].qty
             /\ disk'.symbol = disk.symbol
  <2>1. Exists(disk.intent[id]) /\ disk.intent[id] \in IntentSet
    BY <1>4, <1>6, Zenon DEF Sends, LedgerSet
  <2>2. disk.intent[id].qty \in Nat
    BY <2>1, Zenon DEF IntentSet
  <2>3. disk' = [disk EXCEPT !.intent[id] = [@ EXCEPT !.attempted = TRUE]]
    BY <1>6, Zenon DEF Sends
  <2>4. /\ disk'.intent[id] = [disk.intent[id] EXCEPT !.attempted = TRUE]
        /\ disk'.symbol = disk.symbol
    BY <1>4, <2>3, Zenon DEF LedgerSet
  <2>5. disk'.intent[id].attempted /\ disk'.intent[id].qty = disk.intent[id].qty
    BY <2>1, <2>4, Zenon DEF IntentSet
  <2> QED BY <1>4, <2>1, <2>2, <2>4, <2>5, SMT DEF GoodLedger, Exists
<1>7. ASSUME NEW r \in wire'
      PROVE  /\ r \in [id: Ids, symbol: Symbols, qty: Nat \ {0}]
             /\ Recorded(r.id, r.symbol, r.qty)'
  <2>1. CASE r \in wire
    <3>1. r \in [id: Ids, symbol: Symbols, qty: Nat \ {0}] /\ Recorded(r.id, r.symbol, r.qty)
      BY <2>1, Zenon DEF Inv, TypeOK, SentIsDurable
    <3>2. r.id \in Ids
      BY <3>1, Zenon
    <3> QED BY <1>1, <3>1, <3>2, AttemptedStays, Zenon DEF Recorded
  <2>2. CASE \E id \in Ids : /\ Sends(id)
                             /\ r = [id |-> id, symbol |-> disk.symbol[id[1]],
                                     qty |-> disk.intent[id].qty]
    <3>1. PICK id \in Ids : /\ Sends(id)
                            /\ r = [id |-> id, symbol |-> disk.symbol[id[1]],
                                    qty |-> disk.intent[id].qty]
      BY <2>2
    <3>2. r.id = id /\ r.symbol = disk.symbol[id[1]] /\ r.qty = disk.intent[id].qty
      BY <3>1, SMT
    <3>3. r \in [id: Ids, symbol: Symbols, qty: Nat \ {0}]
      BY <1>6, <3>1, Zenon
    <3> QED BY <1>6, <3>1, <3>2, <3>3, Zenon DEF Recorded
  <2> QED BY <1>1, <2>1, <2>2, WireMoves, Zenon
<1>8. ASSUME NEW id \in Ids, orders'[id] # NoOrder
      PROVE  Recorded(id, orders[id].symbol, orders[id].qty)'
  <2>1. Recorded(id, orders[id].symbol, orders[id].qty) /\ orders' = orders
    BY <1>4, <1>8, Zenon DEF Inv, SentIsDurable
  <2> QED BY <1>1, <2>1, AttemptedStays, Zenon DEF Recorded
<1>9. SentIsDurable'
  BY <1>7, <1>8, Zenon DEF SentIsDurable
<1>10. wire' \subseteq [id: Ids, symbol: Symbols, qty: Nat \ {0}]
  BY <1>7
<1>11. at' \in [pc: Pcs, task: Tasks, id: Ids] /\ want' \in Symbols \cup {None} /\ seen' \in Int
  BY <1>3, Zenon DEF ControlOK, GoodPoint
<1>12. TypeOK'
  BY <1>4, <1>5, <1>10, <1>11, Zenon DEF TypeOK, Inv
<1> QED BY <1>2, <1>3, <1>4, <1>9, <1>12, Zenon DEF Inv, ControlOK

(* So do the broker's steps and the passing of time: they write no ledger, *)
(* and an order the broker creates is one the ledger holds as attempted.   *)
LEMMA BrokerAndTimeKeepInv ==
    ASSUME Inv, Broker \/ Time
    PROVE  Inv'
<1> USE DEF ledger, runner
<1>1. UNCHANGED <<mem, disk, at, want, seen>>
  BY Zenon DEF Broker, Time, Accept, Drop, Fill, Finish, SignalExpires, GraceElapses,
               CloseMarket, OpenMarket
<1>2. /\ \A id \in Ids : orders[id] \in OrderSet
      /\ orders \in [Ids -> OrderSet] /\ pos \in [Symbols -> Int]
      /\ wire \subseteq [id: Ids, symbol: Symbols, qty: Nat \ {0}]
  BY Zenon DEF Inv, TypeOK
<1> DEFINE WireOK == wire' \subseteq wire
           OrdersOK == /\ orders' \in [Ids -> OrderSet]
                       /\ \A id \in Ids : orders'[id] # NoOrder =>
                              Recorded(id, orders'[id].symbol, orders'[id].qty)
           RestOK == /\ pos' \in [Symbols -> Int]
                     /\ ~open' => day' < MaxDays
                     /\ open' \in BOOLEAN /\ day' \in 1..MaxDays
                     /\ stale' \subseteq Trades /\ graceOver' \subseteq Ids
                     /\ faults' \in 0..MaxFaults
<1>3. ASSUME WireOK, OrdersOK, RestOK  PROVE Inv'
  <2>1. \A id, s, q : Recorded(id, s, q)' <=> Recorded(id, s, q)
    BY <1>1, Zenon DEF Recorded
  <2>2. SentIsDurable'
    BY <1>3, <2>1, Zenon DEF Inv, SentIsDurable
  <2>3. TypeOK'
    BY <1>1, <1>2, <1>3, Zenon DEF Inv, TypeOK
  <2> QED BY <1>1, <1>3, <2>2, <2>3, Zenon DEF Inv
<1> HIDE DEF WireOK, OrdersOK, RestOK
<1>4. OrdersOK \/ orders' # orders
  BY <1>2, Zenon DEF OrdersOK, Inv, SentIsDurable
<1>5. ASSUME NEW id \in Ids, NEW o \in OrderSet, orders' = [orders EXCEPT ![id] = o],
             Recorded(id, o.symbol, o.qty)
      PROVE  OrdersOK
  <2>1. orders' \in [Ids -> OrderSet]
        /\ \A j \in Ids : orders'[j] = IF j = id THEN o ELSE orders[j]
    BY <1>2, <1>5, Zenon
  <2> QED BY <1>5, <2>1, Zenon DEF OrdersOK, Inv, SentIsDurable
<1>6. ASSUME UNCHANGED <<pos, open, day, stale, graceOver>>, faults' = faults \/ Fault
      PROVE  RestOK
  BY <1>6, BoundsAssumption, SMT DEF RestOK, Inv, TypeOK, Fault
<1>7. ASSUME NEW r \in wire, Accept(r)  PROVE Inv'
  <2> DEFINE o == [symbol |-> r.symbol, qty |-> r.qty, filled |-> 0, status |-> "open"]
  <2>1. r.id \in Ids /\ r.symbol \in Symbols /\ r.qty \in Nat \ {0}
    BY <1>2, SMT
  <2>2. o \in OrderSet /\ o.symbol = r.symbol /\ o.qty = r.qty
    BY <2>1, SMT DEF OrderSet, Status
  <2>3. Recorded(r.id, r.symbol, r.qty)
    BY Zenon DEF Inv, SentIsDurable
  <2>4. orders' = [orders EXCEPT ![r.id] = o]
    BY <1>7, Zenon DEF Accept
  <2> HIDE DEF o
  <2>5. OrdersOK
    BY <1>5, <2>1, <2>2, <2>3, <2>4, Zenon
  <2>6. WireOK /\ RestOK
    BY <1>6, <1>7, Zenon DEF Accept, WireOK, world
  <2> QED BY <1>3, <2>5, <2>6
<1>8. ASSUME NEW r \in wire, Drop(r)  PROVE Inv'
  <2>1. WireOK /\ RestOK /\ OrdersOK
    BY <1>4, <1>6, <1>8, Zenon DEF Drop, WireOK, world
  <2> QED BY <1>3, <2>1
<1>9. ASSUME NEW id \in Ids, orders[id].status = "open"
      PROVE  /\ Recorded(id, orders[id].symbol, orders[id].qty)
             /\ orders[id].filled + 1 \in Nat
  BY <1>2, <1>9, SMT DEF Inv, SentIsDurable, NoOrder, OrderSet
<1>10. ASSUME NEW id \in Ids, Fill(id)  PROVE Inv'
  <2> DEFINE n == orders[id].filled + 1
             st == IF n = orders[id].qty THEN "filled" ELSE "open"
             o == [orders[id] EXCEPT !.filled = n, !.status = st]
  <2>1. n \in Nat /\ st \in Status
    BY <1>9, <1>10, SMT DEF Fill, Status
  <2>2. orders' = [orders EXCEPT ![id] = o]
    BY <1>10, Zenon DEF Fill
  <2> HIDE DEF n, st
  <2>3. o \in OrderSet /\ o.symbol = orders[id].symbol /\ o.qty = orders[id].qty
    BY <1>2, <2>1, Zenon DEF OrderSet
  <2> HIDE DEF o
  <2>4. OrdersOK
    BY <1>5, <1>9, <1>10, <2>2, <2>3, Zenon DEF Fill
  <2>5. pos' \in [Symbols -> Int]
    <3>1. disk.intent[id].attempted /\ disk.symbol[id[1]] = orders[id].symbol
      BY <1>9, <1>10, Zenon DEF Fill, Recorded
    <3>2. orders[id].symbol \in Symbols
      BY <3>1, NoIntentNotDone, Zenon DEF Inv, GoodLedger
    <3> QED BY <1>2, <1>10, <3>2, SMT DEF Fill
  <2>6. RestOK /\ WireOK
    BY <1>10, <2>5, Zenon DEF Fill, world, RestOK, WireOK, Inv, TypeOK
  <2> QED BY <1>3, <2>4, <2>6
<1>11. ASSUME NEW id \in Ids, NEW st \in {"canceled", "rejected"}, Finish(id, st)
       PROVE  Inv'
  <2> DEFINE o == [orders[id] EXCEPT !.status = st]
  <2>1. orders' = [orders EXCEPT ![id] = o]
    BY <1>11, Zenon DEF Finish
  <2>2. o \in OrderSet /\ o.symbol = orders[id].symbol /\ o.qty = orders[id].qty
    BY <1>2, SMT DEF OrderSet, Status
  <2> HIDE DEF o
  <2>3. OrdersOK
    BY <1>5, <1>9, <1>11, <2>1, <2>2, Zenon DEF Finish
  <2>4. RestOK /\ WireOK
    BY <1>6, <1>11, Zenon DEF Finish, world, WireOK
  <2> QED BY <1>3, <2>3, <2>4
<1>12. CASE Time
  <2>1. WireOK /\ OrdersOK
    BY <1>4, <1>12, Zenon DEF Time, SignalExpires, GraceElapses, CloseMarket, OpenMarket,
                              broker, WireOK
  <2>2. CASE CloseMarket \/ OpenMarket
    <3>1. Pending(disk) \subseteq Ids
      BY Zenon DEF Pending
    <3>2. day < MaxDays /\ (day' = day \/ (day' = day + 1 /\ open'))
      BY <2>2, Zenon DEF CloseMarket, OpenMarket, Inv
    <3>3. day \in 1..MaxDays /\ MaxDays \in Nat
      BY BoundsAssumption, Zenon DEF Inv, TypeOK
    <3>4. day' \in 1..MaxDays /\ (day' = day => day' < MaxDays)
      BY <3>2, <3>3, SMT
    <3>5. ~open' => day' = day
      BY <2>2, <3>2, Zenon
    <3>6. open' \in BOOLEAN /\ stale' \subseteq Trades /\ graceOver' \subseteq Ids
      BY <2>2, <3>1, Zenon DEF CloseMarket, OpenMarket, Inv, TypeOK
    <3>7. pos' = pos /\ faults' = faults
      BY <2>2, Zenon DEF CloseMarket, OpenMarket, broker
    <3>8. RestOK
      BY <3>4, <3>5, <3>6, <3>7, Zenon DEF RestOK, Inv, TypeOK
    <3> QED BY <1>3, <2>1, <3>8
  <2>3. CASE (\E t \in Trades : SignalExpires(t)) \/ \E id \in Ids : GraceElapses(id)
    <3>1. RestOK
      BY <2>3, Zenon DEF SignalExpires, GraceElapses, broker, RestOK, Inv, TypeOK
    <3> QED BY <1>3, <2>1, <3>1
  <2> QED BY <1>12, <2>2, <2>3, Zenon DEF Time
<1> QED BY <1>7, <1>8, <1>10, <1>11, <1>12, Zenon DEF Broker

(* The invariant is inductive.                                             *)
LEMMA StepKeepsInv == Inv /\ [Next]_vars => Inv'
<1>1. ASSUME Inv, UNCHANGED vars  PROVE Inv'
  <2> USE <1>1 DEF vars
  <2>1. TypeOK'
    BY Zenon DEF Inv, TypeOK
  <2>2. GoodPoint(disk', at') /\ GoodLedger(disk') /\ mem' = disk'
    BY Zenon DEF Inv
  <2>3. SentIsDurable'
    BY Zenon DEF Inv, SentIsDurable, Recorded
  <2> QED BY <2>1, <2>2, <2>3, Zenon DEF Inv
<1> QED BY <1>1, RunnerKeepsInv, BrokerAndTimeKeepInv, Zenon DEF Next

(* The inductive invariant holds in every reachable state, for all         *)
(* symbols, bounds and numbers of faults.                                  *)
THEOREM InvHolds == Spec => []Inv
BY InitInv, StepKeepsInv, PTL DEF Spec

(* Every state has the declared types: in particular no sell and no        *)
(* request is ever for zero shares, and counters stay within their bounds. *)
THEOREM TypeCorrect == Spec => []TypeOK
<1>1. Inv => TypeOK
  BY DEF Inv
<1> QED BY <1>1, InvHolds, PTL

(* Whatever is on the wire or at the broker is on disk, as attempted, with *)
(* the same symbol and size (save before POST in sync_intent), for every   *)
(* number of crashes.                                                      *)
THEOREM SentIsAlwaysDurable == Spec => []SentIsDurable
<1>1. Inv => SentIsDurable
  BY DEF Inv
<1> QED BY <1>1, InvHolds, PTL

-----------------------------------------------------------------------------
(* Steps, seen from one intent.                                            *)

(* A step pushes at most one sell.                                         *)
LEMMA OnePushAtATime ==
    ASSUME Inv, RunnerStep, NEW t \in Trades, NEW j \in Sells, NEW k \in Sells,
           ~Exists(disk.intent[<<t, j>>]), ~Exists(disk.intent[<<t, k>>]),
           Exists(disk'.intent[<<t, j>>]), Exists(disk'.intent[<<t, k>>])
    PROVE  j = k
<1>1. disk \in LedgerSet /\ GoodLedger(disk)
  BY Zenon DEF Inv, GoodLedger
<1>2. <<t, j>> \in Ids /\ <<t, k>> \in Ids /\ j # 0 /\ k # 0
  BY SellIsId, SMT DEF Sells
<1>3. ASSUME NEW id \in Ids, NEW i, disk'.intent = [disk.intent EXCEPT ![id] = i]
      PROVE  j = k
  <2>1. \A x \in Ids : x # id => disk'.intent[x] = disk.intent[x]
    BY <1>1, <1>3, Zenon DEF LedgerSet
  <2>2. <<t, j>> = id /\ <<t, k>> = id
    BY <1>2, <2>1, Zenon
  <2> QED BY <2>2, SMT
<1>4. CASE UNCHANGED <<disk, wire>>
  BY <1>4
<1>5. CASE Decides
  <2>1. disk'.intent = disk.intent
    BY <1>1, <1>5, Zenon DEF Decides, LedgerSet
  <2> QED BY <2>1
<1>6. CASE \E id \in Ids : Learns(id) \/ Abandons(id) \/ Cancels(id) \/ Sends(id)
  <2>1. PICK id \in Ids : \E i : disk' = [disk EXCEPT !.intent[id] = i]
    BY <1>6, Zenon DEF Learns, Abandons, Cancels, Sends
  <2>2. PICK i : disk' = [disk EXCEPT !.intent[id] = i]
    BY <2>1
  <2>3. disk'.intent = [disk.intent EXCEPT ![id] = i]
    BY <1>1, <2>2, Zenon DEF LedgerSet
  <2> QED BY <1>3, <2>3
<1>7. CASE \E n \in Trades, q \in Nat \ {0}, s \in Symbols : PushesBuy(n, q, s)
  <2>1. PICK n \in Trades, q \in Nat \ {0}, s \in Symbols : PushesBuy(n, q, s)
    BY <1>7
  <2>2. disk'.intent = [disk.intent EXCEPT ![Buy(n)] = NewIntent(q)]
    BY <1>1, <2>1, Zenon DEF PushesBuy, LedgerSet
  <2> QED BY <1>3, <2>2, BuyIsId
<1>8. CASE \E u \in Trades, m \in Sells, q \in Nat \ {0} : PushesSell(u, m, q)
  <2>1. PICK u \in Trades, m \in Sells, q \in Nat \ {0} : PushesSell(u, m, q)
    BY <1>8
  <2>2. disk'.intent = [disk.intent EXCEPT ![<<u, m>>] = NewIntent(q)]
    BY <1>1, <2>1, Zenon DEF PushesSell, LedgerSet
  <2> QED BY <1>3, <2>2, SellIsId
<1> QED BY <1>4, <1>5, <1>6, <1>7, <1>8, Zenon DEF RunnerStep

(* Broker and time leave the ledger alone, and nothing new is sent.        *)
LEMMA OnlyTheRunnerWrites ==
    ASSUME Broker \/ Time
    PROVE  UNCHANGED <<mem, disk>> /\ wire' \subseteq wire
BY Zenon DEF Broker, Time, Accept, Drop, Fill, Finish, SignalExpires, GraceElapses,
             CloseMarket, OpenMarket, ledger, broker

(* No client order id is sent twice, whatever is lost, retried or          *)
(* restarted in between (sync_intent submits only an intent it has not     *)
(* attempted).                                                             *)
THEOREM EachIdSentOnce == Spec => SentOnce
<1> DEFINE Once == \A id \in Ids : OnWire(id)' /\ ~OnWire(id) =>
                       ~disk.intent[id].attempted /\ orders[id] = NoOrder
<1>1. ASSUME Inv, Runner  PROVE Once
  <2> SUFFICES ASSUME NEW id \in Ids, OnWire(id)', ~OnWire(id)
               PROVE  ~disk.intent[id].attempted /\ orders[id] = NoOrder
    OBVIOUS
  <2>1. PICK r \in wire' : r.id = id
    BY Zenon DEF OnWire
  <2>2. r \notin wire
    BY <2>1, Zenon DEF OnWire
  <2>3. PICK j \in Ids : Sends(j) /\ r = [id |-> j, symbol |-> disk.symbol[j[1]],
                                          qty |-> disk.intent[j].qty]
    BY <1>1, <2>2, RunnerMoves, WireMoves, Zenon
  <2>4. j = id
    BY <2>1, <2>3, SMT
  <2>5. ~disk.intent[id].attempted
    BY <2>3, <2>4, Zenon DEF Sends
  <2> QED BY <1>1, <2>5, Zenon DEF Inv, SentIsDurable, Recorded
<1>2. ASSUME Broker \/ Time  PROVE Once
  BY <1>2, OnlyTheRunnerWrites, Zenon DEF OnWire
<1>3. ASSUME UNCHANGED vars  PROVE Once
  BY <1>3, Zenon DEF OnWire, vars
<1>4. Inv /\ [Next]_vars => [Once]_vars
  BY <1>1, <1>2, <1>3, Zenon DEF Next
<1> QED BY <1>4, InvHolds, PTL DEF Spec, SentOnce

(* A finished intent stays exactly as it is: no answer, retry or restart   *)
(* revises an outcome the runner has acted on (Intent::done).              *)
THEOREM FinishedIsFinal == Spec => DoneIsFinal
<1> DEFINE Final == \A id \in Ids : Done(disk.intent[id]) => disk.intent'[id] = disk.intent[id]
<1>1. ASSUME Inv, Runner  PROVE Final
  <2> SUFFICES ASSUME NEW id \in Ids, Done(disk.intent[id])
               PROVE  disk'.intent[id] = disk.intent[id]
    BY Zenon
  <2>1. Exists(disk.intent[id])
    BY <1>1, NoIntentNotDone, Zenon DEF Inv, GoodLedger
  <2>2. Moves(id)
    BY <1>1, RunnerMoves, IntentMoves, Zenon
  <2> QED BY <2>1, <2>2, Zenon DEF Moves, Learns, Abandons, Cancels, Sends
<1>2. ASSUME (Broker \/ Time) \/ UNCHANGED vars  PROVE Final
  BY <1>2, OnlyTheRunnerWrites, Zenon DEF vars
<1>3. Inv /\ [Next]_vars => [Final]_vars
  BY <1>1, <1>2, Zenon DEF Next
<1> QED BY <1>3, InvHolds, PTL DEF Spec, DoneIsFinal

-----------------------------------------------------------------------------
(* One unfinished sell per trade.                                          *)

SellsApart == \A t \in Trades : \A j, k \in OpenSells(disk, t) : j = k

(* No step leaves a trade with two unfinished sells: exit_trade pushes one *)
(* only after finding none.                                                *)
LEMMA SellsStayApart == Inv /\ SellsApart /\ [Next]_vars => SellsApart'
<1>1. ASSUME Inv, SellsApart, Runner  PROVE SellsApart'
  <2>1. RunnerStep
    BY <1>1, RunnerMoves
  <2>2. ASSUME NEW t \in Trades, NEW k \in OpenSells(disk', t), k \notin OpenSells(disk, t)
        PROVE  /\ OpenSells(disk, t) = {}
               /\ ~Exists(disk.intent[<<t, k>>])
    <3>1. k \in Sells /\ <<t, k>> \in Ids /\ <<t, k>>[1] = t /\ <<t, k>>[2] = k /\ k # 0
      BY <2>2, SellIsId, SMT DEF OpenSells, Sells
    <3>2. Exists(disk'.intent[<<t, k>>]) /\ ~Done(disk'.intent[<<t, k>>])
      BY <2>2, Zenon DEF OpenSells
    <3>3. ~Exists(disk.intent[<<t, k>>]) \/ Done(disk.intent[<<t, k>>])
      BY <2>2, <3>1, Zenon DEF OpenSells
    <3>4. Moves(<<t, k>>)
      BY <1>1, <2>1, <3>1, IntentMoves, Zenon
    <3>5. disk'.intent[<<t, k>>] # disk.intent[<<t, k>>]
      BY <3>2, <3>3, Zenon
    <3>6. ~Learns(<<t, k>>) /\ ~Abandons(<<t, k>>) /\ ~Cancels(<<t, k>>) /\ ~Sends(<<t, k>>)
      <4>1. disk.intent[<<t, k>>].attempted => Exists(disk.intent[<<t, k>>])
        BY <1>1, <3>1, NoIntentNotDone, Zenon DEF Inv, GoodLedger
      <4> QED BY <3>3, <4>1, Zenon DEF Learns, Abandons, Cancels, Sends
    <3> QED BY <3>1, <3>4, <3>5, <3>6, Zenon DEF Moves
  <2>3. ASSUME NEW t \in Trades, NEW j \in OpenSells(disk', t), NEW k \in OpenSells(disk', t),
               j \notin OpenSells(disk, t)
        PROVE  j = k
    <3>1. OpenSells(disk, t) = {} /\ ~Exists(disk.intent[<<t, j>>])
      BY <2>2, <2>3
    <3>2. ~Exists(disk.intent[<<t, k>>])
      BY <2>2, <3>1, Zenon
    <3>3. Exists(disk'.intent[<<t, j>>]) /\ Exists(disk'.intent[<<t, k>>])
          /\ j \in Sells /\ k \in Sells
      BY Zenon DEF OpenSells
    <3> QED BY <1>1, <2>1, <3>1, <3>2, <3>3, OnePushAtATime, Zenon
  <2>4. ASSUME NEW t \in Trades, NEW j \in OpenSells(disk', t), NEW k \in OpenSells(disk', t)
        PROVE  j = k
    BY <1>1, <2>3, Zenon DEF SellsApart
  <2> QED BY <2>4, Zenon DEF SellsApart
<1>2. ASSUME SellsApart, (Broker \/ Time) \/ UNCHANGED vars  PROVE SellsApart'
  <2>1. disk' = disk
    BY <1>2, OnlyTheRunnerWrites, Zenon DEF vars
  <2> QED BY <1>2, <2>1, Zenon DEF SellsApart
<1> QED BY <1>1, <1>2, Zenon DEF Next

(* exit_trade never has two unfinished sells of one trade, for any number  *)
(* of partial fills, retries, abandoned sells and restarts.                *)
THEOREM OneOpenSellEach == Spec => []OneOpenSell
<1>1. Init => SellsApart
  BY SMT DEF Init, SellsApart, OpenSells, EmptyLedger, NoIntent, Exists, Trades, Sells, Ids
<1>2. SellsApart => OneOpenSell
  <2> SUFFICES ASSUME SellsApart, NEW t \in Trades
               PROVE  Cardinality(OpenSells(disk, t)) <= 1
    BY Zenon DEF OneOpenSell
  <2>1. CASE OpenSells(disk, t) = {}
    BY <2>1, FS_EmptySet, SMT
  <2>2. CASE OpenSells(disk, t) # {}
    <3>1. PICK k \in OpenSells(disk, t) : TRUE
      BY <2>2, Zenon
    <3>2. \A j \in OpenSells(disk, t) : j = k
      BY <3>1, Zenon DEF SellsApart
    <3>3. OpenSells(disk, t) = {k}
      BY <3>1, <3>2, SMT
    <3> QED BY <3>3, FS_Singleton, SMT
  <2> QED BY <2>1, <2>2
<1> QED BY <1>1, <1>2, SellsStayApart, InvHolds, PTL DEF Spec

-----------------------------------------------------------------------------
(* The ledger and the broker.                                              *)

(* A request on its way has no order yet, and an id is on its way once.    *)
NotYetAccepted ==
    /\ \A r \in wire : orders[r.id] = NoOrder
    /\ \A id \in Ids : \A q, r \in wire : q.id = id /\ r.id = id => q = r

Trails == NotYetAccepted /\ LedgerTrailsBroker

(* What the runner writes about an order is what the broker answered, so   *)
(* its steps keep the ledger behind the broker.                            *)
LEMMA RunnerTrails ==
    ASSUME Inv, Trails, Runner
    PROVE  Trails'
<1>1. RunnerStep /\ orders' = orders
  BY RunnerMoves, Zenon DEF RunnerStep
<1>2. \A r \in wire : r \in [id: Ids, symbol: Symbols, qty: Nat \ {0}]
  BY Zenon DEF Inv, TypeOK
<1>3. ASSUME NEW r \in wire'
      PROVE  /\ r.id \in Ids /\ orders[r.id] = NoOrder
             /\ r \notin wire => /\ ~disk.intent[r.id].attempted
                                 /\ r = [id |-> r.id, symbol |-> disk.symbol[r.id[1]],
                                         qty |-> disk.intent[r.id].qty]
  <2>1. CASE r \in wire
    BY <1>2, <2>1, Zenon DEF Trails, NotYetAccepted
  <2>2. CASE r \notin wire
    <3>1. PICK id \in Ids : /\ Sends(id)
                            /\ r = [id |-> id, symbol |-> disk.symbol[id[1]],
                                    qty |-> disk.intent[id].qty]
      BY <1>1, <2>2, WireMoves, Zenon
    <3>2. r.id = id
      BY <3>1, SMT
    <3>3. ~disk.intent[id].attempted
      BY <3>1, Zenon DEF Sends
    <3>4. orders[id] = NoOrder
      BY <3>3, Zenon DEF Inv, SentIsDurable, Recorded
    <3> QED BY <2>2, <3>1, <3>2, <3>3, <3>4
  <2> QED BY <2>1, <2>2
<1>4. ASSUME NEW r \in wire  PROVE disk.intent[r.id].attempted
  BY Zenon DEF Inv, SentIsDurable, Recorded
<1>5. ASSUME NEW q \in wire', NEW r \in wire', q.id = r.id  PROVE q = r
  <2>1. CASE q \in wire /\ r \in wire
    BY <1>2, <1>5, <2>1, Zenon DEF Trails, NotYetAccepted
  <2>2. CASE q \notin wire /\ r \notin wire
    BY <1>3, <1>5, <2>2, Zenon
  <2>3. CASE q \in wire /\ r \notin wire
    <3>1. disk.intent[q.id].attempted /\ ~disk.intent[r.id].attempted
      BY <1>3, <1>4, <2>3
    <3> QED BY <1>5, <3>1
  <2>4. CASE q \notin wire /\ r \in wire
    <3>1. ~disk.intent[q.id].attempted /\ disk.intent[r.id].attempted
      BY <1>3, <1>4, <2>4
    <3> QED BY <1>5, <3>1
  <2> QED BY <2>1, <2>2, <2>3, <2>4
<1>6. NotYetAccepted'
  BY <1>1, <1>3, <1>5, Zenon DEF NotYetAccepted
<1>7. ASSUME NEW id \in Ids
      PROVE  /\ disk'.intent[id].order.filled <= orders[id].filled
             /\ Terminal(disk'.intent[id].order) => disk'.intent[id].order = orders[id]
  <2>1. disk.intent[id] \in IntentSet /\ orders[id] \in OrderSet
    BY Zenon DEF Inv, TypeOK, GoodLedger, LedgerSet
  <2>2. Moves(id)
    BY <1>1, IntentMoves
  <2>3. CASE disk'.intent[id].order = disk.intent[id].order
    BY <2>3, Zenon DEF Trails, LedgerTrailsBroker
  <2>4. CASE disk'.intent[id] = [disk.intent[id] EXCEPT !.order = orders[id]]
    <3>1. disk'.intent[id].order = orders[id]
      BY <2>1, <2>4, Zenon DEF IntentSet
    <3> QED BY <2>1, <3>1, SMT DEF OrderSet
  <2>5. CASE \E q \in Nat \ {0} : disk'.intent[id] = NewIntent(q)
    <3>1. disk'.intent[id].order = NoOrder
      BY <2>5, NoIntentIsTyped, Zenon DEF NewIntent, NoIntent, IntentSet
    <3> QED BY <2>1, <3>1, SMT DEF OrderSet, NoOrder, Terminal
  <2>6. /\ [disk.intent[id] EXCEPT !.abandoned = TRUE].order = disk.intent[id].order
        /\ [disk.intent[id] EXCEPT !.canceled = TRUE].order = disk.intent[id].order
        /\ [disk.intent[id] EXCEPT !.attempted = TRUE].order = disk.intent[id].order
    BY <2>1, Zenon DEF IntentSet
  <2> QED BY <2>2, <2>3, <2>4, <2>5, <2>6, Zenon DEF Moves
<1>8. LedgerTrailsBroker'
  BY <1>1, <1>7, Zenon DEF LedgerTrailsBroker
<1> QED BY <1>6, <1>8 DEF Trails

(* The broker only moves an order forward, and never one that has ended,   *)
(* so its steps keep the ledger behind it too.                             *)
LEMMA OthersTrail ==
    ASSUME Inv, Trails, Broker \/ Time
    PROVE  Trails'
<1>1. disk' = disk /\ wire' \subseteq wire
  BY OnlyTheRunnerWrites
<1>2. /\ \A r \in wire : r.id \in Ids
      /\ orders \in [Ids -> OrderSet]
      /\ \A id \in Ids : disk.intent[id] \in IntentSet
  BY SMT DEF Inv, TypeOK, LedgerSet
<1>3. ASSUME NEW id \in Ids  PROVE disk.intent[id].order \in OrderSet
  BY <1>2, Zenon DEF IntentSet
<1>4. CASE UNCHANGED orders
  BY <1>1, <1>4, Zenon DEF Trails, NotYetAccepted, LedgerTrailsBroker
<1>5. ASSUME NEW r \in wire, Accept(r)  PROVE Trails'
  <2> DEFINE o == [symbol |-> r.symbol, qty |-> r.qty, filled |-> 0, status |-> "open"]
  <2>1. orders' = [orders EXCEPT ![r.id] = o] /\ wire' = wire \ {r}
    BY <1>5, Zenon DEF Accept
  <2>2. o.filled = 0
    OBVIOUS
  <2> HIDE DEF o
  <2>3. \A id \in Ids : orders'[id] = IF id = r.id THEN o ELSE orders[id]
    BY <1>2, <2>1, Zenon
  <2>4. \A q \in wire' : q.id # r.id
    BY <1>2, <2>1, Zenon DEF Trails, NotYetAccepted
  <2>5. NotYetAccepted'
    BY <1>1, <1>2, <2>3, <2>4, Zenon DEF Trails, NotYetAccepted
  <2>6. orders[r.id] = NoOrder
    BY Zenon DEF Trails, NotYetAccepted
  <2>7. /\ disk.intent[r.id].order.filled <= 0
        /\ ~Terminal(disk.intent[r.id].order)
    <3>1. /\ disk.intent[r.id].order.filled <= NoOrder.filled
          /\ Terminal(disk.intent[r.id].order) => disk.intent[r.id].order = NoOrder
      BY <1>2, <2>6, Zenon DEF Trails, LedgerTrailsBroker
    <3> QED BY <3>1, SMT DEF NoOrder, Terminal
  <2>8. LedgerTrailsBroker'
    BY <1>1, <2>2, <2>3, <2>7, Zenon DEF Trails, LedgerTrailsBroker
  <2> QED BY <2>5, <2>8 DEF Trails
<1>6. ASSUME NEW id \in Ids, NEW o, orders' = [orders EXCEPT ![id] = o],
             orders[id].status = "open", o.filled \in Nat, orders[id].filled <= o.filled
      PROVE  Trails'
  <2>1. \A j \in Ids : orders'[j] = IF j = id THEN o ELSE orders[j]
    BY <1>2, <1>6, Zenon
  <2>2. orders[id] # NoOrder
    BY <1>6, SMT DEF NoOrder
  <2>3. NotYetAccepted'
    BY <1>1, <1>2, <2>1, <2>2, Zenon DEF Trails, NotYetAccepted
  <2>4. /\ disk.intent[id].order.filled <= orders[id].filled
        /\ ~Terminal(disk.intent[id].order)
    BY <1>6, SMT DEF Trails, LedgerTrailsBroker, Terminal
  <2>5. disk.intent[id].order.filled <= o.filled
    BY <1>2, <1>3, <1>6, <2>4, SMT DEF OrderSet
  <2>6. LedgerTrailsBroker'
    BY <1>1, <2>1, <2>4, <2>5, Zenon DEF Trails, LedgerTrailsBroker
  <2> QED BY <2>3, <2>6 DEF Trails
<1>7. ASSUME NEW id \in Ids, Fill(id)  PROVE Trails'
  <2> DEFINE n == orders[id].filled + 1
             st == IF n = orders[id].qty THEN "filled" ELSE "open"
             o == [orders[id] EXCEPT !.filled = n, !.status = st]
  <2>1. orders' = [orders EXCEPT ![id] = o] /\ orders[id].status = "open"
    BY <1>7, Zenon DEF Fill
  <2>2. o.filled = n
    BY <1>2, Zenon DEF OrderSet
  <2>3. n \in Nat /\ orders[id].filled <= n
    BY <1>2, SMT DEF OrderSet
  <2> HIDE DEF n, o
  <2>4. o.filled \in Nat /\ orders[id].filled <= o.filled
    BY <2>2, <2>3, Zenon
  <2> QED BY <1>6, <2>1, <2>4, Zenon
<1>8. ASSUME NEW id \in Ids, NEW st \in {"canceled", "rejected"}, Finish(id, st)
      PROVE  Trails'
  <2> DEFINE o == [orders[id] EXCEPT !.status = st]
  <2>1. orders' = [orders EXCEPT ![id] = o] /\ orders[id].status = "open"
    BY <1>8, Zenon DEF Finish
  <2>2. o.filled = orders[id].filled
    BY <1>2, Zenon DEF OrderSet
  <2>3. orders[id].filled \in Nat /\ orders[id].filled <= orders[id].filled
    BY <1>2, SMT DEF OrderSet
  <2> HIDE DEF o
  <2>4. o.filled \in Nat /\ orders[id].filled <= o.filled
    BY <2>2, <2>3, Zenon
  <2> QED BY <1>6, <2>1, <2>4, Zenon
<1>9. CASE Time \/ \E r \in wire : Drop(r)
  <2>1. UNCHANGED orders
    BY <1>9, Zenon DEF Time, Drop, SignalExpires, GraceElapses, CloseMarket, OpenMarket, broker
  <2> QED BY <1>4, <2>1
<1> QED BY <1>5, <1>7, <1>8, <1>9, Zenon DEF Broker

(* The ledger trails the broker in every reachable state.                  *)
LEMMA TrailsHolds == Spec => []Trails
<1>1. Init => Trails
  <2> SUFFICES ASSUME Init PROVE Trails
    OBVIOUS
  <2>1. NotYetAccepted
    BY Zenon DEF Init, NotYetAccepted
  <2>2. \A id \in Ids : disk.intent[id].order = NoOrder /\ orders[id] = NoOrder
    BY SMT DEF Init, EmptyLedger, NoIntent
  <2>3. NoOrder.filled <= NoOrder.filled
    BY SMT DEF NoOrder
  <2>4. LedgerTrailsBroker
    BY <2>2, <2>3, Zenon DEF LedgerTrailsBroker
  <2> QED BY <2>1, <2>4 DEF Trails
<1>2. Trails /\ UNCHANGED vars => Trails'
  BY Zenon DEF Trails, NotYetAccepted, LedgerTrailsBroker, vars
<1>3. Inv /\ Trails /\ [Next]_vars => Trails'
  BY <1>2, RunnerTrails, OthersTrail, Zenon DEF Next
<1> QED BY <1>1, <1>3, InvHolds, PTL DEF Spec

(* The ledger never runs ahead of the broker, and what it holds as         *)
(* terminal is the broker's terminal order: no interleaving of fills,      *)
(* answers and lookups makes it record a fill that did not happen.         *)
THEOREM LedgerAlwaysTrails == Spec => []LedgerTrailsBroker
<1>1. Trails => LedgerTrailsBroker BY DEF Trails
<1> QED BY <1>1, TrailsHolds, PTL

-----------------------------------------------------------------------------
(* Giving up.                                                              *)

(* The grace window runs from an attempt, and unless a POST can outlive it *)
(* nothing is on its way when it has elapsed.                              *)
GraceInv ==
    /\ \A id \in graceOver : disk.intent[id].attempted
    /\ \A id \in graceOver : ~OnWire(id)
    /\ \A id \in Ids : disk.intent[id].canceled => ~disk.intent[id].attempted
    /\ \A id \in Ids : disk.intent[id].abandoned => orders[id] = NoOrder /\ ~OnWire(id)

(* The runner gives an intent up only where no request of it can still be  *)
(* on its way.                                                             *)
LEMMA RunnerGrace ==
    ASSUME Inv, GraceInv, Runner
    PROVE  GraceInv'
<1>1. RunnerStep /\ orders' = orders /\ graceOver' = graceOver
  BY RunnerMoves, Zenon DEF RunnerStep, world
<1>2. graceOver \subseteq Ids
  BY Zenon DEF Inv, TypeOK
<1>3. ASSUME NEW id \in Ids, ~Sends(id), ~OnWire(id)
      PROVE  ~OnWire(id)'
  <2> SUFFICES ASSUME NEW r \in wire', r.id = id  PROVE FALSE
    BY Zenon DEF OnWire
  <2>1. r \notin wire
    BY <1>3, Zenon DEF OnWire
  <2>2. PICK j \in Ids : Sends(j) /\ r = [id |-> j, symbol |-> disk.symbol[j[1]],
                                          qty |-> disk.intent[j].qty]
    BY <1>1, <2>1, WireMoves, Zenon
  <2>3. j = id
    BY <2>2, SMT
  <2> QED BY <1>3, <2>2, <2>3, Zenon
<1>4. /\ \A id \in graceOver' : disk'.intent[id].attempted
      /\ \A id \in graceOver' : ~OnWire(id)'
  BY <1>1, <1>2, <1>3, AttemptedStays, Zenon DEF GraceInv, Sends
<1>5. ASSUME NEW id \in Ids
      PROVE  /\ disk'.intent[id].canceled => ~disk'.intent[id].attempted
             /\ disk'.intent[id].abandoned => orders[id] = NoOrder /\ ~OnWire(id)'
  <2> DEFINE i == disk.intent[id]  j == disk'.intent[id]
  <2>1. /\ i \in IntentSet
        /\ i.canceled => ~i.attempted
        /\ i.abandoned => orders[id] = NoOrder /\ ~OnWire(id)
    BY Zenon DEF Inv, GoodLedger, LedgerSet, GraceInv
  <2>2. Moves(id)
    BY <1>1, IntentMoves
  <2>3. CASE j = i
    BY <1>3, <2>1, <2>3, Zenon DEF Sends, Done
  <2>4. CASE Learns(id) /\ j = [i EXCEPT !.order = orders[id]]
    <3>1. ~Done(i) /\ j.canceled = i.canceled /\ j.abandoned = i.abandoned
      BY <2>1, <2>4, ZenonT(30) DEF Learns, IntentSet
    <3> QED BY <3>1, Zenon DEF Done
  <2>5. CASE Abandons(id) /\ j = [i EXCEPT !.abandoned = TRUE]
    <3>1. /\ ~Done(i) /\ j.canceled = i.canceled
          /\ i.attempted /\ orders[id] = NoOrder /\ id \in graceOver
      BY <2>1, <2>5, Zenon DEF Abandons, IntentSet
    <3>2. ~Sends(id) /\ ~OnWire(id)
      BY <3>1, Zenon DEF Sends, GraceInv
    <3> QED BY <1>3, <3>1, <3>2, Zenon DEF Done
  <2>6. CASE Cancels(id) /\ j = [i EXCEPT !.canceled = TRUE]
    <3>1. ~Done(i) /\ ~i.attempted /\ j.attempted = i.attempted /\ j.abandoned = i.abandoned
      BY <2>1, <2>6, Zenon DEF Cancels, IntentSet
    <3> QED BY <3>1, Zenon DEF Done
  <2>7. CASE Sends(id) /\ j = [i EXCEPT !.attempted = TRUE]
    <3>1. ~Done(i) /\ j.canceled = i.canceled /\ j.abandoned = i.abandoned
      BY <2>1, <2>7, Zenon DEF Sends, IntentSet
    <3> QED BY <3>1, Zenon DEF Done
  <2>8. CASE \E q \in Nat \ {0} : j = NewIntent(q)
    BY <2>8, NewIntentIsLive, Zenon DEF Done
  <2> QED BY <2>2, <2>3, <2>4, <2>5, <2>6, <2>7, <2>8, Zenon DEF Moves
<1> QED BY <1>1, <1>4, <1>5, Zenon DEF GraceInv

(* Nothing the broker or the clock does brings a request or an order to an *)
(* intent that was given up.                                               *)
LEMMA OthersGrace ==
    ASSUME Inv, GraceInv, ~LateArrival, Broker \/ Time
    PROVE  GraceInv'
<1>1. disk' = disk /\ wire' \subseteq wire
  BY OnlyTheRunnerWrites
<1>2. \A id : ~OnWire(id) => ~OnWire(id)'
  BY <1>1, Zenon DEF OnWire
<1>3. orders \in [Ids -> OrderSet]
  BY Zenon DEF Inv, TypeOK
<1>4. ASSUME NEW id \in Ids, NEW o, orders' = [orders EXCEPT ![id] = o],
             orders[id] # NoOrder \/ OnWire(id), graceOver' = graceOver
      PROVE  GraceInv'
  <2>1. \A j \in Ids : orders'[j] = IF j = id THEN o ELSE orders[j]
    BY <1>3, <1>4, Zenon
  <2>2. ~disk.intent[id].abandoned
    BY <1>4, Zenon DEF GraceInv
  <2> QED BY <1>1, <1>2, <1>4, <2>1, <2>2, Zenon DEF GraceInv
<1>5. ASSUME NEW r \in wire, Accept(r)  PROVE GraceInv'
  <2>1. r.id \in Ids /\ OnWire(r.id)
    BY Zenon DEF OnWire, Inv, TypeOK
  <2>2. graceOver' = graceOver
        /\ \E o : orders' = [orders EXCEPT ![r.id] = o]
    BY <1>5, Zenon DEF Accept, world
  <2> QED BY <1>4, <2>1, <2>2, Zenon
<1>6. ASSUME NEW id \in Ids,
             Fill(id) \/ \E st \in {"canceled", "rejected"} : Finish(id, st)
      PROVE  GraceInv'
  <2>1. orders[id] # NoOrder
    BY <1>6, SMT DEF Fill, Finish, NoOrder
  <2>2. graceOver' = graceOver
        /\ \E o : orders' = [orders EXCEPT ![id] = o]
    BY <1>6, Zenon DEF Fill, Finish, world
  <2> QED BY <1>4, <2>1, <2>2, Zenon
<1>7. ASSUME orders' = orders,
             \A id \in graceOver' \ graceOver : disk.intent[id].attempted /\ ~OnWire(id)
      PROVE  GraceInv'
  BY <1>1, <1>2, <1>7, Zenon DEF GraceInv
<1>8. CASE (\E r \in wire : Drop(r)) \/ (\E t \in Trades : SignalExpires(t)) \/ CloseMarket
  <2>1. orders' = orders /\ graceOver' = graceOver
    BY <1>8, Zenon DEF Drop, SignalExpires, CloseMarket, broker, world
  <2> QED BY <1>7, <2>1, Zenon
<1>9. CASE \E id \in Ids : GraceElapses(id)
  BY <1>7, <1>9, Zenon DEF GraceElapses, broker
<1>10. CASE OpenMarket
  <2>1. wire = {} /\ graceOver' = graceOver \cup Pending(disk) /\ orders' = orders
    BY <1>10, Zenon DEF OpenMarket, broker
  <2> QED BY <1>7, <2>1, Zenon DEF Pending, OnWire
<1> QED BY <1>5, <1>6, <1>8, <1>9, <1>10, Zenon DEF Broker, Time

(* Nothing given up is on its way, in any reachable state.                 *)
LEMMA GraceHolds ==
    ASSUME ~LateArrival
    PROVE  Spec => []GraceInv
<1>1. Init => GraceInv
  BY SMT DEF Init, GraceInv, EmptyLedger, NoIntent
<1>2. GraceInv /\ UNCHANGED vars => GraceInv'
  BY Zenon DEF GraceInv, OnWire, vars
<1>3. Inv /\ GraceInv /\ [Next]_vars => GraceInv'
  BY <1>2, RunnerGrace, OthersGrace, Zenon DEF Next
<1> QED BY <1>1, <1>3, InvHolds, PTL DEF Spec

(* An intent canceled locally or abandoned has no order and no request.    *)
LEMMA GivenUp == Inv /\ GraceInv => GivenUpHasNoOrder
BY Zenon DEF Inv, SentIsDurable, Recorded, GraceInv, GivenUpHasNoOrder, OnWire

(* Unless a POST outlives the grace window (LateArrival), an intent the    *)
(* runner gave up on has no order and never will: neither the slot of an   *)
(* abandoned buy nor the shares of an abandoned sell are used twice        *)
(* (Intent::abandon_if_no_broker_order).                                   *)
THEOREM GivenUpStaysWithoutOrder ==
    ASSUME ~LateArrival
    PROVE  Spec => []GivenUpHasNoOrder
<1> QED BY GivenUp, GraceHolds, InvHolds, PTL

-----------------------------------------------------------------------------
(* Position slots.                                                         *)

(* Where an entry can be left from.                                        *)
LEMMA FromEntryClock ==
    ASSUME Inv, Runner, at.pc = "entryClock"
    PROVE  at'.task # "entry"
<1>1. at.task = "entry" /\ GoodPoint(disk, at) BY DEF Inv, GoodPoint
<1>2. Idle.pc = "idle" BY DEF Idle, Point
<1>3. \/ EntrySkipped \/ CallFails \/ Crash
      \/ \E n \in FreeTrades(mem), q \in 1..MaxQty : EntryPushed(n, q)
  <2>1. ~SyncIntent
    BY DEF SyncIntent, LookupFound, LookupMissing, SubmitMarketClosed, CancelLocally,
           Attempt, PostAnswered, PostFails
  <2>2. ~Manage
    BY <1>2 DEF Manage, Tick, TickClock, TimerExit, FetchBars, BarExit, BarsDone
  <2>3. ~Exit
    BY <1>2 DEF Exit, EventExit, ExitClock, ExitPositions, ExitRefused, PushSell
  <2>4. ~Start /\ ~Verify BY DEF Start, Verify
  <2>5. \/ EntrySkipped
        \/ \E n \in FreeTrades(mem), q \in 1..MaxQty : EntryPushed(n, q)
        \/ ~Enter
    BY <1>2 DEF Enter, EventEnter, EntryPositions, EntryOrders
  <2> QED BY <2>1, <2>2, <2>3, <2>4, <2>5 DEF Runner
<1>4. Idle.task # "entry" /\ Down.task # "entry" BY DEF Idle, Down, Point
<1>5. CASE EntrySkipped \/ Crash BY <1>4, <1>5 DEF EntrySkipped, Crash, Go
<1>6. CASE CallFails
  <2>1. at' = Fail(mem, "entry", at.id) BY <1>1, <1>6 DEF CallFails, Go
  <2> QED BY <1>4, <2>1 DEF Fail
<1>7. ASSUME NEW n \in FreeTrades(mem), NEW q, EntryPushed(n, q) PROVE at'.task # "entry"
  <2>1. PICK l : at' = SyncPoint(l, "enter", Buy(n)) BY <1>7 DEF EntryPushed, Go
  <2> QED BY <2>1 DEF SyncPoint, Point
<1> QED BY <1>3, <1>5, <1>6, <1>7

(* Trades with the same fills have sold as much.                           *)
LEMMA SoldSame ==
    ASSUME NEW l, NEW m, NEW t, \A k \in Sells : Filled(l, <<t, k>>) = Filled(m, <<t, k>>)
    PROVE  Sold(l, t) = Sold(m, t)
<1>1. [k \in Sells |-> Filled(l, <<t, k>>)] = [k \in Sells |-> Filled(m, <<t, k>>)]
  OBVIOUS
<1> QED BY <1>1, SoldIs, Zenon

(* A trade none of whose intents changed is as active as it was.           *)
LEMMA ActiveSame ==
    ASSUME NEW l, NEW m, NEW t \in Trades,
           \A k \in 0..MaxSells : l.intent[<<t, k>>] = m.intent[<<t, k>>]
    PROVE  Active(l, t) <=> Active(m, t)
<1>1. 0 \in 0..MaxSells /\ \A k \in Sells : k \in 0..MaxSells
  BY BoundsAssumption DEF Sells
<1>2. l.intent[Buy(t)] = m.intent[Buy(t)] BY <1>1 DEF Buy
<1>3. \A k \in Sells : l.intent[<<t, k>>] = m.intent[<<t, k>>] BY <1>1
<1>4. OpenSells(l, t) = OpenSells(m, t) BY <1>3, Zenon DEF OpenSells
<1>5. Sold(l, t) = Sold(m, t) BY <1>3, SoldSame, Zenon DEF Filled
<1>6. Remaining(l, t) = Remaining(m, t) BY <1>2, <1>5, Zenon DEF Remaining, Filled
<1> QED BY <1>2, <1>4, <1>6, Zenon DEF Active, Pushed

(* Only a buy makes a trade active.                                        *)
LEMMA ActiveStays ==
    ASSUME Inv, RunnerStep, NEW t \in Trades, Active(disk', t), ~Active(disk, t)
    PROVE  \E q \in Nat \ {0}, s \in Symbols : PushesBuy(t, q, s)
<1>1. disk \in LedgerSet /\ GoodLedger(disk) BY Zenon DEF Inv, GoodLedger
<1>2. ASSUME NEW id \in Ids, id[1] # t, NEW i, disk'.intent = [disk.intent EXCEPT ![id] = i]
      PROVE  FALSE
  <2>1. \A k \in 0..MaxSells : <<t, k>> \in Ids /\ <<t, k>> # id
    BY <1>2 DEF Ids
  <2>2. \A k \in 0..MaxSells : disk'.intent[<<t, k>>] = disk.intent[<<t, k>>]
    BY <1>1, <1>2, <2>1, Zenon DEF LedgerSet
  <2> QED BY <2>2, ActiveSame
<1>3. ASSUME disk'.intent = disk.intent PROVE FALSE
  BY <1>3, ActiveSame
<1>4. CASE UNCHANGED <<disk, wire>> BY <1>3, <1>4
<1>5. CASE Decides
  <2>1. disk'.intent = disk.intent BY <1>1, <1>5, Zenon DEF Decides, LedgerSet
  <2> QED BY <1>3, <2>1
<1>6. CASE \E id \in Ids : Learns(id) \/ Abandons(id) \/ Cancels(id) \/ Sends(id)
  <2>1. PICK id \in Ids : Learns(id) \/ Abandons(id) \/ Cancels(id) \/ Sends(id) BY <1>6
  <2>2. PICK i : disk' = [disk EXCEPT !.intent[id] = i]
    BY <2>1, Zenon DEF Learns, Abandons, Cancels, Sends
  <2>3. disk'.intent = [disk.intent EXCEPT ![id] = i] BY <1>1, <2>2, Zenon DEF LedgerSet
  <2>4. id[1] = t BY <1>2, <2>3
  <2>5. Exists(disk.intent[id]) /\ ~Done(disk.intent[id])
    BY <1>1, <2>1, NoIntentNotDone, Zenon DEF GoodLedger, Learns, Abandons, Cancels, Sends
  <2>6. Pushed(disk, t) BY <1>1, <2>4, <2>5, Zenon DEF GoodLedger, Pushed
  <2>7. id = <<t, id[2]>> /\ (id[2] = 0 \/ id[2] \in Sells)
    BY <2>4, IdParts, BoundsAssumption DEF Sells
  <2>8. CASE id[2] = 0 BY <2>5, <2>6, <2>7, <2>8, Zenon DEF Active, Buy
  <2>9. CASE id[2] \in Sells
    <3>1. id[2] \in OpenSells(disk, t) BY <2>5, <2>7, <2>9, Zenon DEF OpenSells
    <3> QED BY <2>6, <3>1, Zenon DEF Active
  <2> QED BY <2>7, <2>8, <2>9
<1>7. CASE \E n \in Trades, q \in Nat \ {0}, s \in Symbols : PushesBuy(n, q, s)
  <2>1. PICK n \in Trades, q \in Nat \ {0}, s \in Symbols : PushesBuy(n, q, s) BY <1>7
  <2>2. disk'.intent = [disk.intent EXCEPT ![Buy(n)] = NewIntent(q)]
    BY <1>1, <2>1, Zenon DEF PushesBuy, LedgerSet
  <2>3. Buy(n) \in Ids /\ Buy(n)[1] = n BY BuyIsId DEF Buy
  <2> QED BY <1>2, <2>1, <2>2, <2>3
<1>8. CASE \E u \in Trades, m \in Sells, q \in Nat \ {0} : PushesSell(u, m, q)
  <2>1. PICK u \in Trades, m \in Sells, q \in Nat \ {0} : PushesSell(u, m, q) BY <1>8
  <2>2. disk'.intent = [disk.intent EXCEPT ![<<u, m>>] = NewIntent(q)]
    BY <1>1, <2>1, Zenon DEF PushesSell, LedgerSet
  <2>3. u = t BY <1>2, <2>2, SellIsId
  <2>4. Exists(disk.intent[Buy(t)]) /\ Remaining(disk, t) > 0
    <3>1. Exists(disk.intent[Buy(t)]) /\ q = Remaining(disk, t)
      BY <2>1, <2>3, Zenon DEF PushesSell
    <3> QED BY <3>1
  <2> QED BY <2>4, Zenon DEF Active, Pushed
<1> QED BY <1>4, <1>5, <1>6, <1>7, <1>8, Zenon DEF RunnerStep

SlotsInv ==
    /\ Cardinality(ActiveTrades(disk)) <= MaxConcurrent
    /\ at.task = "entry" => Cardinality(ActiveTrades(disk)) < MaxConcurrent

(* An entry that waits for answers keeps the slot it found: what it learns *)
(* meanwhile only ends trades, and the one buy it may push takes the slot. *)
LEMMA SlotsStay == Inv /\ SlotsInv /\ [Next]_vars => SlotsInv'
<1>1. \A l : IsFiniteSet(ActiveTrades(l)) /\ Cardinality(ActiveTrades(l)) \in Nat
  <2> SUFFICES ASSUME NEW l
               PROVE  IsFiniteSet(ActiveTrades(l)) /\ Cardinality(ActiveTrades(l)) \in Nat
    OBVIOUS
  <2>1. IsFiniteSet(Trades) BY FS_Interval, BoundsAssumption DEF Trades
  <2>2. ActiveTrades(l) \in SUBSET Trades BY Zenon DEF ActiveTrades
  <2>3. IsFiniteSet(ActiveTrades(l)) BY <2>1, <2>2, FS_Subset
  <2> QED BY <2>3, FS_CardinalityType
<1>2. ASSUME Inv, SlotsInv, Runner PROVE SlotsInv'
  <2>1. RunnerStep BY <1>2, RunnerMoves
  <2>2. ControlOK BY <1>2, <2>1, LedgerStaysGood, ControlMoves
  <2> DEFINE c == Cardinality(ActiveTrades(disk))
             d == Cardinality(ActiveTrades(disk'))
  <2>3. c \in Nat /\ d \in Nat BY <1>1
  <2>4. CASE \E n \in Trades, q \in Nat \ {0}, s \in Symbols : PushesBuy(n, q, s)
    <3>1. PICK n \in Trades, q \in Nat \ {0}, s \in Symbols : PushesBuy(n, q, s) BY <2>4
    <3>2. at.pc = "entryClock" /\ at.task = "entry"
      BY <1>2, <3>1 DEF PushesBuy, Inv, GoodPoint
    <3>3. at'.task # "entry" BY <1>2, <3>2, FromEntryClock
    <3>4. ActiveTrades(disk') \in SUBSET (ActiveTrades(disk) \cup {n})
      <4> SUFFICES ASSUME NEW t \in ActiveTrades(disk'), t \notin ActiveTrades(disk)
                   PROVE  t = n
        OBVIOUS
      <4>1. t \in Trades /\ Active(disk', t) /\ ~Active(disk, t) BY Zenon DEF ActiveTrades
      <4>2. PICK p \in Nat \ {0}, r \in Symbols : PushesBuy(t, p, r)
        BY <1>2, <2>1, <4>1, ActiveStays
      <4>3. /\ disk \in LedgerSet /\ Buy(t) \in Ids
            /\ disk'.intent = [disk.intent EXCEPT ![Buy(t)] = NewIntent(p)]
            /\ disk'.intent = [disk.intent EXCEPT ![Buy(n)] = NewIntent(q)]
        <5>1. disk \in LedgerSet BY <1>2, Zenon DEF Inv, TypeOK
        <5>2. disk'.intent = [disk.intent EXCEPT ![Buy(t)] = NewIntent(p)]
          BY <4>2, <5>1, Zenon DEF PushesBuy, LedgerSet
        <5>3. disk'.intent = [disk.intent EXCEPT ![Buy(n)] = NewIntent(q)]
          BY <3>1, <5>1, Zenon DEF PushesBuy, LedgerSet
        <5> QED BY <4>1, <5>1, <5>2, <5>3, BuyIsId, Zenon
      <4>4. /\ disk'.intent[Buy(t)] = NewIntent(p)
            /\ Buy(t) # Buy(n) => disk'.intent[Buy(t)] = disk.intent[Buy(t)]
        BY <4>3, Zenon DEF LedgerSet
      <4>5. ~Exists(disk.intent[Buy(t)]) BY <4>2, Zenon DEF PushesBuy
      <4>6. Buy(t) = Buy(n) BY <4>4, <4>5, NewIntentIsLive, Zenon
      <4> QED BY <4>6 DEF Buy
    <3>5. d <= c + 1
      <4>1. d <= Cardinality(ActiveTrades(disk) \cup {n})
        <5>1. IsFiniteSet(ActiveTrades(disk) \cup {n}) BY <1>1, FS_AddElement
        <5> QED BY <3>4, <5>1, FS_Subset
      <4>2. Cardinality(ActiveTrades(disk) \cup {n}) \in {c, c + 1} BY <1>1, FS_AddElement
      <4> HIDE DEF c, d
      <4> QED BY <2>3, <4>1, <4>2
    <3>6. c < MaxConcurrent BY <1>2, <3>2 DEF SlotsInv
    <3> HIDE DEF c, d
    <3>7. d <= MaxConcurrent BY <2>3, <3>5, <3>6, BoundsAssumption
    <3> QED BY <3>3, <3>7 DEF SlotsInv, d
  <2>5. CASE ~\E n \in Trades, q \in Nat \ {0}, s \in Symbols : PushesBuy(n, q, s)
    <3>1. ActiveTrades(disk') \in SUBSET ActiveTrades(disk)
      BY <1>2, <2>1, <2>5, ActiveStays, Zenon DEF ActiveTrades
    <3>2. d <= c BY <1>1, <3>1, FS_Subset
    <3>3. c <= MaxConcurrent /\ (at.task = "entry" => c < MaxConcurrent)
      BY <1>2 DEF SlotsInv
    <3>4. at'.task = "entry" => c < MaxConcurrent
      <4>1. CASE at.task = "entry" BY <3>3, <4>1
      <4>2. CASE \E s \in Symbols : EventEnter(s)
        BY <1>2, <4>2 DEF EventEnter, EntryGates, Inv
      <4> QED BY <2>2, <4>1, <4>2 DEF ControlOK
    <3> HIDE DEF c, d
    <3>5. d <= MaxConcurrent /\ (at'.task = "entry" => d < MaxConcurrent)
      BY <2>3, <3>2, <3>3, <3>4, BoundsAssumption
    <3> QED BY <3>5 DEF SlotsInv, d
  <2> QED BY <2>4, <2>5
<1>3. ASSUME SlotsInv, Broker \/ Time PROVE SlotsInv'
  <2>1. disk' = disk /\ at' = at
    BY <1>3, Zenon DEF Broker, Time, Accept, Drop, Fill, Finish, SignalExpires, GraceElapses,
                       CloseMarket, OpenMarket, ledger, runner
  <2> QED BY <1>3, <2>1, Zenon DEF SlotsInv
<1>4. ASSUME SlotsInv, UNCHANGED vars PROVE SlotsInv'
  BY <1>4, Zenon DEF SlotsInv, vars
<1> QED BY <1>2, <1>3, <1>4, Zenon DEF Next

(* Active trades never outgrow max_concurrent_positions, for any number of *)
(* symbols, restarts, retries and answers that arrive between the gate and *)
(* the push (the check and the push are several awaits apart).             *)
THEOREM SlotsAreKept == Spec => []WithinSlots
<1>1. Init => SlotsInv
  <2> SUFFICES ASSUME Init PROVE SlotsInv OBVIOUS
  <2>1. ActiveTrades(disk) = {}
    <3>1. \A t \in Trades : ~Pushed(EmptyLedger, t)
      BY BuyIsId, NoIntentNotDone DEF Pushed, EmptyLedger
    <3> QED BY <3>1, Zenon DEF Init, ActiveTrades, Active
  <2>2. at.task # "entry" BY DEF Init, Down, Point
  <2> QED BY <2>1, <2>2, FS_EmptySet, BoundsAssumption DEF SlotsInv
<1>2. SlotsInv => WithinSlots BY DEF SlotsInv, WithinSlots
<1> QED BY <1>1, <1>2, SlotsStay, InvHolds, PTL DEF Spec

-----------------------------------------------------------------------------
(* No oversell.                                                            *)

(* No order fills more than its size, and one that has filled it is over.  *)
Fits == \A id \in Ids :
    /\ orders[id].filled <= orders[id].qty
    /\ orders[id].status = "open" => orders[id].filled < orders[id].qty

(* What an intent has taken from the position or still may take.           *)
Owed(id) == orders[id].filled + Committed(id)

(* What an order still may fill is counted in shares.                      *)
LEMMA OwedIs ==
    ASSUME Inv, Fits, NEW id \in Ids
    PROVE  /\ orders[id].filled \in Nat /\ Committed(id) \in Nat /\ Owed(id) \in Nat
           /\ disk.intent[id].qty \in Nat
           /\ orders[id] = NoOrder =>
                  Owed(id) = IF Done(disk.intent[id]) /\ ~OnWire(id) THEN 0
                             ELSE disk.intent[id].qty
           /\ orders[id] # NoOrder =>
                  Owed(id) = IF Terminal(orders[id]) THEN orders[id].filled
                             ELSE disk.intent[id].qty
<1> DEFINE f == orders[id].filled
           q == disk.intent[id].qty
           c == Committed(id)
<1>1. orders[id] \in OrderSet /\ disk.intent[id] \in IntentSet
  BY Zenon DEF Inv, TypeOK, LedgerSet
<1>2. f \in Nat /\ q \in Nat
  BY <1>1, SMT DEF OrderSet, IntentSet
<1>3. orders[id] = NoOrder => f = 0 /\ ~Terminal(orders[id]) BY SMT DEF NoOrder, Terminal
<1>4. orders[id] # NoOrder => f <= q
  <2>1. orders[id] # NoOrder => q = orders[id].qty
    BY Zenon DEF Inv, SentIsDurable, Recorded
  <2>2. f <= orders[id].qty BY Zenon DEF Fits
  <2> QED BY <2>1, <2>2
<1>5. c = IF Done(disk.intent[id]) /\ ~OnWire(id) /\ orders[id] = NoOrder THEN 0
          ELSE IF Terminal(orders[id]) THEN 0
          ELSE q - f
  BY Zenon DEF Committed
<1> HIDE DEF f, q, c
<1>6. orders[id] = NoOrder => c = IF Done(disk.intent[id]) /\ ~OnWire(id) THEN 0 ELSE q
  <2>1. CASE Done(disk.intent[id]) /\ ~OnWire(id) BY <1>5, <2>1
  <2>2. CASE ~(Done(disk.intent[id]) /\ ~OnWire(id)) BY <1>2, <1>3, <1>5, <2>2
  <2> QED BY <2>1, <2>2
<1>7. orders[id] # NoOrder => c = IF Terminal(orders[id]) THEN 0 ELSE q - f
  BY <1>5, Zenon
<1>8. c \in Nat
  <2>1. CASE orders[id] = NoOrder BY <1>2, <1>6, <2>1
  <2>2. CASE orders[id] # NoOrder BY <1>2, <1>4, <1>7, <2>2
  <2> QED BY <2>1, <2>2
<1>9. Owed(id) = f + c BY DEF Owed, f, c
<1>10. f + c \in Nat BY <1>2, <1>8
<1>11. orders[id] = NoOrder =>
           f + c = IF Done(disk.intent[id]) /\ ~OnWire(id) THEN 0 ELSE q
  BY <1>2, <1>3, <1>6
<1>12. orders[id] # NoOrder => f + c = IF Terminal(orders[id]) THEN f ELSE q
  BY <1>2, <1>7
<1> QED BY <1>2, <1>8, <1>9, <1>10, <1>11, <1>12, Zenon DEF f, q, c

(* The same, of every intent and of the next state.                        *)
OwedRight == \A id \in Ids :
    /\ Owed(id) \in Nat
    /\ orders[id] = NoOrder =>
           Owed(id) = IF Done(disk.intent[id]) /\ ~OnWire(id) THEN 0
                      ELSE disk.intent[id].qty
    /\ orders[id] # NoOrder =>
           Owed(id) = IF Terminal(orders[id]) THEN orders[id].filled
                      ELSE disk.intent[id].qty

(* It holds of every intent in every state the invariants allow.           *)
LEMMA OwedNow == Inv /\ Fits => OwedRight
BY OwedIs, Zenon DEF OwedRight

(* One step later.                                                         *)
LEMMA OwedAgain == Inv' /\ Fits' => OwedRight'
BY OwedNow, PTL

(* Of an intent that is over, or not pushed yet, the ledger knows exactly  *)
(* what it took.                                                           *)
LEMMA OverIsExact ==
    ASSUME Inv, Trails, GraceInv, Fits, NEW id \in Ids,
           Done(disk.intent[id]) \/ ~Exists(disk.intent[id])
    PROVE  Owed(id) = Filled(disk, id)
<1>1. disk.intent[id] \in IntentSet BY Zenon DEF Inv, TypeOK, LedgerSet
<1>2. Filled(disk, id) \in Nat BY <1>1, SMT DEF Filled, IntentSet, OrderSet
<1>3. Filled(disk, id) <= orders[id].filled BY Zenon DEF Filled, Trails, LedgerTrailsBroker
<1>4. CASE disk.intent[id].canceled \/ disk.intent[id].abandoned
  <2>1. orders[id] = NoOrder /\ ~OnWire(id) BY <1>4, GivenUp, Zenon DEF GivenUpHasNoOrder
  <2>2. Done(disk.intent[id]) BY <1>4, Zenon DEF Done
  <2>3. Owed(id) = 0 BY <2>1, <2>2, OwedIs, Zenon
  <2>4. orders[id].filled = 0 BY <2>1, SMT DEF NoOrder
  <2>5. Filled(disk, id) = 0 BY <1>2, <1>3, <2>4
  <2> QED BY <2>3, <2>5
<1>5. CASE Terminal(disk.intent[id].order)
  <2>1. orders[id] = disk.intent[id].order BY <1>5, Zenon DEF Trails, LedgerTrailsBroker
  <2>2. orders[id] # NoOrder BY <1>5, <2>1, SMT DEF NoOrder, Terminal
  <2>3. Owed(id) = orders[id].filled BY <1>5, <2>1, <2>2, OwedIs, Zenon
  <2> QED BY <2>1, <2>3, Zenon DEF Filled
<1>6. CASE ~Exists(disk.intent[id])
  <2>1. disk.intent[id] = NoIntent BY <1>6, Zenon DEF Inv, GoodLedger
  <2>2. ~disk.intent[id].attempted BY <2>1, NoIntentNotDone, Zenon
  <2>3. orders[id] = NoOrder BY <2>2, Zenon DEF Inv, SentIsDurable, Recorded
  <2>4. disk.intent[id].qty = 0 BY <2>1, SMT DEF NoIntent
  <2>5. Owed(id) = 0 BY <2>3, <2>4, OwedIs, Zenon
  <2>6. orders[id].filled = 0 BY <2>3, SMT DEF NoOrder
  <2>7. Filled(disk, id) = 0 BY <1>2, <1>3, <2>6
  <2> QED BY <2>5, <2>7
<1> QED BY <1>4, <1>5, <1>6, Zenon DEF Done

(* No order grows past its size.                                           *)
LEMMA FitsStays == Inv /\ Fits /\ [Next]_vars => Fits'
<1> SUFFICES ASSUME Inv, Fits, [Next]_vars PROVE Fits' OBVIOUS
<1>1. orders \in [Ids -> OrderSet] BY Zenon DEF Inv, TypeOK
<1>2. CASE orders' = orders BY <1>2, Zenon DEF Fits
<1>3. ASSUME NEW id \in Ids, NEW o, orders' = [orders EXCEPT ![id] = o],
             o.filled <= o.qty, o.status = "open" => o.filled < o.qty
      PROVE  Fits'
  <2>1. \A j \in Ids : orders'[j] = IF j = id THEN o ELSE orders[j] BY <1>1, <1>3, Zenon
  <2> QED BY <1>3, <2>1, Zenon DEF Fits
<1>4. ASSUME NEW r \in wire, Accept(r) PROVE Fits'
  <2> DEFINE o == [symbol |-> r.symbol, qty |-> r.qty, filled |-> 0, status |-> "open"]
  <2>1. r.id \in Ids /\ r.qty \in Nat \ {0} BY SMT DEF Inv, TypeOK
  <2>2. orders' = [orders EXCEPT ![r.id] = o] BY <1>4, Zenon DEF Accept
  <2>3. o.filled <= o.qty /\ o.filled < o.qty BY <2>1
  <2> HIDE DEF o
  <2> QED BY <1>3, <2>1, <2>2, <2>3
<1>5. ASSUME NEW id \in Ids, Fill(id) PROVE Fits'
  <2> DEFINE n == orders[id].filled + 1
             st == IF n = orders[id].qty THEN "filled" ELSE "open"
             o == [orders[id] EXCEPT !.filled = n, !.status = st]
  <2>1. orders' = [orders EXCEPT ![id] = o] /\ orders[id].status = "open"
    BY <1>5, Zenon DEF Fill
  <2>2. orders[id] \in OrderSet BY <1>1
  <2>3. o.filled = n /\ o.qty = orders[id].qty /\ o.status = st BY <2>2, Zenon DEF OrderSet
  <2>4. n <= orders[id].qty
    <3>1. orders[id].filled \in Nat /\ orders[id].qty \in Nat BY <2>2, SMT DEF OrderSet
    <3>2. orders[id].filled < orders[id].qty BY <2>1, Zenon DEF Fits
    <3> QED BY <3>1, <3>2
  <2>5. st = "open" => n # orders[id].qty OBVIOUS
  <2>6. n \in Nat /\ orders[id].qty \in Nat BY <2>2, SMT DEF OrderSet
  <2> HIDE DEF n, st, o
  <2>7. o.filled <= o.qty /\ (o.status = "open" => o.filled < o.qty)
    BY <2>3, <2>4, <2>5, <2>6
  <2> QED BY <1>3, <2>1, <2>7
<1>6. ASSUME NEW id \in Ids, NEW st \in {"canceled", "rejected"}, Finish(id, st) PROVE Fits'
  <2> DEFINE o == [orders[id] EXCEPT !.status = st]
  <2>1. orders' = [orders EXCEPT ![id] = o] BY <1>6, Zenon DEF Finish
  <2>2. orders[id] \in OrderSet BY <1>1
  <2>3. o.filled = orders[id].filled /\ o.qty = orders[id].qty /\ o.status = st
    BY <2>2, Zenon DEF OrderSet
  <2> HIDE DEF o
  <2>4. o.status # "open" BY <2>3
  <2>5. o.filled <= o.qty BY <2>3, Zenon DEF Fits
  <2> QED BY <1>3, <2>1, <2>4, <2>5
<1>7. CASE Runner BY <1>2, <1>7, RunnerMoves, Zenon DEF RunnerStep
<1>8. CASE Time \/ \E r \in wire : Drop(r)
  <2>1. orders' = orders
    BY <1>8, Zenon DEF Time, Drop, SignalExpires, GraceElapses, CloseMarket, OpenMarket, broker
  <2> QED BY <1>2, <2>1
<1>9. CASE UNCHANGED vars BY <1>2, <1>9, Zenon DEF vars
<1> QED BY <1>4, <1>5, <1>6, <1>7, <1>8, <1>9, Zenon DEF Next, Broker

(* Where the order is as it was, an intent owes no more unless it is sent  *)
(* after it was over.                                                      *)
LEMMA OwesLess ==
    ASSUME Inv, Fits, Fits', Inv', NEW id \in Ids,
           orders'[id] = orders[id],
           disk'.intent[id].qty = disk.intent[id].qty,
           Done(disk.intent[id]) => Done(disk'.intent[id]),
           OnWire(id)' /\ ~OnWire(id) => ~Done(disk.intent[id])
    PROVE  Owed(id)' <= Owed(id)
<1> DEFINE i == disk.intent[id]  j == disk'.intent[id]
<1>1. orders'[id] = orders[id] OBVIOUS
<1>2. j.qty = i.qty OBVIOUS
<1>3. Done(i) => Done(j) OBVIOUS
<1>4. OnWire(id)' /\ ~OnWire(id) => ~Done(i) OBVIOUS
<1>5. /\ Owed(id) \in Nat
      /\ i.qty \in Nat
      /\ orders[id] = NoOrder => Owed(id) = IF Done(i) /\ ~OnWire(id) THEN 0 ELSE i.qty
      /\ orders[id] # NoOrder =>
             Owed(id) = IF Terminal(orders[id]) THEN orders[id].filled ELSE i.qty
  BY OwedIs, Zenon
<1>6. /\ Owed(id)' \in Nat
      /\ orders'[id] = NoOrder => Owed(id)' = IF Done(j) /\ ~OnWire(id)' THEN 0 ELSE j.qty
      /\ orders'[id] # NoOrder =>
             Owed(id)' = IF Terminal(orders'[id]) THEN orders'[id].filled ELSE j.qty
  <2>1. OwedRight' BY OwedAgain
  <2> QED BY <2>1, Zenon DEF OwedRight
<1>7. CASE orders[id] = NoOrder
  <2>1. orders'[id] = NoOrder BY <1>1, <1>7
  <2>2. CASE Done(i) /\ ~OnWire(id)
    <3>1. Done(j) /\ ~OnWire(id)' BY <1>3, <1>4, <2>2
    <3>2. Owed(id)' = 0 BY <1>6, <2>1, <3>1, Zenon
    <3>3. Owed(id) = 0 BY <1>5, <1>7, <2>2, Zenon
    <3> QED BY <3>2, <3>3
  <2>3. CASE ~(Done(i) /\ ~OnWire(id))
    <3>1. Owed(id) = i.qty BY <1>5, <1>7, <2>3, Zenon
    <3>2. Owed(id)' = 0 \/ Owed(id)' = j.qty BY <1>6, <2>1, Zenon
    <3>3. i.qty \in Nat BY <1>5
    <3> HIDE DEF i, j
    <3> QED BY <1>2, <3>1, <3>2, <3>3
  <2> QED BY <2>2, <2>3
<1>8. CASE orders[id] # NoOrder
  <2>1. orders'[id] # NoOrder BY <1>1, <1>8
  <2>2. Owed(id)' = Owed(id)
    <3>1. CASE Terminal(orders[id])
      <4>1. Owed(id) = orders[id].filled BY <1>5, <1>8, <3>1, Zenon
      <4>2. Owed(id)' = orders[id].filled BY <1>1, <1>6, <2>1, <3>1, Zenon
      <4> QED BY <4>1, <4>2
    <3>2. CASE ~Terminal(orders[id])
      <4>1. Owed(id) = i.qty BY <1>5, <1>8, <3>2, Zenon
      <4>2. Owed(id)' = j.qty BY <1>1, <1>6, <2>1, <3>2, Zenon
      <4> QED BY <1>2, <4>1, <4>2
    <3> QED BY <3>1, <3>2
  <2> QED BY <1>5, <2>2
<1> QED BY <1>7, <1>8

(* A step of the runner that does not push an intent lets it take no more  *)
(* shares than before.                                                     *)
LEMMA RunnerOwes ==
    ASSUME Inv, Fits, Fits', Inv', RunnerStep, NEW id \in Ids,
           Exists(disk'.intent[id]) => Exists(disk.intent[id])
    PROVE  Owed(id)' <= Owed(id)
<1> DEFINE i == disk.intent[id]  j == disk'.intent[id]
<1>1. orders' = orders BY Zenon DEF RunnerStep
<1>2. i \in IntentSet BY Zenon DEF Inv, TypeOK, LedgerSet
<1>3. Moves(id) BY IntentMoves
<1>4. j.qty = i.qty
  <2>1. CASE \E q \in Nat \ {0} : ~Exists(i) /\ j = NewIntent(q)
    BY <2>1, NewIntentIsLive, Zenon
  <2>2. /\ [i EXCEPT !.order = orders[id]].qty = i.qty
        /\ [i EXCEPT !.abandoned = TRUE].qty = i.qty
        /\ [i EXCEPT !.canceled = TRUE].qty = i.qty
        /\ [i EXCEPT !.attempted = TRUE].qty = i.qty
    BY <1>2, Zenon DEF IntentSet
  <2> QED BY <1>3, <2>1, <2>2, Zenon DEF Moves
<1>5. Done(i) => Done(j)
  BY <1>3, NoIntentNotDone, Zenon DEF Moves, Learns, Abandons, Cancels, Sends, Inv, GoodLedger
<1>6. OnWire(id)' /\ ~OnWire(id) => ~Done(i)
  <2> SUFFICES ASSUME OnWire(id)', ~OnWire(id) PROVE ~Done(i) OBVIOUS
  <2>1. PICK r \in wire' : r.id = id BY Zenon DEF OnWire
  <2>2. r \notin wire BY <2>1, Zenon DEF OnWire
  <2>3. PICK k \in Ids : Sends(k) /\ r = [id |-> k, symbol |-> disk.symbol[k[1]],
                                          qty |-> disk.intent[k].qty]
    BY <2>2, WireMoves, Zenon
  <2>4. k = id BY <2>1, <2>3, SMT
  <2> QED BY <2>3, <2>4, Zenon DEF Sends
<1>7. orders'[id] = orders[id] BY <1>1
<1> QED BY <1>4, <1>5, <1>6, <1>7, OwesLess

(* Nothing the broker or the clock does lets an intent take more; orders   *)
(* only fill further.                                                      *)
LEMMA OthersOwe ==
    ASSUME Inv, Fits, Fits', Inv', Trails, Broker \/ Time, NEW id \in Ids
    PROVE  Owed(id)' <= Owed(id) /\ orders[id].filled <= orders'[id].filled
<1>1. disk' = disk /\ wire' \subseteq wire BY OnlyTheRunnerWrites
<1>2. orders \in [Ids -> OrderSet] BY Zenon DEF Inv, TypeOK
<1>3. orders[id].filled \in Nat /\ orders[id].qty \in Nat /\ disk.intent[id].qty \in Nat
  BY <1>2, OwedIs, SMT DEF OrderSet
<1>4. ~OnWire(id) => ~OnWire(id)' BY <1>1, Zenon DEF OnWire
<1>5. ASSUME orders'[id] = orders[id]
      PROVE  Owed(id)' <= Owed(id) /\ orders[id].filled <= orders'[id].filled
  <2>1. /\ disk'.intent[id].qty = disk.intent[id].qty
        /\ Done(disk.intent[id]) => Done(disk'.intent[id])
        /\ OnWire(id)' /\ ~OnWire(id) => ~Done(disk.intent[id])
    BY <1>1, <1>4, Zenon
  <2>2. Owed(id)' <= Owed(id) BY <1>5, <2>1, OwesLess
  <2> QED BY <1>3, <1>5, <2>2
<1>6. OwedRight /\ OwedRight' BY OwedNow, OwedAgain
<1>7. ASSUME NEW r \in wire, Accept(r)
      PROVE  Owed(id)' <= Owed(id) /\ orders[id].filled <= orders'[id].filled
  <2> DEFINE o == [symbol |-> r.symbol, qty |-> r.qty, filled |-> 0, status |-> "open"]
  <2>1. orders' = [orders EXCEPT ![r.id] = o] BY <1>7, Zenon DEF Accept
  <2>2. o.filled = 0 /\ o.status = "open" OBVIOUS
  <2> HIDE DEF o
  <2>3. CASE id # r.id BY <1>2, <1>5, <2>1, <2>3, Zenon
  <2>4. CASE id = r.id
    <3>1. orders'[id] = o BY <1>2, <2>1, <2>4, Zenon
    <3>2. orders[id] = NoOrder /\ OnWire(id) BY <2>4, Zenon DEF Trails, NotYetAccepted, OnWire
    <3>3. orders'[id] # NoOrder /\ ~Terminal(orders'[id])
      BY <2>2, <3>1, SMT DEF NoOrder, Terminal
    <3>4. Owed(id) = disk.intent[id].qty BY <1>6, <3>2, Zenon DEF OwedRight
    <3>5. Owed(id)' = disk.intent[id].qty BY <1>1, <1>6, <3>3, Zenon DEF OwedRight
    <3>6. orders[id].filled = 0 /\ orders'[id].filled = 0
      BY <2>2, <3>1, <3>2, SMT DEF NoOrder
    <3> QED BY <1>3, <3>4, <3>5, <3>6
  <2> QED BY <2>3, <2>4
<1>8. ASSUME NEW x \in Ids, NEW o, orders' = [orders EXCEPT ![x] = o],
             orders[x].status = "open", o # NoOrder, o.filled \in Nat,
             orders[x].filled <= o.filled,
             Terminal(o) => o.filled <= orders[x].qty
      PROVE  Owed(id)' <= Owed(id) /\ orders[id].filled <= orders'[id].filled
  <2>1. CASE id # x BY <1>2, <1>5, <1>8, <2>1, Zenon
  <2>2. CASE id = x
    <3>1. orders'[id] = o BY <1>2, <1>8, <2>2, Zenon
    <3>2. orders[id] # NoOrder /\ ~Terminal(orders[id])
      BY <1>8, <2>2, SMT DEF NoOrder, Terminal
    <3>3. orders[id].qty = disk.intent[id].qty
      BY <3>2, Zenon DEF Inv, SentIsDurable, Recorded
    <3>4. Owed(id) = disk.intent[id].qty BY <1>6, <3>2, Zenon DEF OwedRight
    <3>5. Owed(id)' = IF Terminal(o) THEN o.filled ELSE disk.intent[id].qty
      BY <1>1, <1>6, <1>8, <3>1, Zenon DEF OwedRight
    <3>6. Owed(id)' <= Owed(id)
      <4>1. CASE Terminal(o)
        <5>1. Owed(id)' = o.filled /\ o.filled <= disk.intent[id].qty
          BY <1>8, <2>2, <3>3, <3>5, <4>1
        <5> QED BY <3>4, <5>1
      <4>2. CASE ~Terminal(o)
        <5>1. Owed(id)' = Owed(id) /\ Owed(id) \in Nat BY <1>3, <3>4, <3>5, <4>2
        <5> QED BY <5>1
      <4> QED BY <4>1, <4>2
    <3> QED BY <1>8, <2>2, <3>1, <3>6
  <2> QED BY <2>1, <2>2
<1>9. ASSUME NEW x \in Ids, Fill(x)
      PROVE  Owed(id)' <= Owed(id) /\ orders[id].filled <= orders'[id].filled
  <2> DEFINE n == orders[x].filled + 1
             st == IF n = orders[x].qty THEN "filled" ELSE "open"
             o == [orders[x] EXCEPT !.filled = n, !.status = st]
  <2>1. orders' = [orders EXCEPT ![x] = o] /\ orders[x].status = "open"
    BY <1>9, Zenon DEF Fill
  <2>2. orders[x] \in OrderSet BY <1>2
  <2>3. o.filled = n /\ o.status = st BY <2>2, Zenon DEF OrderSet
  <2>4. n \in Nat /\ orders[x].filled <= n BY <2>2, SMT DEF OrderSet
  <2>5. st = "open" \/ n = orders[x].qty OBVIOUS
  <2>6. st # "none" OBVIOUS
  <2> HIDE DEF n, st, o
  <2>7. o # NoOrder BY <2>3, <2>6, SMT DEF NoOrder
  <2>8. Terminal(o) => o.filled <= orders[x].qty
    <3> SUFFICES ASSUME Terminal(o) PROVE o.filled <= orders[x].qty OBVIOUS
    <3>1. st # "open" BY <2>3, SMT DEF Terminal
    <3> QED BY <2>3, <2>4, <2>5, <3>1
  <2>9. o.filled \in Nat /\ orders[x].filled <= o.filled BY <2>3, <2>4
  <2> QED BY <1>8, <2>1, <2>7, <2>8, <2>9
<1>10. ASSUME NEW x \in Ids, NEW st \in {"canceled", "rejected"}, Finish(x, st)
       PROVE  Owed(id)' <= Owed(id) /\ orders[id].filled <= orders'[id].filled
  <2> DEFINE o == [orders[x] EXCEPT !.status = st]
  <2>1. orders' = [orders EXCEPT ![x] = o] /\ orders[x].status = "open"
    BY <1>10, Zenon DEF Finish
  <2>2. orders[x] \in OrderSet BY <1>2
  <2>3. o.filled = orders[x].filled /\ o.status = st BY <2>2, Zenon DEF OrderSet
  <2> HIDE DEF o
  <2>4. o # NoOrder BY <2>3, SMT DEF NoOrder
  <2>5. orders[x].filled \in Nat BY <2>2, SMT DEF OrderSet
  <2>6. o.filled \in Nat /\ orders[x].filled <= o.filled BY <2>3, <2>5
  <2>7. o.filled <= orders[x].qty BY <2>3, Zenon DEF Fits
  <2> QED BY <1>8, <2>1, <2>4, <2>6, <2>7
<1>11. CASE Time \/ \E r \in wire : Drop(r)
  <2>1. orders' = orders
    BY <1>11, Zenon DEF Time, Drop, SignalExpires, GraceElapses, CloseMarket, OpenMarket, broker
  <2> QED BY <1>5, <2>1
<1> QED BY <1>7, <1>9, <1>10, <1>11, Zenon DEF Broker

(* Only exit_trade's push makes a sell exist.                              *)
LEMMA SellPushed ==
    ASSUME Inv, RunnerStep, NEW t \in Trades, NEW k \in Sells,
           ~Exists(disk.intent[<<t, k>>]), Exists(disk'.intent[<<t, k>>])
    PROVE  \E q \in Nat \ {0} : /\ PushesSell(t, k, q)
                               /\ disk'.intent[<<t, k>>] = NewIntent(q)
<1>1. disk \in LedgerSet /\ GoodLedger(disk) BY Zenon DEF Inv, GoodLedger
<1>2. <<t, k>> \in Ids /\ k # 0 BY SellIsId, SMT DEF Sells
<1>3. ASSUME NEW id \in Ids, NEW i, disk'.intent = [disk.intent EXCEPT ![id] = i]
      PROVE  id = <<t, k>>
  <2>1. \A x \in Ids : x # id => disk'.intent[x] = disk.intent[x]
    BY <1>1, <1>3, Zenon DEF LedgerSet
  <2> QED BY <1>2, <2>1, Zenon
<1>4. ~UNCHANGED <<disk, wire>> OBVIOUS
<1>5. ~Decides
  <2> SUFFICES ASSUME Decides PROVE FALSE OBVIOUS
  <2>1. disk'.intent = disk.intent BY <1>1, Zenon DEF Decides, LedgerSet
  <2> QED BY <2>1
<1>6. ASSUME NEW id \in Ids, Learns(id) \/ Abandons(id) \/ Cancels(id) \/ Sends(id)
      PROVE  FALSE
  <2>1. PICK i : disk' = [disk EXCEPT !.intent[id] = i]
    BY <1>6, Zenon DEF Learns, Abandons, Cancels, Sends
  <2>2. disk'.intent = [disk.intent EXCEPT ![id] = i] BY <1>1, <2>1, Zenon DEF LedgerSet
  <2>3. Exists(disk.intent[id])
    BY <1>1, <1>6, NoIntentNotDone, Zenon DEF GoodLedger, Learns, Abandons, Cancels, Sends
  <2> QED BY <1>3, <2>2, <2>3
<1>7. ASSUME NEW n \in Trades, NEW q \in Nat \ {0}, NEW s \in Symbols, PushesBuy(n, q, s)
      PROVE  FALSE
  <2>1. disk'.intent = [disk.intent EXCEPT ![Buy(n)] = NewIntent(q)]
    BY <1>1, <1>7, Zenon DEF PushesBuy, LedgerSet
  <2>2. Buy(n) = <<t, k>> BY <1>3, <2>1, BuyIsId
  <2> QED BY <1>2, <2>2 DEF Buy
<1>8. PICK u \in Trades, m \in Sells, q \in Nat \ {0} : PushesSell(u, m, q)
  BY <1>4, <1>5, <1>6, <1>7, Zenon DEF RunnerStep
<1>9. disk'.intent = [disk.intent EXCEPT ![<<u, m>>] = NewIntent(q)]
  BY <1>1, <1>8, Zenon DEF PushesSell, LedgerSet
<1>10. <<u, m>> = <<t, k>> BY <1>3, <1>9, SellIsId
<1>11. u = t /\ m = k BY <1>10
<1>12. disk'.intent[<<t, k>>] = NewIntent(q) BY <1>1, <1>2, <1>9, <1>10, Zenon DEF LedgerSet
<1> QED BY <1>8, <1>11, <1>12

(* Every trade's sells are covered by the fills of its buy.                *)
Covered == \A t \in Trades :
    Total([k \in Sells |-> Owed(<<t, k>>)], Sells) <= orders[Buy(t)].filled

(* No step uncovers a sell: exit_trade pushes what the ledger holds as     *)
(* remaining once every earlier order of the trade is over, and nothing    *)
(* else lets a sell take more or a buy lose a fill.                        *)
LEMMA CoveredStays ==
    Inv /\ Trails /\ GraceInv /\ Fits /\ Covered /\ [Next]_vars => Covered'
<1> SUFFICES ASSUME Inv, Trails, GraceInv, Fits, Covered, [Next]_vars, NEW t \in Trades
             PROVE  Total([k \in Sells |-> Owed(<<t, k>>)'], Sells) <= orders'[Buy(t)].filled
  BY DEF Covered
<1> DEFINE f == [k \in Sells |-> Owed(<<t, k>>)]
           e == [k \in Sells |-> Owed(<<t, k>>)']
<1>1. Inv' /\ Fits' BY StepKeepsInv, FitsStays
<1>2. OwedRight /\ OwedRight' BY <1>1, OwedNow, OwedAgain
<1>3. IsFiniteSet(Sells) BY FS_Interval, BoundsAssumption DEF Sells
<1>4. \A k \in Sells : <<t, k>> \in Ids BY SellIsId
<1>5. /\ \A k \in Sells : f[k] \in Int /\ f[k] = Owed(<<t, k>>)
      /\ \A k \in Sells : e[k] \in Int /\ e[k] = Owed(<<t, k>>)'
  BY <1>2, <1>4 DEF OwedRight
<1>6. orders[Buy(t)].filled \in Nat /\ orders'[Buy(t)].filled \in Nat
  BY <1>1, BuyIsId, SMT DEF Inv, TypeOK, OrderSet
<1>7. Total(f, Sells) <= orders[Buy(t)].filled BY DEF Covered
<1> HIDE DEF f, e
<1>8. Total(f, Sells) \in Int /\ Total(e, Sells) \in Int BY <1>3, <1>5, TotalInt
<1>9. ASSUME \A k \in Sells : Owed(<<t, k>>)' <= Owed(<<t, k>>),
             orders[Buy(t)].filled <= orders'[Buy(t)].filled
      PROVE  Total(e, Sells) <= orders'[Buy(t)].filled
  <2>1. \A k \in Sells : e[k] \in Int /\ f[k] \in Int /\ e[k] <= f[k] BY <1>5, <1>9
  <2>2. Total(e, Sells) <= Total(f, Sells) BY <1>3, <2>1, TotalGrows
  <2> QED BY <1>6, <1>7, <1>8, <1>9, <2>2
<1>10. ASSUME Runner PROVE Total(e, Sells) <= orders'[Buy(t)].filled
  <2>1. RunnerStep BY <1>10, RunnerMoves
  <2>2. orders' = orders BY <2>1, Zenon DEF RunnerStep
  <2>3. CASE \A k \in Sells : Exists(disk'.intent[<<t, k>>]) => Exists(disk.intent[<<t, k>>])
    <3>1. \A k \in Sells : Owed(<<t, k>>)' <= Owed(<<t, k>>)
      BY <1>1, <1>4, <2>1, <2>3, RunnerOwes
    <3>2. orders[Buy(t)].filled <= orders'[Buy(t)].filled BY <1>6, <2>2
    <3> QED BY <1>9, <3>1, <3>2
  <2>4. CASE \E k \in Sells : Exists(disk'.intent[<<t, k>>]) /\ ~Exists(disk.intent[<<t, k>>])
    <3>1. PICK k \in Sells : Exists(disk'.intent[<<t, k>>]) /\ ~Exists(disk.intent[<<t, k>>])
      BY <2>4
    <3>2. PICK q \in Nat \ {0} : PushesSell(t, k, q) /\ disk'.intent[<<t, k>>] = NewIntent(q)
      BY <2>1, <3>1, SellPushed
    <3>3. q = Remaining(disk, t) /\ OpenSells(disk, t) = {} BY <3>2, Zenon DEF PushesSell
    <3> DEFINE g == [j \in Sells |-> Filled(disk, <<t, j>>)]
               h == [j \in Sells |-> IF j = k THEN q ELSE g[j]]
    <3>4. \A j \in Sells : Owed(<<t, j>>) = Filled(disk, <<t, j>>)
      <4> SUFFICES ASSUME NEW j \in Sells PROVE Owed(<<t, j>>) = Filled(disk, <<t, j>>)
        OBVIOUS
      <4>1. Done(disk.intent[<<t, j>>]) \/ ~Exists(disk.intent[<<t, j>>])
        BY <3>3, Zenon DEF OpenSells
      <4> QED BY <1>4, <4>1, OverIsExact
    <3>5. \A j \in Sells : g[j] = Owed(<<t, j>>) /\ g[j] \in Int BY <1>2, <1>4, <3>4 DEF OwedRight
    <3>6. g[k] = 0
      <4>1. disk.intent[<<t, k>>] = NoIntent BY <1>4, <3>1, Zenon DEF Inv, GoodLedger
      <4> QED BY <4>1 DEF Filled, NoIntent, NoOrder
    <3>7. e[k] = q
      <4>1. disk'.intent[<<t, k>>].qty = q /\ ~Done(disk'.intent[<<t, k>>])
            /\ ~disk'.intent[<<t, k>>].attempted
        BY <3>2, NewIntentIsLive, Zenon
      <4>2. orders'[<<t, k>>] = NoOrder BY <1>1, <1>4, <4>1, Zenon DEF Inv, SentIsDurable, Recorded
      <4>3. Owed(<<t, k>>)' = q BY <1>2, <1>4, <4>1, <4>2, Zenon DEF OwedRight
      <4> QED BY <1>5, <4>3
    <3>8. \A j \in Sells : j # k => e[j] <= g[j]
      <4> SUFFICES ASSUME NEW j \in Sells, j # k PROVE e[j] <= g[j] OBVIOUS
      <4>1. Exists(disk'.intent[<<t, j>>]) => Exists(disk.intent[<<t, j>>])
        BY <2>1, <3>1, OnePushAtATime
      <4>2. Owed(<<t, j>>)' <= Owed(<<t, j>>) BY <1>1, <1>4, <2>1, <4>1, RunnerOwes
      <4> QED BY <1>5, <3>5, <4>2
    <3>9. Sold(disk, t) = Total(g, Sells) BY SoldIs, Zenon
    <3>10. \A j \in Sells : h[j] = IF j = k THEN q ELSE g[j] OBVIOUS
    <3> HIDE DEF g, h
    <3>11. \A j \in Sells : h[j] \in Int /\ e[j] \in Int /\ e[j] <= h[j]
      <4> SUFFICES ASSUME NEW j \in Sells
                   PROVE  h[j] \in Int /\ e[j] \in Int /\ e[j] <= h[j]
        OBVIOUS
      <4>1. g[j] \in Int /\ e[j] \in Int BY <1>5, <3>5
      <4>2. CASE j = k
        <5>1. h[j] = q /\ e[j] = q BY <3>7, <3>10, <4>2
        <5> QED BY <5>1
      <4>3. CASE j # k
        <5>1. h[j] = g[j] /\ e[j] <= g[j] BY <3>8, <3>10, <4>3
        <5> QED BY <4>1, <5>1
      <4> QED BY <4>2, <4>3
    <3>12. Total(e, Sells) <= Total(h, Sells) BY <1>3, <3>11, TotalGrows
    <3>13. Total(h, Sells) = Total(g, Sells) + (h[k] - g[k])
      <4>1. \A j \in Sells : g[j] \in Int /\ h[j] \in Int BY <3>5, <3>11
      <4>2. \A j \in Sells : j # k => h[j] = g[j] BY <3>10
      <4> QED BY <1>3, <4>1, <4>2, TotalChange
    <3>14. Total(g, Sells) \in Int BY <1>3, <3>5, TotalInt
    <3>15. Filled(disk, Buy(t)) <= orders[Buy(t)].filled /\ Filled(disk, Buy(t)) \in Int
      <4>1. disk.intent[Buy(t)] \in IntentSet
        BY BuyIsId, Zenon DEF Inv, TypeOK, LedgerSet
      <4>2. Filled(disk, Buy(t)) \in Int BY <4>1, SMT DEF Filled, IntentSet, OrderSet
      <4> QED BY <4>2, BuyIsId, Zenon DEF Filled, Trails, LedgerTrailsBroker
    <3>16. q = Filled(disk, Buy(t)) - Total(g, Sells) BY <3>3, <3>9, Zenon DEF Remaining
    <3>17. h[k] = q BY <3>10
    <3> DEFINE w == Filled(disk, Buy(t))  o == orders[Buy(t)].filled
               a == Total(g, Sells)  b == Total(h, Sells)  c == Total(e, Sells)
    <3>18. /\ a \in Int /\ c \in Int /\ w \in Int /\ o \in Int
           /\ w <= o /\ c <= b /\ b = a + (h[k] - g[k]) /\ q = w - a
      BY <1>6, <1>8, <3>12, <3>13, <3>14, <3>15, <3>16
    <3> HIDE DEF a, b, c, w, o
    <3>19. c <= o BY <3>6, <3>17, <3>18
    <3> QED BY <2>2, <3>19 DEF c, o
  <2> QED BY <2>3, <2>4
<1>11. ASSUME Broker \/ Time PROVE Total(e, Sells) <= orders'[Buy(t)].filled
  BY <1>1, <1>4, <1>9, <1>11, BuyIsId, OthersOwe
<1>12. ASSUME UNCHANGED vars PROVE Total(e, Sells) <= orders'[Buy(t)].filled
  <2>1. orders' = orders /\ disk' = disk /\ wire' = wire BY <1>12, Zenon DEF vars
  <2>2. \A k \in Sells : Owed(<<t, k>>)' = Owed(<<t, k>>)
    BY <2>1, Zenon DEF Owed, Committed, OnWire
  <2>3. \A k \in Sells : Owed(<<t, k>>)' <= Owed(<<t, k>>) BY <1>5, <2>2
  <2>4. orders[Buy(t)].filled <= orders'[Buy(t)].filled BY <1>6, <2>1
  <2> QED BY <1>9, <2>3, <2>4
<1> QED BY <1>10, <1>11, <1>12, Zenon DEF Next, e

(* Zeros add up to zero.                                                   *)
LEMMA TotalZero ==
    ASSUME NEW S, IsFiniteSet(S), NEW f, \A x \in S : f[x] = 0
    PROVE  Total(f, S) = 0
<1>1. {} \subseteq S /\ \A x \in S : f[x] \in Int OBVIOUS
<1>2. \A x \in S : f[x] = IF x \in {} THEN f[x] ELSE 0 OBVIOUS
<1>3. Total(f, S) = Total(f, {}) BY <1>1, <1>2, TotalFilter
<1> QED BY <1>3, TotalEmpty

(* The broker holds what the fills of the trades left of each symbol.      *)
Shares(t) == orders[Buy(t)].filled - Total([k \in Sells |-> orders[<<t, k>>].filled], Sells)
Held == \A s \in Symbols :
    pos[s] = Total([t \in Trades |-> IF disk.symbol[t] = s THEN Shares(t) ELSE 0], Trades)

(* The fills of a trade are counted in shares.                             *)
LEMMA SharesIsInt == Inv => \A t \in Trades : Shares(t) \in Int
<1> SUFFICES ASSUME Inv, NEW t \in Trades PROVE Shares(t) \in Int OBVIOUS
<1> DEFINE f == [k \in Sells |-> orders[<<t, k>>].filled]
<1>1. \A id \in Ids : orders[id].filled \in Nat BY SMT DEF Inv, TypeOK, OrderSet
<1>2. \A k \in Sells : f[k] \in Int BY <1>1, SellIsId
<1> HIDE DEF f
<1>3. IsFiniteSet(Sells) BY FS_Interval, BoundsAssumption DEF Sells
<1>4. Total(f, Sells) \in Int BY <1>2, <1>3, TotalInt
<1>5. orders[Buy(t)].filled \in Int BY <1>1, BuyIsId
<1>6. orders[Buy(t)].filled - Total(f, Sells) \in Int BY <1>4, <1>5
<1> QED BY <1>6 DEF Shares, f

(* One step later.                                                         *)
LEMMA SharesAgain == Inv' => (\A t \in Trades : Shares(t) \in Int)'
BY SharesIsInt, PTL

(* A trade without a buy has traded nothing.                               *)
LEMMA NothingTraded ==
    ASSUME Inv, NEW t \in Trades, ~Exists(disk.intent[Buy(t)])
    PROVE  Shares(t) = 0
<1> DEFINE f == [k \in Sells |-> orders[<<t, k>>].filled]
<1>1. ASSUME NEW id \in Ids, id[1] = t PROVE orders[id].filled = 0
  <2>1. disk.intent[id] = NoIntent BY <1>1, Zenon DEF Inv, GoodLedger
  <2>2. orders[id] = NoOrder
    BY <2>1, NoIntentNotDone, Zenon DEF Inv, SentIsDurable, Recorded
  <2> QED BY <2>2, SMT DEF NoOrder
<1>2. \A k \in Sells : f[k] = 0 BY <1>1, SellIsId
<1>3. IsFiniteSet(Sells) BY FS_Interval, BoundsAssumption DEF Sells
<1>4. orders[Buy(t)].filled = 0 BY <1>1, BuyIsId DEF Buy
<1> HIDE DEF f
<1>5. Total(f, Sells) = 0 BY <1>2, <1>3, TotalZero
<1>6. orders[Buy(t)].filled - Total(f, Sells) = 0 BY <1>4, <1>5
<1> QED BY <1>6 DEF Shares, f

(* Where nothing fills, the holdings stay accounted for.                   *)
LEMMA HeldSame ==
    ASSUME Inv, Held, pos' = pos,
           \A id \in Ids : orders'[id].filled = orders[id].filled,
           \A t \in Trades : disk'.symbol[t] = disk.symbol[t]
                                \/ ~Exists(disk.intent[Buy(t)])
    PROVE  Held'
<1>1. ASSUME NEW t \in Trades PROVE Shares(t)' = Shares(t)
  <2>1. [k \in Sells |-> orders'[<<t, k>>].filled] = [k \in Sells |-> orders[<<t, k>>].filled]
    BY SellIsId
  <2>2. orders'[Buy(t)].filled = orders[Buy(t)].filled BY BuyIsId
  <2> QED BY <2>1, <2>2, Zenon DEF Shares
<1>2. ASSUME NEW s \in Symbols, NEW t \in Trades
      PROVE  (IF disk'.symbol[t] = s THEN Shares(t)' ELSE 0)
                 = IF disk.symbol[t] = s THEN Shares(t) ELSE 0
  <2>1. CASE disk'.symbol[t] = disk.symbol[t] BY <1>1, <2>1, Zenon
  <2>2. CASE ~Exists(disk.intent[Buy(t)])
    <3>1. Shares(t) = 0 BY <2>2, NothingTraded
    <3> QED BY <1>1, <3>1, Zenon
  <2> QED BY <2>1, <2>2
<1>3. ASSUME NEW s \in Symbols
      PROVE  pos'[s] = Total([t \in Trades |-> IF disk'.symbol[t] = s THEN Shares(t)' ELSE 0],
                             Trades)
  <2>1. [t \in Trades |-> IF disk'.symbol[t] = s THEN Shares(t)' ELSE 0]
            = [t \in Trades |-> IF disk.symbol[t] = s THEN Shares(t) ELSE 0]
    BY <1>2, Zenon
  <2> QED BY <2>1, Zenon DEF Held
<1> QED BY <1>3 DEF Held

(* A fill moves one share into or out of the position of its trade.        *)
LEMMA HeldFill ==
    ASSUME Inv, Inv', Held, NEW id \in Ids, Fill(id)
    PROVE  Held'
<1> DEFINE u == id[1]
           d == IF id[2] = 0 THEN 1 ELSE -1
<1>1. /\ u \in Trades /\ id[2] \in 0..MaxSells /\ id = <<u, id[2]>>
  BY IdParts, Zenon
<1>2. disk' = disk /\ orders[id].status = "open"
  BY Zenon DEF Fill, ledger
<1>3. orders \in [Ids -> OrderSet] /\ pos \in [Symbols -> Int]
  BY Zenon DEF Inv, TypeOK
<1>4. orders[id].symbol = disk.symbol[u] /\ disk.symbol[u] \in Symbols
  <2>1. orders[id] # NoOrder BY <1>2, SMT DEF NoOrder
  <2>2. disk.intent[id].attempted /\ disk.symbol[id[1]] = orders[id].symbol
    BY <2>1, Zenon DEF Inv, SentIsDurable, Recorded
  <2>3. Exists(disk.intent[id]) BY <2>2, NoIntentNotDone, Zenon DEF Inv, GoodLedger
  <2> QED BY <2>2, <2>3, Zenon DEF Inv, GoodLedger
<1>5. /\ orders'[id].filled = orders[id].filled + 1
      /\ \A j \in Ids : j # id => orders'[j] = orders[j]
  <2> DEFINE n == orders[id].filled + 1
             st == IF n = orders[id].qty THEN "filled" ELSE "open"
             o == [orders[id] EXCEPT !.filled = n, !.status = st]
  <2>1. orders' = [orders EXCEPT ![id] = o] BY Zenon DEF Fill
  <2>2. orders[id] \in OrderSet BY <1>3
  <2>3. o.filled = n BY <2>2, Zenon DEF OrderSet
  <2> HIDE DEF o
  <2> QED BY <1>3, <2>1, <2>3, Zenon
<1>6. \A s \in Symbols : pos'[s] = IF s = disk.symbol[u] THEN pos[s] + d ELSE pos[s]
  <2> DEFINE a == orders[id].symbol
             v == IF id[2] = 0 THEN pos[a] + 1 ELSE pos[a] - 1
  <2>1. pos' = [pos EXCEPT ![a] = v] BY Zenon DEF Fill
  <2>2. pos[a] \in Int BY <1>3, <1>4
  <2>3. v = pos[a] + d
    <3> DEFINE p == pos[a]
    <3>1. p \in Int BY <2>2
    <3> HIDE DEF p
    <3>2. (IF id[2] = 0 THEN p + 1 ELSE p - 1) = p + d BY <3>1
    <3> QED BY <3>2, Zenon DEF p
  <2> HIDE DEF v, d
  <2>4. \A s \in Symbols : pos'[s] = IF s = a THEN v ELSE pos[s] BY <1>3, <2>1, Zenon
  <2> QED BY <1>4, <2>3, <2>4, Zenon
<1>7. ASSUME NEW t \in Trades, t # u PROVE Shares(t)' = Shares(t)
  <2>1. \A k \in Sells : orders'[<<t, k>>] = orders[<<t, k>>]
    <3> SUFFICES ASSUME NEW k \in Sells PROVE orders'[<<t, k>>] = orders[<<t, k>>] OBVIOUS
    <3>1. <<t, k>> # id BY <1>7
    <3> QED BY <1>5, <3>1, SellIsId
  <2>2. orders'[Buy(t)] = orders[Buy(t)]
    <3>1. Buy(t) # id BY <1>7 DEF Buy
    <3> QED BY <1>5, <3>1, BuyIsId
  <2>3. [k \in Sells |-> orders'[<<t, k>>].filled] = [k \in Sells |-> orders[<<t, k>>].filled]
    BY <2>1
  <2> QED BY <2>2, <2>3, Zenon DEF Shares
<1>8. Shares(u)' = Shares(u) + d
  <2> DEFINE f == [k \in Sells |-> orders[<<u, k>>].filled]
             e == [k \in Sells |-> orders'[<<u, k>>].filled]
             b == orders[Buy(u)].filled
             c == orders'[Buy(u)].filled
  <2>1. /\ \A j \in Ids : orders[j].filled \in Nat /\ orders'[j].filled \in Nat
    BY SMT DEF Inv, TypeOK, OrderSet
  <2>8. \A k \in Sells : <<u, k>> \in Ids BY <1>1, SellIsId, Zenon
  <2>9. \A k \in Sells : f[k] = orders[<<u, k>>].filled /\ e[k] = orders'[<<u, k>>].filled
    OBVIOUS
  <2>2. \A k \in Sells : f[k] \in Int /\ e[k] \in Int
    <3> HIDE DEF f, e, u
    <3> SUFFICES ASSUME NEW k \in Sells PROVE f[k] \in Int /\ e[k] \in Int OBVIOUS
    <3>1. f[k] \in Nat /\ e[k] \in Nat BY <2>1, <2>8, <2>9, Zenon
    <3> QED BY <3>1
  <2>3. b \in Int /\ c \in Int BY <2>1, <1>1, BuyIsId
  <2>4. IsFiniteSet(Sells) BY FS_Interval, BoundsAssumption DEF Sells
  <2>5. Shares(u) = b - Total(f, Sells) /\ Shares(u)' = c - Total(e, Sells)
    BY Zenon DEF Shares
  <2>6. CASE id[2] = 0
    <3>1. id = Buy(u) BY <1>1, <2>6 DEF Buy
    <3>2. c = b + 1 BY <1>5, <3>1
    <3>3. \A k \in Sells : <<u, k>> # id BY <1>1, <2>6 DEF Sells
    <3>4. f = e
      <4>1. \A k \in Sells : orders'[<<u, k>>].filled = orders[<<u, k>>].filled
        BY <1>5, <2>8, <3>3, Zenon
      <4> QED BY <4>1, Zenon
    <3>5. d = 1 BY <2>6
    <3> HIDE DEF f, e, b, c, d
    <3>6. Total(f, Sells) \in Int BY <2>2, <2>4, TotalInt
    <3> QED BY <2>3, <2>5, <3>2, <3>4, <3>5, <3>6
  <2>7. CASE id[2] # 0
    <3>1. id[2] \in Sells BY <1>1, <2>7, BoundsAssumption DEF Sells
    <3>2. Buy(u) # id BY <2>7 DEF Buy
    <3>3. c = b BY <1>1, <1>5, <3>2, BuyIsId
    <3>4. e[id[2]] = f[id[2]] + 1 BY <1>1, <1>5, <3>1
    <3>5. \A k \in Sells : k # id[2] => e[k] = f[k]
      <4> SUFFICES ASSUME NEW k \in Sells, k # id[2] PROVE e[k] = f[k] OBVIOUS
      <4>1. <<u, k>> # id OBVIOUS
      <4>2. orders'[<<u, k>>] = orders[<<u, k>>] BY <1>1, <1>5, <4>1, SellIsId
      <4> QED BY <4>2
    <3>6. d = -1 BY <2>7
    <3> DEFINE k == id[2]
    <3> HIDE DEF f, e, b, c, d, k
    <3>7. Total(f, Sells) \in Int BY <2>2, <2>4, TotalInt
    <3>8. Total(e, Sells) = Total(f, Sells) + (e[k] - f[k])
      BY <2>2, <2>4, <3>1, <3>5, TotalChange DEF k
    <3>9. f[k] \in Int /\ e[k] = f[k] + 1 BY <2>2, <3>1, <3>4 DEF k
    <3> QED BY <2>3, <2>5, <3>3, <3>6, <3>7, <3>8, <3>9
  <2> QED BY <2>6, <2>7
<1> HIDE DEF d
<1>9. ASSUME NEW s \in Symbols
      PROVE  pos'[s] = Total([t \in Trades |-> IF disk'.symbol[t] = s THEN Shares(t)' ELSE 0],
                             Trades)
  <2> DEFINE f == [t \in Trades |-> IF disk.symbol[t] = s THEN Shares(t) ELSE 0]
             e == [t \in Trades |-> IF disk'.symbol[t] = s THEN Shares(t)' ELSE 0]
  <2>1. \A t \in Trades : Shares(t) \in Int /\ Shares(t)' \in Int
    <3>1. \A t \in Trades : Shares(t) \in Int BY SharesIsInt
    <3>2. \A t \in Trades : Shares(t)' \in Int BY SharesAgain, Zenon
    <3> QED BY <3>1, <3>2
  <2>2. \A t \in Trades : f[t] \in Int /\ e[t] \in Int BY <2>1
  <2>3. \A t \in Trades : t # u => e[t] = f[t] BY <1>2, <1>7
  <2>4. e[u] - f[u] = IF s = disk.symbol[u] THEN d ELSE 0
    <3>1. CASE s = disk.symbol[u]
      <4>1. e[u] = Shares(u)' /\ f[u] = Shares(u) BY <1>1, <1>2, <3>1
      <4>2. d \in Int BY DEF d
      <4> QED BY <1>1, <1>8, <2>1, <3>1, <4>1, <4>2
    <3>2. CASE s # disk.symbol[u]
      <4>1. e[u] = 0 /\ f[u] = 0 BY <1>1, <1>2, <3>2
      <4> QED BY <3>2, <4>1
    <3> QED BY <3>1, <3>2
  <2>5. pos[s] = Total(f, Trades) BY Zenon DEF Held
  <2> HIDE DEF f, e
  <2>6. IsFiniteSet(Trades) BY FS_Interval, BoundsAssumption DEF Trades
  <2>7. Total(e, Trades) = Total(f, Trades) + (e[u] - f[u])
    BY <1>1, <2>2, <2>3, <2>6, TotalChange
  <2>8. Total(f, Trades) \in Int BY <2>2, <2>6, TotalInt
  <2>9. pos'[s] = Total(e, Trades)
    <3>1. CASE s = disk.symbol[u] BY <1>6, <2>4, <2>5, <2>7, <3>1
    <3>2. CASE s # disk.symbol[u] BY <1>6, <2>4, <2>5, <2>7, <2>8, <3>2
    <3> QED BY <3>1, <3>2
  <2> QED BY <2>9 DEF e
<1> QED BY <1>9 DEF Held

(* The holdings stay what the fills left, whatever the runner, the broker  *)
(* and the clock do.                                                       *)
LEMMA HeldStays == Inv /\ Trails /\ Held /\ [Next]_vars => Held'
<1> SUFFICES ASSUME Inv, Trails, Held, [Next]_vars PROVE Held' OBVIOUS
<1>1. orders \in [Ids -> OrderSet] BY Zenon DEF Inv, TypeOK
<1>2. CASE Runner
  <2>1. RunnerStep BY <1>2, RunnerMoves
  <2>2. orders' = orders /\ pos' = pos BY <2>1, Zenon DEF RunnerStep
  <2>3. ASSUME NEW t \in Trades
        PROVE  disk'.symbol[t] = disk.symbol[t] \/ ~Exists(disk.intent[Buy(t)])
    <3>1. Buy(t) \in Ids /\ Buy(t)[1] = t BY BuyIsId DEF Buy
    <3>2. Exists(disk.intent[Buy(t)]) => disk'.symbol[Buy(t)[1]] = disk.symbol[Buy(t)[1]]
      BY <2>1, <3>1, IntentMoves
    <3> QED BY <3>1, <3>2
  <2> QED BY <2>2, <2>3, HeldSame
<1>3. ASSUME disk' = disk, pos' = pos, NEW x \in Ids, NEW o, orders' = [orders EXCEPT ![x] = o],
             o.filled = orders[x].filled
      PROVE  Held'
  <2>1. \A id \in Ids : orders'[id].filled = orders[id].filled BY <1>1, <1>3, Zenon
  <2> QED BY <1>3, <2>1, HeldSame
<1>4. ASSUME NEW r \in wire, Accept(r) PROVE Held'
  <2> DEFINE o == [symbol |-> r.symbol, qty |-> r.qty, filled |-> 0, status |-> "open"]
  <2>1. r.id \in Ids BY SMT DEF Inv, TypeOK
  <2>2. orders' = [orders EXCEPT ![r.id] = o] /\ disk' = disk /\ pos' = pos
    BY <1>4, Zenon DEF Accept, ledger
  <2>3. orders[r.id] = NoOrder BY Zenon DEF Trails, NotYetAccepted
  <2>4. o.filled = orders[r.id].filled BY <2>3 DEF NoOrder
  <2> HIDE DEF o
  <2> QED BY <1>3, <2>1, <2>2, <2>4
<1>5. ASSUME NEW x \in Ids, NEW st, Finish(x, st) PROVE Held'
  <2> DEFINE o == [orders[x] EXCEPT !.status = st]
  <2>1. orders' = [orders EXCEPT ![x] = o] /\ disk' = disk /\ pos' = pos
    BY <1>5, Zenon DEF Finish, ledger
  <2>2. orders[x] \in OrderSet BY <1>1
  <2>3. o.filled = orders[x].filled BY <2>2, Zenon DEF OrderSet
  <2> HIDE DEF o
  <2> QED BY <1>3, <2>1, <2>3
<1>6. CASE \E x \in Ids : Fill(x)
  <2>1. Inv' BY StepKeepsInv
  <2> QED BY <1>6, <2>1, HeldFill
<1>7. CASE UNCHANGED <<orders, pos, disk>>
  BY <1>7, HeldSame
<1>8. CASE Time \/ \E r \in wire : Drop(r)
  <2>1. UNCHANGED <<orders, pos, disk>>
    BY <1>8, Zenon DEF Time, Drop, SignalExpires, GraceElapses, CloseMarket, OpenMarket,
                       broker, ledger
  <2> QED BY <1>7, <2>1
<1>9. CASE UNCHANGED vars BY <1>7, <1>9, Zenon DEF vars
<1> QED BY <1>2, <1>4, <1>5, <1>6, <1>8, <1>9, Zenon DEF Next, Broker

(* The sells of a symbol.                                                  *)
SellsOf(s) == {id \in Ids : id[2] > 0 /\ disk.symbol[id[1]] = s}

(* What the sells of a symbol may still take is a total.                   *)
LEMMA CommittedIs ==
    ASSUME NEW s
    PROVE  CommittedSells(s) = Total([id \in Ids |-> Committed(id)], SellsOf(s))
<1> DEFINE S == SellsOf(s)
           f == [id \in Ids |-> Committed(id)]
           Step(g, u) == IF u = {} THEN 0
                         ELSE LET x == CHOOSE x \in u : TRUE
                              IN  Committed(x) + g[u \ {x}]
           Solves(g) == g = [u \in SUBSET S |-> Step(g, u)]
           h == CHOOSE g : Solves(g)
<1>1. CommittedSells(s) = h[S]
  BY DEF CommittedSells, MapThenSumSet, MapThenFoldSet, SellsOf
<1>2. \A g : Solves(g) <=> SumsOver(g, f, S)
  <2>1. ASSUME NEW g, NEW u \in SUBSET S PROVE Adds(g, f, u) = Step(g, u)
    <3>1. Step(g, u) = IF u = {} THEN 0 ELSE Committed(Pick(u)) + g[u \ {Pick(u)}]
      BY DEF Pick
    <3>2. CASE u = {} BY <3>1, <3>2 DEF Adds
    <3>3. CASE u # {}
      <4>1. Pick(u) \in Ids BY <3>3, PickIn DEF SellsOf
      <4>2. f[Pick(u)] = Committed(Pick(u)) BY <4>1
      <4> HIDE DEF f, Step
      <4> QED BY <3>1, <3>3, <4>2, Zenon DEF Adds
    <3> QED BY <3>2, <3>3
  <2> HIDE DEF Step
  <2>2. ASSUME NEW g
        PROVE  [u \in SUBSET S |-> Step(g, u)] = [u \in SUBSET S |-> Adds(g, f, u)]
    BY <2>1, Zenon
  <2> QED BY <2>2, Zenon DEF SumsOver
<1> HIDE DEF Solves
<1>3. IsFiniteSet(S)
  <2>1. IsFiniteSet(Trades) /\ IsFiniteSet(0..MaxSells)
    BY FS_Interval, BoundsAssumption DEF Trades
  <2>2. IsFiniteSet(Ids) BY <2>1, FS_Product DEF Ids
  <2>3. S \subseteq Ids BY DEF SellsOf
  <2> QED BY <2>2, <2>3, FS_Subset
<1> HIDE DEF S
<1>4. SumsOver(h, f, S)
  <2>1. \E g : Solves(g) BY <1>2, <1>3, SumsExist
  <2>2. Solves(h) BY <2>1, Zenon
  <2> QED BY <1>2, <2>2
<1> HIDE DEF f, h
<1>5. Total(f, S) = h[S] BY <1>3, <1>4, TotalSums
<1> QED BY <1>1, <1>5 DEF f, S

(* Sells that are covered by their trades' fills are covered by the        *)
(* symbol's position.                                                      *)
LEMMA CoveredIsEnough == Inv /\ Fits /\ Covered /\ Held => NeverOversold
<1> SUFFICES ASSUME Inv, Fits, Covered, Held, NEW s \in Symbols
             PROVE  CommittedSells(s) <= pos[s]
  BY DEF NeverOversold
<1> DEFINE U == Trades \X Sells
           C == [id \in Ids |-> Committed(id)]
           g == [p \in U |-> IF p \in SellsOf(s) THEN C[p] ELSE 0]
           row == [t \in Trades |-> [k \in Sells |-> g[<<t, k>>]]]
           rows == [t \in Trades |-> Total(row[t], Sells)]
           e == [t \in Trades |-> IF disk.symbol[t] = s THEN Shares(t) ELSE 0]
<1>1. IsFiniteSet(Trades) /\ IsFiniteSet(Sells)
  BY FS_Interval, BoundsAssumption DEF Trades, Sells
<1>2. IsFiniteSet(U) BY <1>1, FS_Product
<1>3. U \subseteq Ids BY BoundsAssumption DEF Ids, Sells
<1>4. SellsOf(s) \subseteq U BY BoundsAssumption DEF SellsOf, Ids, Sells
<1>5. \A id \in Ids : C[id] \in Int /\ C[id] = Committed(id) BY OwedIs
<1>6. \A p \in U : C[p] \in Int BY <1>3, <1>5
<1>7. \A p \in U : g[p] = IF p \in SellsOf(s) THEN C[p] ELSE 0 OBVIOUS
<1>8. Total(g, U) = Total(C, SellsOf(s))
  <2> HIDE DEF U, C, g
  <2> QED BY <1>2, <1>4, <1>6, <1>7, TotalFilter
<1>9. \A t \in Trades, k \in Sells : g[<<t, k>>] \in Int
  <2>1. \A p \in U : g[p] \in Int BY <1>6
  <2>2. ASSUME NEW t \in Trades, NEW k \in Sells PROVE <<t, k>> \in U OBVIOUS
  <2> HIDE DEF U, g, C, e, row, rows
  <2> QED BY <2>1, <2>2, Zenon
<1>10. Total(g, U) = Total(rows, Trades)
  <2>1. \A t \in Trades : rows[t] = Total(row[t], Sells) OBVIOUS
  <2>2. \A t \in Trades, k \in Sells : row[t][k] = g[<<t, k>>] OBVIOUS
  <2>3. \A t \in Trades, k \in Sells : g[<<t, k>>] \in Int /\ row[t][k] = g[<<t, k>>]
    BY <1>9, <2>2, Zenon
  <2>4. U = Trades \X Sells OBVIOUS
  <2> HIDE DEF g, row, rows, U, C, e
  <2>5. IsTable(U, g, rows, row, Trades, Sells)
    BY <1>1, <2>1, <2>3, <2>4, Zenon DEF IsTable
  <2> QED BY <2>5, TotalTable
<1>11. ASSUME NEW t \in Trades
       PROVE  rows[t] \in Int /\ e[t] \in Int /\ rows[t] <= e[t]
  <2> DEFINE c == row[t]
             a == [k \in Sells |-> orders[<<t, k>>].filled]
             o == [k \in Sells |-> Owed(<<t, k>>)]
             b == orders[Buy(t)].filled
  <2>1. \A k \in Sells : <<t, k>> \in Ids BY SellIsId
  <2>2. /\ \A k \in Sells : c[k] = g[<<t, k>>]
        /\ \A k \in Sells : a[k] = orders[<<t, k>>].filled
        /\ \A k \in Sells : o[k] = Owed(<<t, k>>)
    OBVIOUS
  <2>3. \A k \in Sells : c[k] = IF disk.symbol[t] = s THEN Committed(<<t, k>>) ELSE 0
    <3> SUFFICES ASSUME NEW k \in Sells
                 PROVE  c[k] = IF disk.symbol[t] = s THEN Committed(<<t, k>>) ELSE 0
      OBVIOUS
    <3> DEFINE p == <<t, k>>
    <3>1. p \in U /\ p \in Ids BY <2>1
    <3>2. p \in SellsOf(s) <=> disk.symbol[t] = s
      <4>1. p[1] = t /\ p[2] = k /\ k > 0 BY DEF Sells
      <4> HIDE DEF p
      <4> QED BY <3>1, <4>1 DEF SellsOf
    <3>3. c[k] = g[p] BY <2>2
    <3> HIDE DEF p, U, C, g, c, row, rows
    <3>4. c[k] = IF disk.symbol[t] = s THEN Committed(p) ELSE 0
      BY <1>5, <1>7, <3>1, <3>2, <3>3, Zenon
    <3> QED BY <3>4 DEF p
  <2>4. rows[t] = Total(c, Sells) OBVIOUS
  <2>5. e[t] = IF disk.symbol[t] = s THEN Shares(t) ELSE 0 OBVIOUS
  <2>6. Shares(t) = b - Total(a, Sells) BY Zenon DEF Shares
  <2>7. Total(o, Sells) <= b BY Zenon DEF Covered
  <2>8. Shares(t) \in Int BY SharesIsInt
  <2> HIDE DEF g, row, rows, e, c, a, o
  <2>9. \A k \in Sells : Committed(<<t, k>>) \in Int /\ orders[<<t, k>>].filled \in Int
    BY <2>1, OwedIs
  <2>10. CASE disk.symbol[t] = s
    <3>1. \A k \in Sells : c[k] \in Int /\ a[k] \in Int /\ o[k] = a[k] + c[k]
      BY <2>2, <2>3, <2>9, <2>10 DEF Owed
    <3>2. \A k \in Sells : o[k] \in Int BY <3>1
    <3>3. Total(o, Sells) = Total(a, Sells) + Total(c, Sells)
      BY <1>1, <3>1, <3>2, TotalPlus
    <3>4. Total(a, Sells) \in Int /\ Total(c, Sells) \in Int BY <1>1, <3>1, TotalInt
    <3>5. b \in Int BY BuyIsId, OwedIs
    <3>6. e[t] = b - Total(a, Sells) BY <2>5, <2>6, <2>10
    <3> HIDE DEF b
    <3> QED BY <2>4, <2>7, <3>3, <3>4, <3>5, <3>6
  <2>11. CASE disk.symbol[t] # s
    <3>1. \A k \in Sells : c[k] = 0 BY <2>3, <2>11
    <3>2. Total(c, Sells) = 0 BY <1>1, <3>1, TotalZero
    <3> QED BY <2>4, <2>5, <2>11, <3>2
  <2> QED BY <2>10, <2>11
<1>12. pos[s] = Total(e, Trades) BY Zenon DEF Held
<1>13. CommittedSells(s) = Total(C, SellsOf(s)) BY CommittedIs, Zenon
<1> HIDE DEF rows, row, e, C, g, U
<1>14. Total(rows, Trades) <= Total(e, Trades) BY <1>1, <1>11, TotalGrows
<1> QED BY <1>8, <1>10, <1>12, <1>13, <1>14

(* The parts of the argument hold in every reachable state.                *)
LEMMA CoverHolds ==
    ASSUME ~LateArrival
    PROVE  Spec => [](Fits /\ Covered /\ Held)
<1>1. ASSUME Init PROVE Fits /\ Covered /\ Held
  <2>1. /\ \A id \in Ids : orders[id] = NoOrder /\ disk.intent[id] = NoIntent
        /\ wire = {} /\ \A s \in Symbols : pos[s] = 0
    BY <1>1, SMT DEF Init, EmptyLedger
  <2>2. Fits BY <2>1, SMT DEF Fits, NoOrder
  <2>3. Inv BY <1>1, InitInv
  <2>4. IsFiniteSet(Trades) /\ IsFiniteSet(Sells)
    BY FS_Interval, BoundsAssumption DEF Trades, Sells
  <2>5. ASSUME NEW t \in Trades
        PROVE  /\ Total([k \in Sells |-> Owed(<<t, k>>)], Sells) <= orders[Buy(t)].filled
               /\ Shares(t) = 0
    <3> DEFINE f == [k \in Sells |-> Owed(<<t, k>>)]
    <3>1. ASSUME NEW k \in Sells PROVE Owed(<<t, k>>) = 0
      <4>1. <<t, k>> \in Ids BY SellIsId
      <4>2. orders[<<t, k>>] = NoOrder /\ disk.intent[<<t, k>>].qty = 0
        BY <2>1, <4>1 DEF NoIntent
      <4> QED BY <2>2, <2>3, <4>1, <4>2, OwedIs, Zenon
    <3>2. \A k \in Sells : f[k] = 0 BY <3>1
    <3> HIDE DEF f
    <3>3. Total(f, Sells) = 0 BY <2>4, <3>2, TotalZero
    <3>4. orders[Buy(t)].filled = 0 BY <2>1, BuyIsId DEF NoOrder
    <3>5. ~Exists(disk.intent[Buy(t)]) BY <2>1, BuyIsId, NoIntentNotDone
    <3>6. Shares(t) = 0 BY <2>3, <3>5, NothingTraded
    <3>7. Total(f, Sells) <= orders[Buy(t)].filled BY <3>3, <3>4
    <3> QED BY <3>6, <3>7 DEF f
  <2>6. ASSUME NEW s \in Symbols
        PROVE  pos[s] = Total([t \in Trades |-> IF disk.symbol[t] = s THEN Shares(t) ELSE 0],
                              Trades)
    <3> DEFINE e == [t \in Trades |-> IF disk.symbol[t] = s THEN Shares(t) ELSE 0]
    <3>1. \A t \in Trades : e[t] = 0 BY <2>5
    <3> HIDE DEF e
    <3>2. Total(e, Trades) = 0 BY <2>4, <3>1, TotalZero
    <3> QED BY <2>1, <3>2 DEF e
  <2> QED BY <2>2, <2>5, <2>6 DEF Covered, Held
<1>2. Inv /\ Trails /\ GraceInv /\ Fits /\ Covered /\ Held /\ [Next]_vars
          => Fits' /\ Covered' /\ Held'
  BY FitsStays, CoveredStays, HeldStays, Zenon
<1>3. Init => Fits /\ Covered /\ Held BY <1>1
<1>4. Spec => []GraceInv BY GraceHolds
<1> QED BY <1>2, <1>3, <1>4, InvHolds, TrailsHolds, PTL DEF Spec

(* No oversell, for any number of symbols, trades and sells, unless a POST *)
(* outlives the grace window: whatever fills, is lost, retried, abandoned  *)
(* or restarted in between, the sells still able to fill never exceed the  *)
(* shares the broker holds (exit_trade, sync_intent).                      *)
THEOREM SellsAreCovered ==
    ASSUME ~LateArrival
    PROVE  Spec => []NeverOversold
<1>1. Spec => [](Fits /\ Covered /\ Held) BY CoverHolds
<1> QED BY <1>1, CoveredIsEnough, InvHolds, PTL

-----------------------------------------------------------------------------
(* The account's custody.                                                  *)

(* A summand of a total of naturals is at most the total.                  *)
LEMMA TotalAtLeast ==
    ASSUME NEW S, IsFiniteSet(S), NEW f, \A x \in S : f[x] \in Nat, NEW y \in S
    PROVE  f[y] <= Total(f, S)
<1> DEFINE R == S \ {y}
           z == [x \in S |-> 0]
<1>1. IsFiniteSet(R) BY FS_Subset
<1>2. \A x \in S : f[x] \in Int OBVIOUS
<1>3. Total(f, S) = f[y] + Total(f, R) BY <1>2, TotalTake
<1>4. \A x \in R : z[x] = 0 OBVIOUS
<1>5. \A x \in R : z[x] \in Int /\ f[x] \in Int /\ z[x] <= f[x] OBVIOUS
<1> HIDE DEF R, z
<1>6. Total(z, R) = 0 BY <1>1, <1>4, TotalZero
<1>7. Total(z, R) <= Total(f, R) BY <1>1, <1>5, TotalGrows
<1>8. Total(f, R) \in Int
  <2>1. \A x \in R : f[x] \in Int BY <1>5
  <2> QED BY <1>1, <2>1, TotalInt
<1>9. f[y] \in Int BY <1>2
<1> QED BY <1>3, <1>6, <1>7, <1>8, <1>9

(* A sell the broker still fills finds a share to take.                    *)
LEMMA OpenSellHasShare ==
    ASSUME Inv, Fits, NeverOversold, NEW id \in Ids, id[2] # 0, orders[id].status = "open"
    PROVE  disk.symbol[id[1]] \in Symbols /\ pos[disk.symbol[id[1]]] > 0
<1> DEFINE s == disk.symbol[id[1]]
           C == [x \in Ids |-> Committed(x)]
<1>1. orders[id] # NoOrder /\ ~Terminal(orders[id]) BY SMT DEF NoOrder, Terminal
<1>2. disk.intent[id].attempted /\ disk.intent[id].qty = orders[id].qty
  BY <1>1, Zenon DEF Inv, SentIsDurable, Recorded
<1>3. s \in Symbols
  <2>1. Exists(disk.intent[id]) BY <1>2, NoIntentNotDone, Zenon DEF Inv, GoodLedger
  <2> QED BY <2>1, Zenon DEF Inv, GoodLedger
<1>4. Committed(id) > 0
  <2> DEFINE f == orders[id].filled  q == orders[id].qty
  <2>1. f < q BY Zenon DEF Fits
  <2>2. f \in Nat /\ q \in Nat BY SMT DEF Inv, TypeOK, OrderSet
  <2>3. Committed(id) = q - f BY <1>1, <1>2, Zenon DEF Committed
  <2> HIDE DEF f, q
  <2> QED BY <2>1, <2>2, <2>3
<1>5. IsFiniteSet(SellsOf(s))
  <2>1. IsFiniteSet(Trades) /\ IsFiniteSet(0..MaxSells)
    BY FS_Interval, BoundsAssumption DEF Trades
  <2>2. IsFiniteSet(Ids) BY <2>1, FS_Product DEF Ids
  <2>3. SellsOf(s) \subseteq Ids BY DEF SellsOf
  <2> HIDE DEF s
  <2> QED BY <2>2, <2>3, FS_Subset
<1>6. id \in SellsOf(s)
  <2>1. id[2] > 0 BY IdParts
  <2> QED BY <2>1 DEF SellsOf
<1>7. \A x \in SellsOf(s) : C[x] \in Nat /\ C[x] = Committed(x)
  BY OwedIs DEF SellsOf
<1>8. CommittedSells(s) = Total(C, SellsOf(s)) BY CommittedIs, Zenon
<1>9. CommittedSells(s) <= pos[s] BY <1>3, Zenon DEF NeverOversold
<1>10. pos[s] \in Int BY <1>3, Zenon DEF Inv, TypeOK
<1> HIDE DEF C, s
<1>11. C[id] <= Total(C, SellsOf(s)) BY <1>5, <1>6, <1>7, TotalAtLeast
<1>12. C[id] = Committed(id) BY <1>6, <1>7
<1>13. Total(C, SellsOf(s)) \in Int
  <2>1. \A x \in SellsOf(s) : C[x] \in Int BY <1>7
  <2> QED BY <1>5, <2>1, TotalInt
<1>14. C[id] \in Int BY <1>6, <1>7
<1>15. pos[s] > 0 BY <1>4, <1>8, <1>9, <1>10, <1>11, <1>12, <1>13, <1>14
<1> QED BY <1>3, <1>15 DEF s

(* The phases of the ledger's intents.                                     *)
Phases == [id \in Ids |-> Phase(disk.intent[id])]

(* The ids of the custody are the client order ids.                        *)
LEMMA SameIds == Custody!Ids = Ids
BY BoundsAssumption DEF Custody!Ids, Ids, Sells

(* One intent changed takes one id to another phase.                       *)
LEMMA OnePhase ==
    ASSUME disk \in LedgerSet, NEW id \in Ids, NEW i,
           disk'.intent = [disk.intent EXCEPT ![id] = i]
    PROVE  Phases' = [Phases EXCEPT ![id] = Phase(i)]
<1>1. \A j \in Ids : disk'.intent[j] = IF j = id THEN i ELSE disk.intent[j]
  BY Zenon DEF LedgerSet
<1>2. \A j \in Ids : Phase(disk'.intent[j]) = IF j = id THEN Phase(i) ELSE Phase(disk.intent[j])
  BY <1>1, Zenon
<1>3. Phases' = [j \in Ids |-> IF j = id THEN Phase(i) ELSE Phase(disk.intent[j])]
  BY <1>2, Zenon DEF Phases
<1>4. [Phases EXCEPT ![id] = Phase(i)]
          = [j \in Ids |-> IF j = id THEN Phase(i) ELSE Phases[j]]
  BY Zenon DEF Phases
<1>5. \A j \in Ids : Phases[j] = Phase(disk.intent[j]) BY Zenon DEF Phases
<1>6. [j \in Ids |-> IF j = id THEN Phase(i) ELSE Phases[j]]
          = [j \in Ids |-> IF j = id THEN Phase(i) ELSE Phase(disk.intent[j])]
  BY <1>5, Zenon
<1> QED BY <1>3, <1>4, <1>6, Zenon

(* A step of the runner is a step of the custody, or changes no phase.     *)
LEMMA RunnerKeepsCustody ==
    ASSUME Inv, RunnerStep
    PROVE  Custody!Next \/ UNCHANGED Custody!cvars
<1>1. disk \in LedgerSet /\ GoodLedger(disk) /\ pos' = pos
  BY Zenon DEF Inv, GoodLedger, RunnerStep
<1>2. ASSUME disk'.intent = disk.intent, disk'.symbol = disk.symbol
      PROVE  UNCHANGED Custody!cvars
  BY <1>1, <1>2, Zenon DEF Custody!cvars
<1>3. ASSUME NEW id \in Ids, NEW i, disk' = [disk EXCEPT !.intent[id] = i]
      PROVE  /\ Phases' = [Phases EXCEPT ![id] = Phase(i)]
             /\ disk'.symbol = disk.symbol
             /\ disk'.intent[id] = i
             /\ Phase(i) = Phase(disk.intent[id]) => UNCHANGED Custody!cvars
  <2>1. disk'.intent = [disk.intent EXCEPT ![id] = i] /\ disk'.symbol = disk.symbol
    BY <1>1, <1>3, Zenon DEF LedgerSet
  <2>2. Phases' = [Phases EXCEPT ![id] = Phase(i)] BY <1>1, <2>1, OnePhase
  <2>3. disk'.intent[id] = i BY <1>1, <2>1, Zenon DEF LedgerSet
  <2>4. ASSUME Phase(i) = Phase(disk.intent[id]) PROVE UNCHANGED Custody!cvars
    <3>1. \A j \in Ids : Phase(disk'.intent[j]) = Phase(disk.intent[j])
      <4>1. \A j \in Ids : disk'.intent[j] = IF j = id THEN i ELSE disk.intent[j]
        BY <1>1, <2>1, Zenon DEF LedgerSet
      <4> QED BY <2>4, <4>1, Zenon
    <3>2. [j \in Ids |-> Phase(disk'.intent[j])] = [j \in Ids |-> Phase(disk.intent[j])]
      BY <3>1, Zenon
    <3> QED BY <1>1, <2>1, <3>2, Zenon DEF Custody!cvars
  <2> QED BY <2>1, <2>2, <2>3, <2>4
<1>4. ASSUME NEW id \in Ids, Learns(id) \/ Abandons(id) \/ Cancels(id)
      PROVE  Custody!Next \/ UNCHANGED Custody!cvars
  <2> DEFINE d == disk.intent[id]
  <2>1. PICK i : /\ disk' = [disk EXCEPT !.intent[id] = i]
                 /\ i.qty = d.qty /\ i.attempted = d.attempted
    <3>0. d \in IntentSet BY <1>1, Zenon DEF LedgerSet
    <3>1. CASE Learns(id)
      <4>1. disk' = [disk EXCEPT !.intent[id] = [d EXCEPT !.order = orders[id]]]
        BY <1>4, <3>1, Zenon DEF Learns
      <4>2. [d EXCEPT !.order = orders[id]].qty = d.qty
            /\ [d EXCEPT !.order = orders[id]].attempted = d.attempted
        BY <3>0, Zenon DEF IntentSet
      <4> QED BY <4>1, <4>2
    <3>2. CASE Abandons(id)
      <4>1. disk' = [disk EXCEPT !.intent[id] = [d EXCEPT !.abandoned = TRUE]]
        BY <1>4, <3>2, Zenon DEF Abandons
      <4>2. [d EXCEPT !.abandoned = TRUE].qty = d.qty
            /\ [d EXCEPT !.abandoned = TRUE].attempted = d.attempted
        BY <3>0, Zenon DEF IntentSet
      <4> QED BY <4>1, <4>2
    <3>3. CASE Cancels(id)
      <4>1. disk' = [disk EXCEPT !.intent[id] = [d EXCEPT !.canceled = TRUE]]
        BY <1>4, <3>3, Zenon DEF Cancels
      <4>2. [d EXCEPT !.canceled = TRUE].qty = d.qty
            /\ [d EXCEPT !.canceled = TRUE].attempted = d.attempted
        BY <3>0, Zenon DEF IntentSet
      <4> QED BY <4>1, <4>2
    <3> QED BY <1>4, <3>1, <3>2, <3>3
  <2>2. Exists(d) /\ ~Done(d)
    BY <1>1, <1>4, NoIntentNotDone, Zenon DEF GoodLedger, Learns, Abandons, Cancels
  <2>3. Exists(i) BY <2>1, <2>2 DEF Exists
  <2>4. CASE ~Done(i)
    <3>1. Phase(i) = Phase(d) BY <2>1, <2>2, <2>3, <2>4, Zenon DEF Phase
    <3> QED BY <1>3, <2>1, <3>1
  <2>5. CASE Done(i)
    <3>1. Phase(i) = "over" BY <2>3, <2>5, Zenon DEF Phase
    <3>2. Phase(d) \in {"prepared", "sent"} BY <2>2, Zenon DEF Phase
    <3>3. Phases[id] = Phase(d) BY Zenon DEF Phases
    <3>4. Phases' = [Phases EXCEPT ![id] = "over"] /\ disk'.symbol = disk.symbol
      <4>1. Phases' = [Phases EXCEPT ![id] = Phase(i)] /\ disk'.symbol = disk.symbol
        BY <1>3, <2>1, Zenon
      <4> QED BY <3>1, <4>1, Zenon
    <3>5. Custody!End(id)
      BY <1>1, <3>2, <3>3, <3>4, Zenon DEF Custody!End, Custody!Live, Phases
    <3> QED BY <3>5, SameIds, Zenon DEF Custody!Next
  <2> QED BY <2>4, <2>5
<1>5. ASSUME NEW id \in Ids, Sends(id) PROVE Custody!Next
  <2> DEFINE d == disk.intent[id]
             i == [d EXCEPT !.attempted = TRUE]
  <2>1. disk' = [disk EXCEPT !.intent[id] = i] BY <1>5, Zenon DEF Sends
  <2>2. Exists(d) /\ ~Done(d) /\ ~d.attempted BY <1>5, Zenon DEF Sends
  <2>3. d \in IntentSet BY <1>1, Zenon DEF LedgerSet
  <2>4. /\ i.qty = d.qty /\ i.attempted = TRUE /\ i.canceled = d.canceled
        /\ i.abandoned = d.abandoned /\ i.order = d.order
    BY <2>3, Zenon DEF IntentSet
  <2> HIDE DEF i
  <2>5. Phase(i) = "sent" BY <2>2, <2>4, Zenon DEF Phase, Exists, Done
  <2>6. Phases[id] = "prepared" BY <2>2, Zenon DEF Phases, Phase
  <2>7. Phases' = [Phases EXCEPT ![id] = "sent"] /\ disk'.symbol = disk.symbol
    BY <1>3, <2>1, <2>5, Zenon
  <2>8. Custody!Send(id) BY <1>1, <2>6, <2>7, Zenon DEF Custody!Send, Phases
  <2> QED BY <2>8, SameIds, Zenon DEF Custody!Next
<1>6. ASSUME NEW n \in Trades, NEW q \in Nat \ {0}, NEW s \in Symbols, PushesBuy(n, q, s)
      PROVE  Custody!Next
  <2>1. /\ disk'.intent = [disk.intent EXCEPT ![Buy(n)] = NewIntent(q)]
        /\ disk'.symbol = [disk.symbol EXCEPT ![n] = s]
        /\ ~Exists(disk.intent[Buy(n)])
    BY <1>1, <1>6, Zenon DEF PushesBuy, LedgerSet
  <2>2. Phases' = [Phases EXCEPT ![Buy(n)] = Phase(NewIntent(q))]
    BY <1>1, <2>1, BuyIsId, OnePhase
  <2>3. Phase(NewIntent(q)) = "prepared" BY NewIntentIsLive, Zenon DEF Phase
  <2>4. Phases[Buy(n)] = "unused" BY <2>1, BuyIsId, Zenon DEF Phases, Phase
  <2>5. Custody!PrepareBuy(n, s)
    BY <1>1, <2>1, <2>2, <2>3, <2>4, Zenon DEF Custody!PrepareBuy, Phases, Buy
  <2> QED BY <2>5, Zenon DEF Custody!Next
<1>7. ASSUME NEW t \in Trades, NEW k \in Sells, NEW q \in Nat \ {0}, PushesSell(t, k, q)
      PROVE  Custody!Next
  <2>1. /\ disk'.intent = [disk.intent EXCEPT ![<<t, k>>] = NewIntent(q)]
        /\ disk'.symbol = disk.symbol
        /\ ~Exists(disk.intent[<<t, k>>])
        /\ Exists(disk.intent[Buy(t)]) /\ Done(disk.intent[Buy(t)])
        /\ OpenSells(disk, t) = {}
    BY <1>1, <1>7, Zenon DEF PushesSell, LedgerSet
  <2>2. Phases' = [Phases EXCEPT ![<<t, k>>] = Phase(NewIntent(q))]
    BY <1>1, <2>1, SellIsId, OnePhase
  <2>3. Phase(NewIntent(q)) = "prepared" BY NewIntentIsLive, Zenon DEF Phase
  <2>4. Phases[<<t, k>>] = "unused" BY <2>1, SellIsId, Zenon DEF Phases, Phase
  <2>5. Phases[Buy(t)] = "over" BY <2>1, BuyIsId, Zenon DEF Phases, Phase
  <2>6. \A j \in Sells : ~(Phases[<<t, j>>] \in {"prepared", "sent"})
    <3> SUFFICES ASSUME NEW j \in Sells PROVE Phases[<<t, j>>] \in {"unused", "over"} OBVIOUS
    <3>1. Done(disk.intent[<<t, j>>]) \/ ~Exists(disk.intent[<<t, j>>])
      BY <2>1, Zenon DEF OpenSells
    <3> QED BY <3>1, SellIsId, Zenon DEF Phases, Phase
  <2>7. Custody!PrepareSell(t, k)
    BY <1>1, <2>1, <2>2, <2>3, <2>4, <2>5, <2>6, Zenon
       DEF Custody!PrepareSell, Custody!Live, Phases, Buy
  <2> QED BY <2>7, Zenon DEF Custody!Next
<1>8. CASE UNCHANGED <<disk, wire>> BY <1>2, <1>8
<1>9. CASE Decides
  <2>1. disk'.intent = disk.intent /\ disk'.symbol = disk.symbol
    BY <1>1, <1>9, SMT DEF Decides, LedgerSet
  <2> QED BY <1>2, <2>1
<1> QED BY <1>4, <1>5, <1>6, <1>7, <1>8, <1>9, Zenon DEF RunnerStep

(* A fill is of an order the ledger holds as sent; nothing else the broker *)
(* or the clock does moves a share or a phase.                             *)
LEMMA OthersKeepCustody ==
    ASSUME Inv, Trails, GraceInv, Fits, NeverOversold, Broker \/ Time
    PROVE  Custody!Next \/ UNCHANGED Custody!cvars
<1>1. disk' = disk BY OnlyTheRunnerWrites
<1>2. ASSUME pos' = pos PROVE UNCHANGED Custody!cvars
  BY <1>1, <1>2, Zenon DEF Custody!cvars
<1>3. ASSUME NEW id \in Ids, Fill(id) PROVE Custody!Next
  <2> DEFINE u == id[1]
             s == disk.symbol[u]
  <2>1. orders[id].status = "open" BY <1>3, Zenon DEF Fill
  <2>2. orders[id] # NoOrder /\ ~Terminal(orders[id]) BY <2>1, SMT DEF NoOrder, Terminal
  <2>3. disk.intent[id].attempted /\ disk.symbol[u] = orders[id].symbol
    BY <2>2, Zenon DEF Inv, SentIsDurable, Recorded
  <2>4. Exists(disk.intent[id]) BY <2>3, NoIntentNotDone, Zenon DEF Inv, GoodLedger
  <2>5. ~Done(disk.intent[id])
    <3>1. ~(disk.intent[id].canceled \/ disk.intent[id].abandoned)
      BY <2>2, GivenUp, Zenon DEF GivenUpHasNoOrder
    <3>2. ~Terminal(disk.intent[id].order) BY <2>2, Zenon DEF Trails, LedgerTrailsBroker
    <3> QED BY <3>1, <3>2, Zenon DEF Done
  <2>6. Phases[id] = "sent" BY <2>3, <2>4, <2>5, Zenon DEF Phases, Phase
  <2>7. Phases' = Phases BY <1>1, Zenon DEF Phases
  <2>8. pos' = [pos EXCEPT ![s] = IF id[2] = 0 THEN pos[s] + 1 ELSE pos[s] - 1]
    BY <1>3, <2>3, Zenon DEF Fill
  <2>9. CASE id[2] = 0
    <3>1. pos' = [pos EXCEPT ![s] = pos[s] + 1] BY <2>8, <2>9, Zenon
    <3>2. Custody!Bought(id)
      BY <1>1, <2>6, <2>7, <2>9, <3>1, Zenon DEF Custody!Bought, Phases
    <3> QED BY <3>2, SameIds, Zenon DEF Custody!Next
  <2>10. CASE id[2] # 0
    <3>1. pos' = [pos EXCEPT ![s] = pos[s] - 1] BY <2>8, <2>10, Zenon
    <3>2. pos[s] > 0 BY <2>1, <2>10, OpenSellHasShare
    <3>3. Custody!Sold(id)
      BY <1>1, <2>6, <2>7, <2>10, <3>1, <3>2, Zenon DEF Custody!Sold, Phases
    <3> QED BY <3>3, SameIds, Zenon DEF Custody!Next
  <2> QED BY <2>9, <2>10
<1>4. CASE (\E r \in wire : Accept(r)) \/ (\E id \in Ids : \E st : Finish(id, st))
  BY <1>2, <1>4, Zenon DEF Accept, Finish
<1>5. CASE Time \/ \E r \in wire : Drop(r)
  <2>1. pos' = pos
    BY <1>5, Zenon DEF Time, Drop, SignalExpires, GraceElapses, CloseMarket, OpenMarket, broker
  <2> QED BY <1>2, <2>1
<1> QED BY <1>3, <1>4, <1>5, Zenon DEF Broker

(* The runner implements PaperCustody, for any number of symbols, trades   *)
(* and sells, unless a POST outlives the grace window: every client order  *)
(* id lives one life, a trade has one live sell, shares move only on ids   *)
(* the ledger holds as sent, and no sale takes a share that is not held.   *)
THEOREM CustodyIsKept ==
    ASSUME ~LateArrival
    PROVE  Spec => KeepsCustody
<1>1. Init => Custody!Init
  <2> SUFFICES ASSUME Init PROVE Custody!Init OBVIOUS
  <2>1. \A id \in Ids : disk.intent[id] = NoIntent BY Zenon DEF Init, EmptyLedger
  <2>2. \A id \in Ids : Phase(disk.intent[id]) = "unused"
    BY <2>1, NoIntentNotDone, Zenon DEF Phase
  <2>3. [id \in Ids |-> Phase(disk.intent[id])] = [id \in Ids |-> "unused"]
    BY <2>2, Zenon
  <2>4. disk.symbol = [t \in Trades |-> None] /\ pos = [s \in Symbols |-> 0]
    BY Zenon DEF Init, EmptyLedger
  <2> QED BY <2>3, <2>4, SameIds, Zenon DEF Custody!Init
<1>2. ASSUME Inv, Trails, GraceInv, Fits, NeverOversold, [Next]_vars
      PROVE  [Custody!Next]_(Custody!cvars)
  <2>1. CASE Runner BY <1>2, <2>1, RunnerMoves, RunnerKeepsCustody
  <2>2. CASE Broker \/ Time BY <1>2, <2>2, OthersKeepCustody
  <2>3. CASE UNCHANGED vars BY <2>3, Zenon DEF vars, Custody!cvars
  <2> QED BY <1>2, <2>1, <2>2, <2>3, Zenon DEF Next
<1>3. Inv /\ Trails /\ GraceInv /\ Fits /\ NeverOversold /\ [Next]_vars
          => [Custody!Next]_(Custody!cvars)
  BY <1>2
<1>4. Spec => []GraceInv BY GraceHolds
<1>5. Spec => [](Fits /\ Covered /\ Held) BY CoverHolds
<1>6. Spec => []NeverOversold BY SellsAreCovered
<1> QED BY <1>1, <1>3, <1>4, <1>5, <1>6, InvHolds, TrailsHolds, PTL
        DEF Spec, KeepsCustody, Custody!Spec

-----------------------------------------------------------------------------
(* One live trade per symbol.                                              *)

(* What a step of the runner does to an intent: pushed stays pushed, and   *)
(* its fills, attempt and outcome change only by an answer, a POST and the *)
(* moves that end it.                                                      *)
LEMMA IntentKept ==
    ASSUME Inv, RunnerStep, NEW id \in Ids
    PROVE  /\ Exists(disk.intent[id]) =>
                  Exists(disk'.intent[id]) /\ disk'.intent[id].qty = disk.intent[id].qty
           /\ Done(disk.intent[id]) => disk'.intent[id] = disk.intent[id]
           /\ disk'.intent[id].attempted => disk.intent[id].attempted \/ Sends(id)
           /\ Filled(disk', id) # Filled(disk, id) =>
                  Learns(id) /\ Filled(disk', id) = orders[id].filled
           /\ Learns(id) => /\ disk'.intent[id].order = orders[id]
                            /\ disk'.intent[id].attempted
<1> DEFINE d == disk.intent[id]  e == disk'.intent[id]
<1>1. d \in IntentSet /\ (~Exists(d) => d = NoIntent) BY Zenon DEF Inv, GoodLedger, LedgerSet
<1>2. Exists(d) \/ (~Done(d) /\ ~d.attempted /\ d.order = NoOrder)
  <2>1. NoIntent.order = NoOrder BY DEF NoIntent
  <2> QED BY <1>1, <2>1, NoIntentNotDone, Zenon
<1>3. Moves(id) BY IntentMoves
<1>4. CASE e = d
  <2>1. Learns(id) => d.order = orders[id] /\ d.attempted
    <3>1. Learns(id) => disk'.intent = [disk.intent EXCEPT ![id] = [d EXCEPT !.order = orders[id]]]
      BY Zenon DEF Learns, Inv, GoodLedger, LedgerSet
    <3>2. Learns(id) => e = [d EXCEPT !.order = orders[id]]
      BY <3>1, Zenon DEF Inv, GoodLedger, LedgerSet
    <3>3. [d EXCEPT !.order = orders[id]].order = orders[id] BY <1>1, Zenon DEF IntentSet
    <3> QED BY <1>4, <3>2, <3>3, Zenon DEF Learns
  <2> QED BY <1>4, <2>1, Zenon DEF Filled
<1>5. CASE Learns(id) /\ e = [d EXCEPT !.order = orders[id]]
  <2>1. e.order = orders[id] /\ e.qty = d.qty /\ e.attempted = d.attempted
    BY <1>1, <1>5, Zenon DEF IntentSet
  <2>2. d.attempted /\ ~Done(d) BY <1>5, Zenon DEF Learns
  <2> QED BY <1>2, <1>5, <2>1, <2>2, Zenon DEF Filled, Exists
<1>6. ASSUME e # d, Learns(id) PROVE e = [d EXCEPT !.order = orders[id]]
  <2>1. disk'.intent = [disk.intent EXCEPT ![id] = [d EXCEPT !.order = orders[id]]]
    BY <1>6, Zenon DEF Learns, Inv, GoodLedger, LedgerSet
  <2> QED BY <2>1, Zenon DEF Inv, GoodLedger, LedgerSet
<1>7. CASE ~Learns(id) /\ e # d /\ \/ Abandons(id) /\ e = [d EXCEPT !.abandoned = TRUE]
                                   \/ Cancels(id) /\ e = [d EXCEPT !.canceled = TRUE]
  <2>1. e.order = d.order /\ e.qty = d.qty /\ e.attempted = d.attempted
    BY <1>1, <1>7, Zenon DEF IntentSet
  <2>2. ~Done(d) BY <1>7, Zenon DEF Abandons, Cancels
  <2> QED BY <1>2, <1>7, <2>1, <2>2, Zenon DEF Filled, Exists
<1>8. CASE ~Learns(id) /\ e # d /\ Sends(id) /\ e = [d EXCEPT !.attempted = TRUE]
  <2>1. e.order = d.order /\ e.qty = d.qty BY <1>1, <1>8, Zenon DEF IntentSet
  <2>2. ~Done(d) BY <1>8, Zenon DEF Sends
  <2> QED BY <1>2, <1>8, <2>1, <2>2, Zenon DEF Filled, Exists
<1>9. CASE ~Learns(id) /\ e # d /\ ~Exists(d) /\ \E q \in Nat \ {0} : e = NewIntent(q)
  <2>1. PICK q \in Nat \ {0} : e = NewIntent(q) BY <1>9
  <2>2. e.order = NoOrder
    BY <2>1, NoIntentIsTyped, Zenon DEF NewIntent, NoIntent, IntentSet
  <2>3. ~e.attempted BY <2>1, NewIntentIsLive, Zenon
  <2>4. d.order = NoOrder BY <1>2, <1>9
  <2> QED BY <1>2, <1>9, <2>2, <2>3, <2>4, Zenon DEF Filled
<1> HIDE DEF e, d
<1> QED BY <1>3, <1>4, <1>5, <1>6, <1>7, <1>8, <1>9, Zenon DEF Moves, d, e

(* A step of the runner names no symbol but that of the trade it pushes,   *)
(* and stamps that one with today.                                         *)
LEMMA TradeMoves ==
    ASSUME Inv, RunnerStep, NEW t \in Trades
    PROVE  \/ disk'.symbol[t] = disk.symbol[t] /\ disk'.day[t] = disk.day[t]
           \/ \E q \in Nat \ {0}, s \in Symbols :
                  /\ PushesBuy(t, q, s)
                  /\ disk'.symbol[t] = s /\ disk'.day[t] = day
                  /\ disk'.intent[Buy(t)] = NewIntent(q)
                  /\ \A u \in Trades : u # t => /\ disk'.symbol[u] = disk.symbol[u]
                                                /\ disk'.day[u] = disk.day[u]
<1>1. disk \in LedgerSet BY Zenon DEF Inv, TypeOK
<1>2. CASE UNCHANGED <<disk, wire>> BY <1>2
<1>3. CASE Decides
  <2>1. disk'.symbol = disk.symbol /\ disk'.day = disk.day
    BY <1>1, <1>3, Zenon DEF Decides, LedgerSet
  <2> QED BY <2>1
<1>4. CASE \E id \in Ids : Learns(id) \/ Abandons(id) \/ Cancels(id) \/ Sends(id)
  <2>1. PICK id \in Ids : \E i : disk' = [disk EXCEPT !.intent[id] = i]
    BY <1>4, Zenon DEF Learns, Abandons, Cancels, Sends
  <2>2. disk'.symbol = disk.symbol /\ disk'.day = disk.day BY <1>1, <2>1, Zenon DEF LedgerSet
  <2> QED BY <2>2
<1>5. ASSUME NEW n \in Trades, NEW q \in Nat \ {0}, NEW s \in Symbols, PushesBuy(n, q, s)
      PROVE  \/ disk'.symbol[t] = disk.symbol[t] /\ disk'.day[t] = disk.day[t]
             \/ /\ PushesBuy(t, q, s)
                /\ disk'.symbol[t] = s /\ disk'.day[t] = day
                /\ disk'.intent[Buy(t)] = NewIntent(q)
                /\ \A u \in Trades : u # t => /\ disk'.symbol[u] = disk.symbol[u]
                                              /\ disk'.day[u] = disk.day[u]
  <2>1. /\ disk'.intent = [disk.intent EXCEPT ![Buy(n)] = NewIntent(q)]
        /\ disk'.symbol = [disk.symbol EXCEPT ![n] = s]
        /\ disk'.day = [disk.day EXCEPT ![n] = day]
    BY <1>1, <1>5, Zenon DEF PushesBuy, LedgerSet
  <2>2. /\ \A u \in Trades : disk'.symbol[u] = IF u = n THEN s ELSE disk.symbol[u]
        /\ \A u \in Trades : disk'.day[u] = IF u = n THEN day ELSE disk.day[u]
        /\ disk'.intent[Buy(n)] = NewIntent(q)
    BY <1>1, <2>1, BuyIsId, Zenon DEF LedgerSet
  <2> QED BY <1>5, <2>2, Zenon
<1>6. CASE \E u \in Trades, m \in Sells, q \in Nat \ {0} : PushesSell(u, m, q)
  <2>1. disk'.symbol = disk.symbol /\ disk'.day = disk.day
    BY <1>1, <1>6, Zenon DEF PushesSell, LedgerSet
  <2> QED BY <2>1
<1> QED BY <1>2, <1>3, <1>4, <1>5, <1>6, Zenon DEF RunnerStep

(* A buy whose entry window is over is not sent any more.                  *)
LEMMA SentInTime ==
    ASSUME Inv, Runner, NEW t \in Trades, Sends(Buy(t))
    PROVE  t \notin stale
<1> USE DEF ledger, broker, world
<1> DEFINE r == [id |-> Buy(t), symbol |-> disk.symbol[Buy(t)[1]],
                 qty |-> disk.intent[Buy(t)].qty]
<1>1. ~disk.intent[Buy(t)].attempted /\ wire' = wire \cup {r} BY Zenon DEF Sends
<1>2. r.id = Buy(t) OBVIOUS
<1> HIDE DEF r
<1>3. r \notin wire /\ ~OnWire(Buy(t)) BY <1>1, <1>2, Zenon DEF Inv, SentIsDurable, Recorded, OnWire
<1>4. wire' # wire BY <1>1, <1>3, Zenon
<1>5. CASE Start \/ Verify \/ CallFails \/ Crash
  BY <1>4, <1>5, Zenon DEF Start, Verify, CallFails, Crash, Env
<1>6. CASE Enter
  BY <1>4, <1>6, Zenon DEF Enter, EventEnter, EntryPositions, EntryOrders, EntrySkipped,
                           EntryPushed, Env
<1>7. CASE Manage
  BY <1>4, <1>7, Zenon DEF Manage, Tick, TickClock, TimerExit, FetchBars, BarExit, BarsDone,
                           Decide, Env
<1>8. CASE Exit
  BY <1>4, <1>8, Zenon DEF Exit, EventExit, Decide, ExitClock, ExitPositions, ExitRefused,
                           PushSell, Env
<1>9. CASE SyncIntent /\ ~Attempt
  BY <1>4, <1>9, Zenon DEF SyncIntent, LookupFound, LookupMissing, SubmitMarketClosed,
                           CancelLocally, PostAnswered, PostFails, Env
<1>10. CASE Attempt
  <2> DEFINE q == [id |-> at.id, symbol |-> mem.symbol[at.id[1]], qty |-> I.qty]
  <2>1. wire' = wire \cup {q} /\ (at.id[2] = 0 => at.id[1] \notin stale)
    BY <1>10, Zenon DEF Attempt
  <2>2. q.id = at.id OBVIOUS
  <2> HIDE DEF q
  <2>3. r = q BY <1>1, <1>3, <2>1, Zenon
  <2>4. at.id = Buy(t) BY <1>2, <2>2, <2>3
  <2>5. Buy(t)[1] = t /\ Buy(t)[2] = 0 BY DEF Buy
  <2> QED BY <2>1, <2>4, <2>5, Zenon
<1> QED BY <1>5, <1>6, <1>7, <1>8, <1>9, <1>10, Zenon DEF Runner

(* A trade with a symbol was pushed, by today; one of an earlier session   *)
(* is past its entry window.                                               *)
Early(t) == disk.symbol[t] # None /\ disk.day[t] < day
Dated == \A t \in Trades :
    /\ disk.symbol[t] # None => Pushed(disk, t) /\ disk.day[t] <= day
    /\ Early(t) => t \in stale

(* Days pass only when the market opens, and then every signal is stale.   *)
LEMMA DaysPass ==
    ASSUME Inv, Broker \/ Time
    PROVE  /\ disk' = disk /\ UNCHANGED runner
           /\ \/ OpenMarket
              \/ day' = day /\ stale \subseteq stale' /\ graceOver \subseteq graceOver'
<1>1. disk' = disk BY OnlyTheRunnerWrites
<1>2. CASE Broker
  BY <1>1, <1>2, Zenon DEF Broker, Accept, Drop, Fill, Finish, runner, world
<1>3. CASE Time
  BY <1>1, <1>3, Zenon DEF Time, SignalExpires, GraceElapses, CloseMarket, OpenMarket, runner
<1> QED BY <1>2, <1>3

(* Trades stay dated.                                                      *)
LEMMA DatedStays == Inv /\ Dated /\ [Next]_vars => Dated'
<1> SUFFICES ASSUME Inv, Dated, [Next]_vars, NEW t \in Trades
             PROVE  /\ disk'.symbol[t] # None => Pushed(disk', t) /\ disk'.day[t] <= day'
                    /\ Early(t)' => t \in stale'
  BY Zenon DEF Dated
<1>0. day \in Nat /\ disk.day[t] \in Nat
  <2>1. disk.day[t] \in 0..MaxDays BY Zenon DEF Inv, TypeOK, LedgerSet
  <2>2. day \in 1..MaxDays BY Zenon DEF Inv, TypeOK
  <2> QED BY <2>1, <2>2
<1>1. ASSUME Runner
      PROVE  /\ disk'.symbol[t] # None => Pushed(disk', t) /\ disk'.day[t] <= day'
             /\ Early(t)' => t \in stale'
  <2>1. RunnerStep BY <1>1, RunnerMoves
  <2>2. day' = day /\ stale' = stale BY <2>1, Zenon DEF RunnerStep, world
  <2>3. CASE disk'.symbol[t] = disk.symbol[t] /\ disk'.day[t] = disk.day[t]
    <3>1. Pushed(disk, t) => Pushed(disk', t) BY <2>1, BuyIsId, IntentKept, Zenon DEF Pushed
    <3> QED BY <2>2, <2>3, <3>1, Zenon DEF Dated, Early
  <2>4. CASE \E q \in Nat \ {0} : disk'.day[t] = day /\ disk'.intent[Buy(t)] = NewIntent(q)
    <3>1. PICK q \in Nat \ {0} : disk'.day[t] = day /\ disk'.intent[Buy(t)] = NewIntent(q)
      BY <2>4
    <3>2. Pushed(disk', t) BY <3>1, NewIntentIsLive, Zenon DEF Pushed
    <3>3. disk'.day[t] <= day' /\ ~(disk'.day[t] < day') BY <1>0, <2>2, <3>1
    <3> QED BY <3>2, <3>3, Zenon DEF Early
  <2> QED BY <2>1, <2>3, <2>4, TradeMoves, Zenon
<1>2. ASSUME Broker \/ Time
      PROVE  /\ disk'.symbol[t] # None => Pushed(disk', t) /\ disk'.day[t] <= day'
             /\ Early(t)' => t \in stale'
  <2>1. disk' = disk BY <1>2, DaysPass
  <2>2. CASE day' = day /\ stale \subseteq stale' BY <2>1, <2>2, Zenon DEF Dated, Early
  <2>3. CASE OpenMarket
    <3>1. day' = day + 1 /\ stale' = {u \in Trades : Pushed(disk, u)}
      BY <2>3, Zenon DEF OpenMarket
    <3>2. disk.symbol[t] # None => Pushed(disk, t) /\ disk.day[t] <= day BY Zenon DEF Dated
    <3>3. disk.day[t] <= day => disk.day[t] <= day' BY <1>0, <3>1
    <3>4. Pushed(disk, t) => t \in stale' BY <3>1, Zenon
    <3> QED BY <2>1, <3>2, <3>3, <3>4, Zenon DEF Early
  <2> QED BY <1>2, <2>2, <2>3, DaysPass
<1>3. CASE UNCHANGED vars
  <2>1. disk' = disk /\ day' = day /\ stale' = stale BY <1>3, Zenon DEF vars
  <2> QED BY <2>1, Zenon DEF Dated, Early
<1> QED BY <1>1, <1>2, <1>3, Zenon DEF Next

(* An order the broker has is one it accepted, and an answer in the ledger *)
(* is of one.                                                              *)
Known == \A id \in Ids :
    /\ orders[id].status = "none" => orders[id] = NoOrder
    /\ disk.intent[id].order # NoOrder => orders[id] # NoOrder

(* It stays so.                                                            *)
LEMMA KnownStays == Inv /\ Known /\ [Next]_vars => Known'
<1> SUFFICES ASSUME Inv, Known, [Next]_vars, NEW id \in Ids
             PROVE  /\ orders'[id].status = "none" => orders'[id] = NoOrder
                    /\ disk'.intent[id].order # NoOrder => orders'[id] # NoOrder
  BY Zenon DEF Known
<1>0. orders \in [Ids -> OrderSet] BY Zenon DEF Inv, TypeOK
<1>1. ASSUME Runner
      PROVE  /\ orders'[id].status = "none" => orders'[id] = NoOrder
             /\ disk'.intent[id].order # NoOrder => orders'[id] # NoOrder
  <2>1. RunnerStep BY <1>1, RunnerMoves
  <2>2. orders' = orders BY <2>1, Zenon DEF RunnerStep
  <2>3. disk.intent[id] \in IntentSet BY Zenon DEF Inv, TypeOK, LedgerSet
  <2>4. Moves(id) BY <2>1, IntentMoves
  <2>5. \/ disk'.intent[id].order = disk.intent[id].order
        \/ orders[id] # NoOrder
        \/ disk'.intent[id].order = NoOrder
    <3>1. /\ [disk.intent[id] EXCEPT !.abandoned = TRUE].order = disk.intent[id].order
          /\ [disk.intent[id] EXCEPT !.canceled = TRUE].order = disk.intent[id].order
          /\ [disk.intent[id] EXCEPT !.attempted = TRUE].order = disk.intent[id].order
      BY <2>3, Zenon DEF IntentSet
    <3>2. \A q \in Nat \ {0} : NewIntent(q).order = NoOrder
      BY NoIntentIsTyped, Zenon DEF NewIntent, NoIntent, IntentSet
    <3> QED BY <2>4, <3>1, <3>2, Zenon DEF Moves, Learns
  <2> QED BY <2>2, <2>5, Zenon DEF Known
<1>2. ASSUME disk' = disk, orders' = orders \/ orders'[id] = orders[id]
                               \/ orders'[id].status \in {"open", "filled", "canceled", "rejected"}
      PROVE  /\ orders'[id].status = "none" => orders'[id] = NoOrder
             /\ disk'.intent[id].order # NoOrder => orders'[id] # NoOrder
  <2>1. CASE orders'[id] = orders[id] BY <1>2, <2>1, Zenon DEF Known
  <2>2. CASE orders'[id].status \in {"open", "filled", "canceled", "rejected"}
    <3>1. orders'[id].status # "none" /\ NoOrder.status = "none" BY <2>2 DEF NoOrder
    <3> QED BY <3>1, Zenon
  <2> QED BY <1>2, <2>1, <2>2
<1>3. CASE Broker
  <2>0. disk' = disk BY <1>3, OnlyTheRunnerWrites
  <2>1. ASSUME NEW j \in Ids, NEW o, orders' = [orders EXCEPT ![j] = o],
               o.status \in {"open", "filled", "canceled", "rejected"}
        PROVE  \/ orders'[id] = orders[id]
               \/ orders'[id].status \in {"open", "filled", "canceled", "rejected"}
    <3>1. orders'[id] = IF id = j THEN o ELSE orders[id] BY <1>0, <2>1, Zenon
    <3> QED BY <2>1, <3>1
  <2>2. ASSUME NEW r \in wire, Accept(r)
        PROVE  \/ orders'[id] = orders[id]
               \/ orders'[id].status \in {"open", "filled", "canceled", "rejected"}
    <3> DEFINE o == [symbol |-> r.symbol, qty |-> r.qty, filled |-> 0, status |-> "open"]
    <3>1. orders' = [orders EXCEPT ![r.id] = o] BY <2>2, Zenon DEF Accept
    <3>2. r.id \in Ids BY SMT DEF Inv, TypeOK
    <3>3. o.status = "open" OBVIOUS
    <3> HIDE DEF o
    <3> QED BY <2>1, <3>1, <3>2, <3>3
  <2>3. ASSUME NEW j \in Ids, Fill(j)
        PROVE  \/ orders'[id] = orders[id]
               \/ orders'[id].status \in {"open", "filled", "canceled", "rejected"}
    <3> DEFINE n == orders[j].filled + 1
               st == IF n = orders[j].qty THEN "filled" ELSE "open"
               o == [orders[j] EXCEPT !.filled = n, !.status = st]
    <3>1. orders' = [orders EXCEPT ![j] = o] BY <2>3, Zenon DEF Fill
    <3>2. o.status = st BY <1>0, Zenon DEF OrderSet
    <3>3. st \in {"filled", "open"} OBVIOUS
    <3> HIDE DEF o, st, n
    <3> QED BY <2>1, <3>1, <3>2, <3>3
  <2>4. ASSUME NEW j \in Ids, NEW st \in {"canceled", "rejected"}, Finish(j, st)
        PROVE  \/ orders'[id] = orders[id]
               \/ orders'[id].status \in {"open", "filled", "canceled", "rejected"}
    <3> DEFINE o == [orders[j] EXCEPT !.status = st]
    <3>1. orders' = [orders EXCEPT ![j] = o] BY <2>4, Zenon DEF Finish
    <3>2. o.status = st BY <1>0, Zenon DEF OrderSet
    <3> HIDE DEF o
    <3> QED BY <2>1, <3>1, <3>2
  <2>5. ASSUME NEW r \in wire, Drop(r) PROVE orders'[id] = orders[id]
    BY <2>5, Zenon DEF Drop
  <2> QED BY <1>2, <1>3, <2>0, <2>2, <2>3, <2>4, <2>5, Zenon DEF Broker
<1>4. CASE Time
  <2>1. orders' = orders
    BY <1>4, Zenon DEF Time, SignalExpires, GraceElapses, CloseMarket, OpenMarket, broker
  <2> QED BY <1>2, <1>4, <2>1, OnlyTheRunnerWrites
<1>5. CASE UNCHANGED vars BY <1>2, <1>5, Zenon DEF vars
<1> QED BY <1>1, <1>3, <1>4, <1>5, Zenon DEF Next

(* Buys of an earlier session whose outcome the ledger does not know.      *)
Overdue == {t \in Trades : /\ Early(t) /\ disk.intent[Buy(t)].attempted
                           /\ ~Done(disk.intent[Buy(t)])}

(* Their orders ended, or their requests are lost and the grace window is  *)
(* over: one answer settles each.                                          *)
Lost == \A t \in Overdue :
    /\ orders[Buy(t)].status # "open" /\ ~OnWire(Buy(t))
    /\ orders[Buy(t)] = NoOrder => Buy(t) \in graceOver

(* There are none but while the process is down or starting, where those   *)
(* left are still ahead of the one looked up.                              *)
Starting == at.pc = "lookup" /\ at.task = "start"
Awake ==
    /\ Starting => \A t \in Overdue : ~Before(Buy(t), at.id)
    /\ at.pc # "down" /\ ~Starting => Overdue = {}

(* The runner leaves no buy overdue that was not: it sends none whose      *)
(* entry window is over, and what it pushes is of today.                   *)
LEMMA OverdueShrinks ==
    ASSUME Inv, Dated, Runner
    PROVE  \A t \in Overdue' : /\ t \in Overdue
                               /\ disk'.intent[Buy(t)].attempted
                               /\ ~Done(disk'.intent[Buy(t)])
<1> SUFFICES ASSUME NEW t \in Overdue'
             PROVE  /\ t \in Overdue
                    /\ disk'.intent[Buy(t)].attempted
                    /\ ~Done(disk'.intent[Buy(t)])
  OBVIOUS
<1>1. RunnerStep BY RunnerMoves
<1>2. day' = day BY <1>1, Zenon DEF RunnerStep, world
<1>3. /\ t \in Trades /\ disk'.symbol[t] # None /\ disk'.day[t] < day'
      /\ disk'.intent[Buy(t)].attempted /\ ~Done(disk'.intent[Buy(t)])
  BY Zenon DEF Overdue, Early
<1>4. day \in Int BY DEF Inv, TypeOK
<1>5. disk'.day[t] # day BY <1>2, <1>3, <1>4
<1>6. disk'.symbol[t] = disk.symbol[t] /\ disk'.day[t] = disk.day[t]
  BY <1>1, <1>3, <1>5, TradeMoves, Zenon
<1>7. Early(t) BY <1>2, <1>3, <1>6, Zenon DEF Early
<1>8. t \in stale BY <1>3, <1>7, Zenon DEF Dated
<1>9. ~Sends(Buy(t)) BY <1>3, <1>8, SentInTime
<1>10. disk.intent[Buy(t)].attempted BY <1>1, <1>3, <1>9, BuyIsId, IntentKept, Zenon
<1>11. ~Done(disk.intent[Buy(t)]) BY <1>1, <1>3, BuyIsId, IntentKept, Zenon
<1> QED BY <1>3, <1>7, <1>10, <1>11, Zenon DEF Overdue

(* An overdue buy that the broker has or has not answers at once.          *)
LEMMA LostStays ==
    ASSUME Inv, Dated, Lost, ~OvernightOutage, [Next]_vars
    PROVE  Lost'
<1> SUFFICES ASSUME NEW t \in Overdue'
             PROVE  /\ orders'[Buy(t)].status # "open" /\ ~OnWire(Buy(t))'
                    /\ orders'[Buy(t)] = NoOrder => Buy(t) \in graceOver'
  BY Zenon DEF Lost
<1>1. t \in Trades /\ Buy(t) \in Ids BY BuyIsId, Zenon DEF Overdue
<1>2. CASE Runner
  <2>1. RunnerStep BY <1>2, RunnerMoves
  <2>2. orders' = orders /\ graceOver' = graceOver BY <2>1, Zenon DEF RunnerStep, world
  <2>3. t \in Overdue BY <1>2, OverdueShrinks
  <2>4. disk.intent[Buy(t)].attempted BY <2>3, Zenon DEF Overdue
  <2>5. ~OnWire(Buy(t))'
    <3> SUFFICES ASSUME NEW r \in wire', r.id = Buy(t) PROVE FALSE BY Zenon DEF OnWire
    <3>1. r \notin wire BY <2>3, Zenon DEF Lost, OnWire
    <3>2. PICK j \in Ids : Sends(j) /\ r = [id |-> j, symbol |-> disk.symbol[j[1]],
                                            qty |-> disk.intent[j].qty]
      BY <2>1, <3>1, WireMoves, Zenon
    <3>3. j = Buy(t) BY <3>2, SMT
    <3> QED BY <2>4, <3>2, <3>3, Zenon DEF Sends
  <2> QED BY <2>2, <2>3, <2>5, Zenon DEF Lost
<1>3. CASE OpenMarket
  <2>1. /\ \A id \in Ids : orders[id].status # "open"
        /\ wire = {} /\ UNCHANGED <<disk, wire, orders>>
        /\ graceOver' = graceOver \cup Pending(disk)
    BY <1>3, Zenon DEF OpenMarket, ledger, broker
  <2>2. Buy(t) \in Pending(disk) BY <1>1, <2>1, Zenon DEF Pending, Overdue
  <2>3. ~OnWire(Buy(t))' BY <2>1, Zenon DEF OnWire
  <2> QED BY <1>1, <2>1, <2>2, <2>3, Zenon
<1>4. ASSUME disk' = disk, day' = day, graceOver \subseteq graceOver', wire' \subseteq wire,
             orders'[Buy(t)] = orders[Buy(t)]
      PROVE  /\ orders'[Buy(t)].status # "open" /\ ~OnWire(Buy(t))'
             /\ orders'[Buy(t)] = NoOrder => Buy(t) \in graceOver'
  <2>1. t \in Overdue BY <1>4, Zenon DEF Overdue, Early
  <2> QED BY <1>4, <2>1, Zenon DEF Lost, OnWire
<1>5. CASE (Broker \/ Time) /\ ~OpenMarket
  <2>1. disk' = disk /\ day' = day /\ graceOver \subseteq graceOver' /\ wire' \subseteq wire
    BY <1>5, DaysPass, OnlyTheRunnerWrites
  <2>2. t \in Overdue BY <2>1, Zenon DEF Overdue, Early
  <2>3. orders[Buy(t)].status # "open" /\ ~OnWire(Buy(t)) BY <2>2, Zenon DEF Lost
  <2>4. orders'[Buy(t)] = orders[Buy(t)]
    <3>0. orders \in [Ids -> OrderSet] BY Zenon DEF Inv, TypeOK
    <3>1. CASE Time
      BY <3>1, <1>5, Zenon DEF Time, SignalExpires, GraceElapses, CloseMarket, broker
    <3>2. ASSUME NEW j \in Ids, NEW o, orders' = [orders EXCEPT ![j] = o], j # Buy(t)
          PROVE  orders'[Buy(t)] = orders[Buy(t)]
      BY <1>1, <3>0, <3>2, Zenon
    <3>3. ASSUME NEW r \in wire, Accept(r) PROVE orders'[Buy(t)] = orders[Buy(t)]
      <4>1. r.id # Buy(t) BY <2>3, Zenon DEF OnWire
      <4>2. r.id \in Ids BY SMT DEF Inv, TypeOK
      <4>3. PICK o : orders' = [orders EXCEPT ![r.id] = o] BY <3>3, Zenon DEF Accept
      <4> QED BY <3>2, <4>1, <4>2, <4>3
    <3>4. ASSUME NEW r \in wire, Drop(r) PROVE orders'[Buy(t)] = orders[Buy(t)]
      BY <3>4, Zenon DEF Drop
    <3>5. ASSUME NEW j \in Ids, NEW st, Fill(j) \/ Finish(j, st)
          PROVE orders'[Buy(t)] = orders[Buy(t)]
      <4>1. j # Buy(t) BY <2>3, <3>5, Zenon DEF Fill, Finish
      <4>2. PICK o : orders' = [orders EXCEPT ![j] = o]
        <5>1. CASE Fill(j)
          BY <5>1, Zenon DEF Fill
        <5>2. CASE Finish(j, st)
          <6>1. orders' = [orders EXCEPT ![j] = [orders[j] EXCEPT !.status = st]]
            BY <5>2, Zenon DEF Finish
          <6> QED BY <6>1
        <5> QED BY <3>5, <5>1, <5>2
      <4> QED BY <3>2, <4>1, <4>2
    <3> QED BY <1>5, <3>1, <3>3, <3>4, <3>5, Zenon DEF Broker
  <2> QED BY <1>4, <2>1, <2>4
<1>6. CASE UNCHANGED vars BY <1>4, <1>6, Zenon DEF vars
<1> QED BY <1>2, <1>3, <1>5, <1>6, Zenon DEF Next

(* Client order ids are tried in their order.                              *)
LEMMA BeforeOrders == \A a, b \in Ids : /\ a = b \/ Before(a, b) \/ Before(b, a)
                                        /\ Before(a, b) => ~Before(b, a)
                                        /\ ~Before(a, a)
<1> SUFFICES ASSUME NEW a \in Ids, NEW b \in Ids
             PROVE  /\ a = b \/ Before(a, b) \/ Before(b, a)
                    /\ Before(a, b) => ~Before(b, a)
                    /\ ~Before(a, a)
  OBVIOUS
<1>1. /\ a = <<a[1], a[2]>> /\ a[1] \in Nat /\ a[2] \in Nat
      /\ b = <<b[1], b[2]>> /\ b[1] \in Nat /\ b[2] \in Nat
  <2>1. Trades \subseteq Nat /\ 0..MaxSells \subseteq Nat BY BoundsAssumption DEF Trades
  <2> QED BY <2>1, IdParts
<1>2. a[1] = b[1] /\ a[2] = b[2] => a = b BY <1>1, Zenon
<1>3. \/ a[1] = b[1] /\ a[2] = b[2]
      \/ Before(a, b) \/ Before(b, a)
  BY <1>1 DEF Before
<1>4. Before(a, b) => ~Before(b, a) BY <1>1 DEF Before
<1>5. ~Before(a, a) BY <1>1 DEF Before
<1> QED BY <1>2, <1>3, <1>4, <1>5

(* reconcile of a start passes over no attempted buy it has yet to reach.  *)
LEMMA StartGoesOn ==
    ASSUME NEW l, NEW from, NEW T, T \subseteq Trades, T # {},
           \A t \in T : Buy(t) \in Pending(l) /\ Before(from, Buy(t))
    PROVE  /\ Reconcile(l, "start", from).pc = "lookup"
           /\ \A t \in T : ~Before(Buy(t), Reconcile(l, "start", from).id)
<1> DEFINE todo == {id \in Pending(l) : Before(from, id)}
<1>1. \A t \in T : Buy(t) \in todo OBVIOUS
<1>2. todo \subseteq Ids BY Zenon DEF Pending
<1>3. todo # {} BY <1>1, Zenon
<1>4. Reconcile(l, "start", from) = Point("lookup", "start", First(todo))
  BY <1>3, Zenon DEF Reconcile
<1> HIDE DEF todo
<1>5. First(todo) \in todo /\ \A b \in todo \ {First(todo)} : Before(First(todo), b)
  BY <1>2, <1>3, FirstIn
<1>6. ASSUME NEW t \in T PROVE ~Before(Buy(t), First(todo))
  <2>1. Buy(t) \in todo /\ Buy(t) \in Ids /\ First(todo) \in Ids BY <1>1, <1>2, <1>5
  <2>2. CASE Buy(t) = First(todo) BY <2>1, <2>2, BeforeOrders, Zenon
  <2>3. CASE Buy(t) # First(todo) BY <1>5, <2>1, <2>3, BeforeOrders, Zenon
  <2> QED BY <2>2, <2>3
<1>7. Reconcile(l, "start", from).pc = "lookup"
      /\ Reconcile(l, "start", from).id = First(todo)
  BY <1>4 DEF Point
<1> QED BY <1>6, <1>7, Zenon

(* The start looks every overdue buy up, and leaves none behind: its order *)
(* has ended, or it is abandoned.                                          *)
LEMMA RunnerAwakens ==
    ASSUME Inv, Dated, Known, Lost, Awake, Runner
    PROVE  Awake'
<1>1. RunnerStep /\ mem = disk BY RunnerMoves DEF Inv
<1>2. CASE Overdue' = {} BY <1>2, Zenon DEF Awake
<1>3. CASE Overdue' # {}
  <2>1. Overdue # {} BY <1>3, OverdueShrinks, Zenon
  <2>2. at.pc = "down" \/ Starting BY <2>1, Zenon DEF Awake
  <2>3. \A t \in Overdue' : t \in Trades /\ Buy(t) \in Pending(disk')
    <3>1. \A t \in Overdue' : t \in Trades BY Zenon DEF Overdue
    <3> QED BY <3>1, OverdueShrinks, BuyIsId, Zenon DEF Pending
  <2>4. ASSUME NEW from, at' = Reconcile(disk', "start", from),
               \A t \in Overdue' : Before(from, Buy(t))
        PROVE  Awake'
    <3>1. Overdue' \subseteq Trades BY <2>3
    <3>2. /\ Reconcile(disk', "start", from).pc = "lookup"
          /\ \A t \in Overdue' : ~Before(Buy(t), Reconcile(disk', "start", from).id)
      BY <1>3, <2>3, <2>4, <3>1, StartGoesOn
    <3>3. Reconcile(disk', "start", from).task = "start" BY Zenon DEF Reconcile, Point
    <3>4. at'.pc = "lookup" /\ at'.task = "start" /\ \A t \in Overdue' : ~Before(Buy(t), at'.id)
      BY <2>4, <3>2, <3>3, Zenon
    <3> QED BY <3>4, Zenon DEF Awake, Starting
  <2>5. ASSUME at' = Down PROVE Awake'
    <3>1. at'.pc = "down" BY <2>5 DEF Down, Point
    <3>2. at'.pc # "lookup" BY <3>1
    <3> QED BY <3>1, <3>2, Zenon DEF Awake, Starting
  <2>6. CASE at.pc = "down"
    <3>1. Start
      <4>1. Idle.pc = "idle" /\ at # Idle BY <2>6 DEF Idle, Point
      <4>2. ~SyncIntent /\ ~Verify /\ ~CallFails /\ ~Crash
        BY <2>6 DEF SyncIntent, LookupFound, LookupMissing, SubmitMarketClosed, CancelLocally,
                    Attempt, PostAnswered, PostFails, Verify, CallFails, Crash
      <4>3. ~Enter /\ ~Manage
        BY <2>6, <4>1 DEF Enter, EventEnter, EntryPositions, EntryOrders, EntrySkipped,
                          EntryPushed, Manage, Tick, TickClock, TimerExit, FetchBars,
                          BarExit, BarsDone
      <4>4. ~Exit
        BY <2>6, <4>1 DEF Exit, EventExit, ExitClock, ExitPositions, ExitRefused, PushSell
      <4> QED BY <4>2, <4>3, <4>4 DEF Runner
    <3>2. at' = Reconcile(disk', "start", <<0, 0>>) BY <3>1, Zenon DEF Start, Go
    <3>3. \A t \in Overdue' : Before(<<0, 0>>, Buy(t))
      <4>1. \A t \in Overdue' : t \in Nat /\ t > 0
        BY <2>3, BoundsAssumption DEF Trades
      <4>2. \A t : Buy(t)[1] = t BY DEF Buy
      <4> QED BY <4>1, <4>2 DEF Before
    <3> QED BY <2>4, <3>2, <3>3
  <2>7. CASE Starting
    <3>1. at.pc = "lookup" /\ at.task = "start" /\ at.id \in Ids /\ I = disk.intent[at.id]
      BY <1>1, <2>7, Zenon DEF Starting, I, Inv, TypeOK
    <3>2. LookupFound \/ LookupMissing \/ CallFails \/ Crash
      <4>1. Idle.pc = "idle" /\ at # Idle BY <3>1 DEF Idle, Point
      <4>2. ~Start /\ ~Verify BY <3>1 DEF Start, Verify
      <4>3. ~Enter /\ ~Manage
        BY <3>1, <4>1 DEF Enter, EventEnter, EntryPositions, EntryOrders, EntrySkipped,
                          EntryPushed, Manage, Tick, TickClock, TimerExit, FetchBars,
                          BarExit, BarsDone
      <4>4. ~Exit
        BY <3>1, <4>1 DEF Exit, EventExit, ExitClock, ExitPositions, ExitRefused, PushSell
      <4>5. SyncIntent => LookupFound \/ LookupMissing
        BY <3>1 DEF SyncIntent, SubmitMarketClosed, CancelLocally, Attempt, PostAnswered,
                    PostFails
      <4> QED BY <4>2, <4>3, <4>4, <4>5 DEF Runner
    <3>3. \A t \in Overdue' : ~Before(Buy(t), at.id) /\ Buy(t) \in Ids
      BY <2>3, <2>7, BuyIsId, OverdueShrinks, Zenon DEF Awake
    <3>4. ASSUME at' = Resume(disk', at.task, at.id),
                 Done(disk'.intent[at.id]) \/ at.id \notin {Buy(t) : t \in Overdue}
          PROVE  Awake'
      <4>1. at' = Reconcile(disk', "start", at.id) BY <3>1, <3>4 DEF Resume
      <4>2. \A t \in Overdue' : Buy(t) # at.id BY <3>4, OverdueShrinks, Zenon
      <4>3. \A t \in Overdue' : Before(at.id, Buy(t))
        BY <3>1, <3>3, <4>2, BeforeOrders, Zenon
      <4> QED BY <2>4, <4>1, <4>3
    <3>5. CASE CallFails \/ Crash
      <4>1. at' = Down BY <3>1, <3>5, Zenon DEF CallFails, Crash, Go, Fail
      <4> QED BY <2>5, <4>1
    <3>6. CASE LookupFound
      <4> DEFINE o == orders[at.id]
      <4>1. o # NoOrder /\ Receive(o) BY <3>6, Zenon DEF LookupFound
      <4>2. at.id \in {Buy(t) : t \in Overdue} => Terminal(o) /\ ~Done(I)
        <5>1. \A t \in Overdue : orders[Buy(t)].status # "open" /\ ~Done(disk.intent[Buy(t)])
          BY Zenon DEF Lost, Overdue
        <5>2. o.status # "none" BY <3>1, <4>1, Zenon DEF Known
        <5>3. o.status \in Status
          BY <3>1, SMT DEF Inv, TypeOK, OrderSet
        <5>4. o.status # "open" => Terminal(o) BY <5>2, <5>3 DEF Terminal, Status
        <5> QED BY <3>1, <5>1, <5>4, Zenon
      <4>3. CASE o = I.order
        <5>1. at' = Resume(disk', at.task, at.id)
          BY <1>1, <4>1, <4>3, Zenon DEF Receive, Go, ledger
        <5>2. at.id \notin {Buy(t) : t \in Overdue} BY <4>2, <4>3, Zenon DEF Done
        <5> QED BY <3>4, <5>1, <5>2
      <4>4. CASE o # I.order /\ CanUpdate(I, mem.symbol[at.id[1]], o)
        <5>1. disk' = [disk EXCEPT !.intent[at.id].order = o]
              /\ at' = Resume(disk', at.task, at.id)
          BY <1>1, <4>1, <4>4, Zenon DEF Receive, Go, Save
        <5>2. disk'.intent = [disk.intent EXCEPT ![at.id] = [disk.intent[at.id] EXCEPT !.order = o]]
          BY <5>1, Zenon DEF Inv, TypeOK, LedgerSet
        <5>3. disk'.intent[at.id] = [disk.intent[at.id] EXCEPT !.order = o]
          BY <3>1, <5>2, Zenon DEF Inv, TypeOK, LedgerSet
        <5>4. disk'.intent[at.id].order = o
          <6>1. disk.intent[at.id] \in IntentSet BY <3>1, Zenon DEF Inv, TypeOK, LedgerSet
          <6> QED BY <5>3, <6>1, Zenon DEF IntentSet
        <5>5. Terminal(o) => Done(disk'.intent[at.id]) BY <5>4, Zenon DEF Done
        <5> QED BY <3>4, <4>2, <5>1, <5>5, Zenon
      <4>5. CASE o # I.order /\ ~CanUpdate(I, mem.symbol[at.id[1]], o)
        <5>1. at' = Fail(mem, at.task, at.id) BY <4>1, <4>5, Zenon DEF Receive, Go
        <5>2. at' = Down BY <3>1, <5>1, Zenon DEF Fail
        <5> QED BY <2>5, <5>2
      <4> QED BY <4>3, <4>4, <4>5
    <3>7. CASE LookupMissing
      <4>1. orders[at.id] = NoOrder BY <3>7, Zenon DEF LookupMissing
      <4>2. I.order = NoOrder BY <3>1, <4>1, Zenon DEF Known
      <4>3. at.id \in {Buy(t) : t \in Overdue} => MayAbandon
        BY <4>1, <4>2, Zenon DEF Lost, MayAbandon
      <4>4. at' = Resume(disk', at.task, at.id)
        BY <1>1, <3>7, Zenon DEF LookupMissing, Go, Save, ledger
      <4>5. MayAbandon => Done(disk'.intent[at.id])
        <5> SUFFICES ASSUME MayAbandon PROVE Done(disk'.intent[at.id]) OBVIOUS
        <5>1. disk' = [disk EXCEPT !.intent[at.id].abandoned = TRUE]
          BY <1>1, <3>7, Zenon DEF LookupMissing, Save
        <5>2. disk'.intent
                  = [disk.intent EXCEPT ![at.id] = [disk.intent[at.id] EXCEPT !.abandoned = TRUE]]
          BY <5>1, Zenon DEF Inv, TypeOK, LedgerSet
        <5>3. disk'.intent[at.id] = [disk.intent[at.id] EXCEPT !.abandoned = TRUE]
          BY <3>1, <5>2, Zenon DEF Inv, TypeOK, LedgerSet
        <5>4. disk'.intent[at.id].abandoned
          <6>1. disk.intent[at.id] \in IntentSet BY <3>1, Zenon DEF Inv, TypeOK, LedgerSet
          <6> QED BY <5>3, <6>1, Zenon DEF IntentSet
        <5> QED BY <5>4, Zenon DEF Done
      <4> QED BY <3>4, <4>3, <4>4, <4>5, Zenon
    <3> QED BY <3>2, <3>5, <3>6, <3>7
  <2> QED BY <2>2, <2>6, <2>7
<1> QED BY <1>2, <1>3

(* A session passes only while the process is down or has resolved its     *)
(* intents, so none becomes overdue behind its back.                       *)
LEMMA AwakeStays ==
    ASSUME Inv, Dated, Known, Lost, Awake, ~OvernightOutage, [Next]_vars
    PROVE  Awake'
<1>1. CASE Runner BY <1>1, RunnerAwakens
<1>2. ASSUME disk' = disk, day' = day, at' = at PROVE Awake'
  <2>1. Overdue' = Overdue BY <1>2, Zenon DEF Overdue, Early
  <2> QED BY <1>2, <2>1, Zenon DEF Awake, Starting
<1>3. CASE OpenMarket
  <2>1. /\ at.pc \in {"down", "idle"} /\ at' = at /\ disk' = disk
        /\ at.pc = "down" \/ Pending(disk) = {}
    BY <1>3, Zenon DEF OpenMarket, runner, ledger, Inv
  <2>2. at'.pc # "lookup" BY <2>1
  <2>3. Pending(disk) = {} => Overdue' = {}
    <3>1. \A t \in Overdue' : Buy(t) \in Pending(disk)
      BY <2>1, BuyIsId, Zenon DEF Overdue, Pending
    <3> QED BY <3>1, Zenon
  <2> QED BY <2>1, <2>2, <2>3, Zenon DEF Awake, Starting
<1>4. CASE (Broker \/ Time) /\ ~OpenMarket
  <2>1. disk' = disk /\ day' = day /\ at' = at BY <1>4, DaysPass DEF runner
  <2> QED BY <1>2, <2>1
<1>5. CASE UNCHANGED vars BY <1>2, <1>5, Zenon DEF vars
<1> QED BY <1>1, <1>3, <1>4, <1>5, Zenon DEF Next

(* What a sell takes from a trade is there to take: the ledger never holds *)
(* less of it than an unfinished sell still may fill.                      *)
Left == \A t \in Trades :
    /\ Remaining(disk, t) >= 0
    /\ \A k \in OpenSells(disk, t) :
           Remaining(disk, t) >= disk.intent[<<t, k>>].qty - Filled(disk, <<t, k>>)

(* The fills of a good ledger are counted in shares.                       *)
LEMMA FillsAreShares ==
    ASSUME NEW l, l \in LedgerSet, NEW t \in Trades
    PROVE  /\ \A id \in Ids : Filled(l, id) \in Nat /\ l.intent[id].qty \in Nat
           /\ Sold(l, t) \in Nat
           /\ Remaining(l, t) = Filled(l, Buy(t)) - Sold(l, t)
           /\ Remaining(l, t) \in Int
<1> DEFINE f == [k \in Sells |-> Filled(l, <<t, k>>)]
<1>1. ASSUME NEW id \in Ids PROVE Filled(l, id) \in Nat /\ l.intent[id].qty \in Nat
  <2>1. l.intent[id] \in IntentSet BY Zenon DEF LedgerSet
  <2> QED BY <2>1, SMT DEF Filled, IntentSet, OrderSet
<1>2. \A k \in Sells : f[k] \in Nat BY <1>1, SellIsId
<1>3. Sold(l, t) = Total(f, Sells) BY SoldIs, Zenon
<1> HIDE DEF f
<1>4. IsFiniteSet(Sells) BY FS_Interval, BoundsAssumption DEF Sells
<1>5. Sold(l, t) \in Nat BY <1>2, <1>3, <1>4, TotalNat
<1>6. Filled(l, Buy(t)) \in Nat BY <1>1, BuyIsId
<1>7. Remaining(l, t) = Filled(l, Buy(t)) - Sold(l, t) BY Zenon DEF Remaining
<1>8. Remaining(l, t) \in Int BY <1>5, <1>6, <1>7
<1> QED BY <1>1, <1>5, <1>7, <1>8

(* The ledger's fills only grow.                                           *)
LEMMA FillsGrow ==
    ASSUME Inv, Trails, RunnerStep, NEW id \in Ids
    PROVE  Filled(disk, id) <= Filled(disk', id)
<1>1. CASE Filled(disk', id) = Filled(disk, id)
  <2>1. disk.intent[id] \in IntentSet BY Zenon DEF Inv, TypeOK, LedgerSet
  <2>2. Filled(disk, id) \in Nat BY <2>1, SMT DEF Filled, IntentSet, OrderSet
  <2> QED BY <1>1, <2>2
<1>2. CASE Filled(disk', id) = orders[id].filled
  BY <1>2, Zenon DEF Trails, LedgerTrailsBroker, Filled
<1> QED BY <1>1, <1>2, IntentKept

(* An answer about a sell takes what the sell had left, at most.           *)
LEMMA SellTakes ==
    ASSUME Inv, Trails, Fits, SellsApart, Left, RunnerStep, Inv',
           NEW t \in Trades, NEW k \in Sells,
           Filled(disk', <<t, k>>) # Filled(disk, <<t, k>>)
    PROVE  /\ Remaining(disk', t) >= disk'.intent[<<t, k>>].qty - Filled(disk', <<t, k>>)
           /\ disk'.intent[<<t, k>>].qty >= Filled(disk', <<t, k>>)
           /\ \A j \in OpenSells(disk', t) : j = k
<1> DEFINE id == <<t, k>>
           f == [j \in Sells |-> Filled(disk, <<t, j>>)]
           e == [j \in Sells |-> Filled(disk', <<t, j>>)]
<1>1. id \in Ids /\ Buy(t) \in Ids /\ id # Buy(t) /\ k # 0
  <2>1. k # 0 BY SMT DEF Sells
  <2> QED BY <2>1, SellIsId, BuyIsId DEF Buy
<1>2. Learns(id) /\ Filled(disk', id) = orders[id].filled BY <1>1, IntentKept, Zenon
<1>3. Exists(disk.intent[id]) /\ ~Done(disk.intent[id])
  <2>1. disk.intent[id].attempted /\ ~Done(disk.intent[id]) BY <1>2, Zenon DEF Learns
  <2> QED BY <1>1, <2>1, NoIntentNotDone, Zenon DEF Inv, GoodLedger
<1>4. k \in OpenSells(disk, t) BY <1>3, Zenon DEF OpenSells
<1>5. \A x \in Ids : x # id => disk'.intent[x] = disk.intent[x]
  <2>1. disk'.intent = [disk.intent EXCEPT ![id] = [disk.intent[id] EXCEPT !.order = orders[id]]]
    BY <1>2, Zenon DEF Learns, Inv, TypeOK, LedgerSet
  <2> QED BY <1>1, <2>1, Zenon DEF Inv, TypeOK, LedgerSet
<1>6. ASSUME NEW j \in OpenSells(disk', t) PROVE j = k
  <2>1. CASE j # k
    <3>1. j \in Sells /\ <<t, j>> \in Ids /\ <<t, j>> # id
      BY <2>1, SellIsId DEF OpenSells
    <3>2. j \in OpenSells(disk, t) BY <1>5, <3>1, Zenon DEF OpenSells
    <3> QED BY <1>4, <3>2, Zenon DEF SellsApart
  <2> QED BY <2>1
<1>7. disk'.intent[id].qty = disk.intent[id].qty BY <1>1, <1>3, IntentKept, Zenon
<1>8. Filled(disk', Buy(t)) = Filled(disk, Buy(t)) BY <1>1, <1>5, Zenon DEF Filled
<1>9. \A j \in Sells : j # k => e[j] = f[j]
  <2> SUFFICES ASSUME NEW j \in Sells, j # k PROVE e[j] = f[j] OBVIOUS
  <2>1. <<t, j>> \in Ids /\ <<t, j>> # id BY SellIsId
  <2> QED BY <1>5, <2>1, Zenon DEF Filled
<1>10. disk \in LedgerSet /\ disk' \in LedgerSet BY Zenon DEF Inv, TypeOK
<1>11. /\ \A x \in Ids : Filled(disk, x) \in Nat /\ disk.intent[x].qty \in Nat
       /\ Sold(disk, t) \in Nat /\ Remaining(disk, t) \in Int
       /\ Remaining(disk, t) = Filled(disk, Buy(t)) - Sold(disk, t)
  BY <1>10, FillsAreShares, Zenon
<1>12. /\ \A x \in Ids : Filled(disk', x) \in Nat /\ disk'.intent[x].qty \in Nat
       /\ Sold(disk', t) \in Nat /\ Remaining(disk', t) \in Int
       /\ Remaining(disk', t) = Filled(disk', Buy(t)) - Sold(disk', t)
  BY <1>10, FillsAreShares, Zenon
<1>13. \A j \in Sells : f[j] \in Int /\ e[j] \in Int BY <1>11, <1>12, SellIsId
<1>14. Sold(disk, t) = Total(f, Sells) /\ Sold(disk', t) = Total(e, Sells) BY SoldIs, Zenon
<1>15. f[k] = Filled(disk, id) /\ e[k] = Filled(disk', id) OBVIOUS
<1>16. disk.intent[id].qty >= Filled(disk', id)
  <2>1. orders[id] # NoOrder BY <1>2, Zenon DEF Learns
  <2>2. orders[id].qty = disk.intent[id].qty
    BY <1>1, <2>1, Zenon DEF Inv, SentIsDurable, Recorded
  <2>3. orders[id].filled <= orders[id].qty BY <1>1, Zenon DEF Fits
  <2>4. orders[id].filled <= disk.intent[id].qty BY <2>2, <2>3, Zenon
  <2> QED BY <1>1, <1>2, <1>11, <1>12, <2>4
<1>17. Remaining(disk, t) >= disk.intent[id].qty - Filled(disk, id) BY <1>4, Zenon DEF Left
<1>18. IsFiniteSet(Sells) BY FS_Interval, BoundsAssumption DEF Sells
<1> HIDE DEF f, e
<1>19. Total(e, Sells) = Total(f, Sells) + (e[k] - f[k]) BY <1>9, <1>13, <1>18, TotalChange
<1> DEFINE a == Filled(disk, id)  b == Filled(disk', id)  q == disk.intent[id].qty
           c == Filled(disk, Buy(t))  r == Remaining(disk, t)  v == Remaining(disk', t)
           m == Sold(disk, t)  n == Sold(disk', t)
<1>20. /\ a \in Nat /\ b \in Nat /\ q \in Nat /\ c \in Nat
       /\ r \in Int /\ v \in Int /\ m \in Nat /\ n \in Nat
  BY <1>1, <1>11, <1>12
<1>21. n = m + (b - a) BY <1>14, <1>15, <1>19, Zenon
<1>22. r = c - m /\ v = c - n BY <1>8, <1>11, <1>12, Zenon
<1>23. r >= q - a /\ q >= b BY <1>16, <1>17, Zenon
<1> HIDE DEF a, b, c, q, r, v, m, n
<1>24. v >= q - b /\ q >= b BY <1>20, <1>21, <1>22, <1>23
<1> QED BY <1>6, <1>7, <1>24, Zenon DEF v, q, b

(* No step leaves less than the unfinished sells may take.                 *)
LEMMA LeftStays ==
    ASSUME Inv, Trails, Fits, SellsApart, Left, [Next]_vars, Inv'
    PROVE  Left'
<1> SUFFICES ASSUME NEW t \in Trades
             PROVE  /\ Remaining(disk', t) >= 0
                    /\ \A k \in OpenSells(disk', t) :
                           Remaining(disk', t)
                               >= disk'.intent[<<t, k>>].qty - Filled(disk', <<t, k>>)
  BY Zenon DEF Left
<1>1. CASE disk' = disk BY <1>1, Zenon DEF Left
<1>2. CASE Runner
  <2>1. RunnerStep BY <1>2, RunnerMoves
  <2>2. disk \in LedgerSet /\ disk' \in LedgerSet BY Zenon DEF Inv, TypeOK
  <2>3. /\ \A x \in Ids : Filled(disk, x) \in Nat /\ disk.intent[x].qty \in Nat
        /\ Sold(disk, t) \in Nat /\ Remaining(disk, t) \in Int
        /\ Remaining(disk, t) = Filled(disk, Buy(t)) - Sold(disk, t)
    BY <2>2, FillsAreShares, Zenon
  <2>4. /\ \A x \in Ids : Filled(disk', x) \in Nat /\ disk'.intent[x].qty \in Nat
        /\ Sold(disk', t) \in Nat /\ Remaining(disk', t) \in Int
        /\ Remaining(disk', t) = Filled(disk', Buy(t)) - Sold(disk', t)
    BY <2>2, FillsAreShares, Zenon
  <2>5. CASE \E k \in Sells : Filled(disk', <<t, k>>) # Filled(disk, <<t, k>>)
    <3>1. PICK k \in Sells : Filled(disk', <<t, k>>) # Filled(disk, <<t, k>>) BY <2>5
    <3>2. /\ Remaining(disk', t) >= disk'.intent[<<t, k>>].qty - Filled(disk', <<t, k>>)
          /\ disk'.intent[<<t, k>>].qty >= Filled(disk', <<t, k>>)
          /\ \A j \in OpenSells(disk', t) : j = k
      BY <2>1, <3>1, SellTakes
    <3>3. Remaining(disk', t) >= 0
      <4> DEFINE v == Remaining(disk', t)  q == disk'.intent[<<t, k>>].qty
                 b == Filled(disk', <<t, k>>)
      <4>1. v \in Int /\ q \in Nat /\ b \in Nat BY <2>4, SellIsId
      <4>2. v >= q - b /\ q >= b BY <3>2
      <4> HIDE DEF v, q, b
      <4>3. v >= 0 BY <4>1, <4>2
      <4> QED BY <4>3 DEF v
    <3> QED BY <3>2, <3>3, Zenon
  <2>6. CASE \A k \in Sells : Filled(disk', <<t, k>>) = Filled(disk, <<t, k>>)
    <3>1. Sold(disk', t) = Sold(disk, t) BY <2>6, SoldSame
    <3>2. Filled(disk, Buy(t)) <= Filled(disk', Buy(t)) BY <2>1, BuyIsId, FillsGrow
    <3>3. Filled(disk, Buy(t)) \in Nat /\ Filled(disk', Buy(t)) \in Nat
      BY <2>3, <2>4, BuyIsId
    <3> DEFINE r == Remaining(disk, t)  v == Remaining(disk', t)
               m == Sold(disk, t)  n == Sold(disk', t)
               c == Filled(disk, Buy(t))  d == Filled(disk', Buy(t))
    <3>4. /\ r \in Int /\ v \in Int /\ m \in Nat /\ n = m /\ c \in Nat /\ d \in Nat
          /\ c <= d /\ r = c - m /\ v = d - n
      BY <2>3, <2>4, <3>1, <3>2, <3>3, Zenon
    <3>5. r >= 0 BY Zenon DEF Left
    <3> HIDE DEF r, v, m, n, c, d
    <3>6. v >= r /\ v >= 0 BY <3>4, <3>5
    <3>7. ASSUME NEW k \in OpenSells(disk', t)
          PROVE  v >= disk'.intent[<<t, k>>].qty - Filled(disk', <<t, k>>)
      <4> DEFINE q == disk'.intent[<<t, k>>].qty  a == Filled(disk', <<t, k>>)
      <4>0. k \in Sells /\ <<t, k>> \in Ids /\ Exists(disk'.intent[<<t, k>>])
            /\ ~Done(disk'.intent[<<t, k>>])
        BY SellIsId, Zenon DEF OpenSells
      <4>1. q \in Nat /\ a \in Nat /\ a = Filled(disk, <<t, k>>) BY <2>4, <2>6, <4>0
      <4>2. r >= q - a
        <5>1. CASE Exists(disk.intent[<<t, k>>])
          <6>1. q = disk.intent[<<t, k>>].qty BY <2>1, <4>0, <5>1, IntentKept, Zenon
          <6>2. ~Done(disk.intent[<<t, k>>])
            BY <2>1, <4>0, IntentKept, Zenon
          <6>3. k \in OpenSells(disk, t) BY <4>0, <5>1, <6>2, Zenon DEF OpenSells
          <6>4. r >= disk.intent[<<t, k>>].qty - Filled(disk, <<t, k>>)
            BY <6>3, Zenon DEF Left, r
          <6> QED BY <4>1, <6>1, <6>4, Zenon
        <5>2. CASE ~Exists(disk.intent[<<t, k>>])
          <6>1. PICK p \in Nat \ {0} : PushesSell(t, k, p) /\ disk'.intent[<<t, k>>] = NewIntent(p)
            BY <2>1, <4>0, <5>2, SellPushed
          <6>2. p = r BY <6>1, Zenon DEF PushesSell, r
          <6>3. q = p BY <6>1, NewIntentIsLive, Zenon
          <6> HIDE DEF q, a
          <6> QED BY <3>4, <4>1, <6>2, <6>3
        <5> QED BY <5>1, <5>2
      <4> HIDE DEF q, a
      <4>3. v >= q - a BY <3>4, <3>6, <4>1, <4>2
      <4> QED BY <4>3 DEF q, a
    <3> QED BY <3>6, <3>7 DEF v
  <2> QED BY <2>5, <2>6
<1>3. CASE Broker \/ Time BY <1>1, <1>3, OnlyTheRunnerWrites
<1>4. CASE UNCHANGED vars BY <1>1, <1>4, Zenon DEF vars
<1> QED BY <1>2, <1>3, <1>4, Zenon DEF Next

(* A trade that is over for good: it holds nothing, and its buy is done or *)
(* can be sent no more.                                                    *)
Spent(t) ==
    /\ Remaining(disk, t) = 0
    /\ \/ Done(disk.intent[Buy(t)])
       \/ ~disk.intent[Buy(t)].attempted /\ t \in stale

(* The trades of one symbol are of different sessions, and each was over   *)
(* before the next was pushed.  While an entry waits for its answers every *)
(* trade of its symbol is.                                                 *)
InTurn == \A t, u \in Trades :
    t # u /\ disk.symbol[t] # None /\ disk.symbol[t] = disk.symbol[u] =>
        disk.day[t] # disk.day[u] /\ (disk.day[t] < disk.day[u] => Spent(t))
Clear == at.task = "entry" =>
    \A t \in Trades : disk.symbol[t] = want => disk.day[t] < day /\ Spent(t)

(* A trade that is over stays so.                                          *)
LEMMA SpentStays ==
    ASSUME Inv, Trails, Left', Inv', Runner, NEW t \in Trades, Spent(t)
    PROVE  Spent(t)'
<1>1. RunnerStep BY RunnerMoves
<1>2. stale' = stale BY <1>1, Zenon DEF RunnerStep, world
<1>3. \/ Done(disk'.intent[Buy(t)])
      \/ ~disk'.intent[Buy(t)].attempted /\ t \in stale
  <2>1. CASE Done(disk.intent[Buy(t)]) BY <1>1, <2>1, BuyIsId, IntentKept, Zenon
  <2>2. CASE ~disk.intent[Buy(t)].attempted /\ t \in stale
    BY <1>1, <2>2, BuyIsId, IntentKept, SentInTime, Zenon
  <2> QED BY <2>1, <2>2, Zenon DEF Spent
<1>4. Filled(disk', Buy(t)) = Filled(disk, Buy(t))
  <2>1. CASE Done(disk.intent[Buy(t)])
    <3>1. disk'.intent[Buy(t)] = disk.intent[Buy(t)] BY <1>1, <2>1, BuyIsId, IntentKept, Zenon
    <3> QED BY <3>1, Zenon DEF Filled
  <2>2. CASE ~disk.intent[Buy(t)].attempted
    BY <1>1, <2>2, BuyIsId, IntentKept, Zenon DEF Learns
  <2> QED BY <2>1, <2>2, Zenon DEF Spent
<1> DEFINE f == [k \in Sells |-> Filled(disk, <<t, k>>)]
           e == [k \in Sells |-> Filled(disk', <<t, k>>)]
<1>5. disk \in LedgerSet /\ disk' \in LedgerSet BY Zenon DEF Inv, TypeOK
<1>6. /\ \A x \in Ids : Filled(disk, x) \in Nat
      /\ Sold(disk, t) \in Nat
      /\ Remaining(disk, t) = Filled(disk, Buy(t)) - Sold(disk, t)
  BY <1>5, FillsAreShares, Zenon
<1>7. /\ \A x \in Ids : Filled(disk', x) \in Nat
      /\ Sold(disk', t) \in Nat /\ Remaining(disk', t) \in Int
      /\ Remaining(disk', t) = Filled(disk', Buy(t)) - Sold(disk', t)
  BY <1>5, FillsAreShares, Zenon
<1>8. \A k \in Sells : f[k] \in Int /\ e[k] \in Int /\ f[k] <= e[k]
  BY <1>1, <1>6, <1>7, SellIsId, FillsGrow
<1>9. Sold(disk, t) = Total(f, Sells) /\ Sold(disk', t) = Total(e, Sells) BY SoldIs, Zenon
<1>10. IsFiniteSet(Sells) BY FS_Interval, BoundsAssumption DEF Sells
<1> HIDE DEF f, e
<1>11. Total(f, Sells) <= Total(e, Sells) BY <1>8, <1>10, TotalGrows
<1> DEFINE c == Filled(disk, Buy(t))  m == Sold(disk, t)  n == Sold(disk', t)
           v == Remaining(disk', t)
<1>12. c \in Nat /\ m \in Nat /\ n \in Nat /\ v \in Int BY <1>6, <1>7, BuyIsId
<1>13. c - m = 0 BY <1>6, Zenon DEF Spent
<1>14. v = c - n /\ m <= n BY <1>4, <1>7, <1>9, <1>11, Zenon
<1>15. v >= 0 BY Zenon DEF Left
<1> HIDE DEF c, m, n, v
<1>16. v = 0 BY <1>12, <1>13, <1>14, <1>15
<1> QED BY <1>2, <1>3, <1>16, Zenon DEF Spent, v

(* The engine's gates let an event in only when every trade of its symbol  *)
(* is over: it holds nothing, its buy is not overdue, and it is not of     *)
(* today.                                                                  *)
LEMMA EntersClear ==
    ASSUME Inv, Dated, Awake, Left, NEW s \in Symbols, EventEnter(s),
           NEW t \in Trades, disk.symbol[t] = s
    PROVE  disk.day[t] < day /\ Spent(t)
<1>1. /\ at = Idle /\ mem = disk /\ ~EngineHolds(disk, s)
      /\ disk.day[t] # day
  BY Zenon DEF EventEnter, EntryGates, Inv
<1>2. s # None BY NoneAssumption
<1>3. disk.day[t] < day
  <2>1. disk.day[t] <= day BY <1>2, Zenon DEF Dated
  <2>2. disk.day[t] \in 0..MaxDays BY Zenon DEF Inv, TypeOK, LedgerSet
  <2>3. day \in 1..MaxDays BY Zenon DEF Inv, TypeOK
  <2> DEFINE x == disk.day[t]
  <2>4. x \in Int /\ day \in Int BY <2>2, <2>3
  <2>5. x <= day /\ x # day BY <1>1, <2>1
  <2> HIDE DEF x
  <2>6. x < day BY <2>4, <2>5
  <2> QED BY <2>6 DEF x
<1>4. Early(t) /\ t \in stale BY <1>2, <1>3, Zenon DEF Early, Dated
<1>5. t \notin Overdue
  <2>1. at.pc = "idle" BY <1>1 DEF Idle, Point
  <2>2. at.pc # "down" /\ at.pc # "lookup" BY <2>1
  <2> QED BY <2>2, Zenon DEF Awake, Starting
<1>6. ~disk.intent[Buy(t)].attempted \/ Done(disk.intent[Buy(t)])
  BY <1>4, <1>5, Zenon DEF Overdue
<1>7. Remaining(disk, t) = 0
  <2>1. disk \in LedgerSet BY Zenon DEF Inv, TypeOK
  <2>2. /\ Filled(disk, Buy(t)) \in Nat /\ Sold(disk, t) \in Nat
        /\ Remaining(disk, t) = Filled(disk, Buy(t)) - Sold(disk, t)
    BY <2>1, BuyIsId, FillsAreShares, Zenon
  <2>3. Remaining(disk, t) >= 0 BY Zenon DEF Left
  <2>4. \/ ~(Filled(disk, Buy(t)) > 0)
        \/ Remaining(disk, t) = 0
    BY <1>1, Zenon DEF EngineHolds
  <2> DEFINE c == Filled(disk, Buy(t))  m == Sold(disk, t)  r == Remaining(disk, t)
  <2>5. c \in Nat /\ m \in Nat /\ r = c - m /\ r >= 0 /\ (~(c > 0) \/ r = 0)
    BY <2>2, <2>3, <2>4
  <2> HIDE DEF c, m, r
  <2>6. r = 0 BY <2>5
  <2> QED BY <2>6 DEF r
<1> QED BY <1>3, <1>4, <1>6, <1>7, Zenon DEF Spent

(* The runner keeps a symbol's trades in turn: the one buy it may push is  *)
(* for a symbol all of whose trades are over.                              *)
LEMMA RunnerInTurn ==
    ASSUME Inv, Dated, Trails, Awake, Left, Left', Inv', InTurn, Clear, Runner
    PROVE  InTurn' /\ Clear'
<1>1. RunnerStep BY RunnerMoves
<1>2. day' = day BY <1>1, Zenon DEF RunnerStep, world
<1>3. \A t \in Trades : Spent(t) => Spent(t)' BY SpentStays
<1>4. day \in Int /\ \A t \in Trades : disk.day[t] \in Int
  <2>1. \A t \in Trades : disk.day[t] \in 0..MaxDays BY Zenon DEF Inv, TypeOK, LedgerSet
  <2>2. day \in 1..MaxDays BY Zenon DEF Inv, TypeOK
  <2> QED BY <2>1, <2>2
<1>5. CASE \A t \in Trades : disk'.symbol[t] = disk.symbol[t] /\ disk'.day[t] = disk.day[t]
  <2>1. InTurn' BY <1>3, <1>5, Zenon DEF InTurn
  <2>2. Clear'
    <3> SUFFICES ASSUME at'.task = "entry", NEW t \in Trades, disk'.symbol[t] = want'
                 PROVE  disk'.day[t] < day' /\ Spent(t)'
      BY Zenon DEF Clear
    <3>1. ControlOK BY <1>1, LedgerStaysGood, ControlMoves
    <3>2. CASE at.task = "entry" /\ want' = want
      BY <1>2, <1>3, <1>5, <3>2, Zenon DEF Clear
    <3>3. CASE \E s \in Symbols : EventEnter(s)
      <4>1. PICK s \in Symbols : EventEnter(s) BY <3>3
      <4>2. want' = s BY <4>1, Zenon DEF EventEnter
      <4>3. disk.day[t] < day /\ Spent(t) BY <1>5, <4>1, <4>2, EntersClear
      <4> QED BY <1>2, <1>3, <1>5, <4>3, Zenon
    <3> QED BY <3>1, <3>2, <3>3, Zenon DEF ControlOK
  <2> QED BY <2>1, <2>2
<1>6. CASE ~\A t \in Trades : disk'.symbol[t] = disk.symbol[t] /\ disk'.day[t] = disk.day[t]
  <2>1. PICK n \in Trades, q \in Nat \ {0}, s \in Symbols :
            /\ PushesBuy(n, q, s)
            /\ disk'.symbol[n] = s /\ disk'.day[n] = day
            /\ \A u \in Trades : u # n => /\ disk'.symbol[u] = disk.symbol[u]
                                          /\ disk'.day[u] = disk.day[u]
    BY <1>1, <1>6, TradeMoves, Zenon
  <2>2. at.pc = "entryClock" /\ s = want BY <2>1, Zenon DEF PushesBuy
  <2>3. at.task = "entry" BY <2>2, Zenon DEF Inv, GoodPoint
  <2>4. at'.task # "entry" BY <2>2, FromEntryClock
  <2>5. \A t \in Trades : disk.symbol[t] = s => disk.day[t] < day /\ Spent(t)
    BY <2>2, <2>3, Zenon DEF Clear
  <2>6. ASSUME NEW t \in Trades, NEW u \in Trades, t # u,
               disk'.symbol[t] # None, disk'.symbol[t] = disk'.symbol[u]
        PROVE  disk'.day[t] # disk'.day[u] /\ (disk'.day[t] < disk'.day[u] => Spent(t)')
    <3>1. CASE t # n /\ u # n BY <1>3, <2>1, <2>6, <3>1, Zenon DEF InTurn
    <3>2. CASE u = n
      <4>1. disk.symbol[t] = s /\ disk'.day[t] = disk.day[t] /\ disk'.day[u] = day
        BY <2>1, <2>6, <3>2, Zenon
      <4>2. disk.day[t] < day /\ Spent(t)' BY <1>3, <2>5, <4>1, Zenon
      <4>3. disk'.day[t] # disk'.day[u] BY <1>4, <4>1, <4>2
      <4> QED BY <4>2, <4>3
    <3>3. CASE t = n
      <4>1. disk.symbol[u] = s /\ disk'.day[u] = disk.day[u] /\ disk'.day[t] = day
        BY <2>1, <2>6, <3>3, Zenon
      <4>2. disk.day[u] < day BY <2>5, <4>1, Zenon
      <4>3. disk'.day[t] # disk'.day[u] /\ ~(disk'.day[t] < disk'.day[u])
        BY <1>4, <4>1, <4>2
      <4> QED BY <4>3
    <3> QED BY <3>1, <3>2, <3>3
  <2>7. InTurn' BY <2>6, Zenon DEF InTurn
  <2>8. Clear' BY <2>4, Zenon DEF Clear
  <2> QED BY <2>7, <2>8
<1> QED BY <1>5, <1>6

(* Nor does anything else disturb the turn: a trade that is over stays     *)
(* stale from one session to the next.                                     *)
LEMMA InTurnStays ==
    ASSUME Inv, Dated, Trails, Awake, Left, Left', Inv', InTurn, Clear, [Next]_vars
    PROVE  InTurn' /\ Clear'
<1>1. CASE Runner BY <1>1, RunnerInTurn
<1>2. ASSUME disk' = disk, UNCHANGED runner, day <= day' \/ day' = day,
             \A t \in Trades : Pushed(disk, t) /\ t \in stale => t \in stale'
      PROVE  InTurn' /\ Clear'
  <2>1. ASSUME NEW t \in Trades, disk.symbol[t] # None, Spent(t) PROVE Spent(t)'
    <3>1. Pushed(disk, t) BY <2>1, Zenon DEF Dated
    <3> QED BY <1>2, <2>1, <3>1, Zenon DEF Spent
  <2>2. InTurn' BY <1>2, <2>1, Zenon DEF InTurn
  <2>3. Clear'
    <3> SUFFICES ASSUME at'.task = "entry", NEW t \in Trades, disk'.symbol[t] = want'
                 PROVE  disk'.day[t] < day' /\ Spent(t)'
      BY Zenon DEF Clear
    <3>1. at.task = "entry" /\ want' = want /\ disk.symbol[t] = want
      BY <1>2, Zenon DEF runner
    <3>2. disk.day[t] < day /\ Spent(t) BY <3>1, Zenon DEF Clear
    <3>3. disk.symbol[t] # None BY <3>1, NoneAssumption, Zenon DEF Inv
    <3>4. disk.day[t] < day'
      <4>1. disk.day[t] \in 0..MaxDays BY Zenon DEF Inv, TypeOK, LedgerSet
      <4>2. day \in 1..MaxDays /\ day' \in 1..MaxDays BY Zenon DEF Inv, TypeOK
      <4> DEFINE x == disk.day[t]
      <4>3. x \in Int /\ day \in Int /\ day' \in Int BY <4>1, <4>2
      <4>4. x < day /\ (day <= day' \/ day' = day) BY <1>2, <3>2
      <4> HIDE DEF x
      <4>5. x < day' BY <4>3, <4>4
      <4> QED BY <4>5 DEF x
    <3> QED BY <1>2, <2>1, <3>2, <3>3, <3>4, Zenon
  <2> QED BY <2>2, <2>3
<1>3. CASE OpenMarket
  <2>1. day' = day + 1 /\ stale' = {t \in Trades : Pushed(disk, t)}
    BY <1>3, Zenon DEF OpenMarket
  <2>2. day \in Int BY DEF Inv, TypeOK
  <2>3. day <= day' BY <2>1, <2>2
  <2>4. disk' = disk /\ UNCHANGED runner BY <1>3, Zenon DEF OpenMarket, ledger
  <2> QED BY <1>2, <2>1, <2>3, <2>4, Zenon
<1>4. CASE (Broker \/ Time) /\ ~OpenMarket BY <1>2, <1>4, DaysPass, Zenon
<1>5. CASE UNCHANGED vars BY <1>2, <1>5, Zenon DEF vars, runner
<1> QED BY <1>1, <1>3, <1>4, <1>5, Zenon DEF Next

(* The trades of a symbol in turn, only the last can be live.              *)
LEMMA InTurnIsOneLive ==
    ASSUME Inv, Left, InTurn
    PROVE  OneLiveTradePerSymbol
<1> SUFFICES ASSUME NEW t \in Trades, NEW u \in Trades, t # u,
                    disk.symbol[t] = disk.symbol[u], Remaining(disk, t) > 0
             PROVE  Remaining(disk, u) = 0
  BY Zenon DEF OneLiveTradePerSymbol
<1>1. disk \in LedgerSet /\ GoodLedger(disk) BY Zenon DEF Inv, GoodLedger
<1>2. Exists(disk.intent[Buy(t)])
  <2> SUFFICES ASSUME ~Exists(disk.intent[Buy(t)]) PROVE FALSE OBVIOUS
  <2>1. disk.intent[Buy(t)] = NoIntent BY <1>1, BuyIsId, Zenon DEF GoodLedger
  <2>2. Filled(disk, Buy(t)) = 0 BY <2>1 DEF Filled, NoIntent, NoOrder
  <2>3. Sold(disk, t) \in Nat /\ Remaining(disk, t) = Filled(disk, Buy(t)) - Sold(disk, t)
    BY <1>1, FillsAreShares, Zenon
  <2> QED BY <2>2, <2>3
<1>3. disk.symbol[t] # None
  <2>1. disk.symbol[t] \in Symbols
    <3>1. Buy(t)[1] = t BY DEF Buy
    <3> QED BY <1>1, <1>2, <3>1, BuyIsId, Zenon DEF GoodLedger
  <2> QED BY <2>1, NoneAssumption
<1>4. /\ disk.day[t] # disk.day[u]
      /\ disk.day[t] < disk.day[u] => Spent(t)
      /\ disk.day[u] < disk.day[t] => Spent(u)
  BY <1>3, Zenon DEF InTurn
<1>5. disk.day[t] \in 0..MaxDays /\ disk.day[u] \in 0..MaxDays BY <1>1, Zenon DEF LedgerSet
<1>6. disk.day[t] < disk.day[u] \/ disk.day[u] < disk.day[t] BY <1>4, <1>5
<1>7. ~Spent(t) BY DEF Spent
<1> QED BY <1>4, <1>6, <1>7, Zenon DEF Spent

(* Two trades of one symbol never hold shares at once, for any number of   *)
(* symbols, sessions, restarts and faults and even when a POST outlives    *)
(* the grace window, unless an outage lasts a night: by the next session   *)
(* every start has settled what the last one sent, so the gates see it     *)
(* (process_event, reconcile, abandon_if_no_broker_order).                 *)
THEOREM OneTradePerSymbol ==
    ASSUME ~OvernightOutage
    PROVE  Spec => []OneLiveTradePerSymbol
<1>1. ASSUME Init
      PROVE  SellsApart /\ Fits /\ Dated /\ Known /\ Lost /\ Awake /\ Left /\ InTurn /\ Clear
  <2>1. /\ \A id \in Ids : orders[id] = NoOrder /\ disk.intent[id] = NoIntent
        /\ \A t \in Trades : disk.symbol[t] = None
        /\ at.pc = "down" /\ at.task = "none" /\ wire = {}
    BY <1>1, SMT DEF Init, EmptyLedger, Down, Point
  <2>2. \A t \in Trades : OpenSells(disk, t) = {}
    BY <2>1, SellIsId, NoIntentNotDone, Zenon DEF OpenSells
  <2>3. SellsApart BY <2>2, Zenon DEF SellsApart
  <2>4. Fits BY <2>1, SMT DEF Fits, NoOrder
  <2>5. Dated /\ InTurn BY <2>1, Zenon DEF Dated, Early, InTurn
  <2>6. Known
    <3>1. NoIntent.order = NoOrder BY DEF NoIntent
    <3> QED BY <2>1, <3>1, Zenon DEF Known
  <2>7. Overdue = {} BY <2>1, Zenon DEF Overdue, Early
  <2>8. Lost /\ Awake BY <2>7, Zenon DEF Lost, Awake
  <2>9. Clear
    <3>1. at.task # "entry" BY <2>1
    <3> QED BY <3>1, Zenon DEF Clear
  <2>10. ASSUME NEW t \in Trades PROVE Remaining(disk, t) >= 0
    <3> DEFINE f == [k \in Sells |-> Filled(disk, <<t, k>>)]
    <3>1. \A x \in Ids : Filled(disk, x) = 0 BY <2>1 DEF Filled, NoIntent, NoOrder
    <3>2. \A k \in Sells : f[k] = 0 BY <3>1, SellIsId
    <3>3. Sold(disk, t) = Total(f, Sells) BY SoldIs, Zenon
    <3>4. IsFiniteSet(Sells) BY FS_Interval, BoundsAssumption DEF Sells
    <3> HIDE DEF f
    <3>5. Sold(disk, t) = 0 BY <3>2, <3>3, <3>4, TotalZero
    <3>6. Filled(disk, Buy(t)) = 0 BY <3>1, BuyIsId
    <3> QED BY <3>5, <3>6 DEF Remaining
  <2>11. Left BY <2>2, <2>10, Zenon DEF Left
  <2> QED BY <2>3, <2>4, <2>5, <2>6, <2>8, <2>9, <2>11
<1>2. Init => SellsApart /\ Fits /\ Dated /\ Known /\ Lost /\ Awake /\ Left /\ InTurn /\ Clear
  BY <1>1
<1>3. Inv /\ Dated /\ Known /\ Lost /\ Awake /\ [Next]_vars => Lost' /\ Awake'
  BY LostStays, AwakeStays
<1>4. Inv /\ Trails /\ Fits /\ SellsApart /\ Left /\ [Next]_vars /\ Inv' => Left'
  BY LeftStays
<1>5. Inv /\ Dated /\ Trails /\ Awake /\ Left /\ Left' /\ Inv' /\ InTurn /\ Clear /\ [Next]_vars
          => InTurn' /\ Clear'
  BY InTurnStays
<1>6. Inv /\ Left /\ InTurn => OneLiveTradePerSymbol BY InTurnIsOneLive
<1> QED BY <1>2, <1>3, <1>4, <1>5, <1>6, SellsStayApart, FitsStays, DatedStays, KnownStays,
           InvHolds, TrailsHolds, PTL DEF Spec

=============================================================================
