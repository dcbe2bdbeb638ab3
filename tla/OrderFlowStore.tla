--------------------------- MODULE OrderFlowStore ---------------------------
(***************************************************************************)
(* One symbol of market-data's order-flow store and the server's backfill  *)
(* of it: live quotes and trades build an engine; a full read may start    *)
(* one task that fetches the session's earlier trades, replays them        *)
(* without the lock and swaps the result in under it.                      *)
(*                                                                         *)
(* The tape is 1..MaxTape in the order the venue printed it, two prints to *)
(* a timestamp.  An engine is how often it has counted each trade.  Other  *)
(* symbols appear as the traffic that moves the sweep clock and the market *)
(* day, and as the capacity they use.                                      *)
(***************************************************************************)
EXTENDS Integers, Sequences, FiniteSets, FiniteSetsExt

CONSTANTS
    MaxTape,      \* prints of the instance
    Quotes,       \* which of them are quotes
    DayLen,       \* timestamps in a market day
    Idle,         \* IDLE_SECS
    MaxBuffered,  \* MAX_BUFFERED_EVENTS
    MaxPerDay,    \* backfills started per market day
    Ttl,          \* LITE_TTL_SECS
    FeedLags,     \* may the socket still owe a print the REST call returned?
    None

VARIABLES
    clock,      \* prints made so far
    heard,      \* prints the socket has delivered
    day, entry, lost, nextGen, discarded,      \* the store
    budget,     \* the server's DayBudget
    task,       \* the backfill holding the single slot
    begun, spliced  \* history: attempts begun per day, attempts committed

store == <<day, entry, lost, nextGen, discarded>>
vars == <<clock, heard, store, budget, task, begun, spliced>>

Tape == 1..MaxTape
Trades == Tape \ Quotes
Stamp(i) == (i + 1) \div 2
Day(i) == Stamp(i) \div DayLen
Days == 0..Day(MaxTape + 1)

EmptyEngine == [i \in Trades |-> 0]
Counted(engine, i) == IF i \in Trades THEN [engine EXCEPT ![i] = @ + 1] ELSE engine
CountedAll(engine, events) ==
    [i \in Trades |-> engine[i] + Cardinality({n \in DOMAIN events : events[n] = i})]
Volume(engine) == MapThenSumSet(LAMBDA i : engine[i], Trades)

(***************************************************************************)
(* The store.                                                              *)
(***************************************************************************)
NewEntry(gen, at, isLost) ==
    [last |-> at, engine |-> EmptyEngine, fill |-> "none", buffer |-> <<>>,
     boundary |-> None, gen |-> gen, partial |-> isLost, lite |-> None, upto |-> 0]

(* Entry::apply: while a backfill runs, the event is also kept, unless it  *)
(* makes the splice ambiguous.                                             *)
Fits(e, i) == /\ Len(e.buffer) < MaxBuffered
              /\ e.boundary # None /\ Stamp(i) > e.boundary.at
              /\ e.buffer # <<>> => Stamp(i) >= Stamp(e.buffer[Len(e.buffer)])
Breaks(e, i) == e.fill = "running" /\ ~Fits(e, i)
Apply(e, i) ==
    LET seen == [e EXCEPT !.engine = Counted(@, i),
                          !.last = IF Stamp(i) > @ THEN Stamp(i) ELSE @]
    IN  IF e.fill # "running" THEN seen
        ELSE IF Fits(e, i) THEN [seen EXCEPT !.buffer = Append(@, i)]
        ELSE [seen EXCEPT !.fill = "failed", !.buffer = <<>>, !.boundary = None]

(* Store::roll_to: a new market day starts from nothing.                   *)
Late(t) == day # None /\ t \div DayLen < day
Rolls(t) == ~(day # None /\ t \div DayLen <= day)

ApplyTo(e, i) == /\ entry' = Apply(e, i)
                 /\ discarded' = IF Breaks(e, i) THEN discarded + 1 ELSE discarded

(* record_quote and record_trade: only a quote creates an engine, and only *)
(* while fewer than MAX_ENGINES exist.                                     *)
Hear(i) ==
    /\ i <= clock /\ i \notin heard
    /\ heard' = heard \cup {i}
    /\ UNCHANGED <<clock, budget, task, begun, spliced>>
    /\ LET t == Stamp(i)
           held == IF Rolls(t) THEN None ELSE entry
           gone == IF Rolls(t) THEN FALSE ELSE lost
       IN  \/ /\ Late(t)
              /\ UNCHANGED store
           \/ /\ ~Late(t)
              /\ day' = t \div DayLen
              /\ \/ /\ held # None
                    /\ ApplyTo(held, i)
                    /\ lost' = gone /\ UNCHANGED nextGen
                 \/ /\ held = None /\ i \in Quotes
                    /\ nextGen' = nextGen + 1 /\ lost' = gone
                    /\ ApplyTo(NewEntry(nextGen + 1, t, gone), i)
                 \/ /\ held = None /\ i \in Quotes   \* every engine is in use
                    /\ entry' = None /\ lost' = TRUE
                    /\ UNCHANGED <<nextGen, discarded>>
                 \/ /\ held = None /\ i \notin Quotes
                    /\ entry' = None /\ lost' = gone
                    /\ UNCHANGED <<nextGen, discarded>>

(* Another symbol's event at the venue's present: it rolls the day, and    *)
(* sweeps this entry when it is idle.                                      *)
OtherTraffic ==
    /\ clock > 0
    /\ LET t == Stamp(clock)
       IN  \/ /\ Rolls(t)
              /\ day' = t \div DayLen /\ entry' = None /\ lost' = FALSE
           \/ /\ ~Rolls(t) /\ ~Late(t) /\ entry # None /\ t - entry.last > Idle
              /\ entry' = None /\ lost' = TRUE /\ UNCHANGED day
    /\ UNCHANGED <<clock, heard, nextGen, discarded, budget, task, begun, spliced>>

(***************************************************************************)
(* Abandoning an attempt.                                                  *)
(***************************************************************************)
Mine(gen) == entry # None /\ entry.gen = gen
InFlight(gen) == Mine(gen) /\ entry.fill = "running"

(* refuse_splice, for an attempt nothing has counted yet.                  *)
RefuseFresh(gen) ==
    /\ entry' = IF Mine(gen) THEN [entry EXCEPT !.fill = "failed", !.buffer = <<>>,
                                                !.boundary = None]
                ELSE entry
    /\ discarded' = discarded + 1

RefuseOnlyFailed(gen) ==
    \/ Mine(gen) /\ UNCHANGED <<entry, discarded>>
    \/ ~Mine(gen) /\ RefuseFresh(gen)

(* refuse: an attempt ingestion failed has been counted there; a finished  *)
(* one is left alone; one whose entry is gone is counted here.             *)
Refuse(gen) ==
    \/ InFlight(gen) /\ RefuseFresh(gen)
    \/ Mine(gen) /\ entry.fill # "running" /\ UNCHANGED <<entry, discarded>>
    \/ ~Mine(gen) /\ gen <= nextGen /\ RefuseFresh(gen)

(***************************************************************************)
(* The backfill task.                                                      *)
(***************************************************************************)
SpentToday(d) == IF budget.day = d THEN budget.started ELSE 0

Eligible == entry # None /\ entry.fill = "none"

(* decide, then begin_backfill: one slot, one reservation, eligibility     *)
(* last; a reservation that starts nothing is handed back.                 *)
MaybeStart ==
    /\ task = None
    /\ LET d == Day(clock)
       IN  /\ SpentToday(d) < MaxPerDay
           /\ \/ /\ Eligible
                 /\ budget' = [day |-> d, started |-> SpentToday(d) + 1]
                 /\ entry' = [entry EXCEPT !.fill = "running", !.buffer = <<>>,
                                !.boundary = [at |-> entry.last,
                                              volume |-> Volume(entry.engine)]]
                 /\ task' = [gen |-> entry.gen, upto |-> clock, phase |-> "fetching",
                             first |-> <<>>]
                 /\ begun' = [begun EXCEPT ![d] = @ + 1]
              \/ /\ ~Eligible
                 /\ budget' = [day |-> d, started |-> SpentToday(d)]
                 /\ UNCHANGED <<entry, task, begun>>
    /\ UNCHANGED <<clock, heard, day, lost, nextGen, discarded, spliced>>

TaskOnly == UNCHANGED <<clock, heard, day, lost, nextGen, budget, begun>>

(* A provider error, the timeout, a panic of the replay, or more history   *)
(* than one engine may be fed.                                             *)
Abandon ==
    /\ task # None
    /\ Refuse(task.gen) /\ task' = None
    /\ UNCHANGED spliced /\ TaskOnly

(* The day's prints up to the moment the task was started.                 *)
History == {i \in Tape : i <= task.upto /\ Day(i) = Day(task.upto)}
Cut(buffer, i) == buffer # <<>> /\ Stamp(i) >= Stamp(buffer[1])
Prior(t) == Cardinality({i \in History \ Quotes : Stamp(i) <= t})
Overlaps(buffer) == \A i \in History : Cut(buffer, i) =>
                        \E n \in DOMAIN buffer : buffer[n] = i

(* First look under the lock: the entry, its feed, the volume it had seen  *)
(* and the overlap must agree with the history.                            *)
Spliceable == /\ InFlight(task.gen)
              /\ Prior(entry.boundary.at) >= entry.boundary.volume
              /\ Overlaps(entry.buffer)
Fetched ==
    /\ task # None /\ task.phase = "fetching"
    /\ FeedLags \/ 1..task.upto \subseteq heard
    /\ \/ /\ Spliceable
          /\ task' = [task EXCEPT !.phase = "replaying", !.first = entry.buffer]
       \/ /\ task' = [task EXCEPT !.phase = "refusing"]   \* or the feeds differ
    /\ UNCHANGED <<entry, discarded, spliced>> /\ TaskOnly

Refused ==
    /\ task # None /\ task.phase = "refusing"
    /\ Refuse(task.gen) /\ task' = None
    /\ UNCHANGED spliced /\ TaskOnly

(* Nothing was buffered at the first look, and what came since overlaps.   *)
Ambiguous == /\ InFlight(task.gen) /\ task.first = <<>> /\ entry.buffer # <<>>
             /\ \E i \in History : Stamp(entry.buffer[1]) <= Stamp(i)

ReplayedWhole == CountedAll([i \in Trades |-> IF i \in History THEN 1 ELSE 0],
                           entry.buffer)
Replayed == LET past == {i \in History : ~Cut(task.first, i)}
                old == [i \in Trades |-> IF i \in past THEN 1 ELSE 0]
            IN  CountedAll(old, entry.buffer)

Commit ==
    /\ task # None /\ task.phase = "replaying"
    /\ \/ /\ Ambiguous
          /\ RefuseFresh(task.gen) /\ UNCHANGED spliced
       \/ /\ ~InFlight(task.gen)
          /\ Refuse(task.gen) /\ UNCHANGED spliced
       \/ /\ ~Ambiguous /\ InFlight(task.gen)
          /\ entry' = [entry EXCEPT !.engine = Replayed, !.fill = "done",
                                    !.buffer = <<>>, !.boundary = None,
                                    !.lite = None, !.upto = task.upto]
          /\ spliced' = spliced + 1 /\ UNCHANGED discarded
    /\ task' = None
    /\ TaskOnly

(* lite_in: the stripped summary is rebuilt at most once per Ttl.          *)
ReadLite ==
    /\ entry # None
    /\ LET t == Stamp(clock)
           fresh == entry.lite # None /\ entry.lite.at <= t /\ t - entry.lite.at <= Ttl
       IN  /\ ~fresh
           /\ entry' = [entry EXCEPT !.lite = [at |-> t, engine |-> entry.engine]]
    /\ UNCHANGED <<clock, heard, day, lost, nextGen, discarded, budget, task, begun, spliced>>

NextPrint ==
    /\ clock < MaxTape /\ clock' = clock + 1
    /\ UNCHANGED <<heard, store, budget, task, begun, spliced>>

Init == /\ clock = 0 /\ heard = {} /\ day = None /\ entry = None /\ lost = FALSE
        /\ nextGen = 0 /\ discarded = 0 /\ task = None
        /\ budget = [day |-> None, started |-> 0]
        /\ begun = [d \in Days |-> 0] /\ spliced = 0

Next == \/ NextPrint \/ OtherTraffic \/ MaybeStart \/ Abandon \/ Fetched \/ Refused
        \/ Commit \/ ReadLite \/ \E i \in Tape : Hear(i)
Spec == Init /\ [][Next]_vars

(***************************************************************************)
(* Properties.                                                             *)
(***************************************************************************)
Boundaries == [at : Nat, volume : Nat]
Entries == [last : Nat, engine : [Trades -> Nat], gen : 1..nextGen,
            fill : {"none", "running", "done", "failed"}, buffer : Seq(Tape),
            boundary : {None} \cup Boundaries, partial : BOOLEAN,
            lite : {None} \cup [at : Nat, engine : [Trades -> Nat]], upto : Nat]
Tasks == [gen : Nat, upto : Nat, phase : {"fetching", "replaying", "refusing"},
          first : Seq(Tape)]

(* Every variable has its type; a buffer never exceeds its bound and only  *)
(* a running backfill has a buffer and a boundary.                         *)
TypeOK ==
    /\ clock \in 0..MaxTape /\ heard \subseteq 1..clock
    /\ day \in Days \cup {None} /\ lost \in BOOLEAN
    /\ nextGen \in Nat /\ discarded \in Nat /\ spliced \in Nat
    /\ budget \in [day : Days \cup {None}, started : 0..MaxPerDay]
    /\ begun \in [Days -> Nat]
    /\ entry # None => /\ entry \in Entries
                       /\ Len(entry.buffer) <= MaxBuffered
                       /\ entry.fill = "running" <=> entry.boundary # None
                       /\ entry.fill # "running" => entry.buffer = <<>>
    /\ task # None => task \in Tasks /\ task.gen \in 1..nextGen

(* However history and live prints interleave, an engine counts no trade   *)
(* twice.                                                                  *)
NothingCountedTwice ==
    entry # None => \A i \in Trades : entry.engine[i] <= 1

(* Once the history is spliced in, the engine holds every trade of the day *)
(* the socket delivered or the history contained, whatever arrived during  *)
(* the fetch and the replay.                                               *)
SpliceLosesNothing ==
    (entry # None /\ entry.fill = "done") =>
        \A i \in Trades : (Day(i) = Day(entry.upto) /\ (i \in heard \/ i <= entry.upto))
                             => entry.engine[i] >= 1

(* A symbol that reports a backfill in flight has the task that will end   *)
(* it: no path out of the task leaves it pending for the day.              *)
PendingHasTask ==
    (entry # None /\ entry.fill = "running") => task # None /\ task.gen = entry.gen

Begun == MapThenSumSet(LAMBDA d : begun[d], Days)

(* Every attempt begun is in flight, committed or counted as discarded.    *)
AttemptsAccounted == Begun <= discarded + spliced + (IF task = None THEN 0 ELSE 1)

(* An abandoned attempt is counted exactly once, as the doc of             *)
(* refuse_splice says: no more are counted than were begun.                *)
CountedOnce == discarded + spliced <= Begun

(* No market day starts more backfills than the provider budget allows,    *)
(* across refunds, evictions and day rolls.                                *)
BudgetHolds == \A d \in Days : begun[d] <= MaxPerDay

(* A cached summary served beside a finished backfill contains the spliced *)
(* history.                                                                *)
LiteHasHistory ==
    (entry # None /\ entry.fill = "done" /\ entry.lite # None) =>
        \A i \in Trades : (i <= entry.upto /\ Day(i) = Day(entry.upto))
                             => entry.lite.engine[i] >= 1
=============================================================================
