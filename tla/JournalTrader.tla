--------------------------- MODULE JournalTrader ---------------------------
(***************************************************************************)
(* auto-trader in journal mode: main.rs, engine.rs and journal.rs.  The    *)
(* engine opens and closes simulated positions in memory, then writes one  *)
(* row per decision to an append-only file.  Every connection starts by    *)
(* replaying the file and by fetching the bars the trader missed.          *)
(*                                                                         *)
(* Time is counted in completed minutes; the bar of minute t ends at t.    *)
(* The file is represented by what a replay makes of it: `disk' is the     *)
(* book seed_from_history builds from the rows written so far.  The gates  *)
(* that depend on neither the journal nor time (strategy switch, session,  *)
(* halt risk, fund list, price range, budget) are one free refusal.        *)
(***************************************************************************)
EXTENDS Integers, Sequences, FiniteSets

CONSTANTS
    Symbols,
    Closes,         \* prices a bar may close at
    Asked,          \* prices an entry signal may carry
    MaxConcurrent,  \* config.max_concurrent_positions
    Gap,            \* distance of the trailing stop below the high
    Gain,           \* distance of the target above the entry
    Hold,           \* minutes until a position times out
    DayLen,         \* minutes in a calendar day
    StaleAfter,     \* an alert older than this is not acted on
    PriceAge,       \* a crossing needs a bar no older than this
    WireCap,        \* events the server keeps for a slow trader
    Levels,         \* momentum readings: "critical", "weak", "strong"
    MaxTime, MaxAlerts, MaxFaults,   \* bounds of the instance
    SplitPairs,     \* may a fault fall between two rows of one bar?
    None

ASSUME SymbolsAssumption == IsFiniteSet(Symbols)
ASSUME MaxConcurrentAssumption == MaxConcurrent \in Nat
ASSUME DurationAssumption == Hold \in Nat /\ DayLen \in Nat \ {0} /\ WireCap \in Nat
ASSUME PriceAssumption == /\ Closes \subseteq Int /\ Asked \subseteq Int
                          /\ Gap \in Nat /\ Gain \in Nat
ASSUME AgeAssumption == StaleAfter \in Nat /\ PriceAge \in Nat
ASSUME BoundAssumption == MaxTime \in Nat /\ MaxAlerts \in Nat /\ MaxFaults \in Nat
ASSUME NoneAssumption == None \notin Int /\ SplitPairs \in BOOLEAN

VARIABLES
    now, close,         \* the market: minutes completed, close of each bar
    wire, open,         \* events the server has queued, is it still sending
    link,               \* where run_once is
    backlog,            \* recovered bars still to be fed
    mem,                \* the engine's book of positions
    seen,               \* per symbol: momentum, its last side, price, bar time
    pending,            \* rows decided but not yet appended
    disk, readable,     \* the journal's book; does every line parse
    alerts, faults      \* budgets used

market == <<now, close>>
vars == <<now, close, wire, open, link, backlog, mem, seen, pending, disk,
          readable, alerts, faults>>

Times == 1..MaxTime
Day(t) == t \div DayLen

Position == [at : Int, entry : Int, high : Int, managed : Int]
ASSUME NoPositionAssumption == None \notin Position
Books == [pos : [Symbols -> Position \cup {None}],
          day : [Symbols -> Int \cup {None}], closed : Nat]
EmptyBook == [pos |-> [s \in Symbols |-> None],
              day |-> [s \in Symbols |-> None], closed |-> 0]

Held(book) == {s \in Symbols : book.pos[s] # None}
StopOf(p) == p.high - Gap
TargetOf(p) == p.entry + Gain

(* The exit a bar that closes at c at time t calls for, the stop already   *)
(* raised: target, stop, then timeout.                                     *)
Verdict(p, c, t) ==
    CASE c >= TargetOf(p)  -> "target"
      [] c < TargetOf(p) /\ c <= StopOf(p) -> "stop"
      [] c < TargetOf(p) /\ c > StopOf(p) /\ t >= p.at + Hold -> "timeout"
      [] OTHER -> None

Row(kind, s, t, v, why) ==
    [kind |-> kind, sym |-> s, at |-> t, val |-> v, why |-> why]
Kinds == {"entered", "stop", "exited", "skipped"}
Event(kind, s, t, v) == [kind |-> kind, sym |-> s, at |-> t, val |-> v]

(***************************************************************************)
(* The journal.                                                            *)
(***************************************************************************)
(* One row of seed_from_history.                                           *)
Replay(book, r) ==
    CASE r.kind = "entered" ->
            [book EXCEPT !.pos[r.sym] = [at |-> r.at, entry |-> r.val,
                                         high |-> r.val, managed |-> r.at],
                         !.day[r.sym] = Day(r.at)]
      [] r.kind = "exited" ->
            [book EXCEPT !.pos[r.sym] = None, !.closed = @ + 1]
      [] r.kind = "stop" /\ book.pos[r.sym] # None ->
            [book EXCEPT
                !.pos[r.sym].high = IF r.val > @ THEN r.val ELSE @,
                !.pos[r.sym].managed = IF r.at > @ THEN r.at ELSE @]
      [] OTHER -> book

(* The caches a reseed clears: momentum and prices, but neither the side   *)
(* of the line last seen nor the time of the last bar.                     *)
ClearSeen == [s \in Symbols |-> [seen[s] EXCEPT !.level = None, !.price = None]]
Unseen == [level |-> None, side |-> None, price |-> None, barAt |-> None]

(***************************************************************************)
(* The market and the server's queue for this trader.                      *)
(***************************************************************************)

DropsSilently(e) == /\ UNCHANGED open
                    /\ wire' = IF link # "down" /\ open /\ Len(wire) < WireCap
                               THEN Append(wire, e) ELSE wire

(* A trader that falls more than WireCap events behind is disconnected.    *)
Deliver(e) ==
    IF link # "down" /\ open
    THEN IF Len(wire) < WireCap
         THEN wire' = Append(wire, e) /\ UNCHANGED open
         ELSE open' = FALSE /\ UNCHANGED wire
    ELSE UNCHANGED <<wire, open>>

TraderUnchanged == UNCHANGED <<link, backlog, mem, seen, pending, disk, readable>>

Minute ==
    /\ now < MaxTime
    /\ now' = now + 1
    /\ UNCHANGED <<close, wire, open, alerts, faults>> /\ TraderUnchanged

(* The minute's bar of s closes; a symbol may also trade not at all.       *)
BarCloses(s) ==
    /\ now > 0 /\ close[s][now] = None
    /\ \E c \in Closes :
          /\ close' = [close EXCEPT ![s][now] = c]
          /\ Deliver(Event("bar", s, now, c))
    /\ UNCHANGED <<now, alerts, faults>> /\ TraderUnchanged

Alert(s) ==
    /\ alerts < MaxAlerts /\ link # "down"
    /\ alerts' = alerts + 1
    /\ \/ \E l \in Levels : Deliver(Event("momentum", s, now, l))
       \/ \E a \in Asked : Deliver(Event("signal", s, now, a))
    /\ UNCHANGED <<now, close, faults>> /\ TraderUnchanged

(***************************************************************************)
(* Connecting: seed from the journal, then recover the missed bars.        *)
(***************************************************************************)
ConnectWith(book) ==
    /\ link = "down" /\ readable
    /\ mem' = book
    /\ seen' = ClearSeen
    /\ wire' = <<>> /\ open' = TRUE
    /\ link' = "fetching"
    /\ UNCHANGED <<now, close, backlog, pending, disk, readable, alerts, faults>>
ConnectKeepsBook == ConnectWith(mem)
ConnectForgetsDays == ConnectWith([disk EXCEPT !.day = [s \in Symbols |-> None]])
Connect == ConnectWith(disk)

MissedFromNow(s, t) == mem.pos[s] # None /\ close[s][t] # None /\ t = now
(* The completed bars of the held symbols that end after managed_through.  *)
Missed(s, t) == /\ mem.pos[s] # None /\ close[s][t] # None
                /\ t > mem.pos[s].managed /\ t <= now
MissedBars == {b \in Symbols \X Times : Missed(b[1], b[2])}

Fetch ==
    /\ link = "fetching"
    /\ backlog' = MissedBars
    /\ link' = "recovering"
    /\ UNCHANGED <<now, close, wire, open, mem, seen, pending, disk, readable,
                   alerts, faults>>

(***************************************************************************)
(* The engine: each handler changes the book and leaves rows to append.    *)
(***************************************************************************)
Skip(s, t) == pending' = <<Row("skipped", s, t, 0, None)>> /\ UNCHANGED mem

Gates(s, t, level) ==
    /\ level = "strong"
    /\ Cardinality(Held(mem)) < MaxConcurrent
    /\ mem.pos[s] = None
    /\ mem.day[s] # Day(t)

TryEnter(s, price, t, level) ==
    \/ /\ Gates(s, t, level)
       /\ mem' = [mem EXCEPT !.pos[s] = [at |-> t, entry |-> price,
                                         high |-> price, managed |-> t],
                             !.day[s] = Day(t)]
       /\ pending' = <<Row("entered", s, t, price, None)>>
    \/ Skip(s, t)

ClosePosition(s) == [mem EXCEPT !.pos[s] = None, !.closed = @ + 1]

OnSignal(e) == TryEnter(e.sym, e.val, e.at, seen[e.sym].level) /\ UNCHANGED seen

(* A crossing is traded on the last close, when that is fresh.             *)
FreshPrice(s, t) == /\ seen[s].price # None /\ seen[s].barAt # None
                    /\ t - seen[s].barAt <= PriceAge

OnMomentum(e) ==
    LET s == e.sym
        crossed == e.val = "strong" /\ seen[s].side = "below"
        broke == e.val = "critical" /\ mem.pos[s] # None /\ seen[s].price # None
    IN  /\ seen' = [seen EXCEPT ![s].level = e.val,
                       ![s].side = IF e.val = "strong" THEN "above" ELSE "below"]
        /\ \/ /\ broke
              /\ mem' = ClosePosition(s)
              /\ pending' = <<Row("exited", s, e.at, seen[s].price, "momentum")>>
           \/ /\ crossed /\ FreshPrice(s, e.at)
              /\ TryEnter(s, seen[s].price, e.at, e.val)
           \/ /\ crossed /\ ~FreshPrice(s, e.at)
              /\ Skip(s, e.at)
           \/ /\ ~broke /\ ~crossed
              /\ UNCHANGED <<mem, pending>>

(* A bar already managed is ignored; otherwise the stop trails first and   *)
(* the exit is judged against it.                                          *)
OnBar(e) ==
    LET s == e.sym
        p == mem.pos[s]
        rises == e.val > p.high
        q == [p EXCEPT !.high = IF rises THEN e.val ELSE @, !.managed = e.at]
        why == Verdict(q, e.val, e.at)
        stops == IF rises THEN <<Row("stop", s, e.at, e.val, None)>> ELSE <<>>
    IN  /\ seen' = [seen EXCEPT ![s].price = e.val, ![s].barAt = e.at - 1]
        /\ \/ /\ p = None \/ (p # None /\ e.at <= p.managed)
              /\ UNCHANGED <<mem, pending>>
           \/ /\ p # None /\ e.at > p.managed /\ why = None
              /\ mem' = [mem EXCEPT !.pos[s] = q]
              /\ pending' = stops
           \/ /\ p # None /\ e.at > p.managed /\ why # None
              /\ mem' = ClosePosition(s)
              /\ pending' = Append(stops, Row("exited", s, e.at, e.val, why))

OnEvent(e) == \/ e.kind = "bar" /\ OnBar(e)
              \/ e.kind = "momentum" /\ OnMomentum(e)
              \/ e.kind = "signal" /\ OnSignal(e)

(* Recovered bars are fed oldest first.                                    *)
RecoverBar ==
    /\ link = "recovering" /\ pending = <<>>
    /\ \E b \in backlog :
          /\ \A c \in backlog : b[2] <= c[2]
          /\ OnEvent(Event("bar", b[1], b[2], close[b[1]][b[2]]))
          /\ backlog' = backlog \ {b}
    /\ UNCHANGED <<now, close, wire, open, link, disk, readable, alerts, faults>>

Recovered ==
    /\ link = "recovering" /\ pending = <<>> /\ backlog = {}
    /\ link' = "live"
    /\ UNCHANGED <<now, close, wire, open, backlog, mem, seen, pending, disk,
                   readable, alerts, faults>>

Stale(e) == e.kind # "bar" /\ now - e.at > StaleAfter

Receive ==
    /\ link = "live" /\ pending = <<>> /\ wire # <<>>
    /\ wire' = Tail(wire)
    /\ \/ Stale(Head(wire)) /\ UNCHANGED <<mem, seen, pending>>
       \/ ~Stale(Head(wire)) /\ OnEvent(Head(wire))
    /\ UNCHANGED <<now, close, open, link, backlog, disk, readable, alerts, faults>>

(***************************************************************************)
(* Appending, one row at a time.                                           *)
(***************************************************************************)
AppendRow ==
    /\ pending # <<>>
    /\ disk' = Replay(disk, Head(pending))
    /\ pending' = Tail(pending)
    /\ UNCHANGED <<now, close, wire, open, link, backlog, mem, seen, readable,
                   alerts, faults>>

(* run_once ends: the socket is dropped and the caller sleeps.             *)
Disconnect ==
    /\ link' = "down" /\ pending' = <<>> /\ backlog' = {}
    /\ wire' = <<>> /\ open' = FALSE

(* A pair of rows one bar decided: the stop is written, the exit is not.   *)
MidPair == pending # <<>> /\ Head(pending).kind = "exited"
           /\ Head(pending).why # "momentum"
           /\ disk.pos[Head(pending).sym] # None
           /\ disk.pos[Head(pending).sym].managed = Head(pending).at

MayFault == faults < MaxFaults /\ faults' = faults + 1

(* The row is lost, or in the file although the sync failed, or a part of  *)
(* its line is: read_all refuses the file from then on.                    *)
AppendFails ==
    /\ pending # <<>> /\ MayFault
    /\ \/ /\ SplitPairs \/ ~MidPair
          /\ UNCHANGED <<disk, readable>>
       \/ /\ SplitPairs \/ Len(pending) = 1
          /\ disk' = Replay(disk, Head(pending))
          /\ UNCHANGED readable
       \/ /\ readable' = FALSE /\ UNCHANGED disk
    /\ Disconnect
    /\ UNCHANGED <<now, close, mem, seen, alerts>>

(* The server closes the socket, or the network drops it.                  *)
Cut ==
    /\ link # "down" /\ open /\ MayFault
    /\ open' = FALSE /\ wire' = <<>>
    /\ UNCHANGED <<now, close, alerts>> /\ TraderUnchanged

Closed ==
    /\ link = "live" /\ pending = <<>> /\ wire = <<>> /\ ~open
    /\ Disconnect
    /\ UNCHANGED <<now, close, mem, seen, disk, readable, alerts, faults>>

(* The REST call of the recovery fails.                                    *)
FetchFails ==
    /\ link = "fetching" /\ MayFault
    /\ Disconnect
    /\ UNCHANGED <<now, close, mem, seen, disk, readable, alerts>>

(* The process dies; a restart begins with nothing but the journal.        *)
Crash ==
    /\ MayFault /\ (SplitPairs \/ ~MidPair)
    /\ Disconnect
    /\ mem' = EmptyBook /\ seen' = [s \in Symbols |-> Unseen]
    /\ UNCHANGED <<now, close, disk, readable, alerts>>

Init ==
    /\ now = 0 /\ close = [s \in Symbols |-> [t \in Times |-> None]]
    /\ wire = <<>> /\ open = FALSE /\ link = "down" /\ backlog = {}
    /\ mem = EmptyBook /\ disk = EmptyBook /\ readable = TRUE
    /\ seen = [s \in Symbols |-> Unseen]
    /\ pending = <<>> /\ alerts = 0 /\ faults = 0

Run == \/ Connect \/ Fetch \/ RecoverBar \/ Recovered \/ Receive
       \/ AppendRow \/ Closed
Next == \/ Minute \/ Run \/ AppendFails \/ Cut \/ FetchFails \/ Crash
        \/ \E s \in Symbols : BarCloses(s) \/ Alert(s)

Spec == Init /\ [][Next]_vars
(* main loops for ever over run_once, and its container is restarted.      *)
FairSpec == Spec /\ WF_vars(Run)

(***************************************************************************)
(* Properties.                                                             *)
(***************************************************************************)
Rows == [kind : Kinds, sym : Symbols, at : Int,
         val : Int, why : {"target", "stop", "timeout", "momentum", None}]
Caches == [level : Levels \cup {None}, side : {"above", "below", None},
           price : Int \cup {None}, barAt : Int \cup {None}]

(* Every variable has its type: the queue of the trader never exceeds its  *)
(* capacity, and at most two rows wait to be appended.                     *)
TypeOK ==
    /\ now \in 0..MaxTime
    /\ close \in [Symbols -> [Times -> Closes \cup {None}]]
    /\ Len(wire) <= WireCap
    /\ open \in BOOLEAN /\ readable \in BOOLEAN
    /\ link \in {"down", "fetching", "recovering", "live"}
    /\ backlog \subseteq Symbols \X Times
    /\ mem \in Books /\ disk \in Books
    /\ seen \in [Symbols -> Caches]
    /\ pending \in Seq(Rows) /\ Len(pending) <= 2
    /\ alerts \in 0..MaxAlerts /\ faults \in 0..MaxFaults

(* Whatever crashes, failed appends and reconnects come between, the       *)
(* journal opens a symbol only when it does not hold it and has not        *)
(* entered it that calendar day, and closes only what it holds.            *)
OneEntryPerDay ==
    [][ \A s \in Symbols :
          /\ (disk'.pos[s] # None /\ (disk.pos[s] = None \/ disk.pos[s].at # disk'.pos[s].at))
               => disk.pos[s] = None /\ disk.day[s] # Day(disk'.pos[s].at)
          /\ (pending # <<>> /\ disk'.closed # disk.closed /\ Head(pending).sym = s)
               => disk.pos[s] # None ]_vars

(* Once connected, with no row waiting, the engine manages exactly the     *)
(* positions, days and closed trades a restart would read back.            *)
MemoryFollowsJournal ==
    (link # "down" /\ pending = <<>>) =>
        /\ mem.day = disk.day /\ mem.closed = disk.closed
        /\ \A s \in Symbols :
              \/ mem.pos[s] = None /\ disk.pos[s] = None
              \/ /\ mem.pos[s] # None /\ disk.pos[s] # None
                 /\ mem.pos[s].managed >= disk.pos[s].managed
                 /\ [mem.pos[s] EXCEPT !.managed = 0] = [disk.pos[s] EXCEPT !.managed = 0]

(* No more positions are ever on the journal than the configured slots.    *)
WithinSlots == Cardinality(Held(disk)) <= MaxConcurrent

(* The market alone says whether a position entered at p.at should have    *)
(* been closed by the bar of minute t.                                     *)
HighBy(s, p, t) == LET prices == {p.entry} \cup {close[s][u] : u \in {v \in Times :
                                      p.at < v /\ v <= t /\ close[s][v] # None}}
                   IN  CHOOSE h \in prices : \A g \in prices : g <= h
Due(s, p, t) == /\ p.at < t /\ close[s][t] # None
                /\ Verdict([p EXCEPT !.high = HighBy(s, p, t)], close[s][t], t) # None

(* A position the connected engine manages has met no target, stop or      *)
(* timeout on any bar it counts as managed, and one that is being closed   *)
(* is closed by the first bar that calls for it: restarts, failed appends, *)
(* lag and reconnects lose no verdict.                                     *)
NoVerdictLost ==
    /\ link # "down" => \A s \in Held(mem) : \A t \in Times :
          t <= mem.pos[s].managed => ~Due(s, mem.pos[s], t)
    /\ \A n \in DOMAIN pending : pending[n].kind = "exited" =>
          LET s == pending[n].sym
          IN  \A t \in Times : t < pending[n].at => ~Due(s, disk.pos[s], t)

(* A position whose hold has run out by a bar of its symbol is closed in   *)
(* the journal, unless a torn line has made the journal unreadable.        *)
PositionResolves ==
    \A s \in Symbols :
        (disk.pos[s] # None /\ \E t \in Times : /\ t > disk.pos[s].at
                                               /\ t >= disk.pos[s].at + Hold
                                               /\ close[s][t] # None)
            ~> (disk.pos[s] = None \/ ~readable)
=============================================================================
