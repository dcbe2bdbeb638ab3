------------------------------- MODULE HaltLog -------------------------------
(* The record of today's halts (market-data/src/halt_log.rs): marks per symbol *)
(* made from trading-status messages and the counters that disclose every      *)
(* message that made none.  The feed's timestamps are the only order there is, *)
(* so they are checked; the market day is taken from the receipt clock, which  *)
(* may step back.  The log is on (HALT_LOG_ENABLED); off, it holds nothing.    *)
EXTENDS Naturals, FiniteSets, Sequences, Functions

CONSTANTS
    Symbols,
    DayLen,     \* seconds of a market day: day d is DayLen*d .. DayLen*(d+1)-1
    Ahead,      \* MAX_AHEAD_OF_RECEIPT_SECS
    Behind,     \* MAX_BEHIND_RECEIPT_SECS
    MaxMarks,   \* MAX_MARKS_PER_SYMBOL
    MaxSymbols, \* MAX_SYMBOLS
    MaxTime,    \* bound: every clock reads 0..MaxTime
    MaxStatuses,\* bound: statuses of one day
    None        \* no day yet, no status yet

VARIABLES
    day,        \* market day being recorded, or None
    marks,      \* SymbolLog.marks: symbol -> sequence of [at, kind]
    lost,       \* SymbolLog.dropped: marks pushed out of the front
    since,      \* since_secs: earliest status of the day, or None
    count,      \* the counters of Log, by name; and, as history, "silent"
    offered,    \* history: statuses received on the day
    marked      \* history: marks ever made on the day

vars == <<day, marks, lost, since, count, offered, marked>>

Times == 0..MaxTime
Days == 0..(MaxTime \div DayLen)
MarketDay(t) == t \div DayLen

\* Marks are made of interruptions and resumes; other codes say nothing.
Kinds == {"Halted", "Resumed"}
Classes == Kinds \union {"Other"}

\* "silent" is not in the code: it counts the codes that say nothing of trading.
Counters == {"repeated", "unmatched", "rejected", "disorder", "noSymbol", "silent"}

NoCounts == [c \in Counters |-> 0]
NoMarks == [s \in Symbols |-> <<>>]
NothingLost == [s \in Symbols |-> 0]

\* symbols.contains_key: a symbol is admitted by its first mark.
Admitted == {s \in Symbols : marks[s] # <<>>}

-----------------------------------------------------------------------------
Init ==
    /\ day = None
    /\ marks = NoMarks
    /\ lost = NothingLost
    /\ since = None
    /\ count = NoCounts
    /\ offered = 0
    /\ marked = 0

\* The day the receipt clock says, unless a later one is already recorded.
Rolls(now) == ~(day # None /\ day >= MarketDay(now))

\* roll_to: what the log is once it has looked at the receipt clock.
RolledTo(now) ==
    IF Rolls(now)
    THEN [day |-> MarketDay(now), marks |-> NoMarks, lost |-> NothingLost,
          since |-> None, count |-> NoCounts, offered |-> 0, marked |-> 0]
    ELSE [day |-> day, marks |-> marks, lost |-> lost,
          since |-> since, count |-> count, offered |-> offered, marked |-> marked]

Plausible(at, received) ==
    /\ at <= received + Ahead
    /\ received <= at + Behind

LatestMark(log, s) == log.marks[s][Len(log.marks[s])]
HasMark(log, s) == log.marks[s] # <<>>

TooLateNever(log, s, at) == FALSE

\* The record refuses a transition that would sit before the last one.
TooLate(log, s, at) == HasMark(log, s) /\ LatestMark(log, s).at > at

LastKind(log, s) == IF HasMark(log, s) THEN LatestMark(log, s).kind ELSE None

Full(log, s) ==
    /\ log.marks[s] = <<>>
    /\ Cardinality({x \in Symbols : log.marks[x] # <<>>}) >= MaxSymbols

\* The counter a status ends in, or "mark": record's early returns, in order.
Fate(log, s, class, at, received) ==
    IF ~Plausible(at, received) \/ log.day # MarketDay(at) THEN "rejected"
    ELSE IF class = "Other" THEN "silent"
    ELSE IF TooLate(log, s, at) THEN "disorder"
    ELSE IF class = "Halted" /\ LastKind(log, s) = "Halted" THEN "repeated"
    ELSE IF class = "Resumed" /\ LastKind(log, s) # "Halted" THEN "unmatched"
    ELSE IF Full(log, s) THEN "noSymbol"
    ELSE "mark"

Earliest(a, t) == IF a = None THEN t ELSE IF t < a THEN t ELSE a

Push(log, s, mark) ==
    IF Len(log.marks[s]) >= MaxMarks
    THEN [log EXCEPT !.marks[s] = Append(Tail(@), mark), !.lost[s] = @ + 1,
                     !.marked = @ + 1]
    ELSE [log EXCEPT !.marks[s] = Append(@, mark), !.marked = @ + 1]

Becomes(log) ==
    /\ day' = log.day
    /\ marks' = log.marks
    /\ lost' = log.lost
    /\ since' = log.since
    /\ count' = log.count
    /\ offered' = log.offered
    /\ marked' = log.marked

Record(s, class, at, received) ==
    LET log  == RolledTo(received)
        fate == Fate(log, s, class, at, received)
        told == [log EXCEPT !.offered = @ + 1,
                            !.since = IF fate = "rejected" THEN @ ELSE Earliest(@, at)]
    IN  /\ log.offered < MaxStatuses
        /\ Becomes(IF fate = "mark"
                   THEN Push(told, s, [at |-> at, kind |-> class])
                   ELSE [told EXCEPT !.count[fate] = @ + 1])

\* history: a read notices that the day has turned, and changes nothing else.
History(now) ==
    /\ Rolls(now)
    /\ Becomes(RolledTo(now))

Next ==
    \/ \E s \in Symbols, class \in Classes, at, received \in Times :
           Record(s, class, at, received)
    \/ \E now \in Times : History(now)

Spec == Init /\ [][Next]_vars

-----------------------------------------------------------------------------
Mark == [at : Times, kind : Kinds]

Total(s) == Len(marks[s]) + lost[s]

\* Every variable has its type; no symbol keeps more marks than the limit.
TypeOK ==
    /\ day \in {None} \union Days
    /\ DOMAIN marks = Symbols
    /\ \A s \in Symbols : Len(marks[s]) <= MaxMarks /\ \A i \in DOMAIN marks[s] : marks[s][i] \in Mark
    /\ lost \in [Symbols -> 0..MaxStatuses]
    /\ since \in {None} \union Times
    /\ count \in [Counters -> 0..MaxStatuses]
    /\ offered \in 0..MaxStatuses
    /\ marked \in 0..MaxStatuses

\* A chart may draw the marks as they stand: for every symbol they are oldest
\* first, a halt and a resume in turn, all of the day that is recorded, none
\* earlier than the coverage the reader is told, and they begin with a halt
\* unless the reader is told that marks were dropped -- whatever order, date or
\* repetition the feed sends and however the receipt clock steps.
MarksTellTheDay ==
    \A s \in Symbols :
        /\ \A i \in DOMAIN marks[s] : MarketDay(marks[s][i].at) = day /\ since <= marks[s][i].at
        /\ \A i \in 1..(Len(marks[s]) - 1) :
               /\ marks[s][i].at <= marks[s][i + 1].at
               /\ marks[s][i].kind # marks[s][i + 1].kind
        /\ (marks[s] # <<>> /\ lost[s] = 0) => marks[s][1].kind = "Halted"

\* Nothing that says something of trading disappears: each such status of the
\* day made a mark, or one counter the reader sees says why it made none, and
\* each mark is still there or is counted as dropped.
EveryStatusDisclosed ==
    /\ offered = marked + FoldFunction(+, 0, count)
    /\ marked = FoldFunction(+, 0, [s \in Symbols |-> Total(s)])

=============================================================================
