---------------------------- MODULE Opportunities ----------------------------
(***************************************************************************)
(* The opportunity engine (backtest-metrics/src/opportunity.rs) and the    *)
(* collector of outcomes it feeds (opportunity_outcome.rs), driven as the  *)
(* server drives them: one event, or the end of the stream, is one step of *)
(* both (ws-server/src/opportunity_outcomes.rs).  Detector evidence opens  *)
(* and extends a symbol's opportunity, silence and the market day end it,  *)
(* and every ranking of an open one leaves an anchor that must become one  *)
(* row, which says what had become of the opportunity by its deadline.     *)
(*                                                                         *)
(* Scores, contexts and prices are left out (OutcomePath measures prices); *)
(* an event only says whether a price is known for it.  Time is one scale  *)
(* of instants; every event is received at an instant of its own, later    *)
(* than the one before, and carries its own, which may lie before that.    *)
(***************************************************************************)
EXTENDS Integers, FiniteSets

CONSTANTS
    Symbols,    \* a set of naturals, so that they have an order
    DayLen,     \* instants of a day
    UtcShift,   \* instants a UTC date begins before the market day does
    Quiet,      \* inactivity_secs, move_inactivity_secs
    Cadence,    \* ranking_cadence_secs
    Bound,      \* max_open_opportunities; 0 is no bound
    Settle,     \* OUTCOME_SETTLE_AFTER_SECS
    MaxAnchors, \* MAX_OUTSTANDING_ANCHORS
    MaxTime,    \* bound: instants are 0..MaxTime
    MaxLate,    \* bound: how far an event's instant lies before its receipt
    None        \* no opportunity, no symbol, no instant

VARIABLES
    lifecycle,   \* config.lifecycle
    clock,       \* received_at of the last event
    open,        \* symbol -> its open opportunity, or None
    byLastSeen,  \* the index: pairs of the instant an opportunity lives from and its symbol
    edges,       \* symbol -> EdgeState
    emitted,     \* symbols whose open opportunity was ranked (detection_context_emitted)
    lastRanked,
    opened,      \* health.opportunities_opened
    closed,      \* health.opportunities_closed
    outstanding, \* the collector's anchors
    bySymbol,    \* its index: symbol -> ids of anchors
    nextId,
    rows,        \* the rows written
    notices,     \* the opportunity_closed markers written
    minted,      \* history: the ids issued
    finished     \* the stream has ended

engine == <<lifecycle, open, byLastSeen, edges, emitted, lastRanked, opened, closed>>
collector == <<outstanding, bySymbol, nextId, rows>>
vars == <<engine, collector, clock, notices, minted, finished>>

Times == 0..MaxTime
Move == "move"
SymbolActivity == "symbol_activity"

NoDay == -1
MarketDay(t) == t \div DayLen
UtcDate(t) == (t + UtcShift) \div DayLen

\* sequence_for counts from UTC midnight: with the date, it is the instant.
Identity(s, t) == [symbol |-> s, date |-> UtcDate(t), sequence |-> (t + UtcShift) % DayLen]

\* The day an opportunity may not outlive, by its lifecycle.
Day(t) == IF lifecycle = Move THEN MarketDay(t) ELSE UtcDate(t)

(* What an event says.  Funnel and momentum readings are levels; the        *)
(* ignition and consolidation events are evidence each by itself; bars,     *)
(* halts and catalysts are market data.  Of a symbol with no price of its   *)
(* own the feature cache may know none; it is asked when one would open.    *)
Levels == {"funnel", "momentum"}
Kinds == Levels \cup {"confirmed", "candidate", "rejected", "bar"}
Says ==
    {x \in [kind : Kinds, holds : BOOLEAN, priced : BOOLEAN] :
        (x.kind \notin Levels => x.holds) /\ (~x.priced => x.kind = "momentum" /\ x.holds)}
Event(s, t, x) == [symbol |-> s, at |-> t, kind |-> x.kind, holds |-> x.holds, priced |-> x.priced]

-----------------------------------------------------------------------------
NewEdges == [latest |-> NoDay, day |-> NoDay, funnel |-> FALSE, momentum |-> FALSE,
             issuedDay |-> NoDay, issued |-> {}]

Init ==
    /\ lifecycle \in {Move, SymbolActivity}
    /\ clock = 0
    /\ open = [s \in Symbols |-> None]
    /\ byLastSeen = {}
    /\ edges = [s \in Symbols |-> NewEdges]
    /\ emitted = {}
    /\ lastRanked = None
    /\ opened = 0
    /\ closed = 0
    /\ outstanding = {}
    /\ bySymbol = [s \in Symbols |-> {}]
    /\ nextId = 0
    /\ rows = {}
    /\ notices = {}
    /\ minted = {}
    /\ finished = FALSE

IsOpen(s) == open[s] # None

\* clock_key, with the symbol: the entry an opportunity has in the index.
Key(s) == <<open[s].since, s>>

Latest(S) == CHOOSE t \in S : \A u \in S : u <= t

ClosedAtOpening(s, t) == Latest({t, open[s].openedAt})              \* mutant
\* close: never before the opening, nor before a ranking it was open at.
ClosedAt(s, t) ==
    Latest({t, open[s].openedAt} \cup IF s \in emitted THEN {lastRanked} ELSE {})

Notice(s, t, reason, r) ==
    [symbol |-> s, openedAt |-> open[s].openedAt, closedAt |-> ClosedAt(s, t),
     observedAt |-> r, reason |-> reason]

(* expire_inactive, expire_moves: what is due is a prefix of the index.    *)
Expired(r) == {s \in Symbols : IsOpen(s) /\ \E k \in byLastSeen : k[2] = s /\ k[1] + Quiet <= r}

Silence(s) ==
    IF lifecycle = SymbolActivity THEN "inactivity"
    ELSE IF open[s].kind = "invalidation" THEN "invalidated" ELSE "setup_inactivity"

ExpiryNotice(s, r) ==
    IF Day(open[s].openedAt) # Day(r)
    THEN Notice(s, open[s].since, "session_boundary", r)
    ELSE Notice(s, open[s].since + Quiet, Silence(s), r)

-----------------------------------------------------------------------------
(* One event.  Under move-v1 one of an earlier market day changes nothing. *)
LateNever(e) == FALSE                                               \* mutant
Late(e) == lifecycle = Move /\ MarketDay(e.at) < edges[e.symbol].latest

\* The session boundary: a later market day, or (symbol-activity) another date.
Crosses(e, due) ==
    /\ IsOpen(e.symbol) /\ e.symbol \notin due /\ ~Late(e)
    /\ LET was == Day(open[e.symbol].openedAt)
       IN  IF lifecycle = Move THEN Day(e.at) > was ELSE Day(e.at) # was

Stays(e, due) == IsOpen(e.symbol) /\ e.symbol \notin due /\ ~Late(e) /\ ~Crosses(e, due)

\* day_scoped_edges: the level an earlier reading of this market day left.
Was(e) ==
    /\ edges[e.symbol].day = MarketDay(e.at)
    /\ IF e.kind = "funnel" THEN edges[e.symbol].funnel ELSE edges[e.symbol].momentum

\* An opening edge; under symbol-activity the level itself qualifies.
Edge(e) ==
    \/ e.kind = "confirmed"
    \/ e.kind \in Levels /\ e.holds /\ (lifecycle = Move => ~Was(e))

\* classify_move_evidence: what prolongs a move.  A funnel that goes on passing does not.
Positive(e) == e.kind = "candidate" \/ (e.kind = "momentum" /\ e.holds) \/ Edge(e)

Issued(e) ==
    IF edges[e.symbol].issuedDay = MarketDay(e.at) THEN edges[e.symbol].issued ELSE {}

Vacant(e, due) == ~Late(e) /\ ~Stays(e, due) /\ Edge(e) /\ e.priced
DuplicateNever(e) == FALSE                                          \* mutant
Duplicate(e) == lifecycle = Move /\ Identity(e.symbol, e.at) \in Issued(e)

EdgesAfter(e, vacant) ==
    IF lifecycle = SymbolActivity \/ Late(e) THEN edges
    ELSE LET s == e.symbol
             day == MarketDay(e.at)
             level(kind, held) ==
                 IF e.kind = kind THEN e.holds
                 ELSE IF e.kind \in Levels THEN edges[s].day = day /\ held ELSE held
         IN  [edges EXCEPT ![s] =
                 [latest |-> day,
                  day |-> IF e.kind \in Levels THEN day ELSE @.day,
                  funnel |-> level("funnel", @.funnel),
                  momentum |-> level("momentum", @.momentum),
                  issuedDay |-> IF vacant THEN day ELSE @.issuedDay,
                  issued |-> IF vacant THEN Issued(e) \cup {Identity(s, e.at)} ELSE @.issued]]

\* enforce_capacity: the least recently relevant of those left makes room.
Before(k, l) == k[1] < l[1] \/ (k[1] = l[1] /\ k[2] <= l[2])
Victims(left) ==
    IF Bound # 0 /\ Cardinality(left) >= Bound
    THEN {s \in left : \A t \in left : Before(Key(s), Key(t))}
    ELSE {}

\* record: under move-v1 only positive evidence moves the clock, and never back.
Since(e) ==
    LET was == open[e.symbol].since
    IN  IF lifecycle = SymbolActivity THEN e.at
        ELSE IF Positive(e) THEN Latest({was, e.at}) ELSE was

Recorded(e) ==
    [open[e.symbol] EXCEPT !.since = Since(e),
        !.kind = IF lifecycle = SymbolActivity THEN @
                 ELSE IF e.kind = "rejected" THEN "invalidation"
                 ELSE IF Positive(e) THEN "positive" ELSE @]

Fresh(e) == [openedAt |-> e.at, since |-> e.at, kind |-> "positive"]

\* What is open, and the index: gone are closed, stays records, opens is new.
Opportunities(e, gone, stays, opens) ==
    /\ open' = [s \in Symbols |->
           IF s # e.symbol THEN IF s \in gone THEN None ELSE open[s]
           ELSE IF opens THEN Fresh(e)
           ELSE IF stays THEN Recorded(e)
           ELSE IF s \in gone THEN None ELSE open[s]]
    /\ byLastSeen' =
           (byLastSeen \ {Key(s) : s \in gone \cup IF stays THEN {e.symbol} ELSE {}})
           \cup (IF stays THEN {<<Since(e), e.symbol>>} ELSE {})
           \cup (IF opens THEN {<<e.at, e.symbol>>} ELSE {})
    /\ opened' = opened + IF opens THEN 1 ELSE 0
    /\ minted' = minted \cup IF opens THEN {Identity(e.symbol, e.at)} ELSE {}
    /\ closed' = closed + Cardinality(gone)

\* rank, on what the event left open: every open opportunity is scored.
Ranked(r) ==
    IF lastRanked = None \/ r - lastRanked >= Cadence
    THEN {s \in Symbols : open'[s] # None} ELSE {}

Rank(gone, r) ==
    /\ lastRanked' = IF Ranked(r) # {} THEN r ELSE lastRanked
    /\ emitted' = IF Ranked(r) # {} THEN Ranked(r) ELSE emitted \ gone

-----------------------------------------------------------------------------
(* The collector: closures, then anchors, then what is due.                *)
Visible(n, at) == n.observedAt <= at + Settle

ConcernsAnyTime(n, x) ==                                             \* mutant
    /\ x.id \in bySymbol[n.symbol]
    /\ x.symbol = n.symbol /\ x.openedAt = n.openedAt
    /\ x.disposition = "still_open"
Concerns(n, x) ==
    /\ x.id \in bySymbol[n.symbol]
    /\ x.symbol = n.symbol /\ x.openedAt = n.openedAt
    /\ x.disposition = "still_open" /\ Visible(n, x.at)

\* apply_closure
Marked(x, closes) ==
    IF \E n \in closes : Concerns(n, x)
    THEN LET n == CHOOSE n \in closes : Concerns(n, x)
         IN  [x EXCEPT !.disposition = n.reason, !.closedAt = n.closedAt]
    ELSE x

Anchor(s, ranked, r) ==
    [id |-> nextId + Cardinality({t \in ranked : t < s}), symbol |-> s, at |-> r,
     openedAt |-> open'[s].openedAt, disposition |-> "still_open", closedAt |-> None]

Row(x, forced) == [anchor |-> x, forced |-> forced]
Ids(A) == {x.id : x \in A}

\* Anchors that had to make room: all but the MaxAnchors newest.
Overflow(A) == {x \in A : Cardinality({y \in A : y.id >= x.id}) > MaxAnchors}

\* apply_closures, anchor for every ranked opportunity, settle_due
Collect(closes, r) ==
    LET marked == {Marked(x, closes) : x \in outstanding}
        ranked == Ranked(r)
        anchors == {Anchor(s, ranked, r) : s \in ranked}
        evicted == Overflow(marked \cup anchors)
        kept == (marked \cup anchors) \ evicted
        due == {x \in kept : x.at + Settle <= r}
    IN  /\ outstanding' = kept \ due
        /\ bySymbol' = [s \in Symbols |->
               (bySymbol[s] \cup Ids({x \in anchors : x.symbol = s}))
               \ Ids({x \in evicted \cup due : x.symbol = s})]
        /\ nextId' = nextId + Cardinality(anchors)
        /\ rows' = rows \cup {Row(x, "pending_capacity") : x \in evicted}
                        \cup {Row(x, "settled") : x \in due}

-----------------------------------------------------------------------------
(* observe_both and finish_both.                                           *)
Later(r) == ~finished /\ clock < r /\ clock' = r /\ r \in Times

Receive(r) ==
    /\ Later(r)
    /\ \E s \in Symbols, t \in {t \in Times : t <= r /\ r <= t + MaxLate}, x \in Says :
           LET e == Event(s, t, x)
               due == Expired(r)
               crossed == IF Crosses(e, due) THEN {s} ELSE {}
               stays == Stays(e, due)
               vacant == Vacant(e, due)
               opens == vacant /\ ~Duplicate(e)
               left == {u \in Symbols : IsOpen(u)} \ (due \cup crossed)
               evicted == IF opens THEN Victims(left) ELSE {}
               gone == due \cup crossed \cup evicted
               closes == {ExpiryNotice(u, r) : u \in due}
                         \cup {Notice(u, t, "session_boundary", r) : u \in crossed}
                         \cup {Notice(u, t, "capacity_reached", r) : u \in evicted}
           IN  /\ Opportunities(e, gone, stays, opens)
               /\ edges' = EdgesAfter(e, vacant)
               /\ Rank(gone, r)
               /\ Collect(closes, r)
               /\ notices' = notices \cup closes
    /\ UNCHANGED <<lifecycle, finished>>

\* The event names no symbol (FunnelHealth): only the clock moves.
Tick(r) ==
    /\ Later(r)
    /\ LET due == Expired(r)
           closes == {ExpiryNotice(s, r) : s \in due}
       IN  /\ open' = [s \in Symbols |-> IF s \in due THEN None ELSE open[s]]
           /\ byLastSeen' = byLastSeen \ {Key(s) : s \in due}
           /\ closed' = closed + Cardinality(due)
           /\ Rank(due, r)
           /\ Collect(closes, r)
           /\ notices' = notices \cup closes
    /\ UNCHANGED <<lifecycle, edges, opened, minted, finished>>

Finish(r) ==
    /\ Later(r)
    /\ LET closes == {Notice(s, r, "capture_ended", r) : s \in {s \in Symbols : IsOpen(s)}}
       IN  /\ rows' = rows \cup
                  {Row(Marked(x, closes), "capture_ended") : x \in outstanding}
           /\ notices' = notices \cup closes
           /\ closed' = closed + Cardinality(closes)
    /\ open' = [s \in Symbols |-> None]
    /\ byLastSeen' = byLastSeen \ {Key(s) : s \in {s \in Symbols : IsOpen(s)}}
    /\ outstanding' = {}
    /\ bySymbol' = [s \in Symbols |-> {}]
    /\ finished' = TRUE
    /\ UNCHANGED <<lifecycle, edges, emitted, lastRanked, opened, nextId, minted>>

\* The stream has ended, or its instants are used up.
Ended == (finished \/ clock = MaxTime) /\ UNCHANGED vars

Next == Ended \/ \E r \in Times : Receive(r) \/ Tick(r) \/ Finish(r)

Spec == Init /\ [][Next]_vars

-----------------------------------------------------------------------------
Instants == Times \cup {None}
Reasons == {"inactivity", "setup_inactivity", "invalidated", "session_boundary",
            "capacity_reached", "capture_ended"}
TypeOK ==
    /\ lifecycle \in {Move, SymbolActivity} /\ clock \in Times
    /\ \A s \in Symbols : IsOpen(s) =>
           open[s] \in [openedAt : Times, since : Times, kind : {"positive", "invalidation"}]
    /\ byLastSeen \subseteq (Times \X Symbols)
    /\ emitted \subseteq Symbols /\ lastRanked \in Instants
    /\ {opened, closed, nextId} \subseteq Nat

\* The index that expiry and eviction read has one entry for each open
\* opportunity, under the instant it lives from.
IndexInStep == byLastSeen = {Key(s) : s \in {s \in Symbols : IsOpen(s)}}

\* Every opportunity is open or was closed once; the bound on the open ones is
\* kept, so a ranking bound no smaller never cuts a ranking (D6).
OpenedAreAccounted ==
    LET n == Cardinality({s \in Symbols : IsOpen(s)})
    IN  /\ opened = n + closed /\ Cardinality(notices) <= closed
        /\ Bound # 0 => n <= Bound

\* No anchor is later than the close of the opportunity it measures.
Measures(x, n) == n.symbol = x.symbol /\ n.openedAt = x.openedAt
Anchors == outstanding \cup {r.anchor : r \in rows}
NoAnchorAfterClose ==
    \A x \in Anchors :
        /\ x.closedAt # None => x.at <= x.closedAt
        /\ lifecycle = Move => \A n \in notices : Measures(x, n) => x.at <= n.closedAt

\* move-v1: no id is issued twice, however late events come.
IdsAreNew == lifecycle = Move => opened = Cardinality(minted)

\* move-v1: a move lies in one market day, the latest its symbol has reached.
WithinTheDay ==
    lifecycle = Move => \A s \in Symbols : IsOpen(s) =>
        {MarketDay(open[s].openedAt), MarketDay(open[s].since)} = {edges[s].latest}

\* Every anchor becomes one row or waits for its deadline, and the collector's
\* index has exactly those that wait.
EveryAnchorHasItsRow ==
    /\ Ids(outstanding) \cup {r.anchor.id : r \in rows} = 0..(nextId - 1)
    /\ Cardinality(outstanding) + Cardinality(rows) = nextId
    /\ \A s \in Symbols : bySymbol[s] = Ids({x \in outstanding : x.symbol = s})

\* disposition_as_of_settlement: what a replay of the markers says of an anchor.
Replayed(x) ==
    LET told == {n \in notices : Measures(x, n) /\ Visible(n, x.at)}
    IN  IF told = {} THEN "still_open" ELSE (CHOOSE n \in told : TRUE).reason

\* move-v1: a row says of its opportunity what a replay of the markers says,
\* unless it had to make room for another before its deadline.
LiveAgreesWithReplay ==
    lifecycle = Move =>
        /\ \A x \in outstanding : x.disposition = Replayed(x)
        /\ \A r \in rows : r.forced # "pending_capacity" => r.anchor.disposition = Replayed(r.anchor)
=============================================================================
