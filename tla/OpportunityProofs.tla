-------------------------- MODULE OpportunityProofs --------------------------
(***************************************************************************)
(* What holds of the opportunity engine and its outcome collector for      *)
(* every number of symbols, every duration and bound, and events however   *)
(* late: an opportunity is closed once, none of its anchors lies after the *)
(* close, no id is issued twice, every anchor becomes one row, and a row   *)
(* says of its opportunity what a replay of the recorded closes says.      *)
(***************************************************************************)
EXTENDS Opportunities, FiniteSetTheorems, TLAPS

-----------------------------------------------------------------------------
(* The types, with the domains that TypeOK leaves out.                     *)
Opportunity == [openedAt : Times, since : Times, kind : {"positive", "invalidation"}]
Ident == [symbol : Symbols, date : Int, sequence : Int]
EdgeState == [latest : Int, day : Int, funnel : BOOLEAN, momentum : BOOLEAN,
              issuedDay : Int, issued : SUBSET Ident]
OutcomeAnchor ==
    [id : Nat, symbol : Symbols, at : Times, openedAt : Times,
     disposition : Reasons \cup {"still_open"}, closedAt : Nat \cup {None}]
OutcomeRow == [anchor : OutcomeAnchor, forced : {"pending_capacity", "settled", "capture_ended"}]
Closure == [symbol : Symbols, openedAt : Times, closedAt : Nat, observedAt : Times,
            reason : Reasons]

\* What the server's configuration gives.
Configured ==
    /\ Symbols \subseteq Nat /\ IsFiniteSet(Symbols) /\ Symbols # {}
    /\ DayLen \in Nat \ {0} /\ UtcShift \in Nat
    /\ Quiet \in Nat /\ Cadence \in Nat /\ Bound \in Nat /\ Settle \in Nat
    /\ MaxAnchors \in Nat /\ MaxTime \in Nat /\ MaxLate \in Nat
    /\ None \notin Int /\ None \notin Opportunity

Typed ==
    /\ lifecycle \in {Move, SymbolActivity} /\ clock \in Times /\ finished \in BOOLEAN
    /\ open \in [Symbols -> Opportunity \cup {None}]
    /\ edges \in [Symbols -> EdgeState]
    /\ emitted \subseteq Symbols /\ lastRanked \in Instants
    /\ opened \in Nat /\ closed \in Nat /\ nextId \in Nat
    /\ outstanding \subseteq OutcomeAnchor /\ rows \subseteq OutcomeRow
    /\ notices \subseteq Closure /\ minted \subseteq Ident
    /\ bySymbol \in [Symbols -> SUBSET Nat]

Finite == /\ IsFiniteSet(outstanding) /\ IsFiniteSet(rows)
          /\ IsFiniteSet(notices) /\ IsFiniteSet(minted)

Opened == {s \in Symbols : IsOpen(s)}

\* The id of what x is about: an opportunity, an anchor's or a closure's.
About(x) == Identity(x.symbol, x.openedAt)

(* What was issued is remembered: of move-v1, an id is of a day before the *)
(* one whose ids are kept, or is among them.                               *)
Issue(m) == \E t \in Times :
    /\ m = Identity(m.symbol, t)
    /\ \/ MarketDay(t) < edges[m.symbol].issuedDay
       \/ MarketDay(t) = edges[m.symbol].issuedDay /\ m \in edges[m.symbol].issued
Remembered ==
    /\ \A s \in Opened : Identity(s, open[s].openedAt) \in minted
    /\ \A x \in Anchors : About(x) \in minted
    /\ \A n \in notices : About(n) \in minted
    /\ lifecycle = Move =>
           /\ \A s \in Symbols : edges[s].issuedDay <= edges[s].latest
           /\ \A m \in minted : Issue(m)

(* An anchor that waits is not due; one that is still open is of the       *)
(* opportunity its symbol has open, which has been ranked.                 *)
Ranks(x) == IsOpen(x.symbol) /\ open[x.symbol].openedAt = x.openedAt
Waiting ==
    /\ lastRanked # None => lastRanked <= clock
    /\ emitted # {} => lastRanked # None
    /\ \A x \in Anchors : lastRanked # None /\ x.at <= lastRanked
    /\ \A x \in outstanding :
           /\ clock < x.at + Settle
           /\ x.disposition = "still_open" => Ranks(x) /\ x.symbol \in emitted
    /\ lifecycle = Move => \A x \in Anchors : Ranks(x) => x.symbol \in emitted

(* One number for each anchor.                                             *)
Numbered ==
    /\ \A x, y \in outstanding : x.id = y.id => x = y
    /\ \A q, r \in rows : q.anchor.id = r.anchor.id => q = r
    /\ \A x \in outstanding, r \in rows : x.id # r.anchor.id
    /\ Ids(outstanding) \cup {r.anchor.id : r \in rows} = 0..(nextId - 1)
    /\ \A s \in Symbols : bySymbol[s] = Ids({x \in outstanding : x.symbol = s})

(* A close is reported once, and of what is open none is; a settled row    *)
(* had its deadline behind it.                                             *)
Told ==
    /\ lifecycle = Move =>
           /\ \A m, n \in notices : Measures(m, n) => m = n
           /\ \A s \in Opened, n \in notices :
                  ~(n.symbol = s /\ n.openedAt = open[s].openedAt)
    /\ \A r \in rows : /\ r.forced = "settled" => r.anchor.at + Settle <= clock
                       /\ r.forced = "capture_ended" => finished

IInv ==
    /\ Typed /\ Finite
    /\ IndexInStep /\ OpenedAreAccounted /\ NoAnchorAfterClose /\ IdsAreNew
    /\ WithinTheDay /\ LiveAgreesWithReplay
    /\ Remembered /\ Waiting /\ Numbered /\ Told

-----------------------------------------------------------------------------
(* Arithmetic of days, and the latest of some instants.                    *)
LEMMA TimesAreNat == ASSUME Configured PROVE Times \subseteq Nat
  BY DEF Configured, Times

LEMMA DaysAreInt ==
    ASSUME Configured, NEW t \in Nat
    PROVE  /\ MarketDay(t) \in Int /\ 0 <= MarketDay(t)
           /\ UtcDate(t) \in Int /\ (t + UtcShift) % DayLen \in Int
  BY DEF Configured, MarketDay, UtcDate

(* An id names one instant of its symbol.                                  *)
LEMMA OneInstant ==
    ASSUME Configured, NEW s, NEW t \in Nat, NEW u \in Nat, Identity(s, t) = Identity(s, u)
    PROVE  t = u
<1>1. /\ (t + UtcShift) \div DayLen = (u + UtcShift) \div DayLen
      /\ (t + UtcShift) % DayLen = (u + UtcShift) % DayLen
  BY DEF Identity, UtcDate
<1>2. ASSUME NEW a \in Nat PROVE a = DayLen * (a \div DayLen) + (a % DayLen)
  BY DEF Configured
<1>3. /\ t + UtcShift = DayLen * ((t + UtcShift) \div DayLen) + ((t + UtcShift) % DayLen)
      /\ u + UtcShift = DayLen * ((u + UtcShift) \div DayLen) + ((u + UtcShift) % DayLen)
  BY <1>2 DEF Configured
<1>4. t + UtcShift = u + UtcShift BY <1>1, <1>3, Zenon
<1> QED BY <1>4 DEF Configured

LEMMA IdentIs ==
    ASSUME Configured, NEW s \in Symbols, NEW t \in Times
    PROVE  Identity(s, t) \in Ident /\ Identity(s, t).symbol = s
  BY DaysAreInt, TimesAreNat DEF Identity, Ident

LEMMA LatestIs ==
    ASSUME NEW a \in Int, NEW b \in Int, NEW c \in Int
    PROVE  /\ Latest({a, b, c}) \in {a, b, c}
           /\ \A u \in {a, b, c} : u <= Latest({a, b, c})
<1>1. \E m \in {a, b, c} : \A u \in {a, b, c} : u <= m
  <2>1. CASE a <= b /\ b <= c BY <2>1
  <2>2. CASE a <= b /\ c <= b BY <2>2
  <2>3. CASE b <= a /\ a <= c BY <2>3
  <2>4. CASE b <= a /\ c <= a BY <2>4
  <2> QED BY <2>1, <2>2, <2>3, <2>4
<1> QED BY <1>1, Zenon DEF Latest

-----------------------------------------------------------------------------
(* What ends: the closures of one step and what they say.                  *)
Closes(n, r) ==
    /\ n \in Closure /\ n.openedAt = open[n.symbol].openedAt /\ n.observedAt = r
    /\ n.symbol \in emitted => lastRanked <= n.closedAt

Ends(gone, closes, r) ==
    /\ gone \subseteq Opened
    /\ IsFiniteSet(closes) /\ Cardinality(closes) <= Cardinality(gone)
    /\ \A n \in closes : n.symbol \in gone /\ Closes(n, r)
    /\ \A s \in gone : \E n \in closes : n.symbol = s
    /\ \A m, n \in closes : m.symbol = n.symbol => m = n

LEMMA NoticeCloses ==
    ASSUME Configured, Typed, Waiting, NEW s \in Opened, NEW t \in Nat,
           NEW reason \in Reasons, NEW r \in Times
    PROVE  Notice(s, t, reason, r).symbol = s /\ Closes(Notice(s, t, reason, r), r)
<1> DEFINE o == open[s].openedAt
           n == Notice(s, t, reason, r)
           l == IF s \in emitted THEN lastRanked ELSE o
<1>1. s \in Symbols /\ o \in Times /\ o \in Nat
  BY TimesAreNat DEF Typed, Opened, IsOpen, Opportunity
<1>2. l \in Nat
  BY <1>1, TimesAreNat DEF Typed, Waiting, Instants
<1>3. {t, o} \cup (IF s \in emitted THEN {lastRanked} ELSE {}) = {t, o, l} OBVIOUS
<1>4. ClosedAt(s, t) = Latest({t, o, l}) BY <1>3 DEF ClosedAt
<1>5. ClosedAt(s, t) \in Nat /\ l <= ClosedAt(s, t)
  <2> HIDE DEF l, o
  <2>1. t \in Int /\ o \in Int /\ l \in Int BY <1>1, <1>2
  <2>2. Latest({t, o, l}) \in {t, o, l} /\ l <= Latest({t, o, l}) BY <2>1, LatestIs
  <2> QED BY <1>1, <1>2, <1>4, <2>2
<1>6. n = [symbol |-> s, openedAt |-> o, closedAt |-> ClosedAt(s, t), observedAt |-> r, reason |-> reason]
  BY DEF Notice
<1>7. n \in Closure
  <2> HIDE DEF n, o
  <2> QED BY <1>1, <1>5, <1>6 DEF Closure
<1> QED BY <1>5, <1>6, <1>7 DEF Closes

(* The image of a finite set under a function.                             *)
LEMMA ImageOf ==
    ASSUME NEW S, IsFiniteSet(S), NEW f
    PROVE  /\ IsFiniteSet({f[x] : x \in S})
           /\ Cardinality({f[x] : x \in S}) <= Cardinality(S)
           /\ (\A x, y \in S : f[x] = f[y] => x = y)
                  => Cardinality({f[x] : x \in S}) = Cardinality(S)
<1> DEFINE T == {f[x] : x \in S}
           g == [x \in S |-> f[x]]
<1>1. g \in Surjection(S, T) BY DEF Surjection
<1>2. (\A x, y \in S : f[x] = f[y] => x = y) => g \in Injection(S, T) BY DEF Injection, IsInjective
<1> HIDE DEF g, T
<1>3. IsFiniteSet(T) /\ Cardinality(T) <= Cardinality(S)
      /\ (g \in Injection(S, T) => Cardinality(T) = Cardinality(S))
  BY <1>1, FS_Surjection
<1> QED BY <1>2, <1>3 DEF T

LEMMA EndsOf ==
    ASSUME Configured, NEW gone \in SUBSET Opened, NEW f, NEW r,
           \A s \in gone : f[s].symbol = s /\ Closes(f[s], r)
    PROVE  Ends(gone, {f[s] : s \in gone}, r)
<1>1. IsFiniteSet(gone) BY FS_Subset DEF Configured, Opened
<1>2. /\ IsFiniteSet({f[s] : s \in gone})
      /\ Cardinality({f[s] : s \in gone}) <= Cardinality(gone)
  BY <1>1, ImageOf
<1> QED BY <1>2 DEF Ends

LEMMA ExpiryCloses ==
    ASSUME Configured, Typed, Waiting, NEW r \in Times, NEW s \in Opened
    PROVE  ExpiryNotice(s, r).symbol = s /\ Closes(ExpiryNotice(s, r), r)
<1>1. open[s].since \in Nat /\ open[s].since + Quiet \in Nat
  BY TimesAreNat DEF Typed, Opened, IsOpen, Opportunity, Configured
<1>2. "session_boundary" \in Reasons /\ Silence(s) \in Reasons BY DEF Reasons, Silence
<1>3. CASE Day(open[s].openedAt) # Day(r)
  <2>1. ExpiryNotice(s, r) = Notice(s, open[s].since, "session_boundary", r)
    BY <1>3 DEF ExpiryNotice
  <2> QED BY <1>1, <1>2, <2>1, NoticeCloses
<1>4. CASE Day(open[s].openedAt) = Day(r)
  <2>1. ExpiryNotice(s, r) = Notice(s, open[s].since + Quiet, Silence(s), r)
    BY <1>4 DEF ExpiryNotice
  <2> QED BY <1>1, <1>2, <2>1, NoticeCloses
<1> QED BY <1>3, <1>4

-----------------------------------------------------------------------------
(* What one event does to the opportunities.                               *)
EventSet == [symbol : Symbols, at : Times, kind : Kinds, holds : BOOLEAN, priced : BOOLEAN]

\* Those that end were open; what goes on is open and does not end; what
\* opens is of a symbol that has nothing open any more.
Sound(e, gone, stays, opens) ==
    /\ e \in EventSet /\ gone \subseteq Opened
    /\ stays \in BOOLEAN /\ opens \in BOOLEAN
    /\ stays => e.symbol \in Opened \ gone
    /\ opens => e.symbol \notin Opened \ gone

\* What stays open keeps its opening; what opens has an id, of move-v1 a new one.
Keeps(gone) ==
    /\ open' \in [Symbols -> Opportunity \cup {None}]
    /\ minted \subseteq minted'
    /\ \A u \in Opened \ gone : open'[u] # None /\ open'[u].openedAt = open[u].openedAt
    /\ \A u \in Symbols : u \in gone \/ u \notin Opened =>
           \/ open'[u] = None
           \/ /\ Identity(u, open'[u].openedAt) \in minted'
              /\ lifecycle = Move => Identity(u, open'[u].openedAt) \notin minted

LEMMA SinceIs ==
    ASSUME Configured, Typed, NEW e \in EventSet, e.symbol \in Opened
    PROVE  Since(e) \in Times /\ Since(e) \in {open[e.symbol].since, e.at}
<1> DEFINE was == open[e.symbol].since
<1>1. was \in Times /\ e.at \in Times
  BY DEF Typed, Opened, IsOpen, Opportunity, EventSet
<1>2. Latest({was, e.at}) \in {was, e.at}
  <2> HIDE DEF was
  <2>1. was \in Int /\ e.at \in Int /\ {was, e.at} = {was, e.at, e.at} BY <1>1, TimesAreNat
  <2>2. Latest({was, e.at, e.at}) \in {was, e.at, e.at} BY <2>1, LatestIs
  <2> QED BY <2>1, <2>2
<1> QED BY <1>1, <1>2 DEF Since

(* The opportunity of each symbol after the event.                         *)
LEMMA OpenAfter ==
    ASSUME Configured, Typed, NEW e, NEW gone, NEW stays, NEW opens,
           Sound(e, gone, stays, opens), Opportunities(e, gone, stays, opens)
    PROVE  /\ \A u \in Symbols \ {e.symbol} : open'[u] = IF u \in gone THEN None ELSE open[u]
           /\ open'[e.symbol] = IF opens THEN Fresh(e) ELSE IF stays THEN Recorded(e)
                                ELSE IF e.symbol \in gone THEN None ELSE open[e.symbol]
           /\ Fresh(e) \in Opportunity /\ stays => Recorded(e) \in Opportunity
           /\ open' \in [Symbols -> Opportunity \cup {None}]
           /\ Opened' = (Opened \ gone) \cup (IF opens THEN {e.symbol} ELSE {})
<1>1. e.symbol \in Symbols /\ e.at \in Times BY DEF Sound, EventSet
<1>2. open' = [u \in Symbols |->
           IF u # e.symbol THEN IF u \in gone THEN None ELSE open[u]
           ELSE IF opens THEN Fresh(e)
           ELSE IF stays THEN Recorded(e)
           ELSE IF u \in gone THEN None ELSE open[u]]
  BY DEF Opportunities
<1>3. Fresh(e) \in Opportunity BY <1>1 DEF Fresh, Opportunity
<1>4. ASSUME stays PROVE Recorded(e) \in Opportunity
  <2>1. e.symbol \in Opened /\ e \in EventSet BY <1>4 DEF Sound
  <2>2. open[e.symbol] \in Opportunity BY <2>1 DEF Typed, Opened, IsOpen
  <2>3. Since(e) \in Times BY <2>1, SinceIs
  <2> QED BY <2>2, <2>3 DEF Recorded, Opportunity
<1>5. \A u \in Symbols : open[u] \in Opportunity \cup {None} BY DEF Typed
<1>6. None \notin Opportunity BY DEF Configured
<1> HIDE DEF Opportunity, Fresh, Recorded
<1>7. open' \in [Symbols -> Opportunity \cup {None}] BY <1>2, <1>3, <1>4, <1>5
<1>8. ASSUME NEW u \in Symbols
      PROVE  open'[u] # None <=> u \in (Opened \ gone) \cup (IF opens THEN {e.symbol} ELSE {})
  <2>1. CASE u # e.symbol BY <1>2, <2>1 DEF Opened, IsOpen
  <2>2. CASE u = e.symbol
    BY <1>2, <1>3, <1>4, <1>5, <1>6, <2>2 DEF Opened, IsOpen, Sound
  <2> QED BY <2>1, <2>2
<1>9. Opened' = (Opened \ gone) \cup (IF opens THEN {e.symbol} ELSE {})
  BY <1>1, <1>8 DEF Opened, IsOpen
<1> QED BY <1>1, <1>2, <1>3, <1>4, <1>7, <1>9

LEMMA EventKeeps ==
    ASSUME Configured, Typed, NEW e, NEW gone, NEW stays, NEW opens,
           Sound(e, gone, stays, opens), Opportunities(e, gone, stays, opens),
           opens /\ lifecycle = Move => Identity(e.symbol, e.at) \notin minted
    PROVE  Keeps(gone)
<1>1. minted \subseteq minted' /\ (opens => Identity(e.symbol, e.at) \in minted')
  BY DEF Opportunities
<1>2. Fresh(e).openedAt = e.at BY DEF Fresh
<1>3. ASSUME NEW u \in Opened \ gone
      PROVE  open'[u] # None /\ open'[u].openedAt = open[u].openedAt
  <2>1. u \in Symbols /\ open[u] # None BY DEF Opened, IsOpen
  <2>2. open'[u] # None BY <2>1, OpenAfter DEF Opened, IsOpen
  <2>3. stays => Recorded(e).openedAt = open[e.symbol].openedAt
    <3> SUFFICES ASSUME stays PROVE Recorded(e).openedAt = open[e.symbol].openedAt OBVIOUS
    <3>1. open[e.symbol] \in Opportunity BY DEF Sound, Opened, IsOpen, Typed
    <3> QED BY <3>1 DEF Recorded, Opportunity
  <2>4. u = e.symbol => ~opens BY DEF Sound
  <2> QED BY <2>1, <2>2, <2>3, <2>4, OpenAfter
<1>4. ASSUME NEW u \in Symbols, u \in gone \/ u \notin Opened
      PROVE  open'[u] = None \/ (opens /\ u = e.symbol /\ open'[u] = Fresh(e))
  <2>1. u = e.symbol => ~stays BY <1>4 DEF Sound
  <2>2. u \notin Opened => open[u] = None BY DEF Opened, IsOpen
  <2> QED BY <1>4, <2>1, <2>2, OpenAfter
<1>5. open' \in [Symbols -> Opportunity \cup {None}] BY OpenAfter
<1> QED BY <1>1, <1>2, <1>3, <1>4, <1>5 DEF Keeps

(* The index has the opportunities that are open after the event.          *)
LEMMA EventIndexes ==
    ASSUME Configured, Typed, IndexInStep, NEW e, NEW gone, NEW stays, NEW opens,
           Sound(e, gone, stays, opens), Opportunities(e, gone, stays, opens)
    PROVE  IndexInStep'
<1> DEFINE left == (Opened \ gone) \ {e.symbol}
           new == IF opens THEN {<<e.at, e.symbol>>}
                  ELSE IF stays THEN {<<Since(e), e.symbol>>}
                  ELSE IF e.symbol \in Opened \ gone THEN {Key(e.symbol)} ELSE {}
<1>1. gone \subseteq Opened /\ (stays => e.symbol \in Opened \ gone)
      /\ (opens => e.symbol \notin Opened \ gone) /\ e.symbol \in Symbols
  BY DEF Sound, EventSet
<1>2. byLastSeen = {Key(u) : u \in Opened} BY DEF IndexInStep, Opened
<1>6. open'[e.symbol] = IF opens THEN Fresh(e) ELSE IF stays THEN Recorded(e)
                        ELSE IF e.symbol \in gone THEN None ELSE open[e.symbol]
  BY OpenAfter
<1>3. \A u, w : Key(u) = Key(w) => u = w BY DEF Key
<1>4. byLastSeen' = {Key(u) : u \in left} \cup new
  <2>1. byLastSeen' =
           (byLastSeen \ {Key(u) : u \in gone \cup IF stays THEN {e.symbol} ELSE {}})
           \cup (IF stays THEN {<<Since(e), e.symbol>>} ELSE {})
           \cup (IF opens THEN {<<e.at, e.symbol>>} ELSE {})
    BY DEF Opportunities
  <2>2. byLastSeen \ {Key(u) : u \in gone \cup IF stays THEN {e.symbol} ELSE {}}
           = {Key(u) : u \in Opened \ (gone \cup IF stays THEN {e.symbol} ELSE {})}
    BY <1>1, <1>2, <1>3
  <2>3. Opened \ (gone \cup IF stays THEN {e.symbol} ELSE {})
           = left \cup (IF ~stays /\ e.symbol \in Opened \ gone THEN {e.symbol} ELSE {})
    OBVIOUS
  <2> QED BY <1>1, <2>1, <2>2, <2>3
<1>5. {Key(u)' : u \in Opened'} = {Key(u) : u \in left} \cup new
  <2>1. Opened' = left \cup (IF opens \/ e.symbol \in Opened \ gone THEN {e.symbol} ELSE {})
    BY <1>1, OpenAfter
  <2>2. ASSUME NEW u \in left PROVE Key(u)' = Key(u)
    <3>1. u \in Symbols \ {e.symbol} /\ u \notin gone BY DEF Opened
    <3> QED BY <3>1, OpenAfter DEF Key
  <2>3. ASSUME opens \/ e.symbol \in Opened \ gone PROVE new = {Key(e.symbol)'}
    <3>1. CASE opens
      <4>1. open'[e.symbol].since = e.at BY <1>6, <3>1 DEF Fresh
      <4> QED BY <3>1, <4>1 DEF Key
    <3>2. CASE ~opens /\ stays
      <4>1. open[e.symbol] \in Opportunity BY <1>1, <3>2 DEF Opened, IsOpen, Typed
      <4>2. open'[e.symbol] = Recorded(e) BY <1>6, <3>2
      <4>3. open'[e.symbol].since = Since(e) BY <4>1, <4>2 DEF Recorded, Opportunity
      <4> QED BY <3>2, <4>3 DEF Key
    <3>3. CASE ~opens /\ ~stays
      <4>1. open'[e.symbol] = open[e.symbol] BY <1>6, <2>3, <3>3
      <4> QED BY <2>3, <3>3, <4>1 DEF Key
    <3> QED BY <3>1, <3>2, <3>3
  <2>4. ~(opens \/ e.symbol \in Opened \ gone) => new = {} BY <1>1
  <2> HIDE DEF left, new
  <2> QED BY <2>1, <2>2, <2>3, <2>4
<1> QED BY <1>4, <1>5 DEF IndexInStep, Opened

-----------------------------------------------------------------------------
(* The bound on what is open: when it is reached, the one least recently   *)
(* relevant makes room.                                                    *)
LEMMA LeastNat ==
    ASSUME NEW S, S \subseteq Nat, S # {}
    PROVE  \E x \in S : \A y \in S : x <= y
<1>1. PICK x \in S : \A y \in S : ~(<<y, x>> \in OpToRel(<, Nat))
  BY NatLessThanWellFounded, WFMin, Zenon
<1>2. \A y \in S : ~(y < x)
  BY <1>1 DEF OpToRel
<1> QED BY <1>2, SMT

LEMMA VictimExists ==
    ASSUME Configured, Typed, NEW left \in SUBSET Opened, left # {}
    PROVE  \E s \in left : \A t \in left : Before(Key(s), Key(t))
<1> DEFINE since(s) == open[s].since
           S == {since(s) : s \in left}
<1>1. \A s \in left : s \in Nat /\ since(s) \in Nat
  BY TimesAreNat DEF Opened, IsOpen, Typed, Opportunity, Configured
<1>2. \A s \in left : Key(s) = <<since(s), s>> BY DEF Key
<1> HIDE DEF since
<1>6. S \subseteq Nat /\ S # {} BY <1>1
<1>3. PICK m \in S : \A y \in S : m <= y BY <1>6, LeastNat
<1> DEFINE T == {s \in left : since(s) = m}
<1>7. T \subseteq Nat /\ T # {} BY <1>1, <1>3
<1>4. PICK s \in T : \A t \in T : s <= t BY <1>7, LeastNat
<1>5. ASSUME NEW t \in left PROVE Before(<<since(s), s>>, <<since(t), t>>)
  <2>1. m <= since(t) /\ since(s) = m BY <1>3, <1>4
  <2>2. since(t) = m => s <= t BY <1>4
  <2> QED BY <1>1, <1>4, <2>1, <2>2 DEF Before
<1> QED BY <1>2, <1>4, <1>5

LEMMA MakesRoom ==
    ASSUME Configured, Typed, OpenedAreAccounted, NEW left \in SUBSET Opened, Bound # 0
    PROVE  /\ Victims(left) \subseteq left
           /\ IsFiniteSet(left \ Victims(left))
           /\ Cardinality(left \ Victims(left)) < Bound
<1>1. IsFiniteSet(Opened) BY FS_Subset DEF Opened, Configured
<1>2. IsFiniteSet(left) /\ Cardinality(left) <= Cardinality(Opened) BY <1>1, FS_Subset
<1>3. Cardinality(Opened) <= Bound BY DEF OpenedAreAccounted, Opened
<1>4. Cardinality(left) \in Nat /\ Cardinality(Opened) \in Nat /\ Bound \in Nat
  BY <1>1, <1>2, FS_CardinalityType DEF Configured
<1>5. Victims(left) \subseteq left BY DEF Victims
<1>6. CASE Cardinality(left) < Bound
  <2>1. Victims(left) = {} BY <1>4, <1>6 DEF Victims
  <2> QED BY <1>2, <1>5, <1>6, <2>1
<1>7. CASE Cardinality(left) >= Bound
  <2>1. left # {} BY <1>4, <1>7, FS_EmptySet
  <2>2. PICK v \in left : \A t \in left : Before(Key(v), Key(t)) BY <2>1, VictimExists
  <2>3. v \in Victims(left) BY <1>7, <2>2 DEF Victims
  <2>4. IsFiniteSet(left \ {v}) /\ Cardinality(left \ {v}) = Cardinality(left) - 1
    BY <1>2, FS_RemoveElement
  <2>5. left \ Victims(left) \in SUBSET (left \ {v}) BY <2>3
  <2>6. /\ IsFiniteSet(left \ Victims(left))
        /\ Cardinality(left \ Victims(left)) <= Cardinality(left \ {v})
    BY <2>4, <2>5, FS_Subset
  <2>7. Cardinality(left \ Victims(left)) \in Nat BY <2>6, FS_CardinalityType
  <2> QED BY <1>2, <1>3, <1>4, <1>5, <2>4, <2>6, <2>7
<1> QED BY <1>4, <1>6, <1>7

(* Opened and closed add up after the event.                               *)
LEMMA EventCounts ==
    ASSUME Configured, Typed, OpenedAreAccounted, NEW e, NEW gone, NEW stays, NEW opens,
           Sound(e, gone, stays, opens), Opportunities(e, gone, stays, opens),
           opens /\ Bound # 0 => Cardinality(Opened \ gone) < Bound
    PROVE  /\ opened' \in Nat /\ closed' = closed + Cardinality(gone)
           /\ Cardinality(gone) \in Nat
           /\ opened' = Cardinality(Opened') + closed'
           /\ Bound # 0 => Cardinality(Opened') <= Bound
<1>1. IsFiniteSet(Opened) BY FS_Subset DEF Opened, Configured
<1>2. gone \in SUBSET Opened BY DEF Sound
<1>3. IsFiniteSet(gone) /\ IsFiniteSet(Opened \ gone) BY <1>1, <1>2, FS_Subset
<1>4. /\ Cardinality(gone) \in Nat /\ Cardinality(Opened \ gone) \in Nat
      /\ Cardinality(Opened) \in Nat
  BY <1>1, <1>3, FS_CardinalityType
<1>5. Cardinality(Opened \ gone) = Cardinality(Opened) - Cardinality(gone)
  <2>1. Opened \cap gone = gone BY <1>2
  <2> QED BY <1>1, <2>1, FS_Difference
<1>6. /\ closed' = closed + Cardinality(gone)
      /\ opened' = opened + IF opens THEN 1 ELSE 0
  BY DEF Opportunities
<1>7. Cardinality(Opened') = Cardinality(Opened \ gone) + IF opens THEN 1 ELSE 0
  <2>1. CASE opens
    <3>1. Opened' = (Opened \ gone) \cup {e.symbol} /\ e.symbol \notin Opened \ gone
      BY <2>1, OpenAfter DEF Sound
    <3> QED BY <1>3, <2>1, <3>1, FS_AddElement
  <2>2. CASE ~opens
    <3>1. Opened' = Opened \ gone BY <2>2, OpenAfter
    <3> QED BY <1>4, <2>2, <3>1
  <2> QED BY <2>1, <2>2
<1>8. opened = Cardinality(Opened) + closed /\ (Bound # 0 => Cardinality(Opened) <= Bound)
  BY DEF OpenedAreAccounted, Opened
<1>9. opened \in Nat /\ closed \in Nat /\ Bound \in Nat BY DEF Typed, Configured
<1> QED BY <1>4, <1>5, <1>6, <1>7, <1>8, <1>9

-----------------------------------------------------------------------------
(* Days and ids.                                                           *)

(* The edge state of each symbol after the event.                          *)
LEMMA EdgesAre ==
    ASSUME Configured, Typed, NEW e \in EventSet, NEW vacant \in BOOLEAN,
           edges' = EdgesAfter(e, vacant)
    PROVE  /\ edges' \in [Symbols -> EdgeState]
           /\ \A u \in Symbols : u # e.symbol \/ Late(e) => edges'[u] = edges[u]
           /\ lifecycle = Move /\ ~Late(e) =>
                /\ edges'[e.symbol].latest = MarketDay(e.at)
                /\ edges'[e.symbol].issuedDay =
                     IF vacant THEN MarketDay(e.at) ELSE edges[e.symbol].issuedDay
                /\ edges'[e.symbol].issued =
                     IF vacant THEN Issued(e) \cup {Identity(e.symbol, e.at)}
                     ELSE edges[e.symbol].issued
<1> DEFINE s == e.symbol
           day == MarketDay(e.at)
<1>1. s \in Symbols /\ e.at \in Times /\ e.kind \in Kinds /\ e.holds \in BOOLEAN
  BY DEF EventSet
<1>2. edges[s] \in EdgeState BY <1>1 DEF Typed
<1>3. day \in Int /\ Identity(s, e.at) \in Ident BY <1>1, TimesAreNat, DaysAreInt, IdentIs
<1>4. Issued(e) \in SUBSET Ident BY <1>2 DEF Issued, EdgeState
<1>5. CASE lifecycle = SymbolActivity \/ Late(e)
  <2>1. edges' = edges BY <1>5 DEF EdgesAfter
  <2> QED BY <1>5, <2>1 DEF Typed, Move, SymbolActivity
<1>6. CASE ~(lifecycle = SymbolActivity \/ Late(e))
  <2> DEFINE level(kind, held) ==
                 IF e.kind = kind THEN e.holds
                 ELSE IF e.kind \in Levels THEN edges[s].day = day /\ held ELSE held
             funnel == level("funnel", edges[s].funnel)
             momentum == level("momentum", edges[s].momentum)
  <2>1. edges' = [edges EXCEPT ![s] =
               [latest |-> day,
                day |-> IF e.kind \in Levels THEN day ELSE edges[s].day,
                funnel |-> funnel, momentum |-> momentum,
                issuedDay |-> IF vacant THEN day ELSE edges[s].issuedDay,
                issued |-> IF vacant THEN Issued(e) \cup {Identity(s, e.at)}
                           ELSE edges[s].issued]]
    BY <1>6 DEF EdgesAfter
  <2>6. funnel \in BOOLEAN /\ momentum \in BOOLEAN BY <1>1, <1>2 DEF EdgeState
  <2> HIDE DEF funnel, momentum
  <2> HIDE DEF s, day
  <2>2. edges'[s] = [latest |-> day,
                day |-> IF e.kind \in Levels THEN day ELSE edges[s].day,
                funnel |-> funnel, momentum |-> momentum,
                issuedDay |-> IF vacant THEN day ELSE edges[s].issuedDay,
                issued |-> IF vacant THEN Issued(e) \cup {Identity(s, e.at)}
                           ELSE edges[s].issued]
    BY <1>1, <2>1 DEF Typed
  <2>3. edges'[s] \in EdgeState BY <1>2, <1>3, <1>4, <2>2, <2>6 DEF EdgeState
  <2>4. \A u \in Symbols : u # s => edges'[u] = edges[u] BY <2>1 DEF Typed
  <2>5. edges' \in [Symbols -> EdgeState]
    <3>1. edges' = [u \in Symbols |-> edges'[u]] BY <2>1 DEF Typed
    <3>2. \A u \in Symbols : edges'[u] \in EdgeState BY <2>3, <2>4 DEF Typed
    <3> QED BY <3>1, <3>2
  <2> QED BY <1>6, <2>2, <2>4, <2>5 DEF s, day
<1> QED BY <1>5, <1>6

(* Move-v1 issues no id a second time.                                     *)
LEMMA OpensANewId ==
    ASSUME Configured, Typed, Remembered, NEW e \in EventSet, lifecycle = Move,
           ~Late(e), ~Duplicate(e)
    PROVE  Identity(e.symbol, e.at) \notin minted
<1> SUFFICES ASSUME Identity(e.symbol, e.at) \in minted PROVE FALSE OBVIOUS
<1> DEFINE m == Identity(e.symbol, e.at)
           d == edges[e.symbol]
<1>1. e.symbol \in Symbols /\ e.at \in Times /\ m.symbol = e.symbol
  BY IdentIs DEF EventSet
<1>2. PICK t \in Times : /\ m = Identity(e.symbol, t)
                         /\ \/ MarketDay(t) < d.issuedDay
                            \/ MarketDay(t) = d.issuedDay /\ m \in d.issued
  BY <1>1 DEF Remembered, Issue
<1>3. t = e.at BY <1>1, <1>2, OneInstant, TimesAreNat
<1>4. d.issuedDay \in Int /\ d.latest \in Int /\ d.issuedDay <= d.latest
      /\ MarketDay(e.at) \in Int
  BY <1>1, DaysAreInt, TimesAreNat DEF Typed, EdgeState, Remembered
<1>5. d.latest <= MarketDay(e.at) BY <1>4 DEF Late
<1> HIDE DEF m, d
<1>6. MarketDay(e.at) = d.issuedDay /\ m \in d.issued BY <1>2, <1>3, <1>4, <1>5
<1> QED BY <1>6 DEF Duplicate, Issued, m, d

(* A move stays in the day it opened in.                                   *)
LEMMA EventStaysInDay ==
    ASSUME Configured, Typed, WithinTheDay, NEW e, NEW due, NEW gone, NEW stays, NEW opens,
           NEW vacant \in BOOLEAN, opens => vacant, vacant => Vacant(e, due),
           stays = Stays(e, due), due \subseteq gone, Crosses(e, due) => e.symbol \in gone,
           Sound(e, gone, stays, opens), Opportunities(e, gone, stays, opens),
           edges' = EdgesAfter(e, vacant), lifecycle' = lifecycle
    PROVE  WithinTheDay'
<1> SUFFICES ASSUME lifecycle = Move, NEW u \in Symbols, open'[u] # None
             PROVE  /\ MarketDay(open'[u].openedAt) = edges'[u].latest
                    /\ MarketDay(open'[u].since) = edges'[u].latest
  BY DEF WithinTheDay, IsOpen
<1>0. e \in EventSet /\ e.symbol \in Symbols /\ e.at \in Times BY DEF Sound, EventSet
<1>5. open'[e.symbol] = IF opens THEN Fresh(e) ELSE IF stays THEN Recorded(e)
                        ELSE IF e.symbol \in gone THEN None ELSE open[e.symbol]
  BY OpenAfter
<1>1. open[u] # None =>
          /\ MarketDay(open[u].openedAt) = edges[u].latest
          /\ MarketDay(open[u].since) = edges[u].latest
  BY DEF WithinTheDay, IsOpen
<1>2. CASE u # e.symbol
  <2>1. edges'[u] = edges[u] BY <1>0, <1>2, EdgesAre
  <2>2. open'[u] = open[u] BY <1>2, OpenAfter
  <2> QED BY <1>1, <2>1, <2>2
<1>3. CASE u = e.symbol /\ Late(e)
  <2>1. ~opens /\ ~stays BY <1>3 DEF Vacant, Stays
  <2>2. edges'[u] = edges[u] BY <1>0, <1>3, EdgesAre
  <2>3. open'[e.symbol] = IF e.symbol \in gone THEN None ELSE open[e.symbol]
    BY <1>5, <2>1
  <2> QED BY <1>1, <1>3, <2>2, <2>3
<1>4. CASE u = e.symbol /\ ~Late(e)
  <2>1. edges'[u].latest = MarketDay(e.at) BY <1>0, <1>4, EdgesAre
  <2>2. CASE opens
    <3>1. open'[e.symbol] = Fresh(e) BY <1>5, <2>2
    <3> QED BY <1>4, <2>1, <3>1 DEF Fresh
  <2>3. CASE stays /\ ~opens
    <3>1. open'[e.symbol] = Recorded(e) BY <1>5, <2>3
    <3>2. e.symbol \in Opened /\ open[e.symbol] # None /\ open[e.symbol] \in Opportunity
      BY <2>3 DEF Sound, Opened, IsOpen, Typed
    <3>3. open'[u].openedAt = open[u].openedAt /\ open'[u].since = Since(e)
      BY <1>4, <3>1, <3>2 DEF Recorded, Opportunity
    <3>4. Since(e) \in {open[u].since, e.at} BY <1>0, <1>4, <3>2, SinceIs
    <3>5. ~(Day(e.at) > Day(open[e.symbol].openedAt))
      BY <1>4, <2>3, <3>2 DEF Stays, Crosses, IsOpen
    <3>6. MarketDay(e.at) \in Int /\ edges[u].latest \in Int
      BY <1>0, DaysAreInt, TimesAreNat DEF Typed, EdgeState
    <3>7. edges[u].latest <= MarketDay(e.at) BY <1>4, <3>6 DEF Late
    <3>8. MarketDay(e.at) = edges[u].latest
      BY <1>1, <1>4, <3>2, <3>5, <3>6, <3>7 DEF Day
    <3> QED BY <1>1, <1>4, <2>1, <3>2, <3>3, <3>4, <3>8
  <2>4. CASE ~stays /\ ~opens
    <3>1. e.symbol \in Opened => e.symbol \in gone
      BY <1>4, <2>4 DEF Stays, Opened, IsOpen
    <3>2. open'[e.symbol] = IF e.symbol \in gone THEN None ELSE open[e.symbol]
      BY <1>5, <2>4
    <3> QED BY <1>0, <1>4, <3>1, <3>2 DEF Opened, IsOpen
  <2> QED BY <2>2, <2>3, <2>4
<1> QED BY <1>2, <1>3, <1>4

(* What was issued stays remembered, and what is issued now is.            *)
LEMMA EventRemembers ==
    ASSUME Configured, Typed, Remembered, NEW e \in EventSet, NEW vacant \in BOOLEAN, NEW opens,
           opens => vacant, vacant => ~Late(e), lifecycle = Move,
           edges' = EdgesAfter(e, vacant),
           minted' = minted \cup IF opens THEN {Identity(e.symbol, e.at)} ELSE {}
    PROVE  /\ \A u \in Symbols : edges'[u].issuedDay <= edges'[u].latest
           /\ \A m \in minted' : Issue(m)'
<1> DEFINE s == e.symbol
           day == MarketDay(e.at)
           id == Identity(s, e.at)
<1>1. s \in Symbols /\ e.at \in Times /\ id \in Ident /\ id.symbol = s
  BY IdentIs DEF EventSet
<1>2. \A u \in Symbols : u # s \/ Late(e) => edges'[u] = edges[u] BY EdgesAre
<1>3. ~Late(e) =>
         /\ edges'[s].latest = day
         /\ edges'[s].issuedDay = IF vacant THEN day ELSE edges[s].issuedDay
         /\ edges'[s].issued = IF vacant THEN Issued(e) \cup {id} ELSE edges[s].issued
  BY EdgesAre
<1>4. day \in Int /\ edges[s].latest \in Int /\ edges[s].issuedDay \in Int
      /\ edges[s].issuedDay <= edges[s].latest
  BY <1>1, DaysAreInt, TimesAreNat DEF Typed, EdgeState, Remembered
<1>5. ~Late(e) => edges[s].latest <= day BY <1>4 DEF Late
<1>6. Issued(e) = IF edges[s].issuedDay = day THEN edges[s].issued ELSE {} BY DEF Issued
<1>7. ASSUME NEW u \in Symbols PROVE edges'[u].issuedDay <= edges'[u].latest
  <2>1. edges[u].issuedDay <= edges[u].latest BY DEF Remembered
  <2> HIDE DEF s, day, id
  <2> QED BY <1>2, <1>3, <1>4, <1>5, <2>1
<1>8. ASSUME NEW m \in minted' PROVE Issue(m)'
  <2>1. CASE m \in minted
    <3>1. m.symbol \in Symbols BY <2>1 DEF Typed, Ident
    <3>2. PICK t \in Times : /\ m = Identity(m.symbol, t)
                             /\ \/ MarketDay(t) < edges[m.symbol].issuedDay
                                \/ /\ MarketDay(t) = edges[m.symbol].issuedDay
                                   /\ m \in edges[m.symbol].issued
      BY <2>1 DEF Remembered, Issue
    <3>3. MarketDay(t) \in Int BY DaysAreInt, TimesAreNat
    <3>4. \/ MarketDay(t) < edges'[m.symbol].issuedDay
          \/ MarketDay(t) = edges'[m.symbol].issuedDay /\ m \in edges'[m.symbol].issued
      <4>1. CASE m.symbol # s \/ Late(e) BY <1>2, <3>1, <3>2, <4>1
      <4>2. CASE m.symbol = s /\ ~Late(e) /\ ~vacant BY <1>3, <3>2, <4>2
      <4>3. CASE m.symbol = s /\ ~Late(e) /\ vacant
        <5> HIDE DEF s, day, id
        <5>1. edges'[s].issuedDay = day /\ edges'[s].issued = Issued(e) \cup {id}
          BY <1>3, <4>3
        <5>2. edges[s].issuedDay <= day BY <1>4, <1>5, <4>3
        <5>3. CASE edges[s].issuedDay = day BY <1>6, <3>2, <4>3, <5>1, <5>3
        <5>4. CASE edges[s].issuedDay < day
          <6>1. MarketDay(t) <= edges[s].issuedDay BY <1>4, <3>2, <3>3, <4>3
          <6>2. MarketDay(t) < day BY <1>4, <3>3, <5>4, <6>1
          <6> QED BY <4>3, <5>1, <6>2
        <5> QED BY <1>4, <5>2, <5>3, <5>4
      <4> QED BY <4>1, <4>2, <4>3
    <3> QED BY <3>2, <3>4 DEF Issue, Identity, UtcDate, MarketDay
  <2>2. CASE m \notin minted
    <3>1. opens /\ m = id /\ ~Late(e) /\ vacant BY <2>2
    <3>2. MarketDay(e.at) = edges'[m.symbol].issuedDay /\ m \in edges'[m.symbol].issued
      BY <1>1, <1>3, <3>1
    <3> QED BY <1>1, <3>1, <3>2 DEF Issue
  <2> QED BY <2>1, <2>2
<1> QED BY <1>7, <1>8

-----------------------------------------------------------------------------
(* What the collector has at hand in a step: the anchors that waited, as   *)
(* the closures mark them, and one for each opportunity that is ranked.    *)
Marks(closes) == {Marked(x, closes) : x \in outstanding}
Added(r) == {Anchor(s, Ranked(r), r) : s \in Ranked(r)}
AtHand(closes, r) == Marks(closes) \cup Added(r)
RowAnchors == {q.anchor : q \in rows}

\* What a step does to them, whoever ends and whatever is ranked.
Turns(gone, closes, r) ==
    /\ Ends(gone, closes, r) /\ Keeps(gone) /\ Later(r)
    /\ notices' = notices \cup closes /\ lifecycle' = lifecycle
    /\ outstanding' \subseteq AtHand(closes, r)
    /\ Anchors' = AtHand(closes, r) \cup RowAnchors
    /\ \A q \in rows' : q \in rows \/ q.anchor \in AtHand(closes, r)

\* What stays of an anchor when it is marked.
Same(x, y) == x.id = y.id /\ x.symbol = y.symbol /\ x.at = y.at /\ x.openedAt = y.openedAt

(* An anchor is marked by the closure of its opportunity, if that came     *)
(* before its deadline.                                                    *)
LEMMA MarkedIs ==
    ASSUME Configured, Typed, Waiting, Numbered, NoAnchorAfterClose,
           NEW gone, NEW closes, NEW r \in Times, Ends(gone, closes, r), NEW x \in outstanding
    PROVE  LET y == Marked(x, closes)
           IN  /\ y \in OutcomeAnchor /\ Same(x, y)
               /\ y.closedAt # None => y.at <= y.closedAt
               /\ y.disposition = "still_open" =>
                      /\ x.disposition = "still_open"
                      /\ x.symbol \in gone => x.at + Settle < r
               /\ \/ /\ y = x
                     /\ x.disposition = "still_open" =>
                            \A n \in closes : ~(Measures(x, n) /\ Visible(n, x.at))
                  \/ \E n \in closes : /\ Measures(x, n) /\ Visible(n, x.at)
                                       /\ x.disposition = "still_open"
                                       /\ y.disposition = n.reason
<1> DEFINE y == Marked(x, closes)
<1>1. /\ x \in OutcomeAnchor /\ x.id \in bySymbol[x.symbol] /\ x.symbol \in Symbols
      /\ x.at \in Nat /\ Settle \in Nat /\ r \in Nat
  <2>1. x \in OutcomeAnchor BY DEF Typed
  <2>2. x.symbol \in Symbols /\ x.at \in Times BY <2>1 DEF OutcomeAnchor
  <2>3. x.id \in bySymbol[x.symbol] BY <2>2 DEF Numbered, Ids
  <2> QED BY <2>1, <2>2, <2>3, TimesAreNat DEF Configured
<1>2. x.closedAt # None => x.at <= x.closedAt BY DEF NoAnchorAfterClose, Anchors
<1>3. \A n \in closes : /\ n \in Closure /\ n.symbol \in gone
                        /\ n.symbol \in emitted => lastRanked <= n.closedAt
                        /\ n.openedAt = open[n.symbol].openedAt /\ n.observedAt = r
  BY DEF Ends, Closes
<1>4. /\ lastRanked # None /\ lastRanked \in Nat /\ x.at <= lastRanked
      /\ x.disposition = "still_open" => /\ Ranks(x) /\ x.symbol \in emitted
  BY TimesAreNat DEF Waiting, Anchors, Typed, Instants
<1>5. \A n \in closes : Concerns(n, x) <=>
          Measures(x, n) /\ Visible(n, x.at) /\ x.disposition = "still_open"
  BY <1>1 DEF Concerns, Measures
<1>6. CASE \A n \in closes : ~Concerns(n, x)
  <2>1. y = x BY <1>6 DEF Marked
  <2>2. ASSUME x.disposition = "still_open", x.symbol \in gone PROVE x.at + Settle < r
    <3>1. PICK n \in closes : n.symbol = x.symbol BY <2>2 DEF Ends
    <3>2. Measures(x, n) BY <1>3, <1>4, <2>2, <3>1 DEF Measures, Ranks
    <3>3. ~Visible(n, x.at) BY <1>5, <1>6, <2>2, <3>2
    <3> QED BY <1>1, <1>3, <3>3 DEF Visible
  <2> QED BY <1>1, <1>2, <1>5, <1>6, <2>1, <2>2 DEF Same
<1>7. CASE \E n \in closes : Concerns(n, x)
  <2> DEFINE n == CHOOSE n \in closes : Concerns(n, x)
  <2>1. n \in closes /\ Concerns(n, x) BY <1>7, Zenon
  <2>2. y = [x EXCEPT !.disposition = n.reason, !.closedAt = n.closedAt]
    BY <1>7 DEF Marked
  <2> HIDE DEF n
  <2>3. /\ x.disposition = "still_open" /\ Measures(x, n) /\ Visible(n, x.at)
        /\ x.symbol \in emitted /\ n \in Closure
    BY <1>3, <1>4, <1>5, <2>1
  <2>4. lastRanked <= n.closedAt /\ n.closedAt \in Nat /\ n.reason \in Reasons
    BY <1>3, <2>1, <2>3 DEF Measures, Closure
  <2>5. x.at <= n.closedAt BY <1>1, <1>4, <2>4
  <2>6. /\ y \in OutcomeAnchor /\ Same(x, y)
        /\ y.disposition = n.reason /\ y.closedAt = n.closedAt
    <3> HIDE DEF y
    <3> QED BY <1>1, <2>2, <2>4 DEF OutcomeAnchor, Same
  <2>7. n.reason # "still_open" BY <2>4 DEF Reasons
  <2> HIDE DEF y
  <2>8. y.at = x.at BY <2>6 DEF Same
  <2> QED BY <2>1, <2>3, <2>5, <2>6, <2>7, <2>8 DEF y
<1> QED BY <1>6, <1>7

-----------------------------------------------------------------------------
(* A function that numbers a finite set of n elements below n, no two      *)
(* alike, uses every number below n.                                       *)
LEMMA ImageFills ==
    ASSUME NEW S, IsFiniteSet(S), NEW f, NEW n \in Nat, n = Cardinality(S),
           \A s \in S : f[s] \in 0..(n - 1),
           \A s, t \in S : f[s] = f[t] => s = t
    PROVE  {f[s] : s \in S} = 0..(n - 1)
<1>1. Cardinality({f[s] : s \in S}) = n BY ImageOf
<1>2. {f[s] : s \in S} \in SUBSET (0..(n - 1)) OBVIOUS
<1>3. IsFiniteSet(0..(n - 1)) /\ Cardinality(0..(n - 1)) = n
  <2>1. 0 \in Int /\ n - 1 \in Int OBVIOUS
  <2>2. /\ IsFiniteSet(0..(n - 1))
        /\ Cardinality(0..(n - 1)) = IF 0 > n - 1 THEN 0 ELSE (n - 1) - 0 + 1
    BY <2>1, FS_Interval
  <2> QED BY <2>2
<1>4. Cardinality(0..(n - 1)) = Cardinality({f[s] : s \in S}) BY <1>1, <1>3
<1> QED BY <1>2, <1>3, <1>4, FS_Subset

(* Counting what is less numbers the elements of a finite set of naturals. *)
LEMMA RankNumbers ==
    ASSUME NEW S, S \subseteq Nat, IsFiniteSet(S), NEW f,
           \A s \in S : f[s] = Cardinality({t \in S : t < s})
    PROVE  /\ \A s \in S : f[s] \in 0..(Cardinality(S) - 1)
           /\ \A s, t \in S : f[s] = f[t] => s = t
           /\ {f[s] : s \in S} = 0..(Cardinality(S) - 1)
<1> DEFINE below(s) == {t \in S : t < s}
           n == Cardinality(S)
<1>1. n \in Nat BY FS_CardinalityType
<1>2. ASSUME NEW s \in S
      PROVE  IsFiniteSet(below(s)) /\ f[s] = Cardinality(below(s)) /\ f[s] \in 0..(n - 1)
  <2>1. IsFiniteSet(below(s)) BY FS_Subset
  <2>2. IsFiniteSet(S \ {s}) /\ Cardinality(S \ {s}) = n - 1 BY FS_RemoveElement
  <2>3. below(s) \in SUBSET (S \ {s}) OBVIOUS
  <2>4. Cardinality(below(s)) <= n - 1 BY <2>2, <2>3, FS_Subset
  <2>5. Cardinality(below(s)) \in Nat BY <2>1, FS_CardinalityType
  <2>6. f[s] = Cardinality(below(s)) OBVIOUS
  <2> HIDE DEF below, n
  <2> QED BY <1>1, <2>1, <2>4, <2>5, <2>6
<1>3. ASSUME NEW s \in S, NEW t \in S, s < t PROVE f[s] # f[t]
  <2>0. s \in Nat /\ t \in Nat OBVIOUS
  <2>5. \A u \in S : u \in Nat /\ (u < s => u < t) BY <1>3, <2>0
  <2>6. s \notin below(s) BY <2>0
  <2>7. s \in below(t) BY <1>3
  <2>8. below(s) \subseteq below(t) BY <2>5
  <2> HIDE DEF below
  <2>1. s \notin below(s) /\ below(s) \cup {s} \in SUBSET below(t)
    BY <2>6, <2>7, <2>8
  <2>2. Cardinality(below(s) \cup {s}) = Cardinality(below(s)) + 1
    BY <1>2, <2>1, FS_AddElement
  <2>3. Cardinality(below(s) \cup {s}) <= Cardinality(below(t))
    BY <1>2, <2>1, FS_Subset
  <2>4. f[s] = Cardinality(below(s)) /\ f[t] = Cardinality(below(t)) /\ f[s] \in Nat
        /\ f[t] \in Nat
    BY <1>1, <1>2
  <2> HIDE DEF below, n
  <2> QED BY <2>2, <2>3, <2>4
<1> HIDE DEF below
<1>4. \A s, t \in S : f[s] = f[t] => s = t
  <2> SUFFICES ASSUME NEW s \in S, NEW t \in S, f[s] = f[t] PROVE s = t OBVIOUS
  <2>1. s \in Nat /\ t \in Nat OBVIOUS
  <2>2. ~(s < t) /\ ~(t < s) BY <1>3
  <2> QED BY <2>1, <2>2
<1>5. {f[s] : s \in S} = 0..(n - 1)
  <2>1. n = Cardinality(S) /\ IsFiniteSet(S) OBVIOUS
  <2> HIDE DEF n
  <2>2. \A s \in S : f[s] \in 0..(n - 1) BY <1>2
  <2> QED BY ONLY <1>1, <1>4, <2>1, <2>2, ImageFills
<1> QED BY <1>2, <1>4, <1>5

(* The anchors a ranking adds have the next numbers, one for each.         *)
LEMMA AddedAre ==
    ASSUME Configured, Typed, NEW r, Later(r), open' \in [Symbols -> Opportunity \cup {None}]
    PROVE  /\ IsFiniteSet(Added(r)) /\ Added(r) \subseteq OutcomeAnchor
           /\ \A x \in Added(r) :
                  /\ x.symbol \in Ranked(r) /\ x.at = r
                  /\ x.openedAt = open'[x.symbol].openedAt
                  /\ x.disposition = "still_open" /\ x.closedAt = None
           /\ \A x, y \in Added(r) : x.id = y.id => x = y
           /\ Cardinality(Added(r)) \in Nat
           /\ Ids(Added(r)) = nextId..(nextId + Cardinality(Added(r)) - 1)
<1> DEFINE S == Ranked(r)
           f == [s \in S |-> Cardinality({t \in S : t < s})]
           a == [s \in S |-> Anchor(s, S, r)]
           n == Cardinality(S)
<1>1. /\ S \subseteq Symbols /\ S \subseteq Nat /\ IsFiniteSet(S)
      /\ \A s \in S : open'[s] \in Opportunity
  <2>1. S \subseteq {s \in Symbols : open'[s] # None} BY DEF Ranked
  <2>2. IsFiniteSet(S) BY <2>1, FS_Subset DEF Configured
  <2> QED BY <2>1, <2>2 DEF Configured
<1>2. n \in Nat BY <1>1, FS_CardinalityType
<1>13. \A s \in S : f[s] = Cardinality({t \in S : t < s}) OBVIOUS
<1> HIDE DEF S, f
<1>3. /\ \A s \in S : f[s] \in 0..(n - 1)
      /\ \A s, t \in S : f[s] = f[t] => s = t
      /\ {f[s] : s \in S} = 0..(n - 1)
  BY <1>1, <1>13, RankNumbers
<1>4. r \in Times /\ nextId \in Nat BY DEF Later, Typed
<1>5. \A s \in S : /\ a[s].id = nextId + f[s] /\ a[s].symbol = s /\ a[s].at = r
                   /\ a[s].openedAt = open'[s].openedAt
                   /\ a[s].disposition = "still_open" /\ a[s].closedAt = None
  BY DEF Anchor, f
<1>15. \A s \in S : a[s] = [id |-> nextId + f[s], symbol |-> s, at |-> r,
                     openedAt |-> open'[s].openedAt, disposition |-> "still_open",
                     closedAt |-> None]
  BY DEF Anchor, f
<1> HIDE DEF a, n
<1>6. \A s \in S : a[s] \in OutcomeAnchor
  <2> SUFFICES ASSUME NEW s \in S PROVE a[s] \in OutcomeAnchor OBVIOUS
  <2>1. nextId + f[s] \in Nat BY <1>2, <1>3, <1>4
  <2>2. s \in Symbols /\ open'[s].openedAt \in Times BY <1>1 DEF Opportunity
  <2> DEFINE i == nextId + f[s]
             o == open'[s].openedAt
  <2>3. a[s] = [id |-> i, symbol |-> s, at |-> r, openedAt |-> o,
                disposition |-> "still_open", closedAt |-> None]
    BY <1>15
  <2>4. i \in Nat /\ s \in Symbols /\ r \in Times /\ o \in Times BY <1>4, <2>1, <2>2
  <2> HIDE DEF i, o
  <2> QED BY <2>3, <2>4 DEF OutcomeAnchor
<1>7. \A s, t \in S : a[s].id = a[t].id => s = t
  BY <1>2, <1>3, <1>4, <1>5
<1>8. Added(r) = {a[s] : s \in S} BY DEF Added, a, S
<1>14. \A s, t \in S : a[s] = a[t] => s = t BY <1>7
<1>9. IsFiniteSet(Added(r)) /\ Cardinality(Added(r)) = n
  <2>1. IsFiniteSet({a[s] : s \in S}) BY <1>1, ImageOf, Zenon
  <2>2. Cardinality({a[s] : s \in S}) = Cardinality(S) BY <1>1, <1>14, ImageOf, Zenon
  <2> QED BY <1>8, <2>1, <2>2 DEF n
<1>10. Ids(Added(r)) = nextId..(nextId + n - 1)
  <2>1. Ids(Added(r)) = {nextId + f[s] : s \in S} BY <1>5, <1>8 DEF Ids
  <2>2. ASSUME NEW k \in nextId..(nextId + n - 1) PROVE \E s \in S : k = nextId + f[s]
    <3>1. k - nextId \in 0..(n - 1) BY <1>2, <1>4
    <3>2. PICK s \in S : f[s] = k - nextId BY <1>3, <3>1
    <3> QED BY <1>4, <3>2
  <2>3. \A s \in S : nextId + f[s] \in nextId..(nextId + n - 1) BY <1>2, <1>3, <1>4
  <2> QED BY <2>1, <2>2, <2>3
<1>11. \A x \in Added(r) :
           /\ x.symbol \in S /\ x.at = r
           /\ x.openedAt = open'[x.symbol].openedAt
           /\ x.disposition = "still_open" /\ x.closedAt = None
  BY <1>5, <1>8
<1>12. \A x, y \in Added(r) : x.id = y.id => x = y BY <1>7, <1>8
<1> QED BY <1>2, <1>6, <1>8, <1>9, <1>10, <1>11, <1>12 DEF S

-----------------------------------------------------------------------------
(* The numbers of what is at hand: one for each anchor, none that a row    *)
(* has, and with the rows' all that were given out.                        *)
RowIds == {q.anchor.id : q \in rows}

LEMMA AtHandIs ==
    ASSUME Configured, Typed, Finite, Waiting, Numbered, NoAnchorAfterClose,
           NEW gone, NEW closes, NEW r, Ends(gone, closes, r), Later(r),
           open' \in [Symbols -> Opportunity \cup {None}]
    PROVE  /\ AtHand(closes, r) \subseteq OutcomeAnchor /\ IsFiniteSet(AtHand(closes, r))
           /\ \A x, y \in AtHand(closes, r) : x.id = y.id => x = y
           /\ \A x \in AtHand(closes, r) : x.id \notin RowIds
           /\ Ids(AtHand(closes, r)) \cup RowIds = 0..(nextId + Cardinality(Added(r)) - 1)
<1> DEFINE M == Marks(closes)
           A == Added(r)
           n == Cardinality(A)
<1>1. /\ IsFiniteSet(A) /\ A \subseteq OutcomeAnchor /\ n \in Nat /\ nextId \in Nat
      /\ \A x, y \in A : x.id = y.id => x = y
      /\ Ids(A) = nextId..(nextId + n - 1)
  BY AddedAre DEF Typed
<1>2. IsFiniteSet(M)
  <2> DEFINE f == [x \in outstanding |-> Marked(x, closes)]
  <2>1. M = {f[x] : x \in outstanding} BY DEF Marks
  <2>2. IsFiniteSet(outstanding) BY DEF Finite
  <2> HIDE DEF f, M
  <2> QED BY <2>1, <2>2, ImageOf
<1>3. \A y \in M : y \in OutcomeAnchor /\ \E x \in outstanding : y = Marked(x, closes) /\ y.id = x.id
  BY MarkedIs DEF Marks, Same, Later
<1>4. \A x \in outstanding : Marked(x, closes) \in M /\ Marked(x, closes).id = x.id
  BY MarkedIs DEF Marks, Same, Later
<1>5. Ids(M) = Ids(outstanding) BY <1>3, <1>4 DEF Ids
<1>6. Ids(outstanding) \cup RowIds = 0..(nextId - 1) BY DEF Numbered, RowIds
<1>7. \A x \in outstanding : x.id \notin RowIds BY DEF Numbered, RowIds
<1>8. \A x, y \in M : x.id = y.id => x = y BY <1>3 DEF Numbered
<1> HIDE DEF M, A, n
<1>9. AtHand(closes, r) = M \cup A BY DEF AtHand, M, A
<1>10. Ids(AtHand(closes, r)) = Ids(M) \cup Ids(A) BY <1>9 DEF Ids
<1>11. \A x \in A : x.id \in nextId..(nextId + n - 1) BY <1>1 DEF Ids
<1>12. \A x \in M : x.id \in 0..(nextId - 1) /\ x.id \notin RowIds BY <1>3, <1>6, <1>7 DEF Ids
<1>13. \A x \in A : x.id \notin RowIds BY <1>1, <1>6, <1>11
<1>14. \A x \in M, y \in A : x.id # y.id BY <1>1, <1>11, <1>12
<1>15. IsFiniteSet(AtHand(closes, r))
  <2>1. IsFiniteSet(M \cup A) BY <1>1, <1>2, FS_Union
  <2> QED BY <1>9, <2>1
<1>16. \A x, y \in AtHand(closes, r) : x.id = y.id => x = y BY <1>1, <1>8, <1>9, <1>14
<1>17. (0..(nextId - 1)) \cup (nextId..(nextId + n - 1)) = 0..(nextId + n - 1) BY <1>1
<1>18. Ids(AtHand(closes, r)) \cup RowIds = 0..(nextId + n - 1)
  BY <1>1, <1>5, <1>6, <1>10, <1>17
<1> QED BY <1>1, <1>3, <1>9, <1>12, <1>13, <1>15, <1>16, <1>18 DEF n, A

MadeRoom(closes, r) == Overflow(AtHand(closes, r))
Settled(closes, r) ==
    {x \in AtHand(closes, r) \ MadeRoom(closes, r) : x.at + Settle <= r}

LEMMA CollectIs ==
    ASSUME NEW closes, NEW r, Collect(closes, r)
    PROVE  /\ outstanding' = (AtHand(closes, r) \ MadeRoom(closes, r)) \ Settled(closes, r)
           /\ bySymbol' = [s \in Symbols |->
                  (bySymbol[s] \cup Ids({x \in Added(r) : x.symbol = s}))
                  \ Ids({x \in MadeRoom(closes, r) \cup Settled(closes, r) : x.symbol = s})]
           /\ nextId' = nextId + Cardinality(Added(r))
           /\ rows' = rows \cup {Row(x, "pending_capacity") : x \in MadeRoom(closes, r)}
                           \cup {Row(x, "settled") : x \in Settled(closes, r)}
  BY DEF Collect, AtHand, MadeRoom, Settled, Marks, Added

(* What is at hand waits on or becomes a row.                              *)
LEMMA CollectTurns ==
    ASSUME NEW gone, NEW closes, NEW r, Collect(closes, r), Ends(gone, closes, r), Keeps(gone),
           Later(r), notices' = notices \cup closes, lifecycle' = lifecycle
    PROVE  /\ Turns(gone, closes, r)
           /\ \A x \in outstanding' : ~(x.at + Settle <= r)
           /\ \A q \in rows' : q \in rows \/
                  /\ q.anchor \in AtHand(closes, r)
                  /\ q.forced \in {"pending_capacity", "settled"}
                  /\ q.forced = "settled" => q.anchor.at + Settle <= r
<1> DEFINE H == AtHand(closes, r)
           M == MadeRoom(closes, r)
           S == Settled(closes, r)
<1>1. M \subseteq H /\ S \subseteq H \ M BY DEF MadeRoom, Overflow, Settled
<1>2. /\ outstanding' = (H \ M) \ S
      /\ rows' = rows \cup {Row(x, "pending_capacity") : x \in M} \cup {Row(x, "settled") : x \in S}
  BY CollectIs
<1>3. /\ \A x, f : Row(x, f).anchor = x /\ Row(x, f).forced = f
      /\ \A x \in S : x.at + Settle <= r
      /\ \A x \in H \ M : x \notin S => ~(x.at + Settle <= r)
  BY DEF Row, Settled
<1> HIDE DEF H, M, S
<1>4. Anchors' = H \cup RowAnchors
  <2>1. Anchors' = outstanding' \cup {q.anchor : q \in rows'} BY DEF Anchors
  <2>2. {q.anchor : q \in rows'} = RowAnchors \cup M \cup S BY <1>2, <1>3 DEF RowAnchors
  <2> QED BY <1>1, <1>2, <2>1, <2>2
<1>5. \A q \in rows' : q \in rows \/
          /\ q.anchor \in H
          /\ q.forced \in {"pending_capacity", "settled"}
          /\ q.forced = "settled" => q.anchor.at + Settle <= r
  BY <1>1, <1>2, <1>3
<1> QED BY <1>1, <1>2, <1>3, <1>4, <1>5 DEF Turns, H

LEMMA CollectNumbers ==
    ASSUME Configured, Typed, Finite, Waiting, Numbered, NoAnchorAfterClose,
           NEW gone, NEW closes, NEW r, Ends(gone, closes, r), Later(r), Collect(closes, r),
           open' \in [Symbols -> Opportunity \cup {None}]
    PROVE  /\ Numbered' /\ IsFiniteSet(outstanding') /\ IsFiniteSet(rows')
           /\ nextId' \in Nat /\ outstanding' \subseteq OutcomeAnchor /\ rows' \subseteq OutcomeRow
           /\ bySymbol' \in [Symbols -> SUBSET Nat]
<1> DEFINE H == AtHand(closes, r)
           M == MadeRoom(closes, r)
           S == Settled(closes, r)
           RM == {Row(x, "pending_capacity") : x \in M}
           RS == {Row(x, "settled") : x \in S}
<1>1. M \subseteq H /\ S \subseteq H /\ M \cap S = {} BY DEF MadeRoom, Overflow, Settled
<1>2. /\ outstanding' = (H \ M) \ S /\ rows' = (rows \cup RM) \cup RS
      /\ nextId' = nextId + Cardinality(Added(r))
      /\ bySymbol' = [s \in Symbols |->
             (bySymbol[s] \cup Ids({x \in Added(r) : x.symbol = s}))
             \ Ids({x \in M \cup S : x.symbol = s})]
  BY CollectIs
<1>3. /\ H \subseteq OutcomeAnchor /\ IsFiniteSet(H)
      /\ \A x, y \in H : x.id = y.id => x = y
      /\ \A x \in H : x.id \notin RowIds
      /\ Ids(H) \cup RowIds = 0..(nextId + Cardinality(Added(r)) - 1)
  BY AtHandIs
<1>4. /\ \A q \in RM : q.anchor \in M /\ q = Row(q.anchor, "pending_capacity")
      /\ \A q \in RS : q.anchor \in S /\ q = Row(q.anchor, "settled")
      /\ \A x \in M : Row(x, "pending_capacity") \in RM /\ Row(x, "pending_capacity").anchor = x
      /\ \A x \in S : Row(x, "settled") \in RS /\ Row(x, "settled").anchor = x
  BY DEF Row
<1>5. IsFiniteSet(RM) /\ IsFiniteSet(RS)
  <2> DEFINE f == [x \in H |-> Row(x, "pending_capacity")]
             g == [x \in H |-> Row(x, "settled")]
  <2>1. IsFiniteSet(M) /\ IsFiniteSet(S) BY <1>1, <1>3, FS_Subset
  <2>2. RM = {f[x] : x \in M} /\ RS = {g[x] : x \in S} BY <1>1
  <2> HIDE DEF f, g, RM, RS
  <2> QED BY <2>1, <2>2, ImageOf
<1>6. nextId' \in Nat BY <1>2, AddedAre DEF Typed
<1>16. nextId' = nextId + Cardinality(Added(r)) BY <1>2
<1> HIDE DEF H, M, S, RM, RS
<1>7. IsFiniteSet(outstanding') BY <1>2, <1>3, FS_Subset
<1>8. IsFiniteSet(rows') BY <1>2, <1>5, FS_Union DEF Finite
<1>9. rows' \subseteq OutcomeRow
  <2>1. \A x \in OutcomeAnchor : /\ Row(x, "pending_capacity") \in OutcomeRow
                                 /\ Row(x, "settled") \in OutcomeRow
    BY DEF Row, OutcomeRow
  <2> QED BY <1>1, <1>2, <1>3, <1>4, <2>1 DEF Typed
<1>10. \A x, y \in outstanding' : x.id = y.id => x = y BY <1>2, <1>3
<1>11. \A x \in outstanding', q \in rows' : x.id # q.anchor.id
  BY <1>1, <1>2, <1>3, <1>4 DEF RowIds
<1>12. \A q, p \in rows' : q.anchor.id = p.anchor.id => q = p
  <2> SUFFICES ASSUME NEW q \in rows', NEW p \in rows', q.anchor.id = p.anchor.id PROVE q = p
    OBVIOUS
  <2>1. CASE q \in rows /\ p \in rows BY <2>1 DEF Numbered
  <2>2. CASE q \in rows /\ p \in RM \cup RS BY <1>1, <1>3, <1>4, <2>2 DEF RowIds
  <2>3. CASE q \in RM \cup RS /\ p \in rows BY <1>1, <1>3, <1>4, <2>3 DEF RowIds
  <2>4. CASE q \in RM \cup RS /\ p \in RM \cup RS
    <3>1. q.anchor \in H /\ p.anchor \in H BY <1>1, <1>4, <2>4
    <3>2. q.anchor = p.anchor BY <1>3, <3>1
    <3> QED BY <1>1, <1>4, <2>4, <3>2
  <2> QED BY <1>2, <2>1, <2>2, <2>3, <2>4
<1>13. Ids(outstanding') \cup {q.anchor.id : q \in rows'} = 0..(nextId' - 1)
  <2>1. {q.anchor.id : q \in rows'} = RowIds \cup Ids(M) \cup Ids(S)
    BY <1>2, <1>4 DEF RowIds, Ids
  <2>2. Ids(H) = Ids(outstanding') \cup Ids(M) \cup Ids(S) BY <1>1, <1>2 DEF Ids
  <2>3. 0..(nextId' - 1) = 0..(nextId + Cardinality(Added(r)) - 1)
    <3> DEFINE c == Cardinality(Added(r))
    <3>1. nextId' = nextId + c /\ nextId \in Nat /\ c \in Nat /\ nextId' \in Nat
      BY <1>6, <1>16, AddedAre DEF Typed
    <3> HIDE DEF c
    <3>2. nextId' - 1 = nextId + c - 1 BY <3>1
    <3> QED BY <3>2, Zenon DEF c
  <2>4. Ids(outstanding') \cup {q.anchor.id : q \in rows'} = Ids(H) \cup RowIds
    BY <2>1, <2>2
  <2> QED BY <1>3, <2>3, <2>4, Zenon
<1>14. ASSUME NEW s \in Symbols
       PROVE  bySymbol'[s] = Ids({x \in outstanding' : x.symbol = s})
  <2>1. bySymbol[s] = Ids({x \in outstanding : x.symbol = s}) BY DEF Numbered
  <2>2. Ids({x \in Marks(closes) : x.symbol = s}) = Ids({x \in outstanding : x.symbol = s})
    <3>1. \A x \in outstanding : Same(x, Marked(x, closes)) BY MarkedIs DEF Later
    <3> QED BY <3>1 DEF Marks, Same, Ids
  <2>3. bySymbol[s] \cup Ids({x \in Added(r) : x.symbol = s}) = Ids({x \in H : x.symbol = s})
    <3>1. H = Marks(closes) \cup Added(r) BY DEF H, AtHand
    <3> QED BY <2>1, <2>2, <3>1 DEF Ids
  <2>4. bySymbol'[s] = Ids({x \in H : x.symbol = s}) \ Ids({x \in M \cup S : x.symbol = s})
    BY <1>2, <2>3
  <2>5. Ids({x \in H : x.symbol = s}) \ Ids({x \in M \cup S : x.symbol = s})
           = Ids({x \in outstanding' : x.symbol = s})
    BY <1>1, <1>2, <1>3 DEF Ids
  <2> QED BY <2>4, <2>5
<1>15. bySymbol' \in [Symbols -> SUBSET Nat]
  <2>1. \A s \in Symbols : Ids({x \in outstanding' : x.symbol = s}) \subseteq Nat
    BY <1>2, <1>3 DEF Ids, OutcomeAnchor
  <2> QED BY <1>2, <1>14, <2>1
<1> QED
  BY <1>2, <1>3, <1>6, <1>7, <1>8, <1>9, <1>10, <1>11, <1>12, <1>13, <1>14, <1>15 DEF Numbered

-----------------------------------------------------------------------------
(* What holds of the anchors and the closures after a step, whoever ends   *)
(* and whatever is ranked.                                                 *)

\* Rank, and the end of the stream, which ranks nothing and forgets nothing.
Ranking(gone, r) ==
    \/ Ranked(r) # {} /\ lastRanked' = r /\ emitted' = Ranked(r)
    \/ /\ Ranked(r) = {} /\ lastRanked' = lastRanked
       /\ emitted' \subseteq emitted /\ emitted \ gone \subseteq emitted'

(* An anchor after the step is added by it or was there before.            *)
LEMMA Origin ==
    ASSUME Configured, Typed, Waiting, Numbered, NoAnchorAfterClose,
           NEW gone, NEW closes, NEW r, Turns(gone, closes, r), NEW x \in Anchors'
    PROVE  /\ x \in OutcomeAnchor
           /\ \/ /\ x \in Added(r) /\ x.symbol \in Ranked(r) /\ x.symbol \in Opened'
                 /\ x.at = r /\ x.openedAt = open'[x.symbol].openedAt
                 /\ x.disposition = "still_open" /\ x.closedAt = None
              \/ \E y \in Anchors : Same(y, x) /\ y \in OutcomeAnchor
<1>1. /\ Later(r) /\ r \in Times /\ Ends(gone, closes, r)
      /\ open' \in [Symbols -> Opportunity \cup {None}]
      /\ x \in Marks(closes) \cup Added(r) \cup RowAnchors
  BY DEF Turns, Later, Keeps, AtHand
<1>2. CASE x \in Added(r)
  <2>1. /\ Added(r) \subseteq OutcomeAnchor
        /\ \A z \in Added(r) : /\ z.symbol \in Ranked(r) /\ z.at = r
                               /\ z.openedAt = open'[z.symbol].openedAt
                               /\ z.disposition = "still_open" /\ z.closedAt = None
    BY <1>1, AddedAre
  <2>2. Ranked(r) \subseteq Opened' BY DEF Ranked, Opened, IsOpen
  <2> QED BY <1>2, <2>1, <2>2
<1>3. CASE x \in Marks(closes)
  <2>1. PICK y \in outstanding : x = Marked(y, closes) BY <1>3 DEF Marks
  <2>2. x \in OutcomeAnchor /\ Same(y, x) BY <1>1, <2>1, MarkedIs
  <2> QED BY <2>1, <2>2 DEF Anchors, Typed
<1>4. CASE x \in RowAnchors
  <2>1. x \in OutcomeAnchor /\ x \in Anchors
    BY <1>4 DEF RowAnchors, Typed, OutcomeRow, Anchors
  <2> QED BY <2>1 DEF Same
<1> QED BY <1>1, <1>2, <1>3, <1>4

(* Of move-v1, nothing that is open after the step has been closed.        *)
LEMMA NewIsNew ==
    ASSUME Configured, Typed, Remembered, Told, lifecycle = Move,
           NEW gone, NEW closes, NEW r, Turns(gone, closes, r),
           NEW s \in Opened', NEW n \in notices', n.symbol = s, n.openedAt = open'[s].openedAt
    PROVE  FALSE
<1>1. /\ Keeps(gone) /\ notices' = notices \cup closes /\ gone \subseteq Opened
      /\ \A c \in closes : c.symbol \in gone /\ c.openedAt = open[c.symbol].openedAt
  BY DEF Turns, Ends, Closes
<1>2. s \in Symbols /\ open'[s] # None BY DEF Opened, IsOpen
<1>3. CASE s \in Opened \ gone
  <2>1. open'[s].openedAt = open[s].openedAt BY <1>1, <1>3 DEF Keeps
  <2>2. n \in notices BY <1>1, <1>3
  <2> QED BY <1>3, <2>1, <2>2 DEF Told
<1>4. CASE s \notin Opened \ gone
  <2>1. Identity(s, open'[s].openedAt) \notin minted BY <1>1, <1>2, <1>4 DEF Keeps
  <2>2. CASE n \in notices
    <3>1. About(n) \in minted BY <2>2 DEF Remembered
    <3> QED BY <2>1, <3>1 DEF About
  <2>3. CASE n \in closes
    <3>1. s \in Opened /\ n.openedAt = open[s].openedAt BY <1>1, <2>3
    <3>2. Identity(s, open[s].openedAt) \in minted BY <3>1 DEF Remembered
    <3> QED BY <2>1, <3>1, <3>2
  <2> QED BY <1>1, <2>2, <2>3
<1> QED BY <1>3, <1>4

LEMMA TurnRemembers ==
    ASSUME Configured, Typed, Waiting, Numbered, NoAnchorAfterClose, Remembered,
           NEW gone, NEW closes, NEW r, Turns(gone, closes, r)
    PROVE  /\ \A s \in Opened' : Identity(s, open'[s].openedAt) \in minted'
           /\ \A x \in Anchors' : About(x) \in minted'
           /\ \A n \in notices' : About(n) \in minted'
<1>1. /\ Keeps(gone) /\ notices' = notices \cup closes /\ gone \subseteq Opened
      /\ \A c \in closes : c.symbol \in gone /\ c.openedAt = open[c.symbol].openedAt
      /\ minted \subseteq minted'
  BY DEF Turns, Ends, Closes, Keeps
<1>2. ASSUME NEW s \in Opened' PROVE Identity(s, open'[s].openedAt) \in minted'
  <2>1. s \in Symbols /\ open'[s] # None BY DEF Opened, IsOpen
  <2>2. CASE s \in Opened \ gone
    <3>1. open'[s].openedAt = open[s].openedAt BY <1>1, <2>2 DEF Keeps
    <3> QED BY <1>1, <2>2, <3>1 DEF Remembered
  <2>3. CASE s \notin Opened \ gone BY <1>1, <2>1, <2>3 DEF Keeps
  <2> QED BY <2>2, <2>3
<1>3. ASSUME NEW x \in Anchors' PROVE About(x) \in minted'
  <2>1. CASE x.symbol \in Opened' /\ x.openedAt = open'[x.symbol].openedAt
    BY <1>2, <2>1 DEF About
  <2>2. CASE \E y \in Anchors : Same(y, x)
    BY <1>1, <2>2 DEF Same, About, Remembered
  <2> QED BY <2>1, <2>2, Origin
<1>4. ASSUME NEW n \in closes PROVE About(n) \in minted'
  BY <1>1 DEF About, Remembered
<1> QED BY <1>1, <1>2, <1>3, <1>4 DEF Remembered

LEMMA TurnWaits ==
    ASSUME Configured, Typed, Waiting, Numbered, NoAnchorAfterClose, Remembered,
           NEW gone, NEW closes, NEW r, Turns(gone, closes, r), Ranking(gone, r),
           \A x \in outstanding' : ~(x.at + Settle <= r)
    PROVE  Waiting' /\ emitted' \subseteq Symbols /\ lastRanked' \in Instants
<1>1. /\ Later(r) /\ r \in Times /\ r \in Nat /\ clock' = r /\ clock < r /\ clock \in Nat
      /\ Ends(gone, closes, r) /\ Keeps(gone) /\ lifecycle' = lifecycle
      /\ gone \subseteq Opened /\ Settle \in Nat
  BY TimesAreNat DEF Turns, Later, Ends, Typed, Configured
<1>2. /\ lastRanked # None => lastRanked \in Nat /\ lastRanked <= clock
      /\ r # None
  BY <1>1, TimesAreNat DEF Typed, Instants, Waiting, Configured
<1>3. Ranked(r) # {} => Ranked(r) = Opened'
  BY DEF Ranked, Opened, IsOpen
<1>4. Opened' \subseteq Symbols BY DEF Opened
<1>5. emitted' \subseteq Symbols /\ lastRanked' \in Instants
  BY <1>1, <1>3, <1>4 DEF Ranking, Typed, Instants
<1>6. lastRanked' # None => lastRanked' <= clock' BY <1>1, <1>2 DEF Ranking
<1>7. emitted' # {} => lastRanked' # None BY <1>1, <1>2 DEF Ranking, Waiting
<1>8. ASSUME NEW x \in Anchors' PROVE lastRanked' # None /\ x.at <= lastRanked'
  <2>1. CASE x.symbol \in Ranked(r) /\ x.at = r BY <1>1, <1>2, <2>1 DEF Ranking
  <2>2. CASE \E y \in Anchors : Same(y, x) /\ y \in OutcomeAnchor
    <3>1. PICK y \in Anchors : Same(y, x) /\ y \in OutcomeAnchor BY <2>2
    <3>2. y.at \in Nat /\ y.at = x.at /\ lastRanked # None /\ y.at <= lastRanked
      BY <3>1, TimesAreNat DEF Waiting, OutcomeAnchor, Same
    <3> QED BY <1>1, <1>2, <3>2 DEF Ranking
  <2> QED BY <2>1, <2>2, Origin
<1>9. ASSUME NEW x \in outstanding'
      PROVE  /\ clock' < x.at + Settle
             /\ x.disposition = "still_open" => Ranks(x)' /\ x.symbol \in emitted'
  <2>1. x \in AtHand(closes, r) /\ x \in Anchors' BY DEF Turns
  <2>2. x \in OutcomeAnchor /\ x.at \in Nat BY <2>1, Origin, TimesAreNat DEF OutcomeAnchor
  <2>3. ASSUME x.disposition = "still_open" PROVE Ranks(x)' /\ x.symbol \in emitted'
    <3>1. CASE x \in Added(r)
      <4>1. x.symbol \in Ranked(r) /\ x.openedAt = open'[x.symbol].openedAt
        BY <1>1, <3>1, AddedAre DEF Keeps
      <4> QED BY <1>3, <4>1 DEF Ranking, Ranks, Opened
    <3>2. CASE x \in Marks(closes)
      <4>1. PICK y \in outstanding : x = Marked(y, closes) BY <3>2 DEF Marks
      <4>2. Same(y, x) /\ y.disposition = "still_open" /\ (y.symbol \in gone => y.at + Settle < r)
        BY <1>1, <2>3, <4>1, MarkedIs
      <4>3. Ranks(y) /\ y.symbol \in emitted /\ y.symbol \in Symbols
        BY <4>2 DEF Waiting, Typed, OutcomeAnchor
      <4>4. y.symbol = x.symbol /\ y.at = x.at /\ y.openedAt = x.openedAt BY <4>2 DEF Same
      <4>5. ~(x.at + Settle <= r) OBVIOUS
      <4>6. y.symbol \in Opened \ gone
        BY <1>1, <2>2, <4>2, <4>3, <4>4, <4>5 DEF Ranks, Opened
      <4>7. open'[x.symbol] # None /\ open'[x.symbol].openedAt = x.openedAt
        BY <1>1, <4>3, <4>4, <4>6 DEF Keeps, Ranks
      <4>8. x.symbol \in emitted'
        BY <1>3, <4>3, <4>4, <4>6, <4>7 DEF Ranking, Opened, IsOpen
      <4> QED BY <4>7, <4>8 DEF Ranks, IsOpen
    <3> QED BY <2>1, <3>1, <3>2 DEF AtHand
  <2> QED BY <1>1, <2>2, <2>3
<1>10. ASSUME lifecycle = Move, NEW x \in Anchors', Ranks(x)' PROVE x.symbol \in emitted'
  <2>1. x \in OutcomeAnchor /\ x.symbol \in Symbols BY Origin DEF OutcomeAnchor
  <2>2. x.symbol \in Opened' /\ open'[x.symbol] # None /\ open'[x.symbol].openedAt = x.openedAt
    BY <1>10, <2>1 DEF Ranks, Opened, IsOpen
  <2>3. CASE Ranked(r) # {} BY <1>3, <2>2, <2>3 DEF Ranking
  <2>4. CASE Ranked(r) = {}
    <3>1. PICK y \in Anchors : Same(y, x) BY <2>4, Origin
    <3>2. y.symbol = x.symbol /\ y.openedAt = x.openedAt /\ About(y) \in minted
      BY <3>1 DEF Same, Remembered
    <3>3. x.symbol \in Opened \ gone BY <1>1, <2>1, <2>2, <3>2, <1>10 DEF Keeps, About
    <3>4. Ranks(y) BY <1>1, <2>2, <3>2, <3>3 DEF Keeps, Ranks, Opened
    <3>5. x.symbol \in emitted BY <1>10, <3>1, <3>2, <3>4 DEF Waiting
    <3> QED BY <2>4, <3>3, <3>5 DEF Ranking
  <2> QED BY <2>3, <2>4
<1> QED BY <1>1, <1>5, <1>6, <1>7, <1>8, <1>9, <1>10 DEF Waiting

LEMMA TurnCloses ==
    ASSUME Configured, Typed, Waiting, Numbered, NoAnchorAfterClose, Remembered, Told,
           NEW gone, NEW closes, NEW r, Turns(gone, closes, r)
    PROVE  NoAnchorAfterClose'
<1>1. /\ Later(r) /\ r \in Times /\ Ends(gone, closes, r) /\ lifecycle' = lifecycle
      /\ notices' = notices \cup closes /\ gone \subseteq Opened
      /\ open' \in [Symbols -> Opportunity \cup {None}]
      /\ \A n \in closes : /\ n.symbol \in gone /\ n.closedAt \in Nat
                           /\ n.openedAt = open[n.symbol].openedAt
                           /\ n.symbol \in emitted => lastRanked <= n.closedAt
  BY DEF Turns, Later, Ends, Closes, Closure, Keeps
<1>2. ASSUME NEW x \in Anchors', x.closedAt # None PROVE x.at <= x.closedAt
  <2>1. x \in Marks(closes) \cup Added(r) \cup RowAnchors BY DEF Turns, AtHand
  <2>2. CASE x \in Added(r) BY <1>1, <1>2, <2>2, AddedAre
  <2>3. CASE x \in Marks(closes)
    <3>1. PICK y \in outstanding : x = Marked(y, closes) BY <2>3 DEF Marks
    <3> QED BY <1>1, <1>2, <3>1, MarkedIs
  <2>4. CASE x \in RowAnchors BY <1>2, <2>4 DEF RowAnchors, Anchors, NoAnchorAfterClose
  <2> QED BY <2>1, <2>2, <2>3, <2>4
<1>3. ASSUME lifecycle = Move, NEW x \in Anchors', NEW n \in notices', Measures(x, n)
      PROVE  x.at <= n.closedAt
  <2>1. CASE x.symbol \in Opened' /\ x.openedAt = open'[x.symbol].openedAt
    BY <1>3, <2>1, NewIsNew DEF Measures
  <2>2. CASE \E y \in Anchors : Same(y, x) /\ y \in OutcomeAnchor
    <3>1. PICK y \in Anchors : Same(y, x) /\ y \in OutcomeAnchor BY <2>2
    <3>2. Measures(y, n) /\ y.at = x.at /\ y.at \in Nat
      BY <1>3, <3>1, TimesAreNat DEF Same, Measures, OutcomeAnchor
    <3>3. CASE n \in notices BY <1>3, <3>2, <3>3 DEF NoAnchorAfterClose
    <3>4. CASE n \in closes
      <4>1. Ranks(y) BY <1>1, <3>2, <3>4 DEF Ranks, Measures, Opened
      <4>2. y.symbol \in emitted /\ lastRanked # None /\ y.at <= lastRanked
        BY <1>3, <4>1 DEF Waiting
      <4>3. lastRanked \in Nat BY <4>2, TimesAreNat DEF Typed, Instants
      <4>4. n.symbol = y.symbol BY <3>2 DEF Measures
      <4>5. lastRanked <= n.closedAt /\ n.closedAt \in Nat BY <1>1, <3>4, <4>2, <4>4
      <4> QED BY <3>2, <4>2, <4>3, <4>5
    <3> QED BY <1>1, <3>3, <3>4
  <2> QED BY <2>1, <2>2, Origin
<1> QED BY <1>1, <1>2, <1>3 DEF NoAnchorAfterClose

\* What a row written in the step says.
Writes(r) ==
    \A q \in rows' : q \in rows \/
        /\ q.forced = "settled" => q.anchor.at + Settle <= r
        /\ q.forced = "capture_ended" => finished'

LEMMA TurnTells ==
    ASSUME Configured, Typed, Waiting, Numbered, NoAnchorAfterClose, Remembered, Told,
           NEW gone, NEW closes, NEW r, Turns(gone, closes, r), Writes(r)
    PROVE  Told'
<1>1. /\ Ends(gone, closes, r) /\ lifecycle' = lifecycle /\ notices' = notices \cup closes
      /\ r \in Nat /\ clock \in Nat /\ clock < r /\ clock' = r /\ ~finished /\ Settle \in Nat
      /\ gone \subseteq Opened
      /\ \A n \in closes : n.symbol \in gone /\ n.openedAt = open[n.symbol].openedAt
  BY TimesAreNat DEF Turns, Later, Ends, Closes, Typed, Configured
<1>2. ASSUME lifecycle = Move, NEW m \in notices', NEW n \in notices', Measures(m, n)
      PROVE  m = n
  <2>1. m.symbol = n.symbol /\ m.openedAt = n.openedAt BY <1>2 DEF Measures
  <2>2. CASE m \in notices /\ n \in notices BY <1>2, <2>2 DEF Told
  <2>3. CASE m \in closes /\ n \in closes BY <1>1, <2>1, <2>3 DEF Ends
  <2>4. CASE m \in closes /\ n \in notices BY <1>1, <1>2, <2>1, <2>4 DEF Told
  <2>5. CASE m \in notices /\ n \in closes BY <1>1, <1>2, <2>1, <2>5 DEF Told
  <2> QED BY <1>1, <2>2, <2>3, <2>4, <2>5
<1>3. ASSUME lifecycle = Move, NEW s \in Opened', NEW n \in notices'
      PROVE  ~(n.symbol = s /\ n.openedAt = open'[s].openedAt)
  BY <1>3, NewIsNew
<1>4. ASSUME NEW q \in rows'
      PROVE  /\ q.forced = "settled" => q.anchor.at + Settle <= clock'
             /\ q.forced = "capture_ended" => finished'
  <2>1. CASE q \in rows
    <3>1. q.anchor.at \in Nat BY <2>1, TimesAreNat DEF Typed, OutcomeRow, OutcomeAnchor
    <3>2. /\ q.forced = "settled" => q.anchor.at + Settle <= clock
          /\ q.forced # "capture_ended"
      BY <1>1, <2>1 DEF Told
    <3> QED BY <1>1, <3>1, <3>2
  <2>2. CASE q \notin rows BY <1>1, <2>2 DEF Writes
  <2> QED BY <2>1, <2>2
<1> QED BY <1>1, <1>2, <1>3, <1>4 DEF Told

(* What a replay of the closures N says of an anchor.                      *)
Reasoned(told) == IF told = {} THEN "still_open" ELSE (CHOOSE n \in told : TRUE).reason
ReplayOf(N, x) == Reasoned({n \in N : Measures(x, n) /\ Visible(n, x.at)})

LEMMA ReplayIs ==
    ASSUME NEW N \in SUBSET Closure, NEW x
    PROVE  /\ ReplayOf(N, x) = "still_open" <=>
                  \A n \in N : ~(Measures(x, n) /\ Visible(n, x.at))
           /\ \A n \in N :
                  /\ Measures(x, n) /\ Visible(n, x.at)
                  /\ \A m \in N : Measures(x, m) => m = n
                  => ReplayOf(N, x) = n.reason
<1> DEFINE told == {n \in N : Measures(x, n) /\ Visible(n, x.at)}
<1>1. ReplayOf(N, x) = IF told = {} THEN "still_open" ELSE (CHOOSE n \in told : TRUE).reason
  BY DEF ReplayOf, Reasoned
<1>2. told # {} => (CHOOSE n \in told : TRUE) \in told BY Zenon
<1>3. \A n \in N : n.reason # "still_open" BY DEF Closure, Reasons
<1>4. ASSUME NEW n \in N, Measures(x, n), Visible(n, x.at),
             \A m \in N : Measures(x, m) => m = n
      PROVE  ReplayOf(N, x) = n.reason
  <2>1. told = {n} BY <1>4
  <2> HIDE DEF told
  <2>2. told # {} BY <2>1
  <2>3. (CHOOSE m \in told : TRUE) = n BY <1>2, <2>1, <2>2
  <2> QED BY <1>1, <2>2, <2>3
<1> QED BY <1>1, <1>2, <1>3, <1>4

LEMMA TurnCloseds ==
    ASSUME Configured, Typed, Finite, OpenedAreAccounted,
           NEW gone, NEW closes, NEW r, Turns(gone, closes, r)
    PROVE  /\ notices' \in SUBSET Closure /\ IsFiniteSet(notices')
           /\ Cardinality(notices') <= closed + Cardinality(gone)
<1>1. /\ notices' = notices \cup closes /\ closes \subseteq Closure /\ IsFiniteSet(closes)
      /\ Cardinality(closes) <= Cardinality(gone) /\ gone \in SUBSET Opened
  BY DEF Turns, Ends, Closes
<1>2. IsFiniteSet(notices) /\ notices \subseteq Closure /\ Cardinality(notices) <= closed
      /\ closed \in Nat
  BY DEF Finite, Typed, OpenedAreAccounted
<1>3. IsFiniteSet(gone) BY <1>1, FS_Subset DEF Opened, Configured
<1>4. /\ Cardinality(notices) \in Nat /\ Cardinality(closes) \in Nat /\ Cardinality(gone) \in Nat
      /\ IsFiniteSet(notices \cap closes)
  BY <1>1, <1>2, <1>3, FS_CardinalityType, FS_Intersection
<1>5. /\ IsFiniteSet(notices')
      /\ Cardinality(notices') =
            Cardinality(notices) + Cardinality(closes) - Cardinality(notices \cap closes)
  BY <1>1, <1>2, FS_Union
<1>6. Cardinality(notices \cap closes) \in Nat BY <1>4, FS_CardinalityType
<1> QED BY <1>1, <1>2, <1>4, <1>5, <1>6

(* A row and a replay keep agreeing: a closure that comes too late for an  *)
(* anchor's deadline is seen by neither.                                   *)
LEMMA TurnReplays ==
    ASSUME Configured, Typed, Finite, OpenedAreAccounted, Waiting, Numbered,
           NoAnchorAfterClose, Remembered, Told, LiveAgreesWithReplay,
           NEW gone, NEW closes, NEW r, Turns(gone, closes, r)
    PROVE  LiveAgreesWithReplay'
<1> SUFFICES ASSUME lifecycle = Move
             PROVE  /\ \A x \in outstanding' : x.disposition = ReplayOf(notices', x)
                    /\ \A q \in rows' : q.forced # "pending_capacity" =>
                           q.anchor.disposition = ReplayOf(notices', q.anchor)
  BY DEF LiveAgreesWithReplay, Replayed, ReplayOf, Reasoned, Turns
<1>1. /\ Later(r) /\ r \in Times /\ Ends(gone, closes, r) /\ notices' = notices \cup closes
      /\ r \in Nat /\ clock \in Nat /\ clock < r /\ ~finished /\ Settle \in Nat
      /\ gone \subseteq Opened /\ closes \subseteq Closure
      /\ open' \in [Symbols -> Opportunity \cup {None}]
      /\ outstanding' \subseteq AtHand(closes, r)
      /\ \A q \in rows' : q \in rows \/ q.anchor \in AtHand(closes, r)
      /\ \A n \in closes : /\ n.symbol \in gone /\ n.observedAt = r
                           /\ n.openedAt = open[n.symbol].openedAt
  BY TimesAreNat DEF Turns, Later, Ends, Closes, Typed, Configured, Keeps
<1>2. notices \in SUBSET Closure /\ notices' \in SUBSET Closure BY TurnCloseds DEF Typed
<1>3. /\ \A x \in outstanding : x.disposition = ReplayOf(notices, x)
      /\ \A q \in rows : q.forced # "pending_capacity" =>
             q.anchor.disposition = ReplayOf(notices, q.anchor)
  BY DEF LiveAgreesWithReplay, Replayed, ReplayOf, Reasoned
<1>4. /\ \A m, n \in notices : Measures(m, n) => m = n
      /\ \A c \in closes, n \in notices :
             ~(n.symbol = c.symbol /\ n.openedAt = c.openedAt)
  BY <1>1 DEF Told
<1>5. \A m, n \in closes : m.symbol = n.symbol => m = n BY <1>1 DEF Ends
<1>6. ASSUME NEW y \in AtHand(closes, r) PROVE y.disposition = ReplayOf(notices', y)
  <2>1. CASE y \in Added(r)
    <3>1. y.symbol \in Ranked(r) /\ y.openedAt = open'[y.symbol].openedAt
          /\ y.disposition = "still_open"
      BY <1>1, <2>1, AddedAre
    <3>2. y.symbol \in Opened' BY <3>1 DEF Ranked, Opened, IsOpen
    <3>3. \A n \in notices' : ~Measures(y, n) BY <3>1, <3>2, NewIsNew DEF Measures
    <3> QED BY <1>2, <3>1, <3>3, ReplayIs
  <2>2. CASE y \in Marks(closes)
    <3>1. PICK x \in outstanding : y = Marked(x, closes) BY <2>2 DEF Marks
    <3>2. Same(x, y)
          /\ \/ /\ y = x
                /\ x.disposition = "still_open" =>
                       \A n \in closes : ~(Measures(x, n) /\ Visible(n, x.at))
             \/ \E n \in closes : /\ Measures(x, n) /\ Visible(n, x.at)
                                  /\ x.disposition = "still_open"
                                  /\ y.disposition = n.reason
      BY <1>1, <3>1, MarkedIs
    <3>3. x.disposition = ReplayOf(notices, x) BY <1>3
    <3>4. ReplayOf(notices', y) = ReplayOf(notices', x)
      BY <3>2 DEF ReplayOf, Same, Measures
    <3>5. CASE x.disposition = "still_open"
      <4>1. \A n \in notices : ~(Measures(x, n) /\ Visible(n, x.at))
        BY <1>2, <3>3, <3>5, ReplayIs
      <4>2. CASE y = x /\ \A n \in closes : ~(Measures(x, n) /\ Visible(n, x.at))
        BY <1>1, <1>2, <3>5, <4>1, <4>2, ReplayIs
      <4>3. CASE \E n \in closes : /\ Measures(x, n) /\ Visible(n, x.at)
                                   /\ y.disposition = n.reason
        <5>1. PICK n \in closes : /\ Measures(x, n) /\ Visible(n, x.at)
                                  /\ y.disposition = n.reason
          BY <4>3
        <5>2. ASSUME NEW m \in notices', Measures(x, m) PROVE m = n
          <6>1. m.symbol = n.symbol /\ m.openedAt = n.openedAt BY <5>1, <5>2 DEF Measures
          <6> QED BY <1>1, <1>4, <1>5, <6>1
        <5>3. n \in notices' BY <1>1
        <5>4. ReplayOf(notices', x) = n.reason BY <1>2, <5>1, <5>2, <5>3, ReplayIs
        <5> QED BY <3>4, <5>1, <5>4
      <4> QED BY <3>2, <3>5, <4>2, <4>3
    <3>6. CASE x.disposition # "still_open"
      <4>1. PICK n \in notices : Measures(x, n) /\ Visible(n, x.at)
        BY <1>2, <3>3, <3>6, ReplayIs
      <4>2. ASSUME NEW m \in notices', Measures(x, m) PROVE m = n
        <5>1. m.symbol = n.symbol /\ m.openedAt = n.openedAt BY <4>1, <4>2 DEF Measures
        <5> QED BY <1>1, <1>4, <5>1 DEF Measures
      <4>3. n \in notices' BY <1>1
      <4>4. ReplayOf(notices', x) = n.reason BY <1>2, <4>1, <4>2, <4>3, ReplayIs
      <4>5. ReplayOf(notices, x) = n.reason BY <1>1, <1>2, <4>1, <4>2, ReplayIs
      <4> QED BY <3>2, <3>3, <3>4, <3>6, <4>4, <4>5
    <3> QED BY <3>5, <3>6
  <2> QED BY <2>1, <2>2 DEF AtHand
<1>7. ASSUME NEW q \in rows', q.forced # "pending_capacity"
      PROVE  q.anchor.disposition = ReplayOf(notices', q.anchor)
  <2>1. CASE q \in rows
    <3>1. q.forced = "settled" /\ q.anchor.at + Settle <= clock
      BY <1>1, <1>7, <2>1 DEF Told, Typed, OutcomeRow
    <3>2. q.anchor.at \in Nat BY <2>1, TimesAreNat DEF Typed, OutcomeRow, OutcomeAnchor
    <3>3. \A n \in closes : ~Visible(n, q.anchor.at) BY <1>1, <3>1, <3>2 DEF Visible
    <3>4. {n \in notices' : Measures(q.anchor, n) /\ Visible(n, q.anchor.at)}
             = {n \in notices : Measures(q.anchor, n) /\ Visible(n, q.anchor.at)}
      BY <1>1, <3>3
    <3>5. ReplayOf(notices', q.anchor) = ReplayOf(notices, q.anchor)
      BY <3>4, Zenon DEF ReplayOf
    <3> QED BY <1>3, <1>7, <2>1, <3>5
  <2>2. CASE q \notin rows BY <1>1, <1>6, <2>2
  <2> QED BY <2>1, <2>2
<1> QED BY <1>1, <1>6, <1>7

-----------------------------------------------------------------------------
(* What an event, or the clock alone, keeps, whatever it ends and opens.   *)
LEMMA EventKeepsAll ==
    ASSUME Configured, IInv, NEW e, NEW gone, NEW stays, NEW opens, NEW closes, NEW r,
           Sound(e, gone, stays, opens), Opportunities(e, gone, stays, opens),
           opens /\ Bound # 0 => Cardinality(Opened \ gone) < Bound,
           opens /\ lifecycle = Move => Identity(e.symbol, e.at) \notin minted,
           Ends(gone, closes, r), Later(r), Rank(gone, r), Collect(closes, r),
           notices' = notices \cup closes, lifecycle' = lifecycle, finished' = finished,
           edges' \in [Symbols -> EdgeState], WithinTheDay',
           lifecycle = Move =>
               /\ \A u \in Symbols : edges'[u].issuedDay <= edges'[u].latest
               /\ \A m \in minted' : Issue(m)'
    PROVE  IInv'
<1>1. /\ Typed /\ Finite /\ IndexInStep /\ OpenedAreAccounted /\ NoAnchorAfterClose /\ IdsAreNew
      /\ WithinTheDay /\ LiveAgreesWithReplay /\ Remembered /\ Waiting /\ Numbered /\ Told
  BY DEF IInv
<1>2. Keeps(gone) /\ open' \in [Symbols -> Opportunity \cup {None}]
  BY <1>1, EventKeeps DEF Keeps
<1>3. /\ Turns(gone, closes, r)
      /\ \A x \in outstanding' : ~(x.at + Settle <= r)
      /\ Writes(r)
  <2>1. \A q \in rows' : q \in rows \/
            /\ q.forced \in {"pending_capacity", "settled"}
            /\ q.forced = "settled" => q.anchor.at + Settle <= r
    BY <1>2, CollectTurns
  <2> QED BY <1>2, <2>1, CollectTurns DEF Writes
<1>4. Ranking(gone, r) BY DEF Rank, Ranking
<1>5. Waiting' /\ emitted' \subseteq Symbols /\ lastRanked' \in Instants
  BY <1>1, <1>3, <1>4, TurnWaits
<1>6. NoAnchorAfterClose' BY <1>1, <1>3, TurnCloses
<1>7. Told' BY <1>1, <1>3, TurnTells
<1>8. LiveAgreesWithReplay' BY <1>1, <1>3, TurnReplays
<1>9. /\ \A s \in Opened' : Identity(s, open'[s].openedAt) \in minted'
      /\ \A x \in Anchors' : About(x) \in minted'
      /\ \A n \in notices' : About(n) \in minted'
  BY <1>1, <1>3, TurnRemembers
<1>10. Remembered' BY <1>9 DEF Remembered
<1>11. /\ Numbered' /\ IsFiniteSet(outstanding') /\ IsFiniteSet(rows')
       /\ nextId' \in Nat /\ outstanding' \subseteq OutcomeAnchor /\ rows' \subseteq OutcomeRow
       /\ bySymbol' \in [Symbols -> SUBSET Nat]
  BY <1>1, <1>2, CollectNumbers
<1>12. IndexInStep' BY <1>1, EventIndexes
<1>13. /\ opened' \in Nat /\ closed' = closed + Cardinality(gone) /\ Cardinality(gone) \in Nat
       /\ opened' = Cardinality(Opened') + closed'
       /\ Bound # 0 => Cardinality(Opened') <= Bound
  BY <1>1, EventCounts
<1>14. /\ notices' \in SUBSET Closure /\ IsFiniteSet(notices')
       /\ Cardinality(notices') <= closed + Cardinality(gone)
  BY <1>1, <1>3, TurnCloseds
<1>15. OpenedAreAccounted' BY <1>13, <1>14 DEF OpenedAreAccounted, Opened
<1>16. /\ IsFiniteSet(minted') /\ minted' \subseteq Ident /\ IdsAreNew'
  <2>1. IsFiniteSet(minted) /\ minted \subseteq Ident /\ opened \in Nat
    BY <1>1 DEF Finite, Typed
  <2>2. Identity(e.symbol, e.at) \in Ident BY IdentIs DEF Sound, EventSet
  <2>3. CASE opens
    <3>1. minted' = minted \cup {Identity(e.symbol, e.at)} /\ opened' = opened + 1
      BY <2>3 DEF Opportunities
    <3>2. /\ IsFiniteSet(minted')
          /\ Identity(e.symbol, e.at) \notin minted => Cardinality(minted') = Cardinality(minted) + 1
      BY <2>1, <3>1, FS_AddElement
    <3> QED BY <1>1, <2>1, <2>2, <2>3, <3>1, <3>2 DEF IdsAreNew
  <2>4. CASE ~opens
    <3>1. minted' = minted /\ opened' = opened BY <2>1, <2>4 DEF Opportunities
    <3> QED BY <1>1, <2>1, <3>1 DEF IdsAreNew
  <2> QED BY <2>3, <2>4
<1>17. closed \in Nat /\ closed' \in Nat BY <1>1, <1>13 DEF Typed
<1>18. Typed'
  BY <1>1, <1>2, <1>5, <1>11, <1>13, <1>14, <1>16, <1>17 DEF Typed, Later
<1> QED BY <1>5, <1>6, <1>7, <1>8, <1>10, <1>11, <1>12, <1>14, <1>15, <1>16, <1>18
        DEF IInv, Finite

LEMMA ReceiveKeeps ==
    ASSUME Configured, IInv, NEW r, Receive(r)
    PROVE  IInv'
<1>1. Later(r) /\ r \in Times /\ lifecycle' = lifecycle /\ finished' = finished
      /\ Typed /\ Waiting /\ Remembered /\ OpenedAreAccounted /\ WithinTheDay
  BY DEF Receive, Later, IInv
<1>2. PICK s \in Symbols, t \in Times, x \in Says :
           LET e == Event(s, t, x)
               due == Expired(r)
               crossed == IF Crosses(e, due) THEN {s} ELSE {}
               stays == Stays(e, due)
               vacant == Vacant(e, due)
               opens == vacant /\ ~Duplicate(e)
               left == Opened \ (due \cup crossed)
               evicted == IF opens THEN Victims(left) ELSE {}
               gone == due \cup crossed \cup evicted
               closes == {ExpiryNotice(u, r) : u \in due}
                         \cup {Notice(u, t, "session_boundary", r) : u \in crossed}
                         \cup {Notice(u, t, "capacity_reached", r) : u \in evicted}
           IN  /\ Opportunities(e, gone, stays, opens)
               /\ edges' = EdgesAfter(e, vacant)
               /\ Rank(gone, r)
               /\ Collect(closes, r)
               /\ notices' = notices \cup closes
  BY DEF Receive, Opened
<1> DEFINE e == Event(s, t, x)
           due == Expired(r)
           crossed == IF Crosses(e, due) THEN {s} ELSE {}
           stays == Stays(e, due)
           vacant == Vacant(e, due)
           opens == vacant /\ ~Duplicate(e)
           left == Opened \ (due \cup crossed)
           evicted == IF opens THEN Victims(left) ELSE {}
           gone == due \cup crossed \cup evicted
           closes == {ExpiryNotice(u, r) : u \in due}
                     \cup {Notice(u, t, "session_boundary", r) : u \in crossed}
                     \cup {Notice(u, t, "capacity_reached", r) : u \in evicted}
<1>3. e \in EventSet /\ e.symbol = s /\ e.at = t
  BY DEF Event, Says, EventSet
<1> HIDE DEF e
<1>4. due \subseteq Opened /\ crossed \subseteq Opened \ due /\ evicted \subseteq left
  BY <1>3 DEF Expired, Opened, Crosses, Victims
<1>5. opens => ~stays /\ ~Late(e) /\ e.symbol \notin left
  <2>1. vacant => ~stays /\ ~Late(e) BY DEF Vacant
  <2>2. vacant => e.symbol \notin left BY <1>3, <2>1 DEF Stays, Opened
  <2> QED BY <2>1, <2>2
<1>6. stays => e.symbol \in left BY <1>3 DEF Stays, Opened
<1>7. Sound(e, gone, stays, opens)
  <2>1. stays \in BOOLEAN /\ opens \in BOOLEAN BY DEF Stays, Vacant
  <2>2. gone \subseteq Opened BY <1>4
  <2>3. stays => e.symbol \in Opened \ gone BY <1>4, <1>5, <1>6
  <2>4. opens => e.symbol \notin Opened \ gone BY <1>5
  <2> QED BY <1>3, <2>1, <2>2, <2>3, <2>4 DEF Sound
<1>8. opens /\ Bound # 0 => Cardinality(Opened \ gone) < Bound
  <2> SUFFICES ASSUME opens, Bound # 0 PROVE Cardinality(Opened \ gone) < Bound OBVIOUS
  <2>1. Opened \ gone = left \ Victims(left) OBVIOUS
  <2>2. left \in SUBSET Opened OBVIOUS
  <2> HIDE DEF gone, left
  <2>3. Cardinality(left \ Victims(left)) < Bound BY <1>1, <2>2, MakesRoom
  <2> QED BY <2>1, <2>3
<1>9. opens /\ lifecycle = Move => Identity(e.symbol, e.at) \notin minted
  BY <1>1, <1>3, <1>5, OpensANewId
<1>10. Ends(gone, closes, r)
  <2> DEFINE f == [u \in gone |-> IF u \in due THEN ExpiryNotice(u, r)
                   ELSE IF u \in crossed THEN Notice(u, t, "session_boundary", r)
                   ELSE Notice(u, t, "capacity_reached", r)]
  <2>1. t \in Nat /\ {"session_boundary", "capacity_reached"} \subseteq Reasons
    BY TimesAreNat DEF Reasons
  <2>2. \A u \in due : f[u] = ExpiryNotice(u, r) OBVIOUS
  <2>3. \A u \in crossed : f[u] = Notice(u, t, "session_boundary", r) BY <1>4
  <2>4. \A u \in evicted : f[u] = Notice(u, t, "capacity_reached", r) BY <1>4
  <2> HIDE DEF f, due, crossed, evicted
  <2>5. closes = {f[u] : u \in gone} BY <2>2, <2>3, <2>4
  <2>6. gone \in SUBSET Opened BY <1>7 DEF Sound
  <2>7. \A u \in gone : f[u].symbol = u /\ Closes(f[u], r)
    <3>1. \A u \in due : f[u].symbol = u /\ Closes(f[u], r)
      BY <1>1, <2>2, <2>6, ExpiryCloses
    <3>2. \A u \in crossed : f[u].symbol = u /\ Closes(f[u], r)
      BY <1>1, <2>1, <2>3, <2>6, NoticeCloses
    <3>3. \A u \in evicted : f[u].symbol = u /\ Closes(f[u], r)
      BY <1>1, <2>1, <2>4, <2>6, NoticeCloses
    <3> QED BY <3>1, <3>2, <3>3
  <2> HIDE DEF gone, closes
  <2> QED BY <2>5, <2>6, <2>7, EndsOf
<1>11. /\ Opportunities(e, gone, stays, opens) /\ edges' = EdgesAfter(e, vacant)
       /\ Rank(gone, r) /\ Collect(closes, r) /\ notices' = notices \cup closes
  BY <1>2 DEF e
<1>12. due \subseteq gone /\ (Crosses(e, due) => e.symbol \in gone) BY <1>3
<1>13. vacant \in BOOLEAN /\ opens \in BOOLEAN /\ (vacant => Vacant(e, due)) /\ stays = Stays(e, due)
       /\ (opens => vacant) /\ (vacant => ~Late(e))
  BY DEF Vacant
<1> HIDE DEF due, crossed, stays, vacant, opens, left, evicted, gone, closes
<1>14. edges' \in [Symbols -> EdgeState] BY <1>1, <1>3, <1>11, <1>13, EdgesAre
<1>15. WithinTheDay' BY <1>1, <1>7, <1>11, <1>12, <1>13, EventStaysInDay
<1>16. minted' = minted \cup IF opens THEN {Identity(e.symbol, e.at)} ELSE {}
  BY <1>11 DEF Opportunities
<1>17. lifecycle = Move =>
           /\ \A u \in Symbols : edges'[u].issuedDay <= edges'[u].latest
           /\ \A m \in minted' : Issue(m)'
  BY <1>1, <1>3, <1>11, <1>13, <1>16, EventRemembers
<1> QED BY <1>1, <1>7, <1>8, <1>9, <1>10, <1>11, <1>14, <1>15, <1>17, EventKeepsAll

LEMMA TickKeeps ==
    ASSUME Configured, IInv, NEW r, Tick(r)
    PROVE  IInv'
<1> DEFINE due == Expired(r)
           closes == {ExpiryNotice(s, r) : s \in due}
<1>1. /\ Later(r) /\ r \in Times /\ Typed /\ Waiting /\ Remembered /\ WithinTheDay
      /\ lifecycle' = lifecycle /\ edges' = edges /\ opened' = opened
      /\ minted' = minted /\ finished' = finished
      /\ opened \in Nat /\ minted \subseteq Ident /\ edges \in [Symbols -> EdgeState]
  BY DEF Tick, Later, IInv, Typed
<1>2. /\ open' = [s \in Symbols |-> IF s \in due THEN None ELSE open[s]]
      /\ byLastSeen' = byLastSeen \ {Key(s) : s \in due}
      /\ closed' = closed + Cardinality(due)
      /\ Rank(due, r) /\ Collect(closes, r) /\ notices' = notices \cup closes
  BY DEF Tick
<1>3. due \subseteq Opened BY DEF Expired, Opened
<1>4. Ends(due, closes, r)
  <2> DEFINE f == [u \in due |-> ExpiryNotice(u, r)]
  <2>1. closes = {f[u] : u \in due} OBVIOUS
  <2>2. \A u \in due : f[u] = ExpiryNotice(u, r) OBVIOUS
  <2> HIDE DEF f, due
  <2>3. \A u \in due : f[u].symbol = u /\ Closes(f[u], r)
    BY <1>1, <1>3, <2>2, ExpiryCloses
  <2> HIDE DEF closes
  <2> QED BY <1>3, <2>1, <2>3, EndsOf
<1>5. PICK e \in EventSet : TRUE
  <2>1. PICK s \in Symbols : TRUE BY DEF Configured
  <2>2. [symbol |-> s, at |-> r, kind |-> "bar", holds |-> TRUE, priced |-> TRUE] \in EventSet
    BY <1>1 DEF EventSet, Kinds
  <2> QED BY <2>2
<1>6. Sound(e, due, FALSE, FALSE) BY <1>3 DEF Sound
<1>7. Opportunities(e, due, FALSE, FALSE)
  <2>1. byLastSeen' = (byLastSeen \ {Key(s) : s \in due \cup {}}) \cup {} \cup {} BY <1>2
  <2> HIDE DEF due
  <2> QED BY <1>1, <1>2, <2>1 DEF Opportunities
<1> HIDE DEF due, closes
<1>8. WithinTheDay' BY <1>1, <1>2 DEF WithinTheDay, IsOpen
<1>9. lifecycle = Move =>
          /\ \A u \in Symbols : edges'[u].issuedDay <= edges'[u].latest
          /\ \A m \in minted' : Issue(m)'
  BY <1>1 DEF Remembered, Issue, Identity, UtcDate, MarketDay
<1> QED BY <1>1, <1>2, <1>4, <1>6, <1>7, <1>8, <1>9, EventKeepsAll

LEMMA FinishKeeps ==
    ASSUME Configured, IInv, NEW r, Finish(r)
    PROVE  IInv'
<1> DEFINE closes == {Notice(s, r, "capture_ended", r) : s \in Opened}
           R == {Row(Marked(x, closes), "capture_ended") : x \in outstanding}
<1>1. /\ Typed /\ Finite /\ IndexInStep /\ OpenedAreAccounted /\ NoAnchorAfterClose /\ IdsAreNew
      /\ WithinTheDay /\ LiveAgreesWithReplay /\ Remembered /\ Waiting /\ Numbered /\ Told
  BY DEF IInv
<1>2. /\ Later(r) /\ r \in Times /\ rows' = rows \cup R /\ notices' = notices \cup closes
      /\ closed' = closed + Cardinality(closes) /\ open' = [s \in Symbols |-> None]
      /\ byLastSeen' = byLastSeen \ {Key(s) : s \in Opened}
      /\ outstanding' = {} /\ bySymbol' = [s \in Symbols |-> {}] /\ finished' = TRUE
      /\ lifecycle' = lifecycle /\ edges' = edges /\ emitted' = emitted
      /\ lastRanked' = lastRanked /\ opened' = opened /\ nextId' = nextId /\ minted' = minted
  BY DEF Finish, Later, Opened
<1>3. Ends(Opened, closes, r) /\ Cardinality(closes) = Cardinality(Opened)
  <2> DEFINE f == [u \in Opened |-> Notice(u, r, "capture_ended", r)]
  <2>1. closes = {f[u] : u \in Opened} OBVIOUS
  <2>2. \A u \in Opened : f[u] = Notice(u, r, "capture_ended", r) OBVIOUS
  <2>3. r \in Nat /\ "capture_ended" \in Reasons BY <1>2, TimesAreNat DEF Reasons
  <2>4. IsFiniteSet(Opened) BY FS_Subset DEF Opened, Configured
  <2> HIDE DEF f
  <2>5. \A u \in Opened : f[u].symbol = u /\ Closes(f[u], r)
    BY <1>1, <1>2, <2>2, <2>3, NoticeCloses
  <2>6. \A u, w \in Opened : f[u] = f[w] => u = w BY <2>5
  <2> HIDE DEF closes
  <2>7. Cardinality(closes) = Cardinality(Opened) BY <2>1, <2>4, <2>6, ImageOf
  <2> QED BY <2>1, <2>5, <2>7, EndsOf
<1>4. Opened' = {} /\ Ranked(r) = {} /\ Added(r) = {}
  BY <1>2 DEF Opened, IsOpen, Ranked, Added
<1>5. Keeps(Opened)
  <2>1. open' \in [Symbols -> Opportunity \cup {None}] BY <1>2
  <2>2. \A u \in Symbols : open'[u] = None BY <1>2
  <2> QED BY <1>2, <2>1, <2>2 DEF Keeps
<1>6. AtHand(closes, r) = Marks(closes) BY <1>4 DEF AtHand
<1>7. /\ \A q \in R : q.forced = "capture_ended" /\ q.anchor \in Marks(closes)
                      /\ q = Row(q.anchor, "capture_ended")
      /\ \A x \in Marks(closes) : Row(x, "capture_ended") \in R
                                  /\ Row(x, "capture_ended").anchor = x
  <2>1. \A x, f : Row(x, f).anchor = x /\ Row(x, f).forced = f BY DEF Row
  <2>2. \A x \in outstanding : Marked(x, closes) \in Marks(closes) BY DEF Marks
  <2>3. \A y \in Marks(closes) : \E x \in outstanding : y = Marked(x, closes) BY DEF Marks
  <2> HIDE DEF closes
  <2> QED BY <2>1, <2>2, <2>3
<1> HIDE DEF closes, R
<1>8. Turns(Opened, closes, r)
  <2>1. Anchors' = Marks(closes) \cup RowAnchors BY <1>2, <1>7 DEF Anchors, RowAnchors
  <2> QED BY <1>2, <1>3, <1>5, <1>6, <1>7, <2>1 DEF Turns
<1>9. Writes(r) BY <1>2, <1>7 DEF Writes
<1>10. Ranking(Opened, r) BY <1>2, <1>4 DEF Ranking
<1>11. \A x \in outstanding' : ~(x.at + Settle <= r) BY <1>2
<1>12. Waiting' /\ emitted' \subseteq Symbols /\ lastRanked' \in Instants
  BY <1>1, <1>8, <1>10, <1>11, TurnWaits
<1>13. NoAnchorAfterClose' BY <1>1, <1>8, TurnCloses
<1>14. Told' BY <1>1, <1>8, <1>9, TurnTells
<1>15. LiveAgreesWithReplay' BY <1>1, <1>8, TurnReplays
<1>16. Remembered'
  <2>1. /\ \A s \in Opened' : Identity(s, open'[s].openedAt) \in minted'
        /\ \A x \in Anchors' : About(x) \in minted'
        /\ \A n \in notices' : About(n) \in minted'
    BY <1>1, <1>8, TurnRemembers
  <2>2. lifecycle' = Move =>
            /\ \A u \in Symbols : edges'[u].issuedDay <= edges'[u].latest
            /\ \A m \in minted' : Issue(m)'
    BY <1>1, <1>2 DEF Remembered, Issue, Identity, UtcDate, MarketDay
  <2> QED BY <2>1, <2>2 DEF Remembered
<1>17. /\ AtHand(closes, r) \subseteq OutcomeAnchor /\ IsFiniteSet(AtHand(closes, r))
       /\ \A x, y \in Marks(closes) : x.id = y.id => x = y
       /\ \A x \in Marks(closes) : x.id \notin RowIds
  BY <1>1, <1>2, <1>3, <1>5, <1>6, AtHandIs DEF Keeps
<1>18. \A x \in outstanding : Same(x, Marked(x, closes)) BY <1>1, <1>2, <1>3, MarkedIs
<1>19. Numbered'
  <2>1. Ids(Marks(closes)) = Ids(outstanding) BY <1>18 DEF Marks, Same, Ids
  <2>2. {q.anchor.id : q \in rows'} = RowIds \cup Ids(Marks(closes))
    BY <1>2, <1>7 DEF RowIds, Ids
  <2>3. Ids(outstanding') = {} BY <1>2 DEF Ids
  <2>4. Ids(outstanding) \cup RowIds = 0..(nextId - 1) BY <1>1 DEF Numbered, RowIds
  <2>5. 0..(nextId' - 1) = 0..(nextId - 1) BY <1>2
  <2>6. Ids(outstanding') \cup {q.anchor.id : q \in rows'} = 0..(nextId' - 1)
    BY <2>1, <2>2, <2>3, <2>4, <2>5
  <2>7. \A q, p \in rows' : q.anchor.id = p.anchor.id => q = p
    <3>1. \A q, p \in rows : q.anchor.id = p.anchor.id => q = p BY <1>1 DEF Numbered
    <3>2. \A q \in R, p \in rows : q.anchor.id # p.anchor.id BY <1>7, <1>17 DEF RowIds
    <3>3. \A q, p \in R : q.anchor.id = p.anchor.id => q = p BY <1>7, <1>17
    <3> QED BY <1>2, <3>1, <3>2, <3>3
  <2>8. \A s \in Symbols : bySymbol'[s] = Ids({x \in outstanding' : x.symbol = s})
    BY <1>2 DEF Ids
  <2> QED BY <1>2, <2>6, <2>7, <2>8 DEF Numbered
<1>20. IsFiniteSet(rows') /\ rows' \subseteq OutcomeRow
  <2> DEFINE f == [x \in Marks(closes) |-> Row(x, "capture_ended")]
  <2>1. R = {f[x] : x \in Marks(closes)} BY <1>7
  <2> HIDE DEF f
  <2>2. IsFiniteSet(R) BY <1>6, <1>17, <2>1, ImageOf
  <2>3. R \subseteq OutcomeRow BY <1>6, <1>7, <1>17 DEF Row, OutcomeRow
  <2> QED BY <1>1, <1>2, <2>2, <2>3, FS_Union DEF Finite, Typed
<1>21. /\ notices' \in SUBSET Closure /\ IsFiniteSet(notices')
       /\ Cardinality(notices') <= closed + Cardinality(Opened)
  BY <1>1, <1>8, TurnCloseds
<1>22. OpenedAreAccounted' /\ closed' \in Nat
  <2>1. Cardinality(Opened') = 0 BY <1>4, FS_EmptySet
  <2>2. /\ opened = Cardinality(Opened) + closed /\ closed \in Nat /\ Bound \in Nat
        /\ Cardinality(Opened) \in Nat
    <3>1. IsFiniteSet(Opened) BY FS_Subset DEF Opened, Configured
    <3> QED BY <1>1, <3>1, FS_CardinalityType DEF OpenedAreAccounted, Opened, Typed, Configured
  <2> QED BY <1>2, <1>3, <1>21, <2>1, <2>2 DEF OpenedAreAccounted, Opened
<1>23. IndexInStep'
  <2>1. byLastSeen' = {} BY <1>1, <1>2 DEF IndexInStep, Opened
  <2> QED BY <1>4, <2>1 DEF IndexInStep, Opened
<1>24. IdsAreNew' /\ WithinTheDay' BY <1>1, <1>2 DEF IdsAreNew, WithinTheDay, IsOpen
<1>25. Typed'
  <2>1. bySymbol' \in [Symbols -> SUBSET Nat] BY <1>2
  <2>2. open' \in [Symbols -> Opportunity \cup {None}] BY <1>5 DEF Keeps
  <2>3. outstanding' \subseteq OutcomeAnchor /\ clock' \in Times /\ finished' \in BOOLEAN
    BY <1>2 DEF Later
  <2> QED BY <1>1, <1>2, <1>12, <1>20, <1>21, <1>22, <2>1, <2>2, <2>3 DEF Typed
<1>26. Finite' BY <1>1, <1>2, <1>20, <1>21, FS_EmptySet DEF Finite
<1> QED BY <1>12, <1>13, <1>14, <1>15, <1>16, <1>19, <1>22, <1>23, <1>24, <1>25, <1>26 DEF IInv

-----------------------------------------------------------------------------
(* The invariant, and what it says.                                        *)
LEMMA InitInvariant == ASSUME Configured, Init PROVE IInv
<1>1. Opened = {} BY DEF Init, Opened, IsOpen
<1>2. Anchors = {} BY DEF Init, Anchors
<1>3. Typed
  <2>1. NewEdges \in EdgeState BY DEF NewEdges, NoDay, EdgeState
  <2>2. edges = [s \in Symbols |-> NewEdges] BY DEF Init
  <2>3. edges \in [Symbols -> EdgeState] BY <2>1, <2>2
  <2>4. 0 \in Times BY DEF Times, Configured
  <2> QED BY <2>3, <2>4 DEF Init, Typed, Instants
<1>4. Finite BY FS_EmptySet DEF Init, Finite
<1>5. IndexInStep BY <1>1 DEF Init, IndexInStep, Opened
<1>6. OpenedAreAccounted
  <2>1. Cardinality(Opened) = 0 /\ Cardinality({}) = 0 BY <1>1, FS_EmptySet
  <2> QED BY <2>1 DEF Init, OpenedAreAccounted, Opened, Configured
<1>7. NoAnchorAfterClose BY <1>2 DEF NoAnchorAfterClose
<1>8. IdsAreNew
  <2>1. Cardinality({}) = 0 BY FS_EmptySet
  <2> QED BY <2>1 DEF Init, IdsAreNew
<1>9. WithinTheDay /\ LiveAgreesWithReplay
  BY <1>1 DEF Init, WithinTheDay, LiveAgreesWithReplay, Opened
<1>10. Remembered
  <2>1. \A s \in Symbols : edges[s].issuedDay <= edges[s].latest
    BY DEF Init, NewEdges, NoDay
  <2> QED BY <1>1, <1>2, <2>1 DEF Init, Remembered
<1>11. Waiting BY <1>2 DEF Init, Waiting
<1>12. Numbered
  <2>1. 0..(nextId - 1) = {} BY DEF Init
  <2>2. Ids(outstanding) = {} /\ {r.anchor.id : r \in rows} = {} BY DEF Init, Ids
  <2>3. \A s \in Symbols : bySymbol[s] = Ids({x \in outstanding : x.symbol = s})
    BY DEF Init, Ids
  <2> QED BY <2>1, <2>2, <2>3 DEF Init, Numbered
<1>13. Told BY <1>1 DEF Init, Told
<1> QED BY <1>3, <1>4, <1>5, <1>6, <1>7, <1>8, <1>9, <1>10, <1>11, <1>12, <1>13 DEF IInv

LEMMA StutterKeeps == ASSUME IInv, UNCHANGED vars PROVE IInv'
<1>1. UNCHANGED <<lifecycle, open, byLastSeen, edges, emitted, lastRanked, opened, closed,
                  outstanding, bySymbol, nextId, rows, clock, notices, minted, finished>>
  BY DEF vars, engine, collector
<1>2. Opened' = Opened /\ Anchors' = Anchors BY <1>1 DEF Opened, IsOpen, Anchors
<1>3. Typed' /\ Finite' BY <1>1 DEF IInv, Typed, Finite
<1>4. IndexInStep' /\ OpenedAreAccounted' /\ IdsAreNew' /\ WithinTheDay'
  BY <1>1 DEF IInv, IndexInStep, OpenedAreAccounted, IdsAreNew, WithinTheDay, Key, IsOpen
<1>5. NoAnchorAfterClose' /\ LiveAgreesWithReplay'
  BY <1>1, <1>2 DEF IInv, NoAnchorAfterClose, LiveAgreesWithReplay, Replayed
<1>6. Remembered' BY <1>1, <1>2 DEF IInv, Remembered, Issue, Identity, UtcDate, MarketDay
<1>7. Waiting' BY <1>1, <1>2 DEF IInv, Waiting, Ranks, IsOpen
<1>8. Numbered' BY <1>1 DEF IInv, Numbered, Ids
<1>9. Told' BY <1>1, <1>2 DEF IInv, Told
<1> QED BY <1>3, <1>4, <1>5, <1>6, <1>7, <1>8, <1>9 DEF IInv

LEMMA StepInvariant == ASSUME Configured, IInv, [Next]_vars PROVE IInv'
<1>1. CASE UNCHANGED vars BY <1>1, StutterKeeps
<1>2. CASE Ended BY <1>2, StutterKeeps DEF Ended
<1>3. ASSUME NEW r \in Times, Receive(r) PROVE IInv' BY <1>3, ReceiveKeeps
<1>4. ASSUME NEW r \in Times, Tick(r) PROVE IInv' BY <1>4, TickKeeps
<1>5. ASSUME NEW r \in Times, Finish(r) PROVE IInv' BY <1>5, FinishKeeps
<1> QED BY <1>1, <1>2, <1>3, <1>4, <1>5 DEF Next

(* With one number for each anchor and all numbers used, counting them     *)
(* gives the next number.                                                  *)
LEMMA EachHasItsRow == ASSUME IInv PROVE EveryAnchorHasItsRow
<1> DEFINE I == Ids(outstanding)
           J == {r.anchor.id : r \in rows}
           f == [x \in outstanding |-> x.id]
           g == [r \in rows |-> r.anchor.id]
<1>1. Numbered /\ Finite /\ nextId \in Nat /\ IsFiniteSet(outstanding) /\ IsFiniteSet(rows)
  BY DEF IInv, Typed, Finite
<1>2. I = {f[x] : x \in outstanding} /\ J = {g[r] : r \in rows} BY DEF Ids
<1>3. /\ \A x, y \in outstanding : f[x] = f[y] => x = y
      /\ \A q, r \in rows : g[q] = g[r] => q = r
  BY <1>1 DEF Numbered
<1>4. I \cap J = {} BY <1>1 DEF Numbered, Ids
<1>5. I \cup J = 0..(nextId - 1) BY <1>1 DEF Numbered
<1> HIDE DEF I, J, f, g
<1>6. IsFiniteSet(I) /\ Cardinality(I) = Cardinality(outstanding) BY <1>1, <1>2, <1>3, ImageOf
<1>7. IsFiniteSet(J) /\ Cardinality(J) = Cardinality(rows) BY <1>1, <1>2, <1>3, ImageOf
<1>8. Cardinality(I \cup J) = Cardinality(I) + Cardinality(J)
  <2>1. Cardinality(I \cup J) = Cardinality(I) + Cardinality(J) - Cardinality(I \cap J)
    BY <1>6, <1>7, FS_Union
  <2>2. Cardinality(I \cap J) = 0 BY <1>4, FS_EmptySet
  <2>3. Cardinality(I) \in Nat /\ Cardinality(J) \in Nat BY <1>6, <1>7, FS_CardinalityType
  <2> QED BY <2>1, <2>2, <2>3
<1>9. Cardinality(0..(nextId - 1)) = nextId
  <2>1. 0 \in Int /\ nextId - 1 \in Int BY <1>1
  <2>2. Cardinality(0..(nextId - 1)) = IF 0 > nextId - 1 THEN 0 ELSE (nextId - 1) - 0 + 1
    BY <2>1, FS_Interval
  <2> QED BY <1>1, <2>2
<1>10. Cardinality(outstanding) + Cardinality(rows) = nextId
  BY <1>5, <1>6, <1>7, <1>8, <1>9
<1> QED BY <1>1, <1>5, <1>10 DEF EveryAnchorHasItsRow, Numbered, I, J

LEMMA TypesHold == ASSUME Configured, IInv PROVE TypeOK
<1>1. Typed /\ IndexInStep BY DEF IInv
<1>2. \A s \in Symbols : IsOpen(s) => open[s] \in Opportunity BY <1>1 DEF Typed, IsOpen
<1>3. byLastSeen \subseteq (Times \X Symbols)
  <2>1. \A s \in Symbols : IsOpen(s) => Key(s) \in Times \X Symbols
    BY <1>2 DEF Key, Opportunity
  <2> QED BY <1>1, <2>1 DEF IndexInStep
<1> QED BY <1>1, <1>2, <1>3 DEF TypeOK, Typed, Opportunity

(* However late events come and whatever opens, is crowded out or is       *)
(* ranked: the index and the counters agree with what is open, an          *)
(* opportunity is closed once and at no instant before one of its anchors, *)
(* a move has an id of its own and lies in one market day, every anchor    *)
(* becomes one row, and a row that was not crowded out says of its         *)
(* opportunity what a replay of the recorded closes says.                  *)
THEOREM OutcomesAreTrue ==
    ASSUME Configured
    PROVE  Spec => [](/\ TypeOK /\ IndexInStep /\ OpenedAreAccounted
                      /\ NoAnchorAfterClose /\ IdsAreNew /\ WithinTheDay
                      /\ EveryAnchorHasItsRow /\ LiveAgreesWithReplay)
<1>1. Init => IInv BY InitInvariant
<1>2. IInv /\ [Next]_vars => IInv' BY StepInvariant
<1>3. IInv => /\ TypeOK /\ IndexInStep /\ OpenedAreAccounted
              /\ NoAnchorAfterClose /\ IdsAreNew /\ WithinTheDay
              /\ EveryAnchorHasItsRow /\ LiveAgreesWithReplay
  BY EachHasItsRow, TypesHold DEF IInv
<1> QED BY <1>1, <1>2, <1>3, PTL DEF Spec
=============================================================================
