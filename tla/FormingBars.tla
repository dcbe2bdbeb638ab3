---------------------------- MODULE FormingBars ----------------------------
(***************************************************************************)
(* The forming candle of one symbol at one interval, market-data           *)
(* forming_bar.rs and the send paths of live.rs, and the client's merge.   *)
(*                                                                         *)
(* The scan keeps two series of it: one of a symbol the funnel tracks      *)
(* (live_bars, or sub_minute_bars), one of a symbol some client charts     *)
(* (chart_bars, or chart_sub_minute_bars).  A print goes to one of them,   *)
(* frames of both go to the same candle.                                   *)
(*                                                                         *)
(* A print is its place among those its series heard; open, high, low and  *)
(* close are determined by the set of prints that may move the price, and  *)
(* the volume by the set that may add to it.                               *)
(***************************************************************************)
EXTENDS Integers, Sequences, FiniteSets

CONSTANTS
    Interval,     \* length of a bucket
    Grace,        \* BAR_CLOSE_GRACE_SECS
    Throttle,     \* LIVE_BAR_BROADCAST_INTERVAL
    MaxClock, MaxPrints, MaxMoves,      \* bounds of the instance
    None

Series == {"tracked", "charted"}

VARIABLES
    clock,
    sub,        \* is this the 30-second interval, which has no official bar?
    tracked,    \* is the symbol one of the funnel's?
    charted,    \* does the scan have it as charted?
    confirmed,  \* chart_official: are its official bars subscribed for the chart?
    heard,      \* the prints each series was given that may move something
    bar,        \* BarSeries: the forming bar of each, or None
    began,      \* prints each had been given when it was created
    finals,     \* final frames each has sent of a bucket
    official,   \* buckets whose official bar has arrived
    candle,     \* what a client that charts the symbol shows of each bucket
    moves

tiers == <<sub, tracked, charted, confirmed>>
vars == <<clock, tiers, heard, bar, began, finals, official, candle, moves>>

Bucket(t) == t \div Interval
Buckets == 0..Bucket(MaxClock)
Prints == [bucket : Buckets, moves : {"price", "volume", "nothing"}]

(* The interval is closed by final frames of the series' own.              *)
OwnFinal(s) == sub \/ (s = "charted" /\ ~confirmed)

(***************************************************************************)
(* The client: reconcileBars keeps a final bar against a forming one.      *)
(***************************************************************************)
Show(c, b, frame) ==
    IF c[b] # None /\ c[b].final /\ ~frame.final THEN c ELSE [c EXCEPT ![b] = frame]
Frame(s, f, isFinal) ==
    [by |-> s, price |-> f.price, volume |-> f.volume, final |-> isFinal,
     from |-> began[s], upto |-> Len(heard[s]), confirmed |-> confirmed]
OfficialFrame == [by |-> "official", price |-> {}, volume |-> {}, final |-> TRUE,
                  from |-> 0, upto |-> 0, confirmed |-> TRUE]

(***************************************************************************)
(* The series.                                                             *)
(***************************************************************************)
(* What a bar and a frame of the chart are.                                *)
Formed == [bucket : Nat, price : SUBSET Nat, volume : SUBSET Nat, sentAt : Int,
           dirty : BOOLEAN, closed : BOOLEAN]
Shown == [by : Series \cup {"official"}, price : SUBSET Nat, volume : SUBSET Nat,
          final : BOOLEAN, from : Nat, upto : Nat, confirmed : BOOLEAN]

NewBar(b, sentAt) == [bucket |-> b, price |-> {}, volume |-> {}, sentAt |-> sentAt,
                      dirty |-> FALSE, closed |-> FALSE]

(* FormingBar::apply, of print i.                                          *)
Apply(f, i, p) ==
    [f EXCEPT !.price = IF p.moves = "price" THEN @ \cup {i} ELSE @,
              !.volume = @ \cup {i}, !.dirty = TRUE]

Due(f) == f.dirty /\ ~f.closed /\ clock - f.sentAt >= Throttle

(* A throttled update of the bar, when it has a price.                     *)
Sends(f) == Due(f) /\ f.price # {}
Sent(f) == IF Sends(f) THEN [f EXCEPT !.sentAt = clock, !.dirty = FALSE] ELSE f

(* BarSeries::on_trade: prints of an older or a closed bucket are late.    *)
IgnoresNothing(s, p) == p.moves = "nothing"
Ignores(s, p) ==
    \/ p.moves = "nothing"
    \/ bar[s] # None /\ p.bucket < bar[s].bucket
    \/ bar[s] # None /\ p.bucket = bar[s].bucket /\ bar[s].closed
Moved(f, i, p) == IF f = None THEN Apply(NewBar(p.bucket, clock - Throttle), i, p)
                  ELSE IF f.bucket = p.bucket THEN Apply(f, i, p)
                  ELSE Apply(NewBar(p.bucket, f.sentAt), i, p)

Rollover(s, p) == /\ OwnFinal(s) /\ bar[s] # None /\ bar[s].bucket # p.bucket
                  /\ ~bar[s].closed /\ bar[s].price # {}

(* A print of a tracked symbol is for the tracked series, of one only      *)
(* charted for the charted series, of any other for none.                  *)
Routed(s) == \/ s = "tracked" /\ tracked
             \/ s = "charted" /\ charted /\ ~tracked
Given == Len(heard["tracked"]) + Len(heard["charted"])

(* One print, step_series.                                                 *)
HearPrint(s, p) ==
    /\ Routed(s) /\ Given < MaxPrints /\ p.bucket <= Bucket(clock)
    /\ heard' = IF p.moves = "nothing" THEN heard
                ELSE [heard EXCEPT ![s] = Append(@, p)]
    /\ \/ Ignores(s, p) /\ UNCHANGED <<bar, candle, finals>>
       \/ /\ ~Ignores(s, p)
          /\ LET f == bar[s]
                 next == Moved(f, Len(heard[s]) + 1, p)
                 closed == IF Rollover(s, p) THEN Show(candle, f.bucket, Frame(s, f, TRUE))
                           ELSE candle
             IN  /\ bar' = [bar EXCEPT ![s] = Sent(next)]
                 /\ candle' = IF Sends(next)
                              THEN Show(closed, p.bucket,
                                        [Frame(s, next, FALSE) EXCEPT !.upto = @ + 1])
                              ELSE closed
                 /\ finals' = IF Rollover(s, p) THEN [finals EXCEPT ![s][f.bucket] = @ + 1]
                              ELSE finals
    /\ UNCHANGED <<clock, tiers, began, official, moves>>

(* The clock side, flush_series, of a series whose bar is f.               *)
EndedLate(f) == FALSE
Ended(f) == clock >= (f.bucket + 1) * Interval + Grace

Closed(f) == [f EXCEPT !.closed = TRUE, !.dirty = FALSE]
Forming(f) == f # None /\ ~f.closed
Flushed(f) == IF ~Forming(f) THEN f ELSE IF Ended(f) THEN Closed(f) ELSE Sent(f)
SendsFinal(s, f) == Forming(f) /\ Ended(f) /\ OwnFinal(s) /\ f.price # {}
ShownBy(s, f, c) ==
    IF SendsFinal(s, f) THEN Show(c, f.bucket, Frame(s, f, TRUE))
    ELSE IF Forming(f) /\ ~Ended(f) /\ Sends(f) THEN Show(c, f.bucket, Frame(s, f, FALSE)) ELSE c
Counted(s, f, n) == IF SendsFinal(s, f) THEN [n EXCEPT ![f.bucket] = @ + 1] ELSE n

(* The chart tick flushes what is left of both series, the tracked first.  *)
NoFinals == [b \in Buckets |-> 0]
Flush(t, c, n) ==
    /\ bar' = [s \in Series |-> Flushed(IF s = "tracked" THEN t ELSE c)]
    /\ finals' = [s \in Series |-> IF s = "tracked" THEN Counted(s, t, finals[s])
                                   ELSE Counted(s, c, n)]
    /\ candle' = ShownBy("charted", c, ShownBy("tracked", t, candle))
    /\ UNCHANGED <<clock, sub, tracked, heard, official>>

Tick ==
    /\ Flush(bar["tracked"], bar["charted"], finals["charted"])
    /\ UNCHANGED <<charted, confirmed, began, moves>>

(* The tick finds a changed set of charts first.  A symbol just charted    *)
(* has no series yet; one no longer charted loses its own.                 *)
Chart ==
    /\ ~charted /\ moves < MaxMoves
    /\ moves' = moves + 1 /\ charted' = TRUE
    /\ confirmed' \in BOOLEAN      \* subscribe_chart may fail
    /\ Flush(bar["tracked"], bar["charted"], finals["charted"])
    /\ UNCHANGED began

Unchart ==
    /\ charted /\ moves < MaxMoves
    /\ moves' = moves + 1 /\ charted' = FALSE /\ confirmed' = FALSE
    /\ began' = [began EXCEPT !["charted"] = Len(heard["charted"])]
    /\ Flush(bar["tracked"], None, NoFinals)

(* The funnel takes the symbol; a series of its chart stays as it is.      *)
Track ==
    /\ ~tracked /\ moves < MaxMoves
    /\ moves' = moves + 1 /\ tracked' = TRUE
    /\ UNCHANGED <<clock, sub, charted, confirmed, heard, bar, began, finals, official, candle>>

(* The funnel drops it: its series goes, and a later one knows nothing.    *)
Untrack ==
    /\ tracked /\ moves < MaxMoves
    /\ moves' = moves + 1 /\ tracked' = FALSE
    /\ bar' = [bar EXCEPT !["tracked"] = None]
    /\ began' = [began EXCEPT !["tracked"] = Len(heard["tracked"])]
    /\ finals' = [finals EXCEPT !["tracked"] = NoFinals]
    /\ UNCHANGED <<clock, sub, charted, confirmed, heard, official, candle>>

(* The feed is lost and the scan starts again, with no series, no charts   *)
(* and the symbols of its seeds.                                           *)
Reconnect ==
    /\ moves < MaxMoves
    /\ moves' = moves + 1
    /\ tracked' \in BOOLEAN /\ charted' = FALSE /\ confirmed' = FALSE
    /\ bar' = [s \in Series |-> None]
    /\ began' = [s \in Series |-> Len(heard[s])]
    /\ finals' = [s \in Series |-> NoFinals]
    /\ UNCHANGED <<clock, sub, heard, official, candle>>

(* The official minute bar, close_superseded: it supersedes the estimate   *)
(* of both series.  Any tier may have subscribed it.                       *)
Superseded(f, b) == IF f # None /\ f.bucket = b THEN Closed(f) ELSE f
Official(b) ==
    /\ ~sub /\ b \notin official /\ clock >= (b + 1) * Interval
    /\ official' = official \cup {b}
    /\ bar' = [s \in Series |-> Superseded(bar[s], b)]
    /\ candle' = Show(candle, b, OfficialFrame)
    /\ UNCHANGED <<clock, tiers, heard, began, finals, moves>>

(* A correction of one, also of one not received, is sent on and touches   *)
(* no series.                                                              *)
Corrected(b) ==
    /\ ~sub /\ clock >= (b + 1) * Interval
    /\ candle' = Show(candle, b, OfficialFrame)
    /\ UNCHANGED <<clock, tiers, heard, bar, began, finals, official, moves>>

Advance == clock < MaxClock /\ clock' = clock + 1
           /\ UNCHANGED <<tiers, heard, bar, began, finals, official, candle, moves>>

Init == /\ clock = 0 /\ sub \in BOOLEAN
        /\ tracked \in BOOLEAN /\ charted = FALSE /\ confirmed = FALSE
        /\ heard = [s \in Series |-> <<>>] /\ bar = [s \in Series |-> None]
        /\ began = [s \in Series |-> 0] /\ finals = [s \in Series |-> NoFinals]
        /\ official = {} /\ candle = [b \in Buckets |-> None] /\ moves = 0

Next == \/ Tick \/ Chart \/ Unchart \/ Track \/ Untrack \/ Reconnect \/ Advance
        \/ \E s \in Series, p \in Prints : HearPrint(s, p)
        \/ \E b \in Buckets : Official(b) \/ Corrected(b)

Spec == Init /\ [][Next]_vars

(* The runtime polls the chart tick, and time passes.                      *)
Fairness == WF_vars(Tick) /\ WF_vars(Advance)
FairSpec == Spec /\ Fairness

(***************************************************************************)
(* Properties.                                                             *)
(***************************************************************************)
(* Every variable has its type, a series is kept only of a symbol that is  *)
(* tracked or charted, and no candle is shown without a price.             *)
TypeOK ==
    /\ clock \in 0..MaxClock /\ official \subseteq Buckets
    /\ sub \in BOOLEAN /\ tracked \in BOOLEAN /\ charted \in BOOLEAN
    /\ confirmed \in BOOLEAN
    /\ ~tracked => bar["tracked"] = None
    /\ ~charted => bar["charted"] = None /\ ~confirmed
    /\ \A s \in Series : bar[s] # None =>
          /\ bar[s].bucket \in 0..Bucket(clock)
          /\ bar[s].price \subseteq bar[s].volume
          /\ bar[s].volume \subseteq began[s] + 1 .. Len(heard[s])
          /\ bar[s].closed => ~bar[s].dirty
    /\ \A b \in Buckets : candle[b] # None =>
          candle[b].by = "official" \/ candle[b].price # {}

(* The prints of bucket b a series was given, from its creation to a       *)
(* frame, that were not late: no print of a newer bucket came before them. *)
InTime(s, b, from, upto) ==
    {i \in from + 1 .. upto :
        /\ heard[s][i].bucket = b
        /\ \A j \in from + 1 .. i : heard[s][j].bucket <= b}

(* A candle, forming or closed, is the fold of every print of its bucket   *)
(* that came in time to the series that sent it and of no other: no late   *)
(* print resets it or moves it, no print of a burst is lost to the         *)
(* throttle when the bucket closes.  A bucket handed from one series to    *)
(* the other has a fold of each, and the last final frame stands.          *)
CandleIsItsPrints ==
    \A b \in Buckets : (candle[b] # None /\ candle[b].by # "official") =>
        LET c == candle[b] IN
        /\ c.volume = InTime(c.by, b, c.from, c.upto)
        /\ c.price = {i \in c.volume : heard[c.by][i].moves = "price"}

(* Bucket b was handed over: the series as it is has been given a print.   *)
GivenOf(s, b) == \E i \in began[s] + 1 .. Len(heard[s]) : heard[s][i].bucket = b

(* A series closes a bucket by one final frame, sent when a newer print    *)
(* rolls it or when its time has passed, never by both; a second final     *)
(* frame of a bucket comes of the other series only, and only when the     *)
(* symbol was promoted or demoted so that both were given prints of it.    *)
ClosedOnce ==
    \A b \in Buckets :
        /\ \A s \in Series : finals[s][b] <= 1
        /\ (\A s \in Series : finals[s][b] = 1) => \A s \in Series : GivenOf(s, b)

(* The official bar stands, whatever estimates are sent after it: a print  *)
(* of its minute may still open a forming bar, since a series marks only   *)
(* the bucket it is at as superseded.  Only where the chart's own          *)
(* subscription failed may its minute close come from trades instead.      *)
OfficialStands ==
    \A b \in official :
        \/ candle[b].by = "official"
        \/ candle[b].by = "charted" /\ candle[b].final /\ ~candle[b].confirmed

(* A candle with a price is closed while its series is kept: by the series' *)
(* own final frame or the official bar, or, where there will be an official *)
(* bar, by waiting for it.  A quiet market does not leave it open, nor does *)
(* a series that is given no more prints because the symbol was promoted.   *)
CandleCloses ==
    \A s \in Series, b \in {u \in Buckets : (u + 1) * Interval + Grace <= MaxClock} :
        (bar[s] # None /\ bar[s].bucket = b /\ bar[s].price # {} /\ Bucket(clock) = b)
        ~> \/ bar[s] = None
           \/ finals[s][b] = 1 \/ b \in official
           \/ ~OwnFinal(s) /\ (bar[s].closed \/ bar[s].bucket > b)
=============================================================================
