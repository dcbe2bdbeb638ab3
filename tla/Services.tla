------------------------------- MODULE Services -------------------------------
(***************************************************************************)
(* The services that share no state the models keep: the journal-mode      *)
(* trader and eight parts of the server's process.  Each has a module of   *)
(* its own; here they stand side by side, so that what is claimed of each  *)
(* is claimed, checked and proved of one specification.  A behaviour       *)
(* follows one of them, named by part, from its initial state; the others  *)
(* stay at theirs.  Nothing is lost by that: no action of one reads or     *)
(* writes a variable of another, so interleaving them would only multiply  *)
(* the states.  What one part hands to another (events to the stream, the  *)
(* charted set to the scan, trades to the monitors) is an input of the     *)
(* part that receives it, chosen freely in its own module.                 *)
(***************************************************************************)
EXTENDS JournalTrader

CONSTANTS
    MaxTape, Quotes, StoreDayLen, Idle, MaxBuffered, MaxPerDay, Ttl,
    FeedLags,   \* OrderFlowStore
    Screens, Traders, Keys, Capacity, StreamMaxAlerts, MaxLatest,
    MaxChatter, Slots, MaxEvents,   \* EventStream
    Interval, Grace, Throttle, MaxClock, MaxPrints, MaxMoves,   \* FormingBars
    CoverageSymbols, MaxMisses, QuietCap, Universe,   \* ScanCoverage
    Conns, HubSymbols, Limit, MaxCharted, MaxVersion,   \* ChartHub
    Open, Regular, After, Close, Long, Short, FullTape, Retry,
    FeedMaxTime,   \* FeedWatch
    Needed, Cooldown, IgnitionMaxTime, MaxResumes,   \* IgnitionMonitor
    HaltsSymbols, HaltsDayLen, Ahead, Behind, MaxMarks, MaxSymbols,
    HaltsMaxTime, MaxStatuses   \* HaltLog

ASSUME StreamAssumption ==
    /\ Capacity \in Nat /\ StreamMaxAlerts \in Nat /\ MaxLatest \in Nat
    /\ MaxChatter \in Nat /\ Slots \in Nat /\ MaxEvents \in Nat
    /\ Screens \cap Traders = {}
\* None is no version of the charted set.
ASSUME HubAssumption ==
    /\ IsFiniteSet(Conns) /\ IsFiniteSet(HubSymbols) /\ MaxCharted \in Nat
    /\ None \notin Int
ASSUME CoverageAssumption ==
    MaxMisses \in Nat /\ QuietCap \in Nat /\ None # "new" /\ None # "old"
ASSUME IgnitionAssumption ==
    /\ Needed \in Nat \ {0} /\ Cooldown \in Nat
    /\ IgnitionMaxTime \in Nat /\ MaxResumes \in Nat
\* None is no day, no time and no kind of mark.
ASSUME HaltsAssumption ==
    /\ IsFiniteSet(HaltsSymbols)
    /\ HaltsDayLen \in Nat \ {0} /\ MaxMarks \in Nat \ {0}
    /\ HaltsMaxTime \in Nat /\ MaxStatuses \in Nat
    /\ None \notin Int /\ None # "Halted"
ASSUME FeedAssumption ==
    /\ Open \in Nat \ {0} /\ Regular \in Nat /\ After \in Nat /\ Close \in Nat
    /\ Open <= Regular /\ Regular <= After /\ After <= Close
    /\ Long \in Nat /\ Short \in Nat /\ Short <= Long
    /\ Retry \in Nat \ {0} /\ FeedMaxTime \in Nat

VARIABLES
    part,   \* the service this behaviour follows
    storeClock, storeHeard, storeDay, entry, storeLost, nextGen,
    discarded, budget, task, begun, spliced,   \* OrderFlowStore
    scanned, streamRead, streamLost, frames, frameEvent, streamAlerts,
    latest, chatter, tiered, streamConn, start, streamNext, sent, told,
    shows,   \* EventStream
    barsClock, subMinute, barsTracked, barsCharted, barsConfirmed,
    barsHeard, bar, began, finals, barsOfficial, candle, barsMoves,   \* FormingBars
    trackers, mover, quiet, coverageChart, misses, moverMisses,
    ignition, windows, universe, channels, coverageOfficial,
    coverageCharted, seeds, seeding, catalysts, lookups,   \* ScanCoverage
    hubCharted, version, held, hubChart, chartVersion, reading,   \* ChartHub
    feedNow, ticked, feedConn, downAt, carries, at, timeout, armed,
    lastData, feedUp, feed, blamed,   \* FeedWatch
    ignitionClock, ignitionPending, status, awaiting, alerted,
    resumes, lifts, ignitionAlerts,   \* IgnitionMonitor
    haltsDay, marks, haltsLost, since, count, offered, marked   \* HaltLog

Store == INSTANCE OrderFlowStore WITH
    DayLen <- StoreDayLen, clock <- storeClock, heard <- storeHeard,
    day <- storeDay, lost <- storeLost

\* None is no task and no boundary of one.
ASSUME StoreAssumption ==
    /\ MaxTape \in Nat /\ StoreDayLen \in Nat \ {0}
    /\ MaxBuffered \in Nat /\ MaxPerDay \in Nat
    /\ None \notin Int /\ None \notin Store!Tasks /\ None \notin Store!Boundaries

Stream == INSTANCE EventStream WITH
    MaxAlerts <- StreamMaxAlerts, alerts <- streamAlerts,
    conn <- streamConn, next <- streamNext,
    read <- streamRead, lost <- streamLost, event <- frameEvent

Bars == INSTANCE FormingBars WITH
    clock <- barsClock, heard <- barsHeard, official <- barsOfficial,
    sub <- subMinute, tracked <- barsTracked, charted <- barsCharted,
    confirmed <- barsConfirmed, moves <- barsMoves

\* None is no bar and no frame of a chart.
ASSUME BarsAssumption ==
    /\ Interval \in Nat \ {0} /\ Grace \in Nat /\ Throttle \in Nat
    /\ MaxClock \in Nat /\ MaxPrints \in Nat
    /\ None \notin Bars!Formed /\ None \notin Bars!Shown

Coverage == INSTANCE ScanCoverage WITH
    Symbols <- CoverageSymbols, chart <- coverageChart,
    official <- coverageOfficial, charted <- coverageCharted

Hub == INSTANCE ChartHub WITH
    Symbols <- HubSymbols, charted <- hubCharted, chart <- hubChart

Feed == INSTANCE FeedWatch WITH
    MaxTime <- FeedMaxTime, now <- feedNow, conn <- feedConn

Ignition == INSTANCE IgnitionMonitor WITH
    MaxTime <- IgnitionMaxTime, clock <- ignitionClock,
    pending <- ignitionPending, alerts <- ignitionAlerts

Halts == INSTANCE HaltLog WITH
    Symbols <- HaltsSymbols, DayLen <- HaltsDayLen,
    MaxTime <- HaltsMaxTime, day <- haltsDay, lost <- haltsLost

storeVars == <<storeClock, storeHeard, storeDay, entry, storeLost, nextGen,
    discarded, budget, task, begun, spliced>>
streamVars == <<scanned, streamRead, streamLost, frames, frameEvent, streamAlerts,
    latest, chatter, tiered, streamConn, start, streamNext, sent, told, shows>>
barsVars == <<barsClock, subMinute, barsTracked, barsCharted, barsConfirmed,
    barsHeard, bar, began, finals, barsOfficial, candle, barsMoves>>
coverageVars == <<trackers, mover, quiet, coverageChart, misses, moverMisses,
    ignition, windows, universe, channels, coverageOfficial, coverageCharted,
    seeds, seeding, catalysts, lookups>>
hubVars == <<hubCharted, version, held, hubChart, chartVersion, reading>>
feedVars == <<feedNow, ticked, feedConn, downAt, carries, at, timeout, armed,
    lastData, feedUp, feed, blamed>>
ignitionVars == <<ignitionClock, ignitionPending, status, awaiting, alerted,
    resumes, lifts, ignitionAlerts>>
haltsVars == <<haltsDay, marks, haltsLost, since, count, offered, marked>>

servicesVars ==
    <<part, vars, storeVars, streamVars, barsVars, coverageVars,
      hubVars, feedVars, ignitionVars, haltsVars>>

Parts == {"trader", "store", "stream", "bars", "coverage", "hub", "feed", "ignition", "halts"}

-----------------------------------------------------------------------------
ServicesInit ==
    /\ part \in Parts
    /\ Init
    /\ Store!Init
    /\ Stream!Init
    /\ Bars!Init
    /\ Coverage!Init
    /\ Hub!Init
    /\ Feed!Init
    /\ Ignition!Init
    /\ Halts!Init
    \* One initial state is enough for a part at rest.
    /\ part # "bars" => subMinute /\ barsTracked

TraderStep ==
    /\ part = "trader" /\ Next
    /\ UNCHANGED <<part, storeVars, streamVars, barsVars, coverageVars, hubVars,
                   feedVars, ignitionVars, haltsVars>>

StoreStep ==
    /\ part = "store" /\ Store!Next
    /\ UNCHANGED <<part, vars, streamVars, barsVars, coverageVars, hubVars,
                   feedVars, ignitionVars, haltsVars>>

StreamStep ==
    /\ part = "stream" /\ Stream!Next
    /\ UNCHANGED <<part, vars, storeVars, barsVars, coverageVars, hubVars,
                   feedVars, ignitionVars, haltsVars>>

BarsStep ==
    /\ part = "bars" /\ Bars!Next
    /\ UNCHANGED <<part, vars, storeVars, streamVars, coverageVars, hubVars,
                   feedVars, ignitionVars, haltsVars>>

CoverageStep ==
    /\ part = "coverage" /\ Coverage!Next
    /\ UNCHANGED <<part, vars, storeVars, streamVars, barsVars, hubVars,
                   feedVars, ignitionVars, haltsVars>>

HubStep ==
    /\ part = "hub" /\ Hub!Next
    /\ UNCHANGED <<part, vars, storeVars, streamVars, barsVars, coverageVars,
                   feedVars, ignitionVars, haltsVars>>

FeedStep ==
    /\ part = "feed" /\ Feed!Next
    /\ UNCHANGED <<part, vars, storeVars, streamVars, barsVars, coverageVars,
                   hubVars, ignitionVars, haltsVars>>

IgnitionStep ==
    /\ part = "ignition" /\ Ignition!Next
    /\ UNCHANGED <<part, vars, storeVars, streamVars, barsVars, coverageVars,
                   hubVars, feedVars, haltsVars>>

HaltsStep ==
    /\ part = "halts" /\ Halts!Next
    /\ UNCHANGED <<part, vars, storeVars, streamVars, barsVars, coverageVars,
                   hubVars, feedVars, ignitionVars>>

ServicesNext ==
    \/ TraderStep \/ StoreStep \/ StreamStep \/ BarsStep \/ CoverageStep
    \/ HubStep \/ FeedStep \/ IgnitionStep \/ HaltsStep

ServicesSpec == ServicesInit /\ [][ServicesNext]_servicesVars

\* What the trader's loop and the scan loop's chart tick are sure to do
\* (JournalTrader!FairSpec, FormingBars!Fairness).  A behaviour follows one part,
\* so one condition on the disjunction asks of each part what its own would; of
\* the bars it asks no more than that the tick and the clock do not both stop.
FairStep ==
    \/ part = "trader" /\ Run /\ UNCHANGED barsVars
    \/ part = "bars" /\ (Bars!Tick \/ Bars!Advance) /\ UNCHANGED vars

ServicesFairSpec == ServicesSpec /\ WF_<<vars, barsVars>>(FairStep)

-----------------------------------------------------------------------------
(* The properties, each of the module it names; of the invariants of a module  *)
(* one includes its type invariant.  JournalTrader's own are                   *)
(* MemoryFollowsJournal, NoVerdictLost, OneEntryPerDay and PositionResolves.   *)

\* An engine of the order-flow store counts every trade of the day exactly once
\* when its history is spliced in, however history and live prints interleave; and
\* no backfill is forgotten: a symbol that waits for one has its task, every
\* attempt begun is in flight, committed or counted, and none was over budget.
StoreLosesNothing ==
    /\ Store!TypeOK
    /\ Store!NothingCountedTwice
    /\ Store!SpliceLosesNothing
    /\ Store!LiteHasHistory
    /\ Store!PendingHasTask
    /\ Store!AttemptsAccounted
    /\ Store!BudgetHolds

\* Every event the scan sends becomes one frame, in order, or is lost when the
\* collector falls a whole channel behind.  A connection overtaken by the frames
\* is told of what it missed (a screen) or closed (a trader): of the events its
\* connection has passed, no client goes without one it does not know of, but for
\* those the collector lost, of which the server tells nobody but its log.
StreamTellsEveryGap ==
    /\ Stream!Accounted
    /\ Stream!NoSilentGap
    /\ Stream!TraderMissesNothing

\* After a gap, and through the snapshot that mends it, a screen that has read
\* everything shows the newest state of every key that is still kept, and
\* floods of unconfirmed ignition push no alert out of the replay.
StreamMends ==
    /\ Stream!TypeOK
    /\ Stream!CaughtUpIsCurrent
    /\ Stream!AlertsSurviveChatter

\* A candle is the fold of exactly the prints of its minute that came in time to
\* the series that sent it; each of a symbol's two series closes a minute by one
\* frame at most, and both close it only when it was handed from one to the other;
\* it gives way to the official bar, except where the chart has none subscribed.
BarsAreTrue ==
    /\ Bars!TypeOK
    /\ Bars!CandleIsItsPrints
    /\ Bars!ClosedOnce
    /\ Bars!OfficialStands

\* Every candle whose series is kept is closed in time, also in a market that goes
\* quiet and when its prints go to the other series.
BarsClose == Bars!CandleCloses

\* Symbols tracked by some tier are subscribed and have that tier's monitors,
\* all others are not and have none, however sources come, go and overlap.
CoverageMatches ==
    /\ Coverage!TypeOK
    /\ Coverage!WantedIsSubscribed
    /\ Coverage!UnwantedIsUnsubscribed
    /\ Coverage!MonitorsMatchTiers

\* A symbol that changes its tier keeps what its ignition monitor has seen.
CoverageKeepsHistory == Coverage!HistorySurvives /\ Coverage!UpgradeKeepsHistory

\* The hub charts what the open connections hold, and the scan that believes
\* itself up to date has that set.
HubFollows ==
    /\ Hub!TypeOK
    /\ Hub!CountsMatchHolders
    /\ Hub!ScanFollowsCharts

\* Silence of an open market ends a connection in time, and what clients are
\* told of the feed is the connection's state and the outage's first cause.
FeedIsWatched ==
    /\ Feed!TypeOK
    /\ Feed!SilenceIsBounded
    /\ Feed!RegularSilenceIsShort
    /\ Feed!UpMeansConnected
    /\ Feed!FirstCauseStands

\* A halt-lift comes of a halt, once, and alerts of the tape keep their distance.
IgnitionIsEarned ==
    /\ Ignition!TypeOK
    /\ Ignition!LiftsAreEarned
    /\ Ignition!AlertsAreSpaced

\* The halt log is in order and discloses every status it made no mark of.
HaltsAreDisclosed ==
    /\ Halts!TypeOK
    /\ Halts!MarksTellTheDay
    /\ Halts!EveryStatusDisclosed
=============================================================================
