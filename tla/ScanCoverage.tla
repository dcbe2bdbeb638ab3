---------------------------- MODULE ScanCoverage ----------------------------
(***************************************************************************)
(* market-data's live scan, live.rs: four sources want a symbol, the       *)
(* funnel, the movers leaderboard, the quiet watch and clients' charts,    *)
(* each with its own schedule, and share its monitors and its channels on  *)
(* the stream.  A monitor is "new" until a trade gives it history.         *)
(*                                                                         *)
(* The results of background work, a rescan, daily seeds and a catalyst    *)
(* lookup, arrive at the loop some time after what they answer.            *)
(***************************************************************************)
EXTENDS Integers, FiniteSets

CONSTANTS
    Symbols,
    MaxMisses,      \* MAX_CONSECUTIVE_WATCHLIST_MISSES
    QuietCap,       \* QUIET_TOTAL_CAP
    Universe,       \* IGNITION_UNIVERSE_MODE
    None

VARIABLES
    trackers, mover, quiet, chart,      \* the symbols each source tracks
    misses, moverMisses,    \* consecutive scans a tracked symbol was missing from
    ignition,   \* the symbol's full ignition monitor
    windows,    \* its momentum window, consolidation and halt monitors
    universe,   \* its trades-only ignition monitor
    channels,   \* what the stream sends of it: "none", "chart" or "full"
    official,   \* charted symbols whose official minute bar is subscribed
    charted,    \* the symbols clients chart, in the hub
    seeds, seeding,     \* mover_seed_cache, mover_seed_inflight
    catalysts, lookups  \* the shared catalyst cache; lookups in flight

tiers == <<trackers, mover, quiet, misses, moverMisses>>
monitors == <<ignition, windows, universe>>
clients == <<chart, official, charted>>
background == <<seeds, seeding, catalysts, lookups>>
vars == <<tiers, monitors, channels, clients, background>>

(***************************************************************************)
(* Helpers.                                                                *)
(***************************************************************************)
(* diff_watchlist: the misses after a scan, and the symbols it drops.      *)
MissesAt(tracked, wanted, count) ==
    [s \in Symbols |-> IF s \in tracked /\ s \notin wanted
                       THEN IF count[s] < MaxMisses THEN count[s] + 1 ELSE 0
                       ELSE IF s \in tracked THEN 0 ELSE count[s]]
Dropped(tracked, wanted, count) ==
    {s \in tracked \ wanted : count[s] >= MaxMisses}

Created(monitor, added) ==      \* entry().or_insert
    [s \in Symbols |-> IF s \in added /\ monitor[s] = None THEN "new" ELSE monitor[s]]
Removed(monitor, gone) ==
    [s \in Symbols |-> IF s \in gone THEN None ELSE monitor[s]]
Subscribed(now, added) ==
    [s \in Symbols |-> IF s \in added THEN "full" ELSE now[s]]
Unsubscribed(now, gone) ==
    [s \in Symbols |-> IF s \in gone THEN "none" ELSE now[s]]

(***************************************************************************)
(* A rescan's result: the quiet watch first, then the funnel.              *)
(***************************************************************************)
(* untrack_symbol.                                                         *)
UntrackAll(fell) == fell
Untrack(fell) == fell \ mover
IgnitionGone(fell, q) == Untrack(fell) \ q

(* A charted symbol keeps its channels when its last tier drops it.        *)
KeepsChannels(s) == s \in chart

(* quiet_watch_with_grace: whatever is selected, then symbols selected     *)
(* recently, as many as the cap leaves room for.                           *)
QuietWanted(selected, kept) ==
    /\ kept \subseteq selected \cup quiet
    /\ Cardinality(kept) <= QuietCap
    /\ selected \subseteq kept \/ (kept \subseteq selected /\ Cardinality(kept) = QuietCap)

Rescan(shortlist, kept, seeded) ==
    LET quietGone == (quiet \ kept) \ (trackers \cup mover)
        quietNew == (kept \ quiet) \ (trackers \cup mover)
        ignition1 == Created(Removed(ignition, quietGone), quietNew)
        channels1 == Subscribed(Unsubscribed(channels, {s \in quietGone : ~KeepsChannels(s)}),
                                quietNew)
        fell == Dropped(trackers, shortlist, misses)
        added == (shortlist \ trackers) \cap seeded
        windows2 == Removed(windows, Untrack(fell))
        ignition2 == Removed(ignition1, IgnitionGone(fell, kept))
        channels2 == Unsubscribed(channels1,
                        {s \in fell : s \notin mover \cup kept /\ ~KeepsChannels(s)})
    IN  /\ quiet' = kept
        /\ misses' = MissesAt(trackers, shortlist, misses)
        /\ trackers' = (trackers \ fell) \cup added
        /\ windows' = Created(windows2, added)
        /\ ignition' = Created(ignition2, added)
        /\ channels' = Subscribed(channels2, added \ (mover \cup kept))
        /\ catalysts' = catalysts \ fell
        /\ lookups' = lookups \cup added
        /\ UNCHANGED <<mover, moverMisses, universe, clients, seeds, seeding>>

RescanArrives ==
    \E shortlist, selected, kept, seeded \in SUBSET Symbols :
        QuietWanted(selected, kept) /\ Rescan(shortlist, kept, seeded)

(* A lookup ends: its record is cached, or the service had none.           *)
CatalystArrives(s) ==
    /\ s \in lookups /\ lookups' = lookups \ {s}
    /\ catalysts' \in {catalysts, catalysts \cup {s}}
    /\ UNCHANGED <<tiers, monitors, channels, clients, seeds, seeding>>

(***************************************************************************)
(* The movers tick: the leaderboard, recently confirmed ignitions and the  *)
(* symbols of managed positions.                                           *)
(***************************************************************************)
(* A monitor of the whole-market tier is upgraded, not replaced.           *)
UpgradeForgotten(new) == {}
Upgraded(new) == {s \in new : ignition[s] = None /\ universe[s] # None}

MoversTick(wanted) ==
    LET fell == Dropped(mover, wanted, moverMisses)
        gone == fell \ trackers
        added == {s \in wanted \ mover : s \in trackers \cup seeds}
        new == added \ trackers
        upgraded == Upgraded(new)
        ignition1 == Removed(ignition, gone \ quiet)
        missing == wanted \ (trackers \cup seeds)
    IN  /\ moverMisses' = MissesAt(mover, wanted, moverMisses)
        /\ mover' = (mover \ fell) \cup added
        /\ windows' = Created(Removed(windows, gone), new)
        /\ ignition' = Created([s \in Symbols |-> IF s \in upgraded THEN universe[s]
                                                  ELSE ignition1[s]], new)
        /\ universe' = Removed(universe, upgraded)
        /\ channels' = Subscribed(Unsubscribed(channels,
                            {s \in gone : s \notin quiet /\ ~KeepsChannels(s)}), new \ quiet)
        /\ seeding' = IF seeding = {} THEN missing ELSE seeding
        /\ UNCHANGED <<trackers, quiet, misses, clients, seeds, catalysts, lookups>>

SeedsArrive ==
    /\ seeding # {}
    /\ \E got \in SUBSET seeding : seeds' = seeds \cup got      \* {}: the fetch failed
    /\ seeding' = {}
    /\ UNCHANGED <<tiers, monitors, channels, clients, catalysts, lookups>>

(***************************************************************************)
(* The market.                                                             *)
(***************************************************************************)
(* A trade reaches the loop of a symbol the stream sends trades of.        *)
Traded(s) ==
    /\ Universe \/ channels[s] # "none"
    /\ \/ /\ ignition[s] # None
          /\ ignition' = [ignition EXCEPT ![s] = "old"] /\ UNCHANGED universe
       \/ /\ ignition[s] = None /\ Universe
          /\ universe' = [universe EXCEPT ![s] = IF @ = None THEN "new" ELSE "old"]
          /\ UNCHANGED ignition
    /\ UNCHANGED <<tiers, windows, channels, clients, background>>

EvictIdle(s) ==
    /\ universe[s] # None /\ universe' = [universe EXCEPT ![s] = None]
    /\ UNCHANGED <<tiers, ignition, windows, channels, clients, background>>

(***************************************************************************)
(* Charts.                                                                 *)
(***************************************************************************)
ClientCharts(s) ==
    /\ charted' = (charted \ {s}) \cup ({s} \ charted)
    /\ UNCHANGED <<tiers, monitors, channels, chart, official, background>>

Tiered == trackers \cup mover \cup quiet

ChartTick ==
    /\ chart # charted
    /\ LET added == charted \ chart
           removed == chart \ charted
           opened == [s \in Symbols |-> IF s \in added \ Tiered THEN "chart" ELSE
                          IF s \in removed \ Tiered THEN "none" ELSE channels[s]]
       IN  channels' = opened /\ official' = (official \ removed) \cup added
    /\ chart' = charted
    /\ UNCHANGED <<tiers, monitors, charted, background>>

(* The stream ends: a new run starts from nothing but the hub, the movers  *)
(* and the catalyst cache, which outlive it.                               *)
Reconnect ==
    /\ trackers' = {} /\ mover' = {} /\ quiet' = {} /\ chart' = {} /\ official' = {}
    /\ misses' = [s \in Symbols |-> 0] /\ moverMisses' = [s \in Symbols |-> 0]
    /\ ignition' = [s \in Symbols |-> None] /\ windows' = [s \in Symbols |-> None]
    /\ universe' = [s \in Symbols |-> None] /\ channels' = [s \in Symbols |-> "none"]
    /\ seeds' = {} /\ seeding' = {} /\ lookups' = {}
    /\ UNCHANGED <<charted, catalysts>>

Init ==
    /\ trackers = {} /\ mover = {} /\ quiet = {} /\ chart = {} /\ official = {}
    /\ misses = [s \in Symbols |-> 0] /\ moverMisses = [s \in Symbols |-> 0]
    /\ ignition = [s \in Symbols |-> None] /\ windows = [s \in Symbols |-> None]
    /\ universe = [s \in Symbols |-> None] /\ channels = [s \in Symbols |-> "none"]
    /\ seeds = {} /\ seeding = {} /\ lookups = {} /\ charted = {} /\ catalysts = {}

Next ==
    \/ RescanArrives \/ SeedsArrive \/ ChartTick \/ Reconnect
    \/ \E wanted \in SUBSET Symbols : MoversTick(wanted)
    \/ \E s \in Symbols : CatalystArrives(s) \/ Traded(s) \/ EvictIdle(s) \/ ClientCharts(s)

Spec == Init /\ [][Next]_vars

(***************************************************************************)
(* Properties.                                                             *)
(***************************************************************************)
Monitor == {None, "new", "old"}
TypeOK ==
    /\ trackers \subseteq Symbols /\ mover \subseteq Symbols /\ quiet \subseteq Symbols
    /\ Cardinality(quiet) <= QuietCap
    /\ misses \in [Symbols -> 0..MaxMisses] /\ moverMisses \in [Symbols -> 0..MaxMisses]
    /\ \A s \in Symbols : /\ s \notin trackers => misses[s] = 0
                          /\ s \notin mover => moverMisses[s] = 0
    /\ ignition \in [Symbols -> Monitor] /\ universe \in [Symbols -> Monitor]
    /\ windows \in [Symbols -> {None, "new"}]
    /\ channels \in [Symbols -> {"none", "chart", "full"}]
    /\ official \subseteq chart /\ seeds \cup seeding \subseteq Symbols
    /\ catalysts \cup lookups \subseteq Symbols

(* However the sources come and go, a symbol a tier tracks is sent in full *)
(* and a symbol only charted is sent at least its chart's channels: no     *)
(* source's departure takes another's data away.                           *)
WantedIsSubscribed ==
    \A s \in Symbols : /\ s \in Tiered => channels[s] = "full"
                       /\ s \in chart => channels[s] # "none"

(* A symbol nobody wants is not sent: subscriptions do not accumulate over *)
(* a day of promotions and drops.                                          *)
UnwantedIsUnsubscribed ==
    \A s \in Symbols : channels[s] # "none" => s \in Tiered \cup chart

(* The monitors are those of the tiers that track the symbol, no fewer and *)
(* no more: the quiet watch keeps its ignition monitor only, the funnel    *)
(* and the movers keep all.                                                *)
MonitorsMatchTiers ==
    \A s \in Symbols : /\ ignition[s] # None <=> s \in Tiered
                       /\ windows[s] # None <=> s \in trackers \cup mover

(* A symbol that some tier keeps across a change of tiers keeps its        *)
(* ignition history, unless the quiet watch gives it up at that moment.    *)
HistorySurvives ==
    [][\A s \in Symbols :
          (ignition[s] = "old" /\ s \in Tiered /\ s \in Tiered'
           /\ ~(s \in quiet /\ s \notin quiet')) => ignition'[s] = "old"]_vars

(* A confirmed ignition upgraded from the whole-market tier by the movers  *)
(* keeps the monitor that saw it.                                          *)
UpgradeKeepsHistory ==
    [][\A s \in Symbols :
          (universe[s] = "old" /\ s \notin Tiered /\ s \in mover') => ignition'[s] = "old"]_vars

=============================================================================
