------------------------------ MODULE ChartHub ------------------------------
(***************************************************************************)
(* market-data client_feed.rs: the connections of ws-server chart symbols  *)
(* through one process-wide hub, and the live scan follows the set they    *)
(* chart by a version it reads without the hub's lock.                     *)
(***************************************************************************)
EXTENDS Integers, FiniteSets, SequencesExt

CONSTANTS
    Conns, Symbols,
    Limit,          \* CHART_SUBSCRIPTION_LIMIT
    MaxCharted,     \* MAX_CHART_SYMBOLS
    MaxVersion,     \* bound of the instance
    None

VARIABLES
    charted,    \* how many connections chart a symbol
    version,
    held,       \* what each connection holds
    chart, chartVersion,    \* the scan's copy and the version it was read at
    reading     \* the version of a tick that has yet to read the set, or None

vars == <<charted, version, held, chart, chartVersion, reading>>

Charted(counts) == {s \in Symbols : counts[s] > 0}

(***************************************************************************)
(* Hub.replace: under the lock, release what the connection holds, then    *)
(* take what it wants in its order while there is room.                    *)
(***************************************************************************)
Released(counts, old) == [s \in Symbols |-> IF s \in old THEN counts[s] - 1 ELSE counts[s]]

Take(acc, s) ==
    IF acc.counts[s] > 0 \/ Cardinality(Charted(acc.counts)) < MaxCharted
    THEN [counts |-> [acc.counts EXCEPT ![s] = @ + 1], got |-> acc.got \cup {s}]
    ELSE acc

BumpedWhenSizeChanges(before, after) == Cardinality(before) # Cardinality(after)
Bumped(before, after) == before # after

Replace(c, wanted) ==
    LET after == FoldLeft(Take, [counts |-> Released(charted, held[c]), got |-> {}], wanted)
    IN  /\ charted' = after.counts
        /\ held' = [held EXCEPT ![c] = after.got]
        /\ version' = IF Bumped(Charted(charted), Charted(after.counts))
                      THEN version + 1 ELSE version
        /\ UNCHANGED <<chart, chartVersion, reading>>

(* chart_symbols: no duplicates, at most Limit.                            *)
Requests == UNION {SetToSeqs(wanted) : wanted \in
                      {w \in SUBSET Symbols : Cardinality(w) <= Limit}}

Subscribe(c) == version < MaxVersion /\ \E wanted \in Requests : Replace(c, wanted)

(* A ChartSubscription is released when it is dropped.                     *)
Disconnect(c) == held[c] # {} /\ Replace(c, <<>>)

(***************************************************************************)
(* The scan's chart tick: the version first, then the set.                 *)
(***************************************************************************)
ReadVersion ==
    /\ reading = None /\ chartVersion # version
    /\ reading' = version
    /\ UNCHANGED <<charted, version, held, chart, chartVersion>>

ReadSet ==
    /\ reading # None
    /\ chart' = Charted(charted) /\ chartVersion' = reading
    /\ reading' = None
    /\ UNCHANGED <<charted, version, held>>

Init == /\ charted = [s \in Symbols |-> 0] /\ version = 0
        /\ held = [c \in Conns |-> {}]
        /\ chart = {} /\ chartVersion = None /\ reading = None

Next == \/ ReadVersion \/ ReadSet
        \/ \E c \in Conns : Subscribe(c) \/ Disconnect(c)
Spec == Init /\ [][Next]_vars

(***************************************************************************)
(* Properties.                                                             *)
(***************************************************************************)
TypeOK ==
    /\ charted \in [Symbols -> 0..Cardinality(Conns)] /\ version \in Nat
    /\ held \in [Conns -> SUBSET Symbols]
    /\ Cardinality(Charted(charted)) <= MaxCharted
    /\ chart \subseteq Symbols
    /\ chartVersion \in Nat \cup {None} /\ reading \in Nat \cup {None}

(* The hub charts a symbol exactly as often as connections hold it: a      *)
(* closed socket leaves nothing charted, a refused symbol takes nothing.   *)
CountsMatchHolders ==
    \A s \in Symbols : charted[s] = Cardinality({c \in Conns : s \in held[c]})

(* When the scan believes that it is up to date it has the set the         *)
(* connections chart, whenever they changed it around its tick.            *)
ScanFollowsCharts ==
    (chartVersion = version /\ reading = None) => chart = Charted(charted)
=============================================================================
