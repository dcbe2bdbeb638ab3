------------------------------ MODULE Captures ------------------------------
(***************************************************************************)
(* What the server's research loop feeds: the Opportunity-Intelligence     *)
(* capture of a session, the consumer-received observation of a run, and   *)
(* the opportunity engine with its outcomes.  They have no thread, queue   *)
(* or file in common; which rows the first two are offered is free in      *)
(* their models.  As in Services, a behaviour follows one of them, named   *)
(* by part, and the others stay at their initial state: what is claimed of *)
(* each is checked here.                                                   *)
(***************************************************************************)
EXTENDS SessionCapture

CONSTANTS
    Lifecycles, LineRecords, RotateLines, CaptureBudget, MaxHooks, MaxLags,
    MaxMishaps,  \* ObservationRun
    OutcomeSymbols, OutcomeDayLen, UtcShift, QuietFor, Cadence, OpenBound, SettleAfter,
    MaxAnchors, OutcomeMaxTime, MaxLate   \* Opportunities

ASSUME OutcomesAssumption ==
    /\ OutcomeSymbols \subseteq Nat /\ IsFiniteSet(OutcomeSymbols) /\ OutcomeSymbols # {}
    /\ OutcomeDayLen \in Nat \ {0} /\ UtcShift \in Nat
    /\ QuietFor \in Nat /\ Cadence \in Nat /\ OpenBound \in Nat /\ SettleAfter \in Nat
    /\ MaxAnchors \in Nat /\ OutcomeMaxTime \in Nat /\ MaxLate \in Nat
    /\ None \notin Int
    /\ None \notin [openedAt : 0..OutcomeMaxTime, since : 0..OutcomeMaxTime,
                    kind : {"positive", "invalidation"}]

VARIABLES
    part,   \* the capture this behaviour follows
    open, unopened, missed, obs, outbox, phase, refused, lineQueue, lineCount,
    lineWriter, runFiles, marker, said, mishaps,   \* ObservationRun
    lifecycle, oppClock, oppOpen, byLastSeen, edges, ranked, lastRanked, openedCount,
    closedCount, outstanding, bySymbol, nextId, outcomes, notices, minted,
    finished   \* Opportunities

Observation == INSTANCE ObservationRun WITH
    QueueRecords <- LineRecords, queue <- lineQueue, count <- lineCount,
    writer <- lineWriter, files <- runFiles

Outcomes == INSTANCE Opportunities WITH
    Symbols <- OutcomeSymbols, DayLen <- OutcomeDayLen, Quiet <- QuietFor,
    Bound <- OpenBound, Settle <- SettleAfter, MaxTime <- OutcomeMaxTime,
    clock <- oppClock, open <- oppOpen, emitted <- ranked, opened <- openedCount,
    closed <- closedCount, rows <- outcomes

observationVars == <<open, unopened, missed, obs, outbox, phase, refused,
    lineQueue, lineCount, lineWriter, runFiles, marker, said, mishaps>>

outcomeVars == <<lifecycle, oppClock, oppOpen, byLastSeen, edges, ranked, lastRanked,
    openedCount, closedCount, outstanding, bySymbol, nextId, outcomes, notices, minted,
    finished>>

\* One initial state is enough for a part at rest.
CapturesInit ==
    /\ part \in {"session", "observation", "outcomes"}
    /\ Init
    /\ Observation!Init
    /\ Outcomes!Init
    /\ part # "observation" => open = {}
    /\ part # "outcomes" => lifecycle = "move"

CapturesNext ==
    \/ part = "session" /\ Next /\ UNCHANGED <<part, observationVars, outcomeVars>>
    \/ part = "observation" /\ Observation!Next /\ UNCHANGED <<part, vars, outcomeVars>>
    \/ part = "outcomes" /\ Outcomes!Next /\ UNCHANGED <<part, vars, observationVars>>

CapturesSpec ==
    CapturesInit /\ [][CapturesNext]_<<part, vars, observationVars, outcomeVars>>

-----------------------------------------------------------------------------
(* The properties beside SessionCapture's own.                             *)

\* What the capture of a session counts adds up: the queue's counters never wrap
\* (SessionCapture!QueueAccounted) and a marker's tally balances.
CaptureAddsUp == QueueAccounted /\ TallyBalances

\* An observation run that certifies is whole and its eligible rows are of
\* lifecycles that lost no event; one that nothing troubled does certify.
ObservationIsTrue ==
    /\ Observation!TypeOK
    /\ Observation!PassIsWhole
    /\ Observation!EligibleSawAll
    /\ Observation!QuietRunPasses

\* However late events come, an opportunity is closed once and none of its
\* anchors lies after the close; no id is issued twice and no move outlives its
\* market day; every anchor becomes one row, and a row says of its opportunity
\* what a replay of the recorded closes says of it.
OpportunitiesAreTrue ==
    /\ Outcomes!TypeOK
    /\ Outcomes!IndexInStep
    /\ Outcomes!OpenedAreAccounted
    /\ Outcomes!NoAnchorAfterClose
    /\ Outcomes!IdsAreNew
    /\ Outcomes!WithinTheDay
    /\ Outcomes!EveryAnchorHasItsRow
    /\ Outcomes!LiveAgreesWithReplay
=============================================================================
