--------------------------- MODULE IgnitionMonitor ---------------------------
(* The ignition detector's state machine for one symbol                        *)
(* (ignition-detector/src/monitor.rs).  It turns raw triggers into candidates, *)
(* candidates into confirmed or failed alerts after Needed further trades, and *)
(* a lifted halt into a candidate of its own at the first print it sees.       *)
(*                                                                             *)
(* Data kept: the time of a print, and whether a print is above or below the   *)
(* candidate's floor.  Whether the tape triggers (detect) and whether the      *)
(* flat-base gate blocks are functions of the trade window, which is not kept: *)
(* they are inputs of the step.  A recovered dip needs two prices, so whether  *)
(* the dips of a window were bought is an input too.                           *)
EXTENDS Integers

CONSTANTS
    Needed,     \* confirmation_trade_count
    Cooldown,   \* alert_cooldown_secs; 0 switches it off
    MaxTime,    \* bound: trades are stamped 1..MaxTime
    MaxResumes, \* bound: how many interruptions end
    None        \* no candidate, no time, no status yet

VARIABLES
    clock,      \* timestamp of trades.back(): the newest accepted print
    pending,    \* PendingCandidate: [seen, held, lift], or None
    status,     \* last_status_halted: None, "open" or "halted"
    awaiting,   \* resume_awaiting_first_trade
    alerted,    \* last_confirmed_alert_secs
    resumes,    \* history: how many Resumed transitions on_status reported
    lifts,      \* history: how many halt-lift candidates opened
    alerts      \* history: the times of the last two alerts that were not lifts,
                \* <<earlier, later>>, each None until it exists

vars == <<clock, pending, status, awaiting, alerted, resumes, lifts, alerts>>

Seconds == 1..MaxTime

\* What classify_status can make of a message (trading_status.rs): three codes
\* interrupt, one resumes, and an informational or unknown one says nothing.
Classes == {"Interrupts", "Resume", "Other"}

-----------------------------------------------------------------------------
Init ==
    /\ clock = 0
    /\ pending = None
    /\ status = None
    /\ awaiting = FALSE
    /\ alerted = None
    /\ resumes = 0
    /\ lifts = 0
    /\ alerts = <<None, None>>

-----------------------------------------------------------------------------
(* on_status                                                                   *)

InterruptedKeepsLift ==
    /\ status # "halted"
    /\ status' = "halted"
    /\ UNCHANGED <<awaiting, resumes>>

\* Entering an interruption disarms a lift still waiting for its print.
Interrupted ==
    /\ status # "halted"
    /\ status' = "halted"
    /\ awaiting' = FALSE
    /\ UNCHANGED resumes

\* Only the end of an interruption that was seen arms one.
Resumed ==
    /\ status' = "open"
    /\ IF status = "halted"
       THEN /\ resumes < MaxResumes
            /\ awaiting' = TRUE
            /\ resumes' = resumes + 1
       ELSE UNCHANGED <<awaiting, resumes>>

Ignored(class) ==
    /\ class = "Other" \/ (class = "Interrupts" /\ status = "halted")
    /\ UNCHANGED <<status, awaiting, resumes>>

OnStatus(class) ==
    /\ \/ class = "Interrupts" /\ Interrupted
       \/ class = "Resume" /\ Resumed
       \/ Ignored(class)
    /\ UNCHANGED <<clock, pending, alerted, lifts, alerts>>

-----------------------------------------------------------------------------
(* on_trade                                                                    *)

InAlertCooldown(now) ==
    /\ Cooldown > 0
    /\ alerted # None
    /\ now - alerted < Cooldown

Candidate(lift) == [seen |-> 0, held |-> TRUE, lift |-> lift]

\* confirm: every print held the floor and every dip was bought.
Confirmed(held, bought) == held /\ bought

\* Every alert starts the cooldown clock; only a confirmation is an alert.
Alert(now, confirmed) == alerted' = IF confirmed THEN now ELSE alerted

\* While a candidate is pending a print does nothing but add to its window.
Collect(now, above, bought) ==
    /\ pending # None
    /\ LET held == pending.held /\ above
           confirmed == Confirmed(held, bought)
       IN  IF pending.seen + 1 >= Needed
           THEN /\ pending' = None
                /\ Alert(now, confirmed)
                /\ alerts' = IF confirmed /\ ~pending.lift
                             THEN <<alerts[2], now>> ELSE alerts
           ELSE /\ pending' = [pending EXCEPT !.seen = @ + 1, !.held = held]
                /\ UNCHANGED <<alerted, alerts>>
    /\ UNCHANGED <<awaiting, lifts>>

\* The first print after a resume is used up whether or not the gate lets it
\* open the candidate; the cooldown does not apply to it.
Lift(blocked) ==
    /\ pending = None
    /\ awaiting
    /\ awaiting' = FALSE
    /\ IF blocked
       THEN UNCHANGED <<pending, lifts>>
       ELSE pending' = Candidate(TRUE) /\ lifts' = lifts + 1
    /\ UNCHANGED <<alerted, alerts>>

Detect(now, triggered, blocked) ==
    /\ pending = None
    /\ ~awaiting
    /\ pending' = IF triggered /\ ~InAlertCooldown(now) /\ ~blocked
                  THEN Candidate(FALSE) ELSE None
    /\ UNCHANGED <<awaiting, alerted, lifts, alerts>>

\* A print older than the newest one is dropped before anything looks at it
\* (and so is one whose price or time is not finite): no step of the model.
OnTrade(now, above, bought, triggered, blocked) ==
    /\ now >= clock
    /\ clock' = now
    /\ \/ Collect(now, above, bought)
       \/ Lift(blocked)
       \/ Detect(now, triggered, blocked)
    /\ UNCHANGED <<status, resumes>>

-----------------------------------------------------------------------------
Next ==
    \/ \E class \in Classes : OnStatus(class)
    \/ \E now \in Seconds, above, bought, triggered, blocked \in BOOLEAN :
           OnTrade(now, above, bought, triggered, blocked)

Spec == Init /\ [][Next]_vars

-----------------------------------------------------------------------------
\* Every variable has its type; a candidate collects fewer than Needed prints.
TypeOK ==
    /\ clock \in 0..MaxTime
    /\ pending \in {None} \union [seen : 0..(Needed - 1), held : BOOLEAN, lift : BOOLEAN]
    /\ status \in {None, "open", "halted"}
    /\ awaiting \in BOOLEAN
    /\ alerted \in {None} \union Seconds
    /\ resumes \in 0..MaxResumes
    /\ lifts \in 0..MaxResumes
    /\ alerts \in ({None} \union Seconds) \X ({None} \union Seconds)

\* A halt-lift candidate comes of an interruption that was seen to end, and an
\* interruption gives at most one: whatever the codes in between, duplicated
\* resumes and unknown statuses fabricate none (on_status, monitor.rs).  A lift
\* that waits for its print waits in an open market, so nothing printed during
\* an interruption opens one.
LiftsAreEarned ==
    /\ lifts + (IF awaiting THEN 1 ELSE 0) <= resumes
    /\ awaiting => status = "open"

\* Two alerts of the tape are never closer than the cooldown, although the
\* check is made when the candidate opens and the alert comes Needed trades
\* later, and although halt-lifts pass the check and restart the clock.
AlertsAreSpaced ==
    (Cooldown > 0 /\ alerts[1] # None) => alerts[2] - alerts[1] >= Cooldown

=============================================================================
