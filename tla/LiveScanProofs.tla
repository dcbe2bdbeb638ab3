--------------------------- MODULE LiveScanProofs ---------------------------
(***************************************************************************)
(* What is proved of the parts of Services that follow the market: the     *)
(* ignition detector, the watch on the feed, the forming bars, the live    *)
(* scan and the chart hub it follows, each for every value of its          *)
(* constants.  A part's initial states and steps are those of the          *)
(* composition, up to stuttering.                                          *)
(***************************************************************************)
EXTENDS Services, FoldTheorems, SequenceTheorems, TLAPS

-----------------------------------------------------------------------------
(* What holds of the ignition detector's state machine for every cooldown, *)
(* every number of confirming trades and any number of interruptions: a    *)
(* halt-lift is earned, and alerts of the tape keep their distance.        *)

(* What the detector's configuration gives: a confirmation needs at least  *)
(* one further trade, and times are numbers.                               *)
IgnitionConfigured ==
    /\ Needed \in Nat \ {0} /\ Cooldown \in Nat
    /\ IgnitionMaxTime \in Nat /\ MaxResumes \in Nat /\ None \notin Int

(* The check is made when the candidate opens, and nothing alerts while it *)
(* is pending; so the distance that matters is the one from the last alert *)
(* of the tape to the newest print while a candidate of the tape pends.    *)
Apart ==
    /\ alerted # None => alerted <= ignitionClock
    /\ ignitionAlerts[1] # None =>
          /\ ignitionAlerts[2] # None
          /\ Cooldown > 0 => ignitionAlerts[2] - ignitionAlerts[1] >= Cooldown
    /\ ignitionAlerts[2] # None =>
          /\ alerted # None /\ ignitionAlerts[2] <= alerted
          /\ (Cooldown > 0 /\ ignitionPending # None /\ ~ignitionPending.lift) =>
                 ignitionClock - ignitionAlerts[2] >= Cooldown

IgnitionInv == Ignition!TypeOK /\ Ignition!LiftsAreEarned /\ Apart

(* The invariant holds of a symbol that was never seen.                    *)
LEMMA IgnitionInit == ASSUME IgnitionConfigured, Ignition!Init PROVE IgnitionInv
<1> USE DEF Ignition!Init, IgnitionConfigured
<1>1. Ignition!TypeOK
  <2>1. ignitionAlerts \in ({None} \union Ignition!Seconds) \X ({None} \union Ignition!Seconds)
    OBVIOUS
  <2>2. /\ ignitionClock \in 0..IgnitionMaxTime
        /\ resumes \in 0..MaxResumes /\ lifts \in 0..MaxResumes
    OBVIOUS
  <2> QED BY <2>1, <2>2 DEF Ignition!TypeOK
<1>2. Ignition!LiftsAreEarned BY DEF Ignition!LiftsAreEarned
<1>3. Apart BY DEF Apart
<1> QED BY <1>1, <1>2, <1>3 DEF IgnitionInv

(* A trading status arms a lift at most when it ends an interruption.      *)
LEMMA StatusKeeps ==
    ASSUME IgnitionConfigured, IgnitionInv, NEW class \in Ignition!Classes, Ignition!OnStatus(class)
    PROVE IgnitionInv'
<1>1. UNCHANGED <<ignitionClock, ignitionPending, alerted, lifts, ignitionAlerts>>
  BY DEF Ignition!OnStatus
<1>2. Apart' BY <1>1 DEF IgnitionInv, Apart
<1>3. /\ resumes \in Int /\ lifts \in Int /\ MaxResumes \in Int /\ awaiting \in BOOLEAN
      /\ 0 <= resumes /\ resumes <= MaxResumes
      /\ awaiting => lifts + 1 <= resumes /\ status = "open"
      /\ lifts <= resumes
  BY DEF IgnitionInv, Ignition!TypeOK, Ignition!LiftsAreEarned, IgnitionConfigured
<1>4. /\ resumes' \in 0..MaxResumes /\ status' \in {None, "open", "halted"}
      /\ awaiting' \in BOOLEAN
      /\ awaiting' => lifts + 1 <= resumes' /\ status' = "open"
      /\ lifts <= resumes'
  <2>0. status \in {None, "open", "halted"} BY DEF IgnitionInv, Ignition!TypeOK
  <2>1. CASE Ignition!Interrupted
    <3>1. status' = "halted" /\ awaiting' = FALSE /\ resumes' = resumes
      BY <2>1 DEF Ignition!Interrupted
    <3>2. resumes' \in 0..MaxResumes /\ lifts <= resumes' BY <1>3, <3>1
    <3> QED BY <3>1, <3>2
  <2>2. CASE Ignition!Resumed
    <3>1. CASE status = "halted" BY <1>3, <2>2, <3>1 DEF Ignition!Resumed
    <3>2. CASE status # "halted" BY <1>3, <2>2, <3>2 DEF Ignition!Resumed
    <3> QED BY <3>1, <3>2
  <2>3. CASE Ignition!Ignored(class) BY <1>3, <2>0, <2>3 DEF Ignition!Ignored
  <2> QED BY <2>1, <2>2, <2>3 DEF Ignition!OnStatus
<1>5. Ignition!TypeOK' BY <1>1, <1>4 DEF IgnitionInv, Ignition!TypeOK
<1>6. Ignition!LiftsAreEarned'
  <2>1. CASE awaiting' BY <1>1, <1>4, <2>1 DEF Ignition!LiftsAreEarned
  <2>2. CASE ~awaiting' BY <1>1, <1>3, <1>4, <2>2 DEF Ignition!LiftsAreEarned
  <2> QED BY <2>1, <2>2
<1> QED BY <1>2, <1>5, <1>6 DEF IgnitionInv

(* A print that goes into a pending candidate's window, and may settle it. *)
LEMMA CollectKeeps ==
    ASSUME IgnitionConfigured, IgnitionInv, NEW stamp \in Ignition!Seconds,
           NEW above \in BOOLEAN, NEW bought \in BOOLEAN,
           stamp >= ignitionClock, ignitionClock' = stamp, Ignition!Collect(stamp, above,
           bought), UNCHANGED <<status, resumes>>
    PROVE  IgnitionInv'
<1> DEFINE stays == ignitionPending.held /\ above
           confirmed == Ignition!Confirmed(stays, bought)
<1>1. /\ ignitionPending \in [seen : 0..(Needed - 1), held : BOOLEAN,
       lift : BOOLEAN] /\ ignitionPending # None
      /\ UNCHANGED <<awaiting, lifts, status, resumes>>
  BY DEF Ignition!Collect, IgnitionInv, Ignition!TypeOK
<1>2. Ignition!LiftsAreEarned' BY <1>1 DEF IgnitionInv, Ignition!LiftsAreEarned
<1>3. stamp \in Int /\ stamp \in 0..IgnitionMaxTime /\ ignitionClock \in Int
      /\ (ignitionAlerts[1] # None => ignitionAlerts[1] \in Int)
      /\ (ignitionAlerts[2] # None => ignitionAlerts[2] \in Int)
      /\ ignitionAlerts \in ({None} \union Ignition!Seconds) \X ({None} \union Ignition!Seconds)
      /\ (alerted # None => alerted \in Int)
      /\ stamp # None
  BY DEF IgnitionConfigured, Ignition!Seconds, IgnitionInv, Ignition!TypeOK
<1>4. CASE ignitionPending.seen + 1 >= Needed
  <2>1. /\ ignitionPending' = None /\ Ignition!Alert(stamp, confirmed)
        /\ ignitionAlerts' = IF confirmed /\ ~ignitionPending.lift
                              THEN <<ignitionAlerts[2], stamp>> ELSE ignitionAlerts
    BY <1>4 DEF Ignition!Collect
  <2>2. CASE confirmed /\ ~ignitionPending.lift
    <3>1. ignitionAlerts' = <<ignitionAlerts[2], stamp>> /\ alerted' = stamp
      BY <2>1, <2>2 DEF Ignition!Alert
    <3>2. Ignition!TypeOK' BY <1>1, <1>3, <2>1, <3>1 DEF IgnitionInv, Ignition!TypeOK
    <3>3. Apart' BY <1>1, <1>3, <2>1, <2>2, <3>1 DEF IgnitionInv, Apart, IgnitionConfigured
    <3> QED BY <1>2, <3>2, <3>3 DEF IgnitionInv
  <2>3. CASE ~(confirmed /\ ~ignitionPending.lift)
    <3>1. ignitionAlerts' = ignitionAlerts /\ alerted' \in {alerted, stamp}
      BY <2>1, <2>3 DEF Ignition!Alert
    <3>2. Ignition!TypeOK' BY <1>1, <1>3, <2>1, <3>1 DEF IgnitionInv, Ignition!TypeOK
    <3>3. /\ alerted' # None => alerted' <= ignitionClock'
          /\ ignitionAlerts[2] # None => alerted' # None /\ ignitionAlerts[2] <= alerted'
      BY <1>3, <3>1 DEF IgnitionInv, Apart
    <3>4. Apart' BY <2>1, <3>1, <3>3 DEF IgnitionInv, Apart
    <3> QED BY <1>2, <3>2, <3>4 DEF IgnitionInv
  <2> QED BY <2>2, <2>3
<1>5. CASE ~(ignitionPending.seen + 1 >= Needed)
  <2>1. /\ ignitionPending' = [ignitionPending EXCEPT !.seen = @ + 1, !.held = stays]
        /\ UNCHANGED <<alerted, ignitionAlerts>>
    BY <1>5 DEF Ignition!Collect
  <2>2. stays \in BOOLEAN BY <1>1
  <2> HIDE DEF stays
  <2>3. /\ ignitionPending' \in [seen : 0..(Needed - 1), held : BOOLEAN, lift : BOOLEAN]
        /\ ignitionPending'.lift = ignitionPending.lift
    <3> DEFINE n == ignitionPending.seen + 1
    <3>1. n \in 0..(Needed - 1) BY <1>1, <1>5 DEF IgnitionConfigured
    <3>2. ignitionPending' = [ignitionPending EXCEPT !.seen = n, !.held = stays] BY <2>1
    <3> HIDE DEF n
    <3>3. ignitionPending' = [seen |-> n, held |-> stays, lift |-> ignitionPending.lift]
      BY <1>1, <3>2
    <3> QED BY <1>1, <2>2, <3>1, <3>3
  <2>4. Ignition!TypeOK' BY <1>1, <1>3, <2>1, <2>3 DEF IgnitionInv, Ignition!TypeOK
  <2>5. Apart' BY <1>1, <1>3, <2>1, <2>3 DEF IgnitionInv, Apart, IgnitionConfigured
  <2> QED BY <1>2, <2>4, <2>5 DEF IgnitionInv
<1> QED BY <1>4, <1>5

(* The first print after a resume: the lift is used up.                    *)
LEMMA LiftKeeps ==
    ASSUME IgnitionConfigured, IgnitionInv, NEW stamp \in Ignition!Seconds,
           NEW blocked \in BOOLEAN,
           stamp >= ignitionClock, ignitionClock' = stamp, Ignition!Lift(blocked),
           UNCHANGED <<status, resumes>>
    PROVE  IgnitionInv'
<1>1. stamp \in 0..IgnitionMaxTime /\ stamp \in Int /\ ignitionClock \in Int
  BY DEF IgnitionConfigured, Ignition!Seconds, IgnitionInv, Ignition!TypeOK
<1>2. /\ lifts \in Int /\ resumes \in Int /\ MaxResumes \in Int /\ 0 <= lifts
      /\ resumes <= MaxResumes /\ lifts + 1 <= resumes
      /\ awaiting' = FALSE /\ UNCHANGED <<alerted, ignitionAlerts>> /\ ignitionPending = None
  BY DEF IgnitionInv, Ignition!TypeOK, Ignition!LiftsAreEarned, Ignition!Lift,
         IgnitionConfigured
<1>3. /\ ignitionPending' = None \/ ignitionPending' = Ignition!Candidate(TRUE)
      /\ lifts' = lifts \/ lifts' = lifts + 1
  BY DEF Ignition!Lift
<1>4. Ignition!Candidate(TRUE) \in [seen : 0..(Needed - 1), held : BOOLEAN, lift : BOOLEAN]
      /\ Ignition!Candidate(TRUE).lift = TRUE
  BY DEF Ignition!Candidate, IgnitionConfigured
<1>5. Ignition!TypeOK'
  <2>1. lifts' \in 0..MaxResumes BY <1>2, <1>3
  <2> QED BY <1>1, <1>2, <1>3, <1>4, <2>1 DEF IgnitionInv, Ignition!TypeOK
<1>6. Ignition!LiftsAreEarned' BY <1>2, <1>3 DEF Ignition!LiftsAreEarned
<1>7. Apart'
  <2>1. alerted # None => alerted \in Int BY DEF IgnitionInv, Ignition!TypeOK, Ignition!Seconds
  <2>2. alerted # None => alerted <= stamp BY <1>1, <2>1 DEF IgnitionInv, Apart
  <2>3. ignitionPending' # None => ignitionPending'.lift = TRUE BY <1>3, <1>4
  <2> QED BY <1>2, <2>2, <2>3 DEF IgnitionInv, Apart
<1> QED BY <1>5, <1>6, <1>7 DEF IgnitionInv

(* A print that may open a candidate of the tape, past the cooldown.       *)
LEMMA DetectKeeps ==
    ASSUME IgnitionConfigured, IgnitionInv, NEW stamp \in Ignition!Seconds,
           NEW triggered \in BOOLEAN, NEW blocked \in BOOLEAN,
           stamp >= ignitionClock, ignitionClock' = stamp, Ignition!Detect(stamp, triggered,
           blocked), UNCHANGED <<status, resumes>>
    PROVE  IgnitionInv'
<1>1. stamp \in 0..IgnitionMaxTime /\ stamp \in Int /\ ignitionClock \in Int
  BY DEF IgnitionConfigured, Ignition!Seconds, IgnitionInv, Ignition!TypeOK
<1>2. UNCHANGED <<awaiting, alerted, lifts, ignitionAlerts>>
  BY DEF Ignition!Detect
<1>3. \/ ignitionPending' = None
      \/ ignitionPending' = Ignition!Candidate(FALSE) /\ ~Ignition!InAlertCooldown(stamp)
  BY DEF Ignition!Detect
<1>4. Ignition!Candidate(FALSE) \in [seen : 0..(Needed - 1), held : BOOLEAN, lift : BOOLEAN]
  BY DEF Ignition!Candidate, IgnitionConfigured
<1>5. Ignition!TypeOK' BY <1>1, <1>2, <1>3, <1>4 DEF IgnitionInv, Ignition!TypeOK
<1>6. Ignition!LiftsAreEarned' BY <1>2 DEF IgnitionInv, Ignition!LiftsAreEarned
<1>7. Apart'
  <2>1. /\ alerted # None => alerted \in Int
        /\ ignitionAlerts[2] # None => ignitionAlerts[2] \in Int
    BY DEF IgnitionInv, Ignition!TypeOK, Ignition!Seconds
  <2>2. (ignitionPending' # None /\ Cooldown > 0 /\ alerted # None) => stamp - alerted >= Cooldown
    <3>1. ignitionPending' # None => ~Ignition!InAlertCooldown(stamp) BY <1>3
    <3> QED BY <1>1, <2>1, <3>1 DEF Ignition!InAlertCooldown, IgnitionConfigured
  <2>3. /\ alerted # None => alerted <= ignitionClock
        /\ ignitionAlerts[2] # None => alerted # None /\ ignitionAlerts[2] <= alerted
    BY DEF IgnitionInv, Apart
  <2>4. (ignitionAlerts[2] # None /\ Cooldown > 0 /\ ignitionPending' # None) =>
            stamp - ignitionAlerts[2] >= Cooldown
    BY <1>1, <2>1, <2>2, <2>3 DEF IgnitionConfigured
  <2>5. alerted # None => alerted <= stamp BY <1>1, <2>1, <2>3
  <2> QED BY <1>2, <2>3, <2>4, <2>5 DEF IgnitionInv, Apart
<1> QED BY <1>5, <1>6, <1>7 DEF IgnitionInv

(* Every step of the detector keeps the invariant.                         *)
LEMMA IgnitionStepKeeps ==
    ASSUME IgnitionConfigured, IgnitionInv, [Ignition!Next]_(Ignition!vars)
    PROVE IgnitionInv'
<1>1. ASSUME NEW class \in Ignition!Classes, Ignition!OnStatus(class) PROVE IgnitionInv'
  BY <1>1, StatusKeeps
<1>2. ASSUME NEW stamp \in Ignition!Seconds, NEW above \in BOOLEAN, NEW bought \in BOOLEAN,
             NEW triggered \in BOOLEAN, NEW blocked \in BOOLEAN,
             Ignition!OnTrade(stamp, above, bought, triggered, blocked)
      PROVE  IgnitionInv'
  <2>1. stamp >= ignitionClock /\ ignitionClock' = stamp /\ UNCHANGED <<status, resumes>>
    BY <1>2 DEF Ignition!OnTrade
  <2>2. CASE Ignition!Collect(stamp, above, bought) BY <2>1, <2>2, CollectKeeps
  <2>3. CASE Ignition!Lift(blocked) BY <2>1, <2>3, LiftKeeps
  <2>4. CASE Ignition!Detect(stamp, triggered, blocked) BY <2>1, <2>4, DetectKeeps
  <2> QED BY <1>2, <2>2, <2>3, <2>4 DEF Ignition!OnTrade
<1>3. CASE UNCHANGED Ignition!vars
  BY <1>3 DEF Ignition!vars, IgnitionInv, Ignition!TypeOK, Ignition!LiftsAreEarned, Apart
<1> QED BY <1>1, <1>2, <1>3 DEF Ignition!Next

(* A step of the composition is a step of that part, or leaves it alone.   *)
LEMMA StepIgnition == [ServicesNext]_servicesVars => [Ignition!Next]_(Ignition!vars)
<1>1. UNCHANGED ignitionVars => UNCHANGED Ignition!vars
  BY DEF ignitionVars, Ignition!vars
<1>2. IgnitionStep => Ignition!Next BY DEF IgnitionStep
<1>3. UNCHANGED servicesVars => UNCHANGED ignitionVars BY DEF servicesVars
<1>4. TraderStep => UNCHANGED ignitionVars BY DEF TraderStep
<1>5. StoreStep => UNCHANGED ignitionVars BY DEF StoreStep
<1>6. StreamStep => UNCHANGED ignitionVars BY DEF StreamStep
<1>7. BarsStep => UNCHANGED ignitionVars BY DEF BarsStep
<1>8. CoverageStep => UNCHANGED ignitionVars BY DEF CoverageStep
<1>9. HubStep => UNCHANGED ignitionVars BY DEF HubStep
<1>10. FeedStep => UNCHANGED ignitionVars BY DEF FeedStep
<1>11. HaltsStep => UNCHANGED ignitionVars BY DEF HaltsStep
<1> QED BY <1>1, <1>2, <1>3, <1>4, <1>5, <1>6, <1>7, <1>8, <1>9, <1>10, <1>11 DEF ServicesNext

(* The composition's ignition detector earns its halt-lifts and spaces its *)
(* alerts, whatever the other parts do.                                    *)
THEOREM IgnitionIsEarnedAlways == ServicesSpec => []IgnitionIsEarned
<1>1. IgnitionConfigured BY IgnitionAssumption, NoneAssumption DEF IgnitionConfigured
<1>2. ServicesInit => IgnitionInv BY <1>1, IgnitionInit DEF ServicesInit
<1>3. IgnitionInv /\ [ServicesNext]_servicesVars => IgnitionInv'
  BY <1>1, StepIgnition, IgnitionStepKeeps
<1>4. IgnitionInv => IgnitionIsEarned
  <2>1. Apart => Ignition!AlertsAreSpaced BY DEF Apart, Ignition!AlertsAreSpaced
  <2> QED BY <2>1, Zenon DEF IgnitionInv, IgnitionIsEarned
<1> QED BY <1>2, <1>3, <1>4, PTL DEF ServicesSpec

-----------------------------------------------------------------------------
(* What holds of the upstream connection and its idle deadline for every   *)
(* schedule of sessions and every pair of timeouts: silence is bounded and *)
(* the feed state tells what became of the connection.                     *)

(* What the configuration gives: sessions in their order, and timeouts.    *)
FeedConfigured ==
    /\ Open \in Nat \ {0} /\ Regular \in Nat /\ After \in Nat /\ Close \in Nat
    /\ Open <= Regular /\ Regular <= After /\ After <= Close
    /\ Long \in Nat /\ Short \in Nat /\ Short <= Long
    /\ Retry \in Nat \ {0} /\ FeedMaxTime \in Nat

(* The deadline is armed by data, or again and again while the market is   *)
(* closed; the time never passes it, and it is the session's once the      *)
(* chart tick has run.                                                     *)
DeadlineIsRight ==
    /\ feedConn = "up" =>
          /\ feedNow <= armed + Long
          /\ armed = lastData \/ armed < Open \/ armed >= Close
          /\ ticked = feedNow => timeout = Feed!IdleTimeout
          /\ (FullTape /\ Feed!Session = "regular") =>
                 feedNow <= armed + Short \/ feedNow <= Regular + Short
    /\ (feedConn = "down" /\ ticked = feedNow) => downAt = feedNow \/ feedNow = 0

FeedInv ==
    /\ Feed!TypeOK /\ DeadlineIsRight
    /\ Feed!UpMeansConnected /\ Feed!FirstCauseStands

(* It holds before the first connection.                                   *)
LEMMA FeedInit == ASSUME FeedConfigured, Feed!Init PROVE FeedInv
<1>1. Feed!TypeOK
  <2>1. feed \in [up : BOOLEAN, since : 0..feedNow,
                  reason : {None, "starting", "connect", "idle", "stream"}]
    BY DEF Feed!Init, FeedConfigured
  <2>2. downAt \in -Retry..feedNow /\ feedNow \in 0..FeedMaxTime /\ ticked \in 0..feedNow
    BY DEF Feed!Init, FeedConfigured
  <2>3. armed \in 0..feedNow /\ lastData \in 0..feedNow BY DEF Feed!Init
  <2> HIDE DEF FeedConfigured
  <2> QED BY <2>1, <2>2, <2>3 DEF Feed!TypeOK, Feed!Init
<1>2. DeadlineIsRight BY DEF DeadlineIsRight, Feed!Init
<1>3. Feed!UpMeansConnected /\ Feed!FirstCauseStands
  BY DEF Feed!UpMeansConnected, Feed!FirstCauseStands, Feed!Init
<1> QED BY <1>1, <1>2, <1>3 DEF FeedInv

(* What a step makes of the feed state: nothing, or its transition.        *)
FeedMoves ==
    \/ feed' = feed
    \/ \E up \in BOOLEAN, reason \in {None, "connect", "idle", "stream"} :
           feed' = [up |-> up, since |-> feedNow, reason |-> reason]

(* A step that moves the feed state so, and the times as its guards allow,  *)
(* keeps the types.                                                        *)
LEMMA FeedTyped ==
    ASSUME FeedConfigured, Feed!TypeOK, FeedMoves,
           feedNow' \in feedNow..FeedMaxTime, ticked' \in {ticked, feedNow},
           downAt' \in {downAt, feedNow}, lastData' \in {lastData, feedNow},
           armed' \in {armed, feedNow}, timeout' \in {Long, Short},
           feedConn' \in {"down", "up"}, carries' \in BOOLEAN, feedUp' \in BOOLEAN,
           carries' => feedConn' = "up", feedConn' = "up" => at' = armed' + timeout'
    PROVE  Feed!TypeOK'
<1> USE DEF FeedConfigured, Feed!TypeOK
<1>1. feedNow \in Int /\ feedNow' \in Int /\ 0 <= feedNow /\ feedNow <= feedNow'
  OBVIOUS
<1>2. 0..feedNow \subseteq 0..feedNow' /\ -Retry..feedNow \subseteq -Retry..feedNow'
  BY <1>1
<1>3. feed' \in [up : BOOLEAN, since : 0..feedNow',
                reason : {None, "starting", "connect", "idle", "stream"}]
  <2>1. CASE feed' = feed BY <1>2, <2>1
  <2>2. CASE feed' # feed BY <1>1, <2>2 DEF FeedMoves
  <2> QED BY <2>1, <2>2
<1>4. feedNow' \in 0..FeedMaxTime BY <1>1
<1>5. feedNow \in 0..feedNow' /\ feedNow \in -Retry..feedNow' BY <1>1
<1>6. ticked' \in 0..feedNow' /\ lastData' \in 0..feedNow' /\ armed' \in 0..feedNow'
  BY <1>2, <1>5
<1>7. downAt' \in -Retry..feedNow' BY <1>2, <1>5
<1> QED BY <1>3, <1>4, <1>6, <1>7

(* The times the invariant relates are whole numbers.                      *)
LEMMA FeedNumbers ==
    ASSUME FeedConfigured, Feed!TypeOK
    PROVE  /\ {feedNow, ticked, downAt, timeout, armed, lastData} \subseteq Int
           /\ 0 <= feedNow /\ ticked <= feedNow /\ downAt <= feedNow
           /\ armed <= feedNow /\ lastData <= feedNow /\ timeout <= Long
           /\ feedConn = "up" => at = armed + timeout
           /\ feedConn \in {"down", "up"} /\ feed.up \in BOOLEAN
  BY DEF FeedConfigured, Feed!TypeOK

(* A connection begins.                                                    *)
LEMMA ConnectKeeps ==
    ASSUME FeedConfigured, FeedInv, Feed!Connect PROVE FeedInv'
<1> USE DEF FeedInv, Feed!Connect
<1>1. FeedMoves BY DEF Feed!MarkFeed, FeedMoves
<1>2. Feed!TypeOK'
  <2>1. feedNow' \in feedNow..FeedMaxTime BY FeedNumbers DEF Feed!TypeOK, FeedConfigured
  <2> QED BY <1>1, <2>1, FeedTyped DEF Feed!TypeOK
<1>3. DeadlineIsRight'
  BY FeedNumbers DEF DeadlineIsRight, FeedConfigured, Feed!IdleTimeout, Feed!Session
<1>4. Feed!UpMeansConnected' /\ Feed!FirstCauseStands'
  <2>1. ~feed.up BY FeedNumbers DEF Feed!UpMeansConnected
  <2>2. CASE Feed!Session = "overnight"
    <3>1. feedConn' = "up" /\ feedUp' = TRUE BY <2>2
    <3>2. feed' = [up |-> TRUE, since |-> feedNow, reason |-> None]
      BY <2>1, <2>2 DEF Feed!MarkFeed
    <3> QED BY <3>1, <3>2 DEF Feed!UpMeansConnected, Feed!FirstCauseStands
  <2>3. CASE Feed!Session # "overnight"
    <3>1. UNCHANGED <<feed, blamed>> BY <2>3
    <3> QED BY <2>1, <3>1 DEF Feed!UpMeansConnected, Feed!FirstCauseStands
  <2> QED BY <2>2, <2>3
<1> QED BY <1>2, <1>3, <1>4

(* Connecting fails, or a connection ends.                                 *)
LEMMA EndKeeps ==
    ASSUME FeedConfigured, FeedInv, NEW reason \in {"connect", "idle", "stream"},
           downAt' = feedNow, Feed!MarkFeed(FALSE, reason), Feed!Blame(reason),
           feedConn' = "down", carries' = FALSE,
           UNCHANGED <<feedNow, ticked, at, timeout, armed, lastData, feedUp>>
    PROVE  FeedInv'
<1> USE DEF FeedInv
<1>1. FeedMoves BY DEF Feed!MarkFeed, FeedMoves
<1>2. Feed!TypeOK'
  <2>1. feedNow' \in feedNow..FeedMaxTime BY FeedNumbers DEF Feed!TypeOK, FeedConfigured
  <2> QED BY <1>1, <2>1, FeedTyped DEF Feed!TypeOK
<1>3. DeadlineIsRight' BY FeedNumbers DEF DeadlineIsRight
<1>4. Feed!UpMeansConnected' /\ Feed!FirstCauseStands'
  BY FeedNumbers DEF Feed!UpMeansConnected, Feed!FirstCauseStands, Feed!MarkFeed, Feed!Blame
<1> QED BY <1>2, <1>3, <1>4

(* While connected: frames arrive, the chart tick retunes, an overnight    *)
(* deadline is armed again, the transport goes silent, time passes.        *)
LEMMA RunKeeps ==
    ASSUME FeedConfigured, FeedInv,
           \/ Feed!Tick \/ Feed!Advance \/ Feed!GoesSilent
           \/ \E data \in BOOLEAN : Feed!Batch(data)
           \/ Feed!Expire /\ UNCHANGED feedConn
    PROVE  FeedInv'
<1> USE DEF FeedInv
<1>1. CASE Feed!Tick
  <2> USE <1>1 DEF Feed!deadline, Feed!Tick, Feed!Retunes, Feed!FromArmed
  <2>1. feedNow' \in feedNow..FeedMaxTime /\ timeout' \in {Long, Short}
    BY FeedNumbers DEF Feed!TypeOK, FeedConfigured, Feed!IdleTimeout
  <2>2. at' = armed' + timeout' BY FeedNumbers
  <2>3. Feed!TypeOK' BY <2>1, <2>2, FeedTyped DEF Feed!TypeOK, FeedMoves
  <2>4. DeadlineIsRight'
    BY FeedNumbers DEF DeadlineIsRight, FeedConfigured, Feed!IdleTimeout, Feed!Session
  <2> QED BY <2>3, <2>4 DEF Feed!UpMeansConnected, Feed!FirstCauseStands
<1>2. CASE Feed!Advance
  <2> USE <1>2 DEF Feed!deadline, Feed!Advance
  <2>1. feedNow' \in feedNow..FeedMaxTime
    BY FeedNumbers DEF Feed!TypeOK, FeedConfigured
  <2>2. Feed!TypeOK' BY <2>1, FeedTyped DEF Feed!TypeOK, FeedMoves
  <2>3. ASSUME feedConn = "up" PROVE DeadlineIsRight'
    <3>1. /\ feedNow' = feedNow + 1 /\ ticked = feedNow /\ feedNow < armed + timeout
          /\ timeout = Feed!IdleTimeout
      BY <2>3, FeedNumbers DEF DeadlineIsRight
    <3>2. feedNow' <= armed' + Long BY <3>1, FeedNumbers DEF FeedConfigured
    <3>3. armed' = lastData' \/ armed' < Open \/ armed' >= Close
      BY <2>3 DEF DeadlineIsRight
    <3>4. ticked' # feedNow' BY <3>1, FeedNumbers
    <3>5. (FullTape /\ (Feed!Session)' = "regular") =>
              feedNow' <= armed' + Short \/ feedNow' <= Regular + Short
      BY <3>1, FeedNumbers DEF FeedConfigured, Feed!IdleTimeout, Feed!Session
    <3>6. feedConn' = "up" BY <2>3
    <3> QED BY <3>2, <3>3, <3>4, <3>5, <3>6 DEF DeadlineIsRight, Feed!Session
  <2>4. ASSUME feedConn # "up" PROVE DeadlineIsRight'
    <3>1. ticked' # feedNow' BY FeedNumbers
    <3>2. feedConn' # "up" BY <2>4
    <3> QED BY <3>1, <3>2 DEF DeadlineIsRight
  <2> QED BY <2>2, <2>3, <2>4 DEF Feed!UpMeansConnected, Feed!FirstCauseStands
<1>3. CASE Feed!GoesSilent
  <2> USE <1>3 DEF Feed!deadline, Feed!GoesSilent
  <2>1. feedNow' \in feedNow..FeedMaxTime
    BY FeedNumbers DEF Feed!TypeOK, FeedConfigured
  <2>2. Feed!TypeOK' BY <2>1, FeedTyped DEF Feed!TypeOK, FeedMoves
  <2> QED BY <2>2 DEF DeadlineIsRight, Feed!IdleTimeout, Feed!Session,
                      Feed!UpMeansConnected, Feed!FirstCauseStands
<1>4. ASSUME NEW data \in BOOLEAN, Feed!Batch(data) PROVE FeedInv'
  <2> USE <1>4 DEF Feed!Batch, Feed!MovesDeadline
  <2>1. feedNow' \in feedNow..FeedMaxTime
    BY FeedNumbers DEF Feed!TypeOK, FeedConfigured
  <2>2. FeedMoves BY DEF Feed!MarkFeed, FeedMoves
  <2>3. at' = armed' + timeout' /\ feedUp' \in BOOLEAN BY FeedNumbers DEF Feed!TypeOK
  <2>4. Feed!TypeOK' BY <2>1, <2>2, <2>3, FeedTyped DEF Feed!TypeOK
  <2>5. DeadlineIsRight'
    BY FeedNumbers DEF DeadlineIsRight, FeedConfigured, Feed!IdleTimeout, Feed!Session
  <2>6. Feed!UpMeansConnected' /\ Feed!FirstCauseStands'
    BY FeedNumbers DEF Feed!UpMeansConnected, Feed!FirstCauseStands, Feed!MarkFeed
  <2> QED BY <2>4, <2>5, <2>6
<1>5. CASE Feed!Expire /\ UNCHANGED feedConn
  <2> USE <1>5 DEF Feed!Expire, Feed!Rearms
  <2>1. /\ Feed!Session = "overnight" /\ at' = feedNow + timeout /\ armed' = feedNow
        /\ UNCHANGED <<feedNow, ticked, feedConn, downAt, carries, timeout, lastData,
                       feedUp, feed, blamed>>
    BY DEF Feed!Ends
  <2>2. feedNow' \in feedNow..FeedMaxTime
    BY <2>1, FeedNumbers DEF Feed!TypeOK, FeedConfigured
  <2>3. Feed!TypeOK' BY <2>1, <2>2, FeedTyped DEF Feed!TypeOK, FeedMoves
  <2>4. DeadlineIsRight'
    BY <2>1, FeedNumbers DEF DeadlineIsRight, FeedConfigured, Feed!IdleTimeout, Feed!Session
  <2> QED BY <2>1, <2>3, <2>4 DEF Feed!UpMeansConnected, Feed!FirstCauseStands
<1> QED BY <1>1, <1>2, <1>3, <1>4, <1>5

(* Every step of the connection keeps the invariant.                       *)
LEMMA FeedStepKeeps ==
    ASSUME FeedConfigured, FeedInv, [Feed!Next]_(Feed!vars) PROVE FeedInv'
<1>1. CASE UNCHANGED Feed!vars
  <2>1. UNCHANGED <<feedNow, ticked, feedConn, downAt, carries, at, timeout, armed, lastData,
                    feedUp, feed, blamed>>
    BY <1>1 DEF Feed!vars, Feed!deadline
  <2>2. Feed!TypeOK' /\ DeadlineIsRight'
    BY <2>1 DEF FeedInv, Feed!TypeOK, DeadlineIsRight, Feed!IdleTimeout, Feed!Session
  <2>3. Feed!UpMeansConnected' /\ Feed!FirstCauseStands'
    BY <2>1 DEF FeedInv, Feed!UpMeansConnected, Feed!FirstCauseStands
  <2> QED BY <2>2, <2>3 DEF FeedInv
<1>2. CASE Feed!ConnectFails
  <2>1. carries = FALSE BY <1>2 DEF FeedInv, Feed!TypeOK, Feed!ConnectFails
  <2> QED BY <1>2, <2>1, EndKeeps DEF Feed!ConnectFails, Feed!deadline
<1>3. ASSUME NEW reason \in {"idle", "stream"}, Feed!Ends(reason) PROVE FeedInv'
  BY <1>3, EndKeeps DEF Feed!Ends, Feed!deadline
<1>4. CASE Feed!Expire
  BY <1>3, <1>4, RunKeeps DEF Feed!Expire
<1>5. CASE Feed!StreamEnds BY <1>3, <1>5 DEF Feed!StreamEnds
<1> QED BY <1>1, <1>2, <1>4, <1>5, ConnectKeeps, RunKeeps DEF Feed!Next

(* What the invariant says of silence.                                     *)
LEMMA FeedSafe == ASSUME FeedConfigured, FeedInv PROVE FeedIsWatched
<1> USE DEF FeedConfigured, FeedInv, Feed!TypeOK, DeadlineIsRight, Feed!Session
<1>1. Feed!SilenceIsBounded BY DEF Feed!SilenceIsBounded, Feed!Latest
<1>2. Feed!RegularSilenceIsShort
  BY DEF Feed!RegularSilenceIsShort, Feed!Latest, Feed!IdleTimeout
<1> QED BY <1>1, <1>2, Zenon DEF FeedIsWatched

(* A step of the composition is a step of that part, or leaves it alone.   *)
LEMMA StepFeed == [ServicesNext]_servicesVars => [Feed!Next]_(Feed!vars)
<1>1. UNCHANGED feedVars => UNCHANGED Feed!vars
  BY DEF feedVars, Feed!vars, Feed!deadline
<1>2. FeedStep => Feed!Next BY DEF FeedStep
<1>3. UNCHANGED servicesVars => UNCHANGED feedVars BY DEF servicesVars
<1>4. TraderStep => UNCHANGED feedVars BY DEF TraderStep
<1>5. StoreStep => UNCHANGED feedVars BY DEF StoreStep
<1>6. StreamStep => UNCHANGED feedVars BY DEF StreamStep
<1>7. BarsStep => UNCHANGED feedVars BY DEF BarsStep
<1>8. CoverageStep => UNCHANGED feedVars BY DEF CoverageStep
<1>9. HubStep => UNCHANGED feedVars BY DEF HubStep
<1>10. IgnitionStep => UNCHANGED feedVars BY DEF IgnitionStep
<1>11. HaltsStep => UNCHANGED feedVars BY DEF HaltsStep
<1> QED BY <1>1, <1>2, <1>3, <1>4, <1>5, <1>6, <1>7, <1>8, <1>9, <1>10, <1>11 DEF ServicesNext

(* No connection of an open market is silent for longer than its timeout,  *)
(* and clients are told the connection's state and an outage's first       *)
(* cause, for every schedule of sessions and whatever the other parts do.  *)
THEOREM FeedIsWatchedAlways == ServicesSpec => []FeedIsWatched
<1>0. FeedConfigured BY FeedAssumption DEF FeedConfigured
<1>1. ServicesInit => FeedInv BY <1>0, FeedInit DEF ServicesInit
<1>2. FeedInv /\ [ServicesNext]_servicesVars => FeedInv'
  BY <1>0, StepFeed, FeedStepKeeps
<1>3. FeedInv => FeedIsWatched BY <1>0, FeedSafe
<1> QED BY <1>1, <1>2, <1>3, PTL DEF ServicesSpec

-----------------------------------------------------------------------------
(***************************************************************************)
(* The forming bars: every candle is the fold of the prints of its bucket  *)
(* that came in time.                                                      *)
(***************************************************************************)

(* What the configuration gives, and that None is no bar and no frame.      *)
BarsConfigured ==
    /\ Interval \in Nat \ {0} /\ Grace \in Nat /\ Throttle \in Nat
    /\ MaxClock \in Nat /\ MaxPrints \in Nat
    /\ None \notin Bars!Formed /\ None \notin Bars!Shown

(* The prints of bucket b that came in time, on the tape h.                *)
OnTime(h, b, from, upto) ==
    {i \in from + 1 .. upto :
        /\ h[i].bucket = b
        /\ \A j \in from + 1 .. i : h[j].bucket <= b}

(* The prints of a set that may move the price.                            *)
Pricing(h, S) == {i \in S : h[i].moves = "price"}

(* An open bar is the fold of its bucket's prints, no print since the      *)
(* series began is of a newer bucket, and it is of a time that has come.   *)
Folds(h, f, from) ==
    /\ f \in Bars!Formed /\ f.price \subseteq f.volume
    /\ f.volume \subseteq from + 1 .. Len(h)
    /\ f.closed => ~f.dirty
    /\ \A j \in from + 1 .. Len(h) : h[j].bucket <= f.bucket
    /\ f.price = Pricing(h, f.volume)
    /\ ~f.closed => f.volume = OnTime(h, f.bucket, from, Len(h))

(* A series on the tape h: its bar f, the print it began at and its counts *)
(* n of final frames.  A bucket that had its final frame was given a print *)
(* since the series began, and it is behind the bar, or the bar is closed. *)
Kept(h, f, from, n, t) ==
    /\ h \in Seq(Bars!Prints) /\ from \in 0..Len(h) /\ n \in [Bars!Buckets -> Nat]
    /\ f = None => from = Len(h)
    /\ f # None => Folds(h, f, from) /\ f.bucket <= Bars!Bucket(t)
    /\ \A b \in Bars!Buckets : n[b] # 0 =>
          /\ n[b] = 1 /\ f # None
          /\ b < f.bucket \/ (b = f.bucket /\ f.closed)
          /\ \E i \in from + 1 .. Len(h) : h[i].bucket = b

SeriesKept ==
    \A s \in Bars!Series : Kept(barsHeard[s], bar[s], began[s], finals[s], barsClock)

(* A frame of bucket b tells what the tape of its series says of it.       *)
Tells(hs, b, x) ==
    /\ x \in Bars!Shown
    /\ x.by = "official" => x.final
    /\ x.by # "official" =>
          /\ x.upto <= Len(hs[x.by])
          /\ x.price # {} /\ x.volume = OnTime(hs[x.by], b, x.from, x.upto)
          /\ x.price = Pricing(hs[x.by], x.volume)

(* The candles of a chart c tell what the tapes say, and the official ones *)
(* of a set stand, but for those of a chart without an official bar.       *)
Told(hs, c) ==
    DOMAIN c = Bars!Buckets /\ \A b \in Bars!Buckets : c[b] # None => Tells(hs, b, c[b])
Unofficial(x) == x.by = "charted" /\ x.final /\ ~x.confirmed
Stand(c, S) == \A b \in S : c[b] # None /\ (c[b].by = "official" \/ Unofficial(c[b]))

(* A final frame that no official bar is to stand against.                 *)
Allowed(x, S) == (x.final /\ x.by # "official") => S = {} \/ Unofficial(x)

BarsTypes ==
    /\ barsClock \in 0..MaxClock /\ subMinute \in BOOLEAN
    /\ barsTracked \in BOOLEAN /\ barsCharted \in BOOLEAN /\ barsConfirmed \in BOOLEAN
    /\ barsOfficial \subseteq Bars!Buckets /\ (subMinute => barsOfficial = {})
    /\ DOMAIN barsHeard = Bars!Series /\ DOMAIN bar = Bars!Series
    /\ DOMAIN began = Bars!Series /\ DOMAIN finals = Bars!Series
    /\ ~barsTracked => bar["tracked"] = None
    /\ ~barsCharted => bar["charted"] = None /\ ~barsConfirmed

BarsInv ==
    BarsTypes /\ SeriesKept /\ Told(barsHeard, candle) /\ Stand(candle, barsOfficial)

(* Time does not go back a bucket.                                         *)
LEMMA BucketGrows ==
    ASSUME BarsConfigured, NEW t \in Nat, NEW u \in Nat, t <= u
    PROVE  Bars!Bucket(t) \in Nat /\ Bars!Bucket(t) <= Bars!Bucket(u)
<1>1. ASSUME NEW a \in Nat
      PROVE  /\ a \div Interval \in Nat /\ a % Interval \in 0..(Interval - 1)
             /\ a = Interval * (a \div Interval) + (a % Interval)
  BY DEF BarsConfigured
<1> DEFINE p == t \div Interval  q == u \div Interval
<1>2. p \in Nat /\ q \in Nat /\ Interval \in Nat /\ Interval > 0
  BY <1>1 DEF BarsConfigured
<1>3. Interval * p <= t /\ t <= u /\ u < Interval * q + Interval
  BY <1>1, <1>2
<1> HIDE DEF p, q
<1>4. ASSUME q < p PROVE FALSE
  <2>1. q + 1 <= p BY <1>2, <1>4
  <2>2. Interval * (q + 1) <= Interval * p BY <1>2, <2>1
  <2> QED BY <1>2, <1>3, <2>2
<1>5. p <= q BY <1>2, <1>4
<1> QED BY <1>2, <1>5 DEF Bars!Bucket, p, q

(* The buckets are those of the times of the clock.                         *)
LEMMA BucketsAre ==
    ASSUME BarsConfigured
    PROVE  Bars!Bucket(MaxClock) \in Nat /\ Bars!Buckets \subseteq Nat
<1>1. Bars!Bucket(MaxClock) \in Nat BY BucketGrows DEF BarsConfigured
<1> QED BY <1>1 DEF Bars!Buckets

(* A print appended to the tape is behind everything made of it before.     *)
LEMMA TapeStands ==
    ASSUME BarsConfigured, NEW h \in Seq(Bars!Prints), NEW p \in Bars!Prints
    PROVE  /\ Len(Append(h, p)) = Len(h) + 1 /\ Append(h, p) \in Seq(Bars!Prints)
           /\ \A i \in 1..Len(h) : Append(h, p)[i] = h[i]
           /\ Append(h, p)[Len(h) + 1] = p
           /\ \A b \in Nat, from \in Nat, upto \in Nat : upto <= Len(h) =>
                 OnTime(Append(h, p), b, from, upto) = OnTime(h, b, from, upto)
           /\ \A S : S \subseteq 1..Len(h) => Pricing(Append(h, p), S) = Pricing(h, S)
<1> DEFINE g == Append(h, p)
<1>1. /\ Len(g) = Len(h) + 1 /\ g \in Seq(Bars!Prints)
      /\ \A i \in 1..Len(h) : g[i] = h[i]
      /\ g[Len(h) + 1] = p
  OBVIOUS
<1> HIDE DEF g
<1>2. ASSUME NEW b \in Nat, NEW from \in Nat, NEW upto \in Nat, upto <= Len(h)
      PROVE  OnTime(g, b, from, upto) = OnTime(h, b, from, upto)
  <2>1. \A i \in from + 1 .. upto : i \in 1..Len(h) BY <1>2
  <2>2. \A i \in from + 1 .. upto : g[i] = h[i] BY <1>1, <2>1
  <2>3. \A i \in from + 1 .. upto : \A j \in from + 1 .. i : j \in from + 1 .. upto
    BY <1>2
  <2> QED BY <2>2, <2>3 DEF OnTime
<1>3. ASSUME NEW S, S \subseteq 1..Len(h) PROVE Pricing(g, S) = Pricing(h, S)
  BY <1>1, <1>3 DEF Pricing
<1> QED BY <1>1, <1>2, <1>3 DEF g

(* What is in time lies between the two ends.                              *)
LEMMA OnTimeLies ==
    ASSUME NEW h, NEW b, NEW from \in Nat, NEW upto \in Nat
    PROVE  OnTime(h, b, from, upto) \subseteq from + 1 .. upto
  BY DEF OnTime

(* So a frame that told the truth tells it still, whichever series the     *)
(* print was for.                                                          *)
LEMMA StillTells ==
    ASSUME BarsConfigured, NEW hs, DOMAIN hs = Bars!Series,
           \A r \in Bars!Series : hs[r] \in Seq(Bars!Prints),
           NEW p \in Bars!Prints, NEW s \in Bars!Series,
           NEW b \in Nat, NEW x, Tells(hs, b, x)
    PROVE  Tells([hs EXCEPT ![s] = Append(@, p)], b, x)
<1> DEFINE gs == [hs EXCEPT ![s] = Append(@, p)]
<1>1. CASE x.by = "official" BY <1>1 DEF Tells
<1>2. CASE x.by \in Bars!Series /\ x.by # s
  <2>1. gs[x.by] = hs[x.by] BY <1>2
  <2> HIDE DEF gs
  <2> QED BY <1>2, <2>1 DEF Tells
<1>3. CASE x.by = s
  <2>1. gs[x.by] = Append(hs[s], p) BY <1>3
  <2> HIDE DEF gs
  <2> DEFINE h == hs[s]
  <2>2. h \in Seq(Bars!Prints) /\ hs[x.by] = h BY <1>3
  <2> HIDE DEF h
  <2>3. x.by # "official" BY <1>3 DEF Bars!Series
  <2>4. x.from \in Nat /\ x.upto \in Nat /\ x.upto <= Len(h) BY <2>2, <2>3 DEF Tells, Bars!Shown
  <2>5. Len(h) \in Nat BY <2>2
  <2>6. x.upto <= Len(Append(h, p)) BY <2>2, <2>4, <2>5, TapeStands
  <2>7. OnTime(Append(h, p), b, x.from, x.upto) = OnTime(h, b, x.from, x.upto)
    BY <2>2, <2>4, TapeStands
  <2>8. x.volume = OnTime(h, b, x.from, x.upto) BY <2>2, <2>3 DEF Tells
  <2>9. x.volume \subseteq x.from + 1 .. x.upto BY <2>4, <2>8, OnTimeLies
  <2>10. x.volume \subseteq 1..Len(h) BY <2>4, <2>5, <2>9
  <2>11. Pricing(Append(h, p), x.volume) = Pricing(h, x.volume) BY <2>2, <2>10, TapeStands
  <2>12. gs[x.by] = Append(h, p) BY <2>1 DEF h
  <2> QED BY <2>2, <2>3, <2>6, <2>7, <2>8, <2>11, <2>12 DEF Tells
<1>4. x.by = "official" \/ x.by \in Bars!Series BY DEF Tells, Bars!Shown
<1> QED BY <1>1, <1>2, <1>3, <1>4

(* The tape that grows by a print still bears out every candle.            *)
LEMMA StillTold ==
    ASSUME BarsConfigured, NEW hs, DOMAIN hs = Bars!Series,
           \A r \in Bars!Series : hs[r] \in Seq(Bars!Prints),
           NEW p \in Bars!Prints, NEW s \in Bars!Series, NEW c, Told(hs, c)
    PROVE  Told([hs EXCEPT ![s] = Append(@, p)], c)
<1>1. Bars!Buckets \subseteq Nat BY BucketsAre
<1> QED BY <1>1, StillTells DEF Told

(* What a frame of a bar is made of.                                       *)
LEMMA FrameIs ==
    ASSUME NEW s \in Bars!Series, began[s] \in Nat, Len(barsHeard[s]) \in Nat,
           barsConfirmed \in BOOLEAN, NEW f \in Bars!Formed, NEW e \in BOOLEAN
    PROVE  /\ Bars!Frame(s, f, e) \in Bars!Shown /\ Bars!Frame(s, f, e).price = f.price
           /\ Bars!Frame(s, f, e).volume = f.volume /\ Bars!Frame(s, f, e).from = began[s]
           /\ Bars!Frame(s, f, e).upto = Len(barsHeard[s])
           /\ Bars!Frame(s, f, e).by = s /\ Bars!Frame(s, f, e).final = e
           /\ Bars!Frame(s, f, e).confirmed = barsConfirmed
  BY DEF Bars!Frame, Bars!Formed, Bars!Shown

(* An update sent on a print already counts the print.                     *)
Update(s, f) == [Bars!Frame(s, f, FALSE) EXCEPT !.upto = @ + 1]

(* What an update is made of.                                              *)
LEMMA UpdateIs ==
    ASSUME NEW s \in Bars!Series, began[s] \in Nat, Len(barsHeard[s]) \in Nat,
           barsConfirmed \in BOOLEAN, NEW f \in Bars!Formed
    PROVE  /\ Update(s, f) \in Bars!Shown /\ Update(s, f).price = f.price
           /\ Update(s, f).volume = f.volume /\ Update(s, f).from = began[s]
           /\ Update(s, f).upto = Len(barsHeard[s]) + 1 /\ Update(s, f).by = s
           /\ ~Update(s, f).final
<1> DEFINE r == Bars!Frame(s, f, FALSE)
<1>1. /\ r \in Bars!Shown /\ r.price = f.price /\ r.volume = f.volume
      /\ r.from = began[s] /\ r.upto = Len(barsHeard[s]) /\ r.by = s /\ r.final = FALSE
  BY DEF Bars!Frame, Bars!Formed, Bars!Shown
<1>2. Update(s, f) = [r EXCEPT !.upto = @ + 1] BY DEF Update
<1> HIDE DEF r
<1>3. r.upto + 1 \in Nat BY <1>1
<1> QED BY <1>1, <1>2, <1>3 DEF Bars!Shown

(* A frame of an open bar with a price tells the truth.                    *)
LEMMA FrameTells ==
    ASSUME NEW hs, NEW s \in Bars!Series, Len(hs[s]) \in Nat, NEW f, NEW from \in Nat,
           Folds(hs[s], f, from), ~f.closed, f.price # {}, NEW x \in Bars!Shown,
           x.price = f.price, x.volume = f.volume, x.from = from, x.upto = Len(hs[s]),
           x.by = s
    PROVE  Tells(hs, f.bucket, x)
<1> DEFINE h == hs[s]
<1>1. hs[x.by] = h OBVIOUS
<1>2. x.by # "official" BY DEF Bars!Series
<1>3. /\ Folds(h, f, from) /\ x.upto = Len(h) /\ Len(h) \in Nat OBVIOUS
<1> HIDE DEF h
<1> QED BY <1>1, <1>2, <1>3 DEF Folds, Tells

(* A client shows a true frame, and only a final one displaces a final one. *)
LEMMA ShowTells ==
    ASSUME BarsConfigured, NEW hs, NEW c, Told(hs, c), NEW b \in Bars!Buckets, NEW x,
           Tells(hs, b, x), NEW S \in SUBSET Bars!Buckets, Stand(c, S), Allowed(x, S)
    PROVE  /\ Told(hs, Bars!Show(c, b, x)) /\ Stand(Bars!Show(c, b, x), S)
           /\ x.by = "official" => Stand(Bars!Show(c, b, x), S \cup {b})
<1>1. CASE c[b] # None /\ c[b].final /\ ~x.final
  <2>1. Bars!Show(c, b, x) = c BY <1>1 DEF Bars!Show
  <2>2. x.by # "official" BY <1>1 DEF Tells
  <2> QED BY <2>1, <2>2
<1>2. CASE ~(c[b] # None /\ c[b].final /\ ~x.final)
  <2> DEFINE d == Bars!Show(c, b, x)
  <2>1. d = [c EXCEPT ![b] = x] BY <1>2 DEF Bars!Show
  <2>2. DOMAIN d = Bars!Buckets /\ d[b] = x /\ \A e \in Bars!Buckets : e # b => d[e] = c[e]
    BY <2>1 DEF Told
  <2> HIDE DEF d
  <2>3. x # None BY DEF Tells, BarsConfigured
  <2>4. Told(hs, d) BY <2>2 DEF Told
  <2>5. ASSUME b \in S PROVE x.by = "official" \/ Unofficial(x)
    <3>1. c[b] # None /\ Tells(hs, b, c[b]) BY <2>5 DEF Stand, Told
    <3>2. c[b].by = "official" \/ Unofficial(c[b]) BY <2>5 DEF Stand
    <3>3. c[b].final BY <3>1, <3>2 DEF Tells, Unofficial
    <3>4. x.final BY <1>2, <3>1, <3>3
    <3> QED BY <2>5, <3>4 DEF Allowed
  <2>6. Stand(d, S) BY <2>2, <2>3, <2>5 DEF Stand
  <2>7. x.by = "official" => Stand(d, S \cup {b}) BY <2>2, <2>3, <2>6 DEF Stand
  <2> QED BY <2>4, <2>6, <2>7 DEF d
<1> QED BY <1>1, <1>2

(* An open or closed bar, after a print it has nothing to do with: one that *)
(* is late.                                                                *)
LEMMA LateFolds ==
    ASSUME BarsConfigured, NEW h \in Seq(Bars!Prints), NEW p \in Bars!Prints, NEW f,
           NEW from \in 0..Len(h), Folds(h, f, from),
           p.bucket < f.bucket \/ (p.bucket = f.bucket /\ f.closed)
    PROVE  Folds(Append(h, p), f, from)
<1> DEFINE g == Append(h, p)  n == Len(h)
<1>1. /\ Len(g) = n + 1 /\ n \in Nat /\ \A i \in 1..n : g[i] = h[i]
      /\ g[n + 1] = p /\ from \in Nat
      /\ OnTime(g, f.bucket, from, n) = OnTime(h, f.bucket, from, n)
      /\ \A S : S \subseteq 1..n => Pricing(g, S) = Pricing(h, S)
  BY TapeStands DEF Folds, Bars!Formed
<1>0. p.bucket \in Nat /\ f.bucket \in Nat
  BY BucketsAre DEF Folds, Bars!Formed, Bars!Prints
<1> HIDE DEF g, n
<1>2. f.volume \subseteq from + 1 .. n BY DEF Folds, n
<1>3. f.volume \subseteq from + 1 .. Len(g) /\ f.volume \subseteq 1..n BY <1>1, <1>2
<1>4. \A j \in from + 1 .. Len(g) : g[j].bucket <= f.bucket
  <2>1. \A j \in from + 1 .. n : h[j].bucket <= f.bucket BY DEF Folds, n
  <2>2. p.bucket <= f.bucket BY <1>0
  <2> QED BY <1>1, <2>1, <2>2
<1>5. ~f.closed => f.volume = OnTime(g, f.bucket, from, Len(g))
  <2> SUFFICES ASSUME ~f.closed
               PROVE  OnTime(g, f.bucket, from, n + 1) = OnTime(g, f.bucket, from, n)
    BY <1>1 DEF Folds, n
  <2>1. g[n + 1].bucket # f.bucket BY <1>0, <1>1
  <2>2. ASSUME NEW i \in from + 1 .. n + 1, g[i].bucket = f.bucket PROVE i \in from + 1 .. n
    BY <1>1, <2>1, <2>2
  <2> DEFINE T(i) == \A j \in from + 1 .. i : g[j].bucket <= f.bucket
  <2>3. /\ OnTime(g, f.bucket, from, n + 1)
              = {i \in from + 1 .. n + 1 : g[i].bucket = f.bucket /\ T(i)}
        /\ OnTime(g, f.bucket, from, n)
              = {i \in from + 1 .. n : g[i].bucket = f.bucket /\ T(i)}
    BY DEF OnTime
  <2> HIDE DEF T
  <2>4. \A i : i \in from + 1 .. n => i \in from + 1 .. n + 1 BY <1>1
  <2> QED BY <2>2, <2>3, <2>4, Zenon
<1> QED BY <1>1, <1>3, <1>4, <1>5 DEF Folds, g

(* A bar that has just been made has folded what there is of its bucket.    *)
LEMMA NewFolds ==
    ASSUME BarsConfigured, NEW h \in Seq(Bars!Prints), NEW b \in Nat, NEW s \in Int,
           NEW from \in 0..Len(h),
           \A j \in from + 1 .. Len(h) : h[j].bucket <= b /\ h[j].bucket # b
    PROVE  /\ Folds(h, Bars!NewBar(b, s), from)
           /\ Bars!NewBar(b, s).bucket = b /\ ~Bars!NewBar(b, s).closed
<1>1. /\ Bars!NewBar(b, s) \in Bars!Formed /\ Bars!NewBar(b, s).bucket = b
      /\ Bars!NewBar(b, s).price = {} /\ Bars!NewBar(b, s).volume = {}
      /\ Bars!NewBar(b, s).closed = FALSE /\ Bars!NewBar(b, s).dirty = FALSE
  BY DEF Bars!NewBar, Bars!Formed
<1>2. OnTime(h, b, from, Len(h)) = {} BY DEF OnTime
<1>3. Pricing(h, {}) = {} BY DEF Pricing
<1> QED BY <1>1, <1>2, <1>3 DEF Folds

(* The print of an open bar's bucket joins its fold.                        *)
LEMMA PrintFolds ==
    ASSUME BarsConfigured, NEW h \in Seq(Bars!Prints), NEW p \in Bars!Prints, NEW f,
           NEW from \in 0..Len(h), Folds(h, f, from), ~f.closed, p.bucket = f.bucket
    PROVE  /\ Folds(Append(h, p), Bars!Apply(f, Len(h) + 1, p), from)
           /\ Bars!Apply(f, Len(h) + 1, p).bucket = f.bucket
           /\ ~Bars!Apply(f, Len(h) + 1, p).closed
<1> DEFINE g == Append(h, p)  n == Len(h)  k == Bars!Apply(f, n + 1, p)
<1>1. /\ Len(g) = n + 1 /\ n \in Nat /\ \A i \in 1..n : g[i] = h[i]
      /\ g[n + 1] = p /\ from \in Nat /\ from <= n
      /\ OnTime(g, f.bucket, from, n) = OnTime(h, f.bucket, from, n)
      /\ \A S : S \subseteq 1..n => Pricing(g, S) = Pricing(h, S)
  BY TapeStands DEF Folds, Bars!Formed
<1>2. f \in Bars!Formed /\ f.bucket \in Nat BY DEF Folds, Bars!Formed
<1>3. /\ k.bucket = f.bucket /\ k.closed = f.closed /\ k.volume = f.volume \cup {n + 1}
      /\ p.moves = "price" => k.price = f.price \cup {n + 1}
      /\ p.moves # "price" => k.price = f.price
  BY <1>2 DEF Bars!Apply, Bars!Formed
<1>4. k \in Bars!Formed
  <2>1. n + 1 \in Nat BY <1>1
  <2> QED BY <1>2, <2>1 DEF Bars!Apply, Bars!Formed
<1> HIDE DEF g, n, k
<1>5. f.volume \subseteq from + 1 .. n /\ f.price \subseteq f.volume BY DEF Folds, n
<1>6. k.price \subseteq k.volume BY <1>3, <1>5
<1>7. k.volume \subseteq from + 1 .. Len(g) BY <1>1, <1>3, <1>5
<1>8. \A j \in from + 1 .. Len(g) : g[j].bucket <= f.bucket
  <2>1. \A j \in from + 1 .. n : h[j].bucket <= f.bucket BY DEF Folds, n
  <2> QED BY <1>1, <1>2, <2>1
<1>9. k.price = Pricing(g, k.volume)
  <2>1. f.price = Pricing(g, f.volume) BY <1>1, <1>5 DEF Folds
  <2>2. f.price = {i \in f.volume : g[i].moves = "price"} BY <2>1 DEF Pricing
  <2>3. Pricing(g, k.volume) = {i \in k.volume : g[i].moves = "price"} BY DEF Pricing
  <2> QED BY <1>1, <1>3, <2>2, <2>3
<1>10. k.volume = OnTime(g, f.bucket, from, Len(g))
  <2>1. f.volume = OnTime(g, f.bucket, from, n) BY <1>1 DEF Folds, n
  <2> DEFINE T(i) == \A j \in from + 1 .. i : g[j].bucket <= f.bucket
  <2>2. /\ OnTime(g, f.bucket, from, n + 1)
              = {i \in from + 1 .. n + 1 : g[i].bucket = f.bucket /\ T(i)}
        /\ OnTime(g, f.bucket, from, n)
              = {i \in from + 1 .. n : g[i].bucket = f.bucket /\ T(i)}
    BY DEF OnTime
  <2>3. T(n + 1) BY <1>1, <1>8
  <2> HIDE DEF T
  <2>4. \A i : i \in from + 1 .. n + 1 <=> i \in from + 1 .. n \/ i = n + 1 BY <1>1
  <2>5. g[n + 1].bucket = f.bucket BY <1>1
  <2> QED BY <1>1, <1>3, <2>1, <2>2, <2>3, <2>4, <2>5
<1>11. ~k.closed BY <1>3
<1> QED BY <1>3, <1>4, <1>6, <1>7, <1>8, <1>9, <1>10, <1>11 DEF Folds, g, n, k

(* Sending an update moves only the bar's own notes of it.                  *)
LEMMA SentFolds ==
    ASSUME BarsConfigured, barsClock \in 0..MaxClock, NEW h, NEW f, NEW from, Folds(h, f, from)
    PROVE  /\ Folds(h, Bars!Sent(f), from)
           /\ Bars!Sent(f).bucket = f.bucket /\ Bars!Sent(f).closed = f.closed
<1>1. f \in Bars!Formed /\ barsClock \in Int BY DEF Folds, BarsConfigured
<1>2. /\ Bars!Sent(f) \in Bars!Formed /\ Bars!Sent(f).bucket = f.bucket
      /\ Bars!Sent(f).closed = f.closed
      /\ Bars!Sent(f).price = f.price /\ Bars!Sent(f).volume = f.volume
      /\ Bars!Sent(f).dirty => f.dirty
  BY <1>1 DEF Bars!Sent, Bars!Formed
<1> QED BY <1>2 DEF Folds

(* A series that has just gone is the one that will hear the next print.   *)
LEMMA GoneKept ==
    ASSUME NEW h \in Seq(Bars!Prints), NEW t
    PROVE  Kept(h, None, Len(h), Bars!NoFinals, t)
<1>1. Len(h) \in 0..Len(h) OBVIOUS
<1>2. Bars!NoFinals \in [Bars!Buckets -> Nat] /\ \A b \in Bars!Buckets : Bars!NoFinals[b] = 0
  BY DEF Bars!NoFinals
<1> QED BY <1>1, <1>2 DEF Kept

(* What is kept of an open bar with a price: its bucket was not closed,    *)
(* and it was given a print.                                               *)
LEMMA OpenKept ==
    ASSUME BarsConfigured, NEW h, NEW f, NEW from, NEW n, NEW t, t \in 0..MaxClock,
           Kept(h, f, from, n, t), f # None
    PROVE  /\ Folds(h, f, from) /\ f \in Bars!Formed /\ f.bucket \in Nat
           /\ f.bucket \in Bars!Buckets /\ Len(h) \in Nat /\ from \in Nat
           /\ (~f.closed /\ f.price # {}) =>
                 /\ n[f.bucket] = 0
                 /\ \E i \in from + 1 .. Len(h) : h[i].bucket = f.bucket
<1>1. Folds(h, f, from) /\ f.bucket <= Bars!Bucket(t) BY DEF Kept
<1>2. f \in Bars!Formed /\ f.bucket \in Nat BY <1>1 DEF Folds, Bars!Formed
<1>3. h \in Seq(Bars!Prints) /\ from \in 0..Len(h) BY DEF Kept
<1>4. Len(h) \in Nat /\ from \in Nat BY <1>3
<1>5. t \in Nat /\ MaxClock \in Nat /\ t <= MaxClock BY DEF BarsConfigured
<1>6. Bars!Bucket(t) \in Nat /\ Bars!Bucket(MaxClock) \in Nat
      /\ Bars!Bucket(t) <= Bars!Bucket(MaxClock)
  BY <1>5, BucketGrows
<1>7. f.bucket \in Bars!Buckets BY <1>1, <1>2, <1>6 DEF Bars!Buckets
<1>8. ASSUME ~f.closed, f.price # {}
      PROVE  n[f.bucket] = 0 /\ \E i \in from + 1 .. Len(h) : h[i].bucket = f.bucket
  <2>1. n[f.bucket] = 0 BY <1>2, <1>7, <1>8 DEF Kept
  <2>2. PICK i \in f.price : TRUE BY <1>8
  <2>3. i \in OnTime(h, f.bucket, from, Len(h)) BY <1>1, <1>8, <2>2 DEF Folds
  <2>4. i \in from + 1 .. Len(h) /\ h[i].bucket = f.bucket BY <2>3 DEF OnTime
  <2> QED BY <2>1, <2>4
<1> QED BY <1>1, <1>2, <1>4, <1>7, <1>8

(* A bar that stays at its bucket and folds what it folded is kept.        *)
LEMMA SameKept ==
    ASSUME BarsConfigured, NEW h, NEW f, NEW from, NEW n, NEW t, Kept(h, f, from, n, t), f # None,
           NEW g, Folds(h, g, from), g.bucket = f.bucket, f.closed => g.closed
    PROVE  Kept(h, g, from, n, t)
<1>1. g # None BY DEF Folds, BarsConfigured
<1> QED BY <1>1 DEF Kept

(* Closing a bar, with a final frame or without.                           *)
LEMMA ClosedFolds ==
    ASSUME NEW h, NEW f, NEW from, Folds(h, f, from)
    PROVE  Folds(h, Bars!Closed(f), from) /\ Bars!Closed(f).bucket = f.bucket
           /\ Bars!Closed(f).closed = TRUE
<1>1. f \in Bars!Formed BY DEF Folds
<1>2. /\ Bars!Closed(f) \in Bars!Formed /\ Bars!Closed(f).bucket = f.bucket
      /\ Bars!Closed(f).closed = TRUE /\ Bars!Closed(f).dirty = FALSE
      /\ Bars!Closed(f).price = f.price /\ Bars!Closed(f).volume = f.volume
  BY <1>1 DEF Bars!Closed, Bars!Formed
<1> QED BY <1>2 DEF Folds

(* The official bar closes the estimate of its bucket.                     *)
LEMMA SupersededKept ==
    ASSUME BarsConfigured, NEW h, NEW f, NEW from, NEW n, NEW t, Kept(h, f, from, n, t), NEW b
    PROVE  /\ Kept(h, Bars!Superseded(f, b), from, n, t)
           /\ f = None => Bars!Superseded(f, b) = None
<1>1. CASE f # None /\ f.bucket = b
  <2>1. Bars!Superseded(f, b) = Bars!Closed(f) BY <1>1 DEF Bars!Superseded
  <2>2. Folds(h, f, from) BY <1>1 DEF Kept
  <2>3. Folds(h, Bars!Closed(f), from) /\ Bars!Closed(f).bucket = f.bucket /\ Bars!Closed(f).closed
    BY <2>2, ClosedFolds
  <2> QED BY <1>1, <2>1, <2>3, SameKept
<1>2. CASE ~(f # None /\ f.bucket = b) BY <1>2 DEF Bars!Superseded
<1> QED BY <1>1, <1>2

(* The final frame of an open bar is the first of its bucket.              *)
LEMMA CountedKept ==
    ASSUME BarsConfigured, NEW h, NEW f, NEW from, NEW n, NEW t, t \in 0..MaxClock,
           Kept(h, f, from, n, t), f # None, ~f.closed, f.price # {}
    PROVE  Kept(h, Bars!Closed(f), from, [n EXCEPT ![f.bucket] = @ + 1], t)
<1> DEFINE m == [n EXCEPT ![f.bucket] = @ + 1]  g == Bars!Closed(f)
<1>1. /\ Folds(h, f, from) /\ f.bucket \in Bars!Buckets /\ n[f.bucket] = 0
      /\ f.bucket \in Nat
      /\ \E i \in from + 1 .. Len(h) : h[i].bucket = f.bucket
  BY OpenKept
<1>2. Folds(h, g, from) /\ g.bucket = f.bucket /\ g.closed = TRUE BY <1>1, ClosedFolds
<1>3. Kept(h, g, from, n, t) BY <1>2, SameKept
<1>4. n \in [Bars!Buckets -> Nat] BY DEF Kept
<1>5. /\ m \in [Bars!Buckets -> Nat] /\ m[f.bucket] = 1
      /\ \A b \in Bars!Buckets : b # f.bucket => m[b] = n[b]
  BY <1>1, <1>4
<1>6. g # None BY <1>2 DEF Folds, BarsConfigured
<1> HIDE DEF m, g
<1>7. ASSUME NEW b \in Bars!Buckets, m[b] # 0
      PROVE  /\ m[b] = 1 /\ g # None
             /\ b < g.bucket \/ (b = g.bucket /\ g.closed)
             /\ \E i \in from + 1 .. Len(h) : h[i].bucket = b
  <2>1. CASE b = f.bucket BY <1>1, <1>2, <1>5, <1>6, <2>1
  <2>2. CASE b # f.bucket BY <1>3, <1>5, <1>7, <2>2 DEF Kept
  <2> QED BY <2>1, <2>2
<1>8. Kept(h, g, from, m, t) BY <1>3, <1>5, <1>7 DEF Kept
<1> QED BY <1>8 DEF m, g

(* The clock side keeps a series: it closes the bar, updates it or leaves  *)
(* it.                                                                     *)
LEMMA FlushedKept ==
    ASSUME BarsConfigured, barsClock \in 0..MaxClock, NEW s \in Bars!Series,
           NEW h, NEW f, NEW from, NEW n, Kept(h, f, from, n, barsClock)
    PROVE  /\ Kept(h, Bars!Flushed(f), from, Bars!Counted(s, f, n), barsClock)
           /\ f = None => Bars!Flushed(f) = None
<1>1. CASE ~Bars!Forming(f)
  <2>1. Bars!Flushed(f) = f BY <1>1 DEF Bars!Flushed
  <2>2. Bars!Counted(s, f, n) = n BY <1>1 DEF Bars!Counted, Bars!SendsFinal
  <2> QED BY <2>1, <2>2
<1>2. CASE Bars!Forming(f) /\ Bars!Ended(f)
  <2>1. Bars!Flushed(f) = Bars!Closed(f) BY <1>2 DEF Bars!Flushed
  <2>2. f # None /\ ~f.closed /\ Folds(h, f, from) BY <1>2 DEF Bars!Forming, Kept
  <2>3. Folds(h, Bars!Closed(f), from) /\ Bars!Closed(f).bucket = f.bucket /\ Bars!Closed(f).closed
    BY <2>2, ClosedFolds
  <2>4. Kept(h, Bars!Closed(f), from, n, barsClock) BY <2>2, <2>3, SameKept
  <2>5. CASE Bars!SendsFinal(s, f)
    <3>1. Bars!Counted(s, f, n) = [n EXCEPT ![f.bucket] = @ + 1] BY <2>5 DEF Bars!Counted
    <3>2. f.price # {} BY <2>5 DEF Bars!SendsFinal
    <3>3. Kept(h, Bars!Closed(f), from, [n EXCEPT ![f.bucket] = @ + 1], barsClock)
      BY <2>2, <3>2, CountedKept
    <3> QED BY <2>1, <2>2, <3>1, <3>3
  <2>6. CASE ~Bars!SendsFinal(s, f)
    <3>1. Bars!Counted(s, f, n) = n BY <2>6 DEF Bars!Counted
    <3> QED BY <2>1, <2>2, <2>4, <3>1
  <2> QED BY <2>5, <2>6
<1>3. CASE Bars!Forming(f) /\ ~Bars!Ended(f)
  <2>1. Bars!Flushed(f) = Bars!Sent(f) BY <1>3 DEF Bars!Flushed
  <2>2. Bars!Counted(s, f, n) = n BY <1>3 DEF Bars!Counted, Bars!SendsFinal
  <2>3. f # None /\ Folds(h, f, from) BY <1>3 DEF Bars!Forming, Kept
  <2>4. /\ Folds(h, Bars!Sent(f), from) /\ Bars!Sent(f).bucket = f.bucket
        /\ Bars!Sent(f).closed = f.closed
    BY <2>3, SentFolds
  <2> QED BY <2>1, <2>2, <2>3, <2>4, SameKept
<1> QED BY <1>1, <1>2, <1>3

(* So does a print: the bar it finds late stays, or the bar it opens or    *)
(* joins takes its place.                                                  *)
LEMMA GrownKept ==
    ASSUME BarsConfigured, NEW h, NEW f, NEW from, NEW n, NEW t, t \in 0..MaxClock,
           Kept(h, f, from, n, t), NEW p \in Bars!Prints,
           NEW k, Folds(Append(h, p), k, from), k.bucket <= Bars!Bucket(t),
           f = None \/ f.bucket < k.bucket \/ (f.bucket = k.bucket /\ (f.closed => k.closed))
    PROVE  Kept(Append(h, p), k, from, n, t)
<1> DEFINE g == Append(h, p)
<1>1. h \in Seq(Bars!Prints) /\ from \in 0..Len(h) /\ n \in [Bars!Buckets -> Nat] BY DEF Kept
<1>2. g \in Seq(Bars!Prints) /\ Len(g) = Len(h) + 1 /\ \A i \in 1..Len(h) : g[i] = h[i]
  BY <1>1, TapeStands
<1>3. Folds(g, k, from) /\ k # None /\ k.bucket \in Nat
  BY DEF Folds, BarsConfigured, Bars!Formed
<1> HIDE DEF g
<1>4. Len(h) \in Nat /\ from \in 0..Len(g) BY <1>1, <1>2
<1>5. f # None => f.bucket \in Nat BY OpenKept
<1>6. ASSUME NEW b \in Bars!Buckets, n[b] # 0
      PROVE  /\ n[b] = 1 /\ k # None
             /\ b < k.bucket \/ (b = k.bucket /\ k.closed)
             /\ \E i \in from + 1 .. Len(g) : g[i].bucket = b
  <2>1. n[b] = 1 /\ f # None /\ (b < f.bucket \/ (b = f.bucket /\ f.closed)) BY <1>6 DEF Kept
  <2>2. PICK i \in from + 1 .. Len(h) : h[i].bucket = b BY <1>6 DEF Kept
  <2>3. i \in from + 1 .. Len(g) /\ i \in 1..Len(h) BY <1>1, <1>2, <1>4
  <2>4. g[i].bucket = b BY <1>2, <2>2, <2>3
  <2>5. b \in Nat BY BucketsAre
  <2>6. b < k.bucket \/ (b = k.bucket /\ k.closed)
    <3>1. CASE f.bucket < k.bucket BY <1>3, <1>5, <2>1, <2>5, <3>1
    <3>2. CASE f.bucket = k.bucket /\ (f.closed => k.closed) BY <2>1, <3>2
    <3> QED BY <2>1, <3>1, <3>2
  <2> QED BY <1>3, <2>1, <2>3, <2>4, <2>6
<1>7. k.bucket <= Bars!Bucket(t) OBVIOUS
<1>8. Kept(g, k, from, n, t) BY <1>1, <1>2, <1>3, <1>4, <1>6, <1>7 DEF Kept
<1> QED BY <1>8 DEF g

(* The bar a print opens or joins is the fold of its bucket.               *)
LEMMA MovedFolds ==
    ASSUME BarsConfigured, barsClock \in 0..MaxClock, NEW h, NEW f, NEW from, NEW n,
           Kept(h, f, from, n, barsClock), NEW p \in Bars!Prints,
           f # None => ~(p.bucket < f.bucket) /\ ~(p.bucket = f.bucket /\ f.closed)
    PROVE  /\ Folds(Append(h, p), Bars!Moved(f, Len(h) + 1, p), from)
           /\ Bars!Moved(f, Len(h) + 1, p).bucket = p.bucket
           /\ ~Bars!Moved(f, Len(h) + 1, p).closed
           /\ f # None => f.bucket <= p.bucket
<1>0. /\ h \in Seq(Bars!Prints) /\ from \in 0..Len(h)
      /\ f # None => f \in Bars!Formed /\ f.bucket \in Nat /\ Folds(h, f, from)
  <2>1. h \in Seq(Bars!Prints) /\ from \in 0..Len(h) /\ (f # None => Folds(h, f, from))
    BY DEF Kept
  <2> QED BY <2>1 DEF Folds, Bars!Formed
<1>1. /\ h \in Seq(Bars!Prints) /\ Len(h) \in Nat /\ from \in 0..Len(h)
      /\ barsClock - Throttle \in Int
      /\ f # None => /\ f \in Bars!Formed /\ f.bucket \in Nat /\ f.sentAt \in Int
                     /\ Folds(h, f, from)
  <2>1. Len(h) \in Nat BY <1>0
  <2>2. barsClock - Throttle \in Int BY DEF BarsConfigured
  <2>3. f # None => f.sentAt \in Int BY <1>0 DEF Bars!Formed
  <2> QED BY <1>0, <2>1, <2>2, <2>3
<1>2. p.bucket \in Nat BY BucketsAre DEF Bars!Prints
<1>3. CASE f = None
  <2>1. from = Len(h) BY <1>3 DEF Kept
  <2>2. \A j \in from + 1 .. Len(h) : h[j].bucket <= p.bucket /\ h[j].bucket # p.bucket
    BY <1>1, <2>1
  <2> DEFINE d == Bars!NewBar(p.bucket, barsClock - Throttle)
  <2>3. Bars!Moved(f, Len(h) + 1, p) = Bars!Apply(d, Len(h) + 1, p) BY <1>3 DEF Bars!Moved
  <2>4. Folds(h, d, from) /\ d.bucket = p.bucket /\ ~d.closed BY <1>1, <1>2, <2>2, NewFolds
  <2> HIDE DEF d
  <2> QED BY <1>1, <1>3, <2>3, <2>4, PrintFolds
<1>4. CASE f # None /\ f.bucket = p.bucket
  <2>1. ~f.closed BY <1>4
  <2>2. Bars!Moved(f, Len(h) + 1, p) = Bars!Apply(f, Len(h) + 1, p) BY <1>4 DEF Bars!Moved
  <2>3. f.bucket <= p.bucket BY <1>2, <1>4
  <2> QED BY <1>1, <1>4, <2>1, <2>2, <2>3, PrintFolds
<1>5. CASE f # None /\ f.bucket # p.bucket
  <2>1. f.bucket < p.bucket BY <1>1, <1>2, <1>5
  <2>2. \A j \in from + 1 .. Len(h) : h[j].bucket <= f.bucket BY <1>1, <1>5 DEF Folds
  <2>3. \A j \in from + 1 .. Len(h) : h[j].bucket \in Nat
    <3>1. \A j \in from + 1 .. Len(h) : h[j] \in Bars!Prints BY <1>1
    <3> QED BY <3>1, BucketsAre DEF Bars!Prints
  <2>4. \A j \in from + 1 .. Len(h) : h[j].bucket <= p.bucket /\ h[j].bucket # p.bucket
    BY <1>1, <1>2, <1>5, <2>1, <2>2, <2>3
  <2> DEFINE d == Bars!NewBar(p.bucket, f.sentAt)
  <2>5. Bars!Moved(f, Len(h) + 1, p) = Bars!Apply(d, Len(h) + 1, p) BY <1>5 DEF Bars!Moved
  <2>6. Folds(h, d, from) /\ d.bucket = p.bucket /\ ~d.closed
    BY <1>1, <1>2, <1>5, <2>4, NewFolds
  <2>7. f.bucket <= p.bucket BY <1>1, <1>2, <1>5, <2>1
  <2> HIDE DEF d
  <2> QED BY <1>1, <2>5, <2>6, <2>7, PrintFolds
<1> QED BY <1>3, <1>4, <1>5

(* What the clauses of the invariant say of the state.                     *)
LEMMA BarsFacts ==
    ASSUME BarsConfigured, BarsInv
    PROVE  /\ barsClock \in 0..MaxClock /\ barsClock \in Nat
           /\ barsConfirmed \in BOOLEAN /\ barsOfficial \in SUBSET Bars!Buckets
           /\ Told(barsHeard, candle) /\ Stand(candle, barsOfficial)
           /\ DOMAIN barsHeard = Bars!Series /\ DOMAIN bar = Bars!Series
           /\ DOMAIN began = Bars!Series /\ DOMAIN finals = Bars!Series
           /\ \A s \in Bars!Series :
                 /\ Kept(barsHeard[s], bar[s], began[s], finals[s], barsClock)
                 /\ barsHeard[s] \in Seq(Bars!Prints) /\ Len(barsHeard[s]) \in Nat
                 /\ began[s] \in Nat /\ began[s] \in 0..Len(barsHeard[s])
                 /\ finals[s] \in [Bars!Buckets -> Nat]
<1>1. barsClock \in 0..MaxClock /\ barsClock \in Nat BY DEF BarsInv, BarsTypes, BarsConfigured
<1>2. /\ barsConfirmed \in BOOLEAN /\ barsOfficial \in SUBSET Bars!Buckets
      /\ DOMAIN barsHeard = Bars!Series /\ DOMAIN bar = Bars!Series
      /\ DOMAIN began = Bars!Series /\ DOMAIN finals = Bars!Series
  BY DEF BarsInv, BarsTypes
<1>3. Told(barsHeard, candle) /\ Stand(candle, barsOfficial) BY DEF BarsInv
<1>4. ASSUME NEW s \in Bars!Series
      PROVE  /\ Kept(barsHeard[s], bar[s], began[s], finals[s], barsClock)
             /\ barsHeard[s] \in Seq(Bars!Prints) /\ Len(barsHeard[s]) \in Nat
             /\ began[s] \in Nat /\ began[s] \in 0..Len(barsHeard[s])
             /\ finals[s] \in [Bars!Buckets -> Nat]
  <2>1. Kept(barsHeard[s], bar[s], began[s], finals[s], barsClock) BY DEF BarsInv, SeriesKept
  <2>2. /\ barsHeard[s] \in Seq(Bars!Prints) /\ began[s] \in 0..Len(barsHeard[s])
        /\ finals[s] \in [Bars!Buckets -> Nat]
    BY <2>1 DEF Kept
  <2>3. Len(barsHeard[s]) \in Nat /\ began[s] \in Nat BY <2>2
  <2> QED BY <2>1, <2>2, <2>3
<1> QED BY <1>1, <1>2, <1>3, <1>4

(* A frame of a series that is sent now, final or not, is shown as it is   *)
(* true, and official bars stand after it.                                 *)
LEMMA SentShows ==
    ASSUME BarsConfigured, BarsInv, NEW s \in Bars!Series, bar[s] # None, ~bar[s].closed,
           bar[s].price # {}, NEW e \in BOOLEAN, e => Bars!OwnFinal(s),
           NEW c, Told(barsHeard, c), Stand(c, barsOfficial)
    PROVE  /\ Told(barsHeard, Bars!Show(c, bar[s].bucket, Bars!Frame(s, bar[s], e)))
           /\ Stand(Bars!Show(c, bar[s].bucket, Bars!Frame(s, bar[s], e)), barsOfficial)
<1> DEFINE x == Bars!Frame(s, bar[s], e)  f == bar[s]
<1>1. /\ barsClock \in 0..MaxClock /\ barsConfirmed \in BOOLEAN
      /\ barsOfficial \in SUBSET Bars!Buckets
      /\ Len(barsHeard[s]) \in Nat /\ began[s] \in Nat
      /\ Kept(barsHeard[s], f, began[s], finals[s], barsClock)
  BY BarsFacts
<1>2. Folds(barsHeard[s], f, began[s]) /\ f \in Bars!Formed /\ f.bucket \in Bars!Buckets
  BY <1>1, OpenKept
<1>3. /\ x \in Bars!Shown /\ x.price = f.price /\ x.volume = f.volume
      /\ x.from = began[s] /\ x.upto = Len(barsHeard[s]) /\ x.by = s /\ x.final = e
      /\ x.confirmed = barsConfirmed
  BY <1>1, <1>2, FrameIs
<1>4. ~f.closed /\ f.price # {} OBVIOUS
<1> HIDE DEF x, f
<1>5. Tells(barsHeard, f.bucket, x) BY <1>1, <1>2, <1>3, <1>4, FrameTells
<1>6. Allowed(x, barsOfficial)
  <2> SUFFICES ASSUME x.final PROVE barsOfficial = {} \/ Unofficial(x) BY DEF Allowed
  <2>1. subMinute \/ (s = "charted" /\ ~barsConfirmed) BY <1>3 DEF Bars!OwnFinal
  <2>2. subMinute => barsOfficial = {} BY DEF BarsInv, BarsTypes
  <2> QED BY <1>3, <2>1, <2>2 DEF Unofficial
<1>7. /\ Told(barsHeard, Bars!Show(c, f.bucket, x))
      /\ Stand(Bars!Show(c, f.bucket, x), barsOfficial)
  BY <1>1, <1>2, <1>5, <1>6, ShowTells
<1> QED BY <1>7 DEF x, f

(* A print that may move a bar leaves its series in order.                 *)
LEMMA PrintKept ==
    ASSUME BarsConfigured, BarsInv, NEW s \in Bars!Series, NEW p \in Bars!Prints,
           Bars!HearPrint(s, p), p.moves # "nothing"
    PROVE  Kept(Append(barsHeard[s], p), bar'[s], began[s], finals'[s], barsClock)
<1> DEFINE h == barsHeard[s]  f == bar[s]  n == finals[s]  from == began[s]
           g == Append(h, p)
<1>1. /\ barsClock \in 0..MaxClock /\ barsClock \in Nat
      /\ h \in Seq(Bars!Prints) /\ Len(h) \in Nat /\ from \in 0..Len(h)
      /\ n \in [Bars!Buckets -> Nat] /\ Kept(h, f, from, n, barsClock)
      /\ DOMAIN bar = Bars!Series /\ DOMAIN finals = Bars!Series
  BY BarsFacts
<1>2. p.bucket \in Nat /\ p.bucket <= Bars!Bucket(barsClock)
  BY BucketsAre DEF Bars!Prints, Bars!HearPrint
<1>3. f # None => Folds(h, f, from) /\ f.bucket \in Nat /\ f.bucket <= Bars!Bucket(barsClock)
  BY <1>1, OpenKept DEF Kept
<1>4. CASE Bars!Ignores(s, p)
  <2>1. bar'[s] = f /\ finals'[s] = n BY <1>4 DEF Bars!HearPrint
  <2>2. f # None /\ (p.bucket < f.bucket \/ (p.bucket = f.bucket /\ f.closed))
    BY <1>4 DEF Bars!Ignores
  <2> HIDE DEF h, f, n, from
  <2>3. Folds(g, f, from) BY <1>1, <1>3, <2>2, LateFolds
  <2>4. Kept(g, f, from, n, barsClock) BY <1>1, <1>3, <2>2, <2>3, GrownKept
  <2> QED BY <2>1, <2>4 DEF h, f, n, from
<1>5. CASE ~Bars!Ignores(s, p)
  <2> DEFINE k == Bars!Moved(f, Len(h) + 1, p)
  <2>1. bar'[s] = Bars!Sent(k) BY <1>1, <1>5 DEF Bars!HearPrint
  <2>2. finals'[s] = IF Bars!Rollover(s, p) THEN [n EXCEPT ![f.bucket] = @ + 1] ELSE n
    BY <1>1, <1>5 DEF Bars!HearPrint
  <2>3. f # None => ~(p.bucket < f.bucket) /\ ~(p.bucket = f.bucket /\ f.closed)
    BY <1>5 DEF Bars!Ignores
  <2>4. Bars!Rollover(s, p) => f # None /\ f.bucket # p.bucket /\ ~f.closed /\ f.price # {}
    BY DEF Bars!Rollover
  <2> DEFINE roll == Bars!Rollover(s, p)
  <2> HIDE DEF h, f, n, from, roll
  <2>5. /\ Folds(g, k, from) /\ k.bucket = p.bucket /\ ~k.closed
        /\ f # None => f.bucket <= p.bucket
    BY <1>1, <2>3, MovedFolds
  <2> HIDE DEF k
  <2>6. Folds(g, Bars!Sent(k), from) /\ Bars!Sent(k).bucket = p.bucket /\ ~Bars!Sent(k).closed
    BY <1>1, <2>5, SentFolds
  <2>7. CASE roll
    <3> DEFINE d == Bars!Closed(f)  m == [n EXCEPT ![f.bucket] = @ + 1]
    <3>1. f # None /\ f.bucket # p.bucket /\ ~f.closed /\ f.price # {} BY <2>4, <2>7 DEF roll
    <3>2. Kept(h, d, from, m, barsClock) BY <1>1, <3>1, CountedKept
    <3>3. d.bucket = f.bucket BY <1>3, <3>1, ClosedFolds
    <3>4. d.bucket < Bars!Sent(k).bucket BY <1>2, <1>3, <2>5, <2>6, <3>1, <3>3
    <3> HIDE DEF d, m
    <3>5. Kept(g, Bars!Sent(k), from, m, barsClock)
      BY <1>1, <1>2, <2>6, <3>2, <3>4, GrownKept
    <3>6. finals'[s] = m BY <2>2, <2>7 DEF roll, m
    <3> QED BY <2>1, <3>5, <3>6 DEF h, f, from, k
  <2>8. CASE ~roll
    <3>1. \/ f = None \/ f.bucket < Bars!Sent(k).bucket
          \/ f.bucket = Bars!Sent(k).bucket /\ (f.closed => Bars!Sent(k).closed)
      BY <1>2, <1>3, <2>3, <2>5, <2>6
    <3>2. Kept(g, Bars!Sent(k), from, n, barsClock)
      BY <1>1, <1>2, <2>6, <3>1, GrownKept
    <3>3. finals'[s] = n BY <2>2, <2>8 DEF roll
    <3> QED BY <2>1, <3>2, <3>3 DEF h, f, n, from, k
  <2> QED BY <2>7, <2>8
<1> QED BY <1>4, <1>5

(* And the candles, as they are shown after it, tell the tape it is on.    *)
LEMMA PrintShows ==
    ASSUME BarsConfigured, BarsInv, NEW s \in Bars!Series, NEW p \in Bars!Prints,
           Bars!HearPrint(s, p), p.moves # "nothing"
    PROVE  Told(barsHeard', candle') /\ Stand(candle', barsOfficial)
<1> DEFINE h == barsHeard[s]  f == bar[s]  n == finals[s]  from == began[s]
           g == Append(h, p)
<1>1. /\ barsClock \in 0..MaxClock /\ barsClock \in Nat
      /\ h \in Seq(Bars!Prints) /\ Len(h) \in Nat /\ from \in 0..Len(h) /\ from \in Nat
      /\ Kept(h, f, from, n, barsClock)
      /\ DOMAIN barsHeard = Bars!Series
      /\ \A r \in Bars!Series : barsHeard[r] \in Seq(Bars!Prints)
      /\ Told(barsHeard, candle) /\ Stand(candle, barsOfficial)
      /\ barsOfficial \in SUBSET Bars!Buckets /\ barsConfirmed \in BOOLEAN
  BY BarsFacts
<1>2. barsHeard' = [barsHeard EXCEPT ![s] = Append(@, p)] BY DEF Bars!HearPrint
<1>3. barsHeard'[s] = g BY <1>1, <1>2
<1>4. CASE Bars!Ignores(s, p)
  <2>1. candle' = candle BY <1>4 DEF Bars!HearPrint
  <2>2. Told([barsHeard EXCEPT ![s] = Append(@, p)], candle) BY <1>1, StillTold
  <2> QED BY <1>1, <1>2, <2>1, <2>2
<1>5. CASE ~Bars!Ignores(s, p)
  <2> DEFINE k == Bars!Moved(f, Len(h) + 1, p)
             closed == IF Bars!Rollover(s, p)
                       THEN Bars!Show(candle, f.bucket, Bars!Frame(s, f, TRUE)) ELSE candle
             upd == Update(s, k)
  <2>1. candle' = IF Bars!Sends(k) THEN Bars!Show(closed, p.bucket, upd) ELSE closed
    BY <1>5 DEF Bars!HearPrint, Update
  <2>2. f # None => ~(p.bucket < f.bucket) /\ ~(p.bucket = f.bucket /\ f.closed)
    BY <1>5 DEF Bars!Ignores
  <2>3. Told(barsHeard, closed) /\ Stand(closed, barsOfficial)
    <3>1. CASE Bars!Rollover(s, p)
      <4>1. bar[s] # None /\ ~bar[s].closed /\ bar[s].price # {} /\ Bars!OwnFinal(s)
        BY <3>1 DEF Bars!Rollover
      <4> QED BY <1>1, <3>1, <4>1, SentShows
    <3>2. CASE ~Bars!Rollover(s, p) BY <1>1, <3>2
    <3> QED BY <3>1, <3>2
  <2> HIDE DEF closed
  <2>4. Told(barsHeard', closed)
    <3>1. Told([barsHeard EXCEPT ![s] = Append(@, p)], closed) BY <1>1, <2>3, StillTold
    <3> QED BY <1>2, <3>1
  <2>5. Folds(g, k, from) /\ k.bucket = p.bucket /\ ~k.closed
    <3> HIDE DEF h, f, n, from
    <3> QED BY <1>1, <2>2, MovedFolds
  <2> HIDE DEF k
  <2>6. /\ upd \in Bars!Shown /\ upd.price = k.price /\ upd.volume = k.volume
        /\ upd.from = from /\ upd.upto = Len(h) + 1 /\ upd.by = s
        /\ ~upd.final
    <3>1. k \in Bars!Formed BY <2>5 DEF Folds
    <3>2. began[s] \in Nat /\ Len(barsHeard[s]) \in Nat /\ barsConfirmed \in BOOLEAN BY <1>1
    <3>3. ASSUME NEW q \in Bars!Formed
          PROVE  /\ Update(s, q) \in Bars!Shown /\ Update(s, q).price = q.price
                 /\ Update(s, q).volume = q.volume /\ Update(s, q).from = began[s]
                 /\ Update(s, q).upto = Len(barsHeard[s]) + 1 /\ Update(s, q).by = s
                 /\ ~Update(s, q).final
      BY <3>2, UpdateIs
    <3> QED BY <3>1, <3>3
  <2> HIDE DEF upd
  <2>7. p.bucket \in Bars!Buckets /\ Len(g) = Len(h) + 1 /\ Len(g) \in Nat
    BY <1>1, TapeStands DEF Bars!Prints
  <2>8. CASE Bars!Sends(k)
    <3>1. k.price # {} BY <2>8 DEF Bars!Sends
    <3> DEFINE hs == barsHeard'
    <3>2. /\ Len(hs[s]) \in Nat /\ Folds(hs[s], k, from) /\ upd.upto = Len(hs[s])
      BY <1>3, <2>5, <2>6, <2>7
    <3>3. Told(hs, closed) BY <2>4
    <3> HIDE DEF hs, h, from
    <3>4. Tells(hs, k.bucket, upd) BY <1>1, <2>5, <2>6, <3>1, <3>2, FrameTells
    <3>5. Allowed(upd, barsOfficial) BY <2>6 DEF Allowed
    <3>6. /\ Told(hs, Bars!Show(closed, p.bucket, upd))
          /\ Stand(Bars!Show(closed, p.bucket, upd), barsOfficial)
      BY <1>1, <2>3, <2>5, <2>7, <3>3, <3>4, <3>5, ShowTells
    <3> QED BY <2>1, <2>8, <3>6 DEF hs
  <2>9. CASE ~Bars!Sends(k) BY <2>1, <2>3, <2>4, <2>9
  <2> QED BY <2>8, <2>9
<1> QED BY <1>4, <1>5

(* A print keeps the invariant.                                            *)
LEMMA HearKeeps ==
    ASSUME BarsConfigured, BarsInv, NEW s \in Bars!Series, NEW p \in Bars!Prints,
           Bars!HearPrint(s, p)
    PROVE  BarsInv'
<1>1. /\ barsClock' = barsClock /\ began' = began /\ subMinute' = subMinute
      /\ barsTracked' = barsTracked /\ barsCharted' = barsCharted
      /\ barsConfirmed' = barsConfirmed /\ barsOfficial' = barsOfficial
  BY DEF Bars!HearPrint, Bars!tiers
<1>2. Bars!Bucket(barsClock') = Bars!Bucket(barsClock) BY <1>1
<1>3. CASE p.moves = "nothing"
  <2>1. barsHeard' = barsHeard BY <1>3 DEF Bars!HearPrint
  <2>2. bar' = bar /\ candle' = candle /\ finals' = finals
    BY <1>3 DEF Bars!HearPrint, Bars!Ignores
  <2>3. BarsTypes' BY <1>1, <2>1, <2>2 DEF BarsInv, BarsTypes
  <2>4. SeriesKept' BY <1>1, <1>2, <2>1, <2>2 DEF BarsInv, SeriesKept, Kept
  <2> QED BY <1>1, <2>1, <2>2, <2>3, <2>4 DEF BarsInv
<1>4. CASE p.moves # "nothing"
  <2>1. barsHeard' = [barsHeard EXCEPT ![s] = Append(@, p)] BY <1>4 DEF Bars!HearPrint
  <2>2. Told(barsHeard', candle') /\ Stand(candle', barsOfficial) BY <1>4, PrintShows
  <2>3. Kept(Append(barsHeard[s], p), bar'[s], began[s], finals'[s], barsClock)
    BY <1>4, PrintKept
  <2>4. \/ bar' = bar /\ finals' = finals
        \/ /\ \E x : bar' = [bar EXCEPT ![s] = x]
           /\ finals' = finals \/ \E b : finals' = [finals EXCEPT ![s][b] = @ + 1]
    BY DEF Bars!HearPrint
  <2>5. /\ DOMAIN barsHeard = Bars!Series /\ DOMAIN bar = Bars!Series
        /\ DOMAIN began = Bars!Series /\ DOMAIN finals = Bars!Series
        /\ \A r \in Bars!Series : Kept(barsHeard[r], bar[r], began[r], finals[r], barsClock)
    BY BarsFacts
  <2>6. /\ DOMAIN bar' = Bars!Series /\ DOMAIN finals' = Bars!Series
        /\ \A r \in Bars!Series : r # s => bar'[r] = bar[r] /\ finals'[r] = finals[r]
    BY <2>4, <2>5
  <2>7. /\ DOMAIN barsHeard' = Bars!Series /\ barsHeard'[s] = Append(barsHeard[s], p)
        /\ \A r \in Bars!Series : r # s => barsHeard'[r] = barsHeard[r]
    BY <2>1, <2>5
  <2>8. ASSUME NEW r \in Bars!Series
        PROVE  Kept(barsHeard'[r], bar'[r], began[r], finals'[r], barsClock)
    BY <2>3, <2>5, <2>6, <2>7
  <2>9. SeriesKept' BY <1>1, <1>2, <2>8 DEF SeriesKept
  <2>10. /\ ~barsTracked => bar'["tracked"] = None
         /\ ~barsCharted => bar'["charted"] = None
    <3>1. /\ ~barsTracked => s # "tracked" /\ bar["tracked"] = None
          /\ ~barsCharted => s # "charted" /\ bar["charted"] = None
      BY DEF Bars!HearPrint, Bars!Routed, BarsInv, BarsTypes
    <3>2. "tracked" \in Bars!Series /\ "charted" \in Bars!Series BY DEF Bars!Series
    <3> QED BY <2>6, <3>1, <3>2
  <2>11. BarsTypes' BY <1>1, <2>5, <2>6, <2>7, <2>10 DEF BarsInv, BarsTypes
  <2> QED BY <1>1, <2>2, <2>9, <2>11 DEF BarsInv
<1> QED BY <1>3, <1>4

(* What the clock side sends of a series is shown as it is true.           *)
LEMMA FlushShows ==
    ASSUME BarsConfigured, BarsInv, NEW s \in Bars!Series, NEW f, f = bar[s] \/ f = None,
           NEW c, Told(barsHeard, c), Stand(c, barsOfficial)
    PROVE  /\ Told(barsHeard, Bars!ShownBy(s, f, c))
           /\ Stand(Bars!ShownBy(s, f, c), barsOfficial)
<1>1. CASE Bars!SendsFinal(s, f)
  <2>1. f = bar[s] /\ bar[s] # None /\ ~bar[s].closed /\ bar[s].price # {} /\ Bars!OwnFinal(s)
    BY <1>1 DEF Bars!SendsFinal, Bars!Forming
  <2>2. Bars!ShownBy(s, f, c) = Bars!Show(c, bar[s].bucket, Bars!Frame(s, bar[s], TRUE))
    BY <1>1, <2>1 DEF Bars!ShownBy
  <2> QED BY <2>1, <2>2, SentShows
<1>2. CASE ~Bars!SendsFinal(s, f) /\ Bars!Forming(f) /\ ~Bars!Ended(f) /\ Bars!Sends(f)
  <2>1. f = bar[s] /\ bar[s] # None /\ ~bar[s].closed /\ bar[s].price # {}
    BY <1>2 DEF Bars!Sends, Bars!Forming
  <2>2. Bars!ShownBy(s, f, c) = Bars!Show(c, bar[s].bucket, Bars!Frame(s, bar[s], FALSE))
    BY <1>2, <2>1 DEF Bars!ShownBy
  <2> QED BY <2>1, <2>2, SentShows
<1>3. CASE ~Bars!SendsFinal(s, f) /\ ~(Bars!Forming(f) /\ ~Bars!Ended(f) /\ Bars!Sends(f))
  BY <1>3 DEF Bars!ShownBy
<1> QED BY <1>1, <1>2, <1>3

(* The clock side keeps both series and what is shown of them.             *)
LEMMA FlushKept ==
    ASSUME BarsConfigured, BarsInv, NEW c, NEW n, c = bar["charted"] \/ c = None,
           NEW from, Kept(barsHeard["charted"], c, from, n, barsClock),
           Bars!Flush(bar["tracked"], c, n)
    PROVE  /\ barsClock' = barsClock /\ barsHeard' = barsHeard /\ subMinute' = subMinute
           /\ barsTracked' = barsTracked /\ barsOfficial' = barsOfficial
           /\ Told(barsHeard, candle') /\ Stand(candle', barsOfficial)
           /\ DOMAIN bar' = Bars!Series /\ DOMAIN finals' = Bars!Series
           /\ Kept(barsHeard["tracked"], bar'["tracked"], began["tracked"],
                   finals'["tracked"], barsClock)
           /\ Kept(barsHeard["charted"], bar'["charted"], from, finals'["charted"], barsClock)
           /\ bar["tracked"] = None => bar'["tracked"] = None
           /\ c = None => bar'["charted"] = None
<1> DEFINE t == bar["tracked"]
<1>1. "tracked" \in Bars!Series /\ "charted" \in Bars!Series /\ "tracked" # "charted"
  BY DEF Bars!Series
<1>2. /\ barsClock \in 0..MaxClock
      /\ Kept(barsHeard["tracked"], t, began["tracked"], finals["tracked"], barsClock)
      /\ Told(barsHeard, candle) /\ Stand(candle, barsOfficial)
  BY <1>1, BarsFacts
<1>3. /\ bar' = [s \in Bars!Series |-> Bars!Flushed(IF s = "tracked" THEN t ELSE c)]
      /\ finals' = [s \in Bars!Series |-> IF s = "tracked"
                                          THEN Bars!Counted(s, t, finals[s])
                                          ELSE Bars!Counted(s, c, n)]
      /\ candle' = Bars!ShownBy("charted", c, Bars!ShownBy("tracked", t, candle))
      /\ barsClock' = barsClock /\ barsHeard' = barsHeard /\ subMinute' = subMinute
      /\ barsTracked' = barsTracked /\ barsOfficial' = barsOfficial
  BY DEF Bars!Flush
<1>4. /\ Told(barsHeard, Bars!ShownBy("tracked", t, candle))
      /\ Stand(Bars!ShownBy("tracked", t, candle), barsOfficial)
  BY <1>1, <1>2, FlushShows
<1>5. Told(barsHeard, candle') /\ Stand(candle', barsOfficial)
  BY <1>1, <1>3, <1>4, FlushShows
<1>6. /\ DOMAIN bar' = Bars!Series /\ DOMAIN finals' = Bars!Series
      /\ bar'["tracked"] = Bars!Flushed(t) /\ bar'["charted"] = Bars!Flushed(c)
      /\ finals'["tracked"] = Bars!Counted("tracked", t, finals["tracked"])
      /\ finals'["charted"] = Bars!Counted("charted", c, n)
  BY <1>1, <1>3
<1>7. /\ Kept(barsHeard["tracked"], Bars!Flushed(t), began["tracked"],
              Bars!Counted("tracked", t, finals["tracked"]), barsClock)
      /\ t = None => Bars!Flushed(t) = None
  BY <1>1, <1>2, FlushedKept
<1>8. /\ Kept(barsHeard["charted"], Bars!Flushed(c), from, Bars!Counted("charted", c, n), barsClock)
      /\ c = None => Bars!Flushed(c) = None
  BY <1>1, <1>2, FlushedKept
<1> QED BY <1>3, <1>5, <1>6, <1>7, <1>8

(* The chart tick, whether or not the set of charts has changed.           *)
LEMMA TickKeeps ==
    ASSUME BarsConfigured, BarsInv, Bars!Tick \/ Bars!Chart \/ Bars!Unchart
    PROVE  BarsInv'
<1>1. "tracked" \in Bars!Series /\ "charted" \in Bars!Series /\ "tracked" # "charted"
      /\ \A s \in Bars!Series : s = "tracked" \/ s = "charted"
  BY DEF Bars!Series
<1>2. /\ DOMAIN barsHeard = Bars!Series /\ DOMAIN began = Bars!Series
      /\ barsHeard["charted"] \in Seq(Bars!Prints)
      /\ Kept(barsHeard["charted"], bar["charted"], began["charted"], finals["charted"], barsClock)
  BY <1>1, BarsFacts
<1>3. ASSUME NEW c, NEW n, c = bar["charted"] \/ c = None, NEW from,
             Kept(barsHeard["charted"], c, from, n, barsClock),
             Bars!Flush(bar["tracked"], c, n),
             DOMAIN began' = Bars!Series, began'["tracked"] = began["tracked"],
             began'["charted"] = from,
             barsCharted' \in BOOLEAN, barsConfirmed' \in BOOLEAN,
             ~barsCharted' => c = None /\ ~barsConfirmed'
      PROVE  BarsInv'
  <2>1. /\ barsClock' = barsClock /\ barsHeard' = barsHeard /\ subMinute' = subMinute
        /\ barsTracked' = barsTracked /\ barsOfficial' = barsOfficial
        /\ Told(barsHeard, candle') /\ Stand(candle', barsOfficial)
        /\ DOMAIN bar' = Bars!Series /\ DOMAIN finals' = Bars!Series
        /\ Kept(barsHeard["tracked"], bar'["tracked"], began["tracked"],
                finals'["tracked"], barsClock)
        /\ Kept(barsHeard["charted"], bar'["charted"], from, finals'["charted"], barsClock)
        /\ bar["tracked"] = None => bar'["tracked"] = None
        /\ c = None => bar'["charted"] = None
    BY <1>3, FlushKept
  <2>2. ASSUME NEW s \in Bars!Series
        PROVE  Kept(barsHeard'[s], bar'[s], began'[s], finals'[s], barsClock')
    BY <1>1, <1>3, <2>1
  <2>3. SeriesKept' BY <2>2 DEF SeriesKept
  <2>4. ~barsTracked' => bar'["tracked"] = None BY <2>1 DEF BarsInv, BarsTypes
  <2>5. BarsTypes' BY <1>2, <1>3, <2>1, <2>4 DEF BarsInv, BarsTypes
  <2>6. Told(barsHeard', candle') /\ Stand(candle', barsOfficial') BY <2>1
  <2> QED BY <2>3, <2>5, <2>6 DEF BarsInv
<1>4. /\ barsCharted \in BOOLEAN /\ barsConfirmed \in BOOLEAN
      /\ ~barsCharted => bar["charted"] = None /\ ~barsConfirmed
  BY DEF BarsInv, BarsTypes
<1>5. CASE Bars!Tick
  <2>1. /\ Bars!Flush(bar["tracked"], bar["charted"], finals["charted"])
        /\ began' = began /\ barsCharted' = barsCharted /\ barsConfirmed' = barsConfirmed
    BY <1>5 DEF Bars!Tick
  <2> QED BY <1>2, <1>3, <1>4, <2>1
<1>6. CASE Bars!Chart
  <2>1. /\ Bars!Flush(bar["tracked"], bar["charted"], finals["charted"])
        /\ began' = began /\ barsCharted' = TRUE /\ barsConfirmed' \in BOOLEAN
    BY <1>6 DEF Bars!Chart
  <2> QED BY <1>2, <1>3, <2>1
<1>7. CASE Bars!Unchart
  <2>1. /\ Bars!Flush(bar["tracked"], None, Bars!NoFinals)
        /\ began' = [began EXCEPT !["charted"] = Len(barsHeard["charted"])]
        /\ barsCharted' = FALSE /\ barsConfirmed' = FALSE
    BY <1>7 DEF Bars!Unchart
  <2>2. Kept(barsHeard["charted"], None, Len(barsHeard["charted"]), Bars!NoFinals, barsClock)
    BY <1>2, GoneKept
  <2>3. /\ DOMAIN began' = Bars!Series /\ began'["tracked"] = began["tracked"]
        /\ began'["charted"] = Len(barsHeard["charted"])
    BY <1>1, <1>2, <2>1
  <2> QED BY <1>3, <2>1, <2>2, <2>3
<1> QED BY <1>5, <1>6, <1>7

(* What leaves the series' tapes and the candles as they are needs only    *)
(* its series to be in order.                                              *)
LEMMA SeriesKeep ==
    ASSUME BarsConfigured, BarsInv, barsHeard' = barsHeard, subMinute' = subMinute,
           Told(barsHeard, candle'), Stand(candle', barsOfficial'),
           barsClock' \in 0..MaxClock, barsOfficial' \subseteq Bars!Buckets,
           subMinute => barsOfficial' = {},
           barsTracked' \in BOOLEAN, barsCharted' \in BOOLEAN, barsConfirmed' \in BOOLEAN,
           DOMAIN bar' = Bars!Series, DOMAIN began' = Bars!Series, DOMAIN finals' = Bars!Series,
           ~barsTracked' => bar'["tracked"] = None,
           ~barsCharted' => bar'["charted"] = None /\ ~barsConfirmed',
           \A s \in Bars!Series : Kept(barsHeard[s], bar'[s], began'[s], finals'[s], barsClock')
    PROVE  BarsInv'
<1>1. BarsTypes' BY DEF BarsInv, BarsTypes
<1>2. SeriesKept' BY DEF SeriesKept
<1>3. Told(barsHeard', candle') OBVIOUS
<1> QED BY <1>1, <1>2, <1>3 DEF BarsInv

(* A series that goes leaves the candles as they are, and the next one     *)
(* starts with the print it hears.                                         *)
LEMMA TierKeeps ==
    ASSUME BarsConfigured, BarsInv, Bars!Track \/ Bars!Untrack \/ Bars!Reconnect
    PROVE  BarsInv'
<1>1. "tracked" \in Bars!Series /\ "charted" \in Bars!Series /\ "tracked" # "charted"
  BY DEF Bars!Series
<1>2. /\ barsClock' = barsClock /\ barsHeard' = barsHeard /\ subMinute' = subMinute
      /\ barsOfficial' = barsOfficial /\ candle' = candle
  BY DEF Bars!Track, Bars!Untrack, Bars!Reconnect
<1>3. /\ barsClock' \in 0..MaxClock /\ barsOfficial' \subseteq Bars!Buckets
      /\ Told(barsHeard, candle') /\ Stand(candle', barsOfficial')
      /\ DOMAIN barsHeard = Bars!Series /\ DOMAIN bar = Bars!Series
      /\ DOMAIN began = Bars!Series /\ DOMAIN finals = Bars!Series
      /\ \A s \in Bars!Series :
            /\ Kept(barsHeard[s], bar[s], began[s], finals[s], barsClock)
            /\ Kept(barsHeard[s], None, Len(barsHeard[s]), Bars!NoFinals, barsClock)
  BY <1>2, BarsFacts, GoneKept
<1>4. /\ barsTracked \in BOOLEAN /\ barsCharted \in BOOLEAN /\ barsConfirmed \in BOOLEAN
      /\ subMinute => barsOfficial' = {}
      /\ ~barsTracked => bar["tracked"] = None
      /\ ~barsCharted => bar["charted"] = None /\ ~barsConfirmed
  BY <1>2 DEF BarsInv, BarsTypes
<1>5. ASSUME DOMAIN bar' = Bars!Series, DOMAIN began' = Bars!Series, DOMAIN finals' = Bars!Series,
             barsTracked' \in BOOLEAN, barsCharted' \in BOOLEAN, barsConfirmed' \in BOOLEAN,
             ~barsTracked' => bar'["tracked"] = None,
             ~barsCharted' => bar'["charted"] = None /\ ~barsConfirmed',
             \A s \in Bars!Series : Kept(barsHeard[s], bar'[s], began'[s], finals'[s], barsClock)
      PROVE  BarsInv'
  <2>1. \A s \in Bars!Series : Kept(barsHeard[s], bar'[s], began'[s], finals'[s], barsClock')
    BY <1>2, <1>5
  <2>2. subMinute => barsOfficial' = {} BY <1>4
  <2> QED BY <1>2, <1>3, <1>5, <2>1, <2>2, SeriesKeep
<1>6. CASE Bars!Track
  <2>1. /\ bar' = bar /\ began' = began /\ finals' = finals /\ barsTracked' = TRUE
        /\ barsCharted' = barsCharted /\ barsConfirmed' = barsConfirmed
    BY <1>6 DEF Bars!Track
  <2> QED BY <1>3, <1>4, <1>5, <2>1
<1>7. CASE Bars!Untrack
  <2>1. /\ bar' = [bar EXCEPT !["tracked"] = None]
        /\ began' = [began EXCEPT !["tracked"] = Len(barsHeard["tracked"])]
        /\ finals' = [finals EXCEPT !["tracked"] = Bars!NoFinals]
        /\ barsTracked' = FALSE
        /\ barsCharted' = barsCharted /\ barsConfirmed' = barsConfirmed
    BY <1>7 DEF Bars!Untrack
  <2>2. /\ DOMAIN bar' = Bars!Series /\ DOMAIN began' = Bars!Series /\ DOMAIN finals' = Bars!Series
        /\ bar'["tracked"] = None /\ bar'["charted"] = bar["charted"]
        /\ began'["tracked"] = Len(barsHeard["tracked"])
        /\ finals'["tracked"] = Bars!NoFinals
        /\ \A s \in Bars!Series : s # "tracked" =>
              bar'[s] = bar[s] /\ began'[s] = began[s] /\ finals'[s] = finals[s]
    BY <1>1, <1>3, <2>1
  <2>3. ASSUME NEW s \in Bars!Series
        PROVE  Kept(barsHeard[s], bar'[s], began'[s], finals'[s], barsClock)
    <3>1. CASE s = "tracked" BY <1>3, <2>2, <3>1
    <3>2. CASE s # "tracked" BY <1>3, <2>2, <3>2
    <3> QED BY <3>1, <3>2
  <2> QED BY <1>4, <1>5, <2>1, <2>2, <2>3
<1>8. CASE Bars!Reconnect
  <2>1. /\ bar' = [s \in Bars!Series |-> None]
        /\ began' = [s \in Bars!Series |-> Len(barsHeard[s])]
        /\ finals' = [s \in Bars!Series |-> Bars!NoFinals]
        /\ barsTracked' \in BOOLEAN /\ barsCharted' = FALSE /\ barsConfirmed' = FALSE
    BY <1>8 DEF Bars!Reconnect
  <2>2. /\ DOMAIN bar' = Bars!Series /\ DOMAIN began' = Bars!Series /\ DOMAIN finals' = Bars!Series
        /\ bar'["tracked"] = None /\ bar'["charted"] = None
        /\ \A s \in Bars!Series : /\ bar'[s] = None /\ began'[s] = Len(barsHeard[s])
                                  /\ finals'[s] = Bars!NoFinals
    BY <1>1, <2>1
  <2>3. \A s \in Bars!Series : Kept(barsHeard[s], bar'[s], began'[s], finals'[s], barsClock)
    BY <1>3, <2>2
  <2> QED BY <1>5, <2>1, <2>2, <2>3
<1> QED BY <1>6, <1>7, <1>8

(* The official bar and its corrections are true and are shown.            *)
LEMMA OfficialShows ==
    ASSUME BarsConfigured, BarsInv, NEW b \in Bars!Buckets
    PROVE  /\ Told(barsHeard, Bars!Show(candle, b, Bars!OfficialFrame))
           /\ Stand(Bars!Show(candle, b, Bars!OfficialFrame), barsOfficial \cup {b})
           /\ Stand(Bars!Show(candle, b, Bars!OfficialFrame), barsOfficial)
<1> DEFINE x == Bars!OfficialFrame
<1>1. x \in Bars!Shown /\ x.by = "official" /\ x.final = TRUE
  BY DEF Bars!OfficialFrame, Bars!Shown
<1> HIDE DEF x
<1>2. Tells(barsHeard, b, x) BY <1>1 DEF Tells
<1>3. Allowed(x, barsOfficial) BY <1>1 DEF Allowed
<1>4. /\ Told(barsHeard, candle) /\ Stand(candle, barsOfficial)
      /\ barsOfficial \in SUBSET Bars!Buckets
  BY BarsFacts
<1>5. /\ Told(barsHeard, Bars!Show(candle, b, x)) /\ Stand(Bars!Show(candle, b, x), barsOfficial)
      /\ Stand(Bars!Show(candle, b, x), barsOfficial \cup {b})
  BY <1>1, <1>2, <1>3, <1>4, ShowTells
<1> QED BY <1>5 DEF x

(* The official bar supersedes the estimates of its minute, its correction *)
(* touches no series.                                                      *)
LEMMA OfficialKeeps ==
    ASSUME BarsConfigured, BarsInv, NEW b \in Bars!Buckets, Bars!Official(b) \/ Bars!Corrected(b)
    PROVE  BarsInv'
<1>1. /\ barsClock' = barsClock /\ barsHeard' = barsHeard /\ began' = began /\ finals' = finals
      /\ subMinute' = subMinute /\ barsTracked' = barsTracked /\ barsCharted' = barsCharted
      /\ barsConfirmed' = barsConfirmed
      /\ candle' = Bars!Show(candle, b, Bars!OfficialFrame)
  BY DEF Bars!Official, Bars!Corrected, Bars!tiers
<1>2. /\ barsClock \in 0..MaxClock /\ barsOfficial \in SUBSET Bars!Buckets
      /\ DOMAIN bar = Bars!Series /\ DOMAIN began = Bars!Series /\ DOMAIN finals = Bars!Series
      /\ \A s \in Bars!Series : Kept(barsHeard[s], bar[s], began[s], finals[s], barsClock)
  BY BarsFacts
<1>3. /\ barsTracked \in BOOLEAN /\ barsCharted \in BOOLEAN /\ barsConfirmed \in BOOLEAN
      /\ subMinute => barsOfficial = {}
      /\ ~barsTracked => bar["tracked"] = None
      /\ ~barsCharted => bar["charted"] = None /\ ~barsConfirmed
  BY DEF BarsInv, BarsTypes
<1>4. /\ Told(barsHeard, candle') /\ Stand(candle', barsOfficial)
      /\ Stand(candle', barsOfficial \cup {b})
  BY <1>1, OfficialShows
<1>5. CASE Bars!Official(b)
  <2>1. /\ ~subMinute /\ barsOfficial' = barsOfficial \cup {b}
        /\ bar' = [s \in Bars!Series |-> Bars!Superseded(bar[s], b)]
    BY <1>5 DEF Bars!Official
  <2>2. ASSUME NEW s \in Bars!Series
        PROVE  /\ Kept(barsHeard[s], bar'[s], began[s], finals[s], barsClock)
               /\ bar[s] = None => bar'[s] = None
    <3>1. bar'[s] = Bars!Superseded(bar[s], b) BY <2>1
    <3>2. Kept(barsHeard[s], bar[s], began[s], finals[s], barsClock) BY <1>2
    <3> QED BY <3>1, <3>2, SupersededKept
  <2>3. "tracked" \in Bars!Series /\ "charted" \in Bars!Series BY DEF Bars!Series
  <2>4. /\ ~barsTracked' => bar'["tracked"] = None
        /\ ~barsCharted' => bar'["charted"] = None /\ ~barsConfirmed'
    BY <1>1, <1>3, <2>2, <2>3
  <2>5. DOMAIN bar' = Bars!Series /\ barsOfficial' \subseteq Bars!Buckets BY <1>2, <2>1
  <2>6. Stand(candle', barsOfficial') BY <1>4, <2>1
  <2>7. \A s \in Bars!Series : Kept(barsHeard[s], bar'[s], began'[s], finals'[s], barsClock')
    BY <1>1, <2>2
  <2> QED BY <1>1, <1>2, <1>3, <1>4, <2>1, <2>4, <2>5, <2>6, <2>7, SeriesKeep
<1>6. CASE Bars!Corrected(b)
  <2>1. bar' = bar /\ barsOfficial' = barsOfficial BY <1>6 DEF Bars!Corrected
  <2>2. \A s \in Bars!Series : Kept(barsHeard[s], bar'[s], began'[s], finals'[s], barsClock')
    BY <1>1, <1>2, <2>1
  <2> QED BY <1>1, <1>2, <1>3, <1>4, <2>1, <2>2, SeriesKeep
<1> QED BY <1>5, <1>6

(* Nor does time alone change a candle.                                    *)
LEMMA AdvanceKeeps ==
    ASSUME BarsConfigured, BarsInv, Bars!Advance
    PROVE  BarsInv'
<1>1. /\ barsClock' = barsClock + 1 /\ barsClock < MaxClock
      /\ barsHeard' = barsHeard /\ began' = began /\ finals' = finals /\ bar' = bar
      /\ subMinute' = subMinute /\ barsTracked' = barsTracked /\ barsCharted' = barsCharted
      /\ barsConfirmed' = barsConfirmed /\ barsOfficial' = barsOfficial /\ candle' = candle
  BY DEF Bars!Advance, Bars!tiers
<1>2. barsClock \in Nat /\ barsClock' \in Nat /\ barsClock' \in 0..MaxClock
  BY <1>1, BarsFacts DEF BarsConfigured
<1>3. /\ Bars!Bucket(barsClock) \in Nat /\ Bars!Bucket(barsClock') \in Nat
      /\ Bars!Bucket(barsClock) <= Bars!Bucket(barsClock')
  BY <1>1, <1>2, BucketGrows
<1>4. ASSUME NEW s \in Bars!Series
      PROVE  Kept(barsHeard'[s], bar'[s], began'[s], finals'[s], barsClock')
  <2>1. /\ barsClock \in 0..MaxClock
        /\ Kept(barsHeard[s], bar[s], began[s], finals[s], barsClock)
    BY BarsFacts
  <2>2. bar[s] # None => bar[s].bucket \in Nat BY <2>1, OpenKept
  <2>3. bar[s] # None => bar[s].bucket <= Bars!Bucket(barsClock) BY <2>1 DEF Kept
  <2>4. bar[s] # None => bar[s].bucket <= Bars!Bucket(barsClock') BY <1>3, <2>2, <2>3
  <2>5. Kept(barsHeard[s], bar[s], began[s], finals[s], barsClock') BY <2>1, <2>4 DEF Kept
  <2> QED BY <1>1, <2>5
<1>5. SeriesKept' BY <1>4 DEF SeriesKept
<1>6. BarsTypes' BY <1>1, <1>2 DEF BarsInv, BarsTypes
<1>7. Told(barsHeard', candle') /\ Stand(candle', barsOfficial') BY <1>1 DEF BarsInv
<1> QED BY <1>5, <1>6, <1>7 DEF BarsInv

(* The invariant of the forming bars is inductive.                         *)
LEMMA BarsInit == ASSUME BarsConfigured, Bars!Init PROVE BarsInv
<1>1. /\ barsClock = 0 /\ subMinute \in BOOLEAN /\ barsTracked \in BOOLEAN
      /\ barsCharted = FALSE /\ barsConfirmed = FALSE /\ barsOfficial = {}
      /\ barsHeard = [s \in Bars!Series |-> <<>>] /\ bar = [s \in Bars!Series |-> None]
      /\ began = [s \in Bars!Series |-> 0]
      /\ finals = [s \in Bars!Series |-> Bars!NoFinals]
      /\ candle = [b \in Bars!Buckets |-> None]
  BY DEF Bars!Init
<1>2. "tracked" \in Bars!Series /\ "charted" \in Bars!Series BY DEF Bars!Series
<1>3. barsClock \in 0..MaxClock BY <1>1 DEF BarsConfigured
<1>4. BarsTypes BY <1>1, <1>2, <1>3 DEF BarsTypes
<1>5. ASSUME NEW s \in Bars!Series
      PROVE  Kept(barsHeard[s], bar[s], began[s], finals[s], barsClock)
  <2>1. barsHeard[s] = <<>> /\ bar[s] = None /\ began[s] = 0 /\ finals[s] = Bars!NoFinals
    BY <1>1
  <2>2. <<>> \in Seq(Bars!Prints) /\ Len(<<>>) = 0 OBVIOUS
  <2>3. Kept(<<>>, None, Len(<<>>), Bars!NoFinals, barsClock) BY <2>2, GoneKept
  <2> QED BY <2>1, <2>2, <2>3
<1>6. SeriesKept BY <1>5 DEF SeriesKept
<1>7. Told(barsHeard, candle) BY <1>1 DEF Told
<1>8. Stand(candle, barsOfficial) BY <1>1 DEF Stand
<1> QED BY <1>4, <1>6, <1>7, <1>8 DEF BarsInv

(* Every step of the forming bars keeps it.                                *)
LEMMA BarsStepKeeps == ASSUME BarsConfigured, BarsInv, [Bars!Next]_(Bars!vars) PROVE BarsInv'
<1>1. CASE \E s \in Bars!Series, p \in Bars!Prints : Bars!HearPrint(s, p) BY <1>1, HearKeeps
<1>2. CASE Bars!Tick \/ Bars!Chart \/ Bars!Unchart BY <1>2, TickKeeps
<1>3. CASE Bars!Track \/ Bars!Untrack \/ Bars!Reconnect BY <1>3, TierKeeps
<1>4. CASE \E b \in Bars!Buckets : Bars!Official(b) \/ Bars!Corrected(b) BY <1>4, OfficialKeeps
<1>5. CASE Bars!Advance BY <1>5, AdvanceKeeps
<1>6. CASE UNCHANGED Bars!vars
  <2>1. /\ barsClock' = barsClock /\ barsHeard' = barsHeard /\ subMinute' = subMinute
        /\ barsTracked' = barsTracked /\ barsCharted' = barsCharted
        /\ barsConfirmed' = barsConfirmed /\ barsOfficial' = barsOfficial
        /\ candle' = candle /\ bar' = bar /\ began' = began /\ finals' = finals
    BY <1>6 DEF Bars!vars, Bars!tiers
  <2>2. BarsTypes' BY <2>1 DEF BarsInv, BarsTypes
  <2>3. ASSUME NEW s \in Bars!Series
        PROVE  Kept(barsHeard'[s], bar'[s], began'[s], finals'[s], barsClock')
    BY <2>1 DEF BarsInv, SeriesKept
  <2>4. SeriesKept' BY <2>3 DEF SeriesKept
  <2>5. Told(barsHeard', candle') /\ Stand(candle', barsOfficial') BY <2>1 DEF BarsInv
  <2> QED BY <2>2, <2>4, <2>5 DEF BarsInv
<1> QED BY <1>1, <1>2, <1>3, <1>4, <1>5, <1>6 DEF Bars!Next

(* And it says that the candles are true.                                  *)
LEMMA BarsSafe ==
    ASSUME BarsConfigured, BarsInv
    PROVE  Bars!TypeOK /\ Bars!CandleIsItsPrints /\ Bars!ClosedOnce
                       /\ Bars!OfficialStands
<1>1. Bars!CandleIsItsPrints
  <2> SUFFICES ASSUME NEW b \in Bars!Buckets, candle[b] # None, candle[b].by # "official"
               PROVE  /\ candle[b].volume = Bars!InTime(candle[b].by, b, candle[b].from,
                                                        candle[b].upto)
                      /\ candle[b].price = {i \in candle[b].volume :
                                               barsHeard[candle[b].by][i].moves = "price"}
    BY DEF Bars!CandleIsItsPrints
  <2> DEFINE c == candle[b]
  <2>1. Tells(barsHeard, b, c) BY DEF BarsInv, Told
  <2> HIDE DEF c
  <2>2. c.by # "official" BY DEF c
  <2>3. /\ c.volume = OnTime(barsHeard[c.by], b, c.from, c.upto)
        /\ c.price = Pricing(barsHeard[c.by], c.volume)
    BY <2>1, <2>2 DEF Tells
  <2>4. c.volume = Bars!InTime(c.by, b, c.from, c.upto) BY <2>3 DEF OnTime, Bars!InTime
  <2>5. c.price = {i \in c.volume : barsHeard[c.by][i].moves = "price"} BY <2>3 DEF Pricing
  <2> QED BY <2>4, <2>5 DEF c
<1>2. Bars!ClosedOnce
  <2>1. ASSUME NEW s \in Bars!Series, NEW b \in Bars!Buckets
        PROVE  finals[s][b] <= 1 /\ (finals[s][b] = 1 => Bars!GivenOf(s, b))
    <3>1. Kept(barsHeard[s], bar[s], began[s], finals[s], barsClock) BY BarsFacts
    <3>2. finals[s][b] = 0 \/ finals[s][b] = 1 BY <3>1 DEF Kept
    <3>3. finals[s][b] # 0 => \E i \in began[s] + 1 .. Len(barsHeard[s]) :
                                 barsHeard[s][i].bucket = b
      BY <3>1 DEF Kept
    <3>4. finals[s][b] = 1 => Bars!GivenOf(s, b) BY <3>3 DEF Bars!GivenOf
    <3> QED BY <3>2, <3>4
  <2> QED BY <2>1 DEF Bars!ClosedOnce
<1>3. Bars!OfficialStands BY DEF BarsInv, Stand, Unofficial, Bars!OfficialStands
<1>4. Bars!TypeOK
  <2>1. /\ barsClock \in 0..MaxClock /\ barsOfficial \subseteq Bars!Buckets
        /\ subMinute \in BOOLEAN /\ barsTracked \in BOOLEAN /\ barsCharted \in BOOLEAN
        /\ barsConfirmed \in BOOLEAN
        /\ ~barsTracked => bar["tracked"] = None
        /\ ~barsCharted => bar["charted"] = None /\ ~barsConfirmed
    BY DEF BarsInv, BarsTypes
  <2>2. ASSUME NEW s \in Bars!Series, bar[s] # None
        PROVE  /\ bar[s].bucket \in 0..Bars!Bucket(barsClock)
               /\ bar[s].price \subseteq bar[s].volume
               /\ bar[s].volume \subseteq began[s] + 1 .. Len(barsHeard[s])
               /\ bar[s].closed => ~bar[s].dirty
    <3>1. Kept(barsHeard[s], bar[s], began[s], finals[s], barsClock) BY BarsFacts
    <3>2. /\ Folds(barsHeard[s], bar[s], began[s])
          /\ bar[s].bucket <= Bars!Bucket(barsClock)
      BY <2>2, <3>1 DEF Kept
    <3>3. bar[s].bucket \in Nat BY <3>2 DEF Folds, Bars!Formed
    <3>4. Bars!Bucket(barsClock) \in Nat BY BarsFacts, BucketGrows
    <3>5. bar[s].bucket \in 0..Bars!Bucket(barsClock) BY <3>2, <3>3, <3>4
    <3> QED BY <3>2, <3>5 DEF Folds
  <2>3. \A b \in Bars!Buckets : candle[b] # None =>
            candle[b].by = "official" \/ candle[b].price # {}
    BY DEF BarsInv, Told, Tells
  <2> QED BY <2>1, <2>2, <2>3 DEF Bars!TypeOK
<1> QED BY <1>1, <1>2, <1>3, <1>4

(* A step of the composition is a step of that part, or leaves it alone.   *)
LEMMA StepBars == [ServicesNext]_servicesVars => [Bars!Next]_(Bars!vars)
<1>1. UNCHANGED barsVars => UNCHANGED Bars!vars
  BY DEF barsVars, Bars!vars, Bars!tiers
<1>2. BarsStep => Bars!Next BY DEF BarsStep
<1>3. UNCHANGED servicesVars => UNCHANGED barsVars BY DEF servicesVars
<1>4. TraderStep => UNCHANGED barsVars BY DEF TraderStep
<1>5. StoreStep => UNCHANGED barsVars BY DEF StoreStep
<1>6. StreamStep => UNCHANGED barsVars BY DEF StreamStep
<1>7. CoverageStep => UNCHANGED barsVars BY DEF CoverageStep
<1>8. HubStep => UNCHANGED barsVars BY DEF HubStep
<1>9. FeedStep => UNCHANGED barsVars BY DEF FeedStep
<1>10. IgnitionStep => UNCHANGED barsVars BY DEF IgnitionStep
<1>11. HaltsStep => UNCHANGED barsVars BY DEF HaltsStep
<1> QED BY <1>1, <1>2, <1>3, <1>4, <1>5, <1>6, <1>7, <1>8, <1>9, <1>10, <1>11
        DEF ServicesNext

(* A candle the client shows is the fold of the prints of its bucket that  *)
(* came in time to the series that sent it.  Each series closes a bucket   *)
(* once, both of them only when the bucket was handed from one to the      *)
(* other.  The official bar stands, but against the close of a chart that  *)
(* could not subscribe it.                                                 *)
THEOREM BarsAreTrueAlways == ServicesSpec => []BarsAreTrue
<1>0. BarsConfigured BY BarsAssumption DEF BarsConfigured
<1>1. ServicesInit => BarsInv BY <1>0, BarsInit DEF ServicesInit
<1>2. BarsInv /\ [ServicesNext]_servicesVars => BarsInv'
  BY <1>0, StepBars, BarsStepKeeps
<1>3. BarsInv => BarsAreTrue BY <1>0, BarsSafe DEF BarsAreTrue
<1> QED BY <1>1, <1>2, <1>3, PTL DEF ServicesSpec

-----------------------------------------------------------------------------
(***************************************************************************)
(* The live scan: what is subscribed and what is monitored is what the     *)
(* four sources call for.  Each step is followed symbol by symbol: whether *)
(* a monitor is there, and what its channels are, is a matter of which of  *)
(* the sources the symbol is in before and after.                          *)
(***************************************************************************)

(* The absence of a monitor is not a monitor.                              *)
CoverageConfigured == MaxMisses \in Nat /\ QuietCap \in Nat /\ None # "new" /\ None # "old"

CoverageAgrees == Coverage!WantedIsSubscribed /\ Coverage!UnwantedIsUnsubscribed
  /\ Coverage!MonitorsMatchTiers
CoverageInv == Coverage!TypeOK /\ CoverageAgrees /\ coverageCharted \subseteq CoverageSymbols

ChannelKinds == {"none", "chart", "full"}

(* The scan's cardinality is that of the theorems.                         *)
LEMMA CoverageCard == \A S : Coverage!Cardinality(S) = Cardinality(S)
  BY DEF Coverage!Cardinality, Cardinality

(* The monitors a source adds.                                             *)
LEMMA CreatedFacts ==
    ASSUME CoverageConfigured, NEW M, "new" \in M, NEW f \in [CoverageSymbols -> M], NEW X
    PROVE  /\ Coverage!Created(f, X) \in [CoverageSymbols -> M]
           /\ \A s \in CoverageSymbols : Coverage!Created(f, X)[s] # None
                   <=> (f[s] # None \/ s \in X)
  BY DEF Coverage!Created, CoverageConfigured

(* The monitors a source takes with it.                                    *)
LEMMA RemovedFacts ==
    ASSUME NEW M, None \in M, NEW f \in [CoverageSymbols -> M], NEW X
    PROVE  /\ Coverage!Removed(f, X) \in [CoverageSymbols -> M]
           /\ \A s \in CoverageSymbols : Coverage!Removed(f, X)[s] # None
                   <=> (f[s] # None /\ s \notin X)
  BY DEF Coverage!Removed

(* The channels a source opens and closes.                                 *)
LEMMA ChannelFacts ==
    ASSUME NEW f \in [CoverageSymbols -> ChannelKinds], NEW X
    PROVE  /\ Coverage!Subscribed(f, X) \in [CoverageSymbols -> ChannelKinds]
           /\ Coverage!Unsubscribed(f, X) \in [CoverageSymbols -> ChannelKinds]
           /\ \A s \in CoverageSymbols : Coverage!Subscribed(f, X)[s] = IF s \in X THEN "full"
                   ELSE f[s]
           /\ \A s \in CoverageSymbols : Coverage!Unsubscribed(f, X)[s] = IF s \in X THEN "none"
                   ELSE f[s]
  BY DEF Coverage!Subscribed, Coverage!Unsubscribed, ChannelKinds

(* diff_watchlist: what is no longer tracked has no misses.                *)
LEMMA MissesFacts ==
    ASSUME CoverageConfigured, NEW had \in [CoverageSymbols -> 0..MaxMisses],
           NEW tracked \in SUBSET CoverageSymbols,
           NEW wanted, NEW added,
           \A s \in CoverageSymbols : s \notin tracked => had[s] = 0
    PROVE  /\ Coverage!MissesAt(tracked, wanted, had) \in [CoverageSymbols -> 0..MaxMisses]
           /\ \A s \in CoverageSymbols :
                 s \notin (tracked \ Coverage!Dropped(tracked, wanted, had)) \cup added
                     => Coverage!MissesAt(tracked, wanted, had)[s] = 0
<1>1. ASSUME NEW s \in CoverageSymbols
      PROVE  /\ Coverage!MissesAt(tracked, wanted, had)[s] \in 0..MaxMisses
             /\ s \notin (tracked \ Coverage!Dropped(tracked, wanted, had)) \cup added
                     => Coverage!MissesAt(tracked, wanted, had)[s] = 0
  <2>1. had[s] \in 0..MaxMisses OBVIOUS
  <2>2. Coverage!MissesAt(tracked, wanted, had)[s] =
            IF s \in tracked /\ s \notin wanted
            THEN IF had[s] < MaxMisses THEN had[s] + 1 ELSE 0
            ELSE IF s \in tracked THEN 0 ELSE had[s]
    BY DEF Coverage!MissesAt
  <2>3. s \in Coverage!Dropped(tracked, wanted, had) <=>
            s \in tracked /\ s \notin wanted /\ had[s] >= MaxMisses
    BY DEF Coverage!Dropped
  <2> QED BY <2>1, <2>2, <2>3 DEF CoverageConfigured
<1>2. Coverage!MissesAt(tracked, wanted, had) =
         [s \in CoverageSymbols |-> Coverage!MissesAt(tracked, wanted, had)[s]]
  BY DEF Coverage!MissesAt
<1> QED BY <1>1, <1>2

(* What the properties ask of one symbol.                                  *)
AgreesAt(s) ==
    /\ s \in Coverage!Tiered => channels[s] = "full"
    /\ s \in coverageChart => channels[s] # "none"
    /\ channels[s] # "none" => s \in Coverage!Tiered \cup coverageChart
    /\ ignition[s] # None <=> s \in Coverage!Tiered
    /\ windows[s] # None <=> s \in trackers \cup mover

(* The properties are asked of every symbol.                               *)
LEMMA AgreesSymbolwise == CoverageAgrees <=> \A s \in CoverageSymbols : AgreesAt(s)
  BY DEF CoverageAgrees, AgreesAt, Coverage!WantedIsSubscribed, Coverage!UnwantedIsUnsubscribed,
    Coverage!MonitorsMatchTiers

(* The same, after a step.                                                 *)
LEMMA AgreesSymbolwiseNext == CoverageAgrees' <=> \A s \in CoverageSymbols : AgreesAt(s)'
  BY DEF CoverageAgrees, AgreesAt, Coverage!WantedIsSubscribed, Coverage!UnwantedIsUnsubscribed,
    Coverage!MonitorsMatchTiers

(* A new run: nobody is tracked, nothing is subscribed.                    *)
LEMMA CoverageInit == ASSUME CoverageConfigured, Coverage!Init PROVE CoverageInv
<1> USE DEF Coverage!Init
<1>1. Coverage!Cardinality({}) = 0 BY FS_EmptySet, CoverageCard
<1>2. Coverage!TypeOK BY <1>1 DEF Coverage!TypeOK, CoverageConfigured, Coverage!Monitor
<1>3. \A s \in CoverageSymbols : AgreesAt(s) BY DEF AgreesAt, Coverage!Tiered
<1> QED BY <1>2, <1>3, AgreesSymbolwise DEF CoverageInv

(* A reconnect starts a new run.                                           *)
LEMMA ReconnectKeeps == ASSUME CoverageConfigured, CoverageInv, Coverage!Reconnect
    PROVE CoverageInv'
<1> USE DEF Coverage!Reconnect
<1>1. Coverage!Cardinality({}) = 0 BY FS_EmptySet, CoverageCard
<1>2. Coverage!TypeOK' BY <1>1 DEF Coverage!TypeOK, CoverageConfigured, Coverage!Monitor,
      CoverageInv
<1>3. \A s \in CoverageSymbols : AgreesAt(s)' BY DEF AgreesAt, Coverage!Tiered
<1> QED BY <1>2, <1>3, AgreesSymbolwiseNext DEF CoverageInv

(* A rescan: the quiet watch moves first, then the funnel.                 *)
LEMMA RescanKeeps ==
    ASSUME CoverageConfigured, CoverageInv,
           NEW shortlist \in SUBSET CoverageSymbols, NEW selected \in SUBSET CoverageSymbols,
           NEW kept \in SUBSET CoverageSymbols, NEW seeded \in SUBSET CoverageSymbols,
           Coverage!QuietWanted(selected, kept), Coverage!Rescan(shortlist, kept, seeded)
    PROVE  CoverageInv'
<1> DEFINE quietGone == (quiet \ kept) \ (trackers \cup mover)
           quietNew == (kept \ quiet) \ (trackers \cup mover)
           fell == Coverage!Dropped(trackers, shortlist, misses)
           added == (shortlist \ trackers) \cap seeded
           ignition0 == Coverage!Removed(ignition, quietGone)
           ignition1 == Coverage!Created(ignition0, quietNew)
           ignition2 == Coverage!Removed(ignition1, Coverage!IgnitionGone(fell, kept))
           windows2 == Coverage!Removed(windows, Coverage!Untrack(fell))
           channels0 == Coverage!Unsubscribed(channels,
             {s \in quietGone : ~Coverage!KeepsChannels(s)})
           channels1 == Coverage!Subscribed(channels0, quietNew)
           channels2 == Coverage!Unsubscribed(channels1,
                          {s \in fell : s \notin mover \cup kept /\ ~Coverage!KeepsChannels(s)})
<1>1. /\ quiet' = kept /\ misses' = Coverage!MissesAt(trackers, shortlist, misses)
      /\ trackers' = (trackers \ fell) \cup added
      /\ windows' = Coverage!Created(windows2, added)
      /\ ignition' = Coverage!Created(ignition2, added)
      /\ channels' = Coverage!Subscribed(channels2, added \ (mover \cup kept))
      /\ catalysts' = catalysts \ fell /\ lookups' = lookups \cup added
      /\ UNCHANGED <<mover, moverMisses, universe, coverageChart, coverageOfficial,
              coverageCharted, seeds, seeding>>
  BY DEF Coverage!Rescan, Coverage!clients
<1>2. /\ ignition \in [CoverageSymbols -> Coverage!Monitor]
      /\ windows \in [CoverageSymbols -> {None, "new"}]
      /\ channels \in [CoverageSymbols -> ChannelKinds] /\ trackers \subseteq CoverageSymbols
      /\ misses \in [CoverageSymbols -> 0..MaxMisses]
      /\ \A s \in CoverageSymbols : AgreesAt(s)
  BY AgreesSymbolwise DEF CoverageInv, Coverage!TypeOK, ChannelKinds
<1>3. "new" \in Coverage!Monitor /\ None \in Coverage!Monitor BY DEF Coverage!Monitor
<1>4. fell \subseteq trackers BY DEF Coverage!Dropped
<1>5. /\ ignition0 \in [CoverageSymbols -> Coverage!Monitor]
      /\ \A s \in CoverageSymbols : ignition0[s] # None
              <=> (ignition[s] # None /\ s \notin quietGone)
  BY <1>2, <1>3, RemovedFacts
<1>6. /\ ignition1 \in [CoverageSymbols -> Coverage!Monitor]
      /\ \A s \in CoverageSymbols : ignition1[s] # None
              <=> (ignition0[s] # None \/ s \in quietNew)
  <2> HIDE DEF ignition0, quietNew
  <2> QED BY <1>3, <1>5, CreatedFacts
<1>7. /\ ignition2 \in [CoverageSymbols -> Coverage!Monitor]
      /\ \A s \in CoverageSymbols : ignition2[s] # None
            <=> (ignition1[s] # None /\ s \notin Coverage!IgnitionGone(fell, kept))
  <2> HIDE DEF ignition1, fell
  <2> QED BY <1>3, <1>6, RemovedFacts
<1>8. /\ ignition' \in [CoverageSymbols -> Coverage!Monitor]
      /\ \A s \in CoverageSymbols : ignition'[s] # None <=> (ignition2[s] # None \/ s \in added)
  <2> HIDE DEF ignition2, added
  <2> QED BY <1>1, <1>3, <1>7, CreatedFacts
<1>9. /\ windows2 \in [CoverageSymbols -> {None, "new"}]
      /\ \A s \in CoverageSymbols : windows2[s] # None
              <=> (windows[s] # None /\ s \notin Coverage!Untrack(fell))
  <2> DEFINE W == {None, "new"}
  <2>1. None \in W OBVIOUS
  <2>2. windows \in [CoverageSymbols -> W] BY <1>2
  <2> HIDE DEF fell, W
  <2>3. windows2 \in [CoverageSymbols -> W] BY <2>1, <2>2, RemovedFacts
  <2>4. \A s \in CoverageSymbols : windows2[s] # None
        <=> (windows[s] # None /\ s \notin Coverage!Untrack(fell))
    BY <2>1, <2>2, RemovedFacts
  <2> QED BY <2>3, <2>4 DEF W
<1>10. /\ windows' \in [CoverageSymbols -> {None, "new"}]
       /\ \A s \in CoverageSymbols : windows'[s] # None <=> (windows2[s] # None \/ s \in added)
  <2> DEFINE W == {None, "new"}
  <2>1. "new" \in W OBVIOUS
  <2>2. windows2 \in [CoverageSymbols -> W] BY <1>9
  <2> HIDE DEF windows2, added, W
  <2>3. Coverage!Created(windows2, added) \in [CoverageSymbols -> W] BY <2>1, <2>2, CreatedFacts
  <2>4. \A s \in CoverageSymbols : Coverage!Created(windows2, added)[s] # None
                              <=> (windows2[s] # None \/ s \in added)
    BY <2>1, <2>2, CreatedFacts
  <2> QED BY <1>1, <2>3, <2>4 DEF W
<1>11. /\ channels0 \in [CoverageSymbols -> ChannelKinds]
       /\ \A s \in CoverageSymbols : channels0[s] =
             IF s \in quietGone /\ s \notin coverageChart THEN "none" ELSE channels[s]
  <2> DEFINE X == {s \in quietGone : ~Coverage!KeepsChannels(s)}
  <2>1. \A s : s \in X <=> s \in quietGone /\ s \notin coverageChart BY DEF Coverage!KeepsChannels
  <2> HIDE DEF quietGone, X
  <2> QED BY <1>2, <2>1, ChannelFacts DEF X
<1>12. /\ channels1 \in [CoverageSymbols -> ChannelKinds]
       /\ \A s \in CoverageSymbols : channels1[s] = IF s \in quietNew THEN "full"
               ELSE channels0[s]
  <2> HIDE DEF channels0, quietNew
  <2> QED BY <1>11, ChannelFacts
<1>13. /\ channels2 \in [CoverageSymbols -> ChannelKinds]
       /\ \A s \in CoverageSymbols : channels2[s] =
             IF s \in fell /\ s \notin mover \cup kept \cup coverageChart THEN "none"
               ELSE channels1[s]
  <2> DEFINE X == {s \in fell : s \notin mover \cup kept /\ ~Coverage!KeepsChannels(s)}
  <2>1. \A s : s \in X <=> s \in fell /\ s \notin mover \cup kept \cup coverageChart
    BY DEF Coverage!KeepsChannels
  <2> HIDE DEF channels1, fell, X
  <2> QED BY <1>12, <2>1, ChannelFacts DEF X
<1>14. /\ channels' \in [CoverageSymbols -> ChannelKinds]
       /\ \A s \in CoverageSymbols : channels'[s] =
             IF s \in added \ (mover \cup kept) THEN "full" ELSE channels2[s]
  <2> DEFINE X == added \ (mover \cup kept)
  <2> HIDE DEF channels2, X
  <2> QED BY <1>1, <1>13, ChannelFacts DEF X
<1>15. ASSUME NEW s \in CoverageSymbols PROVE AgreesAt(s)'
  <2>1. AgreesAt(s) BY <1>2
  <2>2. /\ s \in fell => s \in trackers /\ s \notin added
        /\ s \in added => s \notin trackers
    BY <1>4
  <2>3. /\ s \in quietGone <=> s \in quiet /\ s \notin kept /\ s \notin trackers /\ s \notin mover
        /\ s \in quietNew <=> s \in kept /\ s \notin quiet /\ s \notin trackers /\ s \notin mover
        /\ s \in Coverage!Untrack(fell) <=> s \in fell /\ s \notin mover
        /\ s \in Coverage!IgnitionGone(fell, kept)
                <=> s \in fell /\ s \notin mover /\ s \notin kept
    BY DEF Coverage!Untrack, Coverage!IgnitionGone
  <2>4. /\ s \in trackers' <=> (s \in trackers /\ s \notin fell) \/ s \in added
        /\ s \in quiet' <=> s \in kept
        /\ s \in mover' <=> s \in mover
        /\ s \in coverageChart' <=> s \in coverageChart
    BY <1>1
  <2>5. /\ ignition0[s] # None <=> (ignition[s] # None /\ s \notin quietGone)
        /\ ignition1[s] # None <=> (ignition0[s] # None \/ s \in quietNew)
        /\ ignition2[s] # None <=> (ignition1[s] # None /\ s \notin Coverage!IgnitionGone(fell,
                kept))
        /\ ignition'[s] # None <=> (ignition2[s] # None \/ s \in added)
    BY <1>5, <1>6, <1>7, <1>8
  <2>6. /\ windows2[s] # None <=> (windows[s] # None /\ s \notin Coverage!Untrack(fell))
        /\ windows'[s] # None <=> (windows2[s] # None \/ s \in added)
    BY <1>9, <1>10
  <2>7. /\ channels0[s] = IF s \in quietGone /\ s \notin coverageChart THEN "none"
                ELSE channels[s]
        /\ channels1[s] = IF s \in quietNew THEN "full" ELSE channels0[s]
        /\ channels2[s] = IF s \in fell /\ s \notin mover \cup kept \cup coverageChart
                          THEN "none" ELSE channels1[s]
        /\ channels'[s] = IF s \in added \ (mover \cup kept) THEN "full" ELSE channels2[s]
    BY <1>11, <1>12, <1>13, <1>14
  <2> HIDE DEF quietGone, quietNew, fell, added, ignition0, ignition1, ignition2,
               windows2, channels0, channels1, channels2
  <2>8. ignition'[s] # None <=> s \in Coverage!Tiered'
    BY <2>1, <2>2, <2>3, <2>4, <2>5 DEF AgreesAt, Coverage!Tiered
  <2>9. windows'[s] # None <=> s \in trackers' \cup mover'
    BY <2>1, <2>2, <2>3, <2>4, <2>6 DEF AgreesAt
  <2>10. /\ s \in Coverage!Tiered' => channels'[s] = "full"
         /\ s \in coverageChart' => channels'[s] # "none"
         /\ channels'[s] # "none" => s \in Coverage!Tiered' \cup coverageChart'
    BY <2>1, <2>2, <2>3, <2>4, <2>7 DEF AgreesAt, Coverage!Tiered
  <2> QED BY <2>8, <2>9, <2>10 DEF AgreesAt
<1>16. Coverage!TypeOK'
  <2>1. /\ misses' \in [CoverageSymbols -> 0..MaxMisses]
        /\ \A s \in CoverageSymbols : s \notin trackers' => misses'[s] = 0
    <3> HIDE DEF added
    <3>1. \A s \in CoverageSymbols : s \notin trackers => misses[s] = 0
      BY DEF CoverageInv, Coverage!TypeOK
    <3>2. /\ Coverage!MissesAt(trackers, shortlist, misses) \in [CoverageSymbols -> 0..MaxMisses]
          /\ \A s \in CoverageSymbols : s \notin (trackers \ fell) \cup added
                => Coverage!MissesAt(trackers, shortlist, misses)[s] = 0
      BY <1>2, <3>1, MissesFacts
    <3> QED BY <1>1, <3>2
  <2>2. Coverage!Cardinality(kept) <= QuietCap BY DEF Coverage!QuietWanted
  <2>3. trackers' \subseteq CoverageSymbols /\ lookups' \subseteq CoverageSymbols \cup lookups
        /\ catalysts' \subseteq catalysts
    BY <1>1, <1>2
  <2> HIDE DEF quietGone, quietNew, fell, added, ignition0, ignition1, ignition2,
               windows2, channels0, channels1, channels2
  <2>4. /\ quiet' = kept
        /\ UNCHANGED <<mover, moverMisses, universe, coverageChart, coverageOfficial,
                coverageCharted, seeds, seeding>>
    BY <1>1
  <2> QED BY <1>8, <1>10, <1>14, <2>1, <2>2, <2>3, <2>4
        DEF CoverageInv, Coverage!TypeOK, ChannelKinds
<1>17. coverageCharted' = coverageCharted BY <1>1
<1> QED BY <1>15, <1>16, <1>17, AgreesSymbolwiseNext DEF CoverageInv

(* The movers tick: the leaderboard moves, some symbols are upgraded.      *)
LEMMA MoversKeeps ==
    ASSUME CoverageConfigured, CoverageInv, NEW wanted \in SUBSET CoverageSymbols,
           Coverage!MoversTick(wanted)
    PROVE  CoverageInv'
<1> DEFINE fell == Coverage!Dropped(mover, wanted, moverMisses)
           gone == fell \ trackers
           added == {s \in wanted \ mover : s \in trackers \cup seeds}
           new == added \ trackers
           upgraded == Coverage!Upgraded(new)
           ignition1 == Coverage!Removed(ignition, gone \ quiet)
           ignition2 == [s \in CoverageSymbols |-> IF s \in upgraded THEN universe[s]
             ELSE ignition1[s]]
           windows1 == Coverage!Removed(windows, gone)
           channels1 == Coverage!Unsubscribed(channels,
             {s \in gone : s \notin quiet /\ ~Coverage!KeepsChannels(s)})
           missing == wanted \ (trackers \cup seeds)
<1>1. /\ moverMisses' = Coverage!MissesAt(mover, wanted, moverMisses)
      /\ mover' = (mover \ fell) \cup added
      /\ windows' = Coverage!Created(windows1, new)
      /\ ignition' = Coverage!Created(ignition2, new)
      /\ universe' = Coverage!Removed(universe, upgraded)
      /\ channels' = Coverage!Subscribed(channels1, new \ quiet)
      /\ seeding' = IF seeding = {} THEN missing ELSE seeding
      /\ UNCHANGED <<trackers, quiet, misses, coverageChart, coverageOfficial, coverageCharted,
              seeds, catalysts, lookups>>
  BY DEF Coverage!MoversTick, Coverage!clients
<1>2. /\ ignition \in [CoverageSymbols -> Coverage!Monitor]
      /\ windows \in [CoverageSymbols -> {None, "new"}]
      /\ universe \in [CoverageSymbols -> Coverage!Monitor]
      /\ channels \in [CoverageSymbols -> ChannelKinds] /\ mover \in SUBSET CoverageSymbols
      /\ moverMisses \in [CoverageSymbols -> 0..MaxMisses]
      /\ \A s \in CoverageSymbols : AgreesAt(s)
  BY AgreesSymbolwise DEF CoverageInv, Coverage!TypeOK, ChannelKinds
<1>3. "new" \in Coverage!Monitor /\ None \in Coverage!Monitor BY DEF Coverage!Monitor
<1>4. fell \subseteq mover BY DEF Coverage!Dropped
<1>5. /\ ignition1 \in [CoverageSymbols -> Coverage!Monitor]
      /\ \A s \in CoverageSymbols : ignition1[s] # None
              <=> (ignition[s] # None /\ s \notin gone \ quiet)
  <2> DEFINE X == gone \ quiet
  <2> HIDE DEF gone, X
  <2> QED BY <1>2, <1>3, RemovedFacts DEF X
<1>6. /\ ignition2 \in [CoverageSymbols -> Coverage!Monitor]
      /\ \A s \in CoverageSymbols : ignition2[s] = IF s \in upgraded THEN universe[s]
              ELSE ignition1[s]
  <2> HIDE DEF ignition1, upgraded
  <2> QED BY <1>2, <1>5
<1>7. /\ ignition' \in [CoverageSymbols -> Coverage!Monitor]
      /\ \A s \in CoverageSymbols : ignition'[s] # None <=> (ignition2[s] # None \/ s \in new)
  <2> HIDE DEF ignition2, new
  <2> QED BY <1>1, <1>3, <1>6, CreatedFacts
<1>8. /\ windows1 \in [CoverageSymbols -> {None, "new"}]
      /\ \A s \in CoverageSymbols : windows1[s] # None <=> (windows[s] # None /\ s \notin gone)
  <2> DEFINE W == {None, "new"}
  <2>1. None \in W OBVIOUS
  <2>2. windows \in [CoverageSymbols -> W] BY <1>2
  <2> HIDE DEF gone, W
  <2>3. windows1 \in [CoverageSymbols -> W] BY <2>1, <2>2, RemovedFacts
  <2>4. \A s \in CoverageSymbols : windows1[s] # None <=> (windows[s] # None /\ s \notin gone)
    BY <2>1, <2>2, RemovedFacts
  <2> QED BY <2>3, <2>4 DEF W
<1>9. /\ windows' \in [CoverageSymbols -> {None, "new"}]
      /\ \A s \in CoverageSymbols : windows'[s] # None <=> (windows1[s] # None \/ s \in new)
  <2> DEFINE W == {None, "new"}
  <2>1. "new" \in W OBVIOUS
  <2>2. windows1 \in [CoverageSymbols -> W] BY <1>8
  <2> HIDE DEF windows1, new, W
  <2>3. Coverage!Created(windows1, new) \in [CoverageSymbols -> W] BY <2>1, <2>2, CreatedFacts
  <2>4. \A s \in CoverageSymbols : Coverage!Created(windows1, new)[s] # None
                              <=> (windows1[s] # None \/ s \in new)
    BY <2>1, <2>2, CreatedFacts
  <2> QED BY <1>1, <2>3, <2>4 DEF W
<1>10. /\ channels1 \in [CoverageSymbols -> ChannelKinds]
       /\ \A s \in CoverageSymbols : channels1[s] =
             IF s \in gone /\ s \notin quiet \cup coverageChart THEN "none" ELSE channels[s]
  <2> DEFINE X == {s \in gone : s \notin quiet /\ ~Coverage!KeepsChannels(s)}
  <2>1. \A s : s \in X <=> s \in gone /\ s \notin quiet \cup coverageChart
    BY DEF Coverage!KeepsChannels
  <2> HIDE DEF gone, X
  <2> QED BY <1>2, <2>1, ChannelFacts DEF X
<1>11. /\ channels' \in [CoverageSymbols -> ChannelKinds]
       /\ \A s \in CoverageSymbols : channels'[s] = IF s \in new \ quiet THEN "full"
               ELSE channels1[s]
  <2> DEFINE X == new \ quiet
  <2> HIDE DEF channels1, X
  <2> QED BY <1>1, <1>10, ChannelFacts DEF X
<1>12. ASSUME NEW s \in CoverageSymbols PROVE AgreesAt(s)'
  <2>1. AgreesAt(s) BY <1>2
  <2>2. /\ s \in fell => s \in mover /\ s \notin added
        /\ s \in added => s \notin mover
    BY <1>4
  <2>3. /\ s \in gone <=> s \in fell /\ s \notin trackers
        /\ s \in new <=> s \in added /\ s \notin trackers
        /\ s \in upgraded => s \in new
    BY DEF Coverage!Upgraded
  <2>4. /\ s \in mover' <=> (s \in mover /\ s \notin fell) \/ s \in added
        /\ s \in trackers' <=> s \in trackers
        /\ s \in quiet' <=> s \in quiet
        /\ s \in coverageChart' <=> s \in coverageChart
    BY <1>1
  <2>5. /\ ignition1[s] # None <=> (ignition[s] # None /\ s \notin gone \ quiet)
        /\ ignition2[s] = IF s \in upgraded THEN universe[s] ELSE ignition1[s]
        /\ ignition'[s] # None <=> (ignition2[s] # None \/ s \in new)
    BY <1>5, <1>6, <1>7
  <2>6. /\ windows1[s] # None <=> (windows[s] # None /\ s \notin gone)
        /\ windows'[s] # None <=> (windows1[s] # None \/ s \in new)
    BY <1>8, <1>9
  <2>7. /\ channels1[s] = IF s \in gone /\ s \notin quiet \cup coverageChart THEN "none"
                ELSE channels[s]
        /\ channels'[s] = IF s \in new \ quiet THEN "full" ELSE channels1[s]
    BY <1>10, <1>11
  <2> HIDE DEF fell, gone, added, new, upgraded, ignition1, ignition2, windows1, channels1
  <2>8. ignition'[s] # None <=> s \in Coverage!Tiered'
    BY <2>1, <2>2, <2>3, <2>4, <2>5 DEF AgreesAt, Coverage!Tiered
  <2>9. windows'[s] # None <=> s \in trackers' \cup mover'
    BY <2>1, <2>2, <2>3, <2>4, <2>6 DEF AgreesAt
  <2>10. /\ s \in Coverage!Tiered' => channels'[s] = "full"
         /\ s \in coverageChart' => channels'[s] # "none"
         /\ channels'[s] # "none" => s \in Coverage!Tiered' \cup coverageChart'
    BY <2>1, <2>2, <2>3, <2>4, <2>7 DEF AgreesAt, Coverage!Tiered
  <2> QED BY <2>8, <2>9, <2>10 DEF AgreesAt
<1>13. Coverage!TypeOK'
  <2>1. /\ moverMisses' \in [CoverageSymbols -> 0..MaxMisses]
        /\ \A s \in CoverageSymbols : s \notin mover' => moverMisses'[s] = 0
    <3> HIDE DEF added
    <3>1. \A s \in CoverageSymbols : s \notin mover => moverMisses[s] = 0
      BY DEF CoverageInv, Coverage!TypeOK
    <3>2. /\ Coverage!MissesAt(mover, wanted, moverMisses) \in [CoverageSymbols -> 0..MaxMisses]
          /\ \A s \in CoverageSymbols : s \notin (mover \ fell) \cup added
                => Coverage!MissesAt(mover, wanted, moverMisses)[s] = 0
      BY <1>2, <3>1, MissesFacts
    <3> QED BY <1>1, <3>2
  <2>2. mover' \subseteq CoverageSymbols /\ seeding' \subseteq CoverageSymbols
    BY <1>1, <1>2 DEF CoverageInv, Coverage!TypeOK
  <2>3. universe' \in [CoverageSymbols -> Coverage!Monitor]
    <3> HIDE DEF upgraded
    <3> QED BY <1>1, <1>2, <1>3, RemovedFacts
  <2> HIDE DEF fell, gone, added, new, upgraded, ignition1, ignition2, windows1, channels1
  <2>4. UNCHANGED <<trackers, quiet, misses, coverageChart, coverageOfficial, coverageCharted,
        seeds, catalysts, lookups>>
    BY <1>1
  <2> QED BY <1>7, <1>9, <1>11, <2>1, <2>2, <2>3, <2>4
        DEF CoverageInv, Coverage!TypeOK, ChannelKinds
<1>14. coverageCharted' = coverageCharted BY <1>1
<1> QED BY <1>12, <1>13, <1>14, AgreesSymbolwiseNext DEF CoverageInv

(* What the channels, the monitors and the sources do not depend on.       *)
LEMMA BackgroundKeeps ==
    ASSUME CoverageInv, UNCHANGED <<Coverage!tiers, Coverage!monitors, channels, coverageChart,
           coverageOfficial>>,
           seeds' \cup seeding' \subseteq CoverageSymbols,
             catalysts' \cup lookups' \subseteq CoverageSymbols,
           coverageCharted' \subseteq CoverageSymbols
    PROVE  CoverageInv'
  BY DEF CoverageInv, Coverage!TypeOK, CoverageAgrees, Coverage!WantedIsSubscribed,
    Coverage!UnwantedIsUnsubscribed,
         Coverage!MonitorsMatchTiers, Coverage!Tiered, Coverage!tiers, Coverage!monitors

(* A trade gives a monitor history; it makes none of a tier's.             *)
LEMMA TradedKeeps == ASSUME CoverageConfigured, CoverageInv, NEW s \in CoverageSymbols,
  Coverage!Traded(s) PROVE CoverageInv'
<1>1. /\ UNCHANGED <<Coverage!tiers, windows, channels, Coverage!clients, Coverage!background>>
      /\ \/ ignition[s] # None /\ ignition' = [ignition EXCEPT ![s] = "old"]
                 /\ universe' = universe
         \/ /\ ignition' = ignition
            /\ universe' = [universe EXCEPT ![s] = IF @ = None THEN "new" ELSE "old"]
  BY DEF Coverage!Traded
<1>2. ignition \in [CoverageSymbols -> Coverage!Monitor]
      /\ universe \in [CoverageSymbols -> Coverage!Monitor]
  BY DEF CoverageInv, Coverage!TypeOK
<1>3. /\ ignition' \in [CoverageSymbols -> Coverage!Monitor]
      /\ universe' \in [CoverageSymbols -> Coverage!Monitor]
      /\ \A u \in CoverageSymbols : ignition'[u] # None <=> ignition[u] # None
  BY <1>1, <1>2 DEF Coverage!Monitor, CoverageConfigured
<1>4. Coverage!TypeOK' BY <1>1, <1>3 DEF CoverageInv, Coverage!TypeOK, Coverage!tiers,
      Coverage!clients, Coverage!background
<1>5. CoverageAgrees'
  BY <1>1, <1>3 DEF CoverageInv, CoverageAgrees, Coverage!WantedIsSubscribed,
    Coverage!UnwantedIsUnsubscribed,
                    Coverage!MonitorsMatchTiers, Coverage!Tiered, Coverage!tiers, Coverage!clients
<1> QED BY <1>1, <1>4, <1>5 DEF CoverageInv, Coverage!clients

(* An idle whole-market monitor is given up.                               *)
LEMMA EvictKeeps == ASSUME CoverageConfigured, CoverageInv, NEW s \in CoverageSymbols,
  Coverage!EvictIdle(s) PROVE CoverageInv'
<1>1. /\ UNCHANGED <<Coverage!tiers, ignition, windows, channels, Coverage!clients,
              Coverage!background>>
      /\ universe' = [universe EXCEPT ![s] = None]
  BY DEF Coverage!EvictIdle
<1>2. universe' \in [CoverageSymbols -> Coverage!Monitor]
  BY <1>1 DEF CoverageInv, Coverage!TypeOK, Coverage!Monitor
<1>3. Coverage!TypeOK' BY <1>1, <1>2 DEF CoverageInv, Coverage!TypeOK, Coverage!tiers,
      Coverage!clients, Coverage!background
<1>4. CoverageAgrees'
  BY <1>1 DEF CoverageInv, CoverageAgrees, Coverage!WantedIsSubscribed,
    Coverage!UnwantedIsUnsubscribed,
              Coverage!MonitorsMatchTiers, Coverage!Tiered, Coverage!tiers, Coverage!clients
<1> QED BY <1>1, <1>3, <1>4 DEF CoverageInv, Coverage!clients

(* The chart tick opens and closes only what no tier tracks.               *)
LEMMA ChartKeeps == ASSUME CoverageConfigured, CoverageInv, Coverage!ChartTick PROVE CoverageInv'
<1> DEFINE added == coverageCharted \ coverageChart
           removed == coverageChart \ coverageCharted
<1>1. /\ channels' = [s \in CoverageSymbols |-> IF s \in added \ Coverage!Tiered THEN "chart" ELSE
                          IF s \in removed \ Coverage!Tiered THEN "none" ELSE channels[s]]
      /\ coverageOfficial' = (coverageOfficial \ removed) \cup added
      /\ coverageChart' = coverageCharted
      /\ UNCHANGED <<trackers, mover, quiet, misses, moverMisses, ignition, windows, universe,
                     coverageCharted, seeds, seeding, catalysts, lookups>>
  BY DEF Coverage!ChartTick, Coverage!tiers, Coverage!monitors, Coverage!background
<1>2. /\ channels \in [CoverageSymbols -> ChannelKinds]
      /\ coverageOfficial \subseteq coverageChart
      /\ \A s \in CoverageSymbols : AgreesAt(s)
  BY AgreesSymbolwise DEF CoverageInv, Coverage!TypeOK, ChannelKinds
<1>3. channels' \in [CoverageSymbols -> ChannelKinds] BY <1>1, <1>2 DEF ChannelKinds
<1>4. coverageOfficial' \subseteq coverageChart' BY <1>1, <1>2
<1>5. Coverage!TypeOK' BY <1>1, <1>3, <1>4 DEF CoverageInv, Coverage!TypeOK, ChannelKinds
<1>6. ASSUME NEW s \in CoverageSymbols PROVE AgreesAt(s)'
  <2>1. channels'[s] = IF s \in added \ Coverage!Tiered THEN "chart" ELSE
                          IF s \in removed \ Coverage!Tiered THEN "none" ELSE channels[s]
    BY <1>1
  <2>2. AgreesAt(s) BY <1>2
  <2>3. Coverage!Tiered' = Coverage!Tiered BY <1>1 DEF Coverage!Tiered
  <2>4. /\ s \in Coverage!Tiered' => channels'[s] = "full"
        /\ s \in coverageChart' => channels'[s] # "none"
        /\ channels'[s] # "none" => s \in Coverage!Tiered' \cup coverageChart'
    BY <1>1, <2>1, <2>2, <2>3 DEF AgreesAt
  <2> QED BY <1>1, <2>2, <2>3, <2>4 DEF AgreesAt
<1> QED BY <1>1, <1>5, <1>6, AgreesSymbolwiseNext DEF CoverageInv

(* Every step of the scan keeps the invariant.                             *)
LEMMA CoverageStepKeeps == ASSUME CoverageConfigured, CoverageInv, [Coverage!Next]_(Coverage!vars)
    PROVE CoverageInv'
<1>1. CASE Coverage!RescanArrives
  <2>1. PICK shortlist, selected, kept, seeded \in SUBSET CoverageSymbols :
           Coverage!QuietWanted(selected, kept) /\ Coverage!Rescan(shortlist, kept, seeded)
    BY <1>1 DEF Coverage!RescanArrives
  <2> QED BY <2>1, RescanKeeps
<1>2. ASSUME NEW wanted \in SUBSET CoverageSymbols, Coverage!MoversTick(wanted) PROVE CoverageInv'
  BY <1>2, MoversKeeps
<1>3. CASE Coverage!SeedsArrive
  BY <1>3, BackgroundKeeps DEF Coverage!SeedsArrive, CoverageInv, Coverage!TypeOK,
    Coverage!clients
<1>4. ASSUME NEW s \in CoverageSymbols, Coverage!CatalystArrives(s) PROVE CoverageInv'
  BY <1>4, BackgroundKeeps DEF Coverage!CatalystArrives, CoverageInv, Coverage!TypeOK,
    Coverage!clients
<1>5. ASSUME NEW s \in CoverageSymbols, Coverage!ClientCharts(s) PROVE CoverageInv'
  BY <1>5, BackgroundKeeps DEF Coverage!ClientCharts, CoverageInv, Coverage!TypeOK,
    Coverage!background
<1>6. ASSUME NEW s \in CoverageSymbols, Coverage!Traded(s) PROVE CoverageInv' BY <1>6, TradedKeeps
<1>7. ASSUME NEW s \in CoverageSymbols, Coverage!EvictIdle(s) PROVE CoverageInv'
  BY <1>7, EvictKeeps
<1>8. CASE Coverage!ChartTick BY <1>8, ChartKeeps
<1>9. CASE Coverage!Reconnect BY <1>9, ReconnectKeeps
<1>10. CASE UNCHANGED Coverage!vars
  BY <1>10, BackgroundKeeps DEF Coverage!vars, Coverage!clients, Coverage!background,
    CoverageInv, Coverage!TypeOK
<1> QED BY <1>1, <1>2, <1>3, <1>4, <1>5, <1>6, <1>7, <1>8, <1>9, <1>10 DEF Coverage!Next

-----------------------------------------------------------------------------
(* What a step may not do to the history of one symbol's monitor.          *)
Survives(s) ==
    (ignition[s] = "old" /\ s \in Coverage!Tiered /\ s \in Coverage!Tiered'
     /\ ~(s \in quiet /\ s \notin quiet')) => ignition'[s] = "old"
UpgradeKeeps(s) ==
    (universe[s] = "old" /\ s \notin Coverage!Tiered /\ s \in mover') => ignition'[s] = "old"

(* Adding makes no monitor anew, removing spares the other symbols.        *)
LEMMA HistoryFacts ==
    ASSUME NEW f, NEW X, NEW s \in CoverageSymbols
    PROVE  /\ Coverage!Created(f, X)[s] = IF s \in X /\ f[s] = None THEN "new" ELSE f[s]
           /\ Coverage!Removed(f, X)[s] = IF s \in X THEN None ELSE f[s]
  BY DEF Coverage!Created, Coverage!Removed

(* A rescan takes a monitor only from a symbol that leaves its last tier,  *)
(* or that the quiet watch gives up.                                       *)
LEMMA RescanSpares ==
    ASSUME CoverageConfigured, CoverageInv, NEW shortlist, NEW kept, NEW seeded,
           Coverage!Rescan(shortlist, kept, seeded), NEW s \in CoverageSymbols
    PROVE  Survives(s) /\ UpgradeKeeps(s)
<1> DEFINE quietGone == (quiet \ kept) \ (trackers \cup mover)
           quietNew == (kept \ quiet) \ (trackers \cup mover)
           fell == Coverage!Dropped(trackers, shortlist, misses)
           added == (shortlist \ trackers) \cap seeded
           ignition0 == Coverage!Removed(ignition, quietGone)
           ignition1 == Coverage!Created(ignition0, quietNew)
           ignition2 == Coverage!Removed(ignition1, Coverage!IgnitionGone(fell, kept))
<1>1. /\ quiet' = kept /\ mover' = mover
      /\ trackers' = (trackers \ fell) \cup added
      /\ ignition' = Coverage!Created(ignition2, added)
  BY DEF Coverage!Rescan
<1>2. /\ s \in fell => s \in trackers /\ s \notin added
      /\ s \in Coverage!IgnitionGone(fell, kept) <=> s \in fell /\ s \notin mover /\ s \notin kept
  BY DEF Coverage!Dropped, Coverage!IgnitionGone, Coverage!Untrack
<1>3. ignition0[s] = IF s \in quietGone THEN None ELSE ignition[s]
  <2> HIDE DEF quietGone
  <2> QED BY HistoryFacts
<1>4. ignition1[s] = IF s \in quietNew /\ ignition0[s] = None THEN "new" ELSE ignition0[s]
  <2> HIDE DEF quietNew, ignition0
  <2> QED BY HistoryFacts
<1>5. ignition2[s] = IF s \in Coverage!IgnitionGone(fell, kept) THEN None ELSE ignition1[s]
  <2> HIDE DEF fell, ignition1
  <2> QED BY HistoryFacts
<1>6. ignition'[s] = IF s \in added /\ ignition2[s] = None THEN "new" ELSE ignition2[s]
  <2> HIDE DEF added, ignition2
  <2> QED BY <1>1, HistoryFacts
<1>7. s \in quietGone => s \in quiet /\ s \notin quiet' BY <1>1
<1>8. "old" # None BY DEF CoverageConfigured
<1> HIDE DEF quietGone, quietNew, fell, added, ignition0, ignition1, ignition2
<1>9. Survives(s)
  BY <1>1, <1>2, <1>3, <1>4, <1>5, <1>6, <1>7, <1>8 DEF Survives, Coverage!Tiered
<1>10. UpgradeKeeps(s) BY <1>1 DEF UpgradeKeeps, Coverage!Tiered
<1> QED BY <1>9, <1>10

(* The movers tick takes a monitor only from a symbol that leaves its last *)
(* tier, and hands the whole-market monitor on.                            *)
LEMMA MoversSpare ==
    ASSUME CoverageConfigured, CoverageInv, NEW wanted, Coverage!MoversTick(wanted),
           NEW s \in CoverageSymbols
    PROVE  Survives(s) /\ UpgradeKeeps(s)
<1> DEFINE fell == Coverage!Dropped(mover, wanted, moverMisses)
           gone == fell \ trackers
           added == {u \in wanted \ mover : u \in trackers \cup seeds}
           new == added \ trackers
           upgraded == Coverage!Upgraded(new)
           ignition1 == Coverage!Removed(ignition, gone \ quiet)
           ignition2 == [u \in CoverageSymbols |-> IF u \in upgraded THEN universe[u]
             ELSE ignition1[u]]
<1>1. /\ mover' = (mover \ fell) \cup added
      /\ ignition' = Coverage!Created(ignition2, new)
      /\ trackers' = trackers /\ quiet' = quiet
  BY DEF Coverage!MoversTick
<1>2. /\ s \in fell => s \in mover /\ s \notin added
      /\ s \in upgraded <=> s \in new /\ ignition[s] = None /\ universe[s] # None
  BY DEF Coverage!Dropped, Coverage!Upgraded
<1>3. ignition1[s] = IF s \in gone \ quiet THEN None ELSE ignition[s]
  <2> DEFINE X == gone \ quiet
  <2> HIDE DEF X
  <2> QED BY HistoryFacts DEF X
<1>4. ignition2[s] = IF s \in upgraded THEN universe[s] ELSE ignition1[s]
  <2> HIDE DEF upgraded, ignition1
  <2> QED OBVIOUS
<1>5. ignition'[s] = IF s \in new /\ ignition2[s] = None THEN "new" ELSE ignition2[s]
  <2> HIDE DEF new, ignition2
  <2> QED BY <1>1, HistoryFacts
<1>6. /\ s \in gone <=> s \in fell /\ s \notin trackers
      /\ s \in new <=> s \in added /\ s \notin trackers
  OBVIOUS
<1>7. "old" # None BY DEF CoverageConfigured
<1>8. s \notin Coverage!Tiered => ignition[s] = None
  BY DEF CoverageInv, CoverageAgrees, Coverage!MonitorsMatchTiers
<1> HIDE DEF fell, gone, added, new, upgraded, ignition1, ignition2
<1>9. Survives(s)
  BY <1>1, <1>2, <1>3, <1>4, <1>5, <1>6, <1>7 DEF Survives, Coverage!Tiered
<1>10. UpgradeKeeps(s)
  BY <1>1, <1>2, <1>4, <1>5, <1>6, <1>7, <1>8 DEF UpgradeKeeps, Coverage!Tiered
<1> QED BY <1>9, <1>10

(* No step of the scan loses a history it may not lose.                    *)
LEMMA CoverageSpares ==
    ASSUME CoverageConfigured, CoverageInv, [Coverage!Next]_(Coverage!vars),
           NEW s \in CoverageSymbols
    PROVE  Survives(s) /\ UpgradeKeeps(s)
<1>1. CASE Coverage!RescanArrives
  <2>1. PICK shortlist, selected, kept, seeded \in SUBSET CoverageSymbols :
           Coverage!Rescan(shortlist, kept, seeded)
    BY <1>1 DEF Coverage!RescanArrives
  <2> QED BY <2>1, RescanSpares
<1>2. ASSUME NEW wanted \in SUBSET CoverageSymbols, Coverage!MoversTick(wanted)
      PROVE  Survives(s) /\ UpgradeKeeps(s)
  BY <1>2, MoversSpare
<1>3. CASE Coverage!Reconnect BY <1>3 DEF Coverage!Reconnect, Survives, UpgradeKeeps,
      Coverage!Tiered
<1>4. ASSUME NEW u \in CoverageSymbols, Coverage!Traded(u) PROVE Survives(s) /\ UpgradeKeeps(s)
  <2>1. UNCHANGED Coverage!tiers /\ (ignition' = ignition
        \/ ignition' = [ignition EXCEPT ![u] = "old"])
    BY <1>4 DEF Coverage!Traded
  <2>2. ignition \in [CoverageSymbols -> Coverage!Monitor] BY DEF CoverageInv, Coverage!TypeOK
  <2>3. ignition[s] = "old" => ignition'[s] = "old" BY <2>1, <2>2
  <2> QED BY <2>1, <2>3 DEF Survives, UpgradeKeeps, Coverage!Tiered, Coverage!tiers
<1>5. CASE UNCHANGED <<Coverage!tiers, ignition>>
  BY <1>5 DEF Survives, UpgradeKeeps, Coverage!Tiered, Coverage!tiers
<1>6. CASE Coverage!SeedsArrive \/ Coverage!ChartTick \/ UNCHANGED Coverage!vars
  BY <1>5, <1>6 DEF Coverage!SeedsArrive, Coverage!ChartTick, Coverage!vars, Coverage!monitors
<1>7. ASSUME NEW u \in CoverageSymbols,
      Coverage!CatalystArrives(u) \/ Coverage!EvictIdle(u) \/ Coverage!ClientCharts(u)
      PROVE  UNCHANGED <<Coverage!tiers, ignition>>
  BY <1>7 DEF Coverage!CatalystArrives, Coverage!EvictIdle, Coverage!ClientCharts,
    Coverage!monitors
<1> QED BY <1>1, <1>2, <1>3, <1>4, <1>5, <1>6, <1>7 DEF Coverage!Next

(* A step of the composition is a step of that part, or leaves it alone.   *)
LEMMA StepCoverage == [ServicesNext]_servicesVars => [Coverage!Next]_(Coverage!vars)
<1>1. UNCHANGED coverageVars => UNCHANGED Coverage!vars
  BY DEF coverageVars, Coverage!vars, Coverage!tiers, Coverage!monitors, Coverage!clients,
         Coverage!background
<1>2. CoverageStep => Coverage!Next BY DEF CoverageStep
<1>3. UNCHANGED servicesVars => UNCHANGED coverageVars BY DEF servicesVars
<1>4. TraderStep => UNCHANGED coverageVars BY DEF TraderStep
<1>5. StoreStep => UNCHANGED coverageVars BY DEF StoreStep
<1>6. StreamStep => UNCHANGED coverageVars BY DEF StreamStep
<1>7. BarsStep => UNCHANGED coverageVars BY DEF BarsStep
<1>8. HubStep => UNCHANGED coverageVars BY DEF HubStep
<1>9. FeedStep => UNCHANGED coverageVars BY DEF FeedStep
<1>10. IgnitionStep => UNCHANGED coverageVars BY DEF IgnitionStep
<1>11. HaltsStep => UNCHANGED coverageVars BY DEF HaltsStep
<1> QED BY <1>1, <1>2, <1>3, <1>4, <1>5, <1>6, <1>7, <1>8, <1>9, <1>10, <1>11 DEF ServicesNext

(* The composition's live scan subscribes and monitors what its sources    *)
(* call for, for any set of symbols, number of misses and cap of the quiet *)
(* watch, and whatever the other parts do.                                 *)
THEOREM CoverageMatchesAlways == ServicesSpec => []CoverageMatches
<1>1. CoverageConfigured BY CoverageAssumption DEF CoverageConfigured
<1>2. ServicesInit => CoverageInv BY <1>1, CoverageInit DEF ServicesInit
<1>3. CoverageInv /\ [ServicesNext]_servicesVars => CoverageInv'
  BY <1>1, StepCoverage, CoverageStepKeeps
<1>4. CoverageInv => CoverageMatches BY DEF CoverageInv, CoverageAgrees, CoverageMatches
<1> QED BY <1>2, <1>3, <1>4, PTL DEF ServicesSpec

(* A symbol that changes its tier in the composition's live scan keeps what *)
(* its ignition monitor has seen, whatever the other parts do.             *)
THEOREM CoverageKeepsHistoryAlways == ServicesSpec => CoverageKeepsHistory
<1>1. CoverageConfigured BY CoverageAssumption DEF CoverageConfigured
<1>2. ServicesInit => CoverageInv BY <1>1, CoverageInit DEF ServicesInit
<1>3. CoverageInv /\ [ServicesNext]_servicesVars => CoverageInv'
  BY <1>1, StepCoverage, CoverageStepKeeps
<1>4. CoverageInv /\ [ServicesNext]_servicesVars =>
         \A s \in CoverageSymbols : Survives(s) /\ UpgradeKeeps(s)
  BY <1>1, StepCoverage, CoverageSpares
<1>5. (\A s \in CoverageSymbols : Survives(s) /\ UpgradeKeeps(s)) =>
         /\ \A s \in CoverageSymbols :
              (ignition[s] = "old" /\ s \in Coverage!Tiered /\ s \in Coverage!Tiered'
               /\ ~(s \in quiet /\ s \notin quiet')) => ignition'[s] = "old"
         /\ \A s \in CoverageSymbols :
              (universe[s] = "old" /\ s \notin Coverage!Tiered /\ s \in mover')
                 => ignition'[s] = "old"
  BY DEF Survives, UpgradeKeeps
<1> QED
  BY <1>2, <1>3, <1>4, <1>5, PTL
  DEF ServicesSpec, CoverageKeepsHistory, Coverage!HistorySurvives,
      Coverage!UpgradeKeepsHistory

-----------------------------------------------------------------------------
(***************************************************************************)
(* The chart hub: what it charts is what the open connections hold, and    *)
(* the scan that believes itself up to date has that set.                  *)
(***************************************************************************)

(* Connections and symbols are finitely many, and None is no version.      *)
HubConfigured ==
    /\ IsFiniteSet(Conns) /\ IsFiniteSet(HubSymbols) /\ MaxCharted \in Nat
    /\ None \notin Int

(* The fold of a list of symbols, as FoldLeft computes it: g takes of      *)
(* every set of positions the last one last.                               *)
TakesLast(g, base, w, s) ==
    IF s = {} THEN base ELSE Hub!Take(g[s \ {Max(s)}], w[Max(s)])
TakesOver(g, base, w, S) == g = [s \in SUBSET S |-> TakesLast(g, base, w, s)]

(* Such a fold exists: that of the sets of at most n positions gives that  *)
(* of the sets of n + 1.                                                   *)
LEMMA TakesExist ==
    ASSUME NEW m \in Nat, NEW base, NEW w
    PROVE  \E g : TakesOver(g, base, w, 1 .. m)
<1> DEFINE S == 1 .. m
           Upto(n) == {s \in SUBSET S : Cardinality(s) <= n}
           Q == {n \in Nat : \E g : g = [s \in Upto(n) |-> TakesLast(g, base, w, s)]}
<1>0. IsFiniteSet(S) BY FS_Interval
<1>9. \A s \in SUBSET S : s # {} => Max(s) \in s BY MaxIn
<1> HIDE DEF S
<1>1. \A s \in SUBSET S : IsFiniteSet(s) /\ Cardinality(s) \in Nat
  BY <1>0, FS_Subset, FS_CardinalityType
<1>2. 0 \in Q
  <2> DEFINE g == [s \in Upto(0) |-> base]
  <2>1. \A s \in Upto(0) : s = {}
    <3> SUFFICES ASSUME NEW s \in Upto(0) PROVE s = {} OBVIOUS
    <3>1. Cardinality(s) = 0 /\ IsFiniteSet(s) BY <1>1
    <3> QED BY <3>1, FS_EmptySet
  <2>2. \A s \in Upto(0) : TakesLast(g, base, w, s) = base BY <2>1, Zenon DEF TakesLast
  <2> HIDE DEF Upto
  <2>3. g = [s \in Upto(0) |-> TakesLast(g, base, w, s)] BY <2>2, Zenon
  <2> QED BY <2>3, Zenon
<1>3. ASSUME NEW n \in Nat, n \in Q PROVE n + 1 \in Q
  <2>1. PICK g : g = [s \in Upto(n) |-> TakesLast(g, base, w, s)] BY <1>3, Zenon
  <2> DEFINE h == [s \in Upto(n + 1) |-> TakesLast(g, base, w, s)]
  <2>2. Upto(n) \subseteq Upto(n + 1) BY <1>1
  <2>3. \A s \in Upto(n + 1) : s # {} => s \ {Max(s)} \in Upto(n)
    <3> SUFFICES ASSUME NEW s \in Upto(n + 1), s # {} PROVE s \ {Max(s)} \in Upto(n)
      OBVIOUS
    <3>1. Max(s) \in s BY <1>9
    <3>2. IsFiniteSet(s) /\ Cardinality(s) \in Nat /\ Cardinality(s) <= n + 1 BY <1>1
    <3>3. Cardinality(s \ {Max(s)}) = Cardinality(s) - 1 BY <3>1, <3>2, FS_RemoveElement
    <3> QED BY <3>2, <3>3
  <2> HIDE DEF Upto
  <2>4. \A s \in Upto(n) : h[s] = g[s]
    <3> SUFFICES ASSUME NEW s \in Upto(n) PROVE h[s] = g[s] OBVIOUS
    <3>1. h[s] = TakesLast(g, base, w, s) BY <2>2, Zenon
    <3>2. g[s] = TakesLast(g, base, w, s) BY <2>1, Zenon
    <3> QED BY <3>1, <3>2
  <2>5. \A s \in Upto(n + 1) : TakesLast(h, base, w, s) = TakesLast(g, base, w, s)
    <3> HIDE DEF h
    <3> QED BY <2>3, <2>4, Zenon DEF TakesLast
  <2>6. h = [s \in Upto(n + 1) |-> TakesLast(h, base, w, s)] BY <2>5, Zenon
  <2>7. n + 1 \in Nat OBVIOUS
  <2> QED BY <2>6, <2>7, Zenon
<1> HIDE DEF Q
<1>4. Nat \subseteq Q BY <1>2, <1>3, EveryNat
<1>5. Cardinality(S) \in Q BY <1>0, <1>1, <1>4
<1>6. PICK g : g = [s \in Upto(Cardinality(S)) |-> TakesLast(g, base, w, s)] BY <1>5, Zenon DEF Q
<1>7. Upto(Cardinality(S)) = SUBSET S
  <2>1. \A s \in SUBSET S : Cardinality(s) <= Cardinality(S) BY <1>0, FS_Subset
  <2> QED BY <2>1
<1>8. g = [s \in SUBSET S |-> TakesLast(g, base, w, s)] BY <1>6, <1>7, Zenon
<1> QED BY <1>8, Zenon DEF TakesOver, S

(* The fold of a list is reached from its base by taking one symbol of the *)
(* list after the other.                                                   *)
Steps(h, base, w, n) == h[0] = base /\ \A i \in 1 .. n : h[i] = Hub!Take(h[i - 1], w[i])

LEMMA FoldSteps ==
    ASSUME NEW n \in Nat, NEW base, NEW w, DOMAIN w = 1 .. n
    PROVE  \E h : Steps(h, base, w, n) /\ Hub!FoldLeft(Hub!Take, base, w) = h[n]
<1> DEFINE S == 1 .. n
           g == CHOOSE g : TakesOver(g, base, w, S)
<1>1. TakesOver(g, base, w, S) BY TakesExist, Zenon
<1>2. Hub!FoldLeft(Hub!Take, base, w) = g[S]
  <2> DEFINE Step(f, s) == IF s = {} THEN base
                           ELSE LET x == Hub!Max(s) IN Hub!Take(f[s \ {x}], w[x])
             Solves(f) == f = [s \in SUBSET (DOMAIN w) |-> Step(f, s)]
             h == CHOOSE f : Solves(f)
  <2>1. Hub!FoldLeft(Hub!Take, base, w) = h[DOMAIN w]
    BY DEF Hub!FoldLeft, Hub!MapThenFoldSet
  <2>2. \A s : Hub!Max(s) = Max(s) BY DEF Hub!Max, Max
  <2>3. \A f, s : Step(f, s) = TakesLast(f, base, w, s) BY <2>2, Zenon DEF TakesLast
  <2> HIDE DEF Step
  <2>4. \A f : Solves(f) <=> TakesOver(f, base, w, S) BY <2>3, Zenon DEF TakesOver
  <2> HIDE DEF Solves
  <2>5. h = g BY <2>4, Zenon
  <2> QED BY <2>1, <2>5
<1> HIDE DEF g
<1> DEFINE h == [i \in 0 .. n |-> g[1 .. i]]
<1>3. h[0] = base
  <2>1. 1 .. 0 = {} /\ {} \in SUBSET S OBVIOUS
  <2>2. g[{}] = base BY <1>1, <2>1, Zenon DEF TakesOver, TakesLast
  <2> QED BY <2>1, <2>2
<1>4. ASSUME NEW i \in 1 .. n PROVE h[i] = Hub!Take(h[i - 1], w[i])
  <2> DEFINE T == 1 .. i
  <2>1. i \in Nat /\ 1 <= i /\ i <= n /\ i - 1 \in 0 .. n /\ i \in 0 .. n OBVIOUS
  <2>8. i \in T /\ \A y \in T : y \in 1 .. n BY <2>1
  <2>6. T \in SUBSET S /\ T # {}
    <3> HIDE DEF T
    <3> QED BY <2>8
  <2>7. T \ {i} = 1 .. (i - 1) BY <2>1
  <2>2. Max(T) = i
    <3>1. i \in T /\ \A y \in T : i >= y BY <2>1
    <3>2. ASSUME NEW x \in T, \A y \in T : x >= y PROVE x = i BY <3>1, <3>2
    <3> HIDE DEF T
    <3> QED BY <3>1, <3>2, Zenon DEF Max
  <2> HIDE DEF T
  <2>3. g[T] = TakesLast(g, base, w, T) BY <1>1, <2>6, Zenon DEF TakesOver
  <2>4. g[T] = Hub!Take(g[T \ {i}], w[i]) BY <2>2, <2>3, <2>6, Zenon DEF TakesLast
  <2>5. h[i] = g[T] /\ h[i - 1] = g[T \ {i}] BY <2>1, <2>7, Zenon DEF T
  <2> QED BY <2>4, <2>5
<1>5. h[n] = g[S] OBVIOUS
<1> HIDE DEF h, S
<1>6. Steps(h, base, w, n) BY <1>3, <1>4 DEF Steps
<1> QED BY <1>2, <1>5, <1>6

(* The counts r once a connection holds the symbols got as well.           *)
Plus(r, got) == [s \in HubSymbols |-> IF s \in got THEN r[s] + 1 ELSE r[s]]

(* What a connection has after i of the symbols w it asked for.            *)
Took(acc, r, w, i) ==
    /\ acc = [counts |-> Plus(r, acc.got), got |-> acc.got]
    /\ acc.got \subseteq {w[j] : j \in 1 .. i} /\ acc.got \subseteq HubSymbols
    /\ Cardinality(Hub!Charted(acc.counts)) <= MaxCharted

(* The hub's cardinality is that of the theorems.                          *)
LEMMA SameSize == \A S : Hub!Cardinality(S) = Cardinality(S)
  BY DEF Hub!Cardinality, Cardinality

(* One symbol more, which the connection has not taken yet.                *)
LEMMA TakesOne ==
    ASSUME HubConfigured, NEW r \in [HubSymbols -> Nat], NEW acc, NEW w, NEW i \in Nat \ {0},
           Took(acc, r, w, i - 1), w[i] \in HubSymbols, w[i] \notin {w[j] : j \in 1 .. i - 1}
    PROVE  Took(Hub!Take(acc, w[i]), r, w, i)
<1> DEFINE s == w[i]
<1>1. acc = [counts |-> Plus(r, acc.got), got |-> acc.got] BY DEF Took
<1>2. acc.got \subseteq {w[j] : j \in 1 .. i - 1} /\ acc.got \subseteq HubSymbols BY DEF Took
<1>3. Cardinality(Hub!Charted(acc.counts)) <= MaxCharted BY DEF Took
<1>4. {w[j] : j \in 1 .. i - 1} \subseteq {w[j] : j \in 1 .. i} BY SMT
<1>5. s \in {w[j] : j \in 1 .. i} BY SMT
<1>6. s \notin acc.got BY <1>2
<1>7. acc.counts = Plus(r, acc.got) BY <1>1
<1>8. acc.counts \in [HubSymbols -> Nat] BY <1>7 DEF Plus
<1>9. CASE ~(acc.counts[s] > 0 \/ Hub!Cardinality(Hub!Charted(acc.counts)) < MaxCharted)
  <2>1. Hub!Take(acc, s) = acc BY <1>9, Zenon DEF Hub!Take
  <2>2. acc.got \subseteq {w[j] : j \in 1 .. i} BY <1>2, <1>4
  <2> QED BY <1>1, <1>2, <1>3, <2>1, <2>2, Zenon DEF Took
<1>10. CASE acc.counts[s] > 0 \/ Hub!Cardinality(Hub!Charted(acc.counts)) < MaxCharted
  <2> DEFINE counts == [acc.counts EXCEPT ![s] = @ + 1]
             got == acc.got \cup {s}
  <2>1. Hub!Take(acc, s) = [counts |-> counts, got |-> got] BY <1>10, Zenon DEF Hub!Take
  <2>2. counts = Plus(r, got)
    <3>1. counts \in [HubSymbols -> Nat] BY <1>8
    <3>2. Plus(r, got) \in [HubSymbols -> Nat] BY DEF Plus
    <3>3. \A x \in HubSymbols : counts[x] = Plus(r, got)[x] BY <1>6, <1>7, <1>8 DEF Plus
    <3> QED BY <3>1, <3>2, <3>3
  <2>3. got \subseteq {w[j] : j \in 1 .. i} BY <1>2, <1>4, <1>5
  <2>4. Cardinality(Hub!Charted(counts)) <= MaxCharted
    <3> DEFINE C == Hub!Charted(acc.counts)
    <3>1. C \subseteq HubSymbols BY DEF Hub!Charted
    <3>2. IsFiniteSet(C) BY <3>1, FS_Subset DEF HubConfigured
    <3>3. Hub!Charted(counts) = C \cup {s} BY <1>8 DEF Hub!Charted
    <3>4. s \in C <=> acc.counts[s] > 0 BY DEF Hub!Charted
    <3>5. Cardinality(C) \in Nat /\ Cardinality(C) <= MaxCharted BY <1>3, <3>2, FS_CardinalityType
    <3>6. Cardinality(C \cup {s}) = IF s \in C THEN Cardinality(C) ELSE Cardinality(C) + 1
      BY <3>2, FS_AddElement
    <3>7. s \in C \/ Cardinality(C) < MaxCharted BY <1>10, <3>4, SameSize
    <3>8. MaxCharted \in Nat BY DEF HubConfigured
    <3> HIDE DEF C, counts
    <3> QED BY <3>3, <3>5, <3>6, <3>7, <3>8
  <2> HIDE DEF counts
  <2>5. got \subseteq HubSymbols BY <1>2
  <2> HIDE DEF got
  <2>6. [counts |-> counts, got |-> got].got = got OBVIOUS
  <2>7. [counts |-> counts, got |-> got].counts = counts OBVIOUS
  <2> QED BY <2>1, <2>2, <2>3, <2>4, <2>5, <2>6, <2>7, Zenon DEF Took
<1> QED BY <1>9, <1>10

(* The whole request: a list of symbols, none of them twice.               *)
LEMMA TakesAll ==
    ASSUME HubConfigured, NEW r \in [HubSymbols -> Nat], NEW n \in Nat,
           NEW w \in [1 .. n -> HubSymbols], \A i, j \in 1 .. n : i # j => w[i] # w[j],
           Cardinality(Hub!Charted(r)) <= MaxCharted,
           NEW h, Steps(h, [counts |-> r, got |-> {}], w, n)
    PROVE  Took(h[n], r, w, n)
<1> DEFINE Q == {i \in Nat : i <= n => Took(h[i], r, w, i)}
<1>1. 0 \in Q
  <2>1. h[0] = [counts |-> r, got |-> {}] BY DEF Steps
  <2>2. Plus(r, {}) = r BY DEF Plus
  <2>3. h[0].got = {} /\ h[0].counts = r BY <2>1
  <2>4. h[0] = [counts |-> Plus(r, h[0].got), got |-> h[0].got] BY <2>1, <2>2, <2>3, Zenon
  <2> QED BY <2>3, <2>4 DEF Took
<1>2. ASSUME NEW i \in Nat, i \in Q PROVE i + 1 \in Q
  <2> SUFFICES ASSUME i + 1 <= n PROVE Took(h[i + 1], r, w, i + 1) OBVIOUS
  <2>1. Took(h[i], r, w, i) BY <1>2
  <2>2. i + 1 \in 1 .. n /\ (i + 1) - 1 = i /\ i + 1 \in Nat \ {0} OBVIOUS
  <2>3. h[i + 1] = Hub!Take(h[i], w[i + 1]) BY <2>2 DEF Steps
  <2>4. w[i + 1] \in HubSymbols BY <2>2
  <2>5. w[i + 1] \notin {w[j] : j \in 1 .. i} BY <2>2
  <2> QED BY <2>1, <2>2, <2>3, <2>4, <2>5, TakesOne
<1> HIDE DEF Q
<1>3. Nat \subseteq Q BY <1>1, <1>2, EveryNat
<1>4. n \in Q BY <1>3
<1> QED BY <1>4 DEF Q

-----------------------------------------------------------------------------
(* The connections that hold symbol s.                                     *)
Holders(h, s) == {d \in Conns : s \in h[d]}

(* A symbol is charted as often as it is held, and the scan's copy is no   *)
(* newer than the hub, and is the hub's set where it is as new.            *)
HubInv ==
    /\ hubCharted \in [HubSymbols -> Nat] /\ version \in Nat
    /\ held \in [Conns -> SUBSET HubSymbols]
    /\ Cardinality(Hub!Charted(hubCharted)) <= MaxCharted
    /\ hubChart \subseteq HubSymbols
    /\ chartVersion \in Nat \cup {None} /\ reading \in Nat \cup {None}
    /\ \A s \in HubSymbols : hubCharted[s] = Cardinality(Holders(held, s))
    /\ chartVersion # None => chartVersion <= version
    /\ reading # None => reading <= version
    /\ chartVersion = version => hubChart = Hub!Charted(hubCharted)

(* It holds with nothing charted and nothing read.                         *)
LEMMA HubInit == ASSUME HubConfigured, Hub!Init PROVE HubInv
<1>1. hubCharted = [s \in HubSymbols |-> 0] /\ version = 0 BY DEF Hub!Init
<1>2. held = [c \in Conns |-> {}] BY DEF Hub!Init
<1>3. hubChart = {} /\ chartVersion = None /\ reading = None BY DEF Hub!Init
<1>4. Hub!Charted(hubCharted) = {} BY <1>1 DEF Hub!Charted
<1>5. \A s \in HubSymbols : Holders(held, s) = {} BY <1>2 DEF Holders
<1>6. Cardinality({}) = 0 BY FS_EmptySet
<1>7. MaxCharted \in Nat /\ None # 0 BY DEF HubConfigured
<1>8. \A s \in HubSymbols : hubCharted[s] = Cardinality(Holders(held, s)) BY <1>1, <1>5, <1>6
<1> QED BY <1>1, <1>2, <1>3, <1>4, <1>6, <1>7, <1>8 DEF HubInv

(* What a connection releases is counted once less.                        *)
LEMMA Releases ==
    ASSUME HubConfigured, HubInv, NEW c \in Conns
    PROVE  /\ Hub!Released(hubCharted, held[c]) \in [HubSymbols -> Nat]
           /\ Cardinality(Hub!Charted(Hub!Released(hubCharted, held[c]))) <= MaxCharted
           /\ \A s \in HubSymbols : Hub!Released(hubCharted, held[c])[s]
                                      = Cardinality(Holders(held, s) \ {c})
<1> DEFINE r == Hub!Released(hubCharted, held[c])
<1>1. r = [s \in HubSymbols |-> IF s \in held[c] THEN hubCharted[s] - 1 ELSE hubCharted[s]]
  BY DEF Hub!Released
<1>2. ASSUME NEW s \in HubSymbols
      PROVE  r[s] = Cardinality(Holders(held, s) \ {c}) /\ r[s] \in Nat /\ r[s] <= hubCharted[s]
  <2>1. IsFiniteSet(Holders(held, s)) BY FS_Subset DEF Holders, HubConfigured
  <2>2. c \in Holders(held, s) <=> s \in held[c] BY DEF Holders
  <2>3. Cardinality(Holders(held, s)) = hubCharted[s] BY DEF HubInv
  <2>4. hubCharted[s] \in Nat BY DEF HubInv
  <2>5. r[s] = IF s \in held[c] THEN hubCharted[s] - 1 ELSE hubCharted[s] BY <1>1
  <2>6. IsFiniteSet(Holders(held, s) \ {c}) BY <2>1, FS_RemoveElement
  <2>7. Cardinality(Holders(held, s) \ {c}) \in Nat BY <2>6, FS_CardinalityType
  <2>8. Cardinality(Holders(held, s) \ {c})
          = IF c \in Holders(held, s) THEN Cardinality(Holders(held, s)) - 1
            ELSE Cardinality(Holders(held, s))
    BY <2>1, FS_RemoveElement
  <2> HIDE DEF r
  <2> QED BY <2>2, <2>3, <2>4, <2>5, <2>7, <2>8
<1>3. DOMAIN r = HubSymbols /\ r = [s \in HubSymbols |-> r[s]] BY <1>1
<1> HIDE DEF r
<1>4. r \in [HubSymbols -> Nat] BY <1>2, <1>3
<1>5. Cardinality(Hub!Charted(r)) <= MaxCharted
  <2>1. hubCharted \in [HubSymbols -> Nat] BY DEF HubInv
  <2>2. Hub!Charted(r) \subseteq Hub!Charted(hubCharted)
    <3> SUFFICES ASSUME NEW s \in HubSymbols, r[s] > 0 PROVE hubCharted[s] > 0
      BY DEF Hub!Charted
    <3>1. r[s] \in Nat /\ r[s] <= hubCharted[s] /\ hubCharted[s] \in Nat BY <1>2, <2>1
    <3> QED BY <3>1
  <2>3. IsFiniteSet(Hub!Charted(hubCharted)) BY FS_Subset DEF Hub!Charted, HubConfigured
  <2>4. Cardinality(Hub!Charted(r)) <= Cardinality(Hub!Charted(hubCharted)) BY <2>2, <2>3, FS_Subset
  <2>5. IsFiniteSet(Hub!Charted(r)) BY <2>2, <2>3, FS_Subset
  <2>6. Cardinality(Hub!Charted(r)) \in Nat /\ Cardinality(Hub!Charted(hubCharted)) \in Nat
    BY <2>3, <2>5, FS_CardinalityType
  <2> QED BY <2>4, <2>6 DEF HubInv, HubConfigured
<1> QED BY <1>2, <1>4, <1>5 DEF r

(* A request is a list of symbols none of which it has twice.              *)
LEMMA RequestIs ==
    ASSUME HubConfigured, NEW w \in Hub!Requests
    PROVE  \E n \in Nat : w \in [1 .. n -> HubSymbols]
                          /\ \A i, j \in 1 .. n : i # j => w[i] # w[j]
<1>1. PICK W \in SUBSET HubSymbols : w \in Hub!SetToSeqs(W) BY DEF Hub!Requests
<1> DEFINE n == Cardinality(W)
<1>2. w \in [1 .. n -> W] /\ \A i, j \in 1 .. n : i # j => w[i] # w[j]
  BY <1>1, SameSize DEF Hub!SetToSeqs
<1>3. IsFiniteSet(W) BY FS_Subset DEF HubConfigured
<1>4. n \in Nat BY <1>3, FS_CardinalityType
<1> HIDE DEF n
<1>5. w \in [1 .. n -> HubSymbols] BY <1>2
<1> QED BY <1>2, <1>4, <1>5

(* A replacement leaves its connection with some symbols, each counted     *)
(* once more.                                                              *)
LEMMA ReplaceTakes ==
    ASSUME HubConfigured, HubInv, NEW c \in Conns, NEW n \in Nat,
           NEW w \in [1 .. n -> HubSymbols], \A i, j \in 1 .. n : i # j => w[i] # w[j],
           Hub!Replace(c, w)
    PROVE  \E got \in SUBSET HubSymbols :
             /\ held' = [held EXCEPT ![c] = got]
             /\ hubCharted' = Plus(Hub!Released(hubCharted, held[c]), got)
             /\ Cardinality(Hub!Charted(hubCharted')) <= MaxCharted
             /\ version' = IF Hub!Charted(hubCharted) # Hub!Charted(hubCharted')
                           THEN version + 1 ELSE version
<1> DEFINE r == Hub!Released(hubCharted, held[c])
           after == Hub!FoldLeft(Hub!Take, [counts |-> r, got |-> {}], w)
<1>1. /\ hubCharted' = after.counts
      /\ held' = [held EXCEPT ![c] = after.got]
      /\ version' = IF Hub!Bumped(Hub!Charted(hubCharted), Hub!Charted(after.counts))
                    THEN version + 1 ELSE version
  BY DEF Hub!Replace
<1>2. r \in [HubSymbols -> Nat] /\ Cardinality(Hub!Charted(r)) <= MaxCharted BY Releases, Zenon
<1>3. DOMAIN w = 1 .. n OBVIOUS
<1>4. \E h : Steps(h, [counts |-> r, got |-> {}], w, n) /\ after = h[n]
  <2> HIDE DEF r
  <2> QED BY <1>3, FoldSteps
<1> HIDE DEF r, after
<1>5. Took(after, r, w, n) BY <1>2, <1>4, TakesAll
<1>6. after.got \subseteq HubSymbols BY <1>5 DEF Took
<1>7. after.counts = Plus(r, after.got)
  <2>1. after = [counts |-> Plus(r, after.got), got |-> after.got] BY <1>5 DEF Took
  <2> QED BY <2>1
<1>8. Cardinality(Hub!Charted(after.counts)) <= MaxCharted BY <1>5 DEF Took
<1>9. version' = IF Hub!Charted(hubCharted) # Hub!Charted(hubCharted')
                 THEN version + 1 ELSE version
  BY <1>1, Zenon DEF Hub!Bumped
<1>10. hubCharted' = Plus(r, after.got) BY <1>1, <1>7, Zenon
<1>11. Cardinality(Hub!Charted(hubCharted')) <= MaxCharted BY <1>1, <1>8, Zenon
<1>12. held' = [held EXCEPT ![c] = after.got] BY <1>1, Zenon
<1> QED BY <1>6, <1>9, <1>10, <1>11, <1>12, Zenon DEF r

(* A replacement keeps the invariant.                                      *)
LEMMA ReplaceKeeps ==
    ASSUME HubConfigured, HubInv, NEW c \in Conns, NEW n \in Nat,
           NEW w \in [1 .. n -> HubSymbols], \A i, j \in 1 .. n : i # j => w[i] # w[j],
           Hub!Replace(c, w)
    PROVE  HubInv'
<1> DEFINE r == Hub!Released(hubCharted, held[c])
<1>1. PICK got \in SUBSET HubSymbols :
        /\ held' = [held EXCEPT ![c] = got]
        /\ hubCharted' = Plus(r, got)
        /\ Cardinality(Hub!Charted(hubCharted')) <= MaxCharted
        /\ version' = IF Hub!Charted(hubCharted) # Hub!Charted(hubCharted')
                      THEN version + 1 ELSE version
  BY ReplaceTakes, Zenon
<1>2. r \in [HubSymbols -> Nat] BY Releases, Zenon
<1>3. \A s \in HubSymbols : r[s] = Cardinality(Holders(held, s) \ {c}) BY Releases, Zenon
<1> HIDE DEF r
<1>4. hubCharted' \in [HubSymbols -> Nat] BY <1>1, <1>2 DEF Plus
<1>5. held \in [Conns -> SUBSET HubSymbols] BY DEF HubInv
<1>6. held' \in [Conns -> SUBSET HubSymbols] BY <1>1, <1>5
<1>7. ASSUME NEW s \in HubSymbols PROVE hubCharted'[s] = Cardinality(Holders(held', s))
  <2> DEFINE O == Holders(held, s) \ {c}
  <2>1. IsFiniteSet(Holders(held, s)) BY FS_Subset DEF Holders, HubConfigured
  <2>2. IsFiniteSet(O) /\ c \notin O BY <2>1, FS_RemoveElement
  <2>3. hubCharted'[s] = IF s \in got THEN r[s] + 1 ELSE r[s] BY <1>1 DEF Plus
  <2>4. CASE s \in got
    <3>1. Holders(held', s) = O \cup {c} BY <1>1, <1>5, <2>4 DEF Holders
    <3>2. Cardinality(O \cup {c}) = Cardinality(O) + 1 BY <2>2, FS_AddElement
    <3> QED BY <1>3, <2>3, <2>4, <3>1, <3>2
  <2>5. CASE s \notin got
    <3>1. Holders(held', s) = O BY <1>1, <1>5, <2>5 DEF Holders
    <3> QED BY <1>3, <2>3, <2>5, <3>1
  <2> QED BY <2>4, <2>5
<1>8. version \in Nat /\ chartVersion \in Nat \cup {None} /\ reading \in Nat \cup {None}
  BY DEF HubInv
<1>9. UNCHANGED <<hubChart, chartVersion, reading>> BY DEF Hub!Replace
<1>10. version' \in Nat /\ version <= version' BY <1>1, <1>8
<1>11. chartVersion' # None => chartVersion' <= version' BY <1>8, <1>9, <1>10 DEF HubInv
<1>12. reading' # None => reading' <= version' BY <1>8, <1>9, <1>10 DEF HubInv
<1>13. chartVersion' = version' => hubChart' = Hub!Charted(hubCharted')
  <2> SUFFICES ASSUME chartVersion = version' PROVE hubChart = Hub!Charted(hubCharted')
    BY <1>9
  <2>1. chartVersion <= version BY <1>10 DEF HubInv, HubConfigured
  <2>2. version' = version BY <1>1, <1>8, <1>10, <2>1
  <2>3. Hub!Charted(hubCharted) = Hub!Charted(hubCharted') BY <1>1, <1>8, <2>2
  <2> QED BY <2>2, <2>3 DEF HubInv
<1>14. hubChart' \subseteq HubSymbols BY <1>9 DEF HubInv
<1>15. chartVersion' \in Nat \cup {None} /\ reading' \in Nat \cup {None} BY <1>8, <1>9
<1>16. Cardinality(Hub!Charted(hubCharted')) <= MaxCharted BY <1>1
<1> QED BY <1>4, <1>6, <1>7, <1>10, <1>11, <1>12, <1>13, <1>14, <1>15, <1>16, Zenon DEF HubInv

(* Every step of the hub keeps the invariant.                              *)
LEMMA HubStepKeeps == HubConfigured /\ HubInv /\ [Hub!Next]_(Hub!vars) => HubInv'
<1> SUFFICES ASSUME HubConfigured, HubInv, [Hub!Next]_(Hub!vars) PROVE HubInv'
  OBVIOUS
<1>1. CASE Hub!ReadVersion
  BY <1>1 DEF Hub!ReadVersion, HubInv
<1>2. CASE Hub!ReadSet
  <2>1. Hub!Charted(hubCharted) \subseteq HubSymbols BY DEF Hub!Charted
  <2> QED BY <1>2, <2>1 DEF Hub!ReadSet, HubInv
<1>3. ASSUME NEW c \in Conns, Hub!Subscribe(c) PROVE HubInv'
  <2>1. PICK w \in Hub!Requests : Hub!Replace(c, w) BY <1>3 DEF Hub!Subscribe
  <2>2. PICK n \in Nat : w \in [1 .. n -> HubSymbols]
                         /\ \A i, j \in 1 .. n : i # j => w[i] # w[j]
    BY RequestIs
  <2> QED BY <2>1, <2>2, ReplaceKeeps
<1>4. ASSUME NEW c \in Conns, Hub!Disconnect(c) PROVE HubInv'
  <2>1. Hub!Replace(c, <<>>) BY <1>4 DEF Hub!Disconnect
  <2>2. <<>> \in [1 .. 0 -> HubSymbols] /\ \A i, j \in 1 .. 0 : i # j => <<>>[i] # <<>>[j]
    OBVIOUS
  <2>3. 0 \in Nat OBVIOUS
  <2> QED BY <2>1, <2>2, <2>3, ReplaceKeeps
<1>5. CASE UNCHANGED Hub!vars
  BY <1>5 DEF Hub!vars, HubInv
<1> QED BY <1>1, <1>2, <1>3, <1>4, <1>5 DEF Hub!Next

(* The invariant gives what is claimed of the hub.                         *)
LEMMA HubSafe == HubConfigured /\ HubInv => HubFollows
<1> SUFFICES ASSUME HubConfigured, HubInv PROVE HubFollows OBVIOUS
<1>1. Hub!CountsMatchHolders BY SameSize DEF Hub!CountsMatchHolders, HubInv, Holders
<1>2. Hub!ScanFollowsCharts BY DEF Hub!ScanFollowsCharts, HubInv
<1>3. hubCharted \in [HubSymbols -> 0 .. Hub!Cardinality(Conns)]
  <2>1. IsFiniteSet(Conns) BY DEF HubConfigured
  <2>2. Cardinality(Conns) \in Nat BY <2>1, FS_CardinalityType
  <2>3. ASSUME NEW s \in HubSymbols PROVE hubCharted[s] \in 0 .. Cardinality(Conns)
    <3>1. Holders(held, s) \subseteq Conns BY DEF Holders
    <3>2. Cardinality(Holders(held, s)) <= Cardinality(Conns) BY <2>1, <3>1, FS_Subset
    <3>3. hubCharted[s] = Cardinality(Holders(held, s)) /\ hubCharted[s] \in Nat BY DEF HubInv
    <3> QED BY <2>2, <3>2, <3>3
  <2>4. hubCharted \in [HubSymbols -> Nat] BY DEF HubInv
  <2> QED BY <2>3, <2>4, SameSize
<1>4. Hub!Cardinality(Hub!Charted(hubCharted)) <= MaxCharted BY SameSize DEF HubInv
<1>5. Hub!TypeOK BY <1>3, <1>4 DEF Hub!TypeOK, HubInv
<1> QED BY <1>1, <1>2, <1>5 DEF HubFollows

(* A step of the composition is a step of that part, or leaves it alone.   *)
LEMMA StepHub == [ServicesNext]_servicesVars => [Hub!Next]_(Hub!vars)
<1>1. UNCHANGED hubVars => UNCHANGED Hub!vars BY DEF hubVars, Hub!vars
<1>2. HubStep => Hub!Next BY DEF HubStep
<1>3. UNCHANGED servicesVars => UNCHANGED hubVars BY DEF servicesVars
<1>4. TraderStep => UNCHANGED hubVars BY DEF TraderStep
<1>5. StoreStep => UNCHANGED hubVars BY DEF StoreStep
<1>6. StreamStep => UNCHANGED hubVars BY DEF StreamStep
<1>7. BarsStep => UNCHANGED hubVars BY DEF BarsStep
<1>8. CoverageStep => UNCHANGED hubVars BY DEF CoverageStep
<1>9. FeedStep => UNCHANGED hubVars BY DEF FeedStep
<1>10. IgnitionStep => UNCHANGED hubVars BY DEF IgnitionStep
<1>11. HaltsStep => UNCHANGED hubVars BY DEF HaltsStep
<1> QED BY <1>1, <1>2, <1>3, <1>4, <1>5, <1>6, <1>7, <1>8, <1>9, <1>10, <1>11 DEF ServicesNext

(* A symbol is charted as often as open connections hold it, and a scan    *)
(* that believes itself up to date has the charted set, for any number of  *)
(* connections and symbols and whatever the other parts do.                *)
THEOREM HubFollowsAlways == ServicesSpec => []HubFollows
<1>0. HubConfigured BY HubAssumption DEF HubConfigured
<1>1. ServicesInit => HubInv BY <1>0, HubInit DEF ServicesInit
<1>2. HubInv /\ [ServicesNext]_servicesVars => HubInv'
  BY <1>0, StepHub, HubStepKeeps
<1>3. HubInv => HubFollows BY <1>0, HubSafe
<1> QED BY <1>1, <1>2, <1>3, PTL DEF ServicesSpec
=============================================================================
