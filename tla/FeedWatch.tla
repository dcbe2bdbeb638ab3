----------------------------- MODULE FeedWatch -----------------------------
(***************************************************************************)
(* The upstream connection of market-data's live scan: the idle deadline,  *)
(* idle_deadline.rs, that tells a dead transport from a quiet market, the  *)
(* reconnect loop around it, and the feed state clients are told,          *)
(* client_feed.rs.                                                         *)
(*                                                                         *)
(* The runtime is timely: time does not pass while the deadline or the     *)
(* chart tick is due.                                                      *)
(***************************************************************************)
EXTENDS Integers

CONSTANTS
    Open, Regular, After, Close,    \* when the day's sessions begin
    Long, Short,    \* idle timeouts: 600 s; 60 s in the regular session
    FullTape,       \* is the whole market's tape subscribed?
    Retry,          \* the reconnect loop's sleep
    MaxTime,        \* bound of the instance
    None

VARIABLES
    now, ticked,    \* the time, and that of the last chart tick
    conn,           \* "down" or "up"
    downAt,         \* when the connection ended
    carries,        \* does the transport still deliver?
    at, timeout, armed,     \* IdleDeadline
    lastData,       \* when the run last had market data, or its beginning
    feedUp,         \* the run's own feed_up
    feed, blamed    \* FeedState, and the first cause of the present outage

deadline == <<at, timeout, armed>>
vars == <<now, ticked, conn, downAt, carries, deadline, lastData, feedUp, feed, blamed>>

Session == IF now < Open \/ now >= Close THEN "overnight"
           ELSE IF now < Regular THEN "premarket"
           ELSE IF now < After THEN "regular" ELSE "afterhours"

IdleTimeout == IF FullTape /\ Session = "regular" THEN Short ELSE Long

(* Hub.set_feed: only a transition changes the state.                      *)
MarkFeed(up, reason) ==
    feed' = IF feed.up = up THEN feed ELSE [up |-> up, since |-> now, reason |-> reason]

Blame(reason) == blamed' = IF feed.up THEN [at |-> now, reason |-> reason] ELSE blamed

(* A run begins: Overnight, silence is a healthy connection's normal state. *)
Connect ==
    /\ conn = "down" /\ now >= downAt + Retry
    /\ conn' = "up" /\ carries' = TRUE
    /\ at' = now + Long /\ timeout' = Long /\ armed' = now /\ lastData' = now
    /\ feedUp' = (Session = "overnight")
    /\ \/ Session = "overnight" /\ MarkFeed(TRUE, None) /\ blamed' = None
       \/ Session # "overnight" /\ UNCHANGED <<feed, blamed>>
    /\ UNCHANGED <<now, ticked, downAt>>

(* Connecting or fetching the seeds fails: the loop says why, then sleeps. *)
ConnectFails ==
    /\ conn = "down" /\ now >= downAt + Retry
    /\ MarkFeed(FALSE, "connect") /\ downAt' = now
    /\ Blame("connect")
    /\ UNCHANGED <<now, ticked, conn, carries, deadline, lastData, feedUp>>

Ends(reason) ==
    /\ conn' = "down" /\ downAt' = now /\ carries' = FALSE
    /\ MarkFeed(FALSE, reason)
    /\ Blame(reason)
    /\ UNCHANGED <<now, ticked, deadline, lastData, feedUp>>

(* A batch: market data moves the deadline, a control frame does not.      *)
AnyFrame(data) == TRUE
MovesDeadline(data) == data
Batch(data) ==
    /\ conn = "up" /\ carries
    /\ lastData' = IF data THEN now ELSE lastData
    /\ at' = IF MovesDeadline(data) THEN now + timeout ELSE at
    /\ armed' = IF MovesDeadline(data) THEN now ELSE armed
    /\ \/ /\ data /\ ~feedUp
          /\ MarkFeed(TRUE, None) /\ feedUp' = TRUE /\ blamed' = None
       \/ /\ ~(data /\ ~feedUp)
          /\ UNCHANGED <<feed, feedUp, blamed>>
    /\ UNCHANGED <<now, ticked, conn, downAt, carries, timeout>>

(* The deadline passes: Overnight it is armed again, otherwise the run ends. *)
Rearms(session) == session = "overnight"
Expire ==
    /\ conn = "up" /\ now >= at
    /\ \/ /\ Rearms(Session)
          /\ at' = now + timeout /\ armed' = now
          /\ UNCHANGED <<now, ticked, conn, downAt, carries, timeout, lastData, feedUp, feed, blamed>>
       \/ ~Rearms(Session) /\ Ends("idle")

(* The chart tick, the loop's most frequent control branch, retunes.       *)
Retunes(t) == t # timeout
FromArmed(t) == armed + t
Tick ==
    /\ conn = "up" /\ ticked # now
    /\ ticked' = now
    /\ \/ /\ Retunes(IdleTimeout)
          /\ timeout' = IdleTimeout /\ at' = FromArmed(IdleTimeout) /\ UNCHANGED armed
       \/ ~Retunes(IdleTimeout) /\ UNCHANGED deadline
    /\ UNCHANGED <<now, conn, downAt, carries, lastData, feedUp, feed, blamed>>

(* Upstream closes the stream or the socket fails; or, unseen, it goes     *)
(* silent with the connection open.                                        *)
StreamEnds == conn = "up" /\ Ends("stream")
GoesSilent == /\ carries /\ carries' = FALSE
              /\ UNCHANGED <<now, ticked, conn, downAt, deadline, lastData, feedUp, feed, blamed>>

Advance ==
    /\ now < MaxTime
    /\ conn = "up" => now < at /\ ticked = now
    /\ now' = now + 1
    /\ UNCHANGED <<ticked, conn, downAt, carries, deadline, lastData, feedUp, feed, blamed>>

Init ==
    /\ now = 0 /\ ticked = 0 /\ conn = "down" /\ downAt = -Retry /\ carries = FALSE
    /\ at = 0 /\ timeout = Long /\ armed = 0 /\ lastData = 0 /\ feedUp = FALSE
    /\ feed = [up |-> FALSE, since |-> 0, reason |-> "starting"] /\ blamed = [at |-> 0, reason |-> "starting"]

Next == \/ Connect \/ ConnectFails \/ Expire \/ Tick \/ StreamEnds \/ GoesSilent \/ Advance
        \/ \E data \in BOOLEAN : Batch(data)
Spec == Init /\ [][Next]_vars

(***************************************************************************)
(* Properties.                                                             *)
(***************************************************************************)
Latest(s, t) == IF s > t THEN s ELSE t

(* Every variable has its type; while connected, the deadline is the time  *)
(* it was armed at plus the timeout.                                       *)
TypeOK ==
    /\ now \in 0..MaxTime /\ ticked \in 0..now /\ conn \in {"down", "up"}
    /\ downAt \in -Retry..now /\ carries \in BOOLEAN /\ (carries => conn = "up")
    /\ timeout \in {Long, Short} /\ armed \in 0..now /\ lastData \in 0..now
    /\ conn = "up" => at = armed + timeout
    /\ feedUp \in BOOLEAN
    /\ feed \in [up : BOOLEAN, since : 0..now,
                 reason : {None, "starting", "connect", "idle", "stream"}]

(* While the market is open no connection stays silent for longer than the *)
(* long timeout, however busy the loop's control branches are and however  *)
(* many control frames arrive; one that died overnight is found within it. *)
SilenceIsBounded ==
    (conn = "up" /\ Session # "overnight") => now - Latest(lastData, Open) <= Long

(* With the whole tape subscribed, silence in the regular session ends the *)
(* connection after the short timeout.                                     *)
RegularSilenceIsShort ==
    (FullTape /\ conn = "up" /\ Session = "regular" /\ ticked = now)
        => now - Latest(lastData, Regular) <= Short

(* Clients are told that the feed is up only while a connection is, one    *)
(* that has had market data or that began while the market was closed.     *)
UpMeansConnected == feed.up => conn = "up" /\ feedUp

(* An outage keeps the reason and the time of its first cause, through     *)
(* failed reconnects and runs that never had data.                         *)
FirstCauseStands ==
    ~feed.up => feed.reason = blamed.reason /\ feed.since = blamed.at

=============================================================================
