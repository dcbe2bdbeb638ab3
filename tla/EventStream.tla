---------------------------- MODULE EventStream ----------------------------
(***************************************************************************)
(* ws-server's event stream, server.rs: one collector reads the scan's     *)
(* events from a bounded channel, numbers them, keeps a bounded snapshot   *)
(* and broadcasts; every connection reads the broadcast at its own pace.   *)
(* The collector and the connections alike are overtaken when they fall    *)
(* behind; of the collector's own gap only the log is told.                *)
(*                                                                         *)
(* A frame is its number; of what it carries only its class matters, the   *)
(* key (type and symbol) of a state frame, and whether a symbol is one     *)
(* whose unconfirmed ignition events, the chatter, UI clients are sent.    *)
(***************************************************************************)
EXTENDS Integers, Sequences, FiniteSets, FiniteSetsExt, SequencesExt

CONSTANTS
    Screens, Traders,     \* connections of UI clients and of the auto-trader
    Keys,                 \* keys of the state events
    Capacity,             \* BROADCAST_CAPACITY, of both channels
    MaxAlerts,            \* alerts kept for replay
    MaxLatest,            \* keys kept for replay
    MaxChatter,           \* RETAINED_UNCONFIRMED
    Slots,                \* connections admitted
    MaxEvents,            \* bound of the instance
    None

Clients == Screens \cup Traders
Kinds == [class : {"alert", "chatter"}, key : {None}] \cup [class : {"state"}, key : Keys]

VARIABLES
    scanned,    \* every event the scan has sent, in order
    read,       \* the next of them the collector's receiver reads
    lost,       \* those it was overtaken by
    frames,     \* every frame broadcast, in order
    event,      \* the event each of them carries
    alerts, latest, chatter,    \* EventSnapshot: numbers of the frames kept
    tiered,     \* is the chattering symbol one UI clients are told about?
    conn,       \* "closed", "hello" or "live"
    start, next,    \* first and next frame the connection's receiver reads
    sent, told,     \* frames it was sent; frames a StreamLagged covered
    shows           \* the last state frame it was sent of each key

upstream == <<scanned, read, lost>>
stream == <<frames, event>>
snapshot == <<alerts, latest, chatter>>
client == <<conn, start, next, sent, told, shows>>
vars == <<upstream, stream, snapshot, tiered, client>>

Published == Len(frames)
LastOf(seq, n) == SubSeq(seq, Len(seq) - (IF n < Len(seq) THEN n ELSE Len(seq)) + 1, Len(seq))

(* Hub::ui_delivers.                                                       *)
UiDelivers(i) == frames[i].class = "chatter" => tiered
Delivers(c, i) == c \in Traders \/ UiDelivers(i)

(***************************************************************************)
(* The collector.                                                          *)
(***************************************************************************)
(* EventSnapshot::record, for the frame numbered i.                        *)
Kept == {k \in Keys : latest[k] # None}
Record(f, i) ==
    \/ /\ f.class = "chatter"
       /\ chatter' = IF tiered THEN LastOf(Append(chatter, i), MaxChatter) ELSE chatter
       /\ UNCHANGED <<alerts, latest>>
    \/ /\ f.class = "alert"
       /\ alerts' = LastOf(Append(alerts, i), MaxAlerts)
       /\ UNCHANGED <<latest, chatter>>
    \/ /\ f.class = "state"
       /\ \/ /\ Cardinality(Kept \cup {f.key}) <= MaxLatest
             /\ latest' = [latest EXCEPT ![f.key] = i]
          \/ /\ Cardinality(Kept \cup {f.key}) > MaxLatest
             /\ \E k \in Kept \cup {f.key} :      \* pop_first: some key goes
                   latest' = [[latest EXCEPT ![f.key] = i] EXCEPT ![k] = None]
       /\ UNCHANGED <<alerts, chatter>>

(* The scan sends an event, whether or not the collector keeps up.         *)
Send(f) ==
    /\ Len(scanned) < MaxEvents
    /\ scanned' = Append(scanned, f)
    /\ UNCHANGED <<read, lost, stream, snapshot, tiered, client>>

Held(n) == IF n > Capacity THEN n - Capacity + 1 ELSE 1
OldestEvent == Held(Len(scanned))

(* One event of the scan's becomes the next frame.                         *)
Publish ==
    /\ read <= Len(scanned) /\ read >= OldestEvent
    /\ LET f == scanned[read]
       IN  /\ Record(f, Published + 1)
           /\ frames' = Append(frames, f) /\ event' = Append(event, read)
    /\ read' = read + 1
    /\ UNCHANGED <<scanned, lost, tiered, client>>

(* The collector is overtaken: it warns in the log and goes on numbering   *)
(* from the oldest event still held; no connection is told.                *)
CollectorLag ==
    /\ read < OldestEvent
    /\ lost' = lost \cup read .. OldestEvent - 1
    /\ read' = OldestEvent
    /\ UNCHANGED <<scanned, stream, snapshot, tiered, client>>

SetTiered == tiered' = ~tiered /\ UNCHANGED <<upstream, stream, snapshot, client>>

(***************************************************************************)
(* A connection.                                                           *)
(***************************************************************************)
(* EventSnapshot::frames, oldest first.                                    *)
Frames == Range(alerts) \cup {latest[k] : k \in Kept}
              \cup {i \in Range(chatter) : UiDelivers(i)}
Newest(old, k) == IF latest[k] = None THEN old ELSE latest[k]
Replay(c) == /\ sent' = [sent EXCEPT ![c] = @ \cup Frames]
             /\ shows' = [shows EXCEPT ![c] = [k \in Keys |-> Newest(@[k], k)]]

Disconnect(c) ==
    /\ conn' = [conn EXCEPT ![c] = "closed"]
    /\ start' = [start EXCEPT ![c] = 1] /\ next' = [next EXCEPT ![c] = 1]
    /\ sent' = [sent EXCEPT ![c] = {}] /\ told' = [told EXCEPT ![c] = {}]
    /\ shows' = [shows EXCEPT ![c] = [k \in Keys |-> None]]

(* The receiver is taken at the accept, the snapshot after the hello.      *)
Accept(c) ==
    /\ conn[c] = "closed"
    /\ Cardinality({d \in Clients : conn[d] # "closed"}) < Slots
    /\ conn' = [conn EXCEPT ![c] = "hello"]
    /\ start' = [start EXCEPT ![c] = Published + 1]
    /\ next' = [next EXCEPT ![c] = Published + 1]
    /\ UNCHANGED <<upstream, stream, snapshot, tiered, sent, told, shows>>

Hello(c) ==
    /\ conn[c] = "hello"
    /\ conn' = [conn EXCEPT ![c] = "live"]
    /\ \/ c \in Screens /\ Replay(c)
       \/ c \in Traders /\ UNCHANGED <<sent, shows>>
    /\ UNCHANGED <<upstream, stream, snapshot, tiered, start, next, told>>

Oldest == Held(Published)

Receive(c) ==
    /\ conn[c] = "live" /\ next[c] <= Published /\ next[c] >= Oldest
    /\ LET i == next[c]
       IN  /\ next' = [next EXCEPT ![c] = i + 1]
           /\ \/ /\ Delivers(c, i)
                 /\ sent' = [sent EXCEPT ![c] = @ \cup {i}]
                 /\ shows' = IF frames[i].class = "state"
                             THEN [shows EXCEPT ![c][frames[i].key] = i] ELSE shows
              \/ ~Delivers(c, i) /\ UNCHANGED <<sent, shows>>
    /\ UNCHANGED <<upstream, stream, snapshot, tiered, conn, start, told>>

(* Overtaken: the trader is disconnected; a UI client is told how many     *)
(* frames it missed, then sent the snapshot.                               *)
LagWith(c, strict, notice, resend) ==
    /\ conn[c] = "live" /\ next[c] < Oldest
    /\ \/ c \in strict /\ Disconnect(c)
       \/ /\ c \notin strict
          /\ told' = [told EXCEPT ![c] = @ \cup notice]
          /\ next' = [next EXCEPT ![c] = Oldest]
          /\ IF resend THEN Replay(c) ELSE UNCHANGED <<sent, shows>>
          /\ UNCHANGED <<conn, start>>
    /\ UNCHANGED <<upstream, stream, snapshot, tiered>>
Skipped(c) == next[c] .. Oldest - 1
LagUntold(c) == LagWith(c, Traders, {}, TRUE)
LagSendsNoSnapshot(c) == LagWith(c, Traders, Skipped(c), FALSE)
Lag(c) == LagWith(c, Traders, Skipped(c), TRUE)

(* The client closes, never says hello, or takes more than ten seconds to  *)
(* read a frame.                                                           *)
Leave(c) ==
    /\ conn[c] # "closed" /\ Disconnect(c)
    /\ UNCHANGED <<upstream, stream, snapshot, tiered>>

Init ==
    /\ scanned = <<>> /\ read = 1 /\ lost = {} /\ frames = <<>> /\ event = <<>>
    /\ alerts = <<>> /\ chatter = <<>>
    /\ latest = [k \in Keys |-> None] /\ tiered = FALSE
    /\ conn = [c \in Clients |-> "closed"]
    /\ start = [c \in Clients |-> 1] /\ next = [c \in Clients |-> 1]
    /\ sent = [c \in Clients |-> {}] /\ told = [c \in Clients |-> {}]
    /\ shows = [c \in Clients |-> [k \in Keys |-> None]]

Next ==
    \/ \E f \in Kinds : Send(f)
    \/ Publish \/ CollectorLag
    \/ SetTiered
    \/ \E c \in Clients : Accept(c) \/ Hello(c) \/ Receive(c) \/ Lag(c) \/ Leave(c)

Spec == Init /\ [][Next]_vars

(***************************************************************************)
(* Properties.                                                             *)
(***************************************************************************)
(* Every variable has its type, and no more is kept for replay and no more  *)
(* connections are admitted than there is room for.                        *)
TypeOK ==
    /\ Len(scanned) <= MaxEvents /\ Published < read
    /\ \A i \in 1..Published : frames[i] \in Kinds
    /\ Len(alerts) <= MaxAlerts /\ Len(chatter) <= MaxChatter
    /\ Cardinality(Kept) <= MaxLatest
    /\ tiered \in BOOLEAN
    /\ conn \in [Clients -> {"closed", "hello", "live"}]
    /\ Cardinality({d \in Clients : conn[d] # "closed"}) <= Slots
    /\ \A c \in Clients : start[c] <= next[c] /\ next[c] <= Published + 1

(* Every event the collector has passed is one frame, in order, or was     *)
(* lost to the collector's own lag, and only after Capacity newer ones     *)
(* had been sent before it was read.                                       *)
Accounted ==
    /\ Len(event) = Published
    /\ \A i \in 1..Published : frames[i] = scanned[event[i]]
    /\ \A i, j \in 1..Published : i < j => event[i] < event[j]
    /\ Range(event) \cup lost = 1 .. read - 1 /\ Range(event) \cap lost = {}
    /\ \A e \in lost : e + Capacity <= Len(scanned)

(* The events of the scan a connection has passed: those from the first    *)
(* it was to read to the next.                                             *)
Reached(i) == IF i <= Published THEN event[i] ELSE read
Passed(c) == Reached(start[c]) .. Reached(next[c]) - 1
Carried(e, numbers) == \E i \in numbers : i \in 1..Published /\ event[i] = e

(* A screen has been sent every alert and state event its connection has   *)
(* passed, or was told of the gap that covers it, or the event was lost    *)
(* upstream, to the collector.                                             *)
Matters(f) == f.class # "chatter"
NoSilentGap ==
    \A c \in Screens : conn[c] = "live" =>
        \A e \in Passed(c) :
            Matters(scanned[e]) => e \in lost \/ Carried(e, sent[c] \cup told[c])

(* A trader that is still connected has been sent every event since its    *)
(* connection, unconfirmed ignition included, but for those lost upstream. *)
TraderMissesNothing ==
    \A c \in Traders : conn[c] = "live" =>
        \A e \in Passed(c) : e \in lost \/ Carried(e, sent[c])

(* A screen that has read all there is shows the newest state of every key *)
(* the server still holds, also after a gap and when its snapshot is newer *)
(* than frames it reads later.                                             *)
CaughtUpIsCurrent ==
    \A c \in Screens : (conn[c] = "live" /\ next[c] = Published + 1) =>
        \A k \in Kept : shows[c][k] = latest[k]

(* One of the last MaxAlerts alerts.                                       *)
IsAlert(i) == frames[i].class = "alert"
Recent(i) == /\ IsAlert(i)
             /\ Cardinality({j \in 1..Published : IsAlert(j) /\ j > i}) < MaxAlerts

(* However much unconfirmed ignition is broadcast, a live screen has been  *)
(* sent the last MaxAlerts alerts, will read them, or was told of the gap. *)
AlertsSurviveChatter ==
    \A c \in Screens : conn[c] = "live" =>
        \A i \in 1..Published : Recent(i) => i \in sent[c] \cup told[c] \/ i >= next[c]
=============================================================================
