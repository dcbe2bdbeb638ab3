--------------------------- MODULE ObservationRun ---------------------------
(***************************************************************************)
(* One run of the consumer-received observation: the Observer of           *)
(* observation.rs on the consumer's thread, the bounded queue and the      *)
(* rotating writer of observation_writer.rs behind it, the closing thread  *)
(* a rollover hands the run to, and the verdict the offline certifier      *)
(* reaches from the files, at any moment.                                  *)
(*                                                                         *)
(* A record has length one.  A candidate is a lifecycle of the engine;     *)
(* whether freshness and confirmations would make it eligible is an input. *)
(* An open file is never evidence, so what of it reached the disk is not   *)
(* kept; a file closed but not durably may yet lose its terminal record.   *)
(***************************************************************************)
EXTENDS Integers, Sequences, FiniteSets, SequencesExt

CONSTANTS
    Lifecycles,     \* lifecycles of the engine
    QueueRecords,   \* queue_capacity
    RotateLines,    \* rotate_bytes
    CaptureBudget,  \* capture_max_bytes
    MaxHooks,       \* bound: receipts, lags, windows and mishaps together
    MaxLags,        \* bound: lags
    MaxMishaps,     \* bound: drops, timeouts, failing calls, an overrun, a crash
    None

VARIABLES
    open, unopened,     \* the engine's lifecycles
    missed,     \* history: those that lost an event, or began before the run
    obs,        \* the Observer
    outbox,     \* what the handler under way has still to emit
    phase,      \* where the run is: "run", then the steps of on_finish
    refused,    \* was failed_writes counted?
    queue, count,       \* the channel and its Metrics
    writer,     \* the writer thread
    files, marker,      \* the run directory; is there a .close-failed in it?
    said,       \* history: every record the observer emitted
    mishaps

engine == <<open, unopened, missed>>
sink == <<queue, count>>
disk == <<files, marker>>
vars == <<engine, obs, outbox, phase, refused, sink, writer, disk, said, mishaps>>

Start == [kind |-> "start"]
Receipt(n) == [kind |-> "receipt", n |-> n]
LagRecord == [kind |-> "lag"]
WindowBegin(w, rows) == [kind |-> "begin", w |-> w, rows |-> rows]
Candidate(w, c) == [kind |-> "row", w |-> w, row |-> c]
WindowClose(w, rows, invalid) ==
    [kind |-> "close", w |-> w, entries |-> Cardinality(rows), invalid |-> invalid]
Stopped == [kind |-> "stopped"]
End == [kind |-> "end", count |-> count, stopped |-> obs.stopped]
FileStart(i) == [kind |-> "file", n |-> i]
Drain == [kind |-> "drain"]
Stop == [kind |-> "stop"]
Exempt == {"stopped", "end"}

\* term: the file its terminal record names next, 0 for none; None while open.
NewFile(lines) == [lines |-> lines, term |-> None, synced |-> FALSE, sealed |-> FALSE]

Mishaps(n) == mishaps + n <= MaxMishaps /\ mishaps' = mishaps + n
Mishap == Mishaps(1)

\* start_run: the run begins with some lifecycles open.
Init ==
    /\ open \in SUBSET Lifecycles /\ unopened = Lifecycles \ open /\ missed = open
    /\ obs = [seq |-> 0, windows |-> 0, lags |-> 0, pending |-> FALSE, tainted |-> {},
              known |-> {}, older |-> open, stopped |-> FALSE, bytes |-> 1]
    /\ outbox = <<>> /\ phase = "run" /\ refused = FALSE
    /\ queue = <<Start>>
    /\ count = [attempted |-> 1, written |-> 0, dropped |-> 0, errors |-> 0]
    /\ writer = [pc |-> "idle", held |-> None, next |-> 0, failed |-> FALSE,
                 handle |-> TRUE, result |-> None]
    /\ files = <<NewFile(<<>>)>> /\ marker = FALSE
    /\ said = <<Start>> /\ mishaps = 0

-----------------------------------------------------------------------------
(* The consumer's thread: between two of the observer's hooks its engine   *)
(* opens and closes lifecycles, which only a later hook can show.          *)
AtRest == phase = "run" /\ outbox = <<>>
Hook ==
    /\ AtRest /\ ~obs.stopped
    /\ obs.seq + obs.lags + obs.windows + mishaps < MaxHooks

OpenLifecycle(id) ==
    /\ Hook /\ id \in unopened
    /\ open' = open \cup {id} /\ unopened' = unopened \ {id}
    /\ UNCHANGED <<missed, obs, outbox, phase, refused, sink, writer, disk, said, mishaps>>

CloseLifecycle(id) ==
    /\ Hook /\ id \in open /\ open' = open \ {id}
    /\ UNCHANGED <<unopened, missed, obs, outbox, phase, refused, sink, writer, disk, said, mishaps>>

(* The hooks: each prepares the records it has to emit.                    *)
Receive ==
    /\ Hook
    /\ obs' = [obs EXCEPT !.seq = @ + 1]
    /\ outbox' = <<Receipt(obs.seq + 1)>>
    /\ UNCHANGED <<engine, phase, refused, sink, writer, disk, said, mishaps>>

Lag ==
    /\ Hook /\ obs.lags < MaxLags
    /\ obs' = [obs EXCEPT !.lags = @ + 1, !.pending = TRUE, !.tainted = @ \cup obs.known]
    /\ outbox' = <<LagRecord>>
    /\ missed' = missed \cup open
    /\ UNCHANGED <<open, unopened, phase, refused, sink, writer, disk, said, mishaps>>

\* A pending lag taints all that is open now; taint lasts while it is open.
TaintedBefore == obs.tainted \cap open                              \* mutant
Tainted == IF obs.pending THEN open ELSE obs.tainted \cap open

\* window_inner: one row for every open lifecycle, eligible only in a window
\* no lag has touched, and only if it was opened during the run.
Window ==
    /\ Hook
    /\ LET w == obs.windows + 1
           invalid == obs.pending \/ open \cap obs.tainted # {}
       IN  \E fit \in SUBSET (open \ obs.older) :
               LET rows == {[id |-> id, eligible |-> id \in fit /\ ~invalid,
                             saw |-> id \notin missed] : id \in open}
                   order == SetToSeq(rows)
               IN  outbox' = <<WindowBegin(w, rows)>>
                             \o [n \in DOMAIN order |-> Candidate(w, order[n])]
                             \o <<WindowClose(w, rows, invalid)>>
    /\ obs' = [obs EXCEPT !.windows = @ + 1, !.pending = FALSE,
                          !.tainted = Tainted, !.known = open]
    /\ UNCHANGED <<engine, phase, refused, sink, writer, disk, said, mishaps>>

\* write_serialized_owned: queued, or counted as dropped at once.
Room == Len(queue) < QueueRecords
Offer(r, extra) ==
    /\ said' = Append(said, r)
    /\ count' = [count EXCEPT !.attempted = @ + 1, !.dropped = IF Room THEN @ ELSE @ + 1]
    /\ queue' = IF Room THEN Append(queue, r) ELSE queue
    /\ refused' = (refused \/ ~Room)
    /\ Mishaps(extra + (IF Room THEN 0 ELSE 1))

\* emit, and after a receipt or a window what its hook cost (charge): a record
\* that would cross the budget, or a cost past its limit, stops observation.
Emit ==
    /\ phase = "run" /\ outbox # <<>>
    /\ LET r == Head(outbox)
       IN  IF r.kind \notin Exempt /\ obs.bytes >= CaptureBudget
           THEN /\ obs' = [obs EXCEPT !.stopped = TRUE] /\ outbox' = <<Stopped>>
                /\ UNCHANGED <<sink, refused, said, mishaps>>
           ELSE \E costly \in BOOLEAN :
                /\ costly => r.kind \in {"receipt", "close"}
                /\ Offer(r, IF costly THEN 1 ELSE 0)
                /\ obs' = [obs EXCEPT !.bytes = @ + 1, !.stopped = @ \/ costly]
                /\ outbox' = IF costly THEN <<Stopped>> ELSE Tail(outbox)
    /\ UNCHANGED <<engine, phase, writer, disk>>

-----------------------------------------------------------------------------
(* on_finish, on the thread that closes the run after a rollover.          *)
Goes(from, to) == phase = from /\ phase' = to

Ends(first) ==
    /\ AtRest /\ phase' = first
    /\ UNCHANGED <<engine, obs, outbox, refused, sink, writer, disk, said, mishaps>>
RollUndrained == Ends("end")                                        \* mutant
Roll == Ends("drain")

\* drain_for, first by itself and then as the start of the sink's close.
SendDrain ==
    /\ Goes("drain", "draining") \/ Goes("redrain", "redraining")
    /\ Room /\ queue' = Append(queue, Drain)
    /\ UNCHANGED <<engine, obs, outbox, refused, count, writer, disk, said, mishaps>>

Drained ==
    /\ Goes("draining", "end") \/ Goes("redraining", "close")
    /\ Drain \notin Range(queue)
    /\ UNCHANGED <<engine, obs, outbox, refused, sink, writer, disk, said, mishaps>>

\* No room in time, or no answer: after the first drain on_finish goes on, and
\* a close without an answer in time still waits for the thread to end.
GivesUp ==
    /\ \/ Goes("drain", "end") \/ Goes("draining", "end")
       \/ phase \in {"redrain", "redraining", "close"} /\ phase' = "done"
       \/ Goes("closing", "done") /\ writer.result # None
    /\ Mishap /\ refused' = TRUE
    /\ UNCHANGED <<engine, obs, outbox, sink, writer, disk, said>>

\* run_end carries the counters as they are now.
EmitEnd ==
    /\ Goes("end", "redrain")
    /\ obs' = [obs EXCEPT !.bytes = @ + 1]
    /\ Offer(End, 0)
    /\ UNCHANGED <<engine, outbox, writer, disk>>

SendStop ==
    /\ Goes("close", "closing") /\ Room
    /\ queue' = Append(queue, Stop)
    /\ UNCHANGED <<engine, obs, outbox, refused, count, writer, disk, said, mishaps>>

Closed ==
    /\ Goes("closing", "done") /\ writer.result # None
    /\ refused' = (refused \/ writer.result = "error")
    /\ UNCHANGED <<engine, obs, outbox, sink, writer, disk, said, mishaps>>

-----------------------------------------------------------------------------
(* The writer thread.                                                      *)
observer == <<engine, obs, outbox, phase, refused, said>>
Current == Len(files)
Holds(r) == files' = [files EXCEPT ![Current].lines = Append(@, r)]
Counts(field) == count' = [count EXCEPT ![field] = @ + 1]
Full == LET f == files[Current].lines IN f # <<>> /\ Len(f) >= RotateLines

Takes(r) == writer.pc = "idle" /\ queue # <<>> /\ Head(queue) = r /\ queue' = Tail(queue)
Line == queue # <<>> /\ Head(queue).kind \notin {"drain", "stop"}

AnswerDrain ==
    /\ Takes(Drain)
    /\ UNCHANGED <<observer, count, writer, disk, mishaps>>

\* write_line; every line is an error once a rotation has failed.  A line that is
\* torn rather than lost would only make the reader refuse its file sooner.
WriteLine ==
    /\ Line /\ Takes(Head(queue)) /\ (writer.failed \/ ~Full)
    /\ \/ ~writer.failed /\ Holds(Head(queue)) /\ Counts("written") /\ UNCHANGED mishaps
       \/ writer.failed /\ Counts("errors") /\ UNCHANGED <<files, mishaps>>
       \/ ~writer.failed /\ Mishap /\ Counts("errors") /\ UNCHANGED files
    /\ UNCHANGED <<observer, writer, marker>>

Rotate ==
    /\ Line /\ Takes(Head(queue)) /\ ~writer.failed /\ Full
    /\ writer' = [writer EXCEPT !.pc = "data", !.held = Head(queue), !.next = Current]
    /\ UNCHANGED <<observer, count, disk, mishaps>>

TakeStop ==
    /\ Takes(Stop)
    /\ writer' = [writer EXCEPT !.pc = "data", !.next = 0]
    /\ UNCHANGED <<observer, count, disk, mishaps>>

(* close_durably: the data is made durable, then the terminal record is    *)
(* written, then that is made durable.                                     *)
SyncData ==
    /\ writer.pc = "data" /\ writer.handle
    /\ files' = [files EXCEPT ![Current].synced = TRUE]
    /\ writer' = [writer EXCEPT !.pc = "terminal"]
    /\ UNCHANGED <<observer, sink, marker, mishaps>>

ShowTerminal ==
    /\ writer.pc = "terminal"
    /\ files' = [files EXCEPT ![Current].term = writer.next]
    /\ writer' = [writer EXCEPT !.pc = "seal"]
    /\ UNCHANGED <<observer, sink, marker, mishaps>>

SealTerminal ==
    /\ writer.pc = "seal"
    /\ files' = [files EXCEPT ![Current].sealed = TRUE]
    /\ writer' = IF writer.next = 0
                 THEN [writer EXCEPT !.pc = "gone", !.handle = FALSE, !.result = "ok"]
                 ELSE [writer EXCEPT !.pc = "create", !.handle = FALSE]
    /\ UNCHANGED <<observer, sink, marker, mishaps>>

Starts(lines) ==
    /\ files' = Append(files, NewFile(<<FileStart(Current)>> \o lines))
    /\ writer' = [writer EXCEPT !.pc = "idle", !.held = None, !.handle = TRUE]

CreateNext ==
    /\ writer.pc = "create" /\ Starts(<<writer.held>>) /\ Counts("written")
    /\ UNCHANGED <<observer, queue, marker, mishaps>>

\* A rotation that fails condemns its line and every later one; a close that
\* fails is answered with the error.
Abandons(handle) ==
    IF writer.next = 0
    THEN /\ writer' = [writer EXCEPT !.pc = "gone", !.handle = handle, !.result = "error"]
         /\ UNCHANGED count
    ELSE /\ writer' = [writer EXCEPT !.pc = "idle", !.held = None, !.handle = handle,
                                     !.failed = TRUE]
         /\ Counts("errors")

\* A rotation that failed before may have left no handle to sync.
SyncFails ==
    /\ writer.pc = "data" /\ Abandons(writer.handle)
    /\ IF writer.handle THEN Mishap ELSE UNCHANGED mishaps
    /\ UNCHANGED <<observer, queue, disk>>

\* It never reached the file, is cut off again, a marker is left, or none of it.
TerminalFails ==
    /\ writer.pc = "seal" /\ Mishap /\ Abandons(FALSE)
    /\ \/ files' = [files EXCEPT ![Current].term = None] /\ UNCHANGED marker
       \/ UNCHANGED files /\ marker' \in {marker, TRUE}
    /\ UNCHANGED <<observer, queue>>

\* No file, one that is empty, or one without the line that it was made for.
CreateFails ==
    /\ writer.pc = "create" /\ Mishap
    /\ \/ Abandons(FALSE) /\ files' \in {files, Append(files, NewFile(<<>>))}
       \/ Starts(<<>>) /\ Counts("errors")
    /\ UNCHANGED <<observer, queue, marker>>

-----------------------------------------------------------------------------
(* The machine dies: what no sync has made durable may be gone with it.    *)
Lost(f) == [f EXCEPT !.term = IF f.sealed THEN @ ELSE None]

Crash ==
    /\ phase # "dead" /\ Mishap
    /\ phase' = IF phase = "done" THEN "done" ELSE "dead"
    /\ queue' = <<>> /\ outbox' = <<>>
    /\ writer' = [writer EXCEPT !.pc = "gone", !.handle = FALSE]
    /\ files' \in {files, Append(Front(files), Lost(files[Current]))}
                  \cup (IF files[Current].synced THEN {} ELSE {Front(files)})
    /\ marker' \in {FALSE, marker}
    /\ UNCHANGED <<engine, obs, refused, count, said>>

\* A run that is over stays as it is.
Over == phase \in {"done", "dead"} /\ UNCHANGED vars

Next ==
    \/ \E id \in Lifecycles : OpenLifecycle(id) \/ CloseLifecycle(id)
    \/ Receive \/ Lag \/ Window \/ Emit
    \/ Roll \/ SendDrain \/ Drained \/ GivesUp \/ EmitEnd \/ SendStop \/ Closed
    \/ AnswerDrain \/ WriteLine \/ Rotate \/ TakeStop
    \/ SyncData \/ ShowTerminal \/ SealTerminal \/ CreateNext
    \/ SyncFails \/ TerminalFails \/ CreateFails \/ Crash \/ Over

Spec == Init /\ [][Next]_vars

-----------------------------------------------------------------------------
(* The certifier, over the files as they are.                              *)
disclosed == FlattenSeq([i \in DOMAIN files |-> files[i].lines])
records == SelectSeq(disclosed, LAMBDA r : r.kind # "file")
Of(kind) == {i \in DOMAIN records : records[i].kind = kind}
The(kind) == records[CHOOSE i \in Of(kind) : TRUE]

\* acquire, read_file and verify_rotation_chain.
Chained ==
    /\ ~marker /\ files # <<>>
    /\ \A i \in DOMAIN files :
        /\ files[i].term = IF i = Len(files) THEN 0 ELSE i
        /\ i > 1 => files[i].lines[1] = FileStart(i - 1)
    /\ \E i \in DOMAIN files[1].lines : files[1].lines[i].kind = "start"

\* authenticate: one run, its receipts without a gap.
Authentic ==
    /\ Chained
    /\ Cardinality(Of("start")) = 1 /\ Cardinality(Of("end")) = 1
    /\ {records[i].n : i \in Of("receipt")} = 1..Cardinality(Of("receipt"))

Lossless ==
    LET c == The("end").count
    IN  c.written = c.attempted /\ c.dropped = 0 /\ c.errors = 0
WentOn == Of("stopped") = {} /\ ~The("end").stopped

\* reconcile_windows and what issue asks of each window.
Claimed == {records[i].w : i \in Of("begin") \cup Of("row") \cup Of("close")}
Reconciled(w) ==
    LET at(kind) == {i \in Of(kind) : records[i].w = w}
        rows == {records[i].row : i \in at("row")}
    IN  /\ Cardinality(at("begin")) = 1 /\ at("close") # {}
        /\ Cardinality(at("row")) = Cardinality(rows)
        /\ \A i \in at("begin") : records[i].rows = rows
        /\ \A i \in at("close") :
            /\ records[i].entries = Cardinality(rows)
            /\ records[i].invalid => \A r \in rows : ~r.eligible
LagsApplied ==
    \A i \in Of("lag"), j \in Of("close") :
        (i < j /\ \A k \in Of("close") : i < k => j <= k) => records[j].invalid

Passes ==
    /\ Authentic /\ Lossless /\ WentOn
    /\ Claimed # {} /\ \A w \in Claimed : Reconciled(w)
    /\ LagsApplied

-----------------------------------------------------------------------------
(* Properties.                                                             *)

\* The counters and the files add up: what was attempted was dropped, failed,
\* written or is on its way, and no file shows a terminal record over data
\* that is not durable.
TypeOK ==
    /\ open \cap unopened = {} /\ missed \subseteq Lifecycles
    /\ phase \in {"run", "drain", "draining", "end", "redrain", "redraining", "close",
                  "closing", "done", "dead"}
    /\ writer.pc \in {"idle", "data", "terminal", "seal", "create", "gone"}
    /\ writer.pc = "gone" \/
       count.attempted = count.written + count.dropped + count.errors
           + Cardinality({i \in DOMAIN queue : queue[i] \notin {Drain, Stop}})
           + (IF writer.held = None THEN 0 ELSE 1)
    /\ \A i \in DOMAIN files : files[i].term # None => files[i].synced

\* A run that certifies has every record it emitted in durable files, in the
\* order of emission, whatever was rotated, refused, failed or lost on the way
\* (observation_writer.rs: close_durably; observation.rs: assess).
PassIsWhole ==
    Passes => /\ records = said
              /\ \A i \in DOMAIN files : files[i].synced

\* A row that counts as eligible in a certified run is of a lifecycle whose
\* every event the consumer was given: none lost to a lag or before the run
\* (window_inner: source_lag_invalid, left-censored).
EligibleSawAll ==
    Passes => \A i \in Of("row") : records[i].row.eligible => records[i].row.saw

\* A run that ended with nothing refused, stopped or failed, over at least one
\* window, certifies: no interleaving of rotation, drains and close spoils it,
\* and no crash afterwards either (finish_inner, AsyncSink::close).
QuietRunPasses ==
    (phase = "done" /\ ~refused /\ count.errors = 0 /\ ~obs.stopped /\ obs.windows > 0)
        => Passes
=============================================================================
