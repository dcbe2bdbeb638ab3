--------------------------- MODULE SessionCapture ---------------------------
(***************************************************************************)
(* The Opportunity-Intelligence capture of src/crates/ws-server: one task   *)
(* (opportunity_shadow.rs) ranks and offers rows, never blocking, to a      *)
(* bounded queue; one thread (research_writer.rs) drains it in batches to   *)
(* buffered daily files and, at each session's barrier, writes a marker     *)
(* with the session's accounts; and an offline reader                       *)
(* (observation_oi_extract.rs) certifies a session from the files alone.    *)
(*                                                                          *)
(* A line is one unit of length; a hash is the sequence of lines hashed.    *)
(* Disk errors, process crashes and power losses are the environment.       *)
(***************************************************************************)
EXTENDS Integers, Sequences, FiniteSets, SequencesExt, FiniteSetsExt

CONSTANTS
    MaxSession,     \* bound: Step-4 sessions, in order
    MaxRows,        \* bound: rows offered
    QueueRecords,   \* Bounds::records, the capacity of the channel
    QueueBytes,     \* Bounds::bytes, in lines
    Batch,          \* BATCH
    MaxFaults,      \* bound: disk errors, crashes, clock steps
    ClockSteps,     \* may the wall clock step back over a session boundary?
    None

ASSUME BoundsAssumption ==
    /\ MaxSession \in Nat \ {0} /\ MaxRows \in Nat
    /\ QueueRecords \in Nat \ {0} /\ QueueBytes \in Nat \ {0} /\ Batch \in Nat \ {0}
    /\ MaxFaults \in Nat /\ ClockSteps \in BOOLEAN

Sessions   == 1..MaxSession

ASSUME NoneAssumption ==          \* None is no account of a session
    None \notin [session : Sessions, scored : Nat,
                 start : {"mid_session", "session_boundary", "before_session"}]

FilesOf(s) == {s, s + 1}          \* a session straddles two UTC dates
DataFiles  == 1..(MaxSession + 1)
MarkerFile == 0
Files      == {MarkerFile} \cup DataFiles

VARIABLES
    now,        \* the session the wall clock is in
    begun,      \* the session of the process's first input
    closedOne,  \* has the process closed a session?
    account,    \* OiSessionAccount of the open session
    prod,       \* the producer: its step, and the row in hand
    chan,       \* the channel
    reserved,   \* queue_depth (and queued_bytes)
    health,     \* WriterHealth: attempted, written, dropped, write_errors
    unreported, \* loss_unreported
    tally,      \* SessionTally of each session
    closed,     \* closed_sessions
    pending,    \* pending_barriers
    writer,     \* the writer thread: its step, batch, touched paths, barrier
    opened,     \* paths with a handle
    poisoned,   \* paths where a write failed
    ranges,     \* the open ranges of each session, by data file
    file,       \* each file: its buffer, its content, how much is synced
    emitted,    \* history: the rows offered, by whichever process
    unmarked,   \* history: sessions whose marker was reported not durable
    faults

clock  == <<now, begun, closedOne, account>>
queue  == <<chan, reserved, unreported, closed, pending>>
thread == <<writer, opened, poisoned, ranges, file>>
vars   == <<now, begun, closedOne, account, prod, chan, reserved, health, unreported,
            tally, closed, pending, writer, opened, poisoned, ranges, file,
            emitted, unmarked, faults>>

-----------------------------------------------------------------------------
ZeroTally == [attempted |-> 0, written |-> 0, dropped |-> 0, errors |-> 0,
              spans |-> 0, flushErrors |-> 0, late |-> 0, inLoss |-> FALSE]
ZeroHealth == [attempted |-> 0, written |-> 0, dropped |-> 0, errors |-> 0]
NoRange == [start |-> 0, end |-> 0, rows |-> 0, hash |-> <<>>, atEnd |-> <<>>]
Resting == [pc |-> "recv", batch |-> <<>>, touched |-> {}, wrote |-> 0, close |-> None]
Ready   == [pc |-> "idle", row |-> None]

Row(s, n)    == [kind |-> "row", session |-> s, n |-> n]
Late(s)      == [kind |-> "late", session |-> s]
Loss(lost)   == [kind |-> "loss", lost |-> lost]
Line(f, l, s) == [msg |-> "line", file |-> f, line |-> l, session |-> s]

Fresh ==
    /\ begun' = None /\ closedOne' = FALSE /\ account' = None
    /\ prod' = Ready /\ chan' = <<>> /\ reserved' = 0 /\ unreported' = 0
    /\ health' = ZeroHealth
    /\ tally' = [s \in Sessions |-> ZeroTally]
    /\ closed' = {} /\ pending' = <<>>
    /\ writer' = Resting /\ opened' = {} /\ poisoned' = {}
    /\ ranges' = [s \in Sessions |-> [f \in DataFiles |-> NoRange]]

Init ==
    /\ now = 1 /\ begun = None /\ closedOne = FALSE /\ account = None
    /\ prod = Ready /\ chan = <<>> /\ reserved = 0 /\ unreported = 0
    /\ health = ZeroHealth
    /\ tally = [s \in Sessions |-> ZeroTally]
    /\ closed = {} /\ pending = <<>>
    /\ writer = Resting /\ opened = {} /\ poisoned = {}
    /\ ranges = [s \in Sessions |-> [f \in DataFiles |-> NoRange]]
    /\ file = [f \in Files |-> [buf |-> <<>>, disk |-> <<>>, synced |-> 0]]
    /\ emitted = {} /\ unmarked = {} /\ faults = 0

Fault == faults < MaxFaults /\ faults' = faults + 1

-----------------------------------------------------------------------------
(* The producer's calls, each on the queue state q.                        *)

Q == [chan |-> chan, reserved |-> reserved, unreported |-> unreported,
      closed |-> closed, pending |-> pending]
Queue(q) == /\ chan' = q.chan /\ reserved' = q.reserved /\ unreported' = q.unreported
            /\ closed' = q.closed /\ pending' = q.pending

RoomForOneMore(q) == Len(q.chan) <= QueueRecords                 \* mutant
Room(q) == Len(q.chan) < QueueRecords

(* try_send of a marker line: a refusal only loses the description.        *)
Offer(q, line) ==
    IF q.reserved + 1 <= QueueBytes /\ Room(q)
    THEN [q EXCEPT !.chan = Append(@, Line(MarkerFile, line, None)), !.reserved = @ + 1]
    ELSE q

(* describe_any_loss_span: what could not be sent stays pending.           *)
Describe(q) ==
    IF q.unreported > 0 /\ q.reserved + 1 <= QueueBytes /\ Room(q)
    THEN [Offer(q, Loss(q.unreported)) EXCEPT !.unreported = 0]
    ELSE q

(* send_pending_barriers: oldest first, as many as there is room for.      *)
Sendable(q) == Min({Len(q.pending), QueueRecords - Len(q.chan)})
TryEachOnce(q) ==                                                \* mutant
    [q EXCEPT !.chan = @ \o SubSeq(q.pending, 1, Sendable(q)), !.pending = <<>>]
SendPending(q) ==
    [q EXCEPT !.chan = @ \o SubSeq(q.pending, 1, Sendable(q)),
              !.pending = SubSeq(@, Sendable(q) + 1, Len(@))]

(* close_session.                                                          *)
CloseSession(q, s, barrier) ==
    LET d == Describe([q EXCEPT !.closed = @ \cup {s}])
    IN  SendPending([d EXCEPT !.pending = Append(@, barrier)])

Barrier(how) ==
    [msg |-> "close", session |-> account.session, by |-> how,
     start |-> account.start, scored |-> account.scored]

(* roll_oi_session at an input of session d: same session, a clock step    *)
(* back, or the session boundary.                                          *)
StartForgetsRestart(d) == "session_boundary"                     \* mutant
AccountingStart(d) ==
    IF begun = None \/ begun >= d THEN "mid_session"
    ELSE IF closedOne \/ account # None THEN "session_boundary"
    ELSE "before_session"
Account(d) == [session |-> d, scored |-> 0, start |-> AccountingStart(d)]
Stays(d) == account # None /\ account.session >= d
Rolled(d) ==
    LET q == SendPending(Q)
    IN  IF Stays(d) \/ account = None THEN q
        ELSE CloseSession(q, account.session, Barrier("session_boundary"))
Roll(d) ==
    /\ begun' = IF begun = None THEN d ELSE begun
    /\ closedOne' = (closedOne \/ (account # None /\ ~Stays(d)))

(***************************************************************************)
(* The producer task.                                                       *)
(***************************************************************************)

(* observe_tick.                                                           *)
Tick ==
    /\ prod.pc = "idle"
    /\ Roll(now) /\ Queue(Rolled(now))
    /\ account' = IF Stays(now) THEN account ELSE Account(now)
    /\ UNCHANGED <<now, prod, health, tally, thread, emitted, unmarked, faults>>

(* observe, and record_in_session of one row it ranks, up to the offer.    *)
Record(f) ==
    LET q == SendPending(Rolled(now))
        a == IF Stays(now) THEN account ELSE Account(now)
        late == now \in q.closed
        n == Cardinality(emitted) + 1
        t == [tally[now] EXCEPT !.attempted = @ + 1, !.late = @ + (IF late THEN 1 ELSE 0)]
    IN  /\ prod.pc = "idle"
        /\ n <= MaxRows /\ f \in FilesOf(now)
        /\ Roll(now)
        /\ account' = [a EXCEPT !.scored = @ + 1]
        /\ Queue(IF late THEN Offer(q, Late(now)) ELSE q)
        /\ prod' = [pc |-> "reserve", row |-> Line(f, Row(now, n), now)]
        /\ emitted' = emitted \cup {Row(now, n)}
        /\ health' = [health EXCEPT !.attempted = @ + 1]
        /\ tally' = [tally EXCEPT ![now] = t]
        /\ UNCHANGED <<now, thread, unmarked, faults>>

(* count_drop and session_drop.                                            *)
DropUntallied(s) == tally                                        \* mutant
SessionDrop(s) ==
    [tally EXCEPT ![s].dropped = @ + 1, ![s].inLoss = TRUE,
                  ![s].spans = @ + (IF tally[s].inLoss THEN 0 ELSE 1)]
Drop ==
    /\ prod' = Ready
    /\ unreported' = unreported + 1
    /\ health' = [health EXCEPT !.dropped = @ + 1]
    /\ tally' = SessionDrop(prod.row.session)

ReserveNothing(n) == reserved' = reserved                        \* mutant
ReserveBytes(n)   == reserved' = reserved + n
Reserve ==
    /\ prod.pc = "reserve"
    /\ IF reserved + 1 > QueueBytes
       THEN Drop /\ UNCHANGED reserved
       ELSE /\ ReserveBytes(1)
            /\ prod' = [prod EXCEPT !.pc = "send"]
            /\ UNCHANGED <<health, unreported, tally>>
    /\ UNCHANGED <<clock, chan, closed, pending, thread, emitted, unmarked, faults>>

Send ==
    /\ prod.pc = "send"
    /\ IF Room(Q)
       THEN /\ chan' = Append(chan, prod.row)
            /\ prod' = [prod EXCEPT !.pc = "sent"]
            /\ UNCHANGED <<reserved, health, unreported, tally>>
       ELSE Drop /\ reserved' = reserved - 1 /\ UNCHANGED chan
    /\ UNCHANGED <<clock, closed, pending, thread, emitted, unmarked, faults>>

Sent ==
    /\ prod.pc = "sent"
    /\ prod' = Ready
    /\ tally' = [tally EXCEPT ![prod.row.session].inLoss = FALSE]
    /\ Queue(Describe(Q))
    /\ UNCHANGED <<clock, health, thread, emitted, unmarked, faults>>

(* finish: the open session closes as process_exit; flush describes the    *)
(* loss, sends what was deferred blocking, and waits 5 s at most.          *)
Finish ==
    /\ prod.pc = "idle" /\ account # None /\ Fault
    /\ Queue(Describe(CloseSession(Q, account.session, Barrier("process_exit"))))
    /\ account' = None /\ closedOne' = TRUE
    /\ prod' = [Ready EXCEPT !.pc = "exit"]
    /\ UNCHANGED <<now, begun, health, tally, thread, emitted, unmarked>>

SendDeferred ==
    /\ prod.pc = "exit" /\ pending # <<>> /\ Room(Q)
    /\ chan' = Append(chan, Head(pending)) /\ pending' = Tail(pending)
    /\ UNCHANGED <<clock, prod, reserved, health, unreported, tally, closed, thread,
                   emitted, unmarked, faults>>

(***************************************************************************)
(* The writer thread.                                                       *)
(***************************************************************************)
producer == <<clock, prod, unreported, closed, pending, emitted>>
Message == Head(writer.batch)
Consumed == [writer EXCEPT !.batch = Tail(@)]
ErrorOnlyOnce == health' = [health EXCEPT !.errors = 1]            \* mutant
WriteError == health' = [health EXCEPT !.errors = @ + 1]

(* recv, then try_recv until the queue is empty or the batch is full.      *)
Receive ==
    LET k == Min({Batch, Len(chan)})
    IN  /\ writer.pc = "recv" /\ chan # <<>>
        /\ writer' = [writer EXCEPT !.pc = "msgs", !.batch = SubSeq(chan, 1, k)]
        /\ chan' = SubSeq(chan, k + 1, Len(chan))
        /\ UNCHANGED <<producer, reserved, health, tally, opened, poisoned, ranges,
                       file, unmarked, faults>>

(* BufWriter: n buffered lines reach the file.                             *)
Flush(f, n) == [f EXCEPT !.disk = @ \o SubSeq(f.buf, 1, n),
                         !.buf = SubSeq(@, n + 1, Len(@))]
FlushAll(f) == Flush(f, Len(f.buf))

(* A row written at offset `start`: every open range of the file hashes    *)
(* it, and its session's range ends with it.                               *)
RangeAfter(r, l, own, start) ==
    LET h == [r EXCEPT !.hash = IF r.rows > 0 THEN Append(@, l) ELSE <<l>>]
    IN  IF own THEN [h EXCEPT !.start = IF r.rows > 0 THEN @ ELSE start,
                              !.end = start + 1, !.rows = @ + 1, !.atEnd = h.hash]
        ELSE IF r.rows > 0 THEN h ELSE r

StartMessage(f) ==
    /\ writer.pc = "msgs" /\ writer.batch # <<>> /\ Message.msg = "line" /\ Message.file = f
    /\ reserved' = reserved - 1

(* write_all succeeds, into the buffer or after emptying a full one.       *)
WriteLine(f, full) ==
    LET b == IF full THEN FlushAll(file[f]) ELSE file[f]
        start == Len(file[f].disk) + Len(file[f].buf)
        data == f # MarkerFile
    IN  /\ StartMessage(f)
        /\ full => file[f].buf # <<>>
        /\ opened' = opened \cup {f}
        /\ file' = [file EXCEPT ![f] = [b EXCEPT !.buf = Append(@, Message.line)]]
        /\ writer' = [Consumed EXCEPT !.touched = @ \cup {f}, !.wrote = @ + (IF data THEN 1 ELSE 0)]
        /\ IF data
           THEN /\ ranges' = [s \in Sessions |->
                      [ranges[s] EXCEPT ![f] = RangeAfter(@, Message.line, s = Message.session, start)]]
                /\ tally' = [tally EXCEPT ![Message.session].written = @ + 1]
           ELSE UNCHANGED <<ranges, tally>>
        /\ UNCHANGED <<producer, chan, health, poisoned, unmarked, faults>>

(* The file cannot be opened, or emptying its buffer fails part-way: the   *)
(* line is lost, and after a failed write the offsets are not trusted.     *)
LineFails(f, n) ==
    /\ StartMessage(f)
    /\ IF f \in opened
       THEN /\ n < Len(file[f].buf)
            /\ file' = [file EXCEPT ![f] = Flush(@, n)]
            /\ poisoned' = poisoned \cup {f}
       ELSE n = 0 /\ UNCHANGED <<file, poisoned>>
    /\ Fault /\ WriteError
    /\ writer' = Consumed
    /\ tally' = IF f = MarkerFile THEN tally
                ELSE [tally EXCEPT ![Message.session].errors = @ + 1]
    /\ UNCHANGED <<producer, chan, opened, ranges, unmarked>>

(* session_barrier: every buffer is flushed and every file with rows of    *)
(* the session synced, then the session's ranges and tally are taken.      *)
AtMostOne(S) == {{}} \cup {{x} : x \in S}
BadFlushes == AtMostOne({f \in opened : file[f].buf # <<>>})
RangeFiles(s) == {f \in DataFiles : ranges[s][f].rows > 0}
SyncNothing(s) == {}                                             \* mutant
SyncedFiles(s) == RangeFiles(s)
HashAtBarrier(r) == r.hash                                       \* mutant
RangeHash(r)     == r.atEnd
CloseRanges(s) ==
    [f \in DataFiles |-> [ranges[s][f] EXCEPT !.hash = RangeHash(ranges[s][f]), !.atEnd = <<>>]]
SessionBarrier(bad, unsynced) ==
    LET s == Message.session
        flushed(f) == IF f \in opened /\ f \notin bad THEN FlushAll(file[f]) ELSE file[f]
        synced(f) == IF f \in SyncedFiles(s) \ unsynced
                     THEN [flushed(f) EXCEPT !.synced = Len(flushed(f).disk)]
                     ELSE flushed(f)
    IN  /\ writer.pc = "msgs" /\ writer.batch # <<>> /\ Message.msg = "close"
        /\ unsynced \subseteq RangeFiles(s)
        /\ bad = {} \/ unsynced = {}
        /\ IF bad \cup unsynced = {} THEN UNCHANGED faults ELSE Fault
        /\ file' = [f \in Files |-> synced(f)]
        /\ ranges' = [ranges EXCEPT ![s] = [f \in DataFiles |-> NoRange]]
        /\ tally' = [tally EXCEPT ![s] = ZeroTally]
        /\ writer' = [Consumed EXCEPT !.pc = "marker", !.close =
               [kind |-> "session", session |-> s, by |-> Message.by, start |-> Message.start,
                scored |-> Message.scored, tally |-> tally[s], ranges |-> CloseRanges(s),
                flushed |-> bad = {}, synced |-> unsynced = {},
                exact |-> RangeFiles(s) \cap poisoned = {}]]
        /\ UNCHANGED <<producer, chan, reserved, health, opened, poisoned, unmarked>>

CloseDone == [writer EXCEPT !.pc = "msgs", !.close = None]
MarkerLost == unmarked' = unmarked \cup {writer.close.session} /\ WriteError

WriteMarker ==
    /\ writer.pc = "marker"
    /\ opened' = opened \cup {MarkerFile}
    /\ file' = [file EXCEPT ![MarkerFile] =
                    FlushAll([file[MarkerFile] EXCEPT !.buf = Append(@, writer.close)])]
    /\ writer' = [writer EXCEPT !.pc = "sync"]
    /\ UNCHANGED <<producer, chan, reserved, health, tally, poisoned, ranges, unmarked, faults>>

(* No handle, or a failed write: nothing of the marker is left; after a    *)
(* failed flush it stays in the buffer.                                    *)
MarkerFails(kept) ==
    /\ writer.pc = "marker"
    /\ kept \/ MarkerFile \notin opened \/ file[MarkerFile].buf # <<>>
    /\ Fault /\ MarkerLost
    /\ opened' = IF kept THEN opened \cup {MarkerFile} ELSE opened
    /\ file' = IF kept THEN [file EXCEPT ![MarkerFile].buf = Append(@, writer.close)] ELSE file
    /\ writer' = CloseDone
    /\ UNCHANGED <<producer, chan, reserved, tally, poisoned, ranges>>

SyncMarker ==
    /\ writer.pc = "sync"
    /\ file' = [file EXCEPT ![MarkerFile].synced = Len(file[MarkerFile].disk)]
    /\ writer' = CloseDone
    /\ UNCHANGED <<producer, chan, reserved, health, tally, opened, poisoned, ranges,
                   unmarked, faults>>

SyncMarkerFails ==
    /\ writer.pc = "sync"
    /\ Fault /\ MarkerLost
    /\ writer' = CloseDone
    /\ UNCHANGED <<producer, chan, reserved, tally, opened, poisoned, ranges, file>>

(* One flush per batch; a failure is charged to every session with an open *)
(* range in the file.                                                      *)
ChargeFlush(bad) ==
    [s \in Sessions |-> [tally[s] EXCEPT !.flushErrors =
        @ + Cardinality({f \in bad \cap DataFiles : ranges[s][f].rows > 0})]]
FlushBatch(bad, n) ==
    /\ writer.pc = "msgs" /\ writer.batch = <<>>
    /\ bad \subseteq writer.touched
    /\ IF bad = {} THEN n = 0 /\ UNCHANGED faults
       ELSE Fault /\ \A f \in bad : n < Len(file[f].buf)
    /\ file' = [f \in Files |-> IF f \in bad THEN Flush(file[f], n)
                                ELSE IF f \in writer.touched THEN FlushAll(file[f])
                                ELSE file[f]]
    /\ poisoned' = poisoned \cup bad
    /\ tally' = ChargeFlush(bad)
    /\ health' = [health EXCEPT !.written = @ + writer.wrote,
                                !.errors = @ + Cardinality(bad)]
    /\ writer' = Resting
    /\ UNCHANGED <<producer, chan, reserved, opened, ranges, unmarked>>

(***************************************************************************)
(* The environment.                                                         *)
(***************************************************************************)
NextSession ==
    /\ now < MaxSession /\ now' = now + 1
    /\ UNCHANGED <<begun, closedOne, account, prod, queue, health, tally, thread,
                   emitted, unmarked, faults>>

StepBack ==
    /\ ClockSteps /\ now > 1 /\ Fault
    /\ now' = now - 1
    /\ UNCHANGED <<begun, closedOne, account, prod, queue, health, tally, thread,
                   emitted, unmarked>>

(* The process dies, or main returns after Finish: buffers are lost and a  *)
(* new process starts.                                                     *)
Restart ==
    /\ \/ Fault
       \/ prod.pc = "exit" /\ pending = <<>> /\ UNCHANGED faults
    /\ Fresh
    /\ file' = [f \in Files |-> [file[f] EXCEPT !.buf = <<>>]]
    /\ UNCHANGED <<now, emitted, unmarked>>

(* The machine loses power: of what was not synced, any prefix survives.   *)
PowerLoss(f, n) ==
    /\ Fault /\ n \in file[f].synced..(Len(file[f].disk) - 1)
    /\ Fresh
    /\ file' = [g \in Files |->
           LET d == IF g = f THEN SubSeq(file[g].disk, 1, n) ELSE file[g].disk
           IN  [buf |-> <<>>, disk |-> d, synced |-> file[g].synced]]
    /\ UNCHANGED <<now, emitted, unmarked>>

-----------------------------------------------------------------------------
Producer == Tick \/ (\E f \in DataFiles : Record(f)) \/ Reserve \/ Send \/ Sent
              \/ Finish \/ SendDeferred
HandleLine == \E f \in Files : \/ \E full \in BOOLEAN : WriteLine(f, full)
                               \/ \E n \in 0..Len(file[f].buf) : LineFails(f, n)
HandleClose ==
    \/ \E bad \in BadFlushes, unsynced \in AtMostOne(DataFiles) : SessionBarrier(bad, unsynced)
    \/ WriteMarker \/ (\E kept \in BOOLEAN : MarkerFails(kept))
    \/ SyncMarker \/ SyncMarkerFails
EndBatch == \E bad \in BadFlushes, n \in 0..MaxRows : FlushBatch(bad, n)
Writer == Receive \/ HandleLine \/ HandleClose \/ EndBatch
World == NextSession \/ StepBack \/ Restart
           \/ \E f \in Files : \E n \in 0..Len(file[f].disk) : PowerLoss(f, n)

Next == Producer \/ Writer \/ World
Spec == Init /\ [][Next]_vars

-----------------------------------------------------------------------------
(* extract: what the offline reader makes of the files.                    *)

Markers == file[MarkerFile].disk
MarkersOf(s) == {i \in DOMAIN Markers : Markers[i].kind = "session" /\ Markers[i].session = s}
LateMarked(s) == Late(s) \in ToSet(Markers)

(* The checks extract makes on the marker alone.                           *)
Balances(t) == t.attempted = t.written + t.dropped + t.errors
NoLoss(t)   == t.dropped + t.errors + t.spans + t.flushErrors + t.late = 0
Clean(m) ==
    /\ m.by = "session_boundary" /\ m.start # "mid_session"
    /\ Balances(m.tally) /\ NoLoss(m.tally)
    /\ m.scored = m.tally.attempted
    /\ m.flushed /\ m.synced /\ m.exact

(* The checks it makes on the rows: each range is in its file, has the     *)
(* marker's hash and only rows of the session, as many as it says; no row  *)
(* of the session lies outside.                                            *)
RangeVerifies(r, f, s) ==
    LET d == file[f].disk
        slice == SubSeq(d, r.start + 1, r.end)
    IN  /\ r.end <= Len(d) /\ slice = r.hash
        /\ Len(slice) = r.rows
        /\ \A i \in DOMAIN slice : slice[i].session = s
RowsVerify(m) ==
    LET used == {f \in DataFiles : m.ranges[f].rows > 0}
    IN  /\ \A f \in used : RangeVerifies(m.ranges[f], f, m.session)
        /\ \A f \in DataFiles : \A i \in DOMAIN file[f].disk :
               file[f].disk[i].session = m.session =>
                   f \in used /\ i \in (m.ranges[f].start + 1)..m.ranges[f].end
        /\ m.tally.written = MapThenSumSet(LAMBDA f : m.ranges[f].rows, used)

Certifies(s) ==
    /\ Cardinality(MarkersOf(s)) = 1 /\ ~LateMarked(s)
    /\ \A i \in MarkersOf(s) : Clean(Markers[i]) /\ RowsVerify(Markers[i])

RowsOf(s)  == {r \in emitted : r.session = s}
OnDisk(s)  == {r \in UNION {ToSet(file[f].disk) : f \in DataFiles} : r.session = s}

(* Nothing is under way in the process.                                    *)
Quiet == chan = <<>> /\ pending = <<>> /\ writer = Resting /\ prod.pc = "idle"

-----------------------------------------------------------------------------
(* Safety.                                                                 *)

Lines(q) == Cardinality({i \in DOMAIN q : q[i].msg = "line"})

TypeOK ==
    /\ now \in Sessions /\ begun \in Sessions \cup {None} /\ closedOne \in BOOLEAN
    /\ prod.pc \in {"idle", "reserve", "send", "sent", "exit"}
    /\ writer.pc \in {"recv", "msgs", "marker", "sync"}
    /\ Len(chan) <= QueueRecords /\ Len(writer.batch) <= Batch
    /\ closed \subseteq Sessions /\ unmarked \subseteq Sessions
    /\ opened \subseteq Files /\ poisoned \subseteq opened
    /\ \A f \in Files : file[f].synced \in 0..Len(file[f].disk)
    /\ unreported \in 0..health.dropped

(* Queue accounting never wraps: "reserving first makes every subtraction  *)
(* correspond to an addition that already happened", whatever the order of *)
(* the task's reserve, send, release and the thread's receive; and the     *)
(* byte bound holds.                                                       *)
QueueAccounted ==
    /\ reserved = Lines(chan) + Lines(writer.batch) + (IF prod.pc = "send" THEN 1 ELSE 0)
    /\ reserved <= QueueBytes

(* "Identity, at the session barrier": a marker's tally balances, unless   *)
(* it says that a record came late.                                        *)
TallyBalances ==
    \A i \in DOMAIN Markers : Markers[i].kind = "session" =>
        Balances(Markers[i].tally) \/ Markers[i].tally.late > 0

(* A session is certified only if the files hold exactly the rows that     *)
(* were offered for it, by any process, whatever was dropped, failed,      *)
(* crashed or lost its power in between.                                   *)
CertifiedIsComplete == \A s \in Sessions : Certifies(s) => OnDisk(s) = RowsOf(s)

(* A marker with nothing to report is never refused for its rows: they     *)
(* were on disk before it, in the ranges it names, and neither deferral of *)
(* the barrier nor a power loss changes that.                              *)
CleanMarkerVerifies ==
    \A i \in DOMAIN Markers :
        Markers[i].kind = "session" /\ Clean(Markers[i]) => RowsVerify(Markers[i])

(* late_after_close is "counted so it can never be silent": a certified    *)
(* session had every row offered for it in its tally.                      *)
LateNeverSilent ==
    Quiet => \A s \in Sessions : Certifies(s) =>
        \A i \in MarkersOf(s) : Markers[i].tally.attempted = Cardinality(RowsOf(s))

(* The counters the health verdict is built on hide nothing: when nothing  *)
(* is under way, every record offered is in written, dropped or            *)
(* write_errors (a failed flush or a failed marker adds a write error      *)
(* that is no record, so the sum may be more than attempted).              *)
HealthHidesNothing ==
    Quiet => health.attempted <= health.written + health.dropped + health.errors

-----------------------------------------------------------------------------
(* Liveness.  The thread runs; the task's loop ticks every second and ends *)
(* what it began (none of its steps blocks).                               *)
Fairness == /\ WF_vars(Tick) /\ WF_vars(Reserve) /\ WF_vars(Send) /\ WF_vars(Sent)
            /\ WF_vars(SendDeferred) /\ WF_vars(Writer)
FairSpec == Spec /\ Fairness

(* A full queue defers a session's barrier but never drops it: a closed    *)
(* session gets its marker, or the failure is reported, or the process     *)
(* ends first.                                                             *)
BarrierDelivered ==
    \A s \in Sessions : s \in closed ~>
        s \notin closed \/ MarkersOf(s) # {} \/ s \in unmarked

=============================================================================
