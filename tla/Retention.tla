------------------------------ MODULE Retention ------------------------------
(***************************************************************************)
(* Retention of the research captures: the thread of research_retention.rs  *)
(* deletes the oldest sessions while the directory is over its ceiling,     *)
(* under the contract of retention_registry.rs: a protected day goes only   *)
(* when an export receipt covers every file of it.                          *)
(*                                                                          *)
(* A sweep reads the directory, then decides, hashes and removes file by    *)
(* file, for minutes, without a lock: writers, the export and the operator  *)
(* move between any two of its steps.  A file only grows and is not created *)
(* again once its day is old enough to go, so its length, in records,       *)
(* stands for its bytes and for their hash.                                 *)
(***************************************************************************)
EXTENDS Integers, FiniteSets, FiniteSetsExt

CONSTANTS
    MaxDay,           \* bound: UTC days
    Streams,          \* the captures, numbered in file-name order
    Ceiling,          \* ceiling_bytes, in records
    MinAgeDays,       \* min_age_days
    RequireExport,    \* require_export
    Designated,       \* days protected beforehand, as a session should be
    MaxRecords,       \* bound: records written
    MaxRulings,       \* bound: designations, holds and releases
    MaxFaults         \* bound: removals that fail, restarts

ASSUME RetentionAssumption ==
    /\ MaxDay \in Nat \ {0} /\ MinAgeDays \in Nat \ {0}
    /\ Streams \subseteq Nat /\ IsFiniteSet(Streams)
    /\ Designated \subseteq 1..MaxDay
    /\ Ceiling \in Nat /\ RequireExport \in BOOLEAN
    /\ MaxRecords \in Nat /\ MaxRulings \in Nat /\ MaxFaults \in Nat

Days == 1..MaxDay

VARIABLES
    today,
    file,         \* length of each session's files, by stream; 0 when absent
    recent,       \* days with a file modified within finalize_grace
    current,      \* the day of the file each writer says it is writing
    protected,    \* days with a registry entry, valid or not
    held,         \* days with a hold
    copy,         \* what the verified copies elsewhere hold of each file
    receipt,      \* exports/<date>.json: the length it lists of each file
    sweep,        \* the retention thread
    view,         \* scan_with_registry: the sweep's Session of each day
    health,       \* RetentionHealth
    late,         \* history: records written since the sweep read their day
    used          \* the bounded actions taken so far

disk  == <<file, recent, current>>
rules == <<protected, held, copy, receipt>>
vars  == <<today, disk, rules, sweep, view, health, late, used>>

-----------------------------------------------------------------------------
NoFiles == [n \in Streams |-> 0]
FilesOf(d) == {n \in Streams : file[d][n] > 0}
BytesOf(d) == MapThenSumSet(LAMBDA n : file[d][n], Streams)
DirBytes == MapThenSumSet(BytesOf, Days)

NoSession == [len |-> NoFiles, recent |-> FALSE, held |-> FALSE, receipt |-> NoFiles]
NoView == [d \in Days |-> NoSession]
Asleep == [pc |-> "sleep", today |-> 1, current |-> NoFiles, index |-> {}, bytes |-> 0,
           day |-> 0, todo |-> {}, removed |-> 0, retained |-> FALSE]
NoHealth == [pending |-> FALSE, blocked |-> FALSE]

Init ==
    /\ today = 1
    /\ file = [d \in Days |-> NoFiles] /\ recent = {} /\ current = NoFiles
    /\ protected = Designated /\ held = {}
    /\ copy = [d \in Days |-> NoFiles] /\ receipt = [d \in Days |-> NoFiles]
    /\ sweep = Asleep /\ view = NoView /\ health = NoHealth
    /\ late = 0
    /\ used = [records |-> 0, rulings |-> 0, faults |-> 0]

Record == used.records < MaxRecords /\ used' = [used EXCEPT !.records = @ + 1]
Ruling == used.rulings < MaxRulings /\ used' = [used EXCEPT !.rulings = @ + 1]
Fault  == used.faults < MaxFaults /\ used' = [used EXCEPT !.faults = @ + 1]

-----------------------------------------------------------------------------
(* sweep: the clock, the writers' current files and the registry are read  *)
(* once, before the directory.                                             *)
Begin ==
    /\ sweep.pc = "sleep"
    /\ sweep' = [Asleep EXCEPT !.pc = "scan", !.today = today, !.current = current,
                               !.index = protected]
    /\ UNCHANGED <<today, disk, rules, view, health, late, used>>

(* scan_with_registry, session by session: its files, hold and receipt.    *)
ScanDay ==
    LET d == sweep.day + 1
    IN  /\ sweep.pc = "scan"
        /\ view' = [view EXCEPT ![d] = [len |-> file[d], recent |-> d \in recent,
                                        held |-> d \in held, receipt |-> receipt[d]]]
        /\ sweep' = [sweep EXCEPT !.bytes = @ + BytesOf(d),
                                  !.pc = IF d = MaxDay THEN "next" ELSE @,
                                  !.day = IF d = MaxDay THEN 0 ELSE d]
        /\ UNCHANGED <<today, disk, rules, health, late, used>>

SeenFiles(d) == {n \in Streams : view[d].len[n] > 0}

Eligible(d) ==
    /\ sweep.today - d >= MinAgeDays
    /\ \A n \in SeenFiles(d) : sweep.current[n] # d
    /\ ~view[d].held
    /\ ~view[d].recent
    /\ RequireExport => view[d].receipt # NoFiles

(* The loop over the sessions, oldest first, until inside the ceiling.     *)
Rest == {d \in Days : d > sweep.day /\ SeenFiles(d) # {}}
CeilingRoundedUp == sweep.bytes <= Ceiling + 1                   \* mutant
InsideCeiling == sweep.bytes <= Ceiling
LoopEnds == Rest = {} \/ InsideCeiling

Decide ==
    LET d == Min(Rest)
        to == IF ~Eligible(d) THEN "next" ELSE IF d \in sweep.index THEN "verify" ELSE "remove"
    IN  /\ sweep.pc = "next" /\ ~LoopEnds
        /\ sweep' = [sweep EXCEPT !.pc = to, !.day = d,
                                  !.todo = IF to = "next" THEN {} ELSE SeenFiles(d)]
        /\ UNCHANGED <<today, disk, rules, view, health, late, used>>

(* verify_file: the receipt lists the file, with this length and this hash. *)
ListedIsEnough(d, n) == view[d].receipt[n] > 0                               \* mutant
Verified(d, n) == view[d].receipt[n] > 0 /\ file[d][n] = view[d].receipt[n]

(* unverified_file: the files in order, up to the first that is not covered. *)
RefusedKeepsTodo ==                                              \* mutant
    LET d == sweep.day
        n == Min(sweep.todo)
    IN  /\ sweep.pc = "verify"
        /\ sweep' = IF ~Verified(d, n) THEN [sweep EXCEPT !.pc = "next", !.retained = TRUE]
                    ELSE [sweep EXCEPT !.pc = "remove", !.todo = SeenFiles(d)]
        /\ UNCHANGED <<today, disk, rules, view, health, late, used>>
VerifyFile ==
    LET d == sweep.day
        n == Min(sweep.todo)
    IN  /\ sweep.pc = "verify"
        /\ sweep' =
             IF ~Verified(d, n) THEN [sweep EXCEPT !.pc = "next", !.todo = {}, !.retained = TRUE]
             ELSE IF sweep.todo = {n} THEN [sweep EXCEPT !.pc = "remove", !.todo = SeenFiles(d)]
             ELSE [sweep EXCEPT !.todo = @ \ {n}]
        /\ UNCHANGED <<today, disk, rules, view, health, late, used>>

(* What a removal takes off the sweep's account of the directory.          *)
CountsFailures(ok, size) == size                                             \* mutant
NotSubtracted(ok, size) == 0                                                 \* mutant
Reclaimed(ok, size) == IF ok THEN size ELSE 0

RemoveFile(ok) ==
    LET d == sweep.day
        n == Min(sweep.todo)
        removed == sweep.removed + Reclaimed(ok, file[d][n])
    IN  /\ sweep.pc = "remove"
        /\ IF ok THEN UNCHANGED used ELSE Fault
        /\ file' = IF ok THEN [file EXCEPT ![d][n] = 0] ELSE file
        /\ sweep' =
             IF sweep.todo # {n} THEN [sweep EXCEPT !.todo = @ \ {n}, !.removed = removed]
             ELSE [sweep EXCEPT !.pc = "next", !.todo = {}, !.removed = 0,
                                !.bytes = IF @ > removed THEN @ - removed ELSE 0]
        /\ UNCHANGED <<today, recent, current, rules, view, health, late>>

(* The outcome goes to the health counters (apply); the thread sleeps.     *)
End ==
    /\ sweep.pc = "next" /\ LoopEnds
    /\ health' = [pending |-> ~InsideCeiling, blocked |-> ~InsideCeiling /\ sweep.retained]
    /\ sweep' = Asleep /\ view' = NoView /\ late' = 0
    /\ UNCHANGED <<today, disk, rules, used>>

(* The process dies and comes back: the thread sweeps at once.             *)
Restart ==
    /\ Fault
    /\ sweep' = Asleep /\ view' = NoView /\ health' = NoHealth /\ late' = 0
    /\ current' = NoFiles
    /\ UNCHANGED <<today, file, recent, rules>>

-----------------------------------------------------------------------------
(* The writers.  A record goes to the file of its own day: today's; an     *)
(* earlier one when the writer is behind, if that file is still there.     *)
AppendRecord(d, n) ==
    /\ Record
    /\ d <= today /\ (today - d >= MinAgeDays => file[d][n] > 0)
    /\ file' = [file EXCEPT ![d][n] = @ + 1]
    /\ recent' = recent \cup {d} /\ current' = [current EXCEPT ![n] = d]
    /\ late' = IF sweep.pc = "sleep" \/ (sweep.pc = "scan" /\ d > sweep.day)
               THEN late ELSE late + 1
    /\ UNCHANGED <<today, rules, sweep, view, health>>

(* finalize_grace passes; a sweep under way compares with its own start.   *)
GraceElapses(d) ==
    /\ sweep.pc = "sleep"
    /\ d \in recent /\ recent' = recent \ {d}
    /\ UNCHANGED <<today, file, current, rules, sweep, view, health, late, used>>

Midnight ==
    /\ today < MaxDay /\ today' = today + 1
    /\ UNCHANGED <<disk, rules, sweep, view, health, late, used>>

(* The operator: cmd_designate renames the entry in; holds are touched.    *)
Designate(d) ==
    /\ d \notin protected /\ protected' = protected \cup {d}
    /\ Ruling
    /\ UNCHANGED <<today, disk, held, copy, receipt, sweep, view, health, late>>

HoldOrRelease(d) ==
    /\ held' = IF d \in held THEN held \ {d} ELSE held \cup {d}
    /\ Ruling
    /\ UNCHANGED <<today, disk, protected, copy, receipt, sweep, view, health, late>>

(* A file is copied off the machine and the copy is verified; the receipt  *)
(* that retention_receipt.py builds lists what the copies hold.            *)
CopyFile(d, n) ==
    /\ file[d][n] > copy[d][n] /\ copy' = [copy EXCEPT ![d][n] = file[d][n]]
    /\ UNCHANGED <<today, disk, protected, held, receipt, sweep, view, health, late, used>>

InstallReceipt(d) ==
    /\ receipt[d] # copy[d] /\ receipt' = [receipt EXCEPT ![d] = copy[d]]
    /\ UNCHANGED <<today, disk, protected, held, copy, sweep, view, health, late, used>>

-----------------------------------------------------------------------------
Thread ==
    \/ Begin \/ ScanDay \/ Decide \/ VerifyFile \/ End
    \/ \E ok \in BOOLEAN : RemoveFile(ok)
Others ==
    \/ Restart \/ Midnight
    \/ \E d \in Days, n \in Streams : AppendRecord(d, n) \/ CopyFile(d, n)
    \/ \E d \in Days : GraceElapses(d) \/ Designate(d) \/ HoldOrRelease(d) \/ InstallReceipt(d)
Next == Thread \/ Others
Spec == Init /\ [][Next]_vars

-----------------------------------------------------------------------------
(* Safety.                                                                 *)

(* Types; no length exceeds the records written; and the thread has files  *)
(* in hand exactly while it works on a day.                                *)
Lengths == [Streams -> 0..used.records]
DataOK ==
    /\ today \in Days
    /\ used \in [records : 0..MaxRecords, rulings : 0..MaxRulings, faults : 0..MaxFaults]
    /\ file \in [Days -> Lengths] /\ copy \in [Days -> Lengths] /\ receipt \in [Days -> Lengths]
    /\ recent \subseteq Days /\ protected \subseteq Days /\ held \subseteq Days
    /\ current \in [Streams -> 0..MaxDay]
    /\ late \in 0..used.records
    /\ health.blocked => health.pending
ViewOK ==
    view \in [Days -> [len : Lengths, recent : BOOLEAN, held : BOOLEAN, receipt : Lengths]]
ThreadOK ==
    /\ DOMAIN sweep = DOMAIN Asleep
    /\ sweep.pc \in {"sleep", "scan", "next", "verify", "remove"}
    /\ sweep.index \subseteq Days /\ sweep.todo \subseteq Streams
    /\ sweep.day \in 0..MaxDay /\ (sweep.pc = "scan" => sweep.day < MaxDay)
    /\ sweep.pc \in {"verify", "remove"} <=> sweep.todo # {}
    /\ sweep.pc \in {"verify", "remove"} =>
           sweep.day # 0 /\ sweep.todo \subseteq SeenFiles(sweep.day)
TypeOK == DataOK /\ ViewOK /\ ThreadOK

Deleted(d, n) == file[d][n] > 0 /\ file'[d][n] = 0

(* Of a session that was protected when the sweep began, nothing the sweep *)
(* saw is deleted before a verified copy of it exists elsewhere, whatever  *)
(* writers, exports, rulings, failed removals and restarts do in between.  *)
ProtectedHasCopy ==
    [][\A d \in sweep.index, n \in Streams : Deleted(d, n) => view[d].len[n] <= copy[d][n]]_vars

(* Why it holds.  A receipt lists what was copied; a file the sweep has    *)
(* not worked on yet still has what it saw; and what it is about to delete *)
(* of a protected session has passed verify_file.                          *)
ReceiptsAreCopies ==
    \A d \in Days, n \in Streams :
        receipt[d][n] <= copy[d][n] /\ view[d].receipt[n] <= copy[d][n]
AheadStands ==
    \A d \in Days, n \in Streams :
        /\ sweep.pc \in {"next", "remove"} => d > sweep.day
        /\ sweep.pc = "verify" => d >= sweep.day
        => view[d].len[n] <= file[d][n]
HandledIsCopied ==
    sweep.pc \in {"verify", "remove"} /\ sweep.day \in sweep.index =>
        \A n \in Streams :
            \/ sweep.pc = "verify" /\ n \in sweep.todo
            \/ view[sweep.day].len[n] <= copy[sweep.day][n]

(* "No file belonging to a protected UTC day is ever deleted unless an     *)
(* export receipt for that day lists that exact file name, and the file on *)
(* disk still has exactly the receipt's byte length and SHA-256", of a day *)
(* that was protected when the sweep began.                                *)
DeletedAsListed ==
    [][\A d \in sweep.index, n \in Streams : Deleted(d, n) => file[d][n] = receipt[d][n]]_vars

(* A sweep goes for a session only while the directory really is over its  *)
(* ceiling: its own account never runs ahead of the disk.                  *)
NothingExtra ==
    [][sweep.pc # "remove" /\ sweep'.pc = "remove" => DirBytes > Ceiling]_vars

(* A sweep that leaves the directory over its ceiling says so, except for  *)
(* what was written since it read the directory.                           *)
PressureNeverSilent ==
    [][sweep.pc = "next" /\ sweep'.pc = "sleep" /\ used' = used
           => health'.pending \/ DirBytes - late <= Ceiling]_vars

-----------------------------------------------------------------------------
(* Liveness.  The thread runs on: every step of it, and the next sweep on  *)
(* the timer.  Nobody else owes anything.                                  *)
FairSpec == Spec /\ WF_vars(Thread)

Deletable(d) ==
    /\ FilesOf(d) # {} /\ today - d >= MinAgeDays
    /\ d \notin held /\ d \notin recent
    /\ \A n \in FilesOf(d) : current[n] # d
    /\ RequireExport => receipt[d] # NoFiles
    /\ d \in protected => \A n \in FilesOf(d) : file[d][n] = receipt[d][n]

(* A session that may be deleted does not outlive the need for its space:  *)
(* neither an older session that must stay, nor a removal that failed, nor *)
(* a restart keeps the thread from it for good.                            *)
PressureRelieved ==
    \A d \in Days : DirBytes > Ceiling /\ Deletable(d) ~> DirBytes <= Ceiling \/ ~Deletable(d)

=============================================================================
