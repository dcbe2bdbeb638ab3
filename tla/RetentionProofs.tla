--------------------------- MODULE RetentionProofs ---------------------------
(***************************************************************************)
(* Theorems about Retention, for every number of days, streams, records,    *)
(* rulings and faults.                                                      *)
(***************************************************************************)
EXTENDS Retention, FoldTheorems, TLAPS

(* The inductive invariant: types, and why a protected session has a copy. *)
Custody == ReceiptsAreCopies /\ AheadStands /\ HandledIsCopied
IInv == DataOK /\ ViewOK /\ ThreadOK /\ Custody

-----------------------------------------------------------------------------
(* Lengths compare as numbers do.                                          *)
LEMMA Comparing ==
    ASSUME NEW a \in Nat
    PROVE  a <= a /\ a <= a + 1
BY SMT

LEMMA Transitive ==
    ASSUME NEW a \in Nat, NEW b \in Nat, NEW c \in Nat, a <= b, b <= c
    PROVE  a <= c
BY SMT

(* The fields of the thread's state, which EXCEPT preserves.               *)
LEMMA SweepFields ==
    ASSUME ThreadOK
    PROVE  DOMAIN sweep = {"pc", "today", "current", "index", "bytes", "day", "todo",
                           "removed", "retained"}
BY Zenon DEF ThreadOK, Asleep

(* The session Decide takes is one the sweep has seen and not yet passed.  *)
LEMMA RestMin ==
    ASSUME Rest # {}
    PROVE  Min(Rest) \in Days /\ Min(Rest) > sweep.day /\ SeenFiles(Min(Rest)) # {}
<1>1. Rest \subseteq Nat
  BY RetentionAssumption, SMT DEF Rest, Days
<1>2. Min(Rest) \in Rest
  BY <1>1, MinIn, Zenon
<1> QED BY <1>2, Zenon DEF Rest

(* The file a step works on is one of those left to do.                    *)
LEMMA TodoMin ==
    ASSUME ThreadOK, sweep.todo # {}
    PROVE  Min(sweep.todo) \in sweep.todo /\ Min(sweep.todo) \in Streams
<1>1. sweep.todo \subseteq Nat /\ sweep.todo \subseteq Streams
  BY RetentionAssumption, Zenon DEF ThreadOK
<1> QED BY <1>1, MinIn, Zenon

(* Lengths are naturals.                                                   *)
LEMMA LengthsNat ==
    ASSUME DataOK, ViewOK, NEW d \in Days, NEW n \in Streams
    PROVE  /\ file[d][n] \in Nat /\ copy[d][n] \in Nat /\ receipt[d][n] \in Nat
           /\ view[d].len[n] \in Nat /\ view[d].receipt[n] \in Nat
<1>1. /\ file[d] \in Lengths /\ copy[d] \in Lengths /\ receipt[d] \in Lengths
      /\ view[d].len \in Lengths /\ view[d].receipt \in Lengths
  BY Zenon DEF DataOK, ViewOK
<1>2. 0..used.records \subseteq Nat
  BY SMT DEF DataOK
<1> QED BY <1>1, <1>2, Zenon DEF Lengths

(* The sweep saw nothing of a file it does not list.                       *)
LEMMA UnseenEmpty ==
    ASSUME DataOK, ViewOK, NEW d \in Days, NEW n \in Streams
    PROVE  n \in SeenFiles(d) \/ view[d].len[n] = 0
BY LengthsNat, SMT DEF SeenFiles

(* The days the thread moves over are naturals.                            *)
LEMMA DaysNat ==
    ASSUME ThreadOK
    PROVE  Days \subseteq Nat /\ sweep.day \in Nat
BY RetentionAssumption, SMT DEF ThreadOK, Days

(* The invariant holds initially.                                          *)
LEMMA InvInit == Init => IInv
<1> SUFFICES ASSUME Init PROVE IInv
  OBVIOUS
<1>1. NoFiles \in Lengths /\ used.records = 0
  <2>1. used.records = 0
    BY SMT DEF Init
  <2> QED BY <2>1, SMT DEF Lengths, NoFiles
<1>2. DataOK
  <2>1. used \in [records : 0..MaxRecords, rulings : 0..MaxRulings, faults : 0..MaxFaults]
    BY RetentionAssumption, SMT DEF Init
  <2>2. file \in [Days -> Lengths] /\ copy \in [Days -> Lengths] /\ receipt \in [Days -> Lengths]
    BY <1>1, Zenon DEF Init
  <2>3. today \in Days /\ current \in [Streams -> 0..MaxDay] /\ late \in 0..used.records
    BY <1>1, RetentionAssumption, SMT DEF Init, Days, NoFiles
  <2>4. recent \subseteq Days /\ protected \subseteq Days /\ held \subseteq Days
    BY RetentionAssumption, Zenon DEF Init, Days
  <2>5. health.blocked => health.pending
    BY SMT DEF Init, NoHealth
  <2> QED BY <2>1, <2>2, <2>3, <2>4, <2>5 DEF DataOK
<1>3. ViewOK
  BY <1>1, Zenon DEF Init, ViewOK, NoView, NoSession
<1>4. ThreadOK
  BY RetentionAssumption, SMT DEF Init, ThreadOK, Asleep
<1>5. Custody
  <2>1. \A d \in Days, n \in Streams :
          /\ receipt[d][n] = 0 /\ copy[d][n] = 0 /\ file[d][n] = 0
          /\ view[d].receipt[n] = 0 /\ view[d].len[n] = 0
    BY Zenon DEF Init, NoView, NoSession, NoFiles
  <2>2. sweep.pc = "sleep"
    BY Zenon DEF Init, Asleep
  <2> QED BY <2>1, <2>2, SMT DEF Custody, ReceiptsAreCopies, AheadStands, HandledIsCopied
<1> QED BY <1>2, <1>3, <1>4, <1>5 DEF IInv

-----------------------------------------------------------------------------
(* The thread's steps.                                                     *)

LEMMA InvBegin == IInv /\ Begin => IInv'
<1> SUFFICES ASSUME IInv, Begin PROVE IInv'
  OBVIOUS
<1> USE RetentionAssumption DEF IInv
<1>1. /\ sweep'.pc = "scan" /\ sweep'.day = 0 /\ sweep'.todo = {} /\ sweep'.index = protected
      /\ DOMAIN sweep' = DOMAIN Asleep /\ sweep.pc = "sleep"
  BY SMT DEF Begin, Asleep
<1>2. UNCHANGED <<today, file, recent, current, protected, held, copy, receipt, view, health,
                  late, used>>
  BY Zenon DEF Begin, disk, rules
<1>3. DataOK' /\ ViewOK'
  BY <1>2, Zenon DEF DataOK, ViewOK, Lengths
<1>4. ThreadOK'
  BY <1>1, SMT DEF ThreadOK, DataOK, Asleep
<1>5. Custody'
  BY <1>1, <1>2, SMT DEF Custody, ReceiptsAreCopies, AheadStands, HandledIsCopied
<1> QED BY <1>3, <1>4, <1>5

LEMMA InvScanDay == IInv /\ ScanDay => IInv'
<1> SUFFICES ASSUME IInv, ScanDay PROVE IInv'
  OBVIOUS
<1> USE RetentionAssumption DEF IInv
<1> DEFINE d == sweep.day + 1
           seen == [len |-> file[d], recent |-> d \in recent, held |-> d \in held,
                    receipt |-> receipt[d]]
<1>1. d \in Days /\ sweep.pc = "scan" /\ sweep.todo = {}
  BY SMT DEF ScanDay, ThreadOK, Days
<1>2. /\ sweep'.pc = (IF d = MaxDay THEN "next" ELSE "scan")
      /\ sweep'.day = (IF d = MaxDay THEN 0 ELSE d)
      /\ sweep'.todo = {} /\ sweep'.index = sweep.index
      /\ DOMAIN sweep' = DOMAIN sweep
  BY <1>1, SweepFields, SMT DEF ScanDay
<1>3. UNCHANGED <<today, file, recent, current, protected, held, copy, receipt, health, late, used>>
  BY Zenon DEF ScanDay, disk, rules
<1>4. view' = [view EXCEPT ![d] = seen]
  BY Zenon DEF ScanDay
<1>5. DataOK'
  BY <1>3, Zenon DEF DataOK, Lengths
<1>6. seen \in [len : Lengths, recent : BOOLEAN, held : BOOLEAN, receipt : Lengths]
  <2>1. file[d] \in Lengths /\ receipt[d] \in Lengths
    BY <1>1, Zenon DEF DataOK
  <2> QED BY <2>1, SMT
<1>7. \A e \in Days : view'[e] = IF e = d THEN seen ELSE view[e]
  BY <1>4, Zenon DEF ViewOK
<1>8. ViewOK'
  BY <1>3, <1>4, <1>6, Zenon DEF ViewOK, Lengths
<1>9. ThreadOK'
  BY <1>1, <1>2, SMT DEF ThreadOK, Days, Asleep
<1>10. \A e \in Days, n \in Streams :
          /\ view'[e].len[n] = IF e = d THEN file[e][n] ELSE view[e].len[n]
          /\ view'[e].receipt[n] = IF e = d THEN receipt[e][n] ELSE view[e].receipt[n]
  <2>1. seen.len = file[d] /\ seen.receipt = receipt[d]
    BY SMT
  <2> HIDE DEF seen
  <2> QED BY <1>7, <2>1, Zenon
<1>11. Custody'
  <2>1. ReceiptsAreCopies'
    <3>1. \A e \in Days, n \in Streams :
              receipt[e][n] <= copy[e][n] /\ view[e].receipt[n] <= copy[e][n]
      BY Zenon DEF Custody, ReceiptsAreCopies
    <3>2. ASSUME NEW e \in Days, NEW n \in Streams PROVE view'[e].receipt[n] <= copy[e][n]
      <4>1. CASE e = d
        BY <1>10, <3>1, <4>1, Zenon
      <4>2. CASE e # d
        BY <1>10, <3>1, <4>2, Zenon
      <4> QED BY <4>1, <4>2
    <3> QED BY <1>3, <3>1, <3>2, Zenon DEF ReceiptsAreCopies
  <2>2. \A e \in Days, n \in Streams : view[e].len[n] <= file[e][n] /\ file[e][n] <= file[e][n]
    <3>1. sweep.pc \notin {"next", "remove", "verify"}
      BY <1>1, SMT
    <3>2. \A e \in Days, n \in Streams : view[e].len[n] <= file[e][n]
      BY <3>1, Zenon DEF Custody, AheadStands
    <3> QED BY <3>2, LengthsNat, Comparing, Zenon
  <2>3. \A e \in Days, n \in Streams : view'[e].len[n] <= file'[e][n]
    BY <1>3, <1>10, <2>2, Zenon
  <2>4. AheadStands'
    BY <2>3, Zenon DEF AheadStands
  <2>5. sweep'.pc \notin {"verify", "remove"}
    BY <1>2, SMT
  <2>6. HandledIsCopied'
    BY <2>5, Zenon DEF HandledIsCopied
  <2> QED BY <2>1, <2>4, <2>6 DEF Custody
<1> QED BY <1>5, <1>8, <1>9, <1>11
LEMMA InvDecide == IInv /\ Decide => IInv'
<1> SUFFICES ASSUME IInv, Decide PROVE IInv'
  OBVIOUS
<1> USE RetentionAssumption DEF IInv
<1> DEFINE d == Min(Rest)
           to == IF ~Eligible(d) THEN "next" ELSE IF d \in sweep.index THEN "verify" ELSE "remove"
<1>1. d \in Days /\ d > sweep.day /\ SeenFiles(d) # {} /\ sweep.pc = "next"
  BY RestMin, Zenon DEF Decide, LoopEnds
<1>2. /\ sweep'.pc = to /\ sweep'.day = d
      /\ sweep'.todo = (IF to = "next" THEN {} ELSE SeenFiles(d))
      /\ sweep'.index = sweep.index
      /\ DOMAIN sweep' = DOMAIN sweep
  BY SweepFields, SMT DEF Decide
<1>3. UNCHANGED <<today, file, recent, current, protected, held, copy, receipt, view, health,
                  late, used>>
  BY Zenon DEF Decide, disk, rules
<1>4. to \in {"next", "verify", "remove"} /\ (to = "remove" => d \notin sweep.index)
  BY Zenon
<1>5. SeenFiles(d) \subseteq Streams
  BY DEF SeenFiles
<1>6. \A n \in Streams : n \in SeenFiles(d) \/ view[d].len[n] = 0
  BY <1>1, UnseenEmpty, Zenon
<1> HIDE DEF d, to
<1>7. DataOK' /\ ViewOK'
  BY <1>3, Zenon DEF DataOK, ViewOK, Lengths
<1>8. ThreadOK'
  <2>1. \A e \in Days : SeenFiles(e)' = SeenFiles(e)
    BY <1>3, Zenon DEF SeenFiles
  <2>2. d \in 0..MaxDay /\ d # 0
    BY <1>1, SMT DEF Days
  <2>3. SeenFiles(sweep.day)' = SeenFiles(d)
    BY <1>1, <1>2, <2>1, Zenon
  <2> QED BY <1>2, <1>4, <1>5, <1>1, <2>2, <2>3, SMT DEF ThreadOK
<1>9. Custody'
  <2>1. ReceiptsAreCopies'
    BY <1>3, Zenon DEF Custody, ReceiptsAreCopies
  <2>2. ASSUME NEW e \in Days, NEW n \in Streams, e >= d
        PROVE  view[e].len[n] <= file[e][n]
    <3>1. e > sweep.day
      BY <1>1, <2>2, DaysNat, SMT
    <3>2. sweep.pc # "verify"
      BY <1>1, SMT
    <3> QED BY <3>1, <3>2, Zenon DEF Custody, AheadStands
  <2>3. AheadStands'
    BY <1>1, <1>2, <1>3, <1>4, <2>2, DaysNat, SMT DEF AheadStands
  <2>4. HandledIsCopied'
    <3> SUFFICES ASSUME sweep'.pc = "verify", NEW n \in Streams, n \notin sweep'.todo
                 PROVE  view[d].len[n] <= copy[d][n]
      BY <1>2, <1>3, <1>4, Zenon DEF HandledIsCopied
    <3>1. view[d].len[n] = 0
      BY <1>2, <1>6, Zenon
    <3> QED BY <1>1, <3>1, LengthsNat, SMT
  <2> QED BY <2>1, <2>3, <2>4 DEF Custody
<1> QED BY <1>7, <1>8, <1>9

(* The step the contract is about: a file that passes verify_file is in a  *)
(* copy, with everything the sweep saw of it.                              *)
LEMMA InvVerifyFile == IInv /\ VerifyFile => IInv'
<1> SUFFICES ASSUME IInv, VerifyFile PROVE IInv'
  OBVIOUS
<1> USE RetentionAssumption DEF IInv
<1> DEFINE d == sweep.day
           n == Min(sweep.todo)
<1>1. /\ sweep.pc = "verify" /\ d \in Days /\ sweep.todo \subseteq SeenFiles(d)
      /\ n \in sweep.todo /\ n \in Streams
  <2>1. sweep.pc = "verify" /\ sweep.todo # {} /\ d \in Days /\ sweep.todo \subseteq SeenFiles(d)
    BY SMT DEF VerifyFile, ThreadOK, Days
  <2> QED BY <2>1, TodoMin, Zenon
<1>2. UNCHANGED <<today, file, recent, current, protected, held, copy, receipt, view, health,
                  late, used>>
  BY Zenon DEF VerifyFile, disk, rules
<1>3. SeenFiles(d) \subseteq Streams /\ SeenFiles(d)' \subseteq Streams
  BY DEF SeenFiles
<1>4. DataOK' /\ ViewOK'
  BY <1>2, Zenon DEF DataOK, ViewOK, Lengths
<1>5. ReceiptsAreCopies'
  BY <1>2, Zenon DEF Custody, ReceiptsAreCopies
<1>6. \A e \in Days, m \in Streams : e >= d => view[e].len[m] <= file[e][m]
  BY <1>1, DaysNat, SMT DEF Custody, AheadStands
<1>7. \A e \in Days : SeenFiles(e)' = SeenFiles(e)
  BY <1>2, Zenon DEF SeenFiles
<1>8. Verified(d, n) => view[d].len[n] <= copy[d][n]
  <2>1. view[d].len[n] <= file[d][n]
    <3>1. d >= d
      BY DaysNat, SMT
    <3> QED BY <1>1, <1>6, <3>1, Zenon
  <2>2. view[d].receipt[n] <= copy[d][n]
    BY <1>1, Zenon DEF Custody, ReceiptsAreCopies
  <2> HIDE DEF d, n
  <2> QED BY <1>1, <2>1, <2>2, LengthsNat, SMT DEF Verified
<1>9. CASE ~Verified(d, n)
  <2>1. /\ sweep'.pc = "next" /\ sweep'.day = d /\ sweep'.todo = {}
        /\ sweep'.index = sweep.index /\ DOMAIN sweep' = DOMAIN sweep
    BY <1>9, SweepFields, SMT DEF VerifyFile
  <2>2. ThreadOK'
    BY <2>1, SMT DEF ThreadOK
  <2>3. AheadStands'
    BY <1>1, <1>2, <1>6, <2>1, DaysNat, SMT DEF AheadStands
  <2>4. HandledIsCopied'
    BY <2>1, SMT DEF HandledIsCopied
  <2> QED BY <1>4, <1>5, <2>2, <2>3, <2>4 DEF Custody
<1>10. CASE Verified(d, n) /\ sweep.todo = {n}
  <2>1. /\ sweep'.pc = "remove" /\ sweep'.day = d /\ sweep'.todo = SeenFiles(d)
        /\ sweep'.index = sweep.index /\ DOMAIN sweep' = DOMAIN sweep
    BY <1>10, SweepFields, SMT DEF VerifyFile
  <2>2. ThreadOK'
    BY <1>1, <1>3, <1>7, <2>1, SMT DEF ThreadOK
  <2>3. AheadStands'
    BY <1>1, <1>2, <1>6, <2>1, DaysNat, SMT DEF AheadStands
  <2>4. HandledIsCopied'
    <3>1. d \in sweep.index => \A m \in Streams : m = n \/ view[d].len[m] <= copy[d][m]
      BY <1>1, <1>10, Zenon DEF Custody, HandledIsCopied
    <3>2. d \in sweep.index => \A m \in Streams : view[d].len[m] <= copy[d][m]
      BY <1>8, <1>10, <3>1, Zenon
    <3> QED BY <1>2, <2>1, <3>2, Zenon DEF HandledIsCopied
  <2> QED BY <1>4, <1>5, <2>2, <2>3, <2>4 DEF Custody
<1>11. CASE Verified(d, n) /\ sweep.todo # {n}
  <2>1. /\ sweep'.pc = "verify" /\ sweep'.day = d /\ sweep'.todo = sweep.todo \ {n}
        /\ sweep'.index = sweep.index /\ DOMAIN sweep' = DOMAIN sweep
    BY <1>1, <1>11, SweepFields, SMT DEF VerifyFile
  <2>2. ThreadOK'
    BY <1>1, <1>7, <1>11, <2>1, SMT DEF ThreadOK
  <2>3. AheadStands'
    BY <1>1, <1>2, <1>6, <2>1, DaysNat, SMT DEF AheadStands
  <2>4. HandledIsCopied'
    BY <1>1, <1>2, <1>8, <1>11, <2>1, SMT DEF Custody, HandledIsCopied
  <2> QED BY <1>4, <1>5, <2>2, <2>3, <2>4 DEF Custody
<1> QED BY <1>9, <1>10, <1>11, Zenon

LEMMA InvRemoveFile ==
    ASSUME NEW ok \in BOOLEAN
    PROVE  IInv /\ RemoveFile(ok) => IInv'
<1> SUFFICES ASSUME IInv, RemoveFile(ok) PROVE IInv'
  OBVIOUS
<1> USE RetentionAssumption DEF IInv
<1> DEFINE d == sweep.day
           n == Min(sweep.todo)
<1>1. /\ sweep.pc = "remove" /\ d \in Days /\ sweep.todo \subseteq SeenFiles(d)
      /\ n \in sweep.todo /\ n \in Streams
  <2>1. sweep.pc = "remove" /\ sweep.todo # {} /\ d \in Days /\ sweep.todo \subseteq SeenFiles(d)
    BY SMT DEF RemoveFile, ThreadOK, Days
  <2> QED BY <2>1, TodoMin, Zenon
<1>2. UNCHANGED <<today, recent, current, protected, held, copy, receipt, view, health, late>>
  BY Zenon DEF RemoveFile, rules
<1>3. file' = IF ok THEN [file EXCEPT ![d][n] = 0] ELSE file
  BY Zenon DEF RemoveFile
<1>4. used'.records = used.records
      /\ used' \in [records : 0..MaxRecords, rulings : 0..MaxRulings, faults : 0..MaxFaults]
  <2>1. CASE ok
    BY <2>1, SMT DEF RemoveFile, DataOK
  <2>2. CASE ~ok
    BY <2>2, SMT DEF RemoveFile, Fault, DataOK
  <2> QED BY <2>1, <2>2
<1>5. Lengths' = Lengths /\ \A e \in Days : SeenFiles(e)' = SeenFiles(e)
  BY <1>2, <1>4, Zenon DEF Lengths, SeenFiles
<1>6. file' \in [Days -> Lengths]
  <2>1. 0 \in 0..used.records
    BY SMT DEF DataOK
  <2>2. [file EXCEPT ![d][n] = 0] \in [Days -> Lengths]
    BY <1>1, <2>1, SMT DEF DataOK, Lengths
  <2> QED BY <1>3, <2>2, Zenon DEF DataOK
<1>7. DataOK' /\ ViewOK'
  BY <1>2, <1>4, <1>5, <1>6, SMT DEF DataOK, ViewOK
<1>8. /\ sweep'.pc \in {"next", "remove"} /\ sweep'.day = d /\ sweep'.index = sweep.index
      /\ sweep'.todo = sweep.todo \ {n} /\ DOMAIN sweep' = DOMAIN sweep
      /\ sweep'.pc = "remove" <=> sweep'.todo # {}
  <2>1. CASE sweep.todo = {n}
    BY <1>1, <2>1, SweepFields, SMT DEF RemoveFile
  <2>2. CASE sweep.todo # {n}
    BY <1>1, <2>2, SweepFields, SMT DEF RemoveFile
  <2> QED BY <2>1, <2>2
<1>9. ThreadOK'
  BY <1>1, <1>5, <1>8, SMT DEF ThreadOK
<1>10. ReceiptsAreCopies'
  BY <1>2, Zenon DEF Custody, ReceiptsAreCopies
<1>11. AheadStands'
  <2>1. \A e \in Days, m \in Streams : e > d => file'[e][m] = file[e][m]
    BY <1>1, <1>3, DaysNat, SMT DEF DataOK
  <2>2. \A e \in Days, m \in Streams : e > d => view[e].len[m] <= file[e][m]
    BY <1>1, SMT DEF Custody, AheadStands
  <2> QED BY <1>2, <1>8, <2>1, <2>2, SMT DEF AheadStands
<1>12. HandledIsCopied'
  BY <1>1, <1>2, <1>8, SMT DEF Custody, HandledIsCopied
<1> QED BY <1>7, <1>9, <1>10, <1>11, <1>12 DEF Custody

(* The sweep forgets what it saw: at its end, and when the process dies.   *)
LEMMA Forgets ==
    ASSUME IInv, sweep' = Asleep, view' = NoView, ReceiptsAreCopies,
           UNCHANGED <<file, copy, receipt>>, Lengths' = Lengths
    PROVE  ViewOK' /\ ThreadOK' /\ Custody'
<1> USE RetentionAssumption
<1>1. NoFiles \in Lengths
  <2>1. 0 \in 0..used.records
    BY SMT DEF IInv, DataOK
  <2> QED BY <2>1, Zenon DEF Lengths, NoFiles
<1>2. ViewOK'
  BY <1>1, Zenon DEF ViewOK, NoView, NoSession
<1>3. ThreadOK'
  BY SMT DEF ThreadOK, Asleep
<1>4. \A d \in Days, n \in Streams : view'[d].len[n] = 0 /\ view'[d].receipt[n] = 0
  BY Zenon DEF NoView, NoSession, NoFiles
<1>5. \A d \in Days, n \in Streams : 0 <= file[d][n] /\ 0 <= copy[d][n]
  BY LengthsNat, SMT DEF IInv
<1>6. ReceiptsAreCopies'
  BY <1>4, <1>5, Zenon DEF ReceiptsAreCopies
<1>7. AheadStands'
  BY <1>4, <1>5, Zenon DEF AheadStands
<1>8. HandledIsCopied'
  BY SMT DEF HandledIsCopied, Asleep
<1> QED BY <1>2, <1>3, <1>6, <1>7, <1>8 DEF Custody

LEMMA InvEnd == IInv /\ End => IInv'
<1> SUFFICES ASSUME IInv, End PROVE IInv'
  OBVIOUS
<1>1. UNCHANGED <<today, file, recent, current, protected, held, copy, receipt, used>>
  BY Zenon DEF End, disk, rules
<1>2. health' = [pending |-> ~InsideCeiling, blocked |-> ~InsideCeiling /\ sweep.retained]
      /\ late' = 0 /\ sweep' = Asleep /\ view' = NoView
  BY Zenon DEF End
<1>3. health'.blocked => health'.pending
  <2>1. health'.pending = ~InsideCeiling /\ health'.blocked = (~InsideCeiling /\ sweep.retained)
    BY <1>2, Zenon
  <2> QED BY <2>1, Zenon
<1>4. Lengths' = Lengths
  BY <1>1, Zenon DEF Lengths
<1>5. late' \in 0..used.records
  BY <1>2, SMT DEF IInv, DataOK
<1>6. DataOK'
  BY <1>1, <1>3, <1>4, <1>5, Zenon DEF IInv, DataOK
<1> QED BY <1>1, <1>2, <1>4, <1>6, Forgets, Zenon DEF IInv, Custody

LEMMA InvRestart == IInv /\ Restart => IInv'
<1> SUFFICES ASSUME IInv, Restart PROVE IInv'
  OBVIOUS
<1>1. UNCHANGED <<today, file, recent, protected, held, copy, receipt>>
  BY Zenon DEF Restart, rules
<1>2. health' = NoHealth /\ late' = 0 /\ sweep' = Asleep /\ view' = NoView /\ current' = NoFiles
  BY Zenon DEF Restart
<1>3. used'.records = used.records
      /\ used' \in [records : 0..MaxRecords, rulings : 0..MaxRulings, faults : 0..MaxFaults]
  BY RetentionAssumption, SMT DEF Restart, Fault, IInv, DataOK
<1>4. Lengths' = Lengths
  BY <1>3, Zenon DEF Lengths
<1>5. late' \in 0..used'.records /\ current' \in [Streams -> 0..MaxDay]
  BY <1>2, <1>3, RetentionAssumption, SMT DEF IInv, DataOK, NoFiles
<1>6. health'.blocked => health'.pending
  BY <1>2, SMT DEF NoHealth
<1>7. DataOK'
  BY <1>1, <1>3, <1>4, <1>5, <1>6, Zenon DEF IInv, DataOK
<1> QED BY <1>1, <1>2, <1>4, <1>7, Forgets, Zenon DEF IInv, Custody
-----------------------------------------------------------------------------
(* The steps of the others leave the thread alone: files and copies only   *)
(* grow, and a receipt lists what a copy holds.                            *)
LEMMA WorldMoves ==
    ASSUME IInv, DataOK', UNCHANGED <<sweep, view>>, used'.records >= used.records,
           \A d \in Days, n \in Streams :
               /\ file[d][n] <= file'[d][n] /\ copy[d][n] <= copy'[d][n]
               /\ receipt'[d][n] <= copy'[d][n]
    PROVE  IInv'
<1> USE RetentionAssumption
<1>1. Lengths \subseteq Lengths'
  <2>1. 0..used.records \subseteq 0..used'.records
    BY SMT DEF IInv, DataOK
  <2> QED BY <2>1, SMT DEF Lengths
<1>2. ViewOK'
  <2> DEFINE S(L) == [len : L, recent : BOOLEAN, held : BOOLEAN, receipt : L]
  <2>1. S(Lengths) \subseteq S(Lengths')
    BY <1>1, SMT
  <2>2. \A d \in Days : view[d] \in S(Lengths)
    BY Zenon DEF IInv, ViewOK
  <2>3. view' = [d \in Days |-> view[d]]
    BY Zenon DEF IInv, ViewOK
  <2> HIDE DEF S
  <2>4. view' \in [Days -> S(Lengths')]
    BY <2>1, <2>2, <2>3, Zenon
  <2> QED BY <2>4, Zenon DEF S, ViewOK
<1>3. \A d : SeenFiles(d)' = SeenFiles(d)
  BY Zenon DEF SeenFiles
<1>4. ThreadOK'
  BY <1>3, Zenon DEF IInv, ThreadOK, Asleep, NoFiles
<1>5. \A d \in Days, n \in Streams :
          /\ file[d][n] \in Nat /\ copy[d][n] \in Nat
          /\ view[d].len[n] \in Nat /\ view[d].receipt[n] \in Nat
  BY LengthsNat, Zenon DEF IInv
<1>6. \A d \in Days, n \in Streams : file'[d][n] \in Nat /\ copy'[d][n] \in Nat
  <2>1. \A d \in Days : file'[d] \in Lengths' /\ copy'[d] \in Lengths'
    BY Zenon DEF DataOK
  <2>2. 0..used'.records \subseteq Nat
    BY SMT DEF DataOK
  <2> QED BY <2>1, <2>2, Zenon DEF Lengths
<1>7. ReceiptsAreCopies'
  <2> SUFFICES ASSUME NEW d \in Days, NEW n \in Streams
               PROVE  view[d].receipt[n] <= copy'[d][n]
    BY Zenon DEF ReceiptsAreCopies
  <2>1. view[d].receipt[n] <= copy[d][n] /\ copy[d][n] <= copy'[d][n]
    BY Zenon DEF IInv, Custody, ReceiptsAreCopies
  <2>2. view[d].receipt[n] \in Nat /\ copy[d][n] \in Nat /\ copy'[d][n] \in Nat
    BY <1>5, <1>6, Zenon
  <2> QED BY <2>1, <2>2, Transitive, Zenon
<1>8. AheadStands'
  <2>1. ASSUME NEW d \in Days, NEW n \in Streams, view[d].len[n] <= file[d][n]
        PROVE  view[d].len[n] <= file'[d][n]
    <3>1. view[d].len[n] \in Nat /\ file[d][n] \in Nat /\ file'[d][n] \in Nat
      BY <1>5, <1>6, Zenon
    <3>2. file[d][n] <= file'[d][n]
      OBVIOUS
    <3> QED BY <2>1, <3>1, <3>2, Transitive, Zenon
  <2> QED BY <2>1, Zenon DEF IInv, Custody, AheadStands
<1>9. HandledIsCopied'
  <2>1. ASSUME NEW d \in Days, NEW n \in Streams, view[d].len[n] <= copy[d][n]
        PROVE  view[d].len[n] <= copy'[d][n]
    <3>1. view[d].len[n] \in Nat /\ copy[d][n] \in Nat /\ copy'[d][n] \in Nat
      BY <1>5, <1>6, Zenon
    <3>2. copy[d][n] <= copy'[d][n]
      OBVIOUS
    <3> QED BY <2>1, <3>1, <3>2, Transitive, Zenon
  <2>2. sweep.index \subseteq Days
    BY Zenon DEF IInv, ThreadOK
  <2> QED BY <2>1, <2>2, Zenon DEF IInv, Custody, HandledIsCopied
<1> QED BY <1>2, <1>4, <1>7, <1>8, <1>9 DEF IInv, Custody

LEMMA InvAppendRecord ==
    ASSUME NEW d \in Days, NEW n \in Streams
    PROVE  IInv /\ AppendRecord(d, n) => IInv'
<1> SUFFICES ASSUME IInv, AppendRecord(d, n) PROVE IInv'
  OBVIOUS
<1> USE RetentionAssumption DEF IInv
<1>1. UNCHANGED <<today, protected, held, copy, receipt, sweep, view, health>>
  BY Zenon DEF AppendRecord, rules
<1>2. /\ used'.records = used.records + 1 /\ used.records \in Nat
      /\ used' \in [records : 0..MaxRecords, rulings : 0..MaxRulings, faults : 0..MaxFaults]
  BY SMT DEF AppendRecord, Record, DataOK
<1>3. Lengths \subseteq Lengths'
  <2>1. 0..used.records \subseteq 0..used'.records
    BY <1>2, SMT
  <2> QED BY <2>1, SMT DEF Lengths
<1>4. file' = [file EXCEPT ![d][n] = @ + 1]
  BY Zenon DEF AppendRecord
<1>5. file[d] \in Lengths /\ file[d][n] \in 0..used.records
  <2>1. file[d] \in Lengths
    BY Zenon DEF DataOK
  <2> QED BY <2>1, Zenon DEF Lengths
<1>6. [file[d] EXCEPT ![n] = @ + 1] \in Lengths'
  <2>1. file[d][n] + 1 \in 0..used'.records
    BY <1>2, <1>5, SMT
  <2>2. file[d] \in Lengths'
    BY <1>3, <1>5, Zenon
  <2> QED BY <2>1, <2>2, Zenon DEF Lengths
<1>7. /\ file' \in [Days -> Lengths'] /\ copy' \in [Days -> Lengths']
      /\ receipt' \in [Days -> Lengths']
  <2>1. file' = [file EXCEPT ![d] = [file[d] EXCEPT ![n] = @ + 1]]
    BY <1>4, Zenon
  <2>2. file \in [Days -> Lengths'] /\ copy \in [Days -> Lengths'] /\ receipt \in [Days -> Lengths']
    BY <1>3, SMT DEF DataOK
  <2> QED BY <1>1, <1>6, <2>1, <2>2, SMT
<1>8. late' \in 0..used'.records
  BY <1>2, SMT DEF AppendRecord, DataOK
<1>9. recent' \subseteq Days /\ current' \in [Streams -> 0..MaxDay]
  BY SMT DEF AppendRecord, DataOK, Days
<1>10. DataOK'
  BY <1>1, <1>2, <1>7, <1>8, <1>9, SMT DEF DataOK
<1>11. \A e \in Days, m \in Streams : file[e][m] <= file'[e][m]
  <2>1. \A e \in Days, m \in Streams : file[e][m] \in Nat
    BY LengthsNat, Zenon
  <2>2. \A e \in Days, m \in Streams :
            file'[e][m] = IF e = d /\ m = n THEN file[e][m] + 1 ELSE file[e][m]
    BY <1>4, SMT DEF DataOK, Lengths
  <2>3. ASSUME NEW e \in Days, NEW m \in Streams PROVE file[e][m] <= file'[e][m]
    <3>1. CASE e = d /\ m = n
      BY <2>1, <2>2, <3>1, Comparing, Zenon
    <3>2. CASE ~(e = d /\ m = n)
      BY <2>1, <2>2, <3>2, Comparing, Zenon
    <3> QED BY <3>1, <3>2
  <2> QED BY <2>3
<1>12. \A e \in Days, m \in Streams :
          copy[e][m] <= copy'[e][m] /\ receipt'[e][m] <= copy'[e][m]
  BY <1>1, LengthsNat, Comparing, Zenon DEF Custody, ReceiptsAreCopies
<1> QED BY <1>1, <1>2, <1>10, <1>11, <1>12, WorldMoves, SMT

(* Steps that touch neither files nor copies nor receipts.                 *)
LEMMA RulesMove ==
    ASSUME IInv, UNCHANGED <<file, copy, receipt, late, health, sweep, view>>,
           used' \in [records : 0..MaxRecords, rulings : 0..MaxRulings, faults : 0..MaxFaults],
           used'.records = used.records, today' \in Days, recent' \subseteq Days,
           protected' \subseteq Days, held' \subseteq Days, current' = current
    PROVE  IInv'
<1>1. Lengths' = Lengths
  BY Zenon DEF Lengths
<1>2. DataOK'
  BY <1>1, Zenon DEF IInv, DataOK
<1>3. used'.records >= used.records
  BY RetentionAssumption, SMT DEF IInv, DataOK
<1>4. \A d \in Days, n \in Streams :
          /\ file[d][n] <= file'[d][n] /\ copy[d][n] <= copy'[d][n]
          /\ receipt'[d][n] <= copy'[d][n]
  BY LengthsNat, SMT DEF IInv, Custody, ReceiptsAreCopies
<1> QED BY <1>2, <1>3, <1>4, WorldMoves, Zenon

LEMMA InvRulings ==
    ASSUME NEW d \in Days
    PROVE  IInv /\ (Midnight \/ GraceElapses(d) \/ Designate(d) \/ HoldOrRelease(d)) => IInv'
<1> USE RetentionAssumption DEF IInv
<1>1. ASSUME IInv, Midnight PROVE IInv'
  <2>1. today' \in Days
    BY <1>1, SMT DEF Midnight, DataOK, Days
  <2> QED BY <1>1, <2>1, RulesMove, Zenon DEF Midnight, DataOK, disk, rules
<1>2. ASSUME IInv, GraceElapses(d) PROVE IInv'
  BY <1>2, RulesMove, Zenon DEF GraceElapses, DataOK, disk, rules
<1>3. ASSUME IInv, Ruling
      PROVE  /\ used'.records = used.records
             /\ used' \in [records : 0..MaxRecords, rulings : 0..MaxRulings, faults : 0..MaxFaults]
  BY <1>3, SMT DEF Ruling, DataOK
<1>4. ASSUME IInv, Designate(d) PROVE IInv'
  <2>1. protected' \subseteq Days
    BY <1>4, Zenon DEF Designate, DataOK
  <2> QED BY <1>3, <1>4, <2>1, RulesMove, Zenon DEF Designate, DataOK, disk, rules
<1>5. ASSUME IInv, HoldOrRelease(d) PROVE IInv'
  <2>1. held' \subseteq Days
    BY <1>5, Zenon DEF HoldOrRelease, DataOK
  <2> QED BY <1>3, <1>5, <2>1, RulesMove, Zenon DEF HoldOrRelease, DataOK, disk, rules
<1> QED BY <1>1, <1>2, <1>4, <1>5, Zenon

LEMMA InvCopyFile ==
    ASSUME NEW d \in Days, NEW n \in Streams
    PROVE  IInv /\ CopyFile(d, n) => IInv'
<1> SUFFICES ASSUME IInv, CopyFile(d, n) PROVE IInv'
  OBVIOUS
<1> USE RetentionAssumption DEF IInv
<1>1. UNCHANGED <<today, file, recent, current, protected, held, receipt, sweep, view, health,
                  late, used>>
  BY Zenon DEF CopyFile, disk
<1>2. copy' = [copy EXCEPT ![d][n] = file[d][n]] /\ file[d][n] > copy[d][n]
  BY Zenon DEF CopyFile
<1>3. Lengths' = Lengths
  BY <1>1, Zenon DEF Lengths
<1>4. copy' \in [Days -> Lengths]
  <2>1. file[d] \in Lengths /\ copy[d] \in Lengths
    BY Zenon DEF DataOK
  <2>2. [copy[d] EXCEPT ![n] = file[d][n]] \in Lengths
    BY <2>1, SMT DEF Lengths
  <2>3. copy' = [copy EXCEPT ![d] = [copy[d] EXCEPT ![n] = file[d][n]]]
    BY <1>2, Zenon
  <2> QED BY <2>2, <2>3, Zenon DEF DataOK
<1>5. DataOK'
  BY <1>1, <1>3, <1>4, Zenon DEF DataOK
<1>6. \A e \in Days, m \in Streams :
          /\ file[e][m] \in Nat /\ copy[e][m] \in Nat /\ receipt[e][m] \in Nat
          /\ receipt[e][m] <= copy[e][m]
  BY LengthsNat, Zenon DEF Custody, ReceiptsAreCopies
<1>7. \A e \in Days, m \in Streams :
          copy'[e][m] = IF e = d /\ m = n THEN file[d][n] ELSE copy[e][m]
  BY <1>2, SMT DEF DataOK, Lengths
<1>8. \A e \in Days, m \in Streams :
          /\ file[e][m] <= file'[e][m] /\ copy[e][m] <= copy'[e][m]
          /\ receipt'[e][m] <= copy'[e][m]
  BY <1>1, <1>2, <1>6, <1>7, SMT
<1>9. used'.records >= used.records
  BY <1>1, SMT DEF DataOK
<1> QED BY <1>1, <1>5, <1>8, <1>9, WorldMoves, Zenon

LEMMA InvInstallReceipt ==
    ASSUME NEW d \in Days
    PROVE  IInv /\ InstallReceipt(d) => IInv'
<1> SUFFICES ASSUME IInv, InstallReceipt(d) PROVE IInv'
  OBVIOUS
<1> USE RetentionAssumption DEF IInv
<1>1. UNCHANGED <<today, file, recent, current, protected, held, copy, sweep, view, health,
                  late, used>>
  BY Zenon DEF InstallReceipt, disk
<1>2. receipt' = [receipt EXCEPT ![d] = copy[d]]
  BY Zenon DEF InstallReceipt
<1>3. Lengths' = Lengths
  BY <1>1, Zenon DEF Lengths
<1>4. DataOK'
  BY <1>1, <1>2, <1>3, Zenon DEF DataOK
<1>5. \A e \in Days, m \in Streams :
          /\ file[e][m] \in Nat /\ copy[e][m] \in Nat /\ receipt[e][m] <= copy[e][m]
  BY LengthsNat, Zenon DEF Custody, ReceiptsAreCopies
<1>6. \A e \in Days : receipt'[e] = IF e = d THEN copy[e] ELSE receipt[e]
  BY <1>2, Zenon DEF DataOK
<1>7. \A e \in Days, m \in Streams :
          /\ file[e][m] <= file'[e][m] /\ copy[e][m] <= copy'[e][m]
          /\ receipt'[e][m] <= copy'[e][m]
  BY <1>1, <1>5, <1>6, SMT
<1>8. used'.records >= used.records
  BY <1>1, SMT DEF DataOK
<1> QED BY <1>1, <1>4, <1>7, <1>8, WorldMoves, Zenon

(* Every step preserves the invariant.                                     *)
LEMMA InvStep == IInv /\ [Next]_vars => IInv'
<1> SUFFICES ASSUME IInv, [Next]_vars PROVE IInv'
  OBVIOUS
<1>1. CASE UNCHANGED vars
  <2>1. UNCHANGED <<today, file, recent, current, protected, held, copy, receipt, sweep, view,
                    health, late, used>>
    BY <1>1, Zenon DEF vars, disk, rules
  <2> QED BY <2>1, RulesMove, Zenon DEF IInv, DataOK
<1>2. CASE Thread
  BY <1>2, InvBegin, InvScanDay, InvDecide, InvVerifyFile, InvRemoveFile, InvEnd, Zenon
  DEF Thread
<1>3. CASE Restart \/ Midnight
  <2>1. 1 \in Days
    BY RetentionAssumption, SMT DEF Days
  <2> QED BY <1>3, <2>1, InvRestart, InvRulings, Zenon
<1>4. CASE \E d \in Days, n \in Streams : AppendRecord(d, n) \/ CopyFile(d, n)
  BY <1>4, InvAppendRecord, InvCopyFile, Zenon
<1>5. CASE \E d \in Days :
               GraceElapses(d) \/ Designate(d) \/ HoldOrRelease(d) \/ InstallReceipt(d)
  BY <1>5, InvRulings, InvInstallReceipt, Zenon
<1> QED BY <1>1, <1>2, <1>3, <1>4, <1>5, Zenon DEF Next, Others

-----------------------------------------------------------------------------
(* The inductive invariant holds in every reachable state.                 *)
THEOREM Invariant == Spec => []IInv
BY InvInit, InvStep, PTL DEF Spec

(* The sweep and everything around it keep to their types.                 *)
THEOREM RetentionTypes == Spec => []TypeOK
<1>1. IInv => TypeOK
  BY DEF IInv, TypeOK
<1> QED BY <1>1, Invariant, PTL

(* A file is only ever deleted by the removal loop.                        *)
LEMMA OnlyRemovalDeletes ==
    ASSUME IInv, [Next]_vars, NEW d \in Days, NEW n \in Streams, Deleted(d, n)
    PROVE  sweep.pc = "remove" /\ sweep.day = d
<1>1. file[d][n] # file'[d][n]
  BY LengthsNat, SMT DEF Deleted, IInv
<1>2. ASSUME NEW e \in Days, NEW m \in Streams, AppendRecord(e, m) PROVE FALSE
  <2>1. file'[d][n] = file[d][n] \/ file'[d][n] = file[d][n] + 1
    BY <1>2, SMT DEF AppendRecord, IInv, DataOK, Lengths
  <2> QED BY <1>1, <2>1, LengthsNat, SMT DEF Deleted, IInv
<1>3. \E ok \in BOOLEAN : RemoveFile(ok)
  BY <1>1, <1>2, Zenon DEF Next, Thread, Others, vars, disk, rules, Begin, ScanDay, Decide,
     VerifyFile, End, Restart, Midnight, CopyFile, GraceElapses, Designate, HoldOrRelease,
     InstallReceipt
<1>4. PICK ok \in BOOLEAN : RemoveFile(ok)
  BY <1>3
<1>5. sweep.pc = "remove" /\ sweep.day \in Days
  BY <1>4, RetentionAssumption, SMT DEF RemoveFile, IInv, ThreadOK, Days
<1>6. file' = [file EXCEPT ![sweep.day][Min(sweep.todo)] = 0]
  BY <1>1, <1>4, Zenon DEF RemoveFile
<1>7. sweep.day # d => file'[d] = file[d]
  BY <1>6, Zenon DEF IInv, DataOK
<1> QED BY <1>1, <1>5, <1>7, Zenon

(* Nothing of a session that was protected when the sweep began is deleted *)
(* before a verified copy holds all that the sweep saw of it.              *)
THEOREM ProtectedCopied == Spec => ProtectedHasCopy
<1>1. ASSUME IInv, [Next]_vars, NEW d \in sweep.index, NEW n \in Streams, Deleted(d, n)
      PROVE  view[d].len[n] <= copy[d][n]
  <2>1. d \in Days
    BY <1>1, Zenon DEF IInv, ThreadOK
  <2>2. sweep.pc = "remove" /\ sweep.day = d
    BY <1>1, <2>1, OnlyRemovalDeletes, Zenon
  <2> QED BY <1>1, <2>2, SMT DEF IInv, Custody, HandledIsCopied
<1>2. IInv /\ [Next]_vars =>
         [\A d \in sweep.index, n \in Streams : Deleted(d, n) => view[d].len[n] <= copy[d][n]]_vars
  BY <1>1, Zenon
<1> QED BY <1>2, Invariant, PTL DEF Spec, ProtectedHasCopy

-----------------------------------------------------------------------------
(* The account the sweep keeps of the directory.  The bytes of a session,  *)
(* and of a set of sessions, as totals.                                    *)
BytesIn(f) == [e \in Days |-> Total(f[e], Streams)]
BytesOver(f, S) == Total(BytesIn(f), S)

(* What it has read so far: session by session, then the whole directory.  *)
Read == IF sweep.pc = "scan" THEN 1..sweep.day ELSE Days

(* While it sweeps, its account and what it has removed of the session in  *)
(* hand never exceed what the sessions it has read held then, nor fall     *)
(* short of what they hold now by more than what was written meanwhile.    *)
Balanced ==
    sweep.pc # "sleep" =>
        /\ sweep.bytes <= BytesOver(file, Read) + sweep.removed
        /\ BytesOver(file, Read) + sweep.removed <= sweep.bytes + late
Account ==
    /\ sweep.bytes \in Nat /\ sweep.removed \in Nat
    /\ sweep.pc # "remove" => sweep.removed = 0
    /\ sweep.pc = "verify" => sweep.bytes > Ceiling
    /\ Balanced

(* The sessions and the captures are finitely many.                        *)
LEMMA Finitely == IsFiniteSet(Days) /\ IsFiniteSet(Streams) /\ \A S \in SUBSET Days : IsFiniteSet(S)
<1>1. IsFiniteSet(Days)
  BY RetentionAssumption, FS_Interval DEF Days
<1> QED BY <1>1, RetentionAssumption, FS_Subset

(* The bytes of a session are the total of its files.                      *)
LEMMA BytesIs ==
    ASSUME NEW d
    PROVE  BytesOf(d) = Total(file[d], Streams)
<1> DEFINE f == file[d]
           S == Streams
           Step(g, s) == IF s = {} THEN 0
                         ELSE LET x == CHOOSE x \in s : TRUE IN f[x] + g[s \ {x}]
           Solves(g) == g = [s \in SUBSET S |-> Step(g, s)]
           h == CHOOSE g : Solves(g)
<1>1. BytesOf(d) = h[S]
  BY DEF BytesOf, MapThenSumSet, MapThenFoldSet
<1>2. \A g : Solves(g) <=> SumsOver(g, f, S)
  <2>1. ASSUME NEW g, NEW s PROVE Adds(g, f, s) = Step(g, s) BY Zenon DEF Adds, Pick
  <2> HIDE DEF Step
  <2> QED BY <2>1, Zenon DEF SumsOver
<1> HIDE DEF Solves
<1>3. SumsOver(h, f, S)
  <2>1. \E g : Solves(g) BY <1>2, Finitely, SumsExist
  <2>2. Solves(h) BY <2>1, Zenon
  <2> QED BY <1>2, <2>2, Zenon
<1> HIDE DEF h
<1> QED BY <1>1, <1>3, Finitely, TotalSums

(* The bytes of the directory are the total of its sessions.               *)
LEMMA DirIs == DirBytes = BytesOver(file, Days)
<1> DEFINE f == BytesIn(file)
           S == Days
           Step(g, s) == IF s = {} THEN 0
                         ELSE LET x == CHOOSE x \in s : TRUE IN BytesOf(x) + g[s \ {x}]
           Solves(g) == g = [s \in SUBSET S |-> Step(g, s)]
           h == CHOOSE g : Solves(g)
<1>1. DirBytes = h[S]
  BY DEF DirBytes, MapThenSumSet, MapThenFoldSet
<1>2. \A g : Solves(g) <=> SumsOver(g, f, S)
  <2>1. ASSUME NEW g, NEW s \in SUBSET S PROVE Adds(g, f, s) = Step(g, s)
    <3>1. Step(g, s) = IF s = {} THEN 0 ELSE BytesOf(Pick(s)) + g[s \ {Pick(s)}]
      BY DEF Pick
    <3>2. CASE s = {} BY <3>1, <3>2 DEF Adds
    <3>3. CASE s # {}
      <4>1. Pick(s) \in Days BY <3>3, PickIn
      <4>2. f[Pick(s)] = BytesOf(Pick(s)) BY <4>1, BytesIs, Zenon DEF BytesIn
      <4> HIDE DEF f, Step
      <4> QED BY <3>1, <3>3, <4>2, Zenon DEF Adds
    <3> QED BY <3>2, <3>3
  <2> HIDE DEF Step
  <2>2. ASSUME NEW g
        PROVE  [s \in SUBSET S |-> Step(g, s)] = [s \in SUBSET S |-> Adds(g, f, s)]
    BY <2>1, Zenon
  <2> QED BY <2>2, Zenon DEF SumsOver
<1> HIDE DEF Solves
<1>3. SumsOver(h, f, S)
  <2>1. \E g : Solves(g) BY <1>2, Finitely, SumsExist
  <2>2. Solves(h) BY <2>1, Zenon
  <2> QED BY <1>2, <2>2, Zenon
<1> HIDE DEF h, f
<1>4. DirBytes = Total(f, S) BY <1>1, <1>3, Finitely, TotalSums
<1> QED BY <1>4, Zenon DEF f, BytesOver

(* One file, of a session, gets another length.                            *)
Resized(f, g, d, n, v) == g = [f EXCEPT ![d][n] = v]

(* That changes the bytes of its session by as much, and those of every    *)
(* set of sessions with it.                                                *)
LEMMA OneFile ==
    ASSUME NEW f, f \in [Days -> [Streams -> Nat]], NEW d \in Days, NEW n \in Streams,
           NEW v \in Nat, NEW g, Resized(f, g, d, n, v), NEW S \in SUBSET Days
    PROVE  /\ BytesOver(f, S) \in Int
           /\ d \in S => BytesOver(g, S) = BytesOver(f, S) + (v - f[d][n])
           /\ d \notin S => BytesOver(g, S) = BytesOver(f, S)
<1> USE DEF Resized
<1>1. g \in [Days -> [Streams -> Nat]]
  <2>1. [f[d] EXCEPT ![n] = v] \in [Streams -> Nat]
    OBVIOUS
  <2>2. g = [f EXCEPT ![d] = [f[d] EXCEPT ![n] = v]]
    BY Zenon
  <2> QED BY <2>1, <2>2, Zenon
<1>2. \A e \in Days : BytesIn(f)[e] = Total(f[e], Streams) /\ BytesIn(g)[e] = Total(g[e], Streams)
  BY Zenon DEF BytesIn
<1>3. \A e \in Days : BytesIn(f)[e] \in Int /\ BytesIn(g)[e] \in Int
  <2> SUFFICES ASSUME NEW e \in Days
               PROVE  Total(f[e], Streams) \in Int /\ Total(g[e], Streams) \in Int
    BY <1>2, Zenon
  <2>1. (\A m \in Streams : f[e][m] \in Int) /\ (\A m \in Streams : g[e][m] \in Int)
    BY <1>1
  <2>2. Total(f[e], Streams) \in Int BY <2>1, Finitely, TotalInt
  <2>3. Total(g[e], Streams) \in Int BY <2>1, Finitely, TotalInt
  <2> QED BY <2>2, <2>3
<1>4. \A e \in Days : e # d => BytesIn(g)[e] = BytesIn(f)[e]
  <2>1. \A e \in Days : e # d => g[e] = f[e]
    BY Zenon
  <2> QED BY <1>2, <2>1, Zenon
<1>5. BytesIn(g)[d] = BytesIn(f)[d] + (v - f[d][n])
  <2> DEFINE a == f[d]
             b == g[d]
  <2>1. \A m \in Streams : a[m] \in Int /\ b[m] \in Int
    BY <1>1
  <2>2. b[n] = v /\ \A m \in Streams : m # n => b[m] = a[m]
    OBVIOUS
  <2>3. IsFiniteSet(Streams)
    BY Finitely
  <2>4. BytesIn(f)[d] = Total(a, Streams) /\ BytesIn(g)[d] = Total(b, Streams) /\ f[d][n] = a[n]
    BY <1>2, Zenon
  <2> HIDE DEF a, b
  <2>5. \A m \in Streams : m # n => b[m] = a[m]
    BY <2>2
  <2>6. Total(b, Streams) = Total(a, Streams) + (b[n] - a[n])
    BY <2>1, <2>3, <2>5, TotalChange
  <2> QED BY <2>2, <2>4, <2>6, Zenon
<1>6. IsFiniteSet(S) /\ \A e \in S : e \in Days
  BY Finitely
<1> DEFINE x == BytesIn(f)
           y == BytesIn(g)
<1> HIDE DEF x, y
<1>7. \A e \in S : x[e] \in Int /\ y[e] \in Int
  BY <1>3, <1>6, Zenon DEF x, y
<1>8. \A e \in S : e # d => y[e] = x[e]
  BY <1>4, <1>6, Zenon DEF x, y
<1>9. BytesOver(f, S) = Total(x, S) /\ BytesOver(g, S) = Total(y, S)
  BY Zenon DEF BytesOver, x, y
<1>10. Total(x, S) \in Int
  <2>1. \A e \in S : x[e] \in Int BY <1>7
  <2> QED BY <1>6, <2>1, TotalInt
<1>11. ASSUME d \in S PROVE Total(y, S) = Total(x, S) + (v - f[d][n])
  <2>1. Total(y, S) = Total(x, S) + (y[d] - x[d])
    BY <1>6, <1>7, <1>8, <1>11, TotalChange
  <2>2. y[d] = x[d] + (v - f[d][n]) /\ x[d] \in Int /\ f[d][n] \in Nat
    BY <1>3, <1>5, Zenon DEF x, y
  <2> QED BY <1>10, <2>1, <2>2
<1>12. ASSUME d \notin S PROVE Total(y, S) = Total(x, S)
  <2>1. \A e \in S : y[e] = x[e]
    BY <1>8, <1>12
  <2> QED BY <1>6, <2>1, TotalSame
<1> QED BY <1>9, <1>10, <1>11, <1>12, Zenon


(* Nothing is on the account of a thread that sleeps.                      *)
LEMMA AccountAsleep ==
    ASSUME sweep' = Asleep
    PROVE  Account'
BY SMT DEF Asleep, Account, Balanced

LEMMA AccountInit == Init => Account
BY SMT DEF Init, Asleep, Account, Balanced

(* Files are lengths, and the written records naturals.                    *)
LEMMA FilesNat ==
    ASSUME IInv
    PROVE  file \in [Days -> [Streams -> Nat]] /\ late \in Nat
<1>1. 0..used.records \subseteq Nat /\ late \in Nat
  BY SMT DEF IInv, DataOK
<1>2. Lengths \subseteq [Streams -> Nat]
  BY <1>1, SMT DEF Lengths
<1> QED BY <1>1, <1>2, SMT DEF IInv, DataOK

(* The bytes of a set of sessions are a number.                            *)
LEMMA BytesNat ==
    ASSUME NEW f \in [Days -> [Streams -> Nat]], NEW S \in SUBSET Days
    PROVE  BytesOver(f, S) \in Nat /\ \A d \in Days : Total(f[d], Streams) \in Nat
<1>1. ASSUME NEW d \in Days PROVE Total(f[d], Streams) \in Nat
  <2>1. \A n \in Streams : f[d][n] \in Nat
    OBVIOUS
  <2> QED BY <2>1, Finitely, TotalNat
<1>2. \A d \in S : BytesIn(f)[d] \in Nat
  BY <1>1, Zenon DEF BytesIn
<1>3. Total(BytesIn(f), S) \in Nat
  <2> HIDE DEF BytesIn
  <2>1. IsFiniteSet(S) BY Finitely
  <2> QED BY <1>2, <2>1, TotalNat
<1> QED BY <1>1, <1>3, Zenon DEF BytesOver

LEMMA AccountBegin == IInv /\ Begin => Account'
<1> SUFFICES ASSUME IInv, Begin PROVE Account'
  OBVIOUS
<1>1. sweep'.pc = "scan" /\ sweep'.bytes = 0 /\ sweep'.removed = 0 /\ sweep'.day = 0
  BY SMT DEF Begin, Asleep
<1>2. BytesOver(file', Read') = 0
  <2>1. Read' = {}
    BY <1>1, SMT DEF Read
  <2> QED BY <2>1, TotalEmpty, Zenon DEF BytesOver
<1>3. late' = late
  BY Zenon DEF Begin
<1>4. sweep'.bytes <= BytesOver(file', Read') + sweep'.removed
      /\ BytesOver(file', Read') + sweep'.removed <= sweep'.bytes + late'
  <2> HIDE DEF Read
  <2> QED BY <1>1, <1>2, <1>3, FilesNat, SMT
<1>5. Balanced'
  BY <1>4, Zenon DEF Balanced
<1>6. sweep'.pc # "verify" /\ sweep'.bytes \in Nat /\ sweep'.removed \in Nat
  BY <1>1
<1> QED BY <1>1, <1>5, <1>6, Zenon DEF Account

(* Reading a session adds its bytes.                                       *)
LEMMA AccountScanDay == IInv /\ Account /\ ScanDay => Account'
<1> SUFFICES ASSUME IInv, Account, ScanDay PROVE Account'
  OBVIOUS
<1> DEFINE d == sweep.day + 1
           R == 1..sweep.day
           U == 1..d
<1>1. d \in Days /\ sweep.pc = "scan" /\ sweep.day \in Nat /\ d \in Nat /\ d <= MaxDay
  BY RetentionAssumption, SMT DEF ScanDay, IInv, ThreadOK, Days
<1>2. /\ sweep'.pc = (IF d = MaxDay THEN "next" ELSE "scan")
      /\ sweep'.day = (IF d = MaxDay THEN 0 ELSE d)
      /\ sweep'.removed = sweep.removed
      /\ sweep'.bytes = sweep.bytes + BytesOf(d)
  BY <1>1, SweepFields, SMT DEF ScanDay, IInv
<1>3. UNCHANGED <<file, late>>
  BY Zenon DEF ScanDay, disk
<1>4. Read = R /\ Read' = U
  <2>1. Read = R
    BY <1>1, Zenon DEF Read
  <2>2. ASSUME d = MaxDay PROVE Read' = U
    <3>1. sweep'.pc # "scan" /\ Days = U
      BY <1>2, <2>2 DEF Days
    <3> QED BY <3>1, Zenon DEF Read
  <2>3. ASSUME d # MaxDay PROVE Read' = U
    <3>1. sweep'.pc = "scan" /\ sweep'.day = d
      BY <1>2, <2>3
    <3> QED BY <3>1, Zenon DEF Read
  <2> QED BY <2>1, <2>2, <2>3, Zenon
<1>5. U \in SUBSET Days /\ R \in SUBSET Days /\ d \in U /\ U \ {d} = R
  <2>1. d = sweep.day + 1 /\ MaxDay \in Nat
    BY RetentionAssumption
  <2> HIDE DEF d
  <2> QED BY <1>1, <2>1, SMT DEF Days
<1> DEFINE x == BytesIn(file)
<1>6. \A e \in Days : x[e] = BytesOf(e) /\ BytesOf(e) \in Nat
  <2>1. \A e \in Days : Total(file[e], Streams) \in Nat
    BY FilesNat, BytesNat
  <2> QED BY <2>1, BytesIs, Zenon DEF BytesIn
<1> HIDE DEF U, R, d, x
<1>7. BytesOver(file, U) = BytesOf(d) + BytesOver(file, R)
  <2>1. \A e \in U : x[e] \in Int
    BY <1>5, <1>6
  <2>2. IsFiniteSet(U)
    BY <1>5, Finitely
  <2>3. Total(x, U) = x[d] + Total(x, U \ {d})
    BY <1>5, <2>1, <2>2, TotalTake
  <2> QED BY <1>1, <1>5, <1>6, <2>3, Zenon DEF x, BytesOver
<1>8. BytesOver(file, R) \in Nat /\ BytesOf(d) \in Nat
  BY <1>1, <1>5, <1>6, FilesNat, BytesNat
<1> DEFINE r == BytesOver(file, R)
<1>9. BytesOver(file', Read') = BytesOf(d) + r
  BY <1>3, <1>4, <1>7, Zenon
<1>10. sweep.bytes <= r + sweep.removed /\ r + sweep.removed <= sweep.bytes + late
  <2>1. sweep.pc # "sleep" BY <1>1
  <2> QED BY <1>4, <2>1, Zenon DEF Account, Balanced
<1>11. /\ sweep.bytes \in Nat /\ sweep.removed = 0 /\ late \in Nat /\ r \in Int
  BY <1>1, <1>8, FilesNat DEF Account
<1>12. sweep'.pc # "remove" /\ sweep'.pc # "verify"
  BY <1>2
<1> HIDE DEF r
<1> QED BY <1>2, <1>3, <1>8, <1>9, <1>10, <1>11, <1>12, SMT DEF Account, Balanced

(* Decisions and verifications leave the account alone, and nothing is     *)
(* decided while the directory is inside its ceiling.                      *)
LEMMA AccountDecide == IInv /\ Account /\ Decide => Account'
<1> SUFFICES ASSUME IInv, Account, Decide PROVE Account'
  OBVIOUS
<1>1. /\ sweep'.pc \in {"next", "verify", "remove"} /\ sweep'.bytes = sweep.bytes
      /\ sweep'.removed = sweep.removed /\ sweep.pc = "next"
  BY SweepFields, SMT DEF Decide, IInv
<1>2. UNCHANGED <<file, late>>
  BY Zenon DEF Decide, disk
<1>3. sweep.bytes > Ceiling
  BY RetentionAssumption, SMT DEF Decide, LoopEnds, InsideCeiling, Account
<1>4. Read' = Read
  BY <1>1, Zenon DEF Read
<1> QED BY <1>1, <1>2, <1>3, <1>4, SMT DEF Account, Balanced

LEMMA AccountVerifyFile == IInv /\ Account /\ VerifyFile => Account'
<1> SUFFICES ASSUME IInv, Account, VerifyFile PROVE Account'
  OBVIOUS
<1>1. /\ sweep'.pc \in {"next", "verify", "remove"} /\ sweep'.bytes = sweep.bytes
      /\ sweep'.removed = sweep.removed /\ sweep.pc = "verify"
  BY SweepFields, SMT DEF VerifyFile, IInv
<1>2. UNCHANGED <<file, late>>
  BY Zenon DEF VerifyFile, disk
<1>4. Read' = Read
  BY <1>1, Zenon DEF Read
<1> QED BY <1>1, <1>2, <1>4, SMT DEF Account, Balanced

(* A removal moves a file's length from the disk to what is removed; a     *)
(* removal that fails moves nothing.                                       *)
LEMMA AccountRemoveFile ==
    ASSUME NEW ok \in BOOLEAN
    PROVE  IInv /\ Account /\ RemoveFile(ok) => Account'
<1> SUFFICES ASSUME IInv, Account, RemoveFile(ok) PROVE Account'
  OBVIOUS
<1> DEFINE d == sweep.day
           n == Min(sweep.todo)
           r == Reclaimed(ok, file[d][n])
           removed == sweep.removed + r
<1>1. sweep.pc = "remove" /\ d \in Days /\ n \in Streams
  <2>1. sweep.pc = "remove" /\ sweep.todo # {} /\ d \in Days
    BY RetentionAssumption, SMT DEF RemoveFile, IInv, ThreadOK, Days
  <2> QED BY <2>1, TodoMin, Zenon DEF IInv
<1>2. /\ sweep'.pc \in {"next", "remove"}
      /\ sweep'.pc = "remove" => sweep'.bytes = sweep.bytes /\ sweep'.removed = removed
      /\ sweep'.pc = "next" => /\ sweep'.removed = 0
                               /\ sweep'.bytes = IF sweep.bytes > removed
                                                 THEN sweep.bytes - removed ELSE 0
  <2>1. CASE sweep.todo = {n}
    BY <1>1, <2>1, SweepFields, SMT DEF RemoveFile, IInv
  <2>2. CASE sweep.todo # {n}
    BY <1>1, <2>2, SweepFields, SMT DEF RemoveFile, IInv
  <2> QED BY <2>1, <2>2
<1>3. late' = late /\ file' = IF ok THEN [file EXCEPT ![d][n] = 0] ELSE file
  BY Zenon DEF RemoveFile
<1>4. Read = Days /\ Read' = Days
  BY <1>1, <1>2, Zenon DEF Read
<1>5. file[d][n] \in Nat /\ r \in Nat
  BY <1>1, LengthsNat, SMT DEF IInv, Reclaimed
<1> HIDE DEF d, n
<1>6. BytesOver(file, Days) \in Nat
  BY FilesNat, BytesNat
<1>7. BytesOver(file', Days) = BytesOver(file, Days) - r
  <2>1. CASE ok
    <3>1. Resized(file, file', d, n, 0) /\ 0 \in Nat /\ Days \in SUBSET Days
      BY <1>3, <2>1 DEF Resized
    <3>2. file \in [Days -> [Streams -> Nat]]
      BY FilesNat
    <3>3. BytesOver(file', Days) = BytesOver(file, Days) + (0 - file[d][n])
      BY <1>1, <3>1, <3>2, OneFile
    <3>4. r = file[d][n]
      BY <2>1 DEF Reclaimed
    <3> HIDE DEF r
    <3> QED BY <1>5, <1>6, <3>3, <3>4, SMT
  <2>2. CASE ~ok
    BY <1>3, <1>6, <2>2, SMT DEF Reclaimed
  <2> QED BY <2>1, <2>2
<1> HIDE DEF r
<1>8. /\ sweep.bytes <= BytesOver(file, Days) + sweep.removed
      /\ BytesOver(file, Days) + sweep.removed <= sweep.bytes + late
  <2>1. sweep.pc # "sleep" BY <1>1
  <2> QED BY <1>4, <2>1, Zenon DEF Account, Balanced
<1> DEFINE b == BytesOver(file, Days)
<1>9. BytesOver(file', Read') = b - r
  BY <1>4, <1>7, Zenon
<1>10. b \in Int /\ sweep.bytes <= b + sweep.removed /\ b + sweep.removed <= sweep.bytes + late
  BY <1>6, <1>8
<1>11. sweep.bytes \in Nat /\ sweep.removed \in Nat /\ late \in Nat
  BY FilesNat DEF Account
<1>12. b - r >= 0
  <2>1. file' \in [Days -> [Streams -> Nat]]
    <3>1. [file EXCEPT ![d][n] = 0] \in [Days -> [Streams -> Nat]]
      BY <1>1, FilesNat, SMT
    <3> QED BY <1>3, <3>1, FilesNat, Zenon
  <2>2. BytesOver(file', Days) \in Nat
    BY <2>1, BytesNat
  <2> QED BY <1>7, <2>2
<1> HIDE DEF b
<1>13. CASE sweep'.pc = "remove"
  BY <1>2, <1>3, <1>5, <1>9, <1>10, <1>11, <1>13, SMT DEF Account, Balanced
<1>14. CASE sweep'.pc = "next"
  BY <1>2, <1>3, <1>5, <1>9, <1>10, <1>11, <1>12, <1>14, SMT DEF Account, Balanced
<1> QED BY <1>2, <1>13, <1>14

(* A record is new on the disk and, if its session was read, late.         *)
LEMMA AccountAppendRecord ==
    ASSUME NEW d \in Days, NEW n \in Streams
    PROVE  IInv /\ Account /\ AppendRecord(d, n) => Account'
<1> SUFFICES ASSUME IInv, Account, AppendRecord(d, n) PROVE Account'
  OBVIOUS
<1>1. sweep' = sweep
  BY Zenon DEF AppendRecord
<1>2. Read' = Read
  BY <1>1, Zenon DEF Read
<1>3. CASE sweep.pc = "sleep"
  BY <1>1, <1>3, Zenon DEF Account, Balanced
<1>4. CASE sweep.pc # "sleep"
  <2>1. late' = IF d \in Read THEN late + 1 ELSE late
    <3>1. d \in Read <=> sweep.pc # "scan" \/ d <= sweep.day
      BY DaysNat, SMT DEF Read, IInv, Days
    <3>2. d \in Nat /\ sweep.day \in Nat
      BY DaysNat DEF IInv
    <3> QED BY <1>4, <3>1, <3>2, SMT DEF AppendRecord
  <2>2. Read \in SUBSET Days
    BY RetentionAssumption, SMT DEF Read, Days, IInv, ThreadOK
  <2>3. file[d][n] \in Nat
    BY LengthsNat DEF IInv
  <2>4. file' = [file EXCEPT ![d][n] = file[d][n] + 1]
    BY Zenon DEF AppendRecord
  <2>5. /\ BytesOver(file, Read) \in Int
        /\ d \in Read => BytesOver(file', Read)
                             = BytesOver(file, Read) + ((file[d][n] + 1) - file[d][n])
        /\ d \notin Read => BytesOver(file', Read) = BytesOver(file, Read)
    <3> DEFINE R == Read
               v == file[d][n] + 1
    <3>1. v \in Nat /\ R \in SUBSET Days BY <2>2, <2>3
    <3> HIDE DEF R, v
    <3>2. Resized(file, file', d, n, v) BY <2>4, Zenon DEF v, Resized
    <3>3. /\ BytesOver(file, R) \in Int
          /\ d \in R => BytesOver(file', R) = BytesOver(file, R) + (v - file[d][n])
          /\ d \notin R => BytesOver(file', R) = BytesOver(file, R)
      <4>1. file \in [Days -> [Streams -> Nat]]
        BY FilesNat
      <4> QED BY <3>1, <3>2, <4>1, OneFile
    <3> QED BY <3>3, Zenon DEF R, v
  <2> DEFINE b == BytesOver(file, Read)
             c == BytesOver(file', Read')
  <2>6. b \in Int /\ (d \in Read => c = b + 1) /\ (d \notin Read => c = b)
    BY <1>2, <2>3, <2>5
  <2>7. sweep.bytes <= b + sweep.removed /\ b + sweep.removed <= sweep.bytes + late
    BY <1>4, Zenon DEF Account, Balanced
  <2>8. sweep.bytes \in Nat /\ sweep.removed \in Nat /\ late \in Nat
    BY FilesNat DEF Account
  <2> HIDE DEF b
  <2>9. sweep.bytes <= c + sweep.removed /\ c + sweep.removed <= sweep.bytes + late'
    <3> HIDE DEF c
    <3> QED BY <2>1, <2>6, <2>7, <2>8, SMT
  <2> QED BY <1>1, <2>9, Zenon DEF Account, Balanced, c
<1> QED BY <1>3, <1>4

(* Every step keeps the account.                                           *)
LEMMA AccountStep == IInv /\ Account /\ [Next]_vars => Account'
<1> SUFFICES ASSUME IInv, Account, [Next]_vars PROVE Account'
  OBVIOUS
<1>1. ASSUME UNCHANGED <<file, sweep, late>> PROVE Account'
  <2>1. Read' = Read
    BY <1>1, Zenon DEF Read
  <2> QED BY <1>1, <2>1, Zenon DEF Account, Balanced
<1>2. CASE UNCHANGED vars
  <2>1. UNCHANGED <<file, sweep, late>>
    BY <1>2, Zenon DEF vars, disk
  <2> QED BY <1>1, <2>1
<1>3. CASE Thread
  <2>1. ASSUME End PROVE Account'
    BY <2>1, AccountAsleep, Zenon DEF End
  <2> QED BY <1>3, <2>1, AccountBegin, AccountScanDay, AccountDecide, AccountVerifyFile,
             AccountRemoveFile, Zenon DEF Thread
<1>4. CASE Others
  <2>1. ASSUME Restart PROVE Account'
    BY <2>1, AccountAsleep, Zenon DEF Restart
  <2>2. ASSUME Midnight PROVE Account'
    BY <1>1, <2>2, Zenon DEF Midnight, disk
  <2>3. ASSUME NEW d \in Days, NEW n \in Streams, CopyFile(d, n) PROVE Account'
    BY <1>1, <2>3, Zenon DEF CopyFile, disk
  <2>4. ASSUME NEW d \in Days,
               GraceElapses(d) \/ Designate(d) \/ HoldOrRelease(d) \/ InstallReceipt(d)
        PROVE  Account'
    BY <1>1, <2>4, Zenon DEF GraceElapses, Designate, HoldOrRelease, InstallReceipt, disk
  <2> QED BY <1>4, <2>1, <2>2, <2>3, <2>4, AccountAppendRecord, Zenon DEF Others
<1> QED BY <1>2, <1>3, <1>4, Zenon DEF Next

(* The account keeps step with the directory in every reachable state.     *)
LEMMA AccountAlways == Spec => [](IInv /\ Account)
<1>1. Init => IInv /\ Account
  BY InvInit, AccountInit
<1>2. (IInv /\ Account) /\ [Next]_vars => (IInv /\ Account)'
  BY InvStep, AccountStep
<1> QED BY <1>1, <1>2, PTL DEF Spec

(* A sweep goes for a session only while the directory is over its         *)
(* ceiling: what the account holds, the disk holds.                        *)
THEOREM NothingExtraAlways == Spec => NothingExtra
<1>1. ASSUME IInv, Account, [Next]_vars, sweep.pc # "remove", sweep'.pc = "remove"
      PROVE  DirBytes > Ceiling
  <2>1. Decide \/ VerifyFile
    <3>1. \A ok \in BOOLEAN : RemoveFile(ok) => sweep.pc = "remove"
      BY Zenon DEF RemoveFile
    <3>2. Begin => sweep'.pc = "scan"
      BY SMT DEF Begin, Asleep
    <3>3. ScanDay => sweep'.pc # "remove"
      BY <1>1, SweepFields, SMT DEF ScanDay, IInv
    <3>4. End \/ Restart => sweep'.pc = "sleep"
      BY SMT DEF End, Restart, Asleep
    <3>5. UNCHANGED vars => sweep' = sweep
      BY Zenon DEF vars
    <3>6. \A d \in Days, n \in Streams : AppendRecord(d, n) \/ CopyFile(d, n) => sweep' = sweep
      BY Zenon DEF AppendRecord, CopyFile
    <3>7. \A d \in Days : GraceElapses(d) \/ Designate(d) \/ HoldOrRelease(d) \/ InstallReceipt(d)
                              => sweep' = sweep
      BY Zenon DEF GraceElapses, Designate, HoldOrRelease, InstallReceipt
    <3>8. Midnight => sweep' = sweep
      BY Zenon DEF Midnight
    <3>9. sweep'.pc # "scan" /\ sweep'.pc # "sleep" /\ sweep' # sweep
      BY <1>1
    <3> QED BY <1>1, <3>1, <3>2, <3>3, <3>4, <3>5, <3>6, <3>7, <3>8, <3>9, Zenon
        DEF Next, Thread, Others
  <2>2. sweep.pc \in {"next", "verify"}
    BY <2>1 DEF Decide, VerifyFile
  <2>3. sweep.bytes > Ceiling
    <3>1. sweep.bytes \in Nat
      BY <1>1 DEF Account
    <3>2. ASSUME Decide PROVE ~(sweep.bytes <= Ceiling)
      BY <3>2, Zenon DEF Decide, LoopEnds, InsideCeiling
    <3>3. ASSUME VerifyFile PROVE sweep.bytes > Ceiling
      BY <1>1, <3>3, Zenon DEF VerifyFile, Account
    <3> QED BY <2>1, <3>1, <3>2, <3>3, RetentionAssumption, SMT
  <2>4. Read = Days /\ sweep.removed = 0 /\ sweep.pc # "sleep"
    BY <1>1, <2>2 DEF Read, Account
  <2>5. sweep.bytes <= BytesOver(file, Days) + sweep.removed
    BY <1>1, <2>4, Zenon DEF Account, Balanced
  <2>6. BytesOver(file, Days) \in Nat /\ sweep.bytes \in Nat /\ Ceiling \in Nat
    BY <1>1, FilesNat, BytesNat, RetentionAssumption DEF Account
  <2> QED BY <2>3, <2>4, <2>5, <2>6, DirIs, SMT
<1>2. (IInv /\ Account) /\ [Next]_vars =>
         [sweep.pc # "remove" /\ sweep'.pc = "remove" => DirBytes > Ceiling]_vars
  BY <1>1, Zenon
<1> QED BY <1>2, AccountAlways, PTL DEF Spec, NothingExtra

(* A sweep that ends over the ceiling says so, except for what was written *)
(* since it read the directory.                                            *)
THEOREM PressureNeverSilentAlways == Spec => PressureNeverSilent
<1>1. ASSUME IInv, Account, [Next]_vars, sweep.pc = "next", sweep'.pc = "sleep", used' = used
      PROVE  health'.pending \/ DirBytes - late <= Ceiling
  <2>1. End
    <3>1. Restart => used' # used
      <4>1. used.faults \in Nat
        BY <1>1, RetentionAssumption, SMT DEF IInv, DataOK
      <4>2. Restart => used'.faults = used.faults + 1
        <5>1. used = [records |-> used.records, rulings |-> used.rulings,
                      faults |-> used.faults]
          BY <1>1, Zenon DEF IInv, DataOK
        <5>2. Restart => used' = [used EXCEPT !.faults = @ + 1]
          BY Zenon DEF Restart, Fault
        <5> QED BY <5>1, <5>2, SMT
      <4>3. used.faults + 1 # used.faults
        BY <4>1
      <4> QED BY <4>2, <4>3, Zenon
    <3>2. Begin \/ ScanDay \/ VerifyFile \/ (\E ok \in BOOLEAN : RemoveFile(ok))
              => sweep.pc \in {"sleep", "scan", "verify", "remove"}
      BY Zenon DEF Begin, ScanDay, VerifyFile, RemoveFile
    <3>9. sweep.pc \notin {"sleep", "scan", "verify", "remove"}
      BY <1>1
    <3>3. Decide => sweep'.pc # "sleep"
      BY <1>1, SweepFields, SMT DEF Decide, IInv
    <3>4. sweep' # sweep
      BY <1>1
    <3>5. UNCHANGED vars => sweep' = sweep
      BY Zenon DEF vars
    <3>6. \A d \in Days, n \in Streams : AppendRecord(d, n) \/ CopyFile(d, n) => sweep' = sweep
      BY Zenon DEF AppendRecord, CopyFile
    <3>7. \A d \in Days : GraceElapses(d) \/ Designate(d) \/ HoldOrRelease(d) \/ InstallReceipt(d)
                              => sweep' = sweep
      BY Zenon DEF GraceElapses, Designate, HoldOrRelease, InstallReceipt
    <3>8. Midnight => sweep' = sweep
      BY Zenon DEF Midnight
    <3> QED BY <1>1, <3>1, <3>2, <3>3, <3>4, <3>5, <3>6, <3>7, <3>8, <3>9, Zenon
        DEF Next, Thread, Others
  <2>2. health'.pending = ~InsideCeiling
    BY <2>1, Zenon DEF End
  <2>3. Read = Days /\ sweep.removed = 0 /\ sweep.pc # "sleep"
    BY <1>1 DEF Read, Account
  <2>4. BytesOver(file, Days) + sweep.removed <= sweep.bytes + late
    BY <1>1, <2>3, Zenon DEF Account, Balanced
  <2>5. /\ BytesOver(file, Days) \in Nat /\ sweep.bytes \in Nat /\ Ceiling \in Nat
        /\ late \in Nat
    BY <1>1, FilesNat, BytesNat, RetentionAssumption DEF Account
  <2>6. ASSUME sweep.bytes <= Ceiling PROVE DirBytes - late <= Ceiling
    BY <2>3, <2>4, <2>5, <2>6, DirIs, SMT
  <2> QED BY <2>2, <2>6, Zenon DEF InsideCeiling
<1>2. (IInv /\ Account) /\ [Next]_vars =>
         [sweep.pc = "next" /\ sweep'.pc = "sleep" /\ used' = used
              => health'.pending \/ DirBytes - late <= Ceiling]_vars
  BY <1>1, Zenon
<1> QED BY <1>2, AccountAlways, PTL DEF Spec, PressureNeverSilent

=============================================================================
