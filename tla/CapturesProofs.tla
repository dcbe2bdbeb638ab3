--------------------------- MODULE CapturesProofs ---------------------------
(***************************************************************************)
(* What the captures of the research loop promise, for every value of the  *)
(* constants.                                                              *)
(*                                                                         *)
(* For the capture of a session: what is between the producer task and the *)
(* writer thread is one sequence, Way, of the batch in the thread's hands, *)
(* the channel and the barriers that wait for room.  The invariant IInv    *)
(* says what may be in it: a session closes once; a row behind the barrier *)
(* of its session was counted late; and a session's tally accounts for all *)
(* but the rows on their way, until its barrier is taken.  It follows that *)
(* the tally at the barrier balances, unless a row was late.               *)
(*                                                                         *)
(* When the wall clock never steps back over a session boundary, SInv adds *)
(* what a clean marker rests on: the rows under way fit behind those of    *)
(* their files, each open range names and hashes the rows of its session,  *)
(* and a session that this process saw from before its start, and of which *)
(* nothing is counted lost, has every offered row under way or written.  A *)
(* clean marker then only promises what is synced, and that stays.         *)
(*                                                                         *)
(* For the opportunity engine: the theorems of OpportunityProofs hold of   *)
(* that part of Captures.                                                  *)
(***************************************************************************)
EXTENDS Captures, FoldTheorems, FiniteSetTheorems, SequenceTheorems, TLAPS

-----------------------------------------------------------------------------
(* The types.                                                              *)
Starts == {"mid_session", "session_boundary", "before_session"}
Ends == {"session_boundary", "process_exit"}
Open == [session : Sessions, scored : Nat, start : Starts]
DataLine == [kind : {"row"}, session : Sessions, n : Nat]
MarkLine == [kind : {"late"}, session : Sessions] \cup [kind : {"loss"}, lost : Nat]
DataMsg == [msg : {"line"}, file : DataFiles, line : DataLine, session : Sessions]
MarkMsg == [msg : {"line"}, file : {MarkerFile}, line : MarkLine, session : {None}]
CloseMsg == [msg : {"close"}, session : Sessions, by : Ends, start : Starts, scored : Nat]
LineMsg == DataMsg \cup MarkMsg
Msg == LineMsg \cup CloseMsg
Health == [attempted : Nat, written : Nat, dropped : Nat, errors : Nat]
Tally == [attempted : Nat, written : Nat, dropped : Nat, errors : Nat, spans : Nat,
          flushErrors : Nat, late : Nat, inLoss : BOOLEAN]
Extent == [start : Nat, end : Nat, rows : Nat, hash : Seq(DataLine), atEnd : Seq(DataLine)]
Marker == [kind : {"session"}, session : Sessions, by : Ends, start : Starts, scored : Nat,
           tally : Tally, ranges : [DataFiles -> Extent], flushed : BOOLEAN,
           synced : BOOLEAN, exact : BOOLEAN]
FileLine == DataLine \cup MarkLine \cup Marker
File == [buf : Seq(FileLine), disk : Seq(FileLine), synced : Nat]
Thread == [pc : {"recv", "msgs", "marker", "sync"}, batch : Seq(Msg), touched : SUBSET Files,
           wrote : Nat, close : Marker \cup {None}]
QueueState == [chan : Seq(Msg), reserved : Nat, unreported : Nat, closed : SUBSET Sessions,
               pending : Seq(CloseMsg)]

Typed ==
    /\ now \in Sessions /\ begun \in Sessions \cup {None} /\ closedOne \in BOOLEAN
    /\ account \in Open \cup {None}
    /\ prod \in [pc : {"idle", "reserve", "send", "sent", "exit"}, row : DataMsg \cup {None}]
    /\ prod.pc \in {"reserve", "send", "sent"} => prod.row \in DataMsg
    /\ Q \in QueueState
    /\ health \in Health /\ tally \in [Sessions -> Tally]
    /\ writer \in Thread
    /\ writer.pc = "recv" => writer.batch = <<>>
    /\ writer.pc \in {"marker", "sync"} => writer.close \in Marker
    /\ opened \subseteq Files /\ poisoned \subseteq opened
    /\ ranges \in [Sessions -> [DataFiles -> Extent]]
    /\ file \in [Files -> File]
    /\ emitted \subseteq DataLine /\ IsFiniteSet(emitted)
    /\ unmarked \subseteq Sessions /\ faults \in Nat

Bounded ==
    /\ Len(chan) <= QueueRecords /\ Len(writer.batch) <= Batch /\ reserved <= QueueBytes
    /\ unreported <= health.dropped
    /\ \A f \in Files : file[f].synced <= Len(file[f].disk)

(* What is on its way to the thread: its batch, the channel and the        *)
(* barriers that wait for room, in that order.                             *)
Way(b, q) == (b \o q.chan) \o q.pending
Count(w, M) == Cardinality({i \in DOMAIN w : w[i] \in M})
DataOf(s) == {m \in DataMsg : m.session = s}
ClosesAt(w, i, s) == w[i] \in CloseMsg /\ w[i].session = s
Awaits(w, s) == \E i \in DOMAIN w : ClosesAt(w, i, s)
Follows(w, s) == \E i, j \in DOMAIN w : i < j /\ ClosesAt(w, i, s) /\ w[j] \in DataOf(s)
OneEach(w) == \A i, j \in DOMAIN w : \A s \in Sessions :
                  ClosesAt(w, i, s) /\ ClosesAt(w, j, s) => i = j

\* What is in w, what comes before what, and v as w with the messages of B put in:
\* rows only behind the rows of w.
OnWay(w, m) == \E i \in DOMAIN w : w[i] = m
Ahead(w, m, n) == \E i, j \in DOMAIN w : i < j /\ w[i] = m /\ w[j] = n
Gains(w, v, B) ==
    /\ \A m \in DataMsg : OnWay(v, m) <=> OnWay(w, m) \/ m \in B
    /\ \A m, n \in DataMsg : Ahead(v, m, n) => Ahead(w, m, n) \/ (OnWay(w, m) /\ n \in B)
    /\ \A m \in CloseMsg : OnWay(v, m) => OnWay(w, m) \/ m \in B

W == Way(writer.batch, Q)
InHand(M) == IF prod.pc \in {"reserve", "send"} /\ prod.row \in M THEN 1 ELSE 0

Reserved == reserved = Count(W, LineMsg) + (IF prod.pc = "send" THEN 1 ELSE 0)

(* A session is closed once.                                               *)
ClosedOnce ==
    /\ OneEach(W)
    /\ \A s \in Sessions : Awaits(W, s) => s \in closed
    /\ account # None => \A s \in closed : s < account.session
    /\ account = None /\ prod.pc # "exit" => closed = {}

(* A row that comes behind the barrier of its session was counted late.    *)
LateIsCounted ==
    \A s \in Sessions :
        Follows(W, s) \/ (Awaits(W, s) /\ InHand(DataOf(s)) = 1) => tally[s].late > 0

(* Until its barrier is handled, the tally of a session accounts for all   *)
(* but what is on its way.                                                 *)
TallyAccounts ==
    \A s \in Sessions : s \notin closed \/ Awaits(W, s) =>
        tally[s].attempted = tally[s].written + tally[s].dropped + tally[s].errors
                                + Count(W, DataOf(s)) + InHand(DataOf(s))

Balanced == {m \in FileLine : m.kind = "session" => Balances(m.tally) \/ m.tally.late > 0}
MarkersBalance ==
    /\ writer.pc \in {"marker", "sync"} => writer.close \in Balanced
    /\ file[MarkerFile].buf \in Seq(Balanced) /\ file[MarkerFile].disk \in Seq(Balanced)

HealthAccounts ==
    health.attempted <= health.written + health.dropped + health.errors + writer.wrote
                            + Count(W, DataMsg) + InHand(DataMsg)

IInv == /\ Typed /\ Bounded /\ Reserved /\ ClosedOnce /\ LateIsCounted
        /\ TallyAccounts /\ MarkersBalance /\ HealthAccounts

-----------------------------------------------------------------------------
(* Counting in a sequence.                                                 *)
LEMMA CountType ==
    ASSUME NEW S, NEW w \in Seq(S), NEW M
    PROVE  /\ Count(w, M) \in Nat
           /\ IsFiniteSet({i \in DOMAIN w : w[i] \in M})
           /\ Count(w, M) = 0 <=> \A i \in DOMAIN w : w[i] \notin M
<1> DEFINE A == {i \in DOMAIN w : w[i] \in M}
<1>1. DOMAIN w = 1..Len(w) /\ Len(w) \in Nat BY LenProperties
<1>2. IsFiniteSet(1..Len(w)) BY <1>1, FS_Interval
<1>3. A \in SUBSET (1..Len(w)) BY <1>1
<1>4. IsFiniteSet(A) BY <1>2, <1>3, FS_Subset
<1>5. Cardinality(A) \in Nat BY <1>4, FS_CardinalityType
<1>6. Cardinality(A) = 0 <=> A = {} BY <1>4, FS_EmptySet
<1> QED BY <1>4, <1>5, <1>6 DEF Count

\* Members of M in two sequences, one after the other.
LEMMA CountConcat ==
    ASSUME NEW S, NEW v \in Seq(S), NEW w \in Seq(S), NEW M
    PROVE  Count(v \o w, M) = Count(v, M) + Count(w, M)
<1> DEFINE A == {i \in DOMAIN v : v[i] \in M}
           B == {i \in DOMAIN w : w[i] \in M}
           C == {i \in DOMAIN (v \o w) : (v \o w)[i] \in M}
           n == Len(v)
           D == C \ A
           f == [i \in B |-> i + n]
<1>1. /\ n \in Nat /\ Len(w) \in Nat
      /\ DOMAIN v = 1..n /\ DOMAIN w = 1..Len(w) /\ DOMAIN (v \o w) = 1..(n + Len(w))
      /\ \A i \in 1..(n + Len(w)) : (v \o w)[i] = IF i <= n THEN v[i] ELSE w[i - n]
  BY LenProperties, ConcatProperties
<1>2. A = {i \in C : i <= n}
  <2>1. \A i \in 1..n : (v \o w)[i] = v[i] BY <1>1
  <2> QED BY <1>1, <2>1
<1>3. D = {i \in C : i > n} BY <1>1, <1>2
<1>4. \A i \in B : i + n \in D
  <2>1. \A i \in 1..Len(w) : (v \o w)[i + n] = w[i] BY <1>1
  <2> QED BY <1>1, <1>3, <2>1
<1>5. \A j \in D : j - n \in B BY <1>1, <1>3
<1>6. f \in [B -> D] BY <1>4
<1>7. f \in Injection(B, D) BY <1>1, <1>6 DEF Injection, IsInjective
<1>8. f \in Surjection(B, D)
  <2>1. \A j \in D : \E i \in B : f[i] = j
    <3> TAKE j \in D
    <3>1. j - n \in B BY <1>5
    <3>2. f[j - n] = j BY <1>1, <3>1
    <3> QED BY <3>1, <3>2
  <2> QED BY <1>6, <2>1 DEF Surjection
<1>9. ExistsBijection(B, D) BY <1>7, <1>8 DEF ExistsBijection, Bijection
<1>10. IsFiniteSet(A) /\ IsFiniteSet(B) BY CountType
<1>11. IsFiniteSet(D) /\ Cardinality(D) = Cardinality(B) BY <1>9, <1>10, FS_Bijection
<1>12. C = A \cup D /\ A \cap D = {} BY <1>2
<1>13. Cardinality(A) \in Nat /\ Cardinality(B) \in Nat BY <1>10, FS_CardinalityType
<1> HIDE DEF A, B, C, D
<1>14. Cardinality(A \cup D) = Cardinality(A) + Cardinality(D) - Cardinality(A \cap D)
  BY <1>10, <1>11, FS_Union
<1>15. Cardinality(A \cap D) = 0 BY <1>12, FS_EmptySet
<1>16. Cardinality(C) = Cardinality(A) + Cardinality(B)
  BY <1>11, <1>12, <1>13, <1>14, <1>15
<1> QED BY <1>16 DEF Count, A, B, C

\* Members of M in a sequence of one.
LEMMA CountOne ==
    ASSUME NEW x, NEW M
    PROVE  Count(<<x>>, M) = IF x \in M THEN 1 ELSE 0
<1> DEFINE A == {i \in DOMAIN <<x>> : <<x>>[i] \in M}
<1>1. CASE x \in M
  <2>1. A = {1} BY <1>1
  <2>2. Cardinality({1}) = 1 BY FS_Singleton
  <2> QED BY <1>1, <2>1, <2>2 DEF Count
<1>2. CASE x \notin M
  <2>1. A = {} BY <1>2
  <2> QED BY <1>2, <2>1, FS_EmptySet DEF Count
<1> QED BY <1>1, <1>2

\* One more message, counted if it is in M.
LEMMA CountAppend ==
    ASSUME NEW S, NEW w \in Seq(S), NEW x \in S, NEW M
    PROVE  Count(Append(w, x), M) = Count(w, M) + (IF x \in M THEN 1 ELSE 0)
<1>1. Append(w, x) = w \o <<x>> BY AppendIsConcat
<1>2. <<x>> \in Seq(S) OBVIOUS
<1>3. Count(w \o <<x>>, M) = Count(w, M) + Count(<<x>>, M) BY <1>2, CountConcat
<1>4. Count(<<x>>, M) = IF x \in M THEN 1 ELSE 0 BY CountOne
<1> QED BY <1>1, <1>3, <1>4

\* A sequence is its head and its tail.
LEMMA HeadAndTail ==
    ASSUME NEW S, NEW w \in Seq(S), w # <<>>
    PROVE  w = <<Head(w)>> \o Tail(w)
<1>1. Len(w) \in Nat \ {0} BY EmptySeq, LenProperties
<1>2. 1 \in 1..Len(w) /\ Len(w) \in 1..Len(w) BY <1>1
<1>3. SubSeq(w, 1, Len(w)) = <<w[1]>> \o SubSeq(w, 2, Len(w))
  <2>1. SubSeq(w, 1, Len(w)) = <<w[1]>> \o SubSeq(w, 1 + 1, Len(w))
    BY <1>2, SubSeqRecursiveFirst
  <2> QED BY <2>1
<1>4. SubSeq(w, 1, Len(w)) = w BY SubSeqFull
<1>5. Tail(w) = SubSeq(w, 2, Len(w)) BY TailIsSubSeq
<1>6. Head(w) = w[1] OBVIOUS
<1> QED BY <1>3, <1>4, <1>5, <1>6

\* Taking the head off takes it off the count.
LEMMA CountTail ==
    ASSUME NEW S, NEW w \in Seq(S), w # <<>>, NEW M
    PROVE  Count(w, M) = Count(Tail(w), M) + (IF Head(w) \in M THEN 1 ELSE 0)
<1>1. Head(w) \in S /\ Tail(w) \in Seq(S) BY HeadTailProperties
<1>2. <<Head(w)>> \in Seq(S) BY <1>1
<1>3. w = <<Head(w)>> \o Tail(w) BY HeadAndTail
<1>4. Count(w, M) = Count(<<Head(w)>>, M) + Count(Tail(w), M)
  <2>1. Count(<<Head(w)>> \o Tail(w), M) = Count(<<Head(w)>>, M) + Count(Tail(w), M)
    BY <1>1, <1>2, CountConcat
  <2> QED BY <1>3, <2>1
<1>5. Count(<<Head(w)>>, M) = IF Head(w) \in M THEN 1 ELSE 0 BY CountOne
<1>6. Count(Tail(w), M) \in Nat BY <1>1, CountType
<1> QED BY <1>4, <1>5, <1>6

\* Of what a sequence is not made of, it holds nothing.
LEMMA CountNone ==
    ASSUME NEW S, NEW w \in Seq(S), NEW M, S \cap M = {}
    PROVE  Count(w, M) = 0
<1>1. \A i \in DOMAIN w : w[i] \notin M BY LenProperties, ElementOfSeq
<1> QED BY <1>1, CountType

-----------------------------------------------------------------------------
(* The order of what is on its way.                                        *)

\* A message at the head is taken off.
LEMMA TakeHead ==
    ASSUME NEW w \in Seq(Msg), w # <<>>
    PROVE  /\ Tail(w) \in Seq(Msg) /\ Head(w) \in Msg
           /\ \A s : Awaits(Tail(w), s) => Awaits(w, s)
           /\ \A s : Follows(Tail(w), s) => Follows(w, s)
           /\ OneEach(w) => OneEach(Tail(w))
           /\ Head(w) \notin CloseMsg => \A s : Awaits(w, s) => Awaits(Tail(w), s)
           /\ Head(w) \in CloseMsg =>
                  LET s == Head(w).session
                  IN  /\ Awaits(w, s)
                      /\ \A t : Awaits(w, t) => t = s \/ Awaits(Tail(w), t)
                      /\ OneEach(w) => ~Awaits(Tail(w), s)
                      /\ ~Follows(w, s) => Count(Tail(w), DataOf(s)) = 0
<1> DEFINE v == Tail(w)
<1>1. /\ v \in Seq(Msg) /\ Head(w) \in Msg /\ Len(v) = Len(w) - 1
      /\ \A i \in 1..Len(v) : v[i] = w[i + 1]
  BY HeadTailProperties
<1>2. /\ Len(w) \in Nat \ {0} /\ DOMAIN w = 1..Len(w) /\ DOMAIN v = 1..Len(v)
      /\ Head(w) = w[1]
  BY <1>1, EmptySeq, LenProperties
<1> HIDE DEF v
<1>3. \A i \in DOMAIN v : i + 1 \in DOMAIN w /\ v[i] = w[i + 1] BY <1>1, <1>2
<1>4. \A j \in DOMAIN w : j = 1 \/ (j - 1 \in DOMAIN v /\ w[j] = v[j - 1]) BY <1>1, <1>2
<1>5. \A s : Awaits(v, s) => Awaits(w, s) BY <1>3 DEF Awaits, ClosesAt
<1>6. \A s : Follows(v, s) => Follows(w, s)
  <2> SUFFICES ASSUME NEW s, Follows(v, s) PROVE Follows(w, s) OBVIOUS
  <2>1. PICK i \in DOMAIN v, j \in DOMAIN v : i < j /\ ClosesAt(v, i, s) /\ v[j] \in DataOf(s)
    BY DEF Follows
  <2>2. i + 1 < j + 1 BY <1>1, <1>2, <2>1
  <2> QED BY <1>3, <2>1, <2>2 DEF Follows, ClosesAt
<1>7. OneEach(w) => OneEach(v)
  <2> SUFFICES ASSUME OneEach(w), NEW i \in DOMAIN v, NEW j \in DOMAIN v, NEW s \in Sessions,
                      ClosesAt(v, i, s), ClosesAt(v, j, s)
               PROVE  i = j
    BY DEF OneEach
  <2>1. i + 1 = j + 1 BY <1>3 DEF OneEach, ClosesAt
  <2> QED BY <1>1, <1>2, <2>1
<1>8. ASSUME Head(w) \notin CloseMsg, NEW s, Awaits(w, s) PROVE Awaits(v, s)
  <2>1. PICK i \in DOMAIN w : ClosesAt(w, i, s) BY <1>8 DEF Awaits
  <2>2. i # 1 BY <1>2, <1>8, <2>1 DEF ClosesAt
  <2> QED BY <1>4, <2>1, <2>2 DEF Awaits, ClosesAt
<1>9. ASSUME Head(w) \in CloseMsg
      PROVE  /\ Awaits(w, Head(w).session)
             /\ \A t : Awaits(w, t) => t = Head(w).session \/ Awaits(v, t)
             /\ OneEach(w) => ~Awaits(v, Head(w).session)
             /\ ~Follows(w, Head(w).session) => Count(v, DataOf(Head(w).session)) = 0
  <2> DEFINE s == Head(w).session
  <2>1. 1 \in DOMAIN w /\ ClosesAt(w, 1, s) BY <1>2, <1>9 DEF ClosesAt
  <2>2. s \in Sessions BY <1>9 DEF CloseMsg
  <2> HIDE DEF s
  <2>3. Awaits(w, s) BY <2>1 DEF Awaits
  <2>4. ASSUME NEW t, Awaits(w, t) PROVE t = s \/ Awaits(v, t)
    <3>1. PICK i \in DOMAIN w : ClosesAt(w, i, t) BY <2>4 DEF Awaits
    <3>2. CASE i = 1 BY <2>1, <3>1, <3>2 DEF ClosesAt
    <3>3. CASE i # 1 BY <1>4, <3>1, <3>3 DEF Awaits, ClosesAt
    <3> QED BY <3>2, <3>3
  <2>5. ASSUME OneEach(w), Awaits(v, s) PROVE FALSE
    <3>1. PICK i \in DOMAIN v : ClosesAt(v, i, s) BY <2>5 DEF Awaits
    <3>2. i + 1 \in DOMAIN w /\ ClosesAt(w, i + 1, s) BY <1>3, <3>1 DEF ClosesAt
    <3>3. i + 1 = 1 BY <2>1, <2>2, <2>5, <3>2 DEF OneEach
    <3> QED BY <1>1, <1>2, <3>1, <3>3
  <2>6. ASSUME ~Follows(w, s) PROVE Count(v, DataOf(s)) = 0
    <3>1. \A i \in DOMAIN v : v[i] \notin DataOf(s)
      <4> SUFFICES ASSUME NEW i \in DOMAIN v, v[i] \in DataOf(s) PROVE FALSE OBVIOUS
      <4>1. i + 1 \in DOMAIN w /\ w[i + 1] \in DataOf(s) BY <1>3
      <4>2. 1 < i + 1 BY <1>1, <1>2
      <4> QED BY <2>1, <2>6, <4>1, <4>2 DEF Follows
    <3> QED BY <1>1, <3>1, CountType
  <2> QED BY <2>3, <2>4, <2>5, <2>6 DEF s
<1> QED BY <1>1, <1>5, <1>6, <1>7, <1>8, <1>9 DEF v

\* A line is put behind what is in the channel, before the barriers that wait.
LEMMA PutLine ==
    ASSUME NEW x \in Seq(Msg), NEW y \in Seq(CloseMsg), NEW m \in LineMsg
    PROVE  LET w == x \o y  v == Append(x, m) \o y
           IN  /\ v \in Seq(Msg) /\ w \in Seq(Msg)
               /\ \A s : Awaits(v, s) <=> Awaits(w, s)
               /\ \A s : Follows(v, s) => Follows(w, s) \/ (m \in DataOf(s) /\ Awaits(w, s))
               /\ OneEach(w) => OneEach(v)
               /\ \A M : Count(v, M) = Count(w, M) + (IF m \in M THEN 1 ELSE 0)
               /\ Gains(w, v, {m})
<1> DEFINE w == x \o y
           v == Append(x, m) \o y
           n == Len(x)
           old(i) == IF i <= n THEN i ELSE i - 1
           new(i) == IF i <= n THEN i ELSE i + 1
<1>1. m \in Msg /\ y \in Seq(Msg) BY DEF Msg
<1>2. Append(x, m) \in Seq(Msg) /\ Len(Append(x, m)) = n + 1
      /\ (\A i \in 1..n : Append(x, m)[i] = x[i]) /\ Append(x, m)[n + 1] = m
  BY <1>1, AppendProperties
<1>3. /\ n \in Nat /\ Len(y) \in Nat
      /\ w \in Seq(Msg) /\ Len(w) = n + Len(y)
      /\ \A i \in 1..(n + Len(y)) : w[i] = IF i <= n THEN x[i] ELSE y[i - n]
  BY <1>1, LenProperties, ConcatProperties
<1>4. /\ v \in Seq(Msg) /\ Len(v) = n + 1 + Len(y)
      /\ \A i \in 1..(n + 1 + Len(y)) :
             v[i] = IF i <= n + 1 THEN Append(x, m)[i] ELSE y[i - (n + 1)]
  BY <1>1, <1>2, ConcatProperties
<1>5. DOMAIN w = 1..(n + Len(y)) /\ DOMAIN v = 1..(n + 1 + Len(y))
  BY <1>3, <1>4, LenProperties
<1>6. \A M : Count(v, M) = Count(w, M) + (IF m \in M THEN 1 ELSE 0)
  <2> TAKE M
  <2>1. Count(v, M) = Count(Append(x, m), M) + Count(y, M) BY <1>1, <1>2, CountConcat
  <2>2. Count(Append(x, m), M) = Count(x, M) + (IF m \in M THEN 1 ELSE 0)
    BY <1>1, CountAppend
  <2>3. Count(w, M) = Count(x, M) + Count(y, M) BY <1>1, CountConcat
  <2>4. Count(x, M) \in Nat /\ Count(y, M) \in Nat BY CountType
  <2> HIDE DEF v, w
  <2> QED BY <2>1, <2>2, <2>3, <2>4
<1> HIDE DEF v, w, n
<1>7. v[n + 1] = m BY <1>2, <1>3, <1>4
<1>8. m \notin CloseMsg BY DEF LineMsg, DataMsg, MarkMsg, CloseMsg
<1>9. ASSUME NEW i \in DOMAIN v, i # n + 1
      PROVE  old(i) \in DOMAIN w /\ v[i] = w[old(i)]
  <2>0. i \in 1..(n + 1 + Len(y)) BY <1>5
  <2>1. CASE i <= n
    <3>0. Len(y) \in Nat /\ n \in Nat BY <1>3
    <3>1. i \in 1..n /\ i \in 1..(n + Len(y)) BY <2>0, <2>1, <3>0
    <3>2. i <= n + 1 BY <2>0, <2>1, <3>0
    <3>3. v[i] = Append(x, m)[i] BY <1>4, <2>0, <3>2
    <3>4. w[i] = x[i] BY <1>3, <2>1, <3>1
    <3> QED BY <1>2, <1>5, <2>1, <3>1, <3>3, <3>4
  <2>2. CASE i > n + 1
    <3>1. i - 1 \in 1..(n + Len(y)) /\ ~(i - 1 <= n) /\ ~(i <= n) BY <1>3, <2>0, <2>2
    <3>2. v[i] = y[i - (n + 1)] BY <1>3, <1>4, <2>0, <2>2
    <3>3. w[i - 1] = y[(i - 1) - n] BY <1>3, <3>1
    <3>4. i - (n + 1) = (i - 1) - n BY <1>3, <2>0
    <3> QED BY <1>5, <3>1, <3>2, <3>3, <3>4
  <2> QED BY <1>3, <1>9, <2>0, <2>1, <2>2
<1>10. ASSUME NEW i \in DOMAIN w PROVE new(i) \in DOMAIN v /\ w[i] = v[new(i)]
  <2>0. i \in 1..(n + Len(y)) BY <1>5
  <2>1. CASE i <= n
    <3>1. i \in 1..n /\ i \in 1..(n + 1 + Len(y)) /\ i <= n + 1 BY <1>3, <2>0, <2>1
    <3>2. v[i] = Append(x, m)[i] BY <1>4, <3>1
    <3>3. w[i] = x[i] BY <1>3, <2>0, <2>1
    <3> QED BY <1>2, <1>5, <2>1, <3>1, <3>2, <3>3
  <2>2. CASE i > n
    <3>1. i + 1 \in 1..(n + 1 + Len(y)) /\ ~(i + 1 <= n + 1) /\ ~(i <= n)
      BY <1>3, <2>0, <2>2
    <3>2. v[i + 1] = y[(i + 1) - (n + 1)] BY <1>4, <3>1
    <3>3. w[i] = y[i - n] BY <1>3, <2>0, <3>1
    <3>4. (i + 1) - (n + 1) = i - n BY <1>3, <2>0
    <3> QED BY <1>5, <3>1, <3>2, <3>3, <3>4
  <2> QED BY <1>3, <2>0, <2>1, <2>2
<1>11. \A s : Awaits(v, s) <=> Awaits(w, s)
  <2> TAKE s
  <2>1. ASSUME Awaits(v, s) PROVE Awaits(w, s)
    <3>1. PICK i \in DOMAIN v : ClosesAt(v, i, s) BY <2>1 DEF Awaits
    <3>2. i # n + 1 BY <1>7, <1>8, <3>1 DEF ClosesAt
    <3>3. old(i) \in DOMAIN w /\ w[old(i)] = v[i] BY <1>9, <3>2
    <3> QED BY <3>1, <3>3 DEF Awaits, ClosesAt
  <2>2. ASSUME Awaits(w, s) PROVE Awaits(v, s)
    <3>1. PICK i \in DOMAIN w : ClosesAt(w, i, s) BY <2>2 DEF Awaits
    <3>2. new(i) \in DOMAIN v /\ w[i] = v[new(i)] BY <1>10
    <3> QED BY <3>1, <3>2 DEF Awaits, ClosesAt
  <2> QED BY <2>1, <2>2
<1>12. ASSUME NEW s, Follows(v, s) PROVE Follows(w, s) \/ (m \in DataOf(s) /\ Awaits(w, s))
  <2>1. PICK i \in DOMAIN v, j \in DOMAIN v : i < j /\ ClosesAt(v, i, s) /\ v[j] \in DataOf(s)
    BY <1>12 DEF Follows
  <2>2. i # n + 1 BY <1>7, <1>8, <2>1 DEF ClosesAt
  <2>3. old(i) \in DOMAIN w /\ ClosesAt(w, old(i), s) BY <1>9, <2>1, <2>2 DEF ClosesAt
  <2>4. CASE j = n + 1 BY <1>7, <2>1, <2>3, <2>4 DEF Awaits
  <2>5. CASE j # n + 1
    <3>1. old(j) \in DOMAIN w /\ w[old(j)] \in DataOf(s) BY <1>9, <2>1, <2>5
    <3>2. old(i) < old(j) BY <1>3, <1>5, <2>1, <2>2, <2>5
    <3> QED BY <2>3, <3>1, <3>2 DEF Follows
  <2> QED BY <2>4, <2>5
<1>13. ASSUME OneEach(w) PROVE OneEach(v)
  <2> SUFFICES ASSUME NEW i \in DOMAIN v, NEW j \in DOMAIN v, NEW s \in Sessions,
                      ClosesAt(v, i, s), ClosesAt(v, j, s)
               PROVE  i = j
    BY DEF OneEach
  <2>1. i # n + 1 /\ j # n + 1 BY <1>7, <1>8 DEF ClosesAt
  <2>2. old(i) = old(j) BY <1>9, <1>13, <2>1 DEF OneEach, ClosesAt
  <2> QED BY <1>3, <1>5, <2>1, <2>2
<1>14. ASSUME NEW l \in Msg
       PROVE  OnWay(v, l) <=> OnWay(w, l) \/ l = m
  <2>1. ASSUME OnWay(v, l), l # m PROVE OnWay(w, l)
    <3>1. PICK i \in DOMAIN v : v[i] = l BY <2>1 DEF OnWay
    <3>2. i # n + 1 BY <1>7, <2>1, <3>1
    <3> QED BY <1>9, <3>1, <3>2 DEF OnWay
  <2>2. ASSUME OnWay(w, l) PROVE OnWay(v, l)
    <3>1. PICK i \in DOMAIN w : w[i] = l BY <2>2 DEF OnWay
    <3>2. new(i) \in DOMAIN v /\ v[new(i)] = l BY <1>10, <3>1
    <3> QED BY <3>2 DEF OnWay
  <2>3. OnWay(v, m)
    <3>1. n + 1 \in DOMAIN v BY <1>3, <1>5
    <3> QED BY <1>7, <3>1 DEF OnWay
  <2> QED BY <2>1, <2>2, <2>3
<1>15. ASSUME NEW k \in DataMsg, NEW l \in DataMsg, Ahead(v, k, l)
       PROVE  Ahead(w, k, l) \/ (OnWay(w, k) /\ l = m)
  <2>1. PICK i \in DOMAIN v, j \in DOMAIN v : i < j /\ v[i] = k /\ v[j] = l
    BY <1>15 DEF Ahead
  <2>2. i # n + 1
    <3> SUFFICES ASSUME i = n + 1 PROVE FALSE OBVIOUS
    <3>1. j \in 1..(n + 1 + Len(y)) /\ ~(j <= n + 1) /\ j - (n + 1) \in 1..Len(y)
      BY <1>3, <1>5, <2>1
    <3>2. v[j] = y[j - (n + 1)] BY <1>4, <3>1
    <3>3. y[j - (n + 1)] \in CloseMsg BY <3>1, ElementOfSeq
    <3> QED BY <2>1, <3>2, <3>3 DEF CloseMsg, DataMsg
  <2>3. old(i) \in DOMAIN w /\ w[old(i)] = k BY <1>9, <2>1, <2>2
  <2>4. CASE j = n + 1 BY <1>7, <2>1, <2>3, <2>4 DEF OnWay
  <2>5. CASE j # n + 1
    <3>1. old(j) \in DOMAIN w /\ w[old(j)] = l BY <1>9, <2>1, <2>5
    <3>2. old(i) < old(j) BY <1>3, <1>5, <2>1, <2>2, <2>5
    <3> QED BY <2>3, <3>1, <3>2 DEF Ahead
  <2> QED BY <2>4, <2>5
<1>16. Gains(w, v, {m})
  <2>1. DataMsg \subseteq Msg /\ CloseMsg \subseteq Msg BY DEF Msg, LineMsg
  <2> QED BY <1>14, <1>15, <2>1 DEF Gains
<1> QED BY <1>3, <1>4, <1>6, <1>11, <1>12, <1>13, <1>16 DEF v, w

\* A barrier is put last.
LEMMA PutBarrier ==
    ASSUME NEW w \in Seq(Msg), NEW m \in CloseMsg
    PROVE  LET v == Append(w, m)
           IN  /\ v \in Seq(Msg)
               /\ \A s : Awaits(v, s) <=> Awaits(w, s) \/ s = m.session
               /\ \A s : Follows(v, s) => Follows(w, s)
               /\ OneEach(w) /\ ~Awaits(w, m.session) => OneEach(v)
               /\ \A M : M \subseteq LineMsg => Count(v, M) = Count(w, M)
               /\ Gains(w, v, {m})
<1> DEFINE v == Append(w, m)
           n == Len(w)
<1>1. m \in Msg BY DEF Msg
<1>2. /\ v \in Seq(Msg) /\ Len(v) = n + 1
      /\ \A i \in 1..n : v[i] = w[i]
      /\ v[n + 1] = m
  BY <1>1, AppendProperties
<1>3. n \in Nat /\ DOMAIN w = 1..n /\ DOMAIN v = 1..(n + 1) BY <1>2, LenProperties
<1>4. m \notin LineMsg BY DEF LineMsg, DataMsg, MarkMsg, CloseMsg
<1>5. \A M : M \subseteq LineMsg => Count(v, M) = Count(w, M)
  <2> TAKE M
  <2> HAVE M \subseteq LineMsg
  <2>1. Count(v, M) = Count(w, M) + (IF m \in M THEN 1 ELSE 0) BY <1>1, CountAppend
  <2>2. Count(w, M) \in Nat BY CountType
  <2> HIDE DEF v
  <2> QED BY <1>4, <2>1, <2>2
<1> HIDE DEF v, n
<1>6. \A i \in DOMAIN v : i = n + 1 \/ (i \in DOMAIN w /\ v[i] = w[i]) BY <1>2, <1>3
<1>7. \A i \in DOMAIN w : i \in DOMAIN v /\ v[i] = w[i] BY <1>2, <1>3
<1>8. n + 1 \in DOMAIN v /\ v[n + 1] = m BY <1>2, <1>3
<1>9. \A s : Awaits(v, s) <=> Awaits(w, s) \/ s = m.session
  BY <1>6, <1>7, <1>8 DEF Awaits, ClosesAt
<1>10. ASSUME NEW s, Follows(v, s) PROVE Follows(w, s)
  <2>1. PICK i \in DOMAIN v, j \in DOMAIN v : i < j /\ ClosesAt(v, i, s) /\ v[j] \in DataOf(s)
    BY <1>10 DEF Follows
  <2>2. j # n + 1
    <3>1. m \notin DataOf(s) BY <1>4 DEF DataOf, LineMsg
    <3> QED BY <1>8, <2>1, <3>1
  <2>3. i # n + 1 BY <1>3, <2>1
  <2> QED BY <1>6, <2>1, <2>2, <2>3 DEF Follows, ClosesAt
<1>11. ASSUME OneEach(w), ~Awaits(w, m.session) PROVE OneEach(v)
  <2> SUFFICES ASSUME NEW i \in DOMAIN v, NEW j \in DOMAIN v, NEW s \in Sessions,
                      ClosesAt(v, i, s), ClosesAt(v, j, s)
               PROVE  i = j
    BY DEF OneEach
  <2>1. CASE i = n + 1 BY <1>6, <1>8, <1>11, <2>1 DEF Awaits, ClosesAt
  <2>2. CASE j = n + 1 BY <1>6, <1>8, <1>11, <2>2 DEF Awaits, ClosesAt
  <2>3. CASE i # n + 1 /\ j # n + 1 BY <1>6, <1>11, <2>3 DEF OneEach, ClosesAt
  <2> QED BY <2>1, <2>2, <2>3
<1>12. m \notin DataMsg BY <1>4 DEF LineMsg
<1>13. \A l : OnWay(v, l) <=> OnWay(w, l) \/ l = m
  <2> TAKE l
  <2>1. ASSUME OnWay(v, l) PROVE OnWay(w, l) \/ l = m
    <3>1. PICK i \in DOMAIN v : v[i] = l BY <2>1 DEF OnWay
    <3> QED BY <1>6, <1>8, <3>1 DEF OnWay
  <2>2. ASSUME OnWay(w, l) PROVE OnWay(v, l) BY <1>7, <2>2 DEF OnWay
  <2>3. OnWay(v, m) BY <1>8 DEF OnWay
  <2> QED BY <2>1, <2>2, <2>3
<1>14. ASSUME NEW k \in DataMsg, NEW l \in DataMsg, Ahead(v, k, l) PROVE Ahead(w, k, l)
  <2>1. PICK i \in DOMAIN v, j \in DOMAIN v : i < j /\ v[i] = k /\ v[j] = l
    BY <1>14 DEF Ahead
  <2>2. i # n + 1 /\ j # n + 1 BY <1>8, <1>12, <2>1
  <2> QED BY <1>6, <2>1, <2>2 DEF Ahead
<1>15. Gains(w, v, {m}) BY <1>12, <1>13, <1>14 DEF Gains
<1> QED BY <1>2, <1>5, <1>9, <1>10, <1>11, <1>15 DEF v

-----------------------------------------------------------------------------
(* The producer's calls on the queue.                                      *)
LEMMA MinOfTwo ==
    ASSUME NEW a \in Int, NEW b \in Int
    PROVE  Min({a, b}) \in Int /\ Min({a, b}) <= a /\ Min({a, b}) <= b
                /\ Min({a, b}) \in {a, b}
<1>1. \E x \in {a, b} : \A y \in {a, b} : x <= y
  <2>1. CASE a <= b BY <2>1
  <2>2. CASE b <= a BY <2>2
  <2> QED BY <2>1, <2>2
<1>2. Min({a, b}) \in {a, b} /\ \A y \in {a, b} : Min({a, b}) <= y BY <1>1 DEF Min
<1> QED BY <1>2

\* A sequence gains nothing over itself.
LEMMA GainsSelf == \A w : Gains(w, w, {})
  BY DEF Gains

\* What is gained in two steps, the first of no row.
LEMMA GainsMore ==
    ASSUME NEW w, NEW v, NEW u, NEW B, NEW C, Gains(w, v, B), Gains(v, u, C),
           B \cap DataMsg = {}
    PROVE  Gains(w, u, B \cup C)
  BY DEF Gains

\* What is in a sequence without its first message, and what comes behind that.
LEMMA GainsTail ==
    ASSUME NEW w \in Seq(Msg), w # <<>>
    PROVE  /\ OnWay(w, Head(w))
           /\ \A m : OnWay(w, m) <=> m = Head(w) \/ OnWay(Tail(w), m)
           /\ \A m, n : Ahead(Tail(w), m, n) => Ahead(w, m, n)
           /\ \A n : OnWay(Tail(w), n) => Ahead(w, Head(w), n)
           /\ Head(w) \notin DataMsg => Gains(w, Tail(w), {})
<1> DEFINE t == Tail(w)
<1>1. Len(w) \in Nat /\ Len(w) >= 1 /\ DOMAIN w = 1..Len(w) /\ Head(w) = w[1]
  <2>1. Len(w) \in Nat /\ DOMAIN w = 1..Len(w) BY LenProperties
  <2>2. Len(w) # 0 BY EmptySeq
  <2> QED BY <2>1, <2>2
<1>2. /\ t \in Seq(Msg) /\ Len(t) = Len(w) - 1
      /\ \A i \in 1..Len(t) : t[i] = w[i + 1]
  BY HeadTailProperties
<1>3. DOMAIN t = 1..(Len(w) - 1) BY <1>2, LenProperties
<1> HIDE DEF t
<1>4. 1 \in DOMAIN w BY <1>1
<1>5. OnWay(w, Head(w)) BY <1>1, <1>4 DEF OnWay
<1>6. \A i \in DOMAIN t : i + 1 \in DOMAIN w /\ w[i + 1] = t[i] /\ 1 < i + 1
  BY <1>1, <1>2, <1>3
<1>7. \A i \in DOMAIN w : i # 1 => i - 1 \in DOMAIN t /\ t[i - 1] = w[i]
  <2> SUFFICES ASSUME NEW i \in DOMAIN w, i # 1
               PROVE  i - 1 \in DOMAIN t /\ t[i - 1] = w[i]
    OBVIOUS
  <2>1. i \in Nat /\ i - 1 \in 1..(Len(w) - 1) /\ (i - 1) + 1 = i BY <1>1
  <2> QED BY <1>2, <1>3, <2>1
<1>8. \A m : OnWay(w, m) <=> m = Head(w) \/ OnWay(t, m)
  <2> TAKE m
  <2>1. ASSUME OnWay(w, m), m # Head(w) PROVE OnWay(t, m)
    <3>1. PICK i \in DOMAIN w : w[i] = m BY <2>1 DEF OnWay
    <3>2. i # 1 BY <1>1, <2>1, <3>1
    <3>3. i - 1 \in DOMAIN t /\ t[i - 1] = m BY <1>7, <3>1, <3>2
    <3> QED BY <3>3 DEF OnWay
  <2>2. ASSUME OnWay(t, m) PROVE OnWay(w, m)
    <3>1. PICK i \in DOMAIN t : t[i] = m BY <2>2 DEF OnWay
    <3>2. i + 1 \in DOMAIN w /\ w[i + 1] = m BY <1>6, <3>1
    <3> QED BY <3>2 DEF OnWay
  <2> QED BY <1>5, <2>1, <2>2
<1>9. \A m, n : Ahead(t, m, n) => Ahead(w, m, n)
  <2> SUFFICES ASSUME NEW m, NEW n, Ahead(t, m, n) PROVE Ahead(w, m, n) OBVIOUS
  <2>1. PICK i \in DOMAIN t, j \in DOMAIN t : i < j /\ t[i] = m /\ t[j] = n BY DEF Ahead
  <2>2. i + 1 \in DOMAIN w /\ j + 1 \in DOMAIN w /\ w[i + 1] = m /\ w[j + 1] = n
    BY <1>6, <2>1
  <2>3. i + 1 < j + 1 BY <1>1, <1>3, <2>1
  <2> QED BY <2>2, <2>3 DEF Ahead
<1>10. \A n : OnWay(t, n) => Ahead(w, Head(w), n)
  <2> SUFFICES ASSUME NEW n, OnWay(t, n) PROVE Ahead(w, Head(w), n) OBVIOUS
  <2>1. PICK i \in DOMAIN t : t[i] = n BY DEF OnWay
  <2>2. i + 1 \in DOMAIN w /\ w[i + 1] = n /\ 1 < i + 1 BY <1>6, <2>1
  <2> QED BY <1>1, <1>4, <2>2 DEF Ahead
<1>11. Head(w) \notin DataMsg => Gains(w, t, {}) BY <1>8, <1>9 DEF Gains
<1> QED BY <1>5, <1>8, <1>9, <1>10, <1>11 DEF t

Fits(q) == q \in QueueState /\ Len(q.chan) <= QueueRecords /\ q.reserved <= QueueBytes

\* With b in the thread's hands, r holds the rows and barriers that q holds.
Alike(b, q, r) ==
    /\ Fits(r) /\ r.closed = q.closed /\ r.unreported <= q.unreported
    /\ \A s : Awaits(Way(b, r), s) <=> Awaits(Way(b, q), s)
    /\ \A s : Follows(Way(b, r), s) => Follows(Way(b, q), s)
    /\ OneEach(Way(b, q)) => OneEach(Way(b, r))
    /\ \A M : M \subseteq DataMsg => Count(Way(b, r), M) = Count(Way(b, q), M)
    /\ r.reserved - Count(Way(b, r), LineMsg) = q.reserved - Count(Way(b, q), LineMsg)

\* The fields of a queue state, and their types.
LEMMA QueueFields ==
    ASSUME NEW q \in QueueState
    PROVE  /\ q = [chan |-> q.chan, reserved |-> q.reserved, unreported |-> q.unreported,
                   closed |-> q.closed, pending |-> q.pending]
           /\ q.chan \in Seq(Msg) /\ q.reserved \in Nat /\ q.unreported \in Nat
           /\ q.closed \subseteq Sessions /\ q.pending \in Seq(CloseMsg)
           /\ q.pending \in Seq(Msg) /\ Len(q.chan) \in Nat /\ Len(q.pending) \in Nat
<1>1. /\ q = [chan |-> q.chan, reserved |-> q.reserved, unreported |-> q.unreported,
              closed |-> q.closed, pending |-> q.pending]
      /\ q.chan \in Seq(Msg) /\ q.reserved \in Nat /\ q.unreported \in Nat
      /\ q.closed \subseteq Sessions /\ q.pending \in Seq(CloseMsg)
  BY DEF QueueState
<1>2. CloseMsg \subseteq Msg BY DEF Msg
<1>3. q.pending \in Seq(Msg) BY <1>1, <1>2, SeqMonotonic
<1>4. Len(q.chan) \in Nat /\ Len(q.pending) \in Nat BY <1>1, LenProperties
<1> QED BY <1>1, <1>3, <1>4

\* What is on its way is a sequence of messages.
LEMMA WayType ==
    ASSUME NEW b \in Seq(Msg), NEW q \in QueueState
    PROVE  Way(b, q) \in Seq(Msg) /\ (b \o q.chan) \in Seq(Msg)
<1>1. q.chan \in Seq(Msg) /\ q.pending \in Seq(Msg) BY QueueFields
<1>2. (b \o q.chan) \in Seq(Msg) BY <1>1, ConcatProperties
<1>3. (b \o q.chan) \o q.pending \in Seq(Msg) BY <1>1, <1>2, ConcatProperties
<1> QED BY <1>2, <1>3 DEF Way

\* A queue is like itself.
LEMMA AlikeSelf ==
    ASSUME NEW b \in Seq(Msg), NEW q, Fits(q)
    PROVE  Alike(b, q, q)
<1>1. q \in QueueState BY DEF Fits
<1>2. q.unreported \in Nat BY <1>1, QueueFields
<1> QED BY <1>2 DEF Alike

\* Two changes that keep what is on its way keep it together.
LEMMA AlikeTransitive ==
    ASSUME NEW b \in Seq(Msg), NEW q, Fits(q), NEW r, NEW t, Alike(b, q, r), Alike(b, r, t)
    PROVE  Alike(b, q, t)
<1>1. Fits(r) /\ Fits(t) BY DEF Alike
<1>2. q \in QueueState /\ r \in QueueState /\ t \in QueueState BY <1>1 DEF Fits
<1>3. /\ q.unreported \in Nat /\ r.unreported \in Nat /\ t.unreported \in Nat
      /\ q.reserved \in Nat /\ r.reserved \in Nat /\ t.reserved \in Nat
  BY <1>2, QueueFields
<1>4. /\ Count(Way(b, q), LineMsg) \in Nat
      /\ Count(Way(b, r), LineMsg) \in Nat
      /\ Count(Way(b, t), LineMsg) \in Nat
  BY <1>2, WayType, CountType
<1>5. /\ t.closed = q.closed
      /\ \A s : Awaits(Way(b, t), s) <=> Awaits(Way(b, q), s)
      /\ \A s : Follows(Way(b, t), s) => Follows(Way(b, q), s)
      /\ OneEach(Way(b, q)) => OneEach(Way(b, t))
      /\ \A M : M \subseteq DataMsg => Count(Way(b, t), M) = Count(Way(b, q), M)
  BY DEF Alike
<1>6. t.unreported <= q.unreported BY <1>3 DEF Alike
<1>7. t.reserved - Count(Way(b, t), LineMsg) = q.reserved - Count(Way(b, q), LineMsg)
  BY <1>3, <1>4 DEF Alike
<1> QED BY <1>1, <1>5, <1>6, <1>7 DEF Alike

\* Concatenation is associative.
LEMMA Regroup ==
    ASSUME NEW u \in Seq(Msg), NEW v \in Seq(Msg), NEW w \in Seq(Msg)
    PROVE  (u \o v) \o w = u \o (v \o w)
<1>1. \A S : \A r, s, t \in Seq(S) : (r \o s) \o t = r \o (s \o t)
  BY ConcatAssociative
<1> QED BY <1>1

\* try_send of a marker line, where there is room: it adds one line and one reservation.
LEMMA ChannelPut ==
    ASSUME NEW b \in Seq(Msg), NEW q \in QueueState, NEW m \in LineMsg,
           NEW r \in QueueState, r.chan = Append(q.chan, m), r.pending = q.pending
    PROVE  /\ \A s : Awaits(Way(b, r), s) <=> Awaits(Way(b, q), s)
           /\ \A s : Follows(Way(b, r), s) =>
                  Follows(Way(b, q), s) \/ (m \in DataOf(s) /\ Awaits(Way(b, q), s))
           /\ OneEach(Way(b, q)) => OneEach(Way(b, r))
           /\ \A M : Count(Way(b, r), M) = Count(Way(b, q), M) + (IF m \in M THEN 1 ELSE 0)
           /\ Gains(Way(b, q), Way(b, r), {m})
<1>1. q.chan \in Seq(Msg) /\ q.pending \in Seq(CloseMsg) /\ (b \o q.chan) \in Seq(Msg)
  BY QueueFields, WayType
<1>2. m \in Msg BY DEF Msg
<1>3. b \o Append(q.chan, m) = Append(b \o q.chan, m)
  <2>1. Append(q.chan, m) = q.chan \o <<m>> BY <1>1, <1>2, AppendIsConcat
  <2>2. Append(b \o q.chan, m) = (b \o q.chan) \o <<m>> BY <1>1, <1>2, AppendIsConcat
  <2>3. <<m>> \in Seq(Msg) BY <1>2
  <2>4. (b \o q.chan) \o <<m>> = b \o (q.chan \o <<m>>)
    BY <1>1, <2>3, Regroup
  <2> QED BY <2>1, <2>2, <2>4
<1>4. Way(b, q) = (b \o q.chan) \o q.pending BY DEF Way
<1>5. Way(b, r) = Append(b \o q.chan, m) \o q.pending BY <1>3 DEF Way
<1> DEFINE x == b \o q.chan
           y == q.pending
           w == x \o y
           v == Append(x, m) \o y
<1>6. x \in Seq(Msg) /\ y \in Seq(CloseMsg) BY <1>1
<1>7. w = Way(b, q) /\ v = Way(b, r) BY <1>4, <1>5
<1> HIDE DEF x, y
<1>8. LET o == x \o y  u == Append(x, m) \o y
      IN  /\ u \in Seq(Msg) /\ o \in Seq(Msg)
          /\ \A s : Awaits(u, s) <=> Awaits(o, s)
          /\ \A s : Follows(u, s) => Follows(o, s) \/ (m \in DataOf(s) /\ Awaits(o, s))
          /\ OneEach(o) => OneEach(u)
          /\ \A M : Count(u, M) = Count(o, M) + (IF m \in M THEN 1 ELSE 0)
          /\ Gains(o, u, {m})
  BY <1>6, PutLine, Zenon
<1>9. /\ \A s : Awaits(v, s) <=> Awaits(w, s)
      /\ \A s : Follows(v, s) => Follows(w, s) \/ (m \in DataOf(s) /\ Awaits(w, s))
      /\ OneEach(w) => OneEach(v)
      /\ \A M : Count(v, M) = Count(w, M) + (IF m \in M THEN 1 ELSE 0)
      /\ Gains(w, v, {m})
  BY <1>8, Zenon
<1> HIDE DEF v, w
<1> QED BY <1>7, <1>9

\* Offer keeps the rows and barriers on their way.
LEMMA OfferAlike ==
    ASSUME NEW b \in Seq(Msg), NEW q, Fits(q), NEW line \in MarkLine
    PROVE  Alike(b, q, Offer(q, line)) /\ Gains(Way(b, q), Way(b, Offer(q, line)), {})
<1> DEFINE m == Line(MarkerFile, line, None)
           r == [q EXCEPT !.chan = Append(@, m), !.reserved = @ + 1]
<1>1. q \in QueueState BY DEF Fits
<1>2. CASE q.reserved + 1 <= QueueBytes /\ Room(q)
  <2>1. Offer(q, line) = r BY <1>2 DEF Offer
  <2>2. m \in MarkMsg BY DEF Line, MarkMsg
  <2>3. m \in LineMsg /\ m \in Msg BY <2>2 DEF LineMsg, Msg
  <2>4. m \notin DataMsg BY <2>2 DEF MarkMsg, DataMsg, DataFiles, MarkerFile
  <2> HIDE DEF m
  <2>5. Append(q.chan, m) \in Seq(Msg) /\ Len(Append(q.chan, m)) = Len(q.chan) + 1
    BY <1>1, <2>3, QueueFields, AppendProperties
  <2>6. /\ r.chan = Append(q.chan, m) /\ r.reserved = q.reserved + 1
        /\ r.unreported = q.unreported /\ r.closed = q.closed /\ r.pending = q.pending
        /\ r \in QueueState
    <3> DEFINE c == Append(q.chan, m)
               n == q.reserved + 1
    <3>1. c \in Seq(Msg) /\ n \in Nat BY <1>1, <2>5, QueueFields
    <3>2. r = [q EXCEPT !.chan = c, !.reserved = n] OBVIOUS
    <3> HIDE DEF c, n, r
    <3>3. /\ r.chan = c /\ r.reserved = n
          /\ r.unreported = q.unreported /\ r.closed = q.closed /\ r.pending = q.pending
          /\ r \in QueueState
      BY <1>1, <3>1, <3>2 DEF QueueState
    <3> QED BY <3>3 DEF c, n
  <2> HIDE DEF r
  <2>7. r \in QueueState BY <2>6
  <2>8. Fits(r)
    <3>1. Len(r.chan) <= QueueRecords
      BY <1>1, <1>2, <2>6, <2>5, QueueFields, BoundsAssumption DEF Room
    <3>2. r.reserved <= QueueBytes BY <1>2, <2>6
    <3> QED BY <2>7, <3>1, <3>2 DEF Fits
  <2>9. /\ \A s : Awaits(Way(b, r), s) <=> Awaits(Way(b, q), s)
        /\ \A s : Follows(Way(b, r), s) =>
                  Follows(Way(b, q), s) \/ (m \in DataOf(s) /\ Awaits(Way(b, q), s))
        /\ OneEach(Way(b, q)) => OneEach(Way(b, r))
        /\ \A M : Count(Way(b, r), M) = Count(Way(b, q), M) + (IF m \in M THEN 1 ELSE 0)
        /\ Gains(Way(b, q), Way(b, r), {m})
    BY <1>1, <2>3, <2>6, <2>7, ChannelPut
  <2>10. \A s : m \notin DataOf(s) BY <2>4 DEF DataOf
  <2>11. \A M : M \subseteq DataMsg => Count(Way(b, r), M) = Count(Way(b, q), M)
    <3> TAKE M
    <3> HAVE M \subseteq DataMsg
    <3>1. Count(Way(b, q), M) \in Nat BY <1>1, WayType, CountType
    <3> QED BY <2>4, <2>9, <3>1
  <2>12. r.reserved - Count(Way(b, r), LineMsg) = q.reserved - Count(Way(b, q), LineMsg)
    <3>1. Count(Way(b, q), LineMsg) \in Nat BY <1>1, WayType, CountType
    <3>2. Count(Way(b, r), LineMsg) = Count(Way(b, q), LineMsg) + 1 BY <2>3, <2>9
    <3>3. q.reserved \in Nat BY <1>1, QueueFields
    <3>4. r.reserved = q.reserved + 1 BY <2>6
    <3> DEFINE x == Count(Way(b, q), LineMsg)
               y == Count(Way(b, r), LineMsg)
               i == q.reserved
               j == r.reserved
    <3>5. x \in Nat /\ y = x + 1 /\ i \in Nat /\ j = i + 1 BY <3>1, <3>2, <3>3, <3>4
    <3> HIDE DEF x, y, i, j
    <3>6. j - y = i - x BY <3>5
    <3> QED BY <3>6 DEF x, y, i, j
  <2>13. r.unreported <= q.unreported BY <1>1, <2>6, QueueFields
  <2>14. Alike(b, q, r) BY <2>6, <2>8, <2>9, <2>10, <2>11, <2>12, <2>13 DEF Alike
  <2>15. m \notin CloseMsg BY <2>3 DEF LineMsg, DataMsg, MarkMsg, CloseMsg
  <2>16. Gains(Way(b, q), Way(b, r), {}) BY <2>4, <2>9, <2>15 DEF Gains
  <2> QED BY <2>1, <2>14, <2>16
<1>3. CASE ~(q.reserved + 1 <= QueueBytes /\ Room(q))
  <2>1. Offer(q, line) = q BY <1>3 DEF Offer
  <2> QED BY <2>1, AlikeSelf, GainsSelf
<1> QED BY <1>2, <1>3

\* So does describe_any_loss_span.
LEMMA DescribeAlike ==
    ASSUME NEW b \in Seq(Msg), NEW q, Fits(q)
    PROVE  Alike(b, q, Describe(q)) /\ Gains(Way(b, q), Way(b, Describe(q)), {})
<1> DEFINE o == Offer(q, Loss(q.unreported))
           r == [o EXCEPT !.unreported = 0]
<1>1. q \in QueueState BY DEF Fits
<1>2. Loss(q.unreported) \in MarkLine BY <1>1, QueueFields DEF Loss, MarkLine
<1>3. Alike(b, q, o) /\ Gains(Way(b, q), Way(b, o), {}) BY <1>2, OfferAlike
<1> HIDE DEF o
<1>4. Fits(o) /\ o \in QueueState BY <1>3 DEF Alike, Fits
<1>5. /\ r.chan = o.chan /\ r.reserved = o.reserved /\ r.unreported = 0
      /\ r.closed = o.closed /\ r.pending = o.pending /\ r \in QueueState
  BY <1>4 DEF QueueState
<1>6. Way(b, r) = Way(b, o) BY <1>5 DEF Way
<1>7. Fits(r) BY <1>4, <1>5 DEF Fits
<1>8. r.unreported <= q.unreported BY <1>1, <1>5, QueueFields
<1> HIDE DEF r
<1>9. Alike(b, q, r) BY <1>3, <1>5, <1>6, <1>7, <1>8 DEF Alike
<1>10. Describe(q) = r \/ Describe(q) = q BY DEF Describe, o, r
<1>11. Gains(Way(b, q), Way(b, r), {}) BY <1>3, <1>6
<1> QED BY <1>9, <1>10, <1>11, AlikeSelf, GainsSelf

\* send_pending_barriers moves barriers, in their order, and drops none.
LEMMA SendPendingAlike ==
    ASSUME NEW b \in Seq(Msg), NEW q, Fits(q)
    PROVE  Alike(b, q, SendPending(q)) /\ Way(b, SendPending(q)) = Way(b, q)
<1> DEFINE k == Sendable(q)
           p == SubSeq(q.pending, 1, k)
           l == SubSeq(q.pending, k + 1, Len(q.pending))
           r == SendPending(q)
<1>1. q \in QueueState BY DEF Fits
<1>2. Len(q.chan) \in Nat /\ Len(q.pending) \in Nat /\ q.pending \in Seq(CloseMsg)
      /\ q.chan \in Seq(Msg) /\ q.pending \in Seq(Msg) BY <1>1, QueueFields
<1>3. k \in 0..Len(q.pending) /\ Len(q.chan) + k <= QueueRecords
  <2>1. QueueRecords - Len(q.chan) \in Nat BY <1>2, BoundsAssumption DEF Fits
  <2>2. Len(q.pending) \in Int /\ QueueRecords - Len(q.chan) \in Int BY <1>2, <2>1
  <2>3. k = Min({Len(q.pending), QueueRecords - Len(q.chan)}) BY DEF Sendable
  <2> HIDE DEF k
  <2>4. /\ k \in Int /\ k <= Len(q.pending) /\ k <= QueueRecords - Len(q.chan)
        /\ k = Len(q.pending) \/ k = QueueRecords - Len(q.chan)
    BY <2>2, <2>3, MinOfTwo
  <2> QED BY <1>2, <2>1, <2>4, BoundsAssumption
<1>4. /\ p \in Seq(CloseMsg) /\ Len(p) = k /\ l \in Seq(CloseMsg)
  <2>1. \A i \in 1..Len(q.pending) : q.pending[i] \in CloseMsg BY <1>2, ElementOfSeq
  <2>2. \A i \in 1..k : q.pending[i] \in CloseMsg BY <1>2, <1>3, <2>1
  <2>3. \A i \in (k + 1)..Len(q.pending) : q.pending[i] \in CloseMsg BY <1>2, <1>3, <2>1
  <2>4. p \in Seq(CloseMsg) /\ Len(p) = IF 1 <= k THEN k - 1 + 1 ELSE 0
    BY <1>3, <2>2, SubSeqProperties
  <2>5. l \in Seq(CloseMsg) BY <1>2, <1>3, <2>3, SubSeqProperties
  <2> QED BY <1>3, <2>4, <2>5
<1>5. p \o l = q.pending
  <2>1. p \o l = SubSeq(q.pending, 1, Len(q.pending))
    <3> HIDE DEF k
    <3>1. 1 \in 1..(Len(q.pending) + 1) /\ k \in (1 - 1)..Len(q.pending)
          /\ Len(q.pending) \in k..Len(q.pending)
      BY <1>2, <1>3
    <3> QED BY <1>2, <3>1, ConcatAdjacentSubSeq
  <2> QED BY <1>2, <2>1, SubSeqFull
<1>6. /\ r.chan = q.chan \o p /\ r.pending = l
      /\ r.reserved = q.reserved /\ r.unreported = q.unreported /\ r.closed = q.closed
  <2>1. r = [q EXCEPT !.chan = @ \o p, !.pending = l] BY DEF SendPending
  <2> HIDE DEF p, l, r
  <2> QED BY <1>1, <2>1 DEF QueueState
<1> HIDE DEF p, l, k, r
<1>7. CloseMsg \subseteq Msg BY DEF Msg
<1>8. p \in Seq(Msg) /\ l \in Seq(Msg) BY <1>4, <1>7, SeqMonotonic
<1>9. q.chan \o p \in Seq(Msg) /\ Len(q.chan \o p) = Len(q.chan) + k
  BY <1>2, <1>4, <1>8, ConcatProperties
<1>10. Fits(r)
  <2>1. r \in QueueState
    <3>1. r = [q EXCEPT !.chan = q.chan \o p, !.pending = l]
      BY <1>1 DEF r, p, l, k, SendPending, QueueState
    <3> QED BY <1>1, <1>4, <1>9, <3>1 DEF QueueState
  <2> QED BY <1>3, <1>6, <1>9, <2>1 DEF Fits
<1>11. Way(b, r) = Way(b, q)
  <2>1. (b \o q.chan) \o p = b \o (q.chan \o p) BY <1>2, <1>8, Regroup
  <2>2. b \o q.chan \in Seq(Msg) BY <1>1, WayType
  <2>3. ((b \o q.chan) \o p) \o l = (b \o q.chan) \o (p \o l)
    <3> DEFINE x == b \o q.chan
    <3>1. x \in Seq(Msg) BY <2>2
    <3> HIDE DEF x
    <3>2. (x \o p) \o l = x \o (p \o l) BY <1>8, <3>1, Regroup
    <3> QED BY <3>2 DEF x
  <2> QED BY <1>5, <1>6, <2>1, <2>3 DEF Way
<1>12. r.unreported <= q.unreported BY <1>1, <1>6, QueueFields
<1>13. Alike(b, q, r) BY <1>6, <1>10, <1>11, <1>12 DEF Alike
<1> QED BY <1>11, <1>13 DEF r

\* The same, and the barriers of the sessions in S.
Moved(b, q, r, S) ==
    /\ Fits(r) /\ r.closed = q.closed \cup S /\ r.unreported <= q.unreported
    /\ \A s : Awaits(Way(b, r), s) <=> Awaits(Way(b, q), s) \/ s \in S
    /\ \A s : Follows(Way(b, r), s) => Follows(Way(b, q), s)
    /\ OneEach(Way(b, q)) /\ (\A s \in S : ~Awaits(Way(b, q), s)) => OneEach(Way(b, r))
    /\ \A M : M \subseteq DataMsg => Count(Way(b, r), M) = Count(Way(b, q), M)
    /\ r.reserved - Count(Way(b, r), LineMsg) = q.reserved - Count(Way(b, q), LineMsg)

\* A change that keeps what is on its way moves no barrier.
LEMMA AlikeMoves ==
    ASSUME NEW b, NEW q, NEW r, Alike(b, q, r)
    PROVE  Moved(b, q, r, {})
  BY DEF Alike, Moved

\* A change that adds barriers, then one that keeps what is on its way.
LEMMA MovedThenAlike ==
    ASSUME NEW b \in Seq(Msg), NEW q, Fits(q), NEW r, NEW t, NEW S,
           Moved(b, q, r, S), Alike(b, r, t)
    PROVE  Moved(b, q, t, S)
<1>1. Fits(r) /\ Fits(t) BY DEF Alike, Moved
<1>2. q \in QueueState /\ r \in QueueState /\ t \in QueueState BY <1>1 DEF Fits
<1>3. /\ q.unreported \in Nat /\ r.unreported \in Nat /\ t.unreported \in Nat
      /\ q.reserved \in Nat /\ r.reserved \in Nat /\ t.reserved \in Nat
  BY <1>2, QueueFields
<1>4. /\ Count(Way(b, q), LineMsg) \in Nat
      /\ Count(Way(b, r), LineMsg) \in Nat
      /\ Count(Way(b, t), LineMsg) \in Nat
  BY <1>2, WayType, CountType
<1>5. /\ t.closed = q.closed \cup S
      /\ \A s : Awaits(Way(b, t), s) <=> Awaits(Way(b, q), s) \/ s \in S
      /\ \A s : Follows(Way(b, t), s) => Follows(Way(b, q), s)
      /\ OneEach(Way(b, q)) /\ (\A s \in S : ~Awaits(Way(b, q), s)) => OneEach(Way(b, t))
      /\ \A M : M \subseteq DataMsg => Count(Way(b, t), M) = Count(Way(b, q), M)
  BY DEF Alike, Moved
<1>6. t.unreported <= q.unreported BY <1>3 DEF Alike, Moved
<1>7. t.reserved - Count(Way(b, t), LineMsg) = q.reserved - Count(Way(b, q), LineMsg)
  BY <1>3, <1>4 DEF Alike, Moved
<1> QED BY <1>1, <1>5, <1>6, <1>7 DEF Moved

\* And the other way round.
LEMMA AlikeThenMoved ==
    ASSUME NEW b \in Seq(Msg), NEW q, Fits(q), NEW r, NEW t, NEW S,
           Alike(b, q, r), Moved(b, r, t, S)
    PROVE  Moved(b, q, t, S)
<1>1. Fits(r) /\ Fits(t) BY DEF Alike, Moved
<1>2. q \in QueueState /\ r \in QueueState /\ t \in QueueState BY <1>1 DEF Fits
<1>3. /\ q.unreported \in Nat /\ r.unreported \in Nat /\ t.unreported \in Nat
      /\ q.reserved \in Nat /\ r.reserved \in Nat /\ t.reserved \in Nat
  BY <1>2, QueueFields
<1>4. /\ Count(Way(b, q), LineMsg) \in Nat
      /\ Count(Way(b, r), LineMsg) \in Nat
      /\ Count(Way(b, t), LineMsg) \in Nat
  BY <1>2, WayType, CountType
<1>5. /\ t.closed = q.closed \cup S
      /\ \A s : Awaits(Way(b, t), s) <=> Awaits(Way(b, q), s) \/ s \in S
      /\ \A s : Follows(Way(b, t), s) => Follows(Way(b, q), s)
      /\ OneEach(Way(b, q)) /\ (\A s \in S : ~Awaits(Way(b, q), s)) => OneEach(Way(b, t))
      /\ \A M : M \subseteq DataMsg => Count(Way(b, t), M) = Count(Way(b, q), M)
  BY DEF Alike, Moved
<1>6. t.unreported <= q.unreported BY <1>3 DEF Alike, Moved
<1>7. t.reserved - Count(Way(b, t), LineMsg) = q.reserved - Count(Way(b, q), LineMsg)
  BY <1>3, <1>4 DEF Alike, Moved
<1> QED BY <1>1, <1>5, <1>6, <1>7 DEF Moved

\* close_session adds the barrier of the session, and nothing else of a session.
LEMMA CloseMoves ==
    ASSUME NEW b \in Seq(Msg), NEW q, Fits(q), NEW m \in CloseMsg
    PROVE  /\ Moved(b, q, CloseSession(q, m.session, m), {m.session})
           /\ Gains(Way(b, q), Way(b, CloseSession(q, m.session, m)), {m})
<1> DEFINE s == m.session
           c == [q EXCEPT !.closed = @ \cup {s}]
           d == Describe(c)
           p == [d EXCEPT !.pending = Append(@, m)]
<1>1. q \in QueueState /\ s \in Sessions BY DEF Fits, CloseMsg
<1>2. /\ c \in QueueState /\ c.closed = q.closed \cup {s}
      /\ c.chan = q.chan /\ c.pending = q.pending /\ c.reserved = q.reserved
      /\ c.unreported = q.unreported
  <2> HIDE DEF s
  <2> QED BY <1>1 DEF QueueState
<1>3. CloseSession(q, s, m) = SendPending(p) BY DEF CloseSession
<1> HIDE DEF c, s
<1>4. Way(b, c) = Way(b, q) BY <1>2 DEF Way
<1>5. Fits(c) BY <1>2 DEF Fits
<1>6. Alike(b, c, d) /\ Gains(Way(b, c), Way(b, d), {}) BY <1>5, DescribeAlike
<1> HIDE DEF d
<1>7. Fits(d) /\ d \in QueueState BY <1>6 DEF Alike, Fits
<1>8. d.pending \in Seq(CloseMsg) /\ Append(d.pending, m) \in Seq(CloseMsg)
  BY <1>7, QueueFields, AppendProperties
<1>9. /\ p \in QueueState /\ p.pending = Append(d.pending, m) /\ p.chan = d.chan
      /\ p.reserved = d.reserved /\ p.unreported = d.unreported /\ p.closed = d.closed
  <2> DEFINE e == Append(d.pending, m)
  <2>1. e \in Seq(CloseMsg) BY <1>8
  <2>2. p = [d EXCEPT !.pending = e] OBVIOUS
  <2> HIDE DEF e, p
  <2>3. /\ p \in QueueState /\ p.pending = e /\ p.chan = d.chan
        /\ p.reserved = d.reserved /\ p.unreported = d.unreported /\ p.closed = d.closed
    BY <1>7, <2>1, <2>2 DEF QueueState
  <2> QED BY <2>3 DEF e
<1> HIDE DEF p
<1>10. Way(b, p) = Append(Way(b, d), m)
  <2> DEFINE x == b \o d.chan
             y == d.pending
             z == <<m>>
  <2>1. x \in Seq(Msg) /\ y \in Seq(Msg) /\ m \in Msg BY <1>7, WayType, QueueFields DEF Msg
  <2>2. z \in Seq(Msg) /\ x \o y \in Seq(Msg) BY <2>1, ConcatProperties
  <2>3. Append(y, m) = y \o z BY <1>8, AppendIsConcat
  <2>4. Append(x \o y, m) = (x \o y) \o z BY <2>1, <2>2, AppendIsConcat
  <2> HIDE DEF x, y, z
  <2>5. (x \o y) \o z = x \o (y \o z) BY <2>1, <2>2, Regroup
  <2>6. Append(x \o y, m) = x \o Append(y, m) BY <2>3, <2>4, <2>5
  <2> QED BY <1>9, <2>6 DEF Way, x, y
<1>11. Fits(p) BY <1>7, <1>9 DEF Fits
<1>12. /\ \A t : Awaits(Way(b, p), t) <=> Awaits(Way(b, d), t) \/ t = s
       /\ \A t : Follows(Way(b, p), t) => Follows(Way(b, d), t)
       /\ OneEach(Way(b, d)) /\ ~Awaits(Way(b, d), s) => OneEach(Way(b, p))
       /\ \A M : M \subseteq LineMsg => Count(Way(b, p), M) = Count(Way(b, d), M)
       /\ Gains(Way(b, d), Way(b, p), {m})
  <2> DEFINE w == Way(b, d)
  <2>1. w \in Seq(Msg) BY <1>7, WayType
  <2> HIDE DEF w
  <2>2. /\ \A t : Awaits(Append(w, m), t) <=> Awaits(w, t) \/ t = m.session
        /\ \A t : Follows(Append(w, m), t) => Follows(w, t)
        /\ OneEach(w) /\ ~Awaits(w, m.session) => OneEach(Append(w, m))
        /\ \A M : M \subseteq LineMsg => Count(Append(w, m), M) = Count(w, M)
        /\ Gains(w, Append(w, m), {m})
    BY <2>1, PutBarrier
  <2> QED BY <1>10, <2>2 DEF w, s
<1>13. DataMsg \subseteq LineMsg BY DEF LineMsg
<1>14. Moved(b, q, p, {s})
  <2>1. p.closed = q.closed \cup {s} /\ p.unreported <= q.unreported
    BY <1>2, <1>6, <1>9 DEF Alike
  <2>2. /\ \A t : Awaits(Way(b, p), t) <=> Awaits(Way(b, q), t) \/ t \in {s}
        /\ \A t : Follows(Way(b, p), t) => Follows(Way(b, q), t)
        /\ OneEach(Way(b, q)) /\ (\A t \in {s} : ~Awaits(Way(b, q), t)) => OneEach(Way(b, p))
        /\ \A M : M \subseteq DataMsg => Count(Way(b, p), M) = Count(Way(b, q), M)
    BY <1>4, <1>6, <1>12, <1>13 DEF Alike
  <2>3. p.reserved - Count(Way(b, p), LineMsg) = q.reserved - Count(Way(b, q), LineMsg)
    BY <1>2, <1>4, <1>6, <1>9, <1>12 DEF Alike
  <2> QED BY <1>11, <2>1, <2>2, <2>3 DEF Moved
<1>15. Alike(b, p, SendPending(p)) /\ Way(b, SendPending(p)) = Way(b, p)
  BY <1>11, SendPendingAlike
<1>16. Moved(b, q, SendPending(p), {s}) BY <1>14, <1>15, MovedThenAlike
<1>17. Gains(Way(b, q), Way(b, p), {m})
  <2>1. {} \cup {m} = {m} /\ {} \cap DataMsg = {} OBVIOUS
  <2> QED BY <1>4, <1>6, <1>12, <2>1, GainsMore
<1> QED BY <1>3, <1>15, <1>16, <1>17 DEF s

-----------------------------------------------------------------------------
(* The producer's steps.                                                   *)
LEMMA TypedQueue ==
    ASSUME Typed, Bounded
    PROVE  /\ Fits(Q) /\ writer.batch \in Seq(Msg) /\ W \in Seq(Msg)
           /\ Q.closed = closed /\ Q.reserved = reserved /\ Q.unreported = unreported
           /\ Q.chan = chan /\ Q.pending = pending
<1>1. Q.closed = closed /\ Q.reserved = reserved /\ Q.unreported = unreported
      /\ Q.chan = chan /\ Q.pending = pending
  BY DEF Q
<1>2. Q \in QueueState /\ writer.batch \in Seq(Msg) BY DEF Typed, Thread
<1>3. Fits(Q) BY <1>1, <1>2 DEF Fits, Bounded
<1>4. W \in Seq(Msg) BY <1>2, WayType DEF W
<1> QED BY <1>1, <1>2, <1>3, <1>4

\* What the queue becomes is the state of the queue.
LEMMA QueueIs ==
    ASSUME NEW r \in QueueState, Queue(r)
    PROVE  Q' = r
<1>1. r = [chan |-> r.chan, reserved |-> r.reserved, unreported |-> r.unreported,
           closed |-> r.closed, pending |-> r.pending]
  BY QueueFields
<1>2. Q' = [chan |-> r.chan, reserved |-> r.reserved, unreported |-> r.unreported,
            closed |-> r.closed, pending |-> r.pending]
  BY DEF Queue, Q
<1> QED BY <1>1, <1>2

Shut == IF Stays(now) \/ account = None THEN {} ELSE {account.session}
Closing == IF Stays(now) \/ account = None THEN {} ELSE {Barrier("session_boundary")}
Joined == IF Stays(now) THEN account ELSE Account(now)

\* roll_oi_session closes only a session before the one it joins, not closed yet.
LEMMA RollMoves ==
    ASSUME Typed, Bounded, ClosedOnce, prod.pc = "idle"
    PROVE  /\ Moved(writer.batch, Q, Rolled(now), Shut)
           /\ Shut \subseteq Sessions /\ Shut \cap closed = {}
           /\ \A s \in Shut : ~Awaits(W, s)
           /\ Joined \in Open /\ Joined # None
           /\ \A s \in closed \cup Shut : s < Joined.session
           /\ Gains(W, Way(writer.batch, Rolled(now)), Closing)
<1> DEFINE b == writer.batch
           q == SendPending(Q)
<1>1. Fits(Q) /\ b \in Seq(Msg) /\ Q.closed = closed BY TypedQueue
<1>2. Alike(b, Q, q) /\ Way(b, q) = Way(b, Q) BY <1>1, SendPendingAlike
<1>3. Moved(b, Q, q, {}) BY <1>2, AlikeMoves
<1>4. Fits(q) BY <1>2 DEF Alike
<1>5. account \in Open \cup {None} /\ now \in Sessions /\ Sessions \subseteq Nat
  BY BoundsAssumption DEF Typed, Sessions
<1>6. Account(now) \in Open
  <2>1. AccountingStart(now) \in Starts BY DEF AccountingStart, Starts
  <2> QED BY <1>5, <2>1 DEF Account, Open
<1>7. Joined \in Open BY <1>5, <1>6 DEF Joined, Stays
<1>8. Joined # None
  <2>1. None \notin Open BY NoneAssumption DEF Open, Starts
  <2> QED BY <1>7, <2>1
<1> HIDE DEF q, b
<1>9. CASE Stays(now)
  <2>1. Rolled(now) = q /\ Shut = {} BY <1>9 DEF Rolled, Shut, q
  <2>2. \A s \in closed : s < Joined.session BY <1>9 DEF Joined, ClosedOnce, Stays
  <2>3. Gains(W, Way(b, Rolled(now)), Closing)
    BY <1>2, <1>9, <2>1, GainsSelf DEF Closing, W, b
  <2> QED BY <1>3, <1>7, <1>8, <2>1, <2>2, <2>3 DEF b
<1>10. CASE account = None
  <2>1. Rolled(now) = q /\ Shut = {} BY <1>10 DEF Rolled, Shut, q
  <2>2. closed = {} BY <1>10 DEF ClosedOnce
  <2>3. Gains(W, Way(b, Rolled(now)), Closing)
    BY <1>2, <1>10, <2>1, GainsSelf DEF Closing, W, b
  <2> QED BY <1>3, <1>7, <1>8, <2>1, <2>2, <2>3 DEF b
<1>11. CASE account # None /\ ~Stays(now)
  <2> DEFINE m == Barrier("session_boundary")
  <2>1. account \in Open BY <1>5, <1>11
  <2>2. m \in CloseMsg /\ m.session = account.session
    BY <2>1 DEF Barrier, CloseMsg, Open, Ends
  <2> HIDE DEF m
  <2>3. Rolled(now) = CloseSession(q, m.session, m)
    BY <1>11, <2>2 DEF Rolled, q, m
  <2>4. Moved(b, q, Rolled(now), {m.session}) /\ Gains(Way(b, q), Way(b, Rolled(now)), {m})
    BY <1>1, <1>4, <2>2, <2>3, CloseMoves
  <2>5. Shut = {account.session} BY <1>11 DEF Shut
  <2>6. Moved(b, Q, Rolled(now), Shut)
    BY <1>1, <1>2, <2>2, <2>4, <2>5, AlikeThenMoved
  <2>7. \A s \in closed : s < account.session BY <1>11 DEF ClosedOnce
  <2>8. account.session \in Nat /\ account.session \in Sessions /\ now \in Nat
        /\ closed \subseteq Nat
    BY <1>1, <1>5, <2>1, QueueFields DEF Open, Fits
  <2>9. account.session \notin closed BY <2>7, <2>8
  <2>10. ~Awaits(W, account.session) BY <2>8, <2>9 DEF ClosedOnce
  <2>11. account.session < now BY <1>11, <2>8 DEF Stays
  <2>12. Joined.session = now BY <1>11 DEF Joined, Account
  <2>13. \A s \in closed \cup Shut : s < Joined.session
    BY <2>5, <2>7, <2>8, <2>11, <2>12
  <2>14. Gains(W, Way(b, Rolled(now)), Closing)
    BY <1>2, <1>11, <2>4 DEF Closing, W, b, m
  <2> QED BY <1>7, <1>8, <2>5, <2>6, <2>8, <2>9, <2>10, <2>13, <2>14 DEF b
<1> QED BY <1>9, <1>10, <1>11

\* What a step of the producer task does to what is on its way.
LEMMA OnTheWay ==
    ASSUME IInv, NEW S, S \subseteq Sessions, S \cap closed = {}, \A s \in S : ~Awaits(W, s),
           Moved(writer.batch, Q, Q', S), writer' = writer
    PROVE  /\ Fits(Q') /\ closed' = closed \cup S /\ unreported' <= unreported
           /\ \A s : Awaits(W', s) <=> Awaits(W, s) \/ s \in S
           /\ \A s : Follows(W', s) => Follows(W, s)
           /\ OneEach(W')
           /\ \A M : M \subseteq DataMsg => Count(W', M) = Count(W, M)
           /\ reserved' - Count(W', LineMsg) = reserved - Count(W, LineMsg)
           /\ \A s \in Sessions : Awaits(W', s) => s \in closed'
           /\ \A s \in Sessions : s \notin closed' \/ Awaits(W', s) =>
                                      s \notin closed \/ Awaits(W, s)
           /\ Q' \in QueueState /\ Q'.reserved = reserved' /\ Q'.chan = chan'
           /\ Count(W, LineMsg) \in Nat /\ Count(W', LineMsg) \in Nat
           /\ reserved \in Nat /\ reserved' \in Nat
<1>1. /\ Q'.closed = closed' /\ Q'.reserved = reserved' /\ Q'.unreported = unreported'
      /\ Q'.chan = chan'
  BY DEF Q
<1>2. /\ Q.closed = closed /\ Q.reserved = reserved /\ Q.unreported = unreported
      /\ Fits(Q) /\ W \in Seq(Msg) /\ writer.batch \in Seq(Msg)
  BY TypedQueue DEF IInv
<1>3. W = Way(writer.batch, Q) /\ W' = Way(writer.batch, Q') BY DEF W, Way
<1>4. Fits(Q') /\ Q' \in QueueState BY DEF Moved, Fits
<1>5. W' \in Seq(Msg) BY <1>2, <1>3, <1>4, WayType
<1>6. Count(W, LineMsg) \in Nat /\ Count(W', LineMsg) \in Nat BY <1>2, <1>5, CountType
<1>7. reserved \in Nat /\ reserved' \in Nat BY <1>1, <1>2, <1>4, QueueFields DEF Fits
<1>8. closed' = closed \cup S /\ unreported' <= unreported BY <1>1, <1>2 DEF Moved
<1>9. \A s : Awaits(W', s) <=> Awaits(W, s) \/ s \in S BY <1>3 DEF Moved
<1>10. \A s : Follows(W', s) => Follows(W, s) BY <1>3 DEF Moved
<1>11. OneEach(W') BY <1>3 DEF Moved, IInv, ClosedOnce
<1>12. \A M : M \subseteq DataMsg => Count(W', M) = Count(W, M) BY <1>3 DEF Moved
<1>13. reserved' - Count(W', LineMsg) = reserved - Count(W, LineMsg)
  BY <1>1, <1>2, <1>3 DEF Moved
<1>14. \A s \in Sessions : Awaits(W', s) => s \in closed'
  BY <1>8, <1>9 DEF IInv, ClosedOnce
<1>15. \A s \in Sessions : s \notin closed' \/ Awaits(W', s) => s \notin closed \/ Awaits(W, s)
  BY <1>8, <1>9
<1> QED BY <1>1, <1>4, <1>6, <1>7, <1>8, <1>9, <1>10, <1>11, <1>12, <1>13, <1>14, <1>15

\* Two equal differences.
LEMMA SameGap ==
    ASSUME NEW a \in Nat, NEW b \in Nat, NEW c \in Nat, NEW d \in Nat, NEW e \in Nat,
           a - b = c - d, c = d + e
    PROVE  a = b + e
  OBVIOUS

\* The producer has one row in hand or none.
LEMMA HandType == \A M : InHand(M) \in {0, 1}
  BY DEF InHand

\* The rows of a session are rows.
LEMMA DataOfData == \A s : DataOf(s) \subseteq DataMsg
  BY DEF DataOf

\* observe_tick keeps the invariant.
LEMMA TickKeeps ==
    ASSUME IInv, Tick
    PROVE  IInv'
<1>1. /\ prod.pc = "idle" /\ Roll(now) /\ Queue(Rolled(now)) /\ account' = Joined
      /\ UNCHANGED <<now, prod, health, tally, thread, emitted, unmarked, faults>>
  BY DEF Tick, Joined
<1>2. /\ Moved(writer.batch, Q, Rolled(now), Shut)
      /\ Shut \subseteq Sessions /\ Shut \cap closed = {}
      /\ \A s \in Shut : ~Awaits(W, s)
      /\ Joined \in Open /\ Joined # None
      /\ \A s \in closed \cup Shut : s < Joined.session
  BY <1>1, RollMoves DEF IInv
<1>3. Q' = Rolled(now)
  <2>1. Rolled(now) \in QueueState BY <1>2 DEF Moved, Fits
  <2> QED BY <1>1, <2>1, QueueIs
<1>4. writer' = writer BY <1>1 DEF thread
<1>5. /\ Fits(Q') /\ closed' = closed \cup Shut /\ unreported' <= unreported
      /\ \A s : Awaits(W', s) <=> Awaits(W, s) \/ s \in Shut
      /\ \A s : Follows(W', s) => Follows(W, s)
      /\ OneEach(W')
      /\ \A M : M \subseteq DataMsg => Count(W', M) = Count(W, M)
      /\ reserved' - Count(W', LineMsg) = reserved - Count(W, LineMsg)
      /\ \A s \in Sessions : Awaits(W', s) => s \in closed'
      /\ \A s \in Sessions : s \notin closed' \/ Awaits(W', s) => s \notin closed \/ Awaits(W, s)
      /\ Q' \in QueueState /\ Q'.reserved = reserved' /\ Q'.chan = chan'
      /\ Count(W, LineMsg) \in Nat /\ Count(W', LineMsg) \in Nat
      /\ reserved \in Nat /\ reserved' \in Nat
  <2> HIDE DEF Shut
  <2> QED BY <1>2, <1>3, <1>4, OnTheWay
<1>6. Typed'
  <2>1. begun' \in Sessions \cup {None} /\ closedOne' \in BOOLEAN
    BY <1>1 DEF Roll, IInv, Typed
  <2> QED BY <1>1, <1>2, <1>5, <2>1 DEF IInv, Typed, thread
<1>7. Bounded'
  <2>1. unreported' <= health'.dropped
    <3>1. unreported \in Nat /\ unreported' \in Nat /\ health.dropped \in Nat
      BY <1>5, QueueFields DEF IInv, Typed, Health, Q
    <3> QED BY <1>1, <1>5, <3>1 DEF IInv, Bounded
  <2> QED BY <1>1, <1>5, <2>1 DEF IInv, Bounded, thread, Fits
<1>8. Reserved'
  <2>1. reserved = Count(W, LineMsg) + 0 BY <1>1 DEF IInv, Reserved
  <2>2. reserved' = Count(W', LineMsg) + 0 BY <1>5, <2>1, SameGap
  <2> QED BY <1>1, <2>2 DEF Reserved
<1>9. ClosedOnce' BY <1>1, <1>2, <1>5 DEF ClosedOnce
<1>10. \A M : InHand(M) = 0 /\ InHand(M)' = 0 BY <1>1 DEF InHand
<1>11. LateIsCounted' BY <1>1, <1>5, <1>10 DEF IInv, LateIsCounted
<1>12. TallyAccounts' BY <1>1, <1>5, <1>10, DataOfData DEF IInv, TallyAccounts
<1>13. MarkersBalance' BY <1>1 DEF IInv, MarkersBalance, thread
<1>14. HealthAccounts' BY <1>1, <1>4, <1>5, <1>10 DEF IInv, HealthAccounts
<1> QED BY <1>6, <1>7, <1>8, <1>9, <1>11, <1>12, <1>13, <1>14 DEF IInv

\* A row that comes after the close of its session is counted late as it is taken in hand.
LEMMA RecordKeeps ==
    ASSUME IInv, NEW f \in DataFiles, Record(f)
    PROVE  IInv'
<1> DEFINE q == SendPending(Rolled(now))
           r == IF now \in q.closed THEN Offer(q, Late(now)) ELSE q
           n == Cardinality(emitted) + 1
           late == IF now \in q.closed THEN 1 ELSE 0
           t == [tally[now] EXCEPT !.attempted = @ + 1, !.late = @ + late]
           row == Row(now, n)
           m == Line(f, row, now)
<1>1. /\ prod.pc = "idle" /\ Roll(now) /\ Queue(r)
      /\ account' = [Joined EXCEPT !.scored = @ + 1]
      /\ prod' = [pc |-> "reserve", row |-> m]
      /\ emitted' = emitted \cup {row}
      /\ health' = [health EXCEPT !.attempted = @ + 1]
      /\ tally' = [tally EXCEPT ![now] = t]
      /\ UNCHANGED <<now, thread, unmarked, faults>>
  BY DEF Record, Joined
<1>2. /\ Moved(writer.batch, Q, Rolled(now), Shut)
      /\ Shut \subseteq Sessions /\ Shut \cap closed = {}
      /\ \A s \in Shut : ~Awaits(W, s)
      /\ Joined \in Open /\ Joined # None
      /\ \A s \in closed \cup Shut : s < Joined.session
  BY <1>1, RollMoves DEF IInv
<1>3. now \in Sessions /\ Fits(Q) /\ writer.batch \in Seq(Msg) /\ writer' = writer
  BY <1>1, TypedQueue DEF IInv, Typed, thread
<1>4. Moved(writer.batch, Q, q, Shut) /\ Fits(q)
  <2>1. Fits(Rolled(now)) BY <1>2 DEF Moved
  <2>2. Alike(writer.batch, Rolled(now), q) BY <1>3, <2>1, SendPendingAlike
  <2>3. Moved(writer.batch, Q, q, Shut) BY <1>2, <1>3, <2>2, MovedThenAlike
  <2> QED BY <2>3 DEF Moved
<1> HIDE DEF q, Shut
<1>5. Moved(writer.batch, Q, r, Shut) /\ r \in QueueState /\ r.closed = q.closed
  <2>1. Late(now) \in MarkLine BY <1>3 DEF Late, MarkLine
  <2>2. Alike(writer.batch, q, Offer(q, Late(now))) BY <1>3, <1>4, <2>1, OfferAlike
  <2>3. Moved(writer.batch, Q, Offer(q, Late(now)), Shut)
    BY <1>3, <1>4, <2>2, MovedThenAlike
  <2>4. Offer(q, Late(now)).closed = q.closed BY <2>2 DEF Alike
  <2> QED BY <1>4, <2>3, <2>4 DEF Moved, Fits
<1> HIDE DEF r
<1>6. Q' = r BY <1>1, <1>5, QueueIs
<1>7. /\ Fits(Q') /\ closed' = closed \cup Shut /\ unreported' <= unreported
      /\ \A s : Awaits(W', s) <=> Awaits(W, s) \/ s \in Shut
      /\ \A s : Follows(W', s) => Follows(W, s)
      /\ OneEach(W')
      /\ \A M : M \subseteq DataMsg => Count(W', M) = Count(W, M)
      /\ reserved' - Count(W', LineMsg) = reserved - Count(W, LineMsg)
      /\ \A s \in Sessions : Awaits(W', s) => s \in closed'
      /\ \A s \in Sessions : s \notin closed' \/ Awaits(W', s) => s \notin closed \/ Awaits(W, s)
      /\ Q' \in QueueState /\ Q'.reserved = reserved' /\ Q'.chan = chan'
      /\ Count(W, LineMsg) \in Nat /\ Count(W', LineMsg) \in Nat
      /\ reserved \in Nat /\ reserved' \in Nat
  BY <1>2, <1>3, <1>5, <1>6, OnTheWay
<1>8. late = (IF now \in closed' THEN 1 ELSE 0) /\ late \in {0, 1}
  BY <1>5, <1>6 DEF Q
<1> HIDE DEF late
<1>9. /\ n \in Nat /\ row \in DataLine /\ m \in DataMsg /\ m.session = now
      /\ IsFiniteSet(emitted')
  <2>1. IsFiniteSet(emitted) /\ Cardinality(emitted) \in Nat
    BY FS_CardinalityType DEF IInv, Typed
  <2>2. n \in Nat BY <2>1
  <2>3. row \in DataLine BY <1>3, <2>2 DEF Row, DataLine
  <2> HIDE DEF n, row
  <2>4. m \in DataMsg /\ m.session = now BY <1>3, <2>3 DEF Line, DataMsg
  <2>5. IsFiniteSet(emitted') BY <1>1, <2>1, FS_AddElement
  <2> QED BY <2>2, <2>3, <2>4, <2>5
<1> HIDE DEF n, row, m
<1>10. /\ tally[now] \in Tally /\ t \in Tally /\ tally' \in [Sessions -> Tally]
       /\ t.attempted = tally[now].attempted + 1 /\ t.late = tally[now].late + late
       /\ t.written = tally[now].written /\ t.dropped = tally[now].dropped
       /\ t.errors = tally[now].errors
  <2>1. tally[now] \in Tally BY <1>3 DEF IInv, Typed
  <2>2. /\ t \in Tally
        /\ t.attempted = tally[now].attempted + 1 /\ t.late = tally[now].late + late
        /\ t.written = tally[now].written /\ t.dropped = tally[now].dropped
        /\ t.errors = tally[now].errors
    <3> DEFINE x == tally[now]
    <3>1. x \in Tally /\ late \in Nat /\ t = [x EXCEPT !.attempted = @ + 1, !.late = @ + late]
      BY <1>8, <2>1
    <3> DEFINE a == x.attempted + 1
               l == x.late + late
    <3> HIDE DEF x, t
    <3>2. a \in Nat /\ l \in Nat BY <3>1 DEF Tally
    <3>3. t = [x EXCEPT !.attempted = a, !.late = l] BY <3>1
    <3> HIDE DEF a, l
    <3>4. t \in Tally /\ t.attempted = a /\ t.late = l
          /\ t.written = x.written /\ t.dropped = x.dropped /\ t.errors = x.errors
      BY <3>1, <3>2, <3>3 DEF Tally
    <3> QED BY <3>4 DEF x, a, l
  <2> HIDE DEF t
  <2> QED BY <1>1, <1>3, <2>1, <2>2 DEF IInv, Typed
<1> HIDE DEF t
<1>11. \A s \in Sessions : s # now => tally'[s] = tally[s]
  BY <1>1 DEF IInv, Typed
<1>12. tally'[now] = t BY <1>1, <1>3 DEF IInv, Typed
<1>13. health' \in Health /\ health'.attempted = health.attempted + 1
       /\ health'.written = health.written /\ health'.dropped = health.dropped
       /\ health'.errors = health.errors /\ health \in Health
  BY <1>1 DEF IInv, Typed, Health
<1>14. Typed'
  <2>1. begun' \in Sessions \cup {None} /\ closedOne' \in BOOLEAN
    BY <1>1, <1>3 DEF Roll, IInv, Typed
  <2>2. account' \in Open BY <1>1, <1>2 DEF Open
  <2>3. prod' \in [pc : {"idle", "reserve", "send", "sent", "exit"}, row : DataMsg \cup {None}]
        /\ prod'.row \in DataMsg
    BY <1>1, <1>9
  <2> QED BY <1>1, <1>2, <1>7, <1>9, <1>10, <1>13, <2>1, <2>2, <2>3 DEF IInv, Typed, thread
<1>15. Bounded'
  <2>1. unreported' <= health'.dropped
    <3>1. unreported \in Nat /\ unreported' \in Nat /\ health.dropped \in Nat
      BY <1>7, QueueFields DEF IInv, Typed, Health, Q
    <3> QED BY <1>7, <1>13, <3>1 DEF IInv, Bounded
  <2> QED BY <1>1, <1>7, <2>1 DEF IInv, Bounded, thread, Fits
<1>16. Reserved'
  <2>1. reserved = Count(W, LineMsg) + 0 BY <1>1 DEF IInv, Reserved
  <2>2. reserved' = Count(W', LineMsg) + 0 BY <1>7, <2>1, SameGap
  <2> QED BY <1>1, <2>2 DEF Reserved
<1>17. ClosedOnce'
  <2>1. account' # None /\ account'.session = Joined.session
    <3>1. account' \in Open /\ account'.session = Joined.session BY <1>1, <1>2 DEF Open
    <3>2. None \notin Open BY NoneAssumption DEF Open, Starts
    <3> QED BY <3>1, <3>2
  <2> QED BY <1>2, <1>7, <2>1 DEF ClosedOnce
<1>18. \A M : InHand(M) = 0 /\ InHand(M)' = IF m \in M THEN 1 ELSE 0
  BY <1>1 DEF InHand
<1>19. \A s : m \in DataOf(s) <=> s = now BY <1>9 DEF DataOf
<1>20. LateIsCounted'
  <2> SUFFICES ASSUME NEW s \in Sessions,
                      Follows(W', s) \/ (Awaits(W', s) /\ InHand(DataOf(s))' = 1)
               PROVE  tally'[s].late > 0
    BY DEF LateIsCounted
  <2>1. tally[s] \in Tally /\ tally[s].late \in Nat BY DEF IInv, Typed, Tally
  <2>2. CASE Follows(W', s)
    <3>1. tally[s].late > 0 BY <1>7, <2>2 DEF IInv, LateIsCounted
    <3> QED BY <1>8, <1>10, <1>11, <1>12, <2>1, <3>1
  <2>3. CASE Awaits(W', s) /\ InHand(DataOf(s))' = 1
    <3>1. s = now BY <1>18, <1>19, <2>3
    <3>2. late = 1 BY <1>7, <1>8, <2>3, <3>1
    <3> QED BY <1>10, <1>12, <2>1, <3>1, <3>2
  <2> QED BY <2>2, <2>3
<1>21. TallyAccounts'
  <2> SUFFICES ASSUME NEW s \in Sessions, s \notin closed' \/ Awaits(W', s)
               PROVE  tally'[s].attempted = tally'[s].written + tally'[s].dropped
                          + tally'[s].errors + Count(W', DataOf(s)) + InHand(DataOf(s))'
    BY DEF TallyAccounts
  <2>1. tally[s].attempted = tally[s].written + tally[s].dropped + tally[s].errors
                                + Count(W, DataOf(s)) + 0
    BY <1>7, <1>18 DEF IInv, TallyAccounts
  <2>2. Count(W', DataOf(s)) = Count(W, DataOf(s)) BY <1>7, DataOfData
  <2>3. Count(W, DataOf(s)) \in Nat BY TypedQueue, CountType DEF IInv
  <2>4. /\ tally[s].attempted \in Nat /\ tally[s].written \in Nat
        /\ tally[s].dropped \in Nat /\ tally[s].errors \in Nat
    BY DEF IInv, Typed, Tally
  <2>5. CASE s = now
    <3>1. InHand(DataOf(s))' = 1 BY <1>18, <1>19, <2>5
    <3> QED BY <1>10, <1>12, <2>1, <2>2, <2>3, <2>4, <2>5, <3>1
  <2>6. CASE s # now
    <3>1. InHand(DataOf(s))' = 0 BY <1>18, <1>19, <2>6
    <3> QED BY <1>11, <2>1, <2>2, <2>6, <3>1
  <2> QED BY <2>5, <2>6
<1>22. MarkersBalance' BY <1>1 DEF IInv, MarkersBalance, thread
<1>23. HealthAccounts'
  <2>1. InHand(DataMsg)' = 1 /\ InHand(DataMsg) = 0 BY <1>9, <1>18
  <2>2. Count(W', DataMsg) = Count(W, DataMsg) BY <1>7
  <2>3. Count(W, DataMsg) \in Nat BY TypedQueue, CountType DEF IInv
  <2>4. /\ health.attempted \in Nat /\ health.written \in Nat /\ health.dropped \in Nat
        /\ health.errors \in Nat /\ writer.wrote \in Nat
    BY DEF IInv, Typed, Health, Thread
  <2>5. health.attempted <= health.written + health.dropped + health.errors + writer.wrote
                                + Count(W, DataMsg) + 0
    BY <2>1 DEF IInv, HealthAccounts
  <2>6. health.attempted + 1 <= health.written + health.dropped + health.errors + writer.wrote
                                + Count(W, DataMsg) + 1
    BY <2>3, <2>4, <2>5
  <2> QED BY <1>3, <1>13, <2>1, <2>2, <2>6 DEF HealthAccounts
<1> QED BY <1>14, <1>15, <1>16, <1>17, <1>20, <1>21, <1>22, <1>23 DEF IInv

\* Giving up the row in hand.
LEMMA DropKeeps ==
    ASSUME IInv, prod.pc \in {"reserve", "send"}, Drop,
           reserved' = reserved - (IF prod.pc = "send" THEN 1 ELSE 0),
           UNCHANGED <<clock, chan, closed, pending, thread, emitted, unmarked, faults>>
    PROVE  IInv'
<1> DEFINE s0 == prod.row.session
<1>1. prod.row \in DataMsg /\ s0 \in Sessions BY DEF IInv, Typed, DataMsg
<1>2. prod' = [pc |-> "idle", row |-> None] /\ unreported' = unreported + 1
      /\ health' = [health EXCEPT !.dropped = @ + 1] /\ tally' = SessionDrop(s0)
  BY DEF Drop, Ready
<1>3. /\ UNCHANGED <<now, begun, closedOne, account, writer, opened, poisoned, ranges, file,
                     chan, closed, pending, emitted, unmarked, faults>>
  BY DEF clock, thread
<1>4. Q \in QueueState /\ W \in Seq(Msg) /\ writer.batch \in Seq(Msg)
      /\ reserved \in Nat /\ unreported \in Nat
  <2>1. Q \in QueueState /\ W \in Seq(Msg) /\ writer.batch \in Seq(Msg)
        /\ Q.reserved = reserved /\ Q.unreported = unreported
    BY TypedQueue DEF IInv, Fits
  <2> QED BY <2>1, QueueFields
<1>5. W' = W BY <1>3 DEF W, Way, Q
<1>6. \A M : Count(W, M) \in Nat BY <1>4, CountType
<1>7. reserved' \in Nat /\ Reserved'
  <2>1. reserved = Count(W, LineMsg) + (IF prod.pc = "send" THEN 1 ELSE 0)
    BY DEF IInv, Reserved
  <2>2. reserved' = Count(W, LineMsg) BY <1>6, <2>1
  <2> QED BY <1>2, <1>5, <1>6, <2>2 DEF Reserved
<1>8. Q' \in QueueState
  <2>1. Q' = [chan |-> chan, reserved |-> reserved', unreported |-> unreported + 1,
              closed |-> closed, pending |-> pending]
    BY <1>2, <1>3 DEF Q
  <2>2. chan \in Seq(Msg) /\ closed \in SUBSET Sessions /\ pending \in Seq(CloseMsg)
    BY <1>4, QueueFields DEF Q
  <2> QED BY <1>4, <1>7, <2>1, <2>2 DEF QueueState
<1>9. health \in Health /\ health' \in Health
      /\ health'.dropped = health.dropped + 1 /\ health'.attempted = health.attempted
      /\ health'.written = health.written /\ health'.errors = health.errors
  BY <1>2 DEF IInv, Typed, Health
<1>10. /\ tally' \in [Sessions -> Tally]
       /\ tally'[s0].attempted = tally[s0].attempted
       /\ tally'[s0].written = tally[s0].written
       /\ tally'[s0].dropped = tally[s0].dropped + 1
       /\ tally'[s0].errors = tally[s0].errors
       /\ tally'[s0].late = tally[s0].late
       /\ \A s \in Sessions : s # s0 => tally'[s] = tally[s]
  <2> DEFINE x == tally[s0]
             d == x.dropped + 1
             p == x.spans + (IF x.inLoss THEN 0 ELSE 1)
             y == [x EXCEPT !.dropped = d, !.inLoss = TRUE, !.spans = p]
  <2>1. x \in Tally /\ tally \in [Sessions -> Tally] BY <1>1 DEF IInv, Typed
  <2>2. tally' = [tally EXCEPT ![s0] = y]
    BY <1>2, <2>1 DEF SessionDrop, Tally
  <2> HIDE DEF x
  <2>3. d \in Nat /\ p \in Nat BY <2>1 DEF Tally
  <2> HIDE DEF d, p
  <2>4. y \in Tally /\ y.attempted = x.attempted /\ y.written = x.written /\ y.dropped = d
        /\ y.errors = x.errors /\ y.late = x.late
    BY <2>1, <2>3 DEF Tally
  <2> HIDE DEF y, s0
  <2> QED BY <1>1, <2>1, <2>2, <2>4 DEF x, d
<1>11. Typed' BY <1>2, <1>3, <1>8, <1>9, <1>10 DEF IInv, Typed
<1>12. Bounded'
  <2>1. reserved' <= reserved BY <1>4
  <2>2. reserved' <= QueueBytes BY <1>4, <1>7, <2>1, BoundsAssumption DEF IInv, Bounded
  <2>3. unreported' <= health'.dropped
    <3>1. health.dropped \in Nat /\ unreported <= health.dropped
      BY <1>9 DEF IInv, Bounded, Health
    <3> QED BY <1>2, <1>4, <1>9, <3>1
  <2> QED BY <1>3, <2>2, <2>3 DEF IInv, Bounded
<1>13. ClosedOnce' BY <1>2, <1>3, <1>5 DEF IInv, ClosedOnce
<1>14. \A M : InHand(M)' = 0 /\ InHand(M) = IF prod.row \in M THEN 1 ELSE 0
  BY <1>2 DEF InHand
<1>15. \A s : prod.row \in DataOf(s) <=> s = s0 BY <1>1 DEF DataOf
<1> HIDE DEF s0
<1>16. LateIsCounted'
  <2>1. \A s \in Sessions : tally'[s].late = tally[s].late BY <1>10
  <2> QED BY <1>5, <1>14, <2>1 DEF IInv, LateIsCounted
<1>17. TallyAccounts'
  <2> SUFFICES ASSUME NEW s \in Sessions, s \notin closed' \/ Awaits(W', s)
               PROVE  tally'[s].attempted = tally'[s].written + tally'[s].dropped
                          + tally'[s].errors + Count(W', DataOf(s)) + InHand(DataOf(s))'
    BY DEF TallyAccounts
  <2>1. tally[s].attempted = tally[s].written + tally[s].dropped + tally[s].errors
                                + Count(W, DataOf(s)) + InHand(DataOf(s))
    BY <1>3, <1>5 DEF IInv, TallyAccounts
  <2>2. Count(W, DataOf(s)) \in Nat BY <1>6
  <2>3. /\ tally[s].attempted \in Nat /\ tally[s].written \in Nat
        /\ tally[s].dropped \in Nat /\ tally[s].errors \in Nat
    BY DEF IInv, Typed, Tally
  <2>4. CASE s = s0
    <3>1. InHand(DataOf(s)) = 1 /\ InHand(DataOf(s))' = 0 BY <1>14, <1>15, <2>4
    <3> QED BY <1>5, <1>10, <2>1, <2>2, <2>3, <2>4, <3>1
  <2>5. CASE s # s0
    <3>1. InHand(DataOf(s)) = 0 /\ InHand(DataOf(s))' = 0 BY <1>14, <1>15, <2>5
    <3> QED BY <1>5, <1>10, <2>1, <2>5, <3>1
  <2> QED BY <2>4, <2>5
<1>18. MarkersBalance' BY <1>3 DEF IInv, MarkersBalance
<1>19. HealthAccounts'
  <2>1. InHand(DataMsg)' = 0 /\ InHand(DataMsg) = 1 BY <1>1, <1>14
  <2>2. /\ health.attempted \in Nat /\ health.written \in Nat /\ health.dropped \in Nat
        /\ health.errors \in Nat /\ writer.wrote \in Nat /\ Count(W, DataMsg) \in Nat
    BY <1>6 DEF IInv, Typed, Health, Thread
  <2> QED BY <1>3, <1>5, <1>9, <2>1, <2>2 DEF IInv, HealthAccounts
<1> QED BY <1>7, <1>11, <1>12, <1>13, <1>16, <1>17, <1>18, <1>19 DEF IInv

\* A reservation is taken before the send, or the row is a counted drop.
LEMMA ReserveKeeps ==
    ASSUME IInv, Reserve
    PROVE  IInv'
<1>1. prod.pc = "reserve"
      /\ UNCHANGED <<clock, chan, closed, pending, thread, emitted, unmarked, faults>>
  BY DEF Reserve
<1>2. reserved \in Nat
  <2>1. Q \in QueueState /\ Q.reserved = reserved BY DEF IInv, Typed, Q
  <2> QED BY <2>1, QueueFields
<1>3. CASE reserved + 1 > QueueBytes
  <2>1. Drop /\ reserved' = reserved BY <1>3 DEF Reserve
  <2> QED BY <1>1, <1>2, <2>1, DropKeeps
<1>4. CASE ~(reserved + 1 > QueueBytes)
  <2>1. reserved' = reserved + 1 /\ prod' = [prod EXCEPT !.pc = "send"]
        /\ UNCHANGED <<health, unreported, tally>>
    BY <1>4 DEF Reserve, ReserveBytes
  <2>2. UNCHANGED <<now, begun, closedOne, account, writer, opened, poisoned, ranges, file,
                    chan, closed, pending, emitted, unmarked, faults>>
    BY <1>1 DEF clock, thread
  <2>3. W' = W BY <2>2 DEF W, Way, Q
  <2>4. Q' \in QueueState
    <3>1. Q' = [chan |-> chan, reserved |-> reserved + 1, unreported |-> unreported,
                closed |-> closed, pending |-> pending]
      BY <2>1, <2>2 DEF Q
    <3>2. chan \in Seq(Msg) /\ closed \in SUBSET Sessions /\ pending \in Seq(CloseMsg)
          /\ unreported \in Nat
      BY QueueFields DEF IInv, Typed, Q
    <3>3. reserved + 1 \in Nat BY <1>2
    <3> QED BY <3>1, <3>2, <3>3 DEF QueueState
  <2>5. /\ prod' \in [pc : {"idle", "reserve", "send", "sent", "exit"}, row : DataMsg \cup {None}]
        /\ prod'.pc = "send" /\ prod'.row = prod.row /\ prod.row \in DataMsg
    BY <1>1, <2>1 DEF IInv, Typed
  <2>6. Typed' BY <2>1, <2>2, <2>4, <2>5 DEF IInv, Typed
  <2>7. Bounded' BY <1>2, <1>4, <2>1, <2>2, BoundsAssumption DEF IInv, Bounded
  <2>8. Reserved'
    <3>1. W \in Seq(Msg) BY TypedQueue DEF IInv
    <3>2. Count(W, LineMsg) \in Nat BY <3>1, CountType
    <3> QED BY <1>1, <2>1, <2>3, <2>5, <3>2 DEF IInv, Reserved
  <2>9. ClosedOnce' BY <1>1, <2>2, <2>3, <2>5 DEF IInv, ClosedOnce
  <2>10. \A M : InHand(M)' = InHand(M) BY <1>1, <2>5 DEF InHand
  <2>11. LateIsCounted' BY <2>1, <2>2, <2>3, <2>10 DEF IInv, LateIsCounted
  <2>12. TallyAccounts' BY <2>1, <2>2, <2>3, <2>10 DEF IInv, TallyAccounts
  <2>13. MarkersBalance' BY <2>2 DEF IInv, MarkersBalance
  <2>14. HealthAccounts' BY <2>1, <2>2, <2>3, <2>10 DEF IInv, HealthAccounts
  <2> QED BY <2>6, <2>7, <2>8, <2>9, <2>11, <2>12, <2>13, <2>14 DEF IInv
<1> QED BY <1>3, <1>4

\* The row goes into the channel, behind the barriers already there, or is a counted drop.
LEMMA SendKeeps ==
    ASSUME IInv, Send
    PROVE  IInv'
<1> DEFINE m == prod.row
<1>1. prod.pc = "send"
      /\ UNCHANGED <<clock, closed, pending, thread, emitted, unmarked, faults>>
  BY DEF Send
<1>2. /\ Q \in QueueState /\ Fits(Q) /\ W \in Seq(Msg) /\ writer.batch \in Seq(Msg)
      /\ Q.reserved = reserved /\ Q.chan = chan /\ Q.pending = pending
  BY TypedQueue DEF IInv, Fits
<1>3. m \in DataMsg BY <1>1 DEF IInv, Typed
<1>4. CASE ~Room(Q)
  <2>1. Drop /\ reserved' = reserved - 1 /\ UNCHANGED chan BY <1>4 DEF Send
  <2> QED BY <1>1, <2>1, DropKeeps
<1>5. CASE Room(Q)
  <2>1. chan' = Append(chan, m) /\ prod' = [prod EXCEPT !.pc = "sent"]
        /\ UNCHANGED <<reserved, health, unreported, tally>>
    BY <1>5 DEF Send
  <2>2. UNCHANGED <<now, begun, closedOne, account, writer, opened, poisoned, ranges, file,
                    closed, pending, emitted, unmarked, faults>>
    BY <1>1 DEF clock, thread
  <2>3. m \in LineMsg /\ m \in Msg BY <1>3 DEF LineMsg, Msg
  <2> HIDE DEF m
  <2>4. Append(chan, m) \in Seq(Msg) /\ Len(Append(chan, m)) = Len(chan) + 1
    BY <1>2, <2>3, QueueFields, AppendProperties
  <2>5. Q' \in QueueState /\ Q'.chan = Append(Q.chan, m) /\ Q'.pending = Q.pending
    <3>1. Q' = [chan |-> Append(chan, m), reserved |-> reserved, unreported |-> unreported,
                closed |-> closed, pending |-> pending]
      BY <2>1, <2>2 DEF Q
    <3>2. reserved \in Nat /\ closed \in SUBSET Sessions /\ pending \in Seq(CloseMsg)
          /\ unreported \in Nat
      BY QueueFields DEF IInv, Typed, Q
    <3> QED BY <1>2, <2>4, <3>1, <3>2 DEF QueueState
  <2>6. /\ \A s : Awaits(W', s) <=> Awaits(W, s)
        /\ \A s : Follows(W', s) => Follows(W, s) \/ (m \in DataOf(s) /\ Awaits(W, s))
        /\ OneEach(W) => OneEach(W')
        /\ \A M : Count(W', M) = Count(W, M) + (IF m \in M THEN 1 ELSE 0)
    <3> DEFINE r == Q'
               b == writer.batch
    <3>1. r \in QueueState /\ r.chan = Append(Q.chan, m) /\ r.pending = Q.pending
          /\ b \in Seq(Msg)
      BY <1>2, <2>5
    <3>2. W = Way(b, Q) /\ W' = Way(b, r) BY <2>2 DEF W, Way
    <3> HIDE DEF r, b
    <3>3. /\ \A s : Awaits(Way(b, r), s) <=> Awaits(Way(b, Q), s)
          /\ \A s : Follows(Way(b, r), s) =>
                 Follows(Way(b, Q), s) \/ (m \in DataOf(s) /\ Awaits(Way(b, Q), s))
          /\ OneEach(Way(b, Q)) => OneEach(Way(b, r))
          /\ \A M : Count(Way(b, r), M) = Count(Way(b, Q), M) + (IF m \in M THEN 1 ELSE 0)
          /\ Gains(Way(b, Q), Way(b, r), {m})
      BY <1>2, <2>3, <3>1, ChannelPut
    <3> QED BY <3>2, <3>3
  <2>7. \A M : Count(W, M) \in Nat BY <1>2, CountType
  <2>8. /\ prod' \in [pc : {"idle", "reserve", "send", "sent", "exit"}, row : DataMsg \cup {None}]
        /\ prod'.pc = "sent" /\ prod'.row \in DataMsg
    BY <1>3, <2>1 DEF IInv, Typed, m
  <2>9. Typed' BY <2>1, <2>2, <2>5, <2>8 DEF IInv, Typed
  <2>10. Bounded'
    <3>1. Len(chan') <= QueueRecords
      BY <1>2, <1>5, <2>1, <2>4, QueueFields, BoundsAssumption DEF Room
    <3> QED BY <2>1, <2>2, <3>1 DEF IInv, Bounded
  <2>11. Reserved'
    <3>1. reserved = Count(W, LineMsg) + 1 BY <1>1 DEF IInv, Reserved
    <3>2. Count(W', LineMsg) = Count(W, LineMsg) + 1 BY <2>3, <2>6
    <3>3. Count(W', LineMsg) \in Nat BY <2>7, <3>2
    <3> QED BY <2>1, <2>8, <3>1, <3>2, <3>3 DEF Reserved
  <2>12. ClosedOnce' BY <1>1, <2>2, <2>6, <2>8 DEF IInv, ClosedOnce
  <2>13. \A M : InHand(M)' = 0 /\ InHand(M) = IF m \in M THEN 1 ELSE 0
    BY <1>1, <2>8 DEF InHand, m
  <2>14. LateIsCounted' BY <2>1, <2>6, <2>13 DEF IInv, LateIsCounted
  <2>15. TallyAccounts'
    <3> SUFFICES ASSUME NEW s \in Sessions, s \notin closed' \/ Awaits(W', s)
                 PROVE  tally'[s].attempted = tally'[s].written + tally'[s].dropped
                            + tally'[s].errors + Count(W', DataOf(s)) + InHand(DataOf(s))'
      BY DEF TallyAccounts
    <3>1. tally[s].attempted = tally[s].written + tally[s].dropped + tally[s].errors
                                  + Count(W, DataOf(s)) + InHand(DataOf(s))
      BY <2>2, <2>6 DEF IInv, TallyAccounts
    <3>2. Count(W', DataOf(s)) = Count(W, DataOf(s)) + InHand(DataOf(s)) BY <2>6, <2>13
    <3>3. InHand(DataOf(s))' = 0 /\ InHand(DataOf(s)) \in Nat BY <2>13
    <3>4. /\ tally[s].attempted \in Nat /\ tally[s].written \in Nat
          /\ tally[s].dropped \in Nat /\ tally[s].errors \in Nat
      BY DEF IInv, Typed, Tally
    <3>5. Count(W, DataOf(s)) \in Nat BY <2>7
    <3> QED BY <2>1, <3>1, <3>2, <3>3, <3>4, <3>5
  <2>16. MarkersBalance' BY <2>2 DEF IInv, MarkersBalance
  <2>17. HealthAccounts'
    <3>1. Count(W', DataMsg) = Count(W, DataMsg) + InHand(DataMsg) BY <2>6, <2>13
    <3>2. InHand(DataMsg)' = 0 /\ InHand(DataMsg) \in Nat BY <2>13
    <3>3. /\ health.attempted \in Nat /\ health.written \in Nat /\ health.dropped \in Nat
          /\ health.errors \in Nat /\ writer.wrote \in Nat /\ Count(W, DataMsg) \in Nat
      BY <2>7 DEF IInv, Typed, Health, Thread
    <3>4. health.attempted <= health.written + health.dropped + health.errors + writer.wrote
                                  + Count(W, DataMsg) + InHand(DataMsg)
      BY DEF IInv, HealthAccounts
    <3> QED BY <2>1, <2>2, <3>1, <3>2, <3>3, <3>4 DEF HealthAccounts
  <2> QED BY <2>9, <2>10, <2>11, <2>12, <2>14, <2>15, <2>16, <2>17 DEF IInv
<1> QED BY <1>4, <1>5

\* The end of a loss span, and its description.
LEMMA SentKeeps ==
    ASSUME IInv, Sent
    PROVE  IInv'
<1> DEFINE s0 == prod.row.session
           S == {}
<1>1. /\ prod.pc = "sent" /\ prod' = [pc |-> "idle", row |-> None]
      /\ tally' = [tally EXCEPT ![s0].inLoss = FALSE]
      /\ Queue(Describe(Q))
      /\ UNCHANGED <<now, begun, closedOne, account, health, writer, opened, poisoned, ranges,
                     file, emitted, unmarked, faults>>
  BY DEF Sent, Ready, clock, thread
<1>2. s0 \in Sessions BY <1>1 DEF IInv, Typed, DataMsg
<1> HIDE DEF s0
<1>3. Moved(writer.batch, Q, Describe(Q), {}) /\ Describe(Q) \in QueueState
  <2>1. Alike(writer.batch, Q, Describe(Q)) BY TypedQueue, DescribeAlike DEF IInv
  <2>2. Moved(writer.batch, Q, Describe(Q), {}) BY <2>1, AlikeMoves
  <2> QED BY <2>2 DEF Moved, Fits
<1>4. Q' = Describe(Q) BY <1>1, <1>3, QueueIs
<1>5. /\ Fits(Q') /\ closed' = closed \cup S /\ unreported' <= unreported
      /\ \A s : Awaits(W', s) <=> Awaits(W, s) \/ s \in S
      /\ \A s : Follows(W', s) => Follows(W, s)
      /\ OneEach(W')
      /\ \A M : M \subseteq DataMsg => Count(W', M) = Count(W, M)
      /\ reserved' - Count(W', LineMsg) = reserved - Count(W, LineMsg)
      /\ \A s \in Sessions : Awaits(W', s) => s \in closed'
      /\ \A s \in Sessions : s \notin closed' \/ Awaits(W', s) => s \notin closed \/ Awaits(W, s)
      /\ Q' \in QueueState /\ Q'.reserved = reserved' /\ Q'.chan = chan'
      /\ Count(W, LineMsg) \in Nat /\ Count(W', LineMsg) \in Nat
      /\ reserved \in Nat /\ reserved' \in Nat
  <2>1. S \subseteq Sessions /\ S \cap closed = {} /\ \A s \in S : ~Awaits(W, s)
    OBVIOUS
  <2>2. Moved(writer.batch, Q, Q', S) BY <1>3, <1>4
  <2> HIDE DEF S
  <2> QED BY <1>1, <2>1, <2>2, OnTheWay
<1>6. /\ tally' \in [Sessions -> Tally]
      /\ \A s \in Sessions : /\ tally'[s].attempted = tally[s].attempted
                             /\ tally'[s].written = tally[s].written
                             /\ tally'[s].dropped = tally[s].dropped
                             /\ tally'[s].errors = tally[s].errors
                             /\ tally'[s].late = tally[s].late
  BY <1>1, <1>2 DEF IInv, Typed, Tally
<1>7. Typed' BY <1>1, <1>5, <1>6 DEF IInv, Typed
<1>8. Bounded'
  <2>1. unreported' <= health'.dropped
    <3>1. unreported \in Nat /\ unreported' \in Nat /\ health.dropped \in Nat
      BY <1>5, QueueFields DEF IInv, Typed, Health, Q
    <3> QED BY <1>1, <1>5, <3>1 DEF IInv, Bounded
  <2> QED BY <1>1, <1>5, <2>1 DEF IInv, Bounded, Fits
<1>9. Reserved'
  <2>1. reserved = Count(W, LineMsg) + 0 BY <1>1 DEF IInv, Reserved
  <2>2. reserved' = Count(W', LineMsg) + 0 BY <1>5, <2>1, SameGap
  <2> QED BY <1>1, <2>2 DEF Reserved
<1>10. ClosedOnce' BY <1>1, <1>5 DEF IInv, ClosedOnce
<1>11. \A M : InHand(M) = 0 /\ InHand(M)' = 0 BY <1>1 DEF InHand
<1>12. LateIsCounted' BY <1>5, <1>6, <1>11 DEF IInv, LateIsCounted
<1>13. TallyAccounts' BY <1>5, <1>6, <1>11, DataOfData DEF IInv, TallyAccounts
<1>14. MarkersBalance' BY <1>1 DEF IInv, MarkersBalance
<1>15. HealthAccounts' BY <1>1, <1>5, <1>11 DEF IInv, HealthAccounts
<1> QED BY <1>7, <1>8, <1>9, <1>10, <1>12, <1>13, <1>14, <1>15 DEF IInv

\* finish closes the open session.
LEMMA FinishKeeps ==
    ASSUME IInv, Finish
    PROVE  IInv'
<1> DEFINE m == Barrier("process_exit")
           c == CloseSession(Q, account.session, m)
           r == Describe(c)
           S == {account.session}
<1>1. /\ prod.pc = "idle" /\ account # None /\ Queue(r) /\ faults' = faults + 1
      /\ account' = None /\ closedOne' = TRUE /\ prod' = [pc |-> "exit", row |-> None]
      /\ UNCHANGED <<now, begun, health, tally, writer, opened, poisoned, ranges, file,
                     emitted, unmarked>>
  BY DEF Finish, Fault, Ready, thread
<1>2. account \in Open BY <1>1 DEF IInv, Typed
<1>3. m \in CloseMsg /\ m.session = account.session /\ account.session \in Sessions
  BY <1>2 DEF Barrier, CloseMsg, Open, Ends
<1>4. Fits(Q) /\ writer.batch \in Seq(Msg) /\ Q.closed = closed BY TypedQueue DEF IInv
<1> HIDE DEF m
<1>5. Moved(writer.batch, Q, c, S) BY <1>3, <1>4, CloseMoves
<1> HIDE DEF c, S
<1>6. Moved(writer.batch, Q, r, S) /\ r \in QueueState
  <2>1. Fits(c) BY <1>5 DEF Moved
  <2>2. Alike(writer.batch, c, r) BY <1>4, <2>1, DescribeAlike
  <2>3. Moved(writer.batch, Q, r, S) BY <1>4, <1>5, <2>2, MovedThenAlike
  <2> QED BY <2>3 DEF Moved, Fits
<1> HIDE DEF r
<1>7. Q' = r BY <1>1, <1>6, QueueIs
<1>8. S \subseteq Sessions /\ S \cap closed = {} /\ \A s \in S : ~Awaits(W, s)
  <2>1. \A s \in closed : s < account.session BY <1>1 DEF IInv, ClosedOnce
  <2>2. account.session \in Nat BY <1>3, BoundsAssumption DEF Sessions
  <2>3. account.session \notin closed BY <2>1, <2>2
  <2>4. ~Awaits(W, account.session) BY <1>3, <2>3 DEF IInv, ClosedOnce
  <2> QED BY <1>3, <2>3, <2>4 DEF S
<1>9. /\ Fits(Q') /\ closed' = closed \cup S /\ unreported' <= unreported
      /\ \A s : Awaits(W', s) <=> Awaits(W, s) \/ s \in S
      /\ \A s : Follows(W', s) => Follows(W, s)
      /\ OneEach(W')
      /\ \A M : M \subseteq DataMsg => Count(W', M) = Count(W, M)
      /\ reserved' - Count(W', LineMsg) = reserved - Count(W, LineMsg)
      /\ \A s \in Sessions : Awaits(W', s) => s \in closed'
      /\ \A s \in Sessions : s \notin closed' \/ Awaits(W', s) => s \notin closed \/ Awaits(W, s)
      /\ Q' \in QueueState /\ Q'.reserved = reserved' /\ Q'.chan = chan'
      /\ Count(W, LineMsg) \in Nat /\ Count(W', LineMsg) \in Nat
      /\ reserved \in Nat /\ reserved' \in Nat
  BY <1>1, <1>6, <1>7, <1>8, OnTheWay
<1>10. Typed' BY <1>1, <1>9 DEF IInv, Typed
<1>11. Bounded'
  <2>1. unreported' <= health'.dropped
    <3>1. unreported \in Nat /\ unreported' \in Nat /\ health.dropped \in Nat
      BY <1>9, QueueFields DEF IInv, Typed, Health, Q
    <3> QED BY <1>1, <1>9, <3>1 DEF IInv, Bounded
  <2> QED BY <1>1, <1>9, <2>1 DEF IInv, Bounded, Fits
<1>12. Reserved'
  <2>1. reserved = Count(W, LineMsg) + 0 BY <1>1 DEF IInv, Reserved
  <2>2. reserved' = Count(W', LineMsg) + 0 BY <1>9, <2>1, SameGap
  <2> QED BY <1>1, <2>2 DEF Reserved
<1>13. ClosedOnce' BY <1>1, <1>9 DEF ClosedOnce
<1>14. \A M : InHand(M) = 0 /\ InHand(M)' = 0 BY <1>1 DEF InHand
<1>15. LateIsCounted' BY <1>1, <1>9, <1>14 DEF IInv, LateIsCounted
<1>16. TallyAccounts' BY <1>1, <1>9, <1>14, DataOfData DEF IInv, TallyAccounts
<1>17. MarkersBalance' BY <1>1 DEF IInv, MarkersBalance
<1>18. HealthAccounts' BY <1>1, <1>9, <1>14 DEF IInv, HealthAccounts
<1> QED BY <1>10, <1>11, <1>12, <1>13, <1>15, <1>16, <1>17, <1>18 DEF IInv

\* A deferred barrier goes into the channel: it was the next on its way.
LEMMA SendDeferredKeeps ==
    ASSUME IInv, SendDeferred
    PROVE  IInv' /\ W' = W
<1>1. /\ prod.pc = "exit" /\ pending # <<>> /\ Room(Q)
      /\ chan' = Append(chan, Head(pending)) /\ pending' = Tail(pending)
      /\ UNCHANGED <<now, begun, closedOne, account, prod, reserved, health, unreported, tally,
                     closed, writer, opened, poisoned, ranges, file, emitted, unmarked, faults>>
  BY DEF SendDeferred, clock, thread
<1>2. /\ Q \in QueueState /\ Fits(Q) /\ W \in Seq(Msg) /\ writer.batch \in Seq(Msg)
      /\ Q.chan = chan /\ Q.pending = pending
  BY TypedQueue DEF IInv, Fits
<1>3. chan \in Seq(Msg) /\ pending \in Seq(CloseMsg) /\ reserved \in Nat
      /\ closed \in SUBSET Sessions /\ unreported \in Nat /\ pending \in Seq(Msg)
  BY <1>2, QueueFields DEF Q
<1>4. Head(pending) \in CloseMsg /\ Tail(pending) \in Seq(CloseMsg)
  BY <1>1, <1>3, HeadTailProperties
<1>5. Head(pending) \in Msg /\ Tail(pending) \in Seq(Msg)
  BY <1>1, <1>3, HeadTailProperties
<1>6. Append(chan, Head(pending)) \in Seq(Msg)
      /\ Len(Append(chan, Head(pending))) = Len(chan) + 1
  BY <1>3, <1>5, AppendProperties
<1>7. W' = W
  <2> DEFINE b == writer.batch
             x == b \o chan
             h == <<Head(pending)>>
             t == Tail(pending)
  <2>1. b \in Seq(Msg) /\ x \in Seq(Msg) /\ h \in Seq(Msg) /\ t \in Seq(Msg)
    BY <1>2, <1>3, <1>5, ConcatProperties
  <2>2. pending = h \o t BY <1>1, <1>3, HeadAndTail
  <2>3. Append(chan, Head(pending)) = chan \o h BY <1>3, <1>5, AppendIsConcat
  <2> HIDE DEF h, t, b
  <2>4. b \o (chan \o h) = x \o h BY <1>3, <2>1, Regroup
  <2>5. (x \o h) \o t = x \o (h \o t) BY <2>1, Regroup
  <2>6. W = x \o (h \o t) BY <1>2, <2>2 DEF W, Way, b
  <2>7. W' = (b \o (chan \o h)) \o t BY <1>1, <2>3 DEF W, Way, Q, b, t
  <2> QED BY <2>4, <2>5, <2>6, <2>7
<1>8. Q' \in QueueState
  <2>1. Q' = [chan |-> Append(chan, Head(pending)), reserved |-> reserved,
              unreported |-> unreported, closed |-> closed, pending |-> Tail(pending)]
    BY <1>1 DEF Q
  <2> QED BY <1>3, <1>4, <1>6, <2>1 DEF QueueState
<1>9. Typed' BY <1>1, <1>8 DEF IInv, Typed
<1>10. Bounded'
  <2>1. Len(chan') <= QueueRecords
    BY <1>1, <1>2, <1>6, QueueFields, BoundsAssumption DEF Room
  <2> QED BY <1>1, <2>1 DEF IInv, Bounded
<1>11. Reserved' BY <1>1, <1>7 DEF IInv, Reserved
<1>12. ClosedOnce' BY <1>1, <1>7 DEF IInv, ClosedOnce
<1>13. \A M : InHand(M)' = InHand(M) BY <1>1 DEF InHand
<1>14. LateIsCounted' BY <1>1, <1>7, <1>13 DEF IInv, LateIsCounted
<1>15. TallyAccounts' BY <1>1, <1>7, <1>13 DEF IInv, TallyAccounts
<1>16. MarkersBalance' BY <1>1 DEF IInv, MarkersBalance
<1>17. HealthAccounts' BY <1>1, <1>7, <1>13 DEF IInv, HealthAccounts
<1>18. IInv' BY <1>9, <1>10, <1>11, <1>12, <1>14, <1>15, <1>16, <1>17 DEF IInv
<1> QED BY <1>7, <1>18

-----------------------------------------------------------------------------
(* The thread's steps.                                                     *)
LEMMA Halves ==
    ASSUME NEW S, NEW w \in Seq(S), NEW k \in 0..Len(w)
    PROVE  /\ SubSeq(w, 1, k) \in Seq(S) /\ Len(SubSeq(w, 1, k)) = k
           /\ SubSeq(w, k + 1, Len(w)) \in Seq(S)
           /\ Len(SubSeq(w, k + 1, Len(w))) = Len(w) - k
           /\ SubSeq(w, 1, k) \o SubSeq(w, k + 1, Len(w)) = w
<1>1. Len(w) \in Nat /\ \A i \in 1..Len(w) : w[i] \in S BY LenProperties, ElementOfSeq
<1>2. \A i \in 1..k : w[i] \in S BY <1>1
<1>3. \A i \in (k + 1)..Len(w) : w[i] \in S BY <1>1
<1>4. SubSeq(w, 1, k) \in Seq(S) /\ Len(SubSeq(w, 1, k)) = IF 1 <= k THEN k - 1 + 1 ELSE 0
  BY <1>2, SubSeqProperties
<1>5. SubSeq(w, k + 1, Len(w)) \in Seq(S)
      /\ Len(SubSeq(w, k + 1, Len(w))) = IF k + 1 <= Len(w) THEN Len(w) - (k + 1) + 1 ELSE 0
  BY <1>1, <1>3, SubSeqProperties
<1>6. SubSeq(w, 1, k) \o SubSeq(w, k + 1, Len(w)) = SubSeq(w, 1, Len(w))
  <2>1. 1 \in 1..(Len(w) + 1) /\ k \in (1 - 1)..Len(w) /\ Len(w) \in k..Len(w) BY <1>1
  <2> QED BY <2>1, ConcatAdjacentSubSeq
<1>7. SubSeq(w, 1, Len(w)) = w BY SubSeqFull
<1>8. Len(SubSeq(w, 1, k)) = k BY <1>1, <1>4
<1>9. Len(SubSeq(w, k + 1, Len(w))) = Len(w) - k BY <1>1, <1>5
<1> QED BY <1>4, <1>5, <1>6, <1>7, <1>8, <1>9, Zenon

\* The head and the tail of a sequence put together from them.
LEMMA ConsHeadTail ==
    ASSUME NEW S, NEW x \in S, NEW v \in Seq(S)
    PROVE  /\ <<x>> \o v # <<>> /\ <<x>> \o v \in Seq(S)
           /\ Head(<<x>> \o v) = x /\ Tail(<<x>> \o v) = v
<1> DEFINE z == <<x>>
           w == z \o v
<1>1. z \in Seq(S) /\ Len(z) = 1 /\ z[1] = x OBVIOUS
<1> HIDE DEF z
<1>2. /\ w \in Seq(S) /\ Len(v) \in Nat /\ Len(w) = 1 + Len(v)
      /\ \A i \in 1..(1 + Len(v)) : w[i] = IF i <= 1 THEN z[i] ELSE v[i - 1]
  <2>1. Len(v) \in Nat BY LenProperties
  <2>2. /\ w \in Seq(S) /\ Len(w) = Len(z) + Len(v)
        /\ \A i \in 1..(Len(z) + Len(v)) : w[i] = IF i <= Len(z) THEN z[i] ELSE v[i - Len(z)]
    BY <1>1, ConcatProperties
  <2> HIDE DEF w
  <2> QED BY <1>1, <2>1, <2>2
<1> HIDE DEF w
<1>3. w # <<>> BY <1>2, EmptySeq
<1>4. Head(w) = x BY <1>1, <1>2, <1>3
<1>5. Tail(w) = v
  <2>1. Tail(w) \in Seq(S) /\ Len(Tail(w)) = Len(v)
        /\ \A i \in 1..Len(Tail(w)) : Tail(w)[i] = w[i + 1]
    BY <1>2, <1>3, HeadTailProperties
  <2>2. \A i \in 1..Len(v) : i + 1 \in 1..(1 + Len(v)) /\ ~(i + 1 <= 1) /\ (i + 1) - 1 = i
    BY <1>2
  <2>3. \A i \in 1..Len(v) : w[i + 1] = v[i] BY <1>2, <2>2
  <2>4. \A i \in 1..Len(Tail(w)) : Tail(w)[i] = v[i] BY <2>1, <2>3
  <2> QED BY <2>1, <2>4, SeqEqual
<1> QED BY <1>2, <1>3, <1>4, <1>5 DEF w, z

\* The first on its way is the first of the batch.
LEMMA WayTail ==
    ASSUME NEW b \in Seq(Msg), b # <<>>, NEW q \in QueueState
    PROVE  /\ Way(b, q) # <<>> /\ Head(Way(b, q)) = Head(b)
           /\ Tail(Way(b, q)) = Way(Tail(b), q)
<1> DEFINE h == <<Head(b)>>
           t == Tail(b)
           c == q.chan
           p == q.pending
<1>1. Head(b) \in Msg /\ t \in Seq(Msg) /\ h \in Seq(Msg) BY HeadTailProperties
<1>2. c \in Seq(Msg) /\ p \in Seq(Msg) BY QueueFields
<1>3. b = h \o t BY HeadAndTail
<1>4. Way(t, q) = (t \o c) \o p /\ Way(b, q) = (b \o c) \o p BY DEF Way
<1>5. t \o c \in Seq(Msg) /\ (t \o c) \o p \in Seq(Msg)
  <2> HIDE DEF t, c, p
  <2>1. t \o c \in Seq(Msg) BY <1>1, <1>2, ConcatProperties
  <2> QED BY <1>2, <2>1, ConcatProperties
<1> HIDE DEF t, c, p, h
<1>6. Way(b, q) = h \o ((t \o c) \o p)
  <2>1. (h \o t) \o c = h \o (t \o c) BY <1>1, <1>2, Regroup
  <2> DEFINE x == t \o c
  <2>2. x \in Seq(Msg) BY <1>5
  <2>3. b \o c = h \o x BY <1>3, <2>1
  <2> HIDE DEF x
  <2>4. (h \o x) \o p = h \o (x \o p) BY <1>1, <1>2, <2>2, Regroup
  <2> QED BY <1>4, <2>3, <2>4 DEF x
<1> DEFINE v == (t \o c) \o p
<1>7. v \in Seq(Msg) BY <1>5
<1> HIDE DEF v
<1>8. /\ <<Head(b)>> \o v # <<>> /\ Head(<<Head(b)>> \o v) = Head(b)
      /\ Tail(<<Head(b)>> \o v) = v
  BY <1>1, <1>7, ConsHeadTail
<1> QED BY <1>4, <1>6, <1>8 DEF v, h, t

\* The thread takes a message off its batch.
LEMMA HeadTaken ==
    ASSUME IInv, writer.batch # <<>>, writer'.batch = Tail(writer.batch),
           UNCHANGED <<chan, pending>>
    PROVE  /\ W \in Seq(Msg) /\ W # <<>> /\ Message = Head(W) /\ Message \in Msg
           /\ W' = Tail(W) /\ W' \in Seq(Msg) /\ Tail(writer.batch) \in Seq(Msg)
           /\ Len(Tail(writer.batch)) <= Batch
           /\ \A M : Count(W, M) = Count(W', M) + (IF Message \in M THEN 1 ELSE 0)
           /\ \A M : Count(W, M) \in Nat /\ Count(W', M) \in Nat
<1>1. /\ writer.batch \in Seq(Msg) /\ W \in Seq(Msg) /\ Q \in QueueState
  BY TypedQueue DEF IInv, Fits
<1>2. /\ W # <<>> /\ Head(W) = Head(writer.batch)
      /\ Tail(W) = Way(Tail(writer.batch), Q)
  BY <1>1, WayTail DEF W
<1>3. W' = Tail(W) BY <1>2 DEF W, Way, Q
<1>4. Tail(W) \in Seq(Msg) /\ Head(W) \in Msg BY <1>1, <1>2, HeadTailProperties
<1>5. Tail(writer.batch) \in Seq(Msg) /\ Len(Tail(writer.batch)) = Len(writer.batch) - 1
      /\ Len(writer.batch) \in Nat
  BY <1>1, HeadTailProperties, LenProperties
<1>6. Len(Tail(writer.batch)) <= Batch BY <1>5, BoundsAssumption DEF IInv, Bounded
<1>7. \A M : Count(W, M) = Count(Tail(W), M) + (IF Head(W) \in M THEN 1 ELSE 0)
  BY <1>1, <1>2, CountTail
<1>8. \A M : Count(W, M) \in Nat /\ Count(Tail(W), M) \in Nat BY <1>1, <1>4, CountType
<1> QED BY <1>1, <1>2, <1>3, <1>4, <1>5, <1>6, <1>7, <1>8 DEF Message

\* The lines of a file, of whatever kind, as its buffer is emptied.
LEMMA FlushKeeps ==
    ASSUME NEW f \in File, NEW n \in 0..Len(f.buf)
    PROVE  /\ Flush(f, n) \in File /\ Flush(f, n).synced = f.synced
           /\ Len(f.disk) <= Len(Flush(f, n).disk)
           /\ Len(f.disk) \in Nat /\ Len(Flush(f, n).disk) \in Nat
           /\ f.buf \in Seq(Balanced) /\ f.disk \in Seq(Balanced) =>
                  Flush(f, n).buf \in Seq(Balanced) /\ Flush(f, n).disk \in Seq(Balanced)
<1> DEFINE a == SubSeq(f.buf, 1, n)
           b == SubSeq(f.buf, n + 1, Len(f.buf))
           d == f.disk \o a
           g == Flush(f, n)
<1>1. f.buf \in Seq(FileLine) /\ f.disk \in Seq(FileLine) /\ f.synced \in Nat BY DEF File
<1>2. a \in Seq(FileLine) /\ b \in Seq(FileLine) /\ Len(a) = n BY <1>1, Halves
<1>3. d \in Seq(FileLine) /\ Len(d) = Len(f.disk) + n /\ Len(f.disk) \in Nat
  BY <1>1, <1>2, ConcatProperties, LenProperties
<1>4. g = [f EXCEPT !.disk = d, !.buf = b] BY DEF Flush
<1>5. ASSUME f.buf \in Seq(Balanced), f.disk \in Seq(Balanced)
      PROVE  d \in Seq(Balanced) /\ b \in Seq(Balanced)
  <2>1. a \in Seq(Balanced) /\ b \in Seq(Balanced) BY <1>5, Halves
  <2> HIDE DEF a
  <2>2. d \in Seq(Balanced) BY <1>5, <2>1, ConcatProperties
  <2> QED BY <2>1, <2>2
<1> HIDE DEF a, b, d, g
<1>6. g \in File /\ g.synced = f.synced /\ g.disk = d /\ g.buf = b
  BY <1>1, <1>2, <1>3, <1>4 DEF File
<1> QED BY <1>3, <1>5, <1>6 DEF g

\* A line put in the buffer of a file.
LEMMA PutKeeps ==
    ASSUME NEW f \in File, NEW l \in FileLine
    PROVE  LET g == [f EXCEPT !.buf = Append(@, l)]
           IN  /\ g \in File /\ g.synced = f.synced /\ g.disk = f.disk
               /\ g.buf = Append(f.buf, l)
               /\ f.buf \in Seq(Balanced) /\ l \in Balanced => g.buf \in Seq(Balanced)
<1> DEFINE g == [f EXCEPT !.buf = Append(@, l)]
           a == Append(f.buf, l)
<1>1. f.buf \in Seq(FileLine) BY DEF File
<1>2. a \in Seq(FileLine) BY <1>1, AppendProperties
<1>3. f.buf \in Seq(Balanced) /\ l \in Balanced => a \in Seq(Balanced) BY AppendProperties
<1>4. g = [f EXCEPT !.buf = a] OBVIOUS
<1> HIDE DEF a, g
<1>5. g \in File /\ g.synced = f.synced /\ g.disk = f.disk /\ g.buf = a
  BY <1>2, <1>4 DEF File
<1> QED BY <1>3, <1>5 DEF a, g

\* A step that leaves the queue, the row in hand and the tallies' accounts alone.
LEMMA AsideKeeps ==
    ASSUME IInv, Typed', Bounded', MarkersBalance',
           UNCHANGED <<account, prod, reserved, closed, chan, pending>>,
           writer'.batch = writer.batch,
           \A s \in Sessions : /\ tally'[s].attempted = tally[s].attempted
                               /\ tally'[s].written = tally[s].written
                               /\ tally'[s].dropped = tally[s].dropped
                               /\ tally'[s].errors = tally[s].errors
                               /\ tally'[s].late = tally[s].late,
           health'.attempted = health.attempted,
           health.written + health.dropped + health.errors + writer.wrote <=
               health'.written + health'.dropped + health'.errors + writer'.wrote
    PROVE  IInv'
<1>1. W' = W BY DEF W, Way, Q
<1>2. \A M : InHand(M)' = InHand(M) BY DEF InHand
<1>3. Reserved' BY <1>1 DEF IInv, Reserved
<1>4. ClosedOnce' BY <1>1 DEF IInv, ClosedOnce
<1>5. LateIsCounted' BY <1>1, <1>2 DEF IInv, LateIsCounted
<1>6. TallyAccounts' BY <1>1, <1>2 DEF IInv, TallyAccounts
<1>7. HealthAccounts'
  <2>1. W \in Seq(Msg) BY TypedQueue DEF IInv
  <2>2. /\ health.attempted \in Nat /\ health.written \in Nat /\ health.dropped \in Nat
        /\ health.errors \in Nat /\ writer.wrote \in Nat /\ Count(W, DataMsg) \in Nat
        /\ InHand(DataMsg) \in Nat
    <3>1. Count(W, DataMsg) \in Nat BY <2>1, CountType
    <3>2. InHand(DataMsg) \in Nat BY HandType
    <3> QED BY <3>1, <3>2 DEF IInv, Typed, Health, Thread
  <2>3. /\ health'.attempted \in Nat /\ health'.written \in Nat /\ health'.dropped \in Nat
        /\ health'.errors \in Nat /\ writer'.wrote \in Nat
    BY DEF Typed, Health, Thread
  <2>4. health.attempted <= health.written + health.dropped + health.errors + writer.wrote
                                + Count(W, DataMsg) + InHand(DataMsg)
    BY DEF IInv, HealthAccounts
  <2>5. InHand(DataMsg)' = InHand(DataMsg) BY <1>2
  <2> QED BY <1>1, <2>2, <2>3, <2>4, <2>5 DEF HealthAccounts
<1> QED BY <1>3, <1>4, <1>5, <1>6, <1>7 DEF IInv

\* A sum of three.
LEMMA SumOfThree == \A a, b, c \in Nat : a + b + c \in Nat OBVIOUS

\* A line is taken off the batch: written or lost.
LEMMA LineTaken ==
    ASSUME IInv, Typed', Bounded', MarkersBalance',
           writer.batch # <<>>, Message \in LineMsg, writer'.batch = Tail(writer.batch),
           reserved' = reserved - 1,
           UNCHANGED <<account, prod, closed, chan, pending>>,
           \A s \in Sessions :
               /\ tally'[s].attempted = tally[s].attempted
               /\ tally'[s].late = tally[s].late
               /\ tally'[s].written + tally'[s].dropped + tally'[s].errors =
                      tally[s].written + tally[s].dropped + tally[s].errors
                          + (IF Message \in DataOf(s) THEN 1 ELSE 0),
           health'.attempted = health.attempted,
           health.written + health.dropped + health.errors + writer.wrote
               + (IF Message \in DataMsg THEN 1 ELSE 0) <=
               health'.written + health'.dropped + health'.errors + writer'.wrote
    PROVE  IInv'
<1>1. /\ W \in Seq(Msg) /\ W # <<>> /\ Message = Head(W) /\ W' = Tail(W)
      /\ \A M : Count(W, M) = Count(W', M) + (IF Message \in M THEN 1 ELSE 0)
      /\ \A M : Count(W, M) \in Nat /\ Count(W', M) \in Nat
  BY HeadTaken
<1>2. Head(W) \notin CloseMsg BY <1>1 DEF LineMsg, DataMsg, MarkMsg, CloseMsg
<1>3. /\ \A s : Awaits(W', s) <=> Awaits(W, s)
      /\ \A s : Follows(W', s) => Follows(W, s)
      /\ OneEach(W) => OneEach(W')
  BY <1>1, <1>2, TakeHead
<1>4. \A M : InHand(M)' = InHand(M) BY DEF InHand
<1>5. Reserved'
  <2>1. Count(W, LineMsg) = Count(W', LineMsg) + 1 BY <1>1
  <2>2. Count(W', LineMsg) \in Nat BY <1>1
  <2>3. reserved = Count(W, LineMsg) + (IF prod.pc = "send" THEN 1 ELSE 0)
    BY DEF IInv, Reserved
  <2> QED BY <2>1, <2>2, <2>3 DEF Reserved
<1>6. ClosedOnce' BY <1>3 DEF IInv, ClosedOnce
<1>7. LateIsCounted' BY <1>3, <1>4 DEF IInv, LateIsCounted
<1>8. TallyAccounts'
  <2> SUFFICES ASSUME NEW s \in Sessions, s \notin closed' \/ Awaits(W', s)
               PROVE  tally'[s].attempted = tally'[s].written + tally'[s].dropped
                          + tally'[s].errors + Count(W', DataOf(s)) + InHand(DataOf(s))'
    BY DEF TallyAccounts
  <2>1. tally[s].attempted = tally[s].written + tally[s].dropped + tally[s].errors
                                + Count(W, DataOf(s)) + InHand(DataOf(s))
    BY <1>3 DEF IInv, TallyAccounts
  <2>2. Count(W, DataOf(s)) = Count(W', DataOf(s)) + (IF Message \in DataOf(s) THEN 1 ELSE 0)
        /\ Count(W', DataOf(s)) \in Nat
    BY <1>1
  <2>3. /\ tally[s].written \in Nat /\ tally[s].dropped \in Nat /\ tally[s].errors \in Nat
        /\ tally'[s].written \in Nat /\ tally'[s].dropped \in Nat /\ tally'[s].errors \in Nat
    BY DEF IInv, Typed, Tally
  <2>4. InHand(DataOf(s))' = InHand(DataOf(s)) BY <1>4
  <2>5. InHand(DataOf(s)) \in Nat BY HandType
  <2>6. tally'[s].written + tally'[s].dropped + tally'[s].errors =
            tally[s].written + tally[s].dropped + tally[s].errors
                + (IF Message \in DataOf(s) THEN 1 ELSE 0)
    OBVIOUS
  <2>7. tally'[s].attempted = tally[s].attempted OBVIOUS
  <2>8. tally[s].attempted = tally'[s].written + tally'[s].dropped + tally'[s].errors
                                + Count(W', DataOf(s)) + InHand(DataOf(s))
    <3> DEFINE a == tally[s].attempted
               u == tally[s].written + tally[s].dropped + tally[s].errors
               v == tally'[s].written + tally'[s].dropped + tally'[s].errors
               x == IF Message \in DataOf(s) THEN 1 ELSE 0
               c == Count(W, DataOf(s))
               e == Count(W', DataOf(s))
               h == InHand(DataOf(s))
    <3>1. u \in Nat /\ v \in Nat /\ x \in Nat /\ e \in Nat /\ h \in Nat
      <4>1. u \in Nat BY <2>3, SumOfThree, Zenon
      <4>2. v \in Nat BY <2>3, SumOfThree, Zenon
      <4>3. x \in Nat OBVIOUS
      <4> QED BY <2>2, <2>5, <4>1, <4>2, <4>3
    <3>2. a = u + c + h BY <2>1
    <3>3. c = e + x /\ v = u + x BY <2>2, <2>6
    <3> HIDE DEF a, u, v, x, c, e, h
    <3>4. a = v + e + h BY <3>1, <3>2, <3>3
    <3> QED BY <3>4 DEF a, v, e, h
  <2> QED BY <2>4, <2>7, <2>8
<1>9. HealthAccounts'
  <2>1. Count(W, DataMsg) = Count(W', DataMsg) + (IF Message \in DataMsg THEN 1 ELSE 0)
        /\ Count(W', DataMsg) \in Nat
    BY <1>1
  <2>2. InHand(DataMsg)' = InHand(DataMsg) BY <1>4
  <2>3. InHand(DataMsg) \in Nat BY HandType
  <2>4. /\ health.attempted \in Nat /\ health.written \in Nat /\ health.dropped \in Nat
        /\ health.errors \in Nat /\ writer.wrote \in Nat
    BY DEF IInv, Typed, Health, Thread
  <2>5. /\ health'.attempted \in Nat /\ health'.written \in Nat /\ health'.dropped \in Nat
        /\ health'.errors \in Nat /\ writer'.wrote \in Nat
    BY DEF Typed, Health, Thread
  <2>6. health.attempted <= health.written + health.dropped + health.errors + writer.wrote
                                + Count(W, DataMsg) + InHand(DataMsg)
    BY DEF IInv, HealthAccounts
  <2>7. health.attempted <= health'.written + health'.dropped + health'.errors + writer'.wrote
                                + Count(W', DataMsg) + InHand(DataMsg)
    <3> DEFINE a == health.attempted
               u == health.written + health.dropped + health.errors + writer.wrote
               v == health'.written + health'.dropped + health'.errors + writer'.wrote
               x == IF Message \in DataMsg THEN 1 ELSE 0
               c == Count(W, DataMsg)
               e == Count(W', DataMsg)
               h == InHand(DataMsg)
    <3>1. u \in Nat /\ v \in Nat /\ x \in Nat /\ e \in Nat /\ h \in Nat /\ a \in Nat
      <4>1. a \in Nat BY DEF IInv, Typed, Health
      <4>2. u \in Nat BY <2>4
      <4>3. v \in Nat BY <2>5
      <4>4. x \in Nat OBVIOUS
      <4> QED BY <2>1, <2>3, <4>1, <4>2, <4>3, <4>4
    <3>2. a <= u + c + h BY <2>6
    <3>3. c = e + x /\ u + x <= v BY <2>1
    <3> HIDE DEF a, u, v, x, c, e, h
    <3>4. a <= v + e + h BY <3>1, <3>2, <3>3
    <3> QED BY <3>4 DEF a, v, e, h
  <2> QED BY <2>2, <2>7 DEF HealthAccounts
<1> QED BY <1>5, <1>6, <1>7, <1>8, <1>9 DEF IInv

\* recv and try_recv move messages from the channel to the batch, in their order.
LEMMA ReceiveKeeps ==
    ASSUME IInv, Receive
    PROVE  IInv' /\ W' = W
<1> DEFINE k == Min({Batch, Len(chan)})
           a == SubSeq(chan, 1, k)
           c == SubSeq(chan, k + 1, Len(chan))
<1>1. /\ writer.pc = "recv" /\ writer' = [writer EXCEPT !.pc = "msgs", !.batch = a]
      /\ chan' = c
      /\ UNCHANGED <<now, begun, closedOne, account, prod, unreported, closed, pending,
                     emitted, reserved, health, tally, opened, poisoned, ranges, file,
                     unmarked, faults>>
  BY DEF Receive, producer, clock
<1>2. chan \in Seq(Msg) /\ pending \in Seq(Msg) /\ pending \in Seq(CloseMsg)
      /\ reserved \in Nat /\ unreported \in Nat /\ closed \in SUBSET Sessions
  BY QueueFields DEF IInv, Typed, Q
<1>3. k \in 0..Len(chan) /\ k <= Batch
  <2>1. Len(chan) \in Nat /\ Batch \in Nat \ {0} BY <1>2, LenProperties, BoundsAssumption
  <2>2. Min({Batch, Len(chan)}) \in Int /\ k <= Batch /\ k <= Len(chan)
        /\ k \in {Batch, Len(chan)}
    BY <2>1, MinOfTwo
  <2> HIDE DEF k
  <2> QED BY <2>1, <2>2
<1> HIDE DEF k
<1>4. /\ a \in Seq(Msg) /\ Len(a) = k /\ c \in Seq(Msg) /\ Len(c) = Len(chan) - k
      /\ a \o c = chan
  BY <1>2, <1>3, Halves
<1> HIDE DEF a, c
<1>5. writer' \in Thread /\ writer'.pc = "msgs" /\ writer'.batch = a
      /\ writer'.wrote = writer.wrote
  BY <1>1, <1>4 DEF IInv, Typed, Thread
<1>6. W' = W
  <2>1. writer.batch = <<>> BY <1>1 DEF IInv, Typed
  <2>2. <<>> \o chan = chan BY <1>2, ConcatEmptySeq
  <2> QED BY <1>1, <1>4, <1>5, <2>1, <2>2 DEF W, Way, Q
<1>7. Q' \in QueueState
  <2>1. Q' = [chan |-> c, reserved |-> reserved, unreported |-> unreported,
              closed |-> closed, pending |-> pending]
    BY <1>1 DEF Q
  <2> QED BY <1>2, <1>4, <2>1 DEF QueueState
<1>8. Typed' BY <1>1, <1>5, <1>7 DEF IInv, Typed
<1>9. Bounded'
  <2>1. Len(chan') <= QueueRecords
    <3>1. Len(chan) \in Nat /\ Len(chan) <= QueueRecords
      BY <1>2, LenProperties DEF IInv, Bounded
    <3> QED BY <1>1, <1>3, <1>4, <3>1, BoundsAssumption
  <2> QED BY <1>1, <1>3, <1>4, <1>5, <2>1 DEF IInv, Bounded
<1>10. Reserved' BY <1>1, <1>6 DEF IInv, Reserved
<1>11. ClosedOnce' BY <1>1, <1>6 DEF IInv, ClosedOnce
<1>12. \A M : InHand(M)' = InHand(M) BY <1>1 DEF InHand
<1>13. LateIsCounted' BY <1>1, <1>6, <1>12 DEF IInv, LateIsCounted
<1>14. TallyAccounts' BY <1>1, <1>6, <1>12 DEF IInv, TallyAccounts
<1>15. MarkersBalance' BY <1>1, <1>5 DEF IInv, MarkersBalance
<1>16. HealthAccounts' BY <1>1, <1>5, <1>6, <1>12 DEF IInv, HealthAccounts
<1>17. IInv' BY <1>8, <1>9, <1>10, <1>11, <1>13, <1>14, <1>15, <1>16 DEF IInv
<1> QED BY <1>6, <1>17

\* What the first message of a batch is.
LEMMA FirstLine ==
    ASSUME IInv, NEW f \in Files, writer.pc = "msgs", writer.batch # <<>>,
           Message.msg = "line", Message.file = f
    PROVE  /\ Message \in LineMsg /\ Message.line \in FileLine
           /\ f = MarkerFile => Message \in MarkMsg /\ Message.line \in Balanced
                                    /\ Message \notin DataMsg
           /\ f # MarkerFile => Message \in DataMsg /\ f \in DataFiles
                                    /\ Message.line \in DataLine /\ Message.session \in Sessions
<1>1. Message \in Msg
  <2>1. writer.batch \in Seq(Msg) BY DEF IInv, Typed, Thread
  <2> QED BY <2>1, HeadTailProperties DEF Message
<1>2. Message \in LineMsg BY <1>1 DEF Msg, CloseMsg
<1>3. f \in DataFiles => f # MarkerFile BY BoundsAssumption DEF DataFiles, MarkerFile
<1>4. CASE f = MarkerFile
  <2>1. Message \in MarkMsg /\ Message \notin DataMsg
    BY <1>2, <1>3, <1>4 DEF LineMsg, DataMsg
  <2>2. Message.line \in MarkLine BY <2>1 DEF MarkMsg
  <2>3. Message.line \in Balanced BY <2>2 DEF Balanced, FileLine, MarkLine
  <2> QED BY <1>2, <1>4, <2>1, <2>3 DEF Balanced
<1>5. CASE f # MarkerFile
  <2>1. Message \in DataMsg BY <1>2, <1>5 DEF LineMsg, MarkMsg
  <2>2. /\ f \in DataFiles /\ Message.line \in DataLine /\ Message.session \in Sessions
    BY <2>1 DEF DataMsg
  <2> QED BY <1>2, <1>5, <2>1, <2>2 DEF FileLine
<1> QED BY <1>4, <1>5

\* A line in the batch holds a reservation: releasing it never wraps.
LEMMA ReservedPositive ==
    ASSUME IInv, writer.batch # <<>>, Message \in LineMsg
    PROVE  reserved \in Nat /\ reserved - 1 \in Nat /\ W \in Seq(Msg)
<1>1. /\ writer.batch \in Seq(Msg) /\ W \in Seq(Msg) /\ Q \in QueueState /\ Q.reserved = reserved
  BY TypedQueue DEF IInv, Fits
<1>2. W # <<>> /\ Head(W) = Message /\ Tail(W) \in Seq(Msg)
  BY <1>1, WayTail, HeadTailProperties DEF W, Message
<1>3. Count(W, LineMsg) = Count(Tail(W), LineMsg) + 1 BY <1>1, <1>2, CountTail
<1>4. Count(Tail(W), LineMsg) \in Nat BY <1>2, CountType
<1>5. reserved = Count(W, LineMsg) + (IF prod.pc = "send" THEN 1 ELSE 0)
  BY DEF IInv, Reserved
<1> QED BY <1>1, <1>3, <1>4, <1>5

\* A file as it may be, and one whose markers balance.
Sound(f) == f \in File /\ f.synced <= Len(f.disk)
Even(f) == f.buf \in Seq(Balanced) /\ f.disk \in Seq(Balanced)

\* The files are sound, and the markers in their file balance.
LEMMA FilesAreSound ==
    ASSUME IInv
    PROVE  /\ \A f \in Files : Sound(file[f])
           /\ MarkerFile \in Files /\ Even(file[MarkerFile])
  BY DEF IInv, Typed, Bounded, MarkersBalance, Sound, Even, Files

\* Emptying part of a buffer keeps that.
LEMMA FlushSound ==
    ASSUME NEW f, Sound(f), NEW n \in 0..Len(f.buf)
    PROVE  Sound(Flush(f, n)) /\ (Even(f) => Even(Flush(f, n)))
<1>1. f \in File BY DEF Sound
<1>2. /\ Flush(f, n) \in File /\ Flush(f, n).synced = f.synced
      /\ Len(f.disk) <= Len(Flush(f, n).disk)
      /\ Len(f.disk) \in Nat /\ Len(Flush(f, n).disk) \in Nat
      /\ f.buf \in Seq(Balanced) /\ f.disk \in Seq(Balanced) =>
             Flush(f, n).buf \in Seq(Balanced) /\ Flush(f, n).disk \in Seq(Balanced)
  BY <1>1, FlushKeeps
<1>3. f.synced \in Nat BY <1>1 DEF File
<1>4. f.synced <= Len(Flush(f, n).disk) BY <1>2, <1>3 DEF Sound
<1> QED BY <1>2, <1>4 DEF Sound, Even

\* Emptying the whole buffer keeps it.
LEMMA FlushAllSound ==
    ASSUME NEW f, Sound(f)
    PROVE  Sound(FlushAll(f)) /\ (Even(f) => Even(FlushAll(f)))
<1>1. Len(f.buf) \in 0..Len(f.buf)
  <2>1. f.buf \in Seq(FileLine) BY DEF Sound, File
  <2>2. Len(f.buf) \in Nat BY <2>1, LenProperties
  <2> QED BY <2>2
<1>2. Sound(Flush(f, Len(f.buf))) /\ (Even(f) => Even(Flush(f, Len(f.buf))))
  BY <1>1, FlushSound
<1> QED BY <1>2 DEF FlushAll

\* A line put in the buffer keeps it.
LEMMA PutSound ==
    ASSUME NEW f, Sound(f), NEW l \in FileLine
    PROVE  LET g == [f EXCEPT !.buf = Append(@, l)]
           IN  Sound(g) /\ (Even(f) /\ l \in Balanced => Even(g))
<1> DEFINE g == [f EXCEPT !.buf = Append(@, l)]
<1>1. f \in File BY DEF Sound
<1>2. /\ g \in File /\ g.synced = f.synced /\ g.disk = f.disk
      /\ f.buf \in Seq(Balanced) /\ l \in Balanced => g.buf \in Seq(Balanced)
  BY <1>1, PutKeeps
<1> HIDE DEF g
<1>3. Sound(g) /\ (Even(f) /\ l \in Balanced => Even(g)) BY <1>2 DEF Sound, Even
<1> QED BY <1>3 DEF g

\* Syncing keeps it.
LEMMA SyncSound ==
    ASSUME NEW f, Sound(f)
    PROVE  LET g == [f EXCEPT !.synced = Len(f.disk)]
           IN  Sound(g) /\ (Even(f) => Even(g))
<1> DEFINE n == Len(f.disk)
           g == [f EXCEPT !.synced = n]
<1>1. f.disk \in Seq(FileLine) BY DEF Sound, File
<1>2. n \in Nat BY <1>1, LenProperties
<1>3. g.disk = f.disk /\ g.buf = f.buf /\ g.synced = n /\ g \in File
  <2> HIDE DEF n
  <2> QED BY <1>2 DEF Sound, File
<1>4. Len(g.disk) = n BY <1>3
<1> HIDE DEF g, n
<1>5. Sound(g) BY <1>2, <1>3, <1>4 DEF Sound
<1>6. Even(f) => Even(g) BY <1>3 DEF Even
<1> QED BY <1>5, <1>6 DEF g, n

\* The range of a session in a file, after a row.
LEMMA RangeType ==
    ASSUME NEW r \in Extent, NEW l \in DataLine, NEW own \in BOOLEAN, NEW start \in Nat
    PROVE  RangeAfter(r, l, own, start) \in Extent
<1> DEFINE x == IF r.rows > 0 THEN Append(r.hash, l) ELSE <<l>>
           h == [r EXCEPT !.hash = x]
           y == IF r.rows > 0 THEN r.start ELSE start
           t == [h EXCEPT !.start = y, !.end = start + 1, !.rows = r.rows + 1, !.atEnd = x]
<1>1. r.hash \in Seq(DataLine) /\ r.rows \in Nat BY DEF Extent
<1>2. Append(r.hash, l) \in Seq(DataLine) BY <1>1, AppendProperties
<1>3. x \in Seq(DataLine) BY <1>2
<1>4. y \in Nat /\ start + 1 \in Nat /\ r.rows + 1 \in Nat BY <1>1 DEF Extent
<1> HIDE DEF x, y
<1>5. h \in Extent /\ h.hash = x /\ h.rows = r.rows /\ h.start = r.start
  BY <1>3 DEF Extent
<1>6. t \in Extent
  <2> HIDE DEF h
  <2> QED BY <1>3, <1>4, <1>5 DEF Extent
<1>7. RangeAfter(r, l, own, start) = IF own THEN t ELSE IF r.rows > 0 THEN h ELSE r
  BY <1>5 DEF RangeAfter, x, y
<1> HIDE DEF h, t
<1> QED BY <1>5, <1>6, <1>7

\* A line's reservation is released as the thread takes it.
LEMMA Released ==
    ASSUME IInv, writer.batch # <<>>, Message \in LineMsg, reserved' = reserved - 1,
           UNCHANGED <<chan, unreported, closed, pending>>
    PROVE  Q' \in QueueState /\ reserved' <= QueueBytes
<1>1. reserved \in Nat /\ reserved' \in Nat BY ReservedPositive
<1>2. chan \in Seq(Msg) /\ pending \in Seq(CloseMsg) /\ unreported \in Nat
      /\ closed \subseteq Sessions
  BY QueueFields DEF IInv, Typed, Q
<1>3. Q' = [chan |-> chan, reserved |-> reserved', unreported |-> unreported,
            closed |-> closed, pending |-> pending]
  BY DEF Q
<1>4. Q' \in QueueState BY <1>1, <1>2, <1>3 DEF QueueState
<1>5. reserved' <= QueueBytes BY <1>1, BoundsAssumption DEF IInv, Bounded
<1> QED BY <1>4, <1>5

\* A line written counts as written, in the tally and in the batch.
LEMMA WriteLineKeeps ==
    ASSUME IInv, NEW f \in Files, NEW full \in BOOLEAN, WriteLine(f, full)
    PROVE  IInv'
<1> DEFINE m == Message
           b == IF full THEN FlushAll(file[f]) ELSE file[f]
           g == [b EXCEPT !.buf = Append(@, m.line)]
           start == Len(file[f].disk) + Len(file[f].buf)
           d == IF f # MarkerFile THEN 1 ELSE 0
<1>1. /\ writer.pc = "msgs" /\ writer.batch # <<>> /\ m.msg = "line" /\ m.file = f
      /\ reserved' = reserved - 1 /\ opened' = opened \cup {f}
      /\ file' = [file EXCEPT ![f] = g]
      /\ writer' = [[writer EXCEPT !.batch = Tail(@)]
                        EXCEPT !.touched = @ \cup {f}, !.wrote = @ + d]
      /\ UNCHANGED <<now, begun, closedOne, account, prod, unreported, closed, pending,
                     emitted, chan, health, poisoned, unmarked, faults>>
  BY DEF WriteLine, StartMessage, producer, clock, Consumed
<1>2. /\ m \in LineMsg /\ m.line \in FileLine
      /\ f = MarkerFile => m \in MarkMsg /\ m.line \in Balanced /\ m \notin DataMsg
      /\ f # MarkerFile => m \in DataMsg /\ f \in DataFiles /\ m.line \in DataLine
                               /\ m.session \in Sessions
  BY <1>1, FirstLine
<1>3. Sound(file[f]) /\ (f = MarkerFile => Even(file[f])) BY FilesAreSound
<1>4. Sound(b) /\ (f = MarkerFile => Even(b)) BY <1>3, FlushAllSound
<1>5. Sound(g) /\ (f = MarkerFile => Even(g))
  <2> HIDE DEF b
  <2>1. Sound(g) /\ (Even(b) /\ m.line \in Balanced => Even(g)) BY <1>2, <1>4, PutSound
  <2> QED BY <1>2, <1>4, <2>1
<1>6. d \in Nat OBVIOUS
<1>7. start \in Nat
  <2>1. file[f].disk \in Seq(FileLine) /\ file[f].buf \in Seq(FileLine)
    BY <1>3 DEF Sound, File
  <2>2. Len(file[f].disk) \in Nat /\ Len(file[f].buf) \in Nat BY <2>1, LenProperties
  <2>3. \A i, j \in Nat : i + j \in Nat OBVIOUS
  <2> QED BY <2>2, <2>3, Zenon
<1>8. Tail(writer.batch) \in Seq(Msg) /\ Len(Tail(writer.batch)) <= Batch
  <2>1. writer.batch \in Seq(Msg) /\ Len(writer.batch) <= Batch
    BY DEF IInv, Typed, Bounded, Thread
  <2>2. Tail(writer.batch) \in Seq(Msg) /\ Len(Tail(writer.batch)) = Len(writer.batch) - 1
        /\ Len(writer.batch) \in Nat
    BY <1>1, <2>1, HeadTailProperties, LenProperties
  <2> QED BY <2>1, <2>2, BoundsAssumption
<1>9. ranges' \in [Sessions -> [DataFiles -> Extent]]
  <2>1. CASE f = MarkerFile
    <3>1. ranges' = ranges BY <2>1 DEF WriteLine
    <3> QED BY <3>1 DEF IInv, Typed
  <2>2. CASE f # MarkerFile
    <3>1. ranges' = [s \in Sessions |-> [ranges[s] EXCEPT ![f] =
                         RangeAfter(@, m.line, s = m.session, start)]]
      BY <2>2 DEF WriteLine
    <3>2. \A s \in Sessions : ranges[s] \in [DataFiles -> Extent] BY DEF IInv, Typed
    <3> HIDE DEF start
    <3>3. \A s \in Sessions : RangeAfter(ranges[s][f], m.line, s = m.session, start) \in Extent
      BY <1>2, <1>7, <2>2, <3>2, RangeType
    <3> QED BY <1>2, <2>2, <3>1, <3>2, <3>3
  <2> QED BY <2>1, <2>2
<1>10. /\ tally' \in [Sessions -> Tally]
       /\ \A s \in Sessions :
              /\ tally'[s].attempted = tally[s].attempted
              /\ tally'[s].late = tally[s].late
              /\ tally'[s].dropped = tally[s].dropped
              /\ tally'[s].errors = tally[s].errors
              /\ tally'[s].written = tally[s].written + (IF m \in DataOf(s) THEN 1 ELSE 0)
  <2>1. tally \in [Sessions -> Tally] BY DEF IInv, Typed
  <2>2. CASE f = MarkerFile
    <3>1. tally' = tally BY <2>2 DEF WriteLine
    <3>2. \A s : m \notin DataOf(s) BY <1>2, <2>2 DEF DataOf
    <3>3. \A s \in Sessions : tally[s].written \in Nat BY <2>1 DEF Tally
    <3> HIDE DEF m
    <3> QED BY <2>1, <3>1, <3>2, <3>3
  <2>3. CASE f # MarkerFile
    <3>1. tally' = [tally EXCEPT ![m.session].written = @ + 1]
      BY <2>3 DEF WriteLine
    <3>2. \A s : m \in DataOf(s) <=> m.session = s BY <1>2, <2>3 DEF DataOf
    <3>3. m.session \in Sessions BY <1>2, <2>3
    <3> HIDE DEF m
    <3> QED BY <2>1, <3>1, <3>2, <3>3 DEF Tally
  <2> QED BY <2>2, <2>3
<1> HIDE DEF b, g, d, start, m
<1>11. /\ writer' \in Thread /\ writer'.pc = "msgs" /\ writer'.batch = Tail(writer.batch)
       /\ writer'.wrote = writer.wrote + d /\ writer'.close = writer.close
  <2> DEFINE t == Tail(writer.batch)
             u == writer.touched \cup {f}
             v == writer.wrote + d
  <2>1. writer \in Thread BY DEF IInv, Typed
  <2>2. u \in SUBSET Files /\ v \in Nat BY <1>6, <2>1 DEF Thread
  <2>3. t \in Seq(Msg) BY <1>8
  <2>4. writer' = [writer EXCEPT !.batch = t, !.touched = u, !.wrote = v]
    BY <1>1, <2>1 DEF Thread
  <2> HIDE DEF t, u, v
  <2>5. writer' \in Thread /\ writer'.pc = writer.pc /\ writer'.batch = t
        /\ writer'.wrote = v /\ writer'.close = writer.close
    BY <2>1, <2>2, <2>3, <2>4 DEF Thread
  <2> QED BY <1>1, <2>5 DEF t, v
<1>12. /\ file' \in [Files -> File] /\ \A h \in Files : Sound(file'[h])
       /\ Even(file'[MarkerFile])
  <2>1. file \in [Files -> File] BY DEF IInv, Typed
  <2>2. g \in File BY <1>5 DEF Sound
  <2>3. \A h \in Files : file'[h] = IF h = f THEN g ELSE file[h] BY <1>1, <2>1
  <2>4. \A h \in Files : Sound(file[h]) BY FilesAreSound
  <2>5. MarkerFile \in Files /\ Even(file[MarkerFile]) BY FilesAreSound
  <2> QED BY <1>1, <1>5, <2>1, <2>2, <2>3, <2>4, <2>5
<1>13. Q' \in QueueState /\ reserved' <= QueueBytes BY <1>1, <1>2, Released DEF m
<1>14. Typed' BY <1>1, <1>9, <1>10, <1>11, <1>12, <1>13 DEF IInv, Typed
<1>15. Bounded' BY <1>1, <1>8, <1>11, <1>12, <1>13 DEF IInv, Bounded, Sound
<1>16. MarkersBalance' BY <1>11, <1>12 DEF MarkersBalance, Even
<1>17. \A s \in Sessions :
           tally'[s].written + tally'[s].dropped + tally'[s].errors =
               tally[s].written + tally[s].dropped + tally[s].errors
                   + (IF m \in DataOf(s) THEN 1 ELSE 0)
  <2> TAKE s \in Sessions
  <2>1. tally[s].written \in Nat /\ tally[s].dropped \in Nat /\ tally[s].errors \in Nat
    BY DEF IInv, Typed, Tally
  <2> QED BY <1>10, <2>1
<1>18. health.written + health.dropped + health.errors + writer.wrote
           + (IF m \in DataMsg THEN 1 ELSE 0) <=
           health'.written + health'.dropped + health'.errors + writer'.wrote
  <2>1. health \in Health /\ writer.wrote \in Nat BY DEF IInv, Typed, Thread
  <2>2. (IF m \in DataMsg THEN 1 ELSE 0) = d BY <1>2 DEF d
  <2> QED BY <1>1, <1>6, <1>11, <2>1, <2>2 DEF Health
<1> QED BY <1>1, <1>2, <1>10, <1>11, <1>14, <1>15, <1>16, <1>17, <1>18, LineTaken DEF m

\* A line lost counts as an error.
LEMMA LineFailsKeeps ==
    ASSUME IInv, NEW f \in Files, NEW n \in 0..Len(file[f].buf), LineFails(f, n)
    PROVE  IInv'
<1> DEFINE m == Message
           g == Flush(file[f], n)
<1>1. /\ writer.pc = "msgs" /\ writer.batch # <<>> /\ m.msg = "line" /\ m.file = f
      /\ reserved' = reserved - 1
      /\ file' = [file EXCEPT ![f] = g] \/ file' = file
      /\ poisoned' \subseteq poisoned \cup (opened \cap {f})
      /\ faults' = faults + 1 /\ health' = [health EXCEPT !.errors = @ + 1]
      /\ writer' = [writer EXCEPT !.batch = Tail(@)]
      /\ UNCHANGED <<now, begun, closedOne, account, prod, unreported, closed, pending,
                     emitted, chan, opened, ranges, unmarked>>
  BY DEF LineFails, StartMessage, producer, clock, Consumed, Fault, WriteError
<1>2. /\ m \in LineMsg /\ m.line \in FileLine
      /\ f = MarkerFile => m \in MarkMsg /\ m.line \in Balanced /\ m \notin DataMsg
      /\ f # MarkerFile => m \in DataMsg /\ f \in DataFiles /\ m.line \in DataLine
                               /\ m.session \in Sessions
  BY <1>1, FirstLine
<1>3. Sound(file[f]) /\ (f = MarkerFile => Even(file[f])) BY FilesAreSound
<1>4. Sound(g) /\ (f = MarkerFile => Even(g)) BY <1>3, FlushSound
<1>5. Tail(writer.batch) \in Seq(Msg) /\ Len(Tail(writer.batch)) <= Batch
  <2>1. writer.batch \in Seq(Msg) /\ Len(writer.batch) <= Batch
    BY DEF IInv, Typed, Bounded, Thread
  <2>2. Tail(writer.batch) \in Seq(Msg) /\ Len(Tail(writer.batch)) = Len(writer.batch) - 1
        /\ Len(writer.batch) \in Nat
    BY <1>1, <2>1, HeadTailProperties, LenProperties
  <2> QED BY <2>1, <2>2, BoundsAssumption
<1>6. /\ tally' \in [Sessions -> Tally]
      /\ \A s \in Sessions :
             /\ tally'[s].attempted = tally[s].attempted
             /\ tally'[s].late = tally[s].late
             /\ tally'[s].dropped = tally[s].dropped
             /\ tally'[s].written = tally[s].written
             /\ tally'[s].errors = tally[s].errors + (IF m \in DataOf(s) THEN 1 ELSE 0)
  <2>1. tally \in [Sessions -> Tally] BY DEF IInv, Typed
  <2>2. CASE f = MarkerFile
    <3>1. tally' = tally BY <2>2 DEF LineFails
    <3>2. \A s : m \notin DataOf(s) BY <1>2, <2>2 DEF DataOf
    <3>3. \A s \in Sessions : tally[s].errors \in Nat BY <2>1 DEF Tally
    <3> HIDE DEF m
    <3> QED BY <2>1, <3>1, <3>2, <3>3
  <2>3. CASE f # MarkerFile
    <3>1. tally' = [tally EXCEPT ![m.session].errors = @ + 1]
      BY <2>3 DEF LineFails
    <3>2. \A s : m \in DataOf(s) <=> m.session = s BY <1>2, <2>3 DEF DataOf
    <3>3. m.session \in Sessions BY <1>2, <2>3
    <3> HIDE DEF m
    <3>4. \A s \in Sessions :
              tally'[s] = IF s = m.session THEN [tally[s] EXCEPT !.errors = @ + 1] ELSE tally[s]
      BY <2>1, <3>1
    <3>6. \A s \in Sessions : tally[s] \in Tally BY <2>1
    <3>5. \A s \in Sessions :
              LET r == [tally[s] EXCEPT !.errors = @ + 1]
              IN  r \in Tally /\ r.errors = tally[s].errors + 1 /\ tally[s].errors \in Nat
      <4> TAKE s \in Sessions
      <4> DEFINE t == tally[s]
                 x == t.errors + 1
      <4>1. t \in Tally BY <3>6
      <4>2. t.errors \in Nat /\ x \in Nat BY <4>1 DEF Tally
      <4> HIDE DEF t, x
      <4>3. [t EXCEPT !.errors = x] \in Tally /\ [t EXCEPT !.errors = x].errors = x
        BY <4>1, <4>2 DEF Tally
      <4> QED BY <4>2, <4>3 DEF t, x
    <3>9. tally' \in [Sessions -> Tally] BY <2>1, <3>1, <3>3, <3>5
    <3>7. \A s \in Sessions : tally'[s].errors = tally[s].errors
                                  + (IF m \in DataOf(s) THEN 1 ELSE 0)
      <4> TAKE s \in Sessions
      <4>1. CASE s = m.session
        <5>1. tally'[s] = [tally[s] EXCEPT !.errors = @ + 1] /\ m \in DataOf(s)
          BY <3>2, <3>4, <4>1
        <5>2. [tally[s] EXCEPT !.errors = @ + 1].errors = tally[s].errors + 1 BY <3>5
        <5> QED BY <5>1, <5>2
      <4>2. CASE s # m.session
        <5>1. tally'[s] = tally[s] /\ m \notin DataOf(s) /\ tally[s].errors \in Nat
          BY <3>2, <3>4, <3>5, <4>2
        <5> QED BY <5>1
      <4> QED BY <4>1, <4>2
    <3>8. \A s \in Sessions : /\ tally'[s].attempted = tally[s].attempted
                               /\ tally'[s].late = tally[s].late
                               /\ tally'[s].dropped = tally[s].dropped
                               /\ tally'[s].written = tally[s].written
      BY <3>4, <3>6 DEF Tally
    <3> QED BY <3>7, <3>8, <3>9
  <2> QED BY <2>2, <2>3
<1> HIDE DEF g, m
<1>7. /\ writer' \in Thread /\ writer'.pc = "msgs" /\ writer'.batch = Tail(writer.batch)
      /\ writer'.wrote = writer.wrote /\ writer'.close = writer.close
  <2> DEFINE t == Tail(writer.batch)
  <2>1. writer \in Thread BY DEF IInv, Typed
  <2>2. t \in Seq(Msg) BY <1>5
  <2>3. writer' = [writer EXCEPT !.batch = t] BY <1>1
  <2> HIDE DEF t
  <2>4. writer' \in Thread /\ writer'.pc = writer.pc /\ writer'.batch = t
        /\ writer'.wrote = writer.wrote /\ writer'.close = writer.close
    BY <2>1, <2>2, <2>3 DEF Thread
  <2> QED BY <1>1, <2>4 DEF t
<1>8. /\ file' \in [Files -> File] /\ \A h \in Files : Sound(file'[h])
      /\ Even(file'[MarkerFile])
  <2>1. file \in [Files -> File] BY DEF IInv, Typed
  <2>2. g \in File BY <1>4 DEF Sound
  <2>3. \A h \in Files : file'[h] = file[h] \/ (h = f /\ file'[h] = g) BY <1>1, <2>1
  <2>4. \A h \in Files : Sound(file[h]) BY FilesAreSound
  <2>5. MarkerFile \in Files /\ Even(file[MarkerFile]) BY FilesAreSound
  <2> QED BY <1>1, <1>4, <2>1, <2>2, <2>3, <2>4, <2>5
<1>9. Q' \in QueueState /\ reserved' <= QueueBytes BY <1>1, <1>2, Released DEF m
<1>10. health' \in Health /\ health'.attempted = health.attempted
       /\ health'.written = health.written /\ health'.dropped = health.dropped
       /\ health'.errors = health.errors + 1
  BY <1>1 DEF IInv, Typed, Health
<1>11. Typed'
  <2>1. poisoned' \subseteq opened' /\ faults' \in Nat BY <1>1 DEF IInv, Typed
  <2> QED BY <1>1, <1>6, <1>7, <1>8, <1>9, <1>10, <2>1 DEF IInv, Typed
<1>12. Bounded' BY <1>1, <1>5, <1>7, <1>8, <1>9, <1>10 DEF IInv, Bounded, Sound
<1>13. MarkersBalance' BY <1>7, <1>8 DEF MarkersBalance, Even
<1>14. \A s \in Sessions :
           tally'[s].written + tally'[s].dropped + tally'[s].errors =
               tally[s].written + tally[s].dropped + tally[s].errors
                   + (IF m \in DataOf(s) THEN 1 ELSE 0)
  <2> TAKE s \in Sessions
  <2>1. tally[s].written \in Nat /\ tally[s].dropped \in Nat /\ tally[s].errors \in Nat
    BY DEF IInv, Typed, Tally
  <2> QED BY <1>6, <2>1
<1>15. health.written + health.dropped + health.errors + writer.wrote
           + (IF m \in DataMsg THEN 1 ELSE 0) <=
           health'.written + health'.dropped + health'.errors + writer'.wrote
  <2>1. health \in Health /\ writer.wrote \in Nat BY DEF IInv, Typed, Thread
  <2> QED BY <1>7, <1>10, <2>1 DEF Health
<1> QED BY <1>1, <1>2, <1>6, <1>7, <1>10, <1>11, <1>12, <1>13, <1>14, <1>15, LineTaken DEF m

\* The tally of a session whose barrier has come balances, or says that a row was late.
LEMMA BarrierBalances ==
    ASSUME IInv, writer.batch # <<>>, Message \in CloseMsg
    PROVE  LET s == Message.session
           IN  /\ s \in Sessions /\ Awaits(W, s) /\ s \in closed
               /\ Balances(tally[s]) \/ tally[s].late > 0
<1> DEFINE s == Message.session
<1>1. /\ writer.batch \in Seq(Msg) /\ W \in Seq(Msg) /\ Q \in QueueState
  BY TypedQueue DEF IInv, Fits
<1>2. W # <<>> /\ Head(W) = Message BY <1>1, WayTail DEF W, Message
<1>3. s \in Sessions BY DEF CloseMsg
<1>4. Awaits(W, s) /\ (~Follows(W, s) => Count(Tail(W), DataOf(s)) = 0)
  BY <1>1, <1>2, TakeHead
<1>5. s \in closed BY <1>3, <1>4 DEF IInv, ClosedOnce
<1>6. Balances(tally[s]) \/ tally[s].late > 0
  <2> SUFFICES ASSUME ~(tally[s].late > 0) PROVE Balances(tally[s]) OBVIOUS
  <2>1. ~Follows(W, s) /\ InHand(DataOf(s)) # 1 BY <1>3, <1>4 DEF IInv, LateIsCounted
  <2>2. InHand(DataOf(s)) = 0 BY <2>1, HandType
  <2>3. Count(W, DataOf(s)) = 0
    <3>1. Message \notin DataOf(s) BY DEF CloseMsg, DataOf, DataMsg
    <3>2. Count(W, DataOf(s)) = Count(Tail(W), DataOf(s))
                                    + (IF Head(W) \in DataOf(s) THEN 1 ELSE 0)
      BY <1>1, <1>2, CountTail
    <3> QED BY <1>2, <1>4, <2>1, <3>1, <3>2
  <2>4. tally[s].attempted = tally[s].written + tally[s].dropped + tally[s].errors
                                + Count(W, DataOf(s)) + InHand(DataOf(s))
    BY <1>3, <1>4 DEF IInv, TallyAccounts
  <2>5. tally[s] \in Tally BY <1>3 DEF IInv, Typed
  <2> HIDE DEF s
  <2> QED BY <2>2, <2>3, <2>4, <2>5 DEF Tally, Balances
<1> QED BY <1>3, <1>4, <1>5, <1>6

\* At the barrier nothing of the session is on its way: its tally goes into the marker.
LEMMA SessionBarrierKeeps ==
    ASSUME IInv, NEW bad \in BadFlushes, NEW unsynced, SessionBarrier(bad, unsynced)
    PROVE  IInv'
<1> DEFINE s == Message.session
           mk == [kind |-> "session", session |-> s, by |-> Message.by,
                  start |-> Message.start, scored |-> Message.scored, tally |-> tally[s],
                  ranges |-> CloseRanges(s), flushed |-> bad = {}, synced |-> unsynced = {},
                  exact |-> RangeFiles(s) \cap poisoned = {}]
           flushed(f) == IF f \in opened /\ f \notin bad THEN FlushAll(file[f]) ELSE file[f]
           synced(f) == IF f \in SyncedFiles(s) \ unsynced
                        THEN [flushed(f) EXCEPT !.synced = Len(flushed(f).disk)]
                        ELSE flushed(f)
<1>1. /\ writer.pc = "msgs" /\ writer.batch # <<>> /\ Message.msg = "close"
      /\ faults' = faults \/ faults' = faults + 1
      /\ file' = [f \in Files |-> synced(f)]
      /\ ranges' = [ranges EXCEPT ![s] = [f \in DataFiles |-> NoRange]]
      /\ tally' = [tally EXCEPT ![s] = ZeroTally]
      /\ writer' = [[writer EXCEPT !.batch = Tail(@)] EXCEPT !.pc = "marker", !.close = mk]
      /\ UNCHANGED <<now, begun, closedOne, account, prod, unreported, closed, pending,
                     emitted, chan, reserved, health, opened, poisoned, unmarked>>
  BY DEF SessionBarrier, producer, clock, Consumed, Fault
<1>2. Message \in CloseMsg
  <2>1. writer.batch \in Seq(Msg) BY DEF IInv, Typed, Thread
  <2>2. Message \in Msg BY <1>1, <2>1, HeadTailProperties DEF Message
  <2> QED BY <1>1, <2>2 DEF Msg, LineMsg, DataMsg, MarkMsg
<1>3. /\ s \in Sessions /\ Awaits(W, s) /\ s \in closed
      /\ Balances(tally[s]) \/ tally[s].late > 0
  BY <1>1, <1>2, BarrierBalances
<1>4. tally \in [Sessions -> Tally] /\ ranges \in [Sessions -> [DataFiles -> Extent]]
  BY DEF IInv, Typed
<1>5. NoRange \in Extent /\ ZeroTally \in Tally
  <2>1. <<>> \in Seq(DataLine) OBVIOUS
  <2> QED BY <2>1 DEF NoRange, Extent, ZeroTally, Tally
<1>6. CloseRanges(s) \in [DataFiles -> Extent]
  <2> SUFFICES ASSUME NEW f \in DataFiles
               PROVE  [ranges[s][f] EXCEPT !.hash = RangeHash(ranges[s][f]), !.atEnd = <<>>]
                          \in Extent
    BY DEF CloseRanges
  <2> DEFINE r == ranges[s][f]
  <2>1. r \in Extent BY <1>3, <1>4
  <2> HIDE DEF r
  <2> DEFINE h == r.atEnd
             e == <<>>
  <2>2. h \in Seq(DataLine) /\ e \in Seq(DataLine) BY <2>1 DEF Extent
  <2> HIDE DEF h, e
  <2>3. [r EXCEPT !.hash = h, !.atEnd = e] \in Extent BY <2>1, <2>2 DEF Extent
  <2> QED BY <2>3 DEF RangeHash, r, h, e
<1>7. mk \in Marker
  <2> DEFINE c == CloseRanges(s)
             t == tally[s]
             x == (bad = {})
             y == (unsynced = {})
             z == (RangeFiles(s) \cap poisoned = {})
  <2>1. c \in [DataFiles -> Extent] /\ t \in Tally BY <1>3, <1>4, <1>6
  <2>2. x \in BOOLEAN /\ y \in BOOLEAN /\ z \in BOOLEAN OBVIOUS
  <2>3. Message.by \in Ends /\ Message.start \in Starts /\ Message.scored \in Nat
    BY <1>2 DEF CloseMsg
  <2> HIDE DEF c, t, x, y, z
  <2>4. [kind |-> "session", session |-> s, by |-> Message.by, start |-> Message.start,
         scored |-> Message.scored, tally |-> t, ranges |-> c, flushed |-> x, synced |-> y,
         exact |-> z] \in Marker
    BY <1>3, <2>1, <2>2, <2>3 DEF Marker
  <2> QED BY <2>4 DEF c, t, x, y, z
<1>8. mk \in Balanced
  <2>1. mk \in FileLine /\ mk.tally = tally[s] BY <1>7 DEF FileLine
  <2> HIDE DEF mk
  <2> QED BY <1>3, <2>1 DEF Balanced
<1>9. \A f \in Files : Sound(synced(f)) /\ (f = MarkerFile => Even(synced(f)))
  <2> TAKE f \in Files
  <2>1. Sound(file[f]) /\ (f = MarkerFile => Even(file[f])) BY FilesAreSound
  <2>2. Sound(FlushAll(file[f])) /\ (Even(file[f]) => Even(FlushAll(file[f])))
    BY <2>1, FlushAllSound
  <2> DEFINE g == flushed(f)
             h == [g EXCEPT !.synced = Len(g.disk)]
  <2>3. Sound(g) /\ (f = MarkerFile => Even(g)) BY <2>1, <2>2
  <2>4. synced(f) = h \/ synced(f) = g OBVIOUS
  <2> HIDE DEF g, flushed, synced
  <2>5. Sound(h) /\ (Even(g) => Even(h)) BY <2>3, SyncSound
  <2> QED BY <2>3, <2>4, <2>5
<1> HIDE DEF s, mk, flushed, synced
<1>10. /\ file' \in [Files -> File] /\ \A f \in Files : Sound(file'[f])
       /\ Even(file'[MarkerFile])
  <2>1. \A f \in Files : synced(f) \in File BY <1>9 DEF Sound
  <2>2. MarkerFile \in Files BY DEF Files
  <2> QED BY <1>1, <1>9, <2>1, <2>2
<1>11. /\ W \in Seq(Msg) /\ W # <<>> /\ Message = Head(W) /\ W' = Tail(W)
       /\ Tail(writer.batch) \in Seq(Msg) /\ Len(Tail(writer.batch)) <= Batch
       /\ \A M : Count(W, M) = Count(W', M) + (IF Message \in M THEN 1 ELSE 0)
       /\ \A M : Count(W, M) \in Nat /\ Count(W', M) \in Nat
  <2>1. writer'.batch = Tail(writer.batch) BY <1>1 DEF IInv, Typed, Thread
  <2> QED BY <1>1, <2>1, HeadTaken
<1>12. /\ writer' \in Thread /\ writer'.pc = "marker" /\ writer'.batch = Tail(writer.batch)
       /\ writer'.wrote = writer.wrote /\ writer'.close = mk
  <2> DEFINE t == Tail(writer.batch)
  <2>1. writer \in Thread BY DEF IInv, Typed
  <2>2. t \in Seq(Msg) BY <1>11
  <2>3. writer' = [writer EXCEPT !.batch = t, !.pc = "marker", !.close = mk] BY <1>1
  <2> HIDE DEF t
  <2>4. writer' \in Thread /\ writer'.pc = "marker" /\ writer'.batch = t
        /\ writer'.wrote = writer.wrote /\ writer'.close = mk
    BY <1>7, <2>1, <2>2, <2>3 DEF Thread
  <2> QED BY <2>4 DEF t
<1>13. /\ \A t : Awaits(W', t) => Awaits(W, t)
       /\ \A t : Follows(W', t) => Follows(W, t)
       /\ OneEach(W') /\ ~Awaits(W', s)
  <2>1. OneEach(W) BY DEF IInv, ClosedOnce
  <2> QED BY <1>2, <1>11, <2>1, TakeHead DEF s
<1>14. \A M : M \subseteq LineMsg => Count(W', M) = Count(W, M)
  <2> TAKE M
  <2> HAVE M \subseteq LineMsg
  <2>1. Message \notin LineMsg BY <1>2 DEF CloseMsg, LineMsg, DataMsg, MarkMsg
  <2> QED BY <1>11, <2>1
<1>15. \A M : InHand(M)' = InHand(M) BY <1>1 DEF InHand
<1>16. Typed'
  <2>1. Q' = Q BY <1>1 DEF Q
  <2>2. ranges' \in [Sessions -> [DataFiles -> Extent]] BY <1>1, <1>4, <1>5
  <2>3. tally' \in [Sessions -> Tally] BY <1>1, <1>4, <1>5
  <2>4. faults' \in Nat BY <1>1 DEF IInv, Typed
  <2> QED BY <1>1, <1>7, <1>10, <1>12, <2>1, <2>2, <2>3, <2>4 DEF IInv, Typed
<1>17. Bounded' BY <1>1, <1>10, <1>11, <1>12 DEF IInv, Bounded, Sound
<1>18. Reserved' BY <1>1, <1>14 DEF IInv, Reserved
<1>19. ClosedOnce' BY <1>1, <1>13 DEF IInv, ClosedOnce
<1>20. \A t \in Sessions : t # s => tally'[t] = tally[t] BY <1>1, <1>4
<1>21. LateIsCounted'
  <2>1. ~Follows(W', s) BY <1>13 DEF Follows, Awaits
  <2> QED BY <1>13, <1>15, <1>20, <2>1 DEF IInv, LateIsCounted
<1>22. TallyAccounts'
  <2> SUFFICES ASSUME NEW t \in Sessions, t \notin closed' \/ Awaits(W', t)
               PROVE  tally'[t].attempted = tally'[t].written + tally'[t].dropped
                          + tally'[t].errors + Count(W', DataOf(t)) + InHand(DataOf(t))'
    BY DEF TallyAccounts
  <2>1. t # s BY <1>1, <1>3, <1>13
  <2>2. t \notin closed \/ Awaits(W, t) BY <1>1, <1>13
  <2>3. tally[t].attempted = tally[t].written + tally[t].dropped + tally[t].errors
                                + Count(W, DataOf(t)) + InHand(DataOf(t))
    BY <2>2 DEF IInv, TallyAccounts
  <2>4. Count(W', DataOf(t)) = Count(W, DataOf(t)) BY <1>14, DataOfData DEF LineMsg
  <2>5. InHand(DataOf(t))' = InHand(DataOf(t)) BY <1>15
  <2>6. tally'[t] = tally[t] BY <1>20, <2>1
  <2> QED BY <2>3, <2>4, <2>5, <2>6
<1>23. MarkersBalance' BY <1>8, <1>10, <1>12 DEF MarkersBalance, Even
<1>24. HealthAccounts'
  <2>1. Count(W', DataMsg) = Count(W, DataMsg) BY <1>14 DEF LineMsg
  <2>2. InHand(DataMsg)' = InHand(DataMsg) BY <1>15
  <2> QED BY <1>1, <1>12, <2>1, <2>2 DEF IInv, HealthAccounts
<1> QED BY <1>16, <1>17, <1>18, <1>19, <1>21, <1>22, <1>23, <1>24 DEF IInv

\* The marker goes to its file.
LEMMA WriteMarkerKeeps ==
    ASSUME IInv, WriteMarker
    PROVE  IInv'
<1> DEFINE g == [file[MarkerFile] EXCEPT !.buf = Append(@, writer.close)]
<1>0. file' = [file EXCEPT ![MarkerFile] = FlushAll(g)]
  BY DEF WriteMarker
<1>1. /\ writer.pc = "marker" /\ opened' = opened \cup {MarkerFile}
      /\ writer' = [writer EXCEPT !.pc = "sync"]
      /\ UNCHANGED <<now, begun, closedOne, account, prod, unreported, closed, pending,
                     emitted, chan, reserved, health, tally, poisoned, ranges, unmarked,
                     faults>>
  BY DEF WriteMarker, producer, clock
<1>2. writer.close \in Marker /\ writer.close \in Balanced /\ writer.close \in FileLine
  BY <1>1 DEF IInv, Typed, MarkersBalance, FileLine
<1>3. Sound(file[MarkerFile]) /\ Even(file[MarkerFile]) /\ MarkerFile \in Files
  BY FilesAreSound
<1>4. Sound(g) /\ Even(g) BY <1>2, <1>3, PutSound
<1> HIDE DEF g
<1>5. Sound(FlushAll(g)) /\ Even(FlushAll(g)) BY <1>4, FlushAllSound
<1>6. /\ file' \in [Files -> File] /\ \A f \in Files : Sound(file'[f])
      /\ Even(file'[MarkerFile])
  <2>1. file \in [Files -> File] BY DEF IInv, Typed
  <2>2. FlushAll(g) \in File BY <1>5 DEF Sound
  <2>3. \A f \in Files : Sound(file[f]) BY FilesAreSound
  <2> QED BY <1>0, <1>3, <1>5, <2>1, <2>2, <2>3
<1>7. /\ writer' \in Thread /\ writer'.pc = "sync" /\ writer'.batch = writer.batch
      /\ writer'.wrote = writer.wrote /\ writer'.close = writer.close
  BY <1>1 DEF IInv, Typed, Thread
<1>8. Q' = Q BY <1>1 DEF Q
<1>9. MarkerFile \in Files BY <1>3
<1>10. Typed' BY <1>1, <1>2, <1>6, <1>7, <1>8, <1>9 DEF IInv, Typed
<1>11. Bounded' BY <1>1, <1>6, <1>7 DEF IInv, Bounded, Sound
<1>12. MarkersBalance' BY <1>2, <1>6, <1>7 DEF MarkersBalance, Even
<1>13. health.written + health.dropped + health.errors + writer.wrote <=
           health'.written + health'.dropped + health'.errors + writer'.wrote
  BY <1>1, <1>7 DEF IInv, Typed, Health, Thread
<1> QED BY <1>1, <1>7, <1>10, <1>11, <1>12, <1>13, AsideKeeps

\* The thread is done with a barrier.
LEMMA CloseDoneType ==
    ASSUME IInv, writer' = CloseDone
    PROVE  /\ writer' \in Thread /\ writer'.pc = "msgs" /\ writer'.batch = writer.batch
           /\ writer'.wrote = writer.wrote
  BY DEF IInv, Typed, Thread, CloseDone

\* A marker that is lost is a write error.
LEMMA MarkerLostType ==
    ASSUME IInv, MarkerLost, writer.close \in Marker
    PROVE  /\ unmarked' \subseteq Sessions
           /\ health' \in Health /\ health'.attempted = health.attempted
           /\ health'.dropped = health.dropped
           /\ health.written + health.dropped + health.errors + writer.wrote <=
                  health'.written + health'.dropped + health'.errors + writer.wrote
<1>1. unmarked' \subseteq Sessions BY DEF MarkerLost, IInv, Typed, Marker
<1>2. health \in Health /\ health' = [health EXCEPT !.errors = @ + 1]
  BY DEF MarkerLost, WriteError, IInv, Typed
<1>3. /\ health' \in Health /\ health'.attempted = health.attempted
      /\ health'.dropped = health.dropped /\ health'.written = health.written
      /\ health'.errors = health.errors + 1
  BY <1>2 DEF Health
<1>4. writer.wrote \in Nat BY DEF IInv, Typed, Thread
<1>5. health.written + health.dropped + health.errors + writer.wrote <=
          health'.written + health'.dropped + health'.errors + writer.wrote
  BY <1>2, <1>3, <1>4 DEF Health
<1> QED BY <1>1, <1>3, <1>5

\* The marker is lost, or stays in the buffer.
LEMMA MarkerFailsKeeps ==
    ASSUME IInv, NEW kept \in BOOLEAN, MarkerFails(kept)
    PROVE  IInv'
<1> DEFINE g == [file[MarkerFile] EXCEPT !.buf = Append(@, writer.close)]
<1>1. /\ writer.pc = "marker" /\ faults' = faults + 1 /\ MarkerLost
      /\ opened' \subseteq opened \cup {MarkerFile} /\ opened \subseteq opened'
      /\ file' = file \/ file' = [file EXCEPT ![MarkerFile] = g]
      /\ writer' = CloseDone
      /\ UNCHANGED <<now, begun, closedOne, account, prod, unreported, closed, pending,
                     emitted, chan, reserved, tally, poisoned, ranges>>
  BY DEF MarkerFails, producer, clock, Fault
<1>2. writer.close \in Marker /\ writer.close \in Balanced /\ writer.close \in FileLine
  BY <1>1 DEF IInv, Typed, MarkersBalance, FileLine
<1>3. Sound(file[MarkerFile]) /\ Even(file[MarkerFile]) /\ MarkerFile \in Files
  BY FilesAreSound
<1>4. Sound(g) /\ Even(g) BY <1>2, <1>3, PutSound
<1> HIDE DEF g
<1>5. /\ file' \in [Files -> File] /\ \A f \in Files : Sound(file'[f])
      /\ Even(file'[MarkerFile])
  <2>1. file \in [Files -> File] BY DEF IInv, Typed
  <2>2. g \in File BY <1>4 DEF Sound
  <2>3. \A f \in Files : Sound(file[f]) BY FilesAreSound
  <2> QED BY <1>1, <1>3, <1>4, <2>1, <2>2, <2>3
<1>6. /\ writer' \in Thread /\ writer'.pc = "msgs" /\ writer'.batch = writer.batch
      /\ writer'.wrote = writer.wrote
  BY <1>1, CloseDoneType
<1>7. /\ unmarked' \subseteq Sessions
      /\ health' \in Health /\ health'.attempted = health.attempted
      /\ health'.dropped = health.dropped
      /\ health.written + health.dropped + health.errors + writer.wrote <=
             health'.written + health'.dropped + health'.errors + writer.wrote
  BY <1>1, <1>2, MarkerLostType
<1>8. Q' = Q BY <1>1 DEF Q
<1>9. Typed'
  <2>1. opened' \subseteq Files /\ poisoned' \subseteq opened' /\ faults' \in Nat
    BY <1>1, <1>3 DEF IInv, Typed
  <2> QED BY <1>1, <1>5, <1>6, <1>7, <1>8, <2>1 DEF IInv, Typed
<1>10. Bounded' BY <1>1, <1>5, <1>6, <1>7 DEF IInv, Bounded, Sound
<1>11. MarkersBalance' BY <1>5, <1>6 DEF MarkersBalance, Even
<1> QED BY <1>1, <1>6, <1>7, <1>9, <1>10, <1>11, AsideKeeps

\* The marker is synced.
LEMMA SyncMarkerKeeps ==
    ASSUME IInv, SyncMarker
    PROVE  IInv'
<1> DEFINE g == [file[MarkerFile] EXCEPT !.synced = Len(file[MarkerFile].disk)]
<1>1. /\ file' = [file EXCEPT ![MarkerFile] = g] /\ writer' = CloseDone
      /\ UNCHANGED <<now, begun, closedOne, account, prod, unreported, closed, pending,
                     emitted, chan, reserved, health, tally, opened, poisoned, ranges,
                     unmarked, faults>>
  BY DEF SyncMarker, producer, clock
<1>2. Sound(file[MarkerFile]) /\ Even(file[MarkerFile]) /\ MarkerFile \in Files
  BY FilesAreSound
<1>3. Sound(g) /\ Even(g) BY <1>2, SyncSound
<1> HIDE DEF g
<1>4. /\ file' \in [Files -> File] /\ \A f \in Files : Sound(file'[f])
      /\ Even(file'[MarkerFile])
  <2>1. file \in [Files -> File] BY DEF IInv, Typed
  <2>2. g \in File BY <1>3 DEF Sound
  <2>3. \A f \in Files : Sound(file[f]) BY FilesAreSound
  <2> QED BY <1>1, <1>2, <1>3, <2>1, <2>2, <2>3
<1>5. /\ writer' \in Thread /\ writer'.pc = "msgs" /\ writer'.batch = writer.batch
      /\ writer'.wrote = writer.wrote
  BY <1>1, CloseDoneType
<1>6. Q' = Q BY <1>1 DEF Q
<1>7. Typed' BY <1>1, <1>4, <1>5, <1>6 DEF IInv, Typed
<1>8. Bounded' BY <1>1, <1>4, <1>5 DEF IInv, Bounded, Sound
<1>9. MarkersBalance' BY <1>4, <1>5 DEF MarkersBalance, Even
<1>10. health.written + health.dropped + health.errors + writer.wrote <=
           health'.written + health'.dropped + health'.errors + writer'.wrote
  BY <1>1, <1>5 DEF IInv, Typed, Health, Thread
<1> QED BY <1>1, <1>5, <1>7, <1>8, <1>9, <1>10, AsideKeeps

\* The marker is not synced.
LEMMA SyncMarkerFailsKeeps ==
    ASSUME IInv, SyncMarkerFails
    PROVE  IInv'
<1>1. /\ writer.pc = "sync" /\ faults' = faults + 1 /\ MarkerLost /\ writer' = CloseDone
      /\ UNCHANGED <<now, begun, closedOne, account, prod, unreported, closed, pending,
                     emitted, chan, reserved, tally, opened, poisoned, ranges, file>>
  BY DEF SyncMarkerFails, producer, clock, Fault
<1>2. writer.close \in Marker BY <1>1 DEF IInv, Typed
<1>3. /\ writer' \in Thread /\ writer'.pc = "msgs" /\ writer'.batch = writer.batch
      /\ writer'.wrote = writer.wrote
  BY <1>1, CloseDoneType
<1>4. /\ unmarked' \subseteq Sessions
      /\ health' \in Health /\ health'.attempted = health.attempted
      /\ health'.dropped = health.dropped
      /\ health.written + health.dropped + health.errors + writer.wrote <=
             health'.written + health'.dropped + health'.errors + writer.wrote
  BY <1>1, <1>2, MarkerLostType
<1>5. Q' = Q BY <1>1 DEF Q
<1>6. Typed'
  <2>1. faults' \in Nat BY <1>1 DEF IInv, Typed
  <2> QED BY <1>1, <1>3, <1>4, <1>5, <2>1 DEF IInv, Typed
<1>7. Bounded' BY <1>1, <1>3, <1>4 DEF IInv, Bounded
<1>8. MarkersBalance' BY <1>1, <1>3 DEF IInv, MarkersBalance
<1> QED BY <1>1, <1>3, <1>4, <1>6, <1>7, <1>8, AsideKeeps

\* The end of a batch: what was written counts for the health, a failed flush as an error.
LEMMA FlushBatchKeeps ==
    ASSUME IInv, NEW bad \in BadFlushes, NEW n \in 0..MaxRows, FlushBatch(bad, n)
    PROVE  IInv'
<1> DEFINE after(f) == IF f \in bad THEN Flush(file[f], n)
                       ELSE IF f \in writer.touched THEN FlushAll(file[f])
                       ELSE file[f]
           k == Cardinality(bad)
           charge(s) == Cardinality({f \in bad \cap DataFiles : ranges[s][f].rows > 0})
<1>1. /\ writer.pc = "msgs" /\ writer.batch = <<>>
      /\ faults' = faults \/ faults' = faults + 1
      /\ \A f \in bad : n < Len(file[f].buf)
      /\ file' = [f \in Files |-> after(f)]
      /\ poisoned' = poisoned \cup bad
      /\ tally' = [s \in Sessions |-> [tally[s] EXCEPT !.flushErrors = @ + charge(s)]]
      /\ health' = [health EXCEPT !.written = @ + writer.wrote, !.errors = @ + k]
      /\ writer' = [pc |-> "recv", batch |-> <<>>, touched |-> {}, wrote |-> 0,
                    close |-> None]
      /\ UNCHANGED <<now, begun, closedOne, account, prod, unreported, closed, pending,
                     emitted, chan, reserved, opened, ranges, unmarked>>
  BY DEF FlushBatch, ChargeFlush, Resting, producer, clock, Fault
<1>2. bad \subseteq opened /\ IsFiniteSet(bad)
  <2>1. bad = {} \/ \E x \in opened : bad = {x} BY DEF BadFlushes, AtMostOne
  <2> QED BY <2>1, FS_EmptySet, FS_Singleton
<1>3. k \in Nat /\ \A s : charge(s) \in Nat
  <2>1. \A s : {f \in bad \cap DataFiles : ranges[s][f].rows > 0} \in SUBSET bad OBVIOUS
  <2>2. \A s : IsFiniteSet({f \in bad \cap DataFiles : ranges[s][f].rows > 0})
    BY <1>2, <2>1, FS_Subset
  <2> QED BY <1>2, <2>2, FS_CardinalityType
<1>4. \A f \in Files : Sound(after(f)) /\ (f = MarkerFile => Even(after(f)))
  <2> TAKE f \in Files
  <2>1. Sound(file[f]) /\ (f = MarkerFile => Even(file[f])) BY FilesAreSound
  <2>2. CASE f \in bad
    <3>1. file[f].buf \in Seq(FileLine) BY <2>1 DEF Sound, File
    <3>2. Len(file[f].buf) \in Nat BY <3>1, LenProperties
    <3>3. n \in 0..Len(file[f].buf) BY <1>1, <2>2, <3>2, BoundsAssumption
    <3>4. Sound(Flush(file[f], n)) /\ (Even(file[f]) => Even(Flush(file[f], n)))
      BY <2>1, <3>3, FlushSound
    <3> QED BY <2>1, <2>2, <3>4
  <2>3. CASE f \notin bad
    <3>1. Sound(FlushAll(file[f])) /\ (Even(file[f]) => Even(FlushAll(file[f])))
      BY <2>1, FlushAllSound
    <3> QED BY <2>1, <2>3, <3>1
  <2> QED BY <2>2, <2>3
<1> HIDE DEF after, charge, k
<1>5. /\ file' \in [Files -> File] /\ \A f \in Files : Sound(file'[f])
      /\ Even(file'[MarkerFile])
  <2>1. \A f \in Files : after(f) \in File BY <1>4 DEF Sound
  <2>2. MarkerFile \in Files BY DEF Files
  <2> QED BY <1>1, <1>4, <2>1, <2>2
<1>6. /\ writer' \in Thread /\ writer'.pc = "recv" /\ writer'.batch = <<>>
      /\ writer'.wrote = 0
  <2>1. <<>> \in Seq(Msg) OBVIOUS
  <2> QED BY <1>1, <2>1 DEF Thread
<1>7. /\ tally' \in [Sessions -> Tally]
      /\ \A s \in Sessions : /\ tally'[s].attempted = tally[s].attempted
                             /\ tally'[s].written = tally[s].written
                             /\ tally'[s].dropped = tally[s].dropped
                             /\ tally'[s].errors = tally[s].errors
                             /\ tally'[s].late = tally[s].late
  <2>1. \A s \in Sessions : tally[s] \in Tally /\ charge(s) \in Nat
    BY <1>3 DEF IInv, Typed
  <2>2. \A s \in Sessions : tally'[s] = [tally[s] EXCEPT !.flushErrors = @ + charge(s)]
    BY <1>1
  <2>3. \A s \in Sessions : /\ tally'[s] \in Tally
                            /\ tally'[s].attempted = tally[s].attempted
                            /\ tally'[s].written = tally[s].written
                            /\ tally'[s].dropped = tally[s].dropped
                            /\ tally'[s].errors = tally[s].errors
                            /\ tally'[s].late = tally[s].late
    <3> TAKE s \in Sessions
    <3> DEFINE t == tally[s]
               x == t.flushErrors + charge(s)
    <3>1. t \in Tally /\ charge(s) \in Nat BY <2>1
    <3>2. x \in Nat BY <3>1 DEF Tally
    <3>3. tally'[s] = [t EXCEPT !.flushErrors = x] BY <2>2
    <3> HIDE DEF t, x
    <3>4. /\ tally'[s] \in Tally
          /\ tally'[s].attempted = t.attempted /\ tally'[s].written = t.written
          /\ tally'[s].dropped = t.dropped /\ tally'[s].errors = t.errors
          /\ tally'[s].late = t.late
      BY <3>1, <3>2, <3>3 DEF Tally
    <3> QED BY <3>4 DEF t
  <2> QED BY <1>1, <2>3
<1>8. /\ health' \in Health /\ health'.attempted = health.attempted
      /\ health'.dropped = health.dropped
      /\ health.written + health.dropped + health.errors + writer.wrote <=
             health'.written + health'.dropped + health'.errors + writer'.wrote
  <2>1. health \in Health /\ writer.wrote \in Nat BY DEF IInv, Typed, Thread
  <2> DEFINE x == health.written + writer.wrote
             y == health.errors + k
  <2>2. health' = [health EXCEPT !.written = x, !.errors = y] BY <1>1
  <2>3. x \in Nat /\ y \in Nat BY <1>3, <2>1 DEF Health
  <2> HIDE DEF x, y
  <2>4. /\ health' \in Health /\ health'.attempted = health.attempted
        /\ health'.dropped = health.dropped /\ health'.written = x /\ health'.errors = y
    BY <2>1, <2>2, <2>3 DEF Health
  <2>5. health.written + health.dropped + health.errors + writer.wrote <=
            x + health.dropped + y + 0
    BY <1>3, <2>1 DEF Health, x, y
  <2> QED BY <1>6, <2>4, <2>5
<1>9. Q' = Q BY <1>1 DEF Q
<1>10. Typed'
  <2>1. poisoned' \subseteq opened' /\ faults' \in Nat BY <1>1, <1>2 DEF IInv, Typed
  <2> QED BY <1>1, <1>5, <1>6, <1>7, <1>8, <1>9, <2>1 DEF IInv, Typed
<1>11. Bounded'
  <2>1. Len(writer'.batch) <= Batch BY <1>1, <1>6 DEF IInv, Bounded
  <2> QED BY <1>1, <1>5, <1>8, <2>1 DEF IInv, Bounded, Sound
<1>12. MarkersBalance' BY <1>5, <1>6 DEF MarkersBalance, Even
<1> QED BY <1>1, <1>6, <1>7, <1>8, <1>10, <1>11, <1>12, AsideKeeps

-----------------------------------------------------------------------------
(* The environment's steps.                                                *)

\* The wall clock moves.
LEMMA ClockKeeps ==
    ASSUME IInv, NextSession \/ StepBack
    PROVE  IInv'
<1>1. /\ now' \in Sessions
      /\ faults' \in Nat
      /\ UNCHANGED <<begun, closedOne, account, prod, chan, reserved, unreported, closed,
                     pending, health, tally, writer, opened, poisoned, ranges, file,
                     emitted, unmarked>>
  <2>1. now \in Nat /\ now >= 1 /\ now <= MaxSession /\ faults \in Nat
    BY BoundsAssumption DEF IInv, Typed, Sessions
  <2> QED BY <2>1, BoundsAssumption
          DEF NextSession, StepBack, Fault, Sessions, queue, thread
<1>2. Q' = Q BY <1>1 DEF Q
<1>3. Typed' BY <1>1, <1>2 DEF IInv, Typed
<1>4. Bounded' BY <1>1 DEF IInv, Bounded
<1>5. MarkersBalance' BY <1>1 DEF IInv, MarkersBalance
<1>6. health.written + health.dropped + health.errors + writer.wrote <=
          health'.written + health'.dropped + health'.errors + writer'.wrote
  BY <1>1 DEF IInv, Typed, Health, Thread
<1> QED BY <1>1, <1>3, <1>4, <1>5, <1>6, AsideKeeps

\* A process that has just started, on the files of the ones before it.
Started ==
    /\ now \in Sessions /\ begun = None /\ closedOne = FALSE /\ account = None
    /\ prod = Ready /\ chan = <<>> /\ reserved = 0 /\ unreported = 0
    /\ health = ZeroHealth
    /\ tally = [s \in Sessions |-> ZeroTally]
    /\ closed = {} /\ pending = <<>>
    /\ writer = Resting /\ opened = {} /\ poisoned = {}
    /\ ranges = [s \in Sessions |-> [f \in DataFiles |-> NoRange]]
    /\ file \in [Files -> File]
    /\ \A f \in Files : Sound(file[f])
    /\ Even(file[MarkerFile])
    /\ emitted \subseteq DataLine /\ IsFiniteSet(emitted)
    /\ unmarked \subseteq Sessions /\ faults \in Nat

\* A process that has just started satisfies the invariant.
LEMMA StartedHolds == Started => IInv
<1> SUFFICES ASSUME Started PROVE IInv OBVIOUS
<1>1. <<>> \in Seq(Msg) /\ <<>> \in Seq(CloseMsg) /\ <<>> \in Seq(DataLine) /\ Len(<<>>) = 0
  OBVIOUS
<1>2. NoRange \in Extent /\ ZeroTally \in Tally BY <1>1 DEF NoRange, Extent, ZeroTally, Tally
<1>3. Q \in QueueState
  <2>1. Q = [chan |-> <<>>, reserved |-> 0, unreported |-> 0, closed |-> {}, pending |-> <<>>]
    BY DEF Q, Started
  <2> QED BY <1>1, <2>1 DEF QueueState
<1>4. /\ writer \in Thread /\ writer.batch = <<>> /\ writer.pc = "recv" /\ writer.wrote = 0
  BY <1>1 DEF Started, Resting, Thread
<1>5. /\ health \in Health /\ health.attempted = 0 /\ health.dropped = 0
      /\ health.written = 0 /\ health.errors = 0
  BY DEF Started, ZeroHealth, Health
<1>6. prod.pc = "idle"
      /\ prod \in [pc : {"idle", "reserve", "send", "sent", "exit"}, row : DataMsg \cup {None}]
  BY DEF Started, Ready
<1>7. W = <<>>
  <2>1. <<>> \o <<>> = <<>> BY <1>1, ConcatEmptySeq
  <2> QED BY <1>4, <2>1 DEF W, Way, Q, Started
<1>8. \A M : Count(W, M) = 0 /\ InHand(M) = 0
  <2>1. \A M : \A i \in DOMAIN <<>> : <<>>[i] \notin M OBVIOUS
  <2>2. \A M : Count(<<>>, M) = 0 BY <1>1, <2>1, CountType
  <2> QED BY <1>6, <1>7, <2>2 DEF InHand
<1>9. \A s : ~Awaits(W, s) /\ ~Follows(W, s) BY <1>7 DEF Awaits, Follows
<1>10. Typed
  <2>1. tally \in [Sessions -> Tally] BY <1>2 DEF Started
  <2>2. ranges \in [Sessions -> [DataFiles -> Extent]] BY <1>2 DEF Started
  <2> QED BY <1>3, <1>4, <1>5, <1>6, <2>1, <2>2 DEF Typed, Started
<1>11. Bounded
  <2>1. QueueRecords >= 0 /\ Batch >= 0 /\ QueueBytes >= 0 BY BoundsAssumption
  <2> QED BY <1>1, <1>4, <1>5, <2>1 DEF Bounded, Started, Sound
<1>12. Reserved BY <1>6, <1>8 DEF Reserved, Started
<1>13. ClosedOnce
  <2>1. OneEach(W) BY <1>7 DEF OneEach
  <2> QED BY <1>9, <2>1 DEF ClosedOnce, Started
<1>14. LateIsCounted BY <1>9 DEF LateIsCounted
<1>15. TallyAccounts
  <2>1. \A s \in Sessions : tally[s] = ZeroTally BY DEF Started
  <2> QED BY <1>8, <2>1 DEF TallyAccounts, ZeroTally
<1>16. MarkersBalance BY <1>4 DEF MarkersBalance, Started, Even
<1>17. HealthAccounts BY <1>4, <1>5, <1>8 DEF HealthAccounts
<1> QED BY <1>10, <1>11, <1>12, <1>13, <1>14, <1>15, <1>16, <1>17 DEF IInv

\* So it does after a restart.
LEMMA StartedHoldsNext == Started' => IInv'
  BY StartedHolds, PTL

\* A file whose buffer is lost.
LEMMA EmptyBuffer ==
    ASSUME NEW d \in Seq(FileLine), NEW k \in Nat, k <= Len(d)
    PROVE  LET g == [buf |-> <<>>, disk |-> d, synced |-> k]
           IN  Sound(g) /\ (d \in Seq(Balanced) => Even(g))
<1> DEFINE e == <<>>
           g == [buf |-> e, disk |-> d, synced |-> k]
<1>1. e \in Seq(FileLine) /\ e \in Seq(Balanced) OBVIOUS
<1> HIDE DEF e
<1>2. g \in File /\ g.buf = e /\ g.disk = d /\ g.synced = k BY <1>1 DEF File
<1> HIDE DEF g
<1>3. Sound(g) BY <1>2 DEF Sound
<1>4. d \in Seq(Balanced) => Even(g) BY <1>1, <1>2 DEF Even
<1> QED BY <1>3, <1>4 DEF g, e

\* The process dies and another starts on its files.
LEMMA RestartStarts ==
    ASSUME IInv, Restart
    PROVE  /\ Started' /\ UNCHANGED <<now, emitted>>
           /\ \A f \in Files : file'[f] = [buf |-> <<>>, disk |-> file[f].disk,
                                            synced |-> file[f].synced]
<1>1. /\ Fresh /\ UNCHANGED <<now, emitted, unmarked>>
      /\ file' = [f \in Files |-> [file[f] EXCEPT !.buf = <<>>]]
      /\ faults' = faults \/ faults' = faults + 1
  BY DEF Restart, Fault
<1>2. \A f \in Files : file[f] = [buf |-> file[f].buf, disk |-> file[f].disk,
                                  synced |-> file[f].synced]
                       /\ file[f].disk \in Seq(FileLine) /\ file[f].synced \in Nat
                       /\ file[f].synced <= Len(file[f].disk)
  BY DEF IInv, Typed, File, Bounded
<1>3. \A f \in Files : file'[f] = [buf |-> <<>>, disk |-> file[f].disk,
                                   synced |-> file[f].synced]
  <2> TAKE f \in Files
  <2> DEFINE r == file[f]
             e == <<>>
  <2>1. r \in File BY DEF IInv, Typed
  <2>2. file'[f] = [r EXCEPT !.buf = e] BY <1>1
  <2> HIDE DEF r, e
  <2>3. [r EXCEPT !.buf = e] = [buf |-> e, disk |-> r.disk, synced |-> r.synced]
    BY <2>1 DEF File
  <2> QED BY <2>2, <2>3 DEF r, e
<1>4. \A f \in Files : Sound(file'[f]) /\ (file[f].disk \in Seq(Balanced) => Even(file'[f]))
  BY <1>2, <1>3, EmptyBuffer
<1>5. MarkerFile \in Files /\ file[MarkerFile].disk \in Seq(Balanced)
  BY DEF IInv, MarkersBalance, Files
<1>6. file' \in [Files -> File] BY <1>1, <1>4 DEF Sound
<1>7. Started'
  BY <1>1, <1>4, <1>5, <1>6 DEF Started, Fresh, IInv, Typed
<1> QED BY <1>1, <1>3, <1>7

\* It keeps the invariant.
LEMMA RestartKeeps ==
    ASSUME IInv, Restart
    PROVE  IInv'
  BY RestartStarts, StartedHoldsNext

\* A power loss leaves a prefix of a file, with all that was synced.
LEMMA PowerLossStarts ==
    ASSUME IInv, NEW f \in Files, NEW n, PowerLoss(f, n)
    PROVE  /\ Started' /\ UNCHANGED <<now, emitted>> /\ n \in 0..Len(file[f].disk)
           /\ \A g \in Files : file'[g] =
                  [buf |-> <<>>,
                   disk |-> IF g = f THEN SubSeq(file[g].disk, 1, n) ELSE file[g].disk,
                   synced |-> file[g].synced]
<1> DEFINE d(g) == IF g = f THEN SubSeq(file[g].disk, 1, n) ELSE file[g].disk
<1>1. /\ Fresh /\ UNCHANGED <<now, emitted, unmarked>>
      /\ n \in file[f].synced..(Len(file[f].disk) - 1)
      /\ file' = [g \in Files |-> [buf |-> <<>>, disk |-> d(g), synced |-> file[g].synced]]
      /\ faults' = faults + 1
  BY DEF PowerLoss, Fault
<1>2. \A g \in Files : file[g].disk \in Seq(FileLine) /\ file[g].synced \in Nat
                       /\ file[g].synced <= Len(file[g].disk) /\ Len(file[g].disk) \in Nat
  <2>1. \A g \in Files : file[g].disk \in Seq(FileLine) BY DEF IInv, Typed, File
  <2> QED BY <2>1, LenProperties DEF IInv, Typed, File, Bounded
<1>3. n \in 0..Len(file[f].disk) /\ file[f].synced <= n BY <1>1, <1>2
<1>4. \A g \in Files : d(g) \in Seq(FileLine) /\ file[g].synced <= Len(d(g))
  <2>1. SubSeq(file[f].disk, 1, n) \in Seq(FileLine) /\ Len(SubSeq(file[f].disk, 1, n)) = n
    BY <1>2, <1>3, Halves
  <2> QED BY <1>2, <1>3, <2>1
<1>5. MarkerFile \in Files /\ d(MarkerFile) \in Seq(Balanced)
  <2>1. MarkerFile \in Files /\ file[MarkerFile].disk \in Seq(Balanced)
    BY DEF IInv, MarkersBalance, Files
  <2>2. CASE f = MarkerFile
    <3>1. SubSeq(file[f].disk, 1, n) \in Seq(Balanced) BY <1>3, <2>1, <2>2, Halves
    <3> QED BY <2>1, <2>2, <3>1
  <2>3. CASE f # MarkerFile BY <2>1, <2>3
  <2> QED BY <2>2, <2>3
<1> HIDE DEF d
<1>6. \A g \in Files : Sound(file'[g]) /\ (d(g) \in Seq(Balanced) => Even(file'[g]))
  BY <1>1, <1>2, <1>4, EmptyBuffer
<1>7. file' \in [Files -> File] BY <1>1, <1>6 DEF Sound
<1>8. Started'
  BY <1>1, <1>5, <1>6, <1>7 DEF Started, Fresh, IInv, Typed
<1>9. \A g \in Files : file'[g] = [buf |-> <<>>, disk |-> d(g), synced |-> file[g].synced]
  BY <1>1
<1> QED BY <1>1, <1>3, <1>8, <1>9 DEF d

\* It keeps the invariant.
LEMMA PowerLossKeeps ==
    ASSUME IInv, NEW f \in Files, NEW n, PowerLoss(f, n)
    PROVE  IInv'
  BY PowerLossStarts, StartedHoldsNext

-----------------------------------------------------------------------------
(* The invariant.                                                          *)

\* The initial states are those of a process that has just started.
LEMMA InitStarts == Init => Started
<1> SUFFICES ASSUME Init PROVE Started OBVIOUS
<1>1. \A f \in Files : file[f] = [buf |-> <<>>, disk |-> <<>>, synced |-> 0] BY DEF Init
<1>2. <<>> \in Seq(FileLine) /\ <<>> \in Seq(Balanced) /\ 0 \in Nat /\ 0 <= Len(<<>>)
  OBVIOUS
<1>3. \A f \in Files : Sound(file[f]) /\ Even(file[f])
  <2> DEFINE e == <<>>
  <2>1. e \in Seq(FileLine) /\ e \in Seq(Balanced) /\ 0 <= Len(e) BY <1>2
  <2>2. Sound([buf |-> <<>>, disk |-> e, synced |-> 0])
        /\ (e \in Seq(Balanced) => Even([buf |-> <<>>, disk |-> e, synced |-> 0]))
    <3> HIDE DEF e
    <3> QED BY <2>1, EmptyBuffer
  <2> QED BY <1>1, <2>1, <2>2
<1>4. file \in [Files -> File] /\ MarkerFile \in Files BY <1>3 DEF Init, Sound, Files
<1>5. IsFiniteSet(emitted) BY FS_EmptySet DEF Init
<1>6. 1 \in Sessions BY BoundsAssumption DEF Sessions
<1> QED BY <1>3, <1>4, <1>5, <1>6 DEF Init, Started

\* So the invariant holds in them.
LEMMA StartInvariant == Init => IInv
  BY InitStarts, StartedHolds

\* A step of another capture.
LEMMA StutterKeeps ==
    ASSUME IInv, UNCHANGED vars
    PROVE  IInv'
<1>1. UNCHANGED <<now, begun, closedOne, account, prod, chan, reserved, health, unreported,
                  tally, closed, pending, writer, opened, poisoned, ranges, file, emitted,
                  unmarked, faults>>
  BY DEF vars
<1>2. Q' = Q BY <1>1 DEF Q
<1>3. Typed' BY <1>1, <1>2 DEF IInv, Typed
<1>4. Bounded' BY <1>1 DEF IInv, Bounded
<1>5. MarkersBalance' BY <1>1 DEF IInv, MarkersBalance
<1>6. health.written + health.dropped + health.errors + writer.wrote <=
          health'.written + health'.dropped + health'.errors + writer'.wrote
  BY <1>1 DEF IInv, Typed, Health, Thread
<1> QED BY <1>1, <1>3, <1>4, <1>5, <1>6, AsideKeeps

\* Every step keeps the invariant.
LEMMA StepInvariant == IInv /\ [Next]_vars => IInv'
<1> SUFFICES ASSUME IInv, [Next]_vars PROVE IInv' OBVIOUS
<1>1. CASE Producer
  BY <1>1, TickKeeps, RecordKeeps, ReserveKeeps, SendKeeps, SentKeeps, FinishKeeps,
     SendDeferredKeeps DEF Producer
<1>2. CASE Receive BY <1>2, ReceiveKeeps
<1>3. CASE HandleLine
  BY <1>3, WriteLineKeeps, LineFailsKeeps DEF HandleLine
<1>4. CASE HandleClose
  BY <1>4, SessionBarrierKeeps, WriteMarkerKeeps, MarkerFailsKeeps, SyncMarkerKeeps,
     SyncMarkerFailsKeeps DEF HandleClose
<1>5. CASE EndBatch BY <1>5, FlushBatchKeeps DEF EndBatch
<1>6. CASE World BY <1>6, ClockKeeps, RestartKeeps, PowerLossKeeps DEF World
<1>7. CASE UNCHANGED vars BY <1>7, StutterKeeps
<1> QED BY <1>1, <1>2, <1>3, <1>4, <1>5, <1>6, <1>7 DEF Next, Writer

-----------------------------------------------------------------------------
(* What it implies.                                                        *)
LEMMA TypesFollow == IInv => TypeOK
<1> SUFFICES ASSUME IInv PROVE TypeOK OBVIOUS
<1>1. /\ prod.pc \in {"idle", "reserve", "send", "sent", "exit"}
      /\ writer.pc \in {"recv", "msgs", "marker", "sync"}
  BY DEF IInv, Typed, Thread
<1>2. \A f \in Files : file[f].synced \in 0..Len(file[f].disk)
  <2>1. \A f \in Files : file[f].disk \in Seq(FileLine) /\ file[f].synced \in Nat
    BY DEF IInv, Typed, File
  <2>2. \A f \in Files : Len(file[f].disk) \in Nat BY <2>1, LenProperties
  <2> QED BY <2>1, <2>2 DEF IInv, Bounded
<1>3. unreported \in 0..health.dropped /\ closed \subseteq Sessions
  <2>1. unreported \in Nat /\ closed \subseteq Sessions BY QueueFields DEF IInv, Typed, Q
  <2>2. health.dropped \in Nat BY DEF IInv, Typed, Health
  <2> QED BY <2>1, <2>2 DEF IInv, Bounded
<1> QED BY <1>1, <1>2, <1>3 DEF IInv, Typed, Bounded, TypeOK

\* The lines of a sequence of messages, counted.
LEMMA LinesAreCounted ==
    ASSUME NEW w \in Seq(Msg)
    PROVE  Lines(w) = Count(w, LineMsg)
<1>1. \A i \in DOMAIN w : w[i] \in Msg BY LenProperties, ElementOfSeq
<1>2. \A i \in DOMAIN w : w[i].msg = "line" <=> w[i] \in LineMsg
  BY <1>1 DEF Msg, LineMsg, DataMsg, MarkMsg, CloseMsg
<1>3. {i \in DOMAIN w : w[i].msg = "line"} = {i \in DOMAIN w : w[i] \in LineMsg} BY <1>2
<1> QED BY <1>3 DEF Lines, Count

\* The barriers that wait have no reservation, so the reservations are those of the channel and the batch.
LEMMA QueueFollows == IInv => QueueAccounted
<1> SUFFICES ASSUME IInv PROVE QueueAccounted OBVIOUS
<1> DEFINE b == writer.batch
<1>1. chan \in Seq(Msg) /\ pending \in Seq(Msg) /\ pending \in Seq(CloseMsg)
  BY QueueFields DEF IInv, Typed, Q
<1>2. b \in Seq(Msg) BY DEF IInv, Typed, Thread
<1>3. Lines(chan) = Count(chan, LineMsg) /\ Lines(b) = Count(b, LineMsg)
  <2> HIDE DEF b
  <2> QED BY <1>1, <1>2, LinesAreCounted
<1>4. W = (b \o chan) \o pending BY DEF W, Way, Q
<1>5. Count(W, LineMsg) = Count(b, LineMsg) + Count(chan, LineMsg)
  <2> DEFINE x == b \o chan
  <2> HIDE DEF b
  <2>1. x \in Seq(Msg) BY <1>1, <1>2, ConcatProperties
  <2>2. Count(x, LineMsg) = Count(b, LineMsg) + Count(chan, LineMsg)
    BY <1>1, <1>2, CountConcat
  <2> HIDE DEF x
  <2>3. Count(x \o pending, LineMsg) = Count(x, LineMsg) + Count(pending, LineMsg)
    BY <1>1, <2>1, CountConcat
  <2>4. CloseMsg \cap LineMsg = {} BY DEF CloseMsg, LineMsg, DataMsg, MarkMsg
  <2>5. Count(pending, LineMsg) = 0 BY <1>1, <2>4, CountNone
  <2>6. Count(x, LineMsg) \in Nat BY <2>1, CountType
  <2> QED BY <1>4, <2>2, <2>3, <2>5, <2>6 DEF x
<1>6. Count(b, LineMsg) \in Nat /\ Count(chan, LineMsg) \in Nat BY <1>1, <1>2, CountType
<1>7. reserved = Count(W, LineMsg) + (IF prod.pc = "send" THEN 1 ELSE 0)
  BY DEF IInv, Reserved
<1>8. reserved <= QueueBytes BY DEF IInv, Bounded
<1> HIDE DEF b
<1>9. reserved = Lines(chan) + Lines(b) + (IF prod.pc = "send" THEN 1 ELSE 0)
  BY <1>3, <1>5, <1>6, <1>7
<1> QED BY <1>8, <1>9 DEF QueueAccounted, b

\* Every marker on disk balances.
LEMMA BalanceFollows == IInv => TallyBalances
<1> SUFFICES ASSUME IInv, NEW i \in DOMAIN Markers, Markers[i].kind = "session"
             PROVE  Balances(Markers[i].tally) \/ Markers[i].tally.late > 0
  BY DEF TallyBalances
<1>1. Markers \in Seq(Balanced) BY DEF IInv, MarkersBalance, Markers
<1>2. Markers[i] \in Balanced BY <1>1, LenProperties, ElementOfSeq
<1> QED BY <1>2 DEF Balanced

\* When nothing is on its way, the health accounts for every record.
LEMMA HealthFollows == IInv => HealthHidesNothing
<1> SUFFICES ASSUME IInv, Quiet
             PROVE  health.attempted <= health.written + health.dropped + health.errors
  BY DEF HealthHidesNothing
<1>1. W = <<>>
  <2>1. <<>> \o <<>> = <<>> OBVIOUS
  <2> QED BY <2>1 DEF W, Way, Q, Quiet, Resting
<1>2. Count(W, DataMsg) = 0
  <2>1. <<>> \in Seq(Msg) /\ \A i \in DOMAIN <<>> : <<>>[i] \notin DataMsg OBVIOUS
  <2>2. Count(<<>>, DataMsg) = 0 BY <2>1, CountType
  <2> QED BY <1>1, <2>2
<1>3. InHand(DataMsg) = 0 /\ writer.wrote = 0 BY DEF Quiet, Resting, InHand
<1>4. health \in Health BY DEF IInv, Typed
<1> QED BY <1>2, <1>3, <1>4 DEF IInv, HealthAccounts, Health

-----------------------------------------------------------------------------
(* The theorems about the capture of a session.                            *)

\* A step of the composition is a step of that capture, or leaves it alone.
LEMMA StepSession ==
    IInv /\ [CapturesNext]_<<part, vars, observationVars, outcomeVars>> => IInv'
<1> SUFFICES ASSUME IInv, [CapturesNext]_<<part, vars, observationVars, outcomeVars>>
             PROVE  IInv'
  OBVIOUS
<1>1. Next \/ UNCHANGED vars BY DEF CapturesNext
<1> QED BY <1>1, StepInvariant

\* The inductive invariant holds in every reachable state.
LEMMA SessionInvariant == CapturesSpec => []IInv
<1>1. CapturesInit => IInv BY StartInvariant DEF CapturesInit
<1> QED BY <1>1, StepSession, PTL DEF CapturesSpec

\* Every state of the capture is well formed: the channel and the batch within
\* their bounds, no more synced than is in a file, and no loss pending that was
\* not counted.
THEOREM SessionIsTyped == CapturesSpec => []TypeOK
  BY SessionInvariant, TypesFollow, PTL

\* Whatever the order of the task's reserve, send and release and the thread's
\* receive, the reservations are the lines under way and never wrap; and the
\* tally in a session's marker balances unless it says a record came late, after
\* any deferral of the barrier, failed write, crash or power loss.
THEOREM CaptureAlwaysAddsUp == CapturesSpec => []CaptureAddsUp
<1>1. IInv => CaptureAddsUp BY QueueFollows, BalanceFollows DEF CaptureAddsUp
<1> QED BY <1>1, SessionInvariant, PTL

\* When nothing is under way, every record offered is in the health's written,
\* dropped or error count.
THEOREM HealthNeverHides == CapturesSpec => []HealthHidesNothing
  BY SessionInvariant, HealthFollows, PTL

-----------------------------------------------------------------------------
(* What a clean marker rests on.                                           *)
\* The lines of a file: on disk, then in its buffer.
Written(d) == d.disk \o d.buf
Holds(d, S) == d.buf \in Seq(S) /\ d.disk \in Seq(S)

\* The rows between the producer task and the files.
InFlight == {m \in DataMsg : OnWay(W, m)}
Hand == IF prod.pc \in {"reserve", "send"} THEN {prod.row} ELSE {}

\* The files have rows, each of them offered before; a row under way fits behind
\* those of its file, and the rows under way are in the order of their sessions.
LinesTyped ==
    \A f \in DataFiles : /\ Written(file[f]) \in Seq(DataLine)
                         /\ file[f].buf # <<>> => f \in opened
RowsInTime == \A r \in emitted : r.session <= now
LinesOffered ==
    \A f \in DataFiles : \A i \in 1..Len(Written(file[f])) : Written(file[f])[i] \in emitted
Follow(m, c) == \A i \in 1..Len(c) : c[i].session <= m.session
UnderWay ==
    \A m \in InFlight \cup Hand :
        m.line \in emitted /\ m.line.session = m.session /\ Follow(m, Written(file[m.file]))
WayInOrder == \A m, n \in DataMsg : Ahead(W, m, n) => m.session <= n.session
HandIsLast == \A m \in InFlight, n \in Hand : m.session <= n.session
Order ==
    LinesTyped /\ RowsInTime /\ LinesOffered /\ UnderWay /\ WayInOrder /\ HandIsLast

\* A session that did not start in the middle starts after the process.
InTime(start, s) == start # "mid_session" => begun # None /\ begun < s
Timely ==
    /\ account # None => InTime(account.start, account.session)
    /\ \A m \in CloseMsg : OnWay(W, m) =>
           InTime(m.start, m.session) /\ (m.by = "session_boundary" => m.session < now)

\* A range names the rows of its session, and hashes what is written from its start.
RangeFits(r, c, s) ==
    r.rows > 0 =>
        /\ r.end = r.start + r.rows /\ r.end <= Len(c)
        /\ Len(r.hash) = Len(c) - r.start
        /\ \A i \in 1..Len(r.hash) : r.hash[i] = c[r.start + i]
        /\ Len(r.atEnd) = r.rows
        /\ \A i \in 1..Len(r.atEnd) : r.atEnd[i] = c[r.start + i] /\ r.atEnd[i].session = s
        /\ \A i \in 1..Len(c) : i > r.end => c[i].session > s
RangeCovers(r, c, s) == \A i \in 1..Len(c) : c[i].session = s => r.rows > 0 /\ r.start < i
RowsIn(q) == [f \in DataFiles |-> q[f].rows]

\* The sessions that all of one process's rows are of.
Mine(s) ==
    /\ s \notin closed \/ Awaits(W, s)
    /\ begun = None => now < s
    /\ begun # None => begun < s

RangesFit ==
    \A s \in Sessions : \A f \in DataFiles : RangeFits(ranges[s][f], Written(file[f]), s)
RangesCover ==
    \A s \in Sessions : Mine(s) =>
        \A f \in DataFiles : RangeCovers(ranges[s][f], Written(file[f]), s)
WrittenCounted ==
    \A s \in Sessions : tally[s].written = Total(RowsIn(ranges[s]), DataFiles)

\* Where a row that was offered is.
IsWritten(r, f) == \E i \in 1..Len(Written(file[f])) : Written(file[f])[i] = r
Kept(r) == (\E m \in InFlight \cup Hand : m.line = r) \/ (\E f \in DataFiles : IsWritten(r, f))
Unlost(t) == t.dropped = 0 /\ t.errors = 0
Accounted ==
    \A s \in Sessions : Mine(s) /\ Unlost(tally[s]) =>
        \A r \in emitted : r.session = s => Kept(r)

\* What a clean marker promises, and no later step can take back.
RangeSettled(r, f, s) ==
    r.rows > 0 =>
        /\ r.end = r.start + r.rows /\ r.end <= file[f].synced
        /\ Len(r.hash) = r.rows
        /\ \A i \in 1..Len(r.hash) :
               r.hash[i] = file[f].disk[r.start + i] /\ r.hash[i].session = s
LinesInside(r, f, s) ==
    \A i \in 1..Len(Written(file[f])) : Written(file[f])[i].session = s =>
        r.rows > 0 /\ r.start < i /\ i <= r.end
OnSynced(r) ==
    \E f \in DataFiles : \E i \in 1..file[f].synced : file[f].disk[i] = r
Settled(m) ==
    /\ m.session < now
    /\ \A x \in InFlight \cup Hand : x.session # m.session
    /\ \A f \in DataFiles : /\ RangeSettled(m.ranges[f], f, m.session)
                            /\ LinesInside(m.ranges[f], f, m.session)
    /\ m.tally.written = Total(RowsIn(m.ranges), DataFiles)
    /\ \A r \in emitted : r.session = m.session => OnSynced(r)
Good == {x \in FileLine : x.kind = "session" /\ Clean(x) => Settled(x)}
AllSettled ==
    /\ writer.pc \in {"marker", "sync"} => writer.close \in Good
    /\ Holds(file[MarkerFile], Good)

SInv == /\ IInv /\ Order /\ Timely /\ RangesFit /\ RangesCover /\ WrittenCounted
        /\ Accounted /\ AllSettled

-----------------------------------------------------------------------------
(* What is written in a file.                                              *)

\* The places of a sequence are places of a longer one.
LEMMA InLonger == \A a, b \in Nat : \A i \in 1..a : i \in 1..(a + b) /\ i <= a
  OBVIOUS

\* The lines of a file, counted and placed.
LEMMA WrittenType ==
    ASSUME NEW d \in File
    PROVE  /\ Written(d) \in Seq(FileLine)
           /\ Len(d.disk) \in Nat /\ Len(d.buf) \in Nat
           /\ Len(Written(d)) = Len(d.disk) + Len(d.buf)
           /\ \A i \in 1..Len(d.disk) : Written(d)[i] = d.disk[i]
           /\ d.buf = <<>> => Written(d) = d.disk
<1>1. d.disk \in Seq(FileLine) /\ d.buf \in Seq(FileLine) BY DEF File
<1>2. Len(d.disk) \in Nat /\ Len(d.buf) \in Nat BY <1>1, LenProperties
<1>3. /\ Written(d) \in Seq(FileLine) /\ Len(Written(d)) = Len(d.disk) + Len(d.buf)
      /\ \A i \in 1..(Len(d.disk) + Len(d.buf)) :
             Written(d)[i] = IF i <= Len(d.disk) THEN d.disk[i] ELSE d.buf[i - Len(d.disk)]
  BY <1>1, ConcatProperties DEF Written
<1>4. \A i \in 1..Len(d.disk) : Written(d)[i] = d.disk[i]
  <2> TAKE i \in 1..Len(d.disk)
  <2>1. i \in 1..(Len(d.disk) + Len(d.buf)) /\ i <= Len(d.disk) BY <1>2, InLonger, Zenon
  <2> QED BY <1>3, <2>1
<1>5. d.buf = <<>> => Written(d) = d.disk BY <1>1, ConcatEmptySeq DEF Written
<1> QED BY <1>2, <1>3, <1>4, <1>5

\* What neither an emptied buffer nor a sync changes.
Steady(d, e) ==
    /\ Written(e) = Written(d)
    /\ d.synced <= e.synced
    /\ \A i \in 1..Len(d.disk) : e.disk[i] = d.disk[i]
    /\ e.buf # <<>> => d.buf # <<>>
    /\ \A S : Holds(d, S) => Holds(e, S)

\* A file that is left alone.
LEMMA SteadySelf ==
    ASSUME NEW d \in File
    PROVE  Steady(d, d)
<1>1. d.synced \in Nat BY DEF File
<1> QED BY <1>1 DEF Steady

\* Emptying a buffer, in part or whole.
LEMMA FlushSteady ==
    ASSUME NEW d \in File, NEW n \in 0..Len(d.buf)
    PROVE  Steady(d, Flush(d, n)) /\ Flush(d, n) \in File
<1> DEFINE a == SubSeq(d.buf, 1, n)
           b == SubSeq(d.buf, n + 1, Len(d.buf))
           c == d.disk \o a
           g == Flush(d, n)
<1>1. d.buf \in Seq(FileLine) /\ d.disk \in Seq(FileLine) /\ d.synced \in Nat BY DEF File
<1>2. a \in Seq(FileLine) /\ b \in Seq(FileLine) /\ Len(a) = n /\ a \o b = d.buf
      /\ Len(b) = Len(d.buf) - n
  BY <1>1, Halves
<1>3. /\ c \in Seq(FileLine) /\ Len(d.disk) \in Nat /\ Len(d.buf) \in Nat
      /\ \A i \in 1..Len(d.disk) : c[i] = d.disk[i]
  <2>1. Len(d.disk) \in Nat /\ Len(d.buf) \in Nat BY <1>1, LenProperties
  <2> DEFINE x == d.disk
  <2>2. x \in Seq(FileLine) BY <1>1
  <2> HIDE DEF a, x
  <2>3. /\ x \o a \in Seq(FileLine)
        /\ \A i \in 1..(Len(x) + Len(a)) :
               (x \o a)[i] = IF i <= Len(x) THEN x[i] ELSE a[i - Len(x)]
    BY <1>2, <2>2, ConcatProperties
  <2>4. Len(x) \in Nat /\ Len(a) \in Nat BY <1>2, <2>2, LenProperties
  <2>5. \A i \in 1..Len(x) : (x \o a)[i] = x[i]
    <3> TAKE i \in 1..Len(x)
    <3>1. i \in 1..(Len(x) + Len(a)) /\ i <= Len(x) BY <2>4
    <3> QED BY <2>3, <3>1
  <2> QED BY <2>1, <2>3, <2>5 DEF x
<1>4. g = [d EXCEPT !.disk = c, !.buf = b] BY DEF Flush
<1>5. \A S : Holds(d, S) => c \in Seq(S) /\ b \in Seq(S)
  <2> SUFFICES ASSUME NEW S, d.buf \in Seq(S), d.disk \in Seq(S)
               PROVE  c \in Seq(S) /\ b \in Seq(S)
    BY DEF Holds
  <2>1. a \in Seq(S) /\ b \in Seq(S) BY Halves
  <2> HIDE DEF a
  <2>2. c \in Seq(S) BY <2>1, ConcatProperties
  <2> QED BY <2>1, <2>2
<1> HIDE DEF a, b, c, g
<1>6. g \in File /\ g.synced = d.synced /\ g.disk = c /\ g.buf = b
  BY <1>1, <1>2, <1>3, <1>4 DEF File
<1>7. Written(g) = Written(d)
  <2>1. \A r, s, t \in Seq(FileLine) : (r \o s) \o t = r \o (s \o t) BY ConcatAssociative
  <2>2. (d.disk \o a) \o b = d.disk \o (a \o b) BY <1>1, <1>2, <2>1, Zenon
  <2>3. Written(g) = (d.disk \o a) \o b BY <1>6, Zenon DEF Written, c
  <2>4. Written(d) = d.disk \o (a \o b) BY <1>2, Zenon DEF Written
  <2> QED BY <2>2, <2>3, <2>4, Zenon
<1>8. \A i \in 1..Len(d.disk) : g.disk[i] = d.disk[i] BY <1>2, <1>3, <1>6
<1>9. g.buf # <<>> => d.buf # <<>>
  <2> SUFFICES ASSUME d.buf = <<>> PROVE g.buf = <<>> OBVIOUS
  <2>1. Len(d.buf) = 0 /\ n = 0 BY <1>3
  <2>2. Len(b) = 0 BY <1>2, <2>1
  <2> QED BY <1>2, <1>6, <2>2, EmptySeq
<1>10. \A S : Holds(d, S) => Holds(g, S) BY <1>5, <1>6 DEF Holds
<1>11. Steady(d, g) BY <1>1, <1>6, <1>7, <1>8, <1>9, <1>10 DEF Steady
<1> QED BY <1>6, <1>11 DEF g

\* Emptying it whole.
LEMMA FlushAllSteady ==
    ASSUME NEW d \in File
    PROVE  /\ Steady(d, FlushAll(d)) /\ FlushAll(d) \in File
           /\ FlushAll(d).disk = Written(d) /\ FlushAll(d).buf = <<>>
<1>1. d.buf \in Seq(FileLine) /\ Len(d.buf) \in 0..Len(d.buf)
  <2>1. d.buf \in Seq(FileLine) BY DEF File
  <2>2. Len(d.buf) \in Nat BY <2>1, LenProperties
  <2> QED BY <2>1, <2>2
<1> DEFINE n == Len(d.buf)
           g == Flush(d, n)
<1>2. Steady(d, g) /\ g \in File
  <2>1. n \in 0..Len(d.buf) BY <1>1
  <2> HIDE DEF n
  <2> QED BY <2>1, FlushSteady
<1>3. g.buf = SubSeq(d.buf, n + 1, n) BY DEF Flush, File
<1>4. g.buf = <<>>
  <2>1. Len(d.buf) \in Nat /\ n \in 0..Len(d.buf) BY <1>1
  <2>2. Len(SubSeq(d.buf, n + 1, Len(d.buf))) = Len(d.buf) - n
        /\ SubSeq(d.buf, n + 1, Len(d.buf)) \in Seq(FileLine)
    <3> HIDE DEF n
    <3> QED BY <1>1, <2>1, Halves
  <2>3. Len(g.buf) = 0 /\ g.buf \in Seq(FileLine) BY <1>3, <2>1, <2>2
  <2> HIDE DEF g
  <2> QED BY <2>3, EmptySeq
<1> HIDE DEF g, n
<1>5. Written(g) = g.disk BY <1>2, <1>4, WrittenType
<1>6. g.disk = Written(d) BY <1>2, <1>5 DEF Steady
<1> QED BY <1>2, <1>4, <1>6 DEF g, n, FlushAll

\* Syncing a file.
LEMMA SyncSteady ==
    ASSUME NEW d, Sound(d)
    PROVE  LET g == [d EXCEPT !.synced = Len(d.disk)]
           IN  /\ Steady(d, g) /\ g \in File /\ g.synced = Len(d.disk)
               /\ g.disk = d.disk /\ g.buf = d.buf
<1> DEFINE n == Len(d.disk)
           g == [d EXCEPT !.synced = n]
<1>1. d \in File /\ d.synced <= n /\ n \in Nat
  <2>1. d \in File /\ d.synced <= n BY DEF Sound
  <2> QED BY <2>1, WrittenType
<1>2. g.disk = d.disk /\ g.buf = d.buf /\ g.synced = n /\ g \in File
  <2> HIDE DEF n
  <2> QED BY <1>1 DEF File
<1> HIDE DEF g, n
<1>3. Steady(d, g) BY <1>1, <1>2 DEF Steady, Written, Holds
<1> QED BY <1>2, <1>3 DEF g, n

\* One after another.
LEMMA SteadyMore ==
    ASSUME NEW d \in File, NEW e \in File, NEW g \in File, Steady(d, e), Steady(e, g),
           Len(d.disk) <= Len(e.disk)
    PROVE  Steady(d, g)
<1>1. d.synced \in Nat /\ e.synced \in Nat /\ g.synced \in Nat BY DEF File
<1>2. Len(d.disk) \in Nat /\ Len(e.disk) \in Nat BY WrittenType
<1>3. d.synced <= g.synced BY <1>1 DEF Steady
<1>4. \A i \in 1..Len(d.disk) : g.disk[i] = d.disk[i] BY <1>2 DEF Steady
<1>5. \A S : Holds(d, S) => Holds(g, S) BY DEF Steady
<1> QED BY <1>3, <1>4, <1>5 DEF Steady

\* A line put in the buffer of a file.
LEMMA PutWritten ==
    ASSUME NEW d \in File, NEW l \in FileLine
    PROVE  LET g == [d EXCEPT !.buf = Append(@, l)]
           IN  /\ g \in File /\ Written(g) = Append(Written(d), l)
               /\ g.disk = d.disk /\ g.synced = d.synced
               /\ \A S : Holds(d, S) /\ l \in S => Holds(g, S)
<1> DEFINE g == [d EXCEPT !.buf = Append(@, l)]
<1>1. /\ g \in File /\ g.synced = d.synced /\ g.disk = d.disk /\ g.buf = Append(d.buf, l)
  BY PutKeeps
<1> HIDE DEF g
<1>2. d.disk \in Seq(FileLine) /\ d.buf \in Seq(FileLine) /\ <<l>> \in Seq(FileLine)
      /\ Written(d) \in Seq(FileLine)
  <2>1. d.disk \in Seq(FileLine) /\ d.buf \in Seq(FileLine) BY DEF File
  <2>2. <<l>> \in Seq(FileLine) OBVIOUS
  <2>3. Written(d) \in Seq(FileLine) BY WrittenType
  <2> QED BY <2>1, <2>2, <2>3
<1>3. Append(d.buf, l) = d.buf \o <<l>> /\ Append(Written(d), l) = Written(d) \o <<l>>
  BY <1>2, AppendIsConcat
<1>4. \A r, s, t \in Seq(FileLine) : (r \o s) \o t = r \o (s \o t) BY ConcatAssociative
<1>5. (d.disk \o d.buf) \o <<l>> = d.disk \o (d.buf \o <<l>>) BY <1>2, <1>4
<1>6. Written(g) = Append(Written(d), l) BY <1>1, <1>3, <1>5 DEF Written
<1>7. \A S : Holds(d, S) /\ l \in S => Holds(g, S) BY <1>1, AppendProperties DEF Holds
<1> QED BY <1>1, <1>6, <1>7 DEF g

-----------------------------------------------------------------------------
(* How rows pass from the task to the files: what every step does.         *)
LEMMA SessionsAreNat == Sessions \subseteq Nat
  BY BoundsAssumption DEF Sessions

\* Rows under way are rows.
LEMMA UnderWayType == IInv => InFlight \cup Hand \subseteq DataMsg
  BY DEF IInv, Typed, InFlight, Hand
\* And after a step.
LEMMA UnderWayTypeNext == IInv' => InFlight' \cup Hand' \subseteq DataMsg
  BY DEF IInv, Typed, InFlight, Hand

\* Time goes on; a row that is new is of this session, and goes from the hand to the
\* end of those in flight.
Passing ==
    /\ now <= now'
    /\ emitted \subseteq emitted'
    /\ \A r \in emitted' : r \in emitted \/ r.session = now
    /\ InFlight' \subseteq InFlight \cup Hand
    /\ \A m, n \in DataMsg :
           Ahead(W', m, n) => Ahead(W, m, n) \/ (m \in InFlight /\ n \in Hand)
    /\ \A m \in Hand' :
           \/ m \in Hand
           \/ m.session = now /\ m.line.session = now /\ m.line \in emitted'
    /\ \A m \in InFlight', n \in Hand' : n.session = now \/ (m \in InFlight /\ n \in Hand)

\* A line of a file was there before, or was the first row in flight.
WasThere(f, i) ==
    i <= Len(Written(file[f])) /\ Written(file'[f])[i] = Written(file[f])[i]
WasFirst(f, i) ==
    \E m \in InFlight : /\ m.file = f /\ m.line = Written(file'[f])[i]
                         /\ \A n \in InFlight' : Ahead(W, m, n)
Adding ==
    \A f \in DataFiles : \A i \in 1..Len(Written(file'[f])) : WasThere(f, i) \/ WasFirst(f, i)

\* What is synced stays.
SyncKept ==
    \A f \in DataFiles : /\ file[f].synced <= file'[f].synced
                          /\ \A i \in 1..file[f].synced : file'[f].disk[i] = file[f].disk[i]

\* The lines of the files of rows are rows.
LEMMA LineIsRow ==
    ASSUME LinesTyped, NEW f \in DataFiles, NEW i \in 1..Len(Written(file[f]))
    PROVE  Written(file[f])[i] \in DataLine /\ Written(file[f])[i].session \in Nat
<1>1. Written(file[f]) \in Seq(DataLine) BY DEF LinesTyped
<1>2. Written(file[f])[i] \in DataLine BY <1>1, ElementOfSeq
<1> QED BY <1>2, SessionsAreNat DEF DataLine

\* So the rows stay in order.
LEMMA OrderKept ==
    ASSUME IInv, IInv', Order, Passing, Adding, LinesTyped'
    PROVE  Order'
<1>1. \A m \in InFlight \cup Hand : /\ m \in DataMsg /\ m.session \in Nat
                                     /\ m.file \in DataFiles
  BY UnderWayType, SessionsAreNat DEF DataMsg
<1>2. \A m \in InFlight' \cup Hand' : /\ m \in DataMsg /\ m.session \in Nat
                                       /\ m.file \in DataFiles
  BY UnderWayTypeNext, SessionsAreNat DEF DataMsg
<1>3. now \in Nat /\ now' \in Nat /\ \A r \in emitted' : r.session \in Nat
  BY SessionsAreNat DEF IInv, Typed, DataLine
<1>4. RowsInTime'
  <2>1. \A r \in emitted' : r.session <= now' BY <1>3 DEF Order, RowsInTime, Passing
  <2> QED BY <2>1 DEF RowsInTime
<1>5. \A f \in DataFiles : \A i \in 1..Len(Written(file'[f])) :
          Written(file'[f])[i].session \in Nat
  <2>1. \A f \in DataFiles : Written(file'[f]) \in Seq(DataLine) BY DEF LinesTyped
  <2>2. \A f \in DataFiles : \A i \in 1..Len(Written(file'[f])) :
            Written(file'[f])[i] \in DataLine
    BY <2>1, ElementOfSeq
  <2> QED BY <2>2, SessionsAreNat DEF DataLine
<1>6. ASSUME NEW f \in DataFiles, NEW i \in 1..Len(Written(file'[f])), WasThere(f, i)
      PROVE  i \in 1..Len(Written(file[f])) /\ Written(file'[f])[i] = Written(file[f])[i]
  <2>1. file[f] \in File /\ file'[f] \in File BY DEF IInv, Typed, Files
  <2>2. Len(Written(file[f])) \in Nat /\ Len(Written(file'[f])) \in Nat
    BY <2>1, WrittenType, LenProperties
  <2> QED BY <1>6, <2>2 DEF WasThere
<1>7. LinesOffered'
  <2> SUFFICES ASSUME NEW f \in DataFiles, NEW i \in 1..Len(Written(file'[f]))
               PROVE  Written(file'[f])[i] \in emitted'
    BY DEF LinesOffered
  <2>1. CASE WasThere(f, i)
    <3>1. Written(file[f])[i] \in emitted BY <1>6, <2>1 DEF Order, LinesOffered
    <3> QED BY <1>6, <2>1, <3>1 DEF Passing
  <2>2. CASE WasFirst(f, i)
    <3>1. PICK m \in InFlight : m.line = Written(file'[f])[i] BY <2>2 DEF WasFirst
    <3>2. m.line \in emitted BY DEF Order, UnderWay
    <3> QED BY <3>1, <3>2 DEF Passing
  <2> QED BY <2>1, <2>2 DEF Adding
<1>8. UnderWay'
  <2> SUFFICES ASSUME NEW m \in InFlight' \cup Hand'
               PROVE  /\ m.line \in emitted' /\ m.line.session = m.session
                      /\ Follow(m, Written(file'[m.file]))
    BY DEF UnderWay
  <2>1. m \in DataMsg /\ m.session \in Nat /\ m.file \in DataFiles BY <1>2
  <2>2. CASE m \in InFlight \cup Hand
    <3>1. m.line \in emitted /\ m.line.session = m.session
          /\ Follow(m, Written(file[m.file]))
      BY <2>2 DEF Order, UnderWay
    <3>2. ASSUME NEW i \in 1..Len(Written(file'[m.file]))
          PROVE  Written(file'[m.file])[i].session <= m.session
      <4>1. CASE WasThere(m.file, i) BY <1>6, <2>1, <3>1, <4>1 DEF Follow
      <4>2. CASE WasFirst(m.file, i)
        <5>1. PICK x \in InFlight : /\ x.line = Written(file'[m.file])[i]
                                    /\ \A n \in InFlight' : Ahead(W, x, n)
          BY <4>2 DEF WasFirst
        <5>2. x.line.session = x.session /\ x \in DataMsg BY <1>1 DEF Order, UnderWay
        <5>3. CASE m \in InFlight'
          <6>1. x.session <= m.session BY <2>1, <5>1, <5>2, <5>3 DEF Order, WayInOrder
          <6> QED BY <5>1, <5>2, <6>1
        <5>4. CASE m \in Hand
          <6>1. x.session <= m.session BY <5>4 DEF Order, HandIsLast
          <6> QED BY <5>1, <5>2, <6>1
        <5>5. CASE m \in Hand' /\ m \notin Hand
          <6>1. m.session = now BY <5>5 DEF Passing
          <6>2. x.line \in emitted /\ x.line.session <= now
            BY DEF Order, UnderWay, RowsInTime
          <6> QED BY <5>1, <6>1, <6>2
        <5> QED BY <5>3, <5>4, <5>5
      <4> QED BY <2>1, <4>1, <4>2 DEF Adding
    <3> QED BY <3>1, <3>2 DEF Follow, Passing
  <2>3. CASE m \notin InFlight \cup Hand
    <3>1. m.session = now /\ m.line.session = now /\ m.line \in emitted'
      BY <2>3 DEF Passing
    <3>2. ASSUME NEW i \in 1..Len(Written(file'[m.file]))
          PROVE  Written(file'[m.file])[i].session <= m.session
      <4>1. CASE WasThere(m.file, i)
        <5>1. Written(file[m.file])[i] \in emitted
          BY <1>6, <2>1, <4>1 DEF Order, LinesOffered
        <5>2. Written(file[m.file])[i].session <= now BY <5>1 DEF Order, RowsInTime
        <5> QED BY <1>6, <2>1, <3>1, <4>1, <5>2
      <4>2. CASE WasFirst(m.file, i)
        <5>1. PICK x \in InFlight : x.line = Written(file'[m.file])[i]
          BY <4>2 DEF WasFirst
        <5>2. x.line \in emitted /\ x.line.session <= now
          BY DEF Order, UnderWay, RowsInTime
        <5> QED BY <3>1, <5>1, <5>2
      <4> QED BY <2>1, <4>1, <4>2 DEF Adding
    <3> QED BY <3>1, <3>2 DEF Follow
  <2> QED BY <2>2, <2>3
<1>9. WayInOrder'
  <2>1. \A m, n \in DataMsg : Ahead(W', m, n) => m.session <= n.session
    BY DEF Order, WayInOrder, HandIsLast, Passing
  <2> QED BY <2>1 DEF WayInOrder
<1>10. HandIsLast'
  <2> SUFFICES ASSUME NEW m \in InFlight', NEW n \in Hand' PROVE m.session <= n.session
    BY DEF HandIsLast
  <2>1. CASE m \in InFlight /\ n \in Hand BY <2>1 DEF Order, HandIsLast
  <2>2. CASE n.session = now
    <3>1. m \in InFlight \cup Hand BY DEF Passing
    <3>2. m.line \in emitted /\ m.line.session = m.session BY <3>1 DEF Order, UnderWay
    <3>3. m.line.session <= now BY <3>2 DEF Order, RowsInTime
    <3> QED BY <2>2, <3>2, <3>3
  <2> QED BY <2>1, <2>2 DEF Passing
<1> QED BY <1>4, <1>7, <1>8, <1>9, <1>10 DEF Order

\* What a clean marker promises stays true.
LEMMA SettledKept ==
    ASSUME IInv, IInv', Order, Passing, Adding, SyncKept, LinesTyped',
           NEW m \in Marker, Settled(m)
    PROVE  Settled(m)'
<1> DEFINE s == m.session
<1>1. /\ s \in Nat /\ now \in Nat /\ now' \in Nat /\ s < now
      /\ m.ranges \in [DataFiles -> Extent]
  <2>1. s \in Sessions /\ m.ranges \in [DataFiles -> Extent] BY DEF Marker
  <2> QED BY <2>1, SessionsAreNat DEF IInv, Typed, Settled
<1>2. s < now' BY <1>1 DEF Passing
<1>3. \A x \in InFlight' \cup Hand' : x.session # s
  <2> SUFFICES ASSUME NEW x \in InFlight' \cup Hand' PROVE x.session # s OBVIOUS
  <2>1. x \in InFlight \cup Hand \/ x.session = now BY DEF Passing
  <2>2. x \in InFlight \cup Hand => x.session # s BY DEF Settled
  <2> HIDE DEF s
  <2> QED BY <1>1, <2>1, <2>2
<1>4. \A f \in DataFiles : /\ file[f] \in File /\ file'[f] \in File
                            /\ file[f].synced \in Nat /\ file'[f].synced \in Nat
                            /\ file[f].synced <= Len(file[f].disk)
                            /\ file'[f].synced <= Len(file'[f].disk)
  <2> TAKE f \in DataFiles
  <2>1. f \in Files BY DEF Files
  <2>2. file[f] \in File /\ file'[f] \in File BY <2>1 DEF IInv, Typed
  <2>3. file[f].synced \in Nat /\ file'[f].synced \in Nat BY <2>2 DEF File
  <2> QED BY <2>1, <2>2, <2>3 DEF IInv, Bounded
<1>5. \A f \in DataFiles : RangeSettled(m.ranges[f], f, s)'
  <2> SUFFICES ASSUME NEW f \in DataFiles, m.ranges[f].rows > 0
               PROVE  LET r == m.ranges[f]
                      IN  /\ r.end = r.start + r.rows /\ r.end <= file'[f].synced
                          /\ Len(r.hash) = r.rows
                          /\ \A i \in 1..Len(r.hash) :
                                 r.hash[i] = file'[f].disk[r.start + i] /\ r.hash[i].session = s
    BY DEF RangeSettled
  <2> DEFINE r == m.ranges[f]
  <2>1. r \in Extent BY <1>1
  <2>2. r.start \in Nat /\ r.end \in Nat /\ r.rows \in Nat BY <2>1 DEF Extent
  <2>3. /\ r.end = r.start + r.rows /\ r.end <= file[f].synced /\ Len(r.hash) = r.rows
        /\ \A i \in 1..Len(r.hash) :
               r.hash[i] = file[f].disk[r.start + i] /\ r.hash[i].session = s
    BY DEF Settled, RangeSettled
  <2>4. /\ file[f].synced <= file'[f].synced
        /\ \A i \in 1..file[f].synced : file'[f].disk[i] = file[f].disk[i]
    BY DEF SyncKept
  <2> HIDE DEF r, s
  <2>5. r.end <= file'[f].synced BY <1>4, <2>2, <2>3, <2>4
  <2>6. \A i \in 1..Len(r.hash) : r.start + i \in 1..file[f].synced
    BY <1>4, <2>2, <2>3
  <2> QED BY <2>3, <2>4, <2>5, <2>6 DEF r, s
<1>6. \A f \in DataFiles : LinesInside(m.ranges[f], f, s)'
  <2> SUFFICES ASSUME NEW f \in DataFiles, NEW i \in 1..Len(Written(file'[f])),
                      Written(file'[f])[i].session = s
               PROVE  LET r == m.ranges[f] IN r.rows > 0 /\ r.start < i /\ i <= r.end
    BY DEF LinesInside
  <2>1. CASE WasThere(f, i)
    <3>1. Len(Written(file[f])) \in Nat /\ Len(Written(file'[f])) \in Nat
      BY <1>4, WrittenType, LenProperties
    <3>2. i \in 1..Len(Written(file[f])) /\ Written(file[f])[i].session = s
      BY <2>1, <3>1 DEF WasThere
    <3> QED BY <3>2 DEF Settled, LinesInside
  <2>2. CASE WasFirst(f, i)
    <3>1. PICK x \in InFlight : x.line = Written(file'[f])[i] BY <2>2 DEF WasFirst
    <3>2. x.line.session = x.session BY DEF Order, UnderWay
    <3>3. x.session # s BY DEF Settled
    <3> QED BY <3>1, <3>2, <3>3
  <2> QED BY <2>1, <2>2 DEF Adding
<1>7. \A r \in emitted' : r.session = s => OnSynced(r)'
  <2> SUFFICES ASSUME NEW r \in emitted', r.session = s PROVE OnSynced(r)' OBVIOUS
  <2>1. r \in emitted
    <3>1. r \in emitted \/ r.session = now BY DEF Passing
    <3> HIDE DEF s
    <3> QED BY <1>1, <3>1
  <2>2. PICK f \in DataFiles : \E i \in 1..file[f].synced : file[f].disk[i] = r
    BY <2>1 DEF Settled, OnSynced
  <2>3. PICK i \in 1..file[f].synced : file[f].disk[i] = r BY <2>2
  <2>4. file'[f].disk[i] = r BY <2>3 DEF SyncKept
  <2>5. i \in 1..file'[f].synced BY <1>4 DEF SyncKept
  <2> QED BY <2>4, <2>5 DEF OnSynced
<1>8. m.tally.written = Total(RowsIn(m.ranges), DataFiles) BY DEF Settled
<1> QED BY <1>2, <1>3, <1>5, <1>6, <1>7, <1>8 DEF Settled

\* So what a clean marker promises stays so.
LEMMA GoodKept ==
    ASSUME IInv, IInv', Order, Passing, Adding, SyncKept, LinesTyped'
    PROVE  Good \subseteq Good'
<1> SUFFICES ASSUME NEW x \in FileLine, x.kind = "session" /\ Clean(x) => Settled(x),
                    x.kind = "session", Clean(x)
             PROVE  Settled(x)'
  BY DEF Good
<1>1. x \in Marker BY DEF FileLine, DataLine, MarkLine
<1> QED BY <1>1, SettledKept

\* No row moves: the files are steady, and what is on its way keeps its order.
CalmFiles == \A f \in DataFiles : Steady(file[f], file'[f])
Calm ==
    /\ CalmFiles /\ opened \subseteq opened'
    /\ now <= now' /\ emitted' = emitted /\ Hand' = Hand /\ InFlight' = InFlight
    /\ \A m, n \in DataMsg : Ahead(W', m, n) => Ahead(W, m, n)

\* Steady files have the same lines, and keep what is synced.
LEMMA SteadyFiles ==
    ASSUME IInv, LinesTyped, CalmFiles, opened \subseteq opened'
    PROVE  /\ \A f \in DataFiles : Written(file'[f]) = Written(file[f])
           /\ Adding /\ SyncKept /\ LinesTyped'
<1>1. \A f \in DataFiles : /\ file[f] \in File /\ file[f].synced \in Nat
                            /\ file[f].synced <= Len(file[f].disk)
                            /\ Len(file[f].disk) \in Nat
  <2> TAKE f \in DataFiles
  <2>1. f \in Files BY DEF Files
  <2>2. file[f] \in File BY <2>1 DEF IInv, Typed
  <2> QED BY <2>1, <2>2, WrittenType DEF IInv, Bounded, File
<1>2. \A f \in DataFiles : Written(file'[f]) = Written(file[f]) BY DEF CalmFiles, Steady
<1>3. Adding
  <2> SUFFICES ASSUME NEW f \in DataFiles, NEW i \in 1..Len(Written(file'[f]))
               PROVE  WasThere(f, i)
    BY DEF Adding
  <2>1. Len(Written(file[f])) \in Nat BY <1>1, WrittenType, LenProperties
  <2> QED BY <1>2, <2>1 DEF WasThere
<1>4. SyncKept
  <2> SUFFICES ASSUME NEW f \in DataFiles
               PROVE  /\ file[f].synced <= file'[f].synced
                      /\ \A i \in 1..file[f].synced : file'[f].disk[i] = file[f].disk[i]
    BY DEF SyncKept
  <2>1. /\ file[f].synced <= file'[f].synced
        /\ \A i \in 1..Len(file[f].disk) : file'[f].disk[i] = file[f].disk[i]
    BY DEF CalmFiles, Steady
  <2>2. \A i \in 1..file[f].synced : i \in 1..Len(file[f].disk) BY <1>1
  <2> QED BY <2>1, <2>2
<1>5. LinesTyped'
  <2> SUFFICES ASSUME NEW f \in DataFiles
               PROVE  /\ Written(file'[f]) \in Seq(DataLine)
                      /\ file'[f].buf # <<>> => f \in opened'
    BY DEF LinesTyped
  <2>1. Written(file'[f]) \in Seq(DataLine) BY <1>2 DEF LinesTyped
  <2>2. file'[f].buf # <<>> => f \in opened' BY DEF CalmFiles, Steady, LinesTyped
  <2> QED BY <2>1, <2>2
<1> QED BY <1>2, <1>3, <1>4, <1>5

\* So a calm step keeps the order of the rows and what clean markers promise.
LEMMA CalmKeeps ==
    ASSUME IInv, IInv', Order, Calm
    PROVE  /\ \A f \in DataFiles : Written(file'[f]) = Written(file[f])
           /\ Order' /\ Good \subseteq Good'
<1>1. LinesTyped /\ CalmFiles /\ opened \subseteq opened' BY DEF Order, Calm
<1>2. /\ \A f \in DataFiles : Written(file'[f]) = Written(file[f])
      /\ Adding /\ SyncKept /\ LinesTyped'
  BY <1>1, SteadyFiles
<1>3. Passing BY DEF Calm, Passing
<1> QED BY <1>2, <1>3, OrderKept, GoodKept

\* A session all of whose rows are this process's has been that before.
LEMMA MineKept ==
    ASSUME IInv, now' \in Nat, now <= now',
           begun' = begun \/ (begun = None /\ begun' = now),
           \A t \in Sessions : t \notin closed' \/ Awaits(W', t) => t \notin closed \/ Awaits(W, t),
           NEW s \in Sessions, Mine(s)'
    PROVE  Mine(s)
<1>1. now \in Nat /\ s \in Nat /\ now # None /\ (begun # None => begun \in Nat)
  BY SessionsAreNat, OutcomesAssumption DEF IInv, Typed
<1>2. /\ s \notin closed' \/ Awaits(W', s)
      /\ begun' = None => now' < s
      /\ begun' # None => begun' < s
  BY DEF Mine
<1>3. s \notin closed \/ Awaits(W, s) BY <1>2
<1>4. begun = None => now < s BY <1>1, <1>2
<1>5. begun # None => begun < s BY <1>2
<1> QED BY <1>3, <1>4, <1>5 DEF Mine

\* The accounts of a session stay, or start from nothing for a session that is not all
\* this process's.
SameExtent(s) == /\ ranges'[s] = ranges[s] /\ tally'[s].written = tally[s].written
                 /\ Mine(s)' => Mine(s)
NoAccount(s) == /\ ranges'[s] = [f \in DataFiles |-> NoRange]
                /\ tally'[s] = ZeroTally /\ ~Mine(s)'

\* The files of the rows are finitely many.
LEMMA DataFilesFinite == IsFiniteSet(DataFiles)
<1>1. 1 \in Int /\ MaxSession + 1 \in Int BY BoundsAssumption
<1> QED BY <1>1, FS_Interval DEF DataFiles

\* Nothing written.
LEMMA ZeroTotal == Total(RowsIn([f \in DataFiles |-> NoRange]), DataFiles) = 0
<1> DEFINE g == RowsIn([f \in DataFiles |-> NoRange])
<1>1. \A f \in DataFiles : g[f] = 0 BY DEF RowsIn, NoRange
<1>2. IsFiniteSet(DataFiles) BY DataFilesFinite
<1> HIDE DEF g
<1> DEFINE S == {}
<1>3. /\ S \subseteq DataFiles /\ \A f \in DataFiles : g[f] \in Int
      /\ \A f \in DataFiles : g[f] = IF f \in S THEN g[f] ELSE 0
  BY <1>1
<1>4. Total(g, S) = 0 BY TotalEmpty
<1>5. Total(g, DataFiles) = Total(g, S)
  <2>1. S \subseteq DataFiles BY <1>3
  <2>2. \A f \in DataFiles : g[f] \in Int BY <1>3
  <2>3. \A f \in DataFiles : g[f] = IF f \in S THEN g[f] ELSE 0 BY <1>3
  <2> HIDE DEF S
  <2> QED BY <1>2, <2>1, <2>2, <2>3, TotalFilter
<1> QED BY <1>4, <1>5 DEF g

\* While nothing is written, the ranges stay true.
LEMMA ExtentsKept ==
    ASSUME RangesFit, RangesCover, WrittenCounted,
           \A f \in DataFiles : Written(file'[f]) = Written(file[f]),
           \A s \in Sessions : SameExtent(s) \/ NoAccount(s)
    PROVE  RangesFit' /\ RangesCover' /\ WrittenCounted'
<1>1. RangesFit'
  <2> SUFFICES ASSUME NEW s \in Sessions, NEW f \in DataFiles
               PROVE  RangeFits(ranges'[s][f], Written(file'[f]), s)
    BY DEF RangesFit
  <2>1. RangeFits(ranges[s][f], Written(file[f]), s) BY DEF RangesFit
  <2>2. CASE SameExtent(s) BY <2>1, <2>2 DEF SameExtent
  <2>3. CASE NoAccount(s)
    <3>1. ranges'[s][f].rows = 0 BY <2>3 DEF NoAccount, NoRange
    <3> QED BY <3>1 DEF RangeFits
  <2> QED BY <2>2, <2>3
<1>2. RangesCover'
  <2> SUFFICES ASSUME NEW s \in Sessions, Mine(s)', NEW f \in DataFiles
               PROVE  RangeCovers(ranges'[s][f], Written(file'[f]), s)
    BY DEF RangesCover
  <2>1. SameExtent(s) BY DEF NoAccount
  <2>2. RangeCovers(ranges[s][f], Written(file[f]), s)
    BY <2>1 DEF RangesCover, SameExtent
  <2> QED BY <2>1, <2>2 DEF SameExtent
<1>3. WrittenCounted'
  <2> SUFFICES ASSUME NEW s \in Sessions
               PROVE  tally'[s].written = Total(RowsIn(ranges'[s]), DataFiles)
    BY DEF WrittenCounted
  <2>1. CASE SameExtent(s) BY <2>1 DEF SameExtent, WrittenCounted
  <2>2. CASE NoAccount(s)
    <3>1. tally'[s].written = 0 BY <2>2 DEF NoAccount, ZeroTally
    <3> QED BY <2>2, <3>1, ZeroTotal DEF NoAccount
  <2> QED BY <2>1, <2>2
<1> QED BY <1>1, <1>2, <1>3

\* A row that is under way stays so or is written, unless a loss of its session is
\* counted; what is written stays; a new row is in the task's hands.
Tracks ==
    /\ \A r \in emitted' : r \in emitted \/ \E m \in Hand' : m.line = r
    /\ \A f \in DataFiles : \A r : IsWritten(r, f) => IsWritten(r, f)'
    /\ \A s \in Sessions : Mine(s)' /\ Unlost(tally'[s]) =>
           /\ Mine(s) /\ Unlost(tally[s])
           /\ \A x \in InFlight \cup Hand : x.session = s => Kept(x.line)'

\* So every offered row stays accounted for.
LEMMA AccountedKept ==
    ASSUME Order, Accounted, Tracks
    PROVE  Accounted'
<1> SUFFICES ASSUME NEW s \in Sessions, Mine(s)', Unlost(tally'[s]),
                    NEW r \in emitted', r.session = s
             PROVE  Kept(r)'
  BY DEF Accounted
<1>1. CASE \E m \in Hand' : m.line = r BY <1>1 DEF Kept
<1>2. CASE r \in emitted
  <2>1. Mine(s) /\ Unlost(tally[s]) BY DEF Tracks
  <2>2. Kept(r) BY <1>2, <2>1 DEF Accounted
  <2>3. CASE \E m \in InFlight \cup Hand : m.line = r
    <3>1. PICK m \in InFlight \cup Hand : m.line = r BY <2>3
    <3>2. m.session = s BY <3>1 DEF Order, UnderWay
    <3> QED BY <3>1, <3>2 DEF Tracks
  <2>4. CASE \E f \in DataFiles : IsWritten(r, f)
    <3>1. \E f \in DataFiles : IsWritten(r, f)' BY <2>4 DEF Tracks
    <3> QED BY <3>1 DEF Kept
  <2> QED BY <2>2, <2>3, <2>4 DEF Kept
<1> QED BY <1>1, <1>2 DEF Tracks

\* Nothing new is timed.
LEMMA TimelyKept ==
    ASSUME IInv, Timely, now' \in Nat, now <= now', begun' = begun, account' \in {account, None},
           \A m \in CloseMsg : OnWay(W', m) => OnWay(W, m)
    PROVE  Timely'
<1>1. now \in Nat /\ \A m \in CloseMsg : m.session \in Nat
  BY SessionsAreNat DEF IInv, Typed, CloseMsg
<1>2. (account # None => InTime(account.start, account.session))' BY DEF Timely, InTime
<1>3. \A m \in CloseMsg : OnWay(W', m) =>
          InTime(m.start, m.session)' /\ (m.by = "session_boundary" => m.session < now')
  BY <1>1 DEF Timely, InTime
<1> QED BY <1>2, <1>3 DEF Timely

\* What is the matter of a step in which no row moves and no account of a session does:
\* what is put on its way is no row, and what is promised of markers.
Still(B) ==
    /\ now' \in Nat /\ now <= now'
    /\ begun' = begun \/ (begun = None /\ begun' = now)
    /\ CalmFiles /\ opened \subseteq opened' /\ emitted' = emitted /\ Hand' = Hand
    /\ Gains(W, W', B) /\ B \cap DataMsg = {}
    /\ \A s \in Sessions : s \notin closed' \/ Awaits(W', s) => s \notin closed \/ Awaits(W, s)
    /\ ranges' = ranges
    /\ \A s \in Sessions : /\ tally'[s].written = tally[s].written
                           /\ tally'[s].dropped = tally[s].dropped
                           /\ tally'[s].errors = tally[s].errors

\* A step that is calm, and keeps the accounts of each session or starts them anew.
LEMMA CalmAccounts ==
    ASSUME SInv, IInv', Calm,
           \A s \in Sessions : (SameExtent(s) /\ (Unlost(tally'[s]) => Unlost(tally[s])))
                                  \/ NoAccount(s)
    PROVE  /\ Order' /\ RangesFit' /\ RangesCover' /\ WrittenCounted' /\ Accounted'
           /\ Good \subseteq Good'
<1>1. IInv /\ Order /\ RangesFit /\ RangesCover /\ WrittenCounted /\ Accounted BY DEF SInv
<1>2. /\ \A f \in DataFiles : Written(file'[f]) = Written(file[f])
      /\ Order' /\ Good \subseteq Good'
  BY <1>1, CalmKeeps
<1>3. RangesFit' /\ RangesCover' /\ WrittenCounted'
  <2>1. \A s \in Sessions : SameExtent(s) \/ NoAccount(s) OBVIOUS
  <2> QED BY <1>1, <1>2, <2>1, ExtentsKept
<1>4. Tracks
  <2>1. \A r \in emitted' : r \in emitted BY DEF Calm
  <2>2. \A f \in DataFiles : \A r : IsWritten(r, f) => IsWritten(r, f)'
    BY <1>2 DEF IsWritten
  <2>3. ASSUME NEW s \in Sessions, Mine(s)', Unlost(tally'[s])
        PROVE  Mine(s) /\ Unlost(tally[s])
    BY <2>3 DEF SameExtent, NoAccount
  <2>4. ASSUME NEW x \in InFlight \cup Hand PROVE Kept(x.line)'
    <3>1. x \in InFlight' \cup Hand' BY DEF Calm
    <3> QED BY <3>1 DEF Kept
  <2> QED BY <2>1, <2>2, <2>3, <2>4 DEF Tracks
<1>5. Accounted' BY <1>1, <1>4, AccountedKept
<1> QED BY <1>2, <1>3, <1>5

\* A step that is still keeps the invariant.
LEMMA StillKeeps ==
    ASSUME SInv, IInv', NEW B, Still(B), Timely', Good \subseteq Good' => AllSettled'
    PROVE  SInv'
<1>1. IInv BY DEF SInv
<1>2. Calm
  <2>1. InFlight' = InFlight BY DEF Still, Gains, InFlight
  <2>2. \A m, n \in DataMsg : Ahead(W', m, n) => Ahead(W, m, n) BY DEF Still, Gains
  <2>3. CalmFiles /\ opened \subseteq opened' BY DEF Still
  <2>4. now <= now' /\ emitted' = emitted /\ Hand' = Hand BY DEF Still
  <2> QED BY <2>1, <2>2, <2>3, <2>4 DEF Calm
<1>3. \A s \in Sessions : SameExtent(s) /\ (Unlost(tally'[s]) => Unlost(tally[s]))
  <2> TAKE s \in Sessions
  <2>1. now' \in Nat /\ now <= now' /\ (begun' = begun \/ (begun = None /\ begun' = now))
    BY DEF Still
  <2>2. \A t \in Sessions :
            t \notin closed' \/ Awaits(W', t) => t \notin closed \/ Awaits(W, t)
    BY DEF Still
  <2>3. Mine(s)' => Mine(s) BY <1>1, <2>1, <2>2, MineKept
  <2>4. /\ ranges' = ranges /\ tally'[s].written = tally[s].written
        /\ tally'[s].dropped = tally[s].dropped /\ tally'[s].errors = tally[s].errors
    BY DEF Still
  <2> QED BY <2>3, <2>4 DEF SameExtent, Unlost
<1>4. /\ Order' /\ RangesFit' /\ RangesCover' /\ WrittenCounted' /\ Accounted'
      /\ Good \subseteq Good'
  BY <1>2, <1>3, CalmAccounts
<1> QED BY <1>4 DEF SInv

\* The markers stay with their promises.
LEMMA MarkersStay ==
    ASSUME AllSettled, Good \subseteq Good', Steady(file[MarkerFile], file'[MarkerFile]),
           writer'.pc \in {"marker", "sync"} =>
               writer.pc \in {"marker", "sync"} /\ writer'.close = writer.close
    PROVE  AllSettled'
<1>1. Holds(file'[MarkerFile], Good) BY DEF AllSettled, Steady
<1>2. Holds(file'[MarkerFile], Good') BY <1>1, SeqMonotonic DEF Holds
<1>3. writer'.pc \in {"marker", "sync"} => writer'.close \in Good' BY DEF AllSettled
<1> QED BY <1>2, <1>3 DEF AllSettled

\* Files left alone are steady.
LEMMA SameFiles ==
    ASSUME IInv, file' = file
    PROVE  CalmFiles /\ Steady(file[MarkerFile], file'[MarkerFile])
<1>1. \A f \in Files : file[f] \in File BY DEF IInv, Typed
<1>2. \A f \in Files : Steady(file[f], file'[f]) BY <1>1, SteadySelf
<1> QED BY <1>2 DEF CalmFiles, Files

\* The order of steps in which the task's clock does not move.
LEMMA NowIsNat == IInv => now \in Nat
  BY SessionsAreNat DEF IInv, Typed

\* A step that leaves the way, the clock and the accounts alone.
LEMMA AsideStill ==
    ASSUME IInv, UNCHANGED <<now, begun, account, prod, emitted, closed, ranges>>,
           W' = W, CalmFiles, opened \subseteq opened',
           \A s \in Sessions : /\ tally'[s].written = tally[s].written
                               /\ tally'[s].dropped = tally[s].dropped
                               /\ tally'[s].errors = tally[s].errors
    PROVE  Still({}) /\ (Timely => Timely')
<1>1. Hand' = Hand BY DEF Hand
<1>2. now \in Nat /\ now <= now' BY NowIsNat
<1>3. Still({}) BY <1>1, <1>2, GainsSelf DEF Still
<1>4. Timely => Timely' BY <1>2, TimelyKept
<1> QED BY <1>3, <1>4

-----------------------------------------------------------------------------
(* The steps in which no row moves.                                        *)
LEMMA StutterSettles ==
    ASSUME SInv, IInv', UNCHANGED vars
    PROVE  SInv'
<1>1. UNCHANGED <<now, begun, closedOne, account, prod, chan, reserved, health, unreported,
                  tally, closed, pending, writer, opened, poisoned, ranges, file, emitted,
                  unmarked, faults>>
  BY DEF vars
<1>2. IInv /\ Timely /\ AllSettled BY DEF SInv
<1>3. CalmFiles /\ Steady(file[MarkerFile], file'[MarkerFile]) BY <1>1, <1>2, SameFiles
<1>4. W' = W BY <1>1 DEF W, Way, Q
<1>5. Still({}) /\ Timely' BY <1>1, <1>2, <1>3, <1>4, AsideStill
<1>6. Good \subseteq Good' => AllSettled' BY <1>1, <1>2, <1>3, MarkersStay
<1> QED BY <1>5, <1>6, StillKeeps

\* A deferred barrier goes into the channel.
LEMMA SendDeferredSettles ==
    ASSUME SInv, IInv', SendDeferred
    PROVE  SInv'
<1>1. /\ UNCHANGED <<now, begun, account, prod, closed, writer, opened, ranges, file, emitted,
                     tally>>
  BY DEF SendDeferred, clock, thread
<1>2. IInv /\ Timely /\ AllSettled BY DEF SInv
<1>3. CalmFiles /\ Steady(file[MarkerFile], file'[MarkerFile]) BY <1>1, <1>2, SameFiles
<1>4. W' = W BY <1>2, SendDeferredKeeps
<1>5. Still({}) /\ Timely' BY <1>1, <1>2, <1>3, <1>4, AsideStill
<1>6. Good \subseteq Good' => AllSettled' BY <1>1, <1>2, <1>3, MarkersStay
<1> QED BY <1>5, <1>6, StillKeeps

\* The thread takes a batch.
LEMMA ReceiveSettles ==
    ASSUME SInv, IInv', Receive
    PROVE  SInv'
<1>1. /\ UNCHANGED <<now, begun, account, prod, closed, opened, ranges, file, emitted, tally>>
  BY DEF Receive, producer, clock
<1>2. IInv /\ Timely /\ AllSettled BY DEF SInv
<1>3. CalmFiles /\ Steady(file[MarkerFile], file'[MarkerFile]) BY <1>1, <1>2, SameFiles
<1>4. W' = W BY <1>2, ReceiveKeeps
<1>5. Still({}) /\ Timely' BY <1>1, <1>2, <1>3, <1>4, AsideStill
<1>6. writer'.pc = "msgs" BY <1>2 DEF Receive, IInv, Typed, Thread
<1>7. Good \subseteq Good' => AllSettled' BY <1>2, <1>3, <1>6, MarkersStay
<1> QED BY <1>5, <1>7, StillKeeps

\* The clock goes on.
LEMMA NextSessionSettles ==
    ASSUME SInv, IInv', NextSession
    PROVE  SInv'
<1>1. /\ now' = now + 1
      /\ UNCHANGED <<begun, account, prod, chan, pending, closed, writer, opened, ranges, file,
                     emitted, tally>>
  BY DEF NextSession, queue, thread
<1>2. IInv /\ Timely /\ AllSettled BY DEF SInv
<1>3. CalmFiles /\ Steady(file[MarkerFile], file'[MarkerFile]) BY <1>1, <1>2, SameFiles
<1>4. now \in Nat /\ now' \in Nat /\ now <= now'
  <2>1. now \in Nat BY <1>2, NowIsNat
  <2> QED BY <1>1, <2>1
<1>5. W' = W BY <1>1 DEF W, Way, Q
<1>6. Hand' = Hand BY <1>1 DEF Hand
<1>7. Still({}) BY <1>1, <1>3, <1>4, <1>5, <1>6, GainsSelf DEF Still
<1>8. Timely' BY <1>1, <1>2, <1>4, <1>5, TimelyKept
<1>9. Good \subseteq Good' => AllSettled' BY <1>1, <1>2, <1>3, MarkersStay
<1> QED BY <1>7, <1>8, <1>9, StillKeeps

\* The end of a loss span, and its description.
LEMMA SentSettles ==
    ASSUME SInv, IInv', Sent
    PROVE  SInv'
<1>1. /\ prod.pc = "sent" /\ prod' = [pc |-> "idle", row |-> None]
      /\ tally' = [tally EXCEPT ![prod.row.session].inLoss = FALSE]
      /\ Queue(Describe(Q))
      /\ UNCHANGED <<now, begun, account, writer, opened, ranges, file, emitted>>
  BY DEF Sent, Ready, clock, thread
<1>2. IInv /\ Timely /\ AllSettled BY DEF SInv
<1>3. CalmFiles /\ Steady(file[MarkerFile], file'[MarkerFile]) BY <1>1, <1>2, SameFiles
<1>4. now \in Nat /\ now <= now' BY <1>1, <1>2, NowIsNat
<1>5. /\ Fits(Q) /\ writer.batch \in Seq(Msg) /\ W = Way(writer.batch, Q) /\ Q.closed = closed
  BY <1>2, TypedQueue DEF IInv, W
<1>6. /\ Alike(writer.batch, Q, Describe(Q)) /\ Describe(Q) \in QueueState
      /\ Gains(W, Way(writer.batch, Describe(Q)), {})
  <2>1. /\ Alike(writer.batch, Q, Describe(Q))
        /\ Gains(Way(writer.batch, Q), Way(writer.batch, Describe(Q)), {})
    BY <1>5, DescribeAlike
  <2> QED BY <1>5, <2>1 DEF Alike, Fits
<1>7. Q' = Describe(Q) BY <1>1, <1>6, QueueIs
<1>8. W' = Way(writer.batch, Describe(Q)) BY <1>1, <1>7 DEF W, Way
<1>9. \A s \in Sessions : s \notin closed' \/ Awaits(W', s) => s \notin closed \/ Awaits(W, s)
  <2>1. closed' = closed BY <1>5, <1>6, <1>7 DEF Alike, Q
  <2>2. \A s : Awaits(W', s) <=> Awaits(W, s) BY <1>5, <1>6, <1>8 DEF Alike
  <2> QED BY <2>1, <2>2
<1>10. Hand' = {} /\ Hand = {} BY <1>1 DEF Hand
<1>11. \A s \in Sessions : /\ tally'[s].written = tally[s].written
                           /\ tally'[s].dropped = tally[s].dropped
                           /\ tally'[s].errors = tally[s].errors
  <2>1. tally \in [Sessions -> Tally] BY <1>2 DEF IInv, Typed
  <2> DEFINE s0 == prod.row.session
  <2>2. tally' = [tally EXCEPT ![s0].inLoss = FALSE] BY <1>1
  <2> HIDE DEF s0
  <2> QED BY <2>1, <2>2 DEF Tally
<1>12. Still({})
  <2>1. Gains(W, W', {}) BY <1>6, <1>8
  <2> QED BY <1>1, <1>3, <1>4, <1>9, <1>10, <1>11, <2>1 DEF Still
<1>13. Timely'
  <2>1. \A m \in CloseMsg : OnWay(W', m) => OnWay(W, m) BY <1>6, <1>8 DEF Gains
  <2> QED BY <1>1, <1>2, <1>4, <2>1, TimelyKept
<1>14. Good \subseteq Good' => AllSettled' BY <1>1, <1>2, <1>3, MarkersStay
<1> QED BY <1>12, <1>13, <1>14, StillKeeps


\* roll_oi_session: the account that is opened, and the barrier of the one that ends.
LEMMA RollTimely ==
    ASSUME IInv, Timely, Roll(now), now' = now, Joined \in Open,
           account'.session = Joined.session, account'.start = Joined.start,
           \A m \in CloseMsg : OnWay(W', m) => OnWay(W, m) \/ m \in Closing
    PROVE  Timely' /\ (begun' = begun \/ (begun = None /\ begun' = now))
<1> DEFINE Later(start, s) == start # "mid_session" => begun' # None /\ begun' < s
<1>1. /\ now \in Nat /\ now # None /\ (begun # None => begun \in Nat)
      /\ account # None => account \in Open /\ account.session \in Nat
      /\ \A m \in CloseMsg : m.session \in Nat
  <2>1. now \in Nat BY NowIsNat
  <2>2. now # None
    <3>1. None \notin Int BY OutcomesAssumption
    <3> QED BY <2>1, <3>1
  <2>3. begun # None => begun \in Nat BY SessionsAreNat DEF IInv, Typed
  <2>4. account # None => account \in Open /\ account.session \in Nat
    BY SessionsAreNat DEF IInv, Typed, Open
  <2>5. \A m \in CloseMsg : m.session \in Nat BY SessionsAreNat DEF CloseMsg
  <2> QED BY <2>1, <2>2, <2>3, <2>4, <2>5
<1>2. begun' = IF begun = None THEN now ELSE begun BY DEF Roll
<1>3. ASSUME NEW start, NEW s, InTime(start, s) PROVE Later(start, s)
  BY <1>2, <1>3 DEF InTime
<1>4. Later(Joined.start, Joined.session)
  <2>1. CASE Stays(now)
    <3>1. Joined = account /\ account # None BY <2>1 DEF Joined, Stays
    <3>2. InTime(account.start, account.session) BY <3>1 DEF Timely
    <3> QED BY <1>3, <3>1, <3>2
  <2>2. CASE ~Stays(now)
    <3>1. Joined.start = AccountingStart(now) /\ Joined.session = now
      BY <2>2 DEF Joined, Account
    <3>2. AccountingStart(now) # "mid_session" => begun # None /\ begun < now
      BY <1>1 DEF AccountingStart
    <3> QED BY <1>2, <3>1, <3>2
  <2> QED BY <2>1, <2>2
<1>5. (account # None => InTime(account.start, account.session))'
  BY <1>4 DEF InTime
<1>6. ASSUME NEW m \in CloseMsg, OnWay(W', m)
      PROVE  Later(m.start, m.session) /\ (m.by = "session_boundary" => m.session < now')
  <2>1. CASE OnWay(W, m)
    <3>1. InTime(m.start, m.session) /\ (m.by = "session_boundary" => m.session < now)
      BY <2>1 DEF Timely
    <3> QED BY <1>3, <3>1
  <2>2. CASE m \in Closing
    <3>1. account # None /\ ~Stays(now) /\ m = Barrier("session_boundary")
      BY <2>2 DEF Closing
    <3>2. m.session = account.session /\ m.start = account.start BY <3>1 DEF Barrier
    <3>3. InTime(account.start, account.session) BY <3>1 DEF Timely
    <3>4. Later(m.start, m.session) BY <1>3, <3>2, <3>3
    <3>5. m.session < now' BY <1>1, <3>1, <3>2 DEF Stays
    <3> QED BY <3>4, <3>5
  <2> QED BY <1>6, <2>1, <2>2
<1> QED BY <1>2, <1>5, <1>6 DEF Timely, InTime

\* The barrier of a session is no row.
LEMMA ClosingIsNoRow == Closing \cap DataMsg = {} /\ \A how : Barrier(how) \notin DataMsg
  BY DEF Closing, Barrier, DataMsg

\* observe_tick.
LEMMA TickSettles ==
    ASSUME SInv, IInv', Tick
    PROVE  SInv'
<1>1. /\ prod.pc = "idle" /\ Roll(now) /\ Queue(Rolled(now)) /\ account' = Joined
      /\ UNCHANGED <<now, prod, tally, writer, opened, ranges, file, emitted>>
  BY DEF Tick, Joined, thread
<1>2. IInv /\ Timely /\ AllSettled BY DEF SInv
<1>3. CalmFiles /\ Steady(file[MarkerFile], file'[MarkerFile]) BY <1>1, <1>2, SameFiles
<1>4. now \in Nat /\ now <= now' BY <1>1, <1>2, NowIsNat
<1>5. /\ Moved(writer.batch, Q, Rolled(now), Shut)
      /\ Shut \subseteq Sessions /\ Shut \cap closed = {}
      /\ \A s \in Shut : ~Awaits(W, s)
      /\ Joined \in Open
      /\ Gains(W, Way(writer.batch, Rolled(now)), Closing)
  BY <1>1, <1>2, RollMoves DEF IInv
<1>6. Q' = Rolled(now)
  <2>1. Rolled(now) \in QueueState BY <1>5 DEF Moved, Fits
  <2> QED BY <1>1, <2>1, QueueIs
<1>7. Gains(W, W', Closing) BY <1>1, <1>5, <1>6 DEF W, Way
<1>8. \A s \in Sessions : s \notin closed' \/ Awaits(W', s) => s \notin closed \/ Awaits(W, s)
  <2> HIDE DEF Shut
  <2> QED BY <1>1, <1>2, <1>5, <1>6, OnTheWay
<1>9. Timely' /\ (begun' = begun \/ (begun = None /\ begun' = now))
  <2>1. \A m \in CloseMsg : OnWay(W', m) => OnWay(W, m) \/ m \in Closing
    BY <1>7 DEF Gains
  <2> QED BY <1>1, <1>2, <1>5, <2>1, RollTimely
<1>10. Hand' = Hand BY <1>1 DEF Hand
<1>11. Still(Closing) BY <1>1, <1>3, <1>4, <1>7, <1>8, <1>9, <1>10, ClosingIsNoRow DEF Still
<1>12. Good \subseteq Good' => AllSettled' BY <1>1, <1>2, <1>3, MarkersStay
<1> QED BY <1>9, <1>11, <1>12, StillKeeps

\* finish closes the open session.
LEMMA FinishSettles ==
    ASSUME SInv, IInv', Finish
    PROVE  SInv'
<1> DEFINE m == Barrier("process_exit")
           c == CloseSession(Q, account.session, m)
           r == Describe(c)
           S == {account.session}
           b == writer.batch
<1>1. /\ prod.pc = "idle" /\ account # None /\ Queue(r)
      /\ account' = None /\ prod' = [pc |-> "exit", row |-> None]
      /\ UNCHANGED <<now, begun, tally, writer, opened, ranges, file, emitted>>
  BY DEF Finish, Ready, thread
<1>2. IInv /\ Timely /\ AllSettled BY DEF SInv
<1>3. CalmFiles /\ Steady(file[MarkerFile], file'[MarkerFile]) BY <1>1, <1>2, SameFiles
<1>4. now \in Nat /\ now <= now' BY <1>1, <1>2, NowIsNat
<1>5. account \in Open BY <1>1, <1>2 DEF IInv, Typed
<1>6. /\ m \in CloseMsg /\ m.session = account.session /\ m.start = account.start
      /\ m.by = "process_exit" /\ account.session \in Sessions
  BY <1>5 DEF Barrier, CloseMsg, Open, Ends
<1>7. Fits(Q) /\ b \in Seq(Msg) /\ Q.closed = closed /\ W = Way(b, Q)
  BY <1>2, TypedQueue DEF IInv, W
<1> HIDE DEF m
<1>8. Moved(b, Q, c, S) /\ Gains(W, Way(b, c), {m})
  BY <1>6, <1>7, CloseMoves
<1> HIDE DEF c, S
<1>9. Moved(b, Q, r, S) /\ r \in QueueState /\ Gains(W, Way(b, r), {m})
  <2>1. Fits(c) BY <1>8 DEF Moved
  <2>2. Alike(b, c, r) /\ Gains(Way(b, c), Way(b, r), {}) BY <1>7, <2>1, DescribeAlike
  <2>3. Moved(b, Q, r, S) BY <1>7, <1>8, <2>2, MovedThenAlike
  <2>4. {m} \cap DataMsg = {} /\ {m} \cup {} = {m} BY ClosingIsNoRow DEF m
  <2>5. Gains(W, Way(b, r), {m}) BY <1>8, <2>2, <2>4, GainsMore
  <2> QED BY <2>3, <2>5 DEF Moved, Fits
<1> HIDE DEF r
<1>10. Q' = r BY <1>1, <1>9, QueueIs
<1>11. Gains(W, W', {m}) BY <1>1, <1>9, <1>10 DEF W, Way, b
<1>12. S \subseteq Sessions /\ S \cap closed = {} /\ \A s \in S : ~Awaits(W, s)
  <2>1. \A s \in closed : s < account.session BY <1>1, <1>2 DEF IInv, ClosedOnce
  <2>2. account.session \in Nat BY <1>6, SessionsAreNat
  <2>3. account.session \notin closed BY <2>1, <2>2
  <2>4. ~Awaits(W, account.session) BY <1>2, <1>6, <2>3 DEF IInv, ClosedOnce
  <2> QED BY <1>6, <2>3, <2>4 DEF S
<1>13. \A s \in Sessions : s \notin closed' \/ Awaits(W', s) => s \notin closed \/ Awaits(W, s)
  BY <1>1, <1>2, <1>9, <1>10, <1>12, OnTheWay DEF b
<1>14. Timely'
  <2>1. \A x \in CloseMsg : x.session \in Nat BY SessionsAreNat DEF CloseMsg
  <2>2. \A x \in CloseMsg : OnWay(W', x) => OnWay(W, x) \/ x = m BY <1>11 DEF Gains
  <2>3. InTime(m.start, m.session) BY <1>1, <1>2, <1>6 DEF Timely
  <2>4. \A x \in CloseMsg : OnWay(W', x) =>
            InTime(x.start, x.session)' /\ (x.by = "session_boundary" => x.session < now')
    BY <1>1, <1>2, <1>6, <2>2, <2>3 DEF Timely, InTime
  <2> QED BY <1>1, <2>4 DEF Timely
<1>15. Hand' = {} /\ Hand = {} BY <1>1 DEF Hand
<1>16. {m} \cap DataMsg = {} BY ClosingIsNoRow DEF m
<1>17. Still({m})
  BY <1>1, <1>3, <1>4, <1>11, <1>13, <1>15, <1>16 DEF Still
<1>18. Good \subseteq Good' => AllSettled' BY <1>1, <1>2, <1>3, MarkersStay
<1> QED BY <1>14, <1>17, <1>18, StillKeeps


\* The thread takes a message off its batch that is no row.
LEMMA HeadGone ==
    ASSUME IInv, writer.batch # <<>>, writer'.batch = Tail(writer.batch),
           UNCHANGED <<chan, pending, closed>>, Message \notin DataMsg
    PROVE  /\ Gains(W, W', {})
           /\ \A s \in Sessions :
                  s \notin closed' \/ Awaits(W', s) => s \notin closed \/ Awaits(W, s)
           /\ \A m \in CloseMsg : OnWay(W', m) => OnWay(W, m)
<1>1. W \in Seq(Msg) /\ W # <<>> /\ Message = Head(W) /\ W' = Tail(W) BY HeadTaken
<1>2. Gains(W, W', {}) BY <1>1, GainsTail
<1>3. \A s : Awaits(W', s) => Awaits(W, s) BY <1>1, TakeHead
<1>4. \A m \in CloseMsg : OnWay(W', m) => OnWay(W, m) BY <1>2 DEF Gains
<1> QED BY <1>2, <1>3, <1>4

\* A step that writes markers only leaves the files of the rows steady.
LEMMA OtherFiles ==
    ASSUME IInv, NEW d, file' = [file EXCEPT ![MarkerFile] = d]
    PROVE  CalmFiles /\ file'[MarkerFile] = d
<1>1. file \in [Files -> File] /\ MarkerFile \in Files BY DEF IInv, Typed, Files
<1>2. \A f \in DataFiles : f # MarkerFile /\ f \in Files
  BY BoundsAssumption DEF DataFiles, MarkerFile, Files
<1>3. \A f \in DataFiles : file[f] \in File /\ file'[f] = file[f] BY <1>1, <1>2
<1>4. \A f \in DataFiles : Steady(file[f], file'[f]) BY <1>3, SteadySelf
<1> QED BY <1>1, <1>4 DEF CalmFiles

\* The markers in the file and in the thread's hands keep their promises.
LEMMA MarkersGrow ==
    ASSUME Good \subseteq Good', Holds(file'[MarkerFile], Good),
           writer'.pc \in {"marker", "sync"} => writer'.close \in Good
    PROVE  AllSettled'
<1>1. Holds(file'[MarkerFile], Good') BY SeqMonotonic DEF Holds
<1> QED BY <1>1 DEF AllSettled

\* The marker goes to its file.
LEMMA WriteMarkerSettles ==
    ASSUME SInv, IInv', WriteMarker
    PROVE  SInv'
<1> DEFINE d == file[MarkerFile]
           g == [d EXCEPT !.buf = Append(@, writer.close)]
<1>1. /\ writer.pc = "marker" /\ opened' = opened \cup {MarkerFile}
      /\ writer' = [writer EXCEPT !.pc = "sync"]
      /\ UNCHANGED <<now, begun, account, prod, closed, pending, emitted, chan, tally, ranges>>
  BY DEF WriteMarker, producer, clock
<1>2. file' = [file EXCEPT ![MarkerFile] = FlushAll(g)] BY DEF WriteMarker
<1>3. IInv /\ Timely /\ AllSettled BY DEF SInv
<1>4. d \in File /\ writer.close \in FileLine
  BY <1>1, <1>3 DEF IInv, Typed, Files, FileLine
<1>5. writer.close \in Good /\ Holds(d, Good) BY <1>1, <1>3 DEF AllSettled
<1>6. CalmFiles /\ file'[MarkerFile] = FlushAll(g) BY <1>2, <1>3, OtherFiles
<1>7. Holds(FlushAll(g), Good)
  <2> HIDE DEF d
  <2>1. g \in File /\ (\A S : Holds(d, S) /\ writer.close \in S => Holds(g, S))
    BY <1>4, PutWritten
  <2> HIDE DEF g
  <2>2. Steady(g, FlushAll(g)) BY <2>1, FlushAllSteady
  <2> QED BY <1>5, <2>1, <2>2 DEF Steady
<1>8. writer'.close = writer.close /\ writer'.batch = writer.batch
  BY <1>1, <1>3 DEF IInv, Typed, Thread
<1>9. W' = W BY <1>1, <1>8 DEF W, Way, Q
<1>10. Still({}) /\ Timely' BY <1>1, <1>3, <1>6, <1>9, AsideStill
<1>11. Good \subseteq Good' => AllSettled' BY <1>5, <1>6, <1>7, <1>8, MarkersGrow
<1> QED BY <1>10, <1>11, StillKeeps

\* The marker is lost, or stays in the buffer.
LEMMA MarkerFailsSettles ==
    ASSUME SInv, IInv', NEW kept \in BOOLEAN, MarkerFails(kept)
    PROVE  SInv'
<1> DEFINE d == file[MarkerFile]
           g == [d EXCEPT !.buf = Append(@, writer.close)]
<1>1. /\ writer.pc = "marker" /\ opened \subseteq opened' /\ writer' = CloseDone
      /\ file' = file \/ file' = [file EXCEPT ![MarkerFile] = g]
      /\ UNCHANGED <<now, begun, account, prod, closed, pending, emitted, chan, tally, ranges>>
  BY DEF MarkerFails, producer, clock
<1>3. IInv /\ Timely /\ AllSettled BY DEF SInv
<1>4. d \in File /\ writer.close \in FileLine
  BY <1>1, <1>3 DEF IInv, Typed, Files, FileLine
<1>5. writer.close \in Good /\ Holds(d, Good) BY <1>1, <1>3 DEF AllSettled
<1>6. Holds(g, Good)
  <2> HIDE DEF d
  <2>1. \A S : Holds(d, S) /\ writer.close \in S => Holds(g, S) BY <1>4, PutWritten
  <2> QED BY <1>5, <2>1
<1> HIDE DEF g
<1>7. CalmFiles /\ Holds(file'[MarkerFile], Good)
  <2>1. CASE file' = file BY <1>3, <1>5, <2>1, SameFiles
  <2>2. CASE file' = [file EXCEPT ![MarkerFile] = g]
    <3>1. CalmFiles /\ file'[MarkerFile] = g BY <1>3, <2>2, OtherFiles
    <3> QED BY <1>6, <3>1
  <2> QED BY <1>1, <2>1, <2>2
<1>8. writer'.pc = "msgs" /\ writer'.batch = writer.batch BY <1>1, <1>3, CloseDoneType
<1>9. W' = W BY <1>1, <1>8 DEF W, Way, Q
<1>10. Still({}) /\ Timely' BY <1>1, <1>3, <1>7, <1>9, AsideStill
<1>11. Good \subseteq Good' => AllSettled' BY <1>7, <1>8, MarkersGrow
<1> QED BY <1>10, <1>11, StillKeeps

\* The marker is synced, or not.
LEMMA SyncMarkerSettles ==
    ASSUME SInv, IInv', SyncMarker \/ SyncMarkerFails
    PROVE  SInv'
<1> DEFINE d == file[MarkerFile]
           g == [d EXCEPT !.synced = Len(d.disk)]
<1>1. /\ writer' = CloseDone
      /\ file' = file \/ file' = [file EXCEPT ![MarkerFile] = g]
      /\ UNCHANGED <<now, begun, account, prod, closed, pending, emitted, chan, opened, tally,
                     ranges>>
  BY DEF SyncMarker, SyncMarkerFails, producer, clock
<1>2. IInv /\ Timely /\ AllSettled BY DEF SInv
<1>3. Steady(d, g)
  <2>1. Sound(d) BY <1>2, FilesAreSound
  <2> HIDE DEF d
  <2> QED BY <2>1, SyncSteady
<1> HIDE DEF g
<1>4. CalmFiles /\ Steady(d, file'[MarkerFile])
  <2>1. CASE file' = file BY <1>2, <2>1, SameFiles
  <2>2. CASE file' = [file EXCEPT ![MarkerFile] = g]
    <3>1. CalmFiles /\ file'[MarkerFile] = g BY <1>2, <2>2, OtherFiles
    <3> QED BY <1>3, <3>1
  <2> QED BY <1>1, <2>1, <2>2
<1>5. writer'.pc = "msgs" /\ writer'.batch = writer.batch BY <1>1, <1>2, CloseDoneType
<1>6. W' = W BY <1>1, <1>5 DEF W, Way, Q
<1>7. Still({}) /\ Timely' BY <1>1, <1>2, <1>4, <1>6, AsideStill
<1>8. Good \subseteq Good' => AllSettled' BY <1>2, <1>4, <1>5, MarkersStay
<1> QED BY <1>7, <1>8, StillKeeps

\* The end of a batch.
LEMMA FlushBatchSettles ==
    ASSUME SInv, IInv', NEW bad \in BadFlushes, NEW n \in 0..MaxRows, FlushBatch(bad, n)
    PROVE  SInv'
<1> DEFINE after(f) == IF f \in bad THEN Flush(file[f], n)
                       ELSE IF f \in writer.touched THEN FlushAll(file[f])
                       ELSE file[f]
           charge(s) == Cardinality({f \in bad \cap DataFiles : ranges[s][f].rows > 0})
<1>1. /\ writer.batch = <<>>
      /\ \A f \in bad : n < Len(file[f].buf)
      /\ file' = [f \in Files |-> after(f)]
      /\ tally' = [s \in Sessions |-> [tally[s] EXCEPT !.flushErrors = @ + charge(s)]]
      /\ writer' = [pc |-> "recv", batch |-> <<>>, touched |-> {}, wrote |-> 0,
                    close |-> None]
      /\ UNCHANGED <<now, begun, account, prod, closed, pending, emitted, chan, opened, ranges>>
  BY DEF FlushBatch, ChargeFlush, Resting, producer, clock, Fault
<1>2. IInv /\ Timely /\ AllSettled BY DEF SInv
<1>3. \A f \in Files : Steady(file[f], after(f))
  <2> TAKE f \in Files
  <2>1. file[f] \in File BY <1>2 DEF IInv, Typed
  <2>2. CASE f \in bad
    <3>1. file[f].buf \in Seq(FileLine) BY <2>1 DEF File
    <3>2. Len(file[f].buf) \in Nat BY <3>1, LenProperties
    <3>3. n \in 0..Len(file[f].buf) BY <1>1, <2>2, <3>2, BoundsAssumption
    <3>4. Steady(file[f], Flush(file[f], n)) BY <2>1, <3>3, FlushSteady
    <3> QED BY <2>2, <3>4
  <2>3. CASE f \notin bad
    <3>1. Steady(file[f], FlushAll(file[f])) /\ Steady(file[f], file[f])
      BY <2>1, FlushAllSteady, SteadySelf
    <3> QED BY <2>3, <3>1
  <2> QED BY <2>2, <2>3
<1> HIDE DEF after, charge
<1>4. \A f \in Files : Steady(file[f], file'[f]) BY <1>1, <1>3
<1>5. CalmFiles /\ Steady(file[MarkerFile], file'[MarkerFile])
  BY <1>4 DEF CalmFiles, Files
<1>6. W' = W BY <1>1 DEF W, Way, Q
<1>7. \A s \in Sessions : /\ tally'[s].written = tally[s].written
                          /\ tally'[s].dropped = tally[s].dropped
                          /\ tally'[s].errors = tally[s].errors
  BY <1>1, <1>2 DEF IInv, Typed, Tally
<1>8. Still({}) /\ Timely' BY <1>1, <1>2, <1>5, <1>6, <1>7, AsideStill
<1>9. Good \subseteq Good' => AllSettled' BY <1>1, <1>2, <1>5, MarkersStay
<1> QED BY <1>8, <1>9, StillKeeps

-----------------------------------------------------------------------------
(* The lines the thread takes.                                             *)

\* What the thread is after it took a line.
LEMMA LineConsumed ==
    ASSUME IInv, NEW x, NEW y,
           writer' = [Consumed EXCEPT !.touched = x, !.wrote = y] \/ writer' = Consumed
    PROVE  writer'.batch = Tail(writer.batch) /\ writer'.pc = writer.pc
<1> DEFINE t == Tail(writer.batch)
<1>1. writer \in Thread BY DEF IInv, Typed
<1>2. writer' = [writer EXCEPT !.batch = t, !.touched = x, !.wrote = y]
      \/ writer' = [writer EXCEPT !.batch = t]
  BY <1>1 DEF Consumed, Thread
<1> HIDE DEF t
<1>3. writer'.batch = t /\ writer'.pc = writer.pc BY <1>1, <1>2 DEF Thread
<1> QED BY <1>3 DEF t

\* A line of the marker file that is no marker: nothing of it matters here.
LEMMA MarkLineSettles ==
    ASSUME SInv, IInv', NEW g, file' = [file EXCEPT ![MarkerFile] = g] \/ file' = file,
           Holds(file[MarkerFile], Good) /\ Message.line \in Good => Holds(g, Good),
           StartMessage(MarkerFile), writer'.batch = Tail(writer.batch), writer'.pc = "msgs",
           opened \subseteq opened', UNCHANGED <<producer, chan, ranges, tally>>
    PROVE  SInv'
<1>1. IInv /\ Timely /\ AllSettled BY DEF SInv
<1>2. /\ writer.pc = "msgs" /\ writer.batch # <<>> /\ Message.msg = "line"
      /\ Message.file = MarkerFile
  BY DEF StartMessage
<1>3. UNCHANGED <<now, begun, account, prod, closed, pending, emitted, chan, ranges, tally>>
  BY DEF producer, clock
<1>4. Message \in MarkMsg /\ Message \notin DataMsg /\ Message.line \in FileLine
  <2>1. MarkerFile \in Files BY DEF Files
  <2> QED BY <1>1, <1>2, <2>1, FirstLine
<1>5. Message.line \in Good
  <2>1. Message.line \in MarkLine BY <1>4 DEF MarkMsg
  <2>2. Message.line.kind # "session" BY <2>1 DEF MarkLine
  <2> QED BY <1>4, <2>2 DEF Good
<1>6. Holds(file[MarkerFile], Good) BY <1>1 DEF AllSettled
<1>7. CalmFiles /\ Holds(file'[MarkerFile], Good)
  <2>1. CASE file' = file BY <1>1, <1>6, <2>1, SameFiles
  <2>2. CASE file' = [file EXCEPT ![MarkerFile] = g]
    <3>1. CalmFiles /\ file'[MarkerFile] = g BY <1>1, <2>2, OtherFiles
    <3> QED BY <1>5, <1>6, <3>1
  <2> QED BY <2>1, <2>2
<1>8. /\ Gains(W, W', {})
      /\ \A s \in Sessions :
             s \notin closed' \/ Awaits(W', s) => s \notin closed \/ Awaits(W, s)
      /\ \A m \in CloseMsg : OnWay(W', m) => OnWay(W, m)
  BY <1>1, <1>2, <1>3, <1>4, HeadGone
<1>9. now \in Nat /\ now <= now' BY <1>1, <1>3, NowIsNat
<1>10. Hand' = Hand BY <1>3 DEF Hand
<1>11. Still({}) BY <1>3, <1>7, <1>8, <1>9, <1>10 DEF Still
<1>12. Timely' BY <1>1, <1>3, <1>8, <1>9, TimelyKept
<1>13. Good \subseteq Good' => AllSettled' BY <1>7, MarkersGrow
<1> QED BY <1>11, <1>12, <1>13, StillKeeps

\* It is written.
LEMMA WriteMarkLineSettles ==
    ASSUME SInv, IInv', NEW full \in BOOLEAN, WriteLine(MarkerFile, full)
    PROVE  SInv'
<1> DEFINE d == file[MarkerFile]
           b == IF full THEN FlushAll(d) ELSE d
           l == Message.line
           g == [b EXCEPT !.buf = Append(@, l)]
           x == writer.touched \cup {MarkerFile}
           y == writer.wrote + (IF MarkerFile # MarkerFile THEN 1 ELSE 0)
<1>1. /\ StartMessage(MarkerFile)
      /\ opened' = opened \cup {MarkerFile}
      /\ file' = [file EXCEPT ![MarkerFile] = g]
      /\ writer' = [Consumed EXCEPT !.touched = @ \cup {MarkerFile},
                        !.wrote = @ + (IF MarkerFile # MarkerFile THEN 1 ELSE 0)]
      /\ UNCHANGED <<producer, chan, ranges, tally>>
  BY DEF WriteLine
<1>2. IInv BY DEF SInv
<1>3. writer'.batch = Tail(writer.batch) /\ writer'.pc = writer.pc
  <2>1. writer' = [Consumed EXCEPT !.touched = x, !.wrote = y]
    BY <1>1, <1>2 DEF Consumed, IInv, Typed, Thread
  <2> HIDE DEF x, y
  <2> QED BY <1>2, <2>1, LineConsumed
<1>4. writer.pc = "msgs" BY <1>1 DEF StartMessage
<1>5. d \in File /\ l \in FileLine
  <2>1. MarkerFile \in Files BY DEF Files
  <2>2. l \in FileLine BY <1>1, <1>2, <2>1, FirstLine DEF StartMessage
  <2> QED BY <1>2, <2>1, <2>2 DEF IInv, Typed
<1>6. b \in File /\ (Holds(d, Good) => Holds(b, Good))
  <2> HIDE DEF d
  <2>1. FlushAll(d) \in File /\ Steady(d, FlushAll(d)) BY <1>5, FlushAllSteady
  <2> QED BY <1>5, <2>1 DEF Steady
<1>7. Holds(d, Good) /\ l \in Good => Holds(g, Good)
  <2> HIDE DEF b, l, d
  <2>1. \A S : Holds(b, S) /\ l \in S => Holds(g, S) BY <1>5, <1>6, PutWritten
  <2> QED BY <1>6, <2>1
<1> HIDE DEF g
<1> QED BY <1>1, <1>3, <1>4, <1>7, MarkLineSettles

\* It is lost.
LEMMA MarkLineFailsSettles ==
    ASSUME SInv, IInv', NEW n \in 0..Len(file[MarkerFile].buf), LineFails(MarkerFile, n)
    PROVE  SInv'
<1> DEFINE d == file[MarkerFile]
           g == Flush(d, n)
<1>1. /\ StartMessage(MarkerFile)
      /\ file' = [file EXCEPT ![MarkerFile] = g] \/ file' = file
      /\ writer' = Consumed
      /\ UNCHANGED <<producer, chan, opened, ranges, tally>>
  BY DEF LineFails
<1>2. IInv BY DEF SInv
<1>3. writer'.batch = Tail(writer.batch) /\ writer'.pc = "msgs"
  BY <1>1, <1>2, LineConsumed DEF StartMessage
<1>4. d \in File BY <1>2 DEF IInv, Typed, Files
<1>5. Holds(d, Good) => Holds(g, Good)
  <2>1. Steady(d, g) BY <1>4, FlushSteady
  <2> HIDE DEF g
  <2> QED BY <2>1 DEF Steady
<1> HIDE DEF g
<1>6. Holds(file[MarkerFile], Good) /\ Message.line \in Good => Holds(g, Good) BY <1>5
<1>7. opened \subseteq opened' /\ UNCHANGED <<producer, chan, ranges, tally>> BY <1>1
<1> QED BY <1>1, <1>3, <1>6, <1>7, MarkLineSettles

-----------------------------------------------------------------------------
(* The steps in which a row moves.                                         *)

\* What is left to show of them.
LEMMA MoveKeeps ==
    ASSUME SInv, IInv', Passing, Adding, SyncKept, LinesTyped', Tracks, Timely',
           RangesFit' /\ RangesCover' /\ WrittenCounted',
           Good \subseteq Good' => AllSettled'
    PROVE  SInv'
<1>1. IInv /\ Order /\ Accounted BY DEF SInv
<1>2. Order' BY <1>1, OrderKept
<1>3. Good \subseteq Good' BY <1>1, GoodKept
<1>4. Accounted' BY <1>1, AccountedKept
<1> QED BY <1>2, <1>3, <1>4 DEF SInv

\* observe ranks a row: it is in the task's hands.
LEMMA RecordSettles ==
    ASSUME SInv, IInv', NEW f \in DataFiles, Record(f)
    PROVE  SInv'
<1> DEFINE q == SendPending(Rolled(now))
           r == IF now \in q.closed THEN Offer(q, Late(now)) ELSE q
           n == Cardinality(emitted) + 1
           late == IF now \in q.closed THEN 1 ELSE 0
           t == [tally[now] EXCEPT !.attempted = @ + 1, !.late = @ + late]
           row == Row(now, n)
           m == Line(f, row, now)
           b == writer.batch
<1>1. /\ prod.pc = "idle" /\ Roll(now) /\ Queue(r)
      /\ account' = [Joined EXCEPT !.scored = @ + 1]
      /\ prod' = [pc |-> "reserve", row |-> m]
      /\ emitted' = emitted \cup {row}
      /\ tally' = [tally EXCEPT ![now] = t]
      /\ UNCHANGED <<now, writer, opened, ranges, file>>
  BY DEF Record, Joined, thread
<1>2. IInv /\ Timely /\ AllSettled /\ RangesFit /\ RangesCover /\ WrittenCounted /\ LinesTyped
  BY DEF SInv, Order
<1>3. CalmFiles /\ Steady(file[MarkerFile], file'[MarkerFile]) BY <1>1, <1>2, SameFiles
<1>4. now \in Nat /\ now <= now' /\ now \in Sessions BY <1>1, <1>2, NowIsNat DEF IInv, Typed
<1>5. /\ Moved(b, Q, Rolled(now), Shut)
      /\ Shut \subseteq Sessions /\ Shut \cap closed = {}
      /\ \A s \in Shut : ~Awaits(W, s)
      /\ Joined \in Open
      /\ Gains(W, Way(b, Rolled(now)), Closing)
  BY <1>1, <1>2, RollMoves DEF IInv
<1>6. b \in Seq(Msg) /\ Fits(Rolled(now)) BY <1>2, <1>5, TypedQueue DEF IInv, Moved
<1>7. Moved(b, Q, q, Shut) /\ Fits(q) /\ Gains(W, Way(b, q), Closing)
  <2>1. Alike(b, Rolled(now), q) /\ Way(b, q) = Way(b, Rolled(now))
    BY <1>6, SendPendingAlike
  <2>2. Moved(b, Q, q, Shut)
    <3>1. Fits(Q) BY <1>2, TypedQueue DEF IInv
    <3> QED BY <1>5, <1>6, <2>1, <3>1, MovedThenAlike
  <2> QED BY <1>5, <2>1, <2>2 DEF Moved
<1> HIDE DEF q, Shut, Closing
<1>8. Moved(b, Q, r, Shut) /\ r \in QueueState /\ Gains(W, Way(b, r), Closing)
  <2>1. Late(now) \in MarkLine BY <1>4 DEF Late, MarkLine
  <2> DEFINE o == Offer(q, Late(now))
  <2>2. Alike(b, q, o) /\ Gains(Way(b, q), Way(b, o), {})
    BY <1>6, <1>7, <2>1, OfferAlike
  <2> HIDE DEF o
  <2>3. Moved(b, Q, o, Shut)
    <3>1. Fits(Q) BY <1>2, TypedQueue DEF IInv
    <3> QED BY <1>6, <1>7, <2>2, <3>1, MovedThenAlike
  <2>4. Closing \cap DataMsg = {} /\ Closing \cup {} = Closing BY ClosingIsNoRow
  <2>5. Gains(W, Way(b, o), Closing) BY <1>7, <2>2, <2>4, GainsMore
  <2>6. r = o \/ r = q BY DEF o
  <2> QED BY <1>7, <2>3, <2>5, <2>6 DEF Moved, Fits
<1> HIDE DEF r
<1>9. Q' = r BY <1>1, <1>8, QueueIs
<1>10. Gains(W, W', Closing) BY <1>1, <1>8, <1>9 DEF W, Way, b
<1>11. \A s \in Sessions : s \notin closed' \/ Awaits(W', s) => s \notin closed \/ Awaits(W, s)
  BY <1>1, <1>2, <1>5, <1>8, <1>9, OnTheWay DEF b
<1>12. row \in DataLine /\ m \in DataMsg /\ row.session = now /\ m.session = now
       /\ m.line = row
  <2>1. IsFiniteSet(emitted) BY <1>2 DEF IInv, Typed
  <2>2. Cardinality(emitted) \in Nat BY <2>1, FS_CardinalityType
  <2>3. n \in Nat BY <2>2
  <2> HIDE DEF n
  <2>4. row \in DataLine /\ row.session = now BY <1>4, <2>3 DEF Row, DataLine
  <2> HIDE DEF row
  <2> QED BY <1>4, <2>4 DEF Line, DataMsg
<1> HIDE DEF m, row, n, late
<1>13. Hand = {} /\ Hand' = {m} BY <1>1 DEF Hand
<1>14. InFlight' = InFlight BY <1>10, ClosingIsNoRow DEF Gains, InFlight
<1>15. Timely' /\ (begun' = begun \/ (begun = None /\ begun' = now))
  <2>1. \A c \in CloseMsg : OnWay(W', c) => OnWay(W, c) \/ c \in Closing
    BY <1>10 DEF Gains
  <2>2. account'.session = Joined.session /\ account'.start = Joined.start
    BY <1>1, <1>5 DEF Open
  <2> QED BY <1>1, <1>2, <1>5, <2>1, <2>2, RollTimely
<1>16. Passing
  <2>1. \A x, y \in DataMsg : Ahead(W', x, y) => Ahead(W, x, y)
    BY <1>10, ClosingIsNoRow DEF Gains
  <2> QED BY <1>1, <1>4, <1>12, <1>13, <1>14, <2>1 DEF Passing
<1>17. /\ \A h \in DataFiles : Written(file'[h]) = Written(file[h])
       /\ Adding /\ SyncKept /\ LinesTyped'
  BY <1>1, <1>2, <1>3, SteadyFiles
<1>18. \A s \in Sessions : /\ tally'[s].written = tally[s].written
                           /\ tally'[s].dropped = tally[s].dropped
                           /\ tally'[s].errors = tally[s].errors
  <2>1. tally \in [Sessions -> Tally] BY <1>2 DEF IInv, Typed
  <2>2. \A s \in Sessions : tally'[s] = IF s = now THEN t ELSE tally[s] BY <1>1, <1>4, <2>1
  <2>3. /\ t.written = tally[now].written /\ t.dropped = tally[now].dropped
        /\ t.errors = tally[now].errors
    BY <1>4, <2>1 DEF Tally
  <2> HIDE DEF t
  <2> QED BY <2>2, <2>3
<1>19. \A s \in Sessions : Mine(s)' => Mine(s) BY <1>1, <1>2, <1>4, <1>11, <1>15, MineKept
<1>20. RangesFit' /\ RangesCover' /\ WrittenCounted'
  <2>1. \A s \in Sessions : SameExtent(s) BY <1>1, <1>18, <1>19 DEF SameExtent
  <2> QED BY <1>2, <1>17, <2>1, ExtentsKept
<1>21. Tracks
  <2>1. \A x \in emitted' : x \in emitted \/ \E c \in Hand' : c.line = x
    BY <1>1, <1>12, <1>13
  <2>2. \A h \in DataFiles : \A x : IsWritten(x, h) => IsWritten(x, h)'
    BY <1>17 DEF IsWritten
  <2>3. ASSUME NEW s \in Sessions, Mine(s)', Unlost(tally'[s])
        PROVE  Mine(s) /\ Unlost(tally[s])
    BY <1>18, <1>19, <2>3 DEF Unlost
  <2>4. ASSUME NEW x \in InFlight \cup Hand PROVE Kept(x.line)'
    BY <1>13, <1>14 DEF Kept
  <2> QED BY <2>1, <2>2, <2>3, <2>4 DEF Tracks
<1>22. Good \subseteq Good' => AllSettled' BY <1>1, <1>2, <1>3, MarkersStay
<1> QED BY <1>15, <1>16, <1>17, <1>20, <1>21, <1>22, MoveKeeps

\* The row in the task's hands is put on its way, or dropped.
LEMMA HandMoves ==
    ASSUME SInv, IInv',
           UNCHANGED <<now, begun, account, closed, writer, opened, ranges, file, emitted>>,
           Hand' \subseteq Hand, InFlight' \subseteq InFlight \cup Hand,
           Hand' = {} \/ InFlight' \subseteq InFlight,
           \A x, y \in DataMsg :
               Ahead(W', x, y) => Ahead(W, x, y) \/ (x \in InFlight /\ y \in Hand),
           \A s : Awaits(W', s) => Awaits(W, s),
           \A c \in CloseMsg : OnWay(W', c) => OnWay(W, c),
           \A s \in Sessions :
               /\ tally'[s].written = tally[s].written
               /\ Unlost(tally'[s]) =>
                      /\ Unlost(tally[s])
                      /\ \A x \in InFlight \cup Hand :
                             x.session = s => x \in InFlight' \cup Hand'
    PROVE  SInv'
<1>1. IInv /\ Timely /\ AllSettled /\ RangesFit /\ RangesCover /\ WrittenCounted /\ LinesTyped
  BY DEF SInv, Order
<1>2. CalmFiles /\ Steady(file[MarkerFile], file'[MarkerFile]) BY <1>1, SameFiles
<1>3. now \in Nat /\ now <= now' BY <1>1, NowIsNat
<1>4. Passing BY <1>3 DEF Passing
<1>5. /\ \A h \in DataFiles : Written(file'[h]) = Written(file[h])
      /\ Adding /\ SyncKept /\ LinesTyped'
  BY <1>1, <1>2, SteadyFiles
<1>6. \A s \in Sessions : Mine(s)' => Mine(s) BY DEF Mine
<1>7. RangesFit' /\ RangesCover' /\ WrittenCounted'
  <2>1. \A s \in Sessions : SameExtent(s) BY <1>6 DEF SameExtent
  <2> QED BY <1>1, <1>5, <2>1, ExtentsKept
<1>8. Tracks
  <2>1. \A h \in DataFiles : \A x : IsWritten(x, h) => IsWritten(x, h)'
    BY <1>5 DEF IsWritten
  <2>2. ASSUME NEW s \in Sessions, Mine(s)', Unlost(tally'[s]),
               NEW x \in InFlight \cup Hand, x.session = s
        PROVE  Kept(x.line)'
    <3>1. x \in InFlight' \cup Hand' BY <2>2
    <3> QED BY <3>1 DEF Kept
  <2> QED BY <1>6, <2>1, <2>2 DEF Tracks
<1>9. Timely' BY <1>1, <1>3, TimelyKept
<1>10. Good \subseteq Good' => AllSettled' BY <1>1, <1>2, MarkersStay
<1> QED BY <1>4, <1>5, <1>7, <1>8, <1>9, <1>10, MoveKeeps

\* count_drop: the tally of the row's session says so.
LEMMA DropSettles ==
    ASSUME SInv, IInv', prod.pc \in {"reserve", "send"}, Drop,
           UNCHANGED <<clock, chan, closed, pending, thread, emitted>>
    PROVE  SInv'
<1> DEFINE s0 == prod.row.session
<1>1. IInv BY DEF SInv
<1>2. /\ UNCHANGED <<now, begun, account, closed, writer, opened, ranges, file, emitted>>
      /\ UNCHANGED <<chan, pending>>
  BY DEF clock, thread
<1>3. W' = W BY <1>2 DEF W, Way, Q
<1>4. Hand = {prod.row} /\ Hand' = {} BY DEF Hand, Drop, Ready
<1>5. InFlight' = InFlight BY <1>3 DEF InFlight
<1>6. prod.row \in DataMsg /\ s0 \in Sessions BY <1>1 DEF IInv, Typed, DataMsg
<1> HIDE DEF s0
<1>7. tally' = SessionDrop(s0) BY DEF Drop, s0
<1>8. \A s \in Sessions :
          /\ tally'[s].written = tally[s].written
          /\ s # s0 => tally'[s] = tally[s]
          /\ s = s0 => ~Unlost(tally'[s])
  <2>1. tally \in [Sessions -> Tally] BY <1>1 DEF IInv, Typed
  <2> DEFINE t == tally[s0]
             p == t.dropped + 1
             k == t.spans + (IF t.inLoss THEN 0 ELSE 1)
  <2>2. t \in Tally BY <1>6, <2>1
  <2>3. t.dropped \in Nat BY <2>2 DEF Tally
  <2>4. p # 0 BY <2>3
  <2>5. tally' = [tally EXCEPT ![s0] = [t EXCEPT !.dropped = p, !.inLoss = TRUE, !.spans = k]]
    BY <1>6, <1>7, <2>1 DEF SessionDrop, Tally
  <2> DEFINE g == [t EXCEPT !.dropped = p, !.inLoss = TRUE, !.spans = k]
  <2>6. g.dropped = p /\ g.written = t.written
    <3> HIDE DEF t, p, k
    <3> QED BY <2>2 DEF Tally
  <2> HIDE DEF g, p, k
  <2>7. tally'[s0] = g /\ \A s \in Sessions : s # s0 => tally'[s] = tally[s]
    BY <1>6, <2>1, <2>5 DEF g
  <2> QED BY <2>4, <2>6, <2>7 DEF Unlost
<1>9. \A x \in InFlight \cup Hand : x.session # s0 => x \in InFlight' \cup Hand'
  BY <1>4, <1>5 DEF s0
<1>10. \A s \in Sessions :
           /\ tally'[s].written = tally[s].written
           /\ Unlost(tally'[s]) =>
                  /\ Unlost(tally[s])
                  /\ \A x \in InFlight \cup Hand : x.session = s => x \in InFlight' \cup Hand'
  BY <1>8, <1>9
<1> QED BY <1>2, <1>3, <1>4, <1>5, <1>10, HandMoves

\* Reserving bytes for the row.
LEMMA ReserveSettles ==
    ASSUME SInv, IInv', Reserve
    PROVE  SInv'
<1>1. prod.pc = "reserve"
      /\ UNCHANGED <<clock, chan, closed, pending, thread, emitted>>
  BY DEF Reserve
<1>2. CASE reserved + 1 > QueueBytes
  <2>1. Drop BY <1>2 DEF Reserve
  <2> QED BY <1>1, <2>1, DropSettles
<1>3. CASE ~(reserved + 1 > QueueBytes)
  <2>1. prod' = [prod EXCEPT !.pc = "send"] /\ UNCHANGED tally BY <1>3 DEF Reserve
  <2>2. /\ UNCHANGED <<now, begun, account, closed, writer, opened, ranges, file, emitted>>
        /\ UNCHANGED <<chan, pending>>
    BY <1>1 DEF clock, thread
  <2>3. W' = W BY <2>2 DEF W, Way, Q
  <2>4. prod'.pc = "send" /\ prod'.row = prod.row BY <2>1 DEF SInv, IInv, Typed
  <2>5. Hand' = Hand BY <1>1, <2>4 DEF Hand
  <2>6. InFlight' = InFlight BY <2>3 DEF InFlight
  <2> QED BY <2>1, <2>2, <2>3, <2>5, <2>6, HandMoves
<1> QED BY <1>2, <1>3

\* The row goes into the channel, or is dropped.
LEMMA SendSettles ==
    ASSUME SInv, IInv', Send
    PROVE  SInv'
<1> DEFINE m == prod.row
           b == writer.batch
           r == Q'
<1>1. prod.pc = "send"
      /\ UNCHANGED <<clock, closed, pending, thread, emitted>>
  BY DEF Send
<1>2. CASE ~Room(Q)
  <2>1. Drop /\ UNCHANGED chan BY <1>2 DEF Send
  <2> QED BY <1>1, <2>1, DropSettles
<1>3. CASE Room(Q)
  <2>1. IInv BY DEF SInv
  <2>2. chan' = Append(chan, m) /\ prod' = [prod EXCEPT !.pc = "sent"] /\ UNCHANGED tally
    BY <1>3 DEF Send
  <2>3. UNCHANGED <<now, begun, account, closed, writer, opened, ranges, file, emitted, pending>>
    BY <1>1 DEF clock, thread
  <2>4. m \in DataMsg /\ m \in LineMsg BY <1>1, <2>1 DEF IInv, Typed, LineMsg
  <2>5. Hand = {m} /\ Hand' = {}
    <3>1. prod'.pc = "sent" BY <2>1, <2>2 DEF IInv, Typed
    <3> QED BY <1>1, <3>1 DEF Hand
  <2> HIDE DEF m
  <2>6. b \in Seq(Msg) /\ Q \in QueueState /\ r \in QueueState
    BY <2>1, TypedQueue DEF IInv, Typed, Fits
  <2>7. r.chan = Append(Q.chan, m) /\ r.pending = Q.pending BY <2>2, <2>3 DEF Q
  <2>8. W = Way(b, Q) /\ W' = Way(b, r) BY <2>3 DEF W, Way
  <2> HIDE DEF r, b
  <2>9. /\ \A s : Awaits(Way(b, r), s) <=> Awaits(Way(b, Q), s)
        /\ Gains(Way(b, Q), Way(b, r), {m})
    BY <2>4, <2>6, <2>7, ChannelPut
  <2>10. Gains(W, W', {m}) /\ \A s : Awaits(W', s) => Awaits(W, s) BY <2>8, <2>9
  <2>11. InFlight' = InFlight \cup Hand BY <2>4, <2>5, <2>10 DEF Gains, InFlight
  <2>12. \A x, y \in DataMsg :
             Ahead(W', x, y) => Ahead(W, x, y) \/ (x \in InFlight /\ y \in Hand)
    BY <2>5, <2>10 DEF Gains, InFlight
  <2>13. \A c \in CloseMsg : OnWay(W', c) => OnWay(W, c)
    <3>1. \A c \in CloseMsg : c # m BY <2>4 DEF CloseMsg, DataMsg
    <3> QED BY <2>10, <3>1 DEF Gains
  <2> QED BY <2>2, <2>3, <2>5, <2>10, <2>11, <2>12, <2>13, HandMoves
<1> QED BY <1>2, <1>3

-----------------------------------------------------------------------------
(* A row is written.                                                       *)

\* The fields of a range after it.
AfterLine(q, r, l, own, start) ==
    /\ ~own /\ r.rows = 0 => q = r
    /\ ~own /\ r.rows > 0 => /\ q.start = r.start /\ q.end = r.end
                             /\ q.rows = r.rows /\ q.atEnd = r.atEnd
                             /\ q.hash = Append(r.hash, l)
    /\ own /\ r.rows > 0 => /\ q.start = r.start /\ q.end = start + 1
                            /\ q.rows = r.rows + 1
                            /\ q.hash = Append(r.hash, l)
                            /\ q.atEnd = Append(r.hash, l)
    /\ own /\ r.rows = 0 => /\ q.start = start /\ q.end = start + 1
                            /\ q.rows = 1 /\ q.hash = <<l>> /\ q.atEnd = <<l>>

\* They are that.
LEMMA RangeFields ==
    ASSUME NEW r \in Extent, NEW l \in DataLine, NEW own \in BOOLEAN, NEW start \in Nat
    PROVE  AfterLine(RangeAfter(r, l, own, start), r, l, own, start)
<1> DEFINE x == IF r.rows > 0 THEN Append(r.hash, l) ELSE <<l>>
           h == [r EXCEPT !.hash = x]
           y == IF r.rows > 0 THEN r.start ELSE start
           z == r.rows + 1
           e == start + 1
           t == [h EXCEPT !.start = y, !.end = e, !.rows = z, !.atEnd = x]
           q == RangeAfter(r, l, own, start)
<1>1. /\ r.start \in Nat /\ r.end \in Nat /\ r.rows \in Nat
      /\ r.hash \in Seq(DataLine) /\ r.atEnd \in Seq(DataLine)
  BY DEF Extent
<1>2. r.rows > 0 => x = Append(r.hash, l) /\ y = r.start OBVIOUS
<1>3. r.rows = 0 => x = <<l>> /\ y = start /\ z = 1 BY <1>1
<1> HIDE DEF x, y, z
<1>4. /\ h.hash = x /\ h.rows = r.rows /\ h.start = r.start /\ h.end = r.end
      /\ h.atEnd = r.atEnd
  BY DEF Extent
<1>5. t.start = y /\ t.end = e /\ t.rows = z /\ t.atEnd = x /\ t.hash = x
  <2>1. h = [start |-> r.start, end |-> r.end, rows |-> r.rows, hash |-> x, atEnd |-> r.atEnd]
    BY DEF Extent
  <2> HIDE DEF h, e
  <2> QED BY <2>1
<1>6. q = IF own THEN t ELSE IF r.rows > 0 THEN h ELSE r
  BY <1>4 DEF RangeAfter, x, y, z
<1> HIDE DEF h, t, q
<1>7. ~own /\ r.rows = 0 => q = r BY <1>6
<1>8. ~own /\ r.rows > 0 => q = h BY <1>6
<1>9. own => q = t BY <1>6
<1>10. ~own /\ r.rows > 0 => /\ q.start = r.start /\ q.end = r.end
                             /\ q.rows = r.rows /\ q.atEnd = r.atEnd
                             /\ q.hash = Append(r.hash, l)
  BY <1>2, <1>4, <1>8
<1>11. own /\ r.rows > 0 => /\ q.start = r.start /\ q.end = start + 1
                            /\ q.rows = r.rows + 1
                            /\ q.hash = Append(r.hash, l) /\ q.atEnd = Append(r.hash, l)
  BY <1>2, <1>5, <1>9 DEF z
<1>12. own /\ r.rows = 0 => /\ q.start = start /\ q.end = start + 1
                            /\ q.rows = 1 /\ q.hash = <<l>> /\ q.atEnd = <<l>>
  BY <1>3, <1>5, <1>9
<1> QED BY <1>7, <1>10, <1>11, <1>12 DEF q, AfterLine

\* The places of a range in its file.
Places(st, en, rw, k, lh, la, m) ==
    /\ 1 \in 1..la /\ st + 1 \in 1..k /\ m = (k + 1) - st /\ st < k + 1
    /\ \A i \in 1..lh : st + i \in 1..k
    /\ \A i \in 1..la : st + i \in 1..k
    /\ st + (lh + 1) = k + 1 /\ rw + 1 > 0
    /\ en = k => k + 1 = st + (rw + 1) /\ lh = rw
    /\ en # k => k \in 1..k /\ k > en

\* They are these.
LEMMA RangePlaces ==
    ASSUME NEW st \in Nat, NEW en \in Nat, NEW rw \in Nat, NEW k \in Nat, NEW lh \in Nat,
           NEW la \in Nat, NEW m,
           rw > 0, en = st + rw, en <= k, lh = k - st, la = rw, m = lh + 1
    PROVE  Places(st, en, rw, k, lh, la, m)
  BY DEF Places

\* A row written behind rows of no later session: the ranges of its file go on to name
\* the rows of their sessions.
LEMMA RangeGrows ==
    ASSUME NEW r \in Extent, NEW c \in Seq(DataLine), NEW l \in DataLine, NEW s \in Nat,
           RangeFits(r, c, s), \A i \in 1..Len(c) : c[i].session <= l.session
    PROVE  LET q == RangeAfter(r, l, s = l.session, Len(c))
           IN  /\ RangeFits(q, Append(c, l), s)
               /\ RangeCovers(r, c, s) => RangeCovers(q, Append(c, l), s)
               /\ q.rows = r.rows + (IF s = l.session THEN 1 ELSE 0)
<1> DEFINE own == (s = l.session)
           k == Len(c)
           v == Append(c, l)
           q == RangeAfter(r, l, own, k)
<1>1. k \in Nat BY LenProperties
<1>B. own \in BOOLEAN OBVIOUS
<1>2. /\ v \in Seq(DataLine) /\ Len(v) = k + 1 /\ v[k + 1] = l
      /\ \A i \in 1..k : v[i] = c[i]
  BY AppendProperties
<1>3. l.session \in Nat /\ \A i \in 1..k : c[i].session \in Nat
  <2>1. \A i \in 1..k : c[i] \in DataLine BY ElementOfSeq
  <2> QED BY <2>1, SessionsAreNat DEF DataLine
<1>0. own <=> s = l.session OBVIOUS
<1>T. r.start \in Nat /\ r.end \in Nat /\ r.rows \in Nat BY DEF Extent
<1>4. /\ r.hash \in Seq(DataLine) /\ r.atEnd \in Seq(DataLine)
      /\ ~own /\ r.rows = 0 => q = r
      /\ ~own /\ r.rows > 0 => /\ q.start = r.start /\ q.end = r.end
                               /\ q.rows = r.rows /\ q.atEnd = r.atEnd
                               /\ q.hash = Append(r.hash, l)
      /\ own /\ r.rows > 0 => /\ q.start = r.start /\ q.end = k + 1
                              /\ q.rows = r.rows + 1
                              /\ q.hash = Append(r.hash, l)
                              /\ q.atEnd = Append(r.hash, l)
      /\ own /\ r.rows = 0 => /\ q.start = k /\ q.end = k + 1
                              /\ q.rows = 1 /\ q.hash = <<l>> /\ q.atEnd = <<l>>
  <2> HIDE DEF own, k
  <2>1. AfterLine(q, r, l, own, k) BY <1>1, <1>B, RangeFields
  <2>2. r.hash \in Seq(DataLine) /\ r.atEnd \in Seq(DataLine) BY DEF Extent
  <2> HIDE DEF q
  <2> QED BY <2>1, <2>2 DEF AfterLine
<1>5. Len(r.hash) \in Nat /\ Len(r.atEnd) \in Nat BY <1>4, LenProperties
<1> DEFINE a == Append(r.hash, l)
<1>6. /\ Len(a) = Len(r.hash) + 1 /\ a[Len(r.hash) + 1] = l
      /\ \A i \in 1..Len(r.hash) : a[i] = r.hash[i]
  BY <1>4, AppendProperties
<1> HIDE DEF q, v, a, k, own
<1>7. q.rows = r.rows + (IF own THEN 1 ELSE 0)
  <2>1. r.rows = 0 \/ r.rows > 0 BY <1>T
  <2> QED BY <1>4, <1>T, <2>1
<1>8. ASSUME r.rows > 0
      PROVE  /\ r.end = r.start + r.rows /\ r.end <= k
             /\ Len(r.hash) = k - r.start /\ Len(r.atEnd) = r.rows
             /\ 1 \in 1..Len(r.atEnd) /\ r.start + 1 \in 1..k
             /\ Len(a) = (k + 1) - r.start /\ r.start < k + 1 /\ r.rows + 1 > 0
             /\ \A i \in 1..Len(r.hash) : r.start + i \in 1..k
             /\ \A i \in 1..Len(r.atEnd) : r.start + i \in 1..k
             /\ r.start + (Len(r.hash) + 1) = k + 1
             /\ r.end = k => k + 1 = r.start + (r.rows + 1) /\ Len(r.hash) = r.rows
             /\ r.end # k => k \in 1..k /\ k > r.end
  <2>1. /\ r.end = r.start + r.rows /\ r.end <= k
        /\ Len(r.hash) = k - r.start /\ Len(r.atEnd) = r.rows
    BY <1>8 DEF RangeFits, k
  <2>2. Len(a) = Len(r.hash) + 1 BY <1>6
  <2>3. Places(r.start, r.end, r.rows, k, Len(r.hash), Len(r.atEnd), Len(a))
    BY <1>1, <1>T, <1>5, <1>8, <2>1, <2>2, RangePlaces, Zenon
  <2> QED BY <2>1, <2>3, Zenon DEF Places
<1>12. ASSUME r.rows > 0
       PROVE  /\ \A i \in 1..Len(r.hash) : r.hash[i] = c[r.start + i]
              /\ \A i \in 1..Len(r.atEnd) :
                     r.atEnd[i] = c[r.start + i] /\ r.atEnd[i].session = s
              /\ \A i \in 1..k : i > r.end => c[i].session > s
  BY <1>12 DEF RangeFits, k
<1>13. ASSUME r.rows > 0 PROVE s <= l.session
  <2>1. 1 \in 1..Len(r.atEnd) /\ r.start + 1 \in 1..k BY <1>8, <1>13
  <2>2. c[r.start + 1].session = s BY <1>12, <1>13, <2>1
  <2>3. c[r.start + 1].session <= l.session BY <2>1 DEF k
  <2> QED BY <2>2, <2>3
<1>14. ASSUME r.rows > 0 PROVE \A i \in 1..Len(a) : a[i] = v[r.start + i]
  <2> TAKE i \in 1..Len(a)
  <2>1. Len(a) = Len(r.hash) + 1 BY <1>6
  <2>2. i \in 1..Len(r.hash) \/ i = Len(r.hash) + 1 BY <1>5, <2>1
  <2>3. CASE i \in 1..Len(r.hash)
    <3>1. r.start + i \in 1..k BY <1>8, <1>14, <2>3
    <3>2. a[i] = r.hash[i] /\ r.hash[i] = c[r.start + i] BY <1>6, <1>12, <1>14, <2>3
    <3> QED BY <1>2, <3>1, <3>2
  <2>4. CASE i = Len(r.hash) + 1
    <3>1. r.start + i = k + 1 BY <1>8, <1>14, <2>4, Zenon
    <3> QED BY <1>2, <1>6, <2>4, <3>1
  <2> QED BY <2>2, <2>3, <2>4
<1>9. \A i \in 1..Len(v) : i \in 1..k \/ i = k + 1
  <2>1. Len(v) = k + 1 BY <1>2
  <2> QED BY <1>1, <2>1
<1>10. RangeFits(q, v, s)
  <2>1. CASE ~own /\ r.rows = 0
    <3>1. q.rows = 0 BY <1>4, <2>1
    <3> QED BY <3>1 DEF RangeFits
  <2>2. CASE ~own /\ r.rows > 0
    <3>1. /\ q.start = r.start /\ q.end = r.end /\ q.rows = r.rows /\ q.atEnd = r.atEnd
          /\ q.hash = a
      BY <1>4, <2>2 DEF a
    <3>2. l.session > s BY <1>0, <1>3, <1>13, <2>2
    <3>9. Len(v) = k + 1 BY <1>2
    <3>3. q.end <= Len(v) BY <1>1, <1>T, <1>8, <2>2, <3>1, <3>9
    <3>4. \A i \in 1..Len(q.atEnd) : q.atEnd[i] = v[q.start + i] /\ q.atEnd[i].session = s
      <4> TAKE i \in 1..Len(q.atEnd)
      <4>2. i \in 1..Len(r.atEnd) BY <3>1
      <4>1. r.start + i \in 1..k BY <1>8, <2>2, <4>2
      <4> QED BY <1>2, <1>12, <2>2, <3>1, <4>1, <4>2
    <3>5. \A i \in 1..Len(v) : i > q.end => v[i].session > s
      <4> TAKE i \in 1..Len(v)
      <4>1. CASE i \in 1..k BY <1>2, <1>12, <2>2, <3>1, <4>1
      <4>2. CASE i = k + 1 BY <1>2, <3>2, <4>2
      <4> QED BY <1>9, <4>1, <4>2
    <3>6. Len(q.hash) = Len(v) - q.start BY <1>8, <2>2, <3>1, <3>9
    <3>7. \A i \in 1..Len(q.hash) : q.hash[i] = v[q.start + i] BY <1>14, <2>2, <3>1
    <3>8. q.end = q.start + q.rows /\ Len(q.atEnd) = q.rows BY <1>8, <2>2, <3>1
    <3> QED BY <3>3, <3>4, <3>5, <3>6, <3>7, <3>8 DEF RangeFits
  <2>3. CASE own /\ r.rows > 0
    <3>1. /\ q.start = r.start /\ q.end = k + 1 /\ q.rows = r.rows + 1 /\ q.atEnd = a
          /\ q.hash = a
      BY <1>4, <2>3 DEF a
    <3>2. r.end = k
      <4> SUFFICES ASSUME r.end # k PROVE FALSE OBVIOUS
      <4>1. k \in 1..k /\ k > r.end BY <1>8, <2>3
      <4>2. c[k].session > s BY <1>12, <2>3, <4>1
      <4>3. c[k].session <= s
        <5>1. c[k].session <= l.session BY <4>1 DEF k
        <5> QED BY <1>0, <2>3, <5>1
      <4> QED BY <1>3, <4>1, <4>2, <4>3
    <3>9. Len(v) = k + 1 BY <1>2
    <3>3. q.end = q.start + q.rows BY <1>8, <2>3, <3>1, <3>2
    <3>4. q.end <= Len(v) /\ Len(q.atEnd) = q.rows
      <4>1. Len(a) = Len(r.hash) + 1 BY <1>6
      <4>2. Len(r.hash) = r.rows BY <1>8, <2>3, <3>2
      <4> QED BY <1>1, <3>1, <3>9, <4>1, <4>2
    <3>5. \A i \in 1..Len(q.atEnd) : q.atEnd[i] = v[q.start + i] /\ q.atEnd[i].session = s
      <4> TAKE i \in 1..Len(q.atEnd)
      <4>1. q.atEnd[i] = v[q.start + i] BY <1>14, <2>3, <3>1
      <4>2. CASE i = Len(r.hash) + 1 BY <1>0, <1>6, <2>3, <3>1, <4>1, <4>2
      <4>3. CASE i \in 1..Len(r.hash)
        <5>1. i \in 1..Len(r.atEnd) BY <1>8, <2>3, <3>2, <4>3
        <5>2. a[i] = r.hash[i] /\ r.hash[i] = c[r.start + i] BY <1>6, <1>12, <2>3, <4>3
        <5>3. r.atEnd[i] = c[r.start + i] /\ r.atEnd[i].session = s BY <1>12, <2>3, <5>1
        <5> QED BY <3>1, <4>1, <5>2, <5>3
      <4>4. Len(a) = Len(r.hash) + 1 BY <1>6
      <4> QED BY <1>5, <3>1, <4>2, <4>3, <4>4
    <3>6. \A i \in 1..Len(v) : i > q.end => v[i].session > s BY <1>1, <3>1, <3>9
    <3>7. Len(q.hash) = Len(v) - q.start BY <1>8, <2>3, <3>1, <3>9
    <3>8. \A i \in 1..Len(q.hash) : q.hash[i] = v[q.start + i] BY <1>14, <2>3, <3>1
    <3> QED BY <3>3, <3>4, <3>5, <3>6, <3>7, <3>8 DEF RangeFits
  <2>4. CASE own /\ r.rows = 0
    <3>1. /\ q.start = k /\ q.end = k + 1 /\ q.rows = 1 /\ q.hash = <<l>> /\ q.atEnd = <<l>>
      BY <1>4, <2>4
    <3>2. Len(<<l>>) = 1 /\ <<l>>[1] = l OBVIOUS
    <3>3. \A i \in 1..1 : <<l>>[i] = v[k + i] /\ <<l>>[i].session = s BY <1>0, <1>2, <2>4, <3>2
    <3>4. \A i \in 1..Len(v) : ~(i > k + 1) BY <1>1, <1>2
    <3>5. q.end = q.start + q.rows /\ q.end <= Len(v) /\ Len(q.hash) = Len(v) - q.start
          /\ Len(q.atEnd) = q.rows
      BY <1>1, <1>2, <3>1, <3>2
    <3> QED BY <3>1, <3>2, <3>3, <3>4, <3>5 DEF RangeFits
  <2> QED BY <1>T, <2>1, <2>2, <2>3, <2>4
<1>11. ASSUME RangeCovers(r, c, s) PROVE RangeCovers(q, v, s)
  <2> SUFFICES ASSUME NEW i \in 1..Len(v), v[i].session = s PROVE q.rows > 0 /\ q.start < i
    BY DEF RangeCovers
  <2>1. CASE i \in 1..k
    <3>1. r.rows > 0 /\ r.start < i BY <1>2, <1>11, <2>1 DEF RangeCovers, k
    <3>2. q.start = r.start BY <1>4, <3>1
    <3> QED BY <1>T, <1>7, <3>1, <3>2
  <2>2. CASE i = k + 1
    <3>1. own BY <1>0, <1>2, <2>2
    <3>2. CASE r.rows > 0
      <4>1. q.start = r.start /\ q.rows = r.rows + 1 BY <1>4, <3>1, <3>2
      <4>2. r.start < k + 1 /\ r.rows + 1 > 0 BY <1>8, <3>2
      <4> QED BY <2>2, <4>1, <4>2
    <3>3. CASE r.rows = 0 BY <1>1, <1>4, <2>2, <3>1, <3>3
    <3> QED BY <1>T, <3>2, <3>3
  <2> QED BY <1>9, <2>1, <2>2
<1> QED BY <1>7, <1>10, <1>11 DEF q, v, k, own

\* The thread takes a row off its batch: the first of those in flight.
LEMMA RowTaken ==
    ASSUME IInv, Order, writer.batch # <<>>, writer'.batch = Tail(writer.batch),
           UNCHANGED <<chan, pending, closed, prod, now, emitted>>, Message \in DataMsg
    PROVE  /\ Message \in InFlight /\ Message.line \in emitted
           /\ Message.line.session = Message.session
           /\ Follow(Message, Written(file[Message.file]))
           /\ \A x \in InFlight : x = Message \/ x \in InFlight'
           /\ \A x \in InFlight' : Ahead(W, Message, x)
           /\ Hand' = Hand /\ Passing
           /\ \A s : Awaits(W', s) => Awaits(W, s)
           /\ \A c \in CloseMsg : OnWay(W', c) => OnWay(W, c)
<1>1. W \in Seq(Msg) /\ W # <<>> /\ Message = Head(W) /\ W' = Tail(W) BY HeadTaken
<1>2. /\ OnWay(W, Message)
      /\ \A m : OnWay(W, m) <=> m = Message \/ OnWay(W', m)
      /\ \A m, n : Ahead(W', m, n) => Ahead(W, m, n)
      /\ \A n : OnWay(W', n) => Ahead(W, Message, n)
  BY <1>1, GainsTail
<1>3. Message \in InFlight BY <1>2 DEF InFlight
<1>4. /\ Message.line \in emitted /\ Message.line.session = Message.session
      /\ Follow(Message, Written(file[Message.file]))
  BY <1>3 DEF Order, UnderWay
<1>5. (\A x \in InFlight : x = Message \/ x \in InFlight') /\ InFlight' \subseteq InFlight
  BY <1>2 DEF InFlight
<1>6. \A x \in InFlight' : Ahead(W, Message, x) BY <1>2 DEF InFlight
<1>7. Hand' = Hand BY DEF Hand
<1>8. Passing
  <2>1. now <= now' BY NowIsNat
  <2> QED BY <1>2, <1>5, <1>7, <2>1 DEF Passing
<1>9. \A s : Awaits(W', s) => Awaits(W, s) BY <1>1, TakeHead
<1> QED BY <1>2, <1>3, <1>4, <1>5, <1>6, <1>7, <1>8, <1>9

\* The files after a row is put in the buffer of one.
RowPut(f, l) ==
    /\ Written(file'[f]) = Append(Written(file[f]), l)
    /\ file[f].synced <= file'[f].synced
    /\ \A i \in 1..Len(file[f].disk) : file'[f].disk[i] = file[f].disk[i]
    /\ \A h \in Files : h # f => file'[h] = file[h]

\* They are that.
LEMMA PutIsRowPut ==
    ASSUME IInv, NEW f \in Files, NEW l \in FileLine, NEW full \in BOOLEAN,
           file' = [file EXCEPT ![f] =
               [(IF full THEN FlushAll(file[f]) ELSE file[f]) EXCEPT !.buf = Append(@, l)]]
    PROVE  RowPut(f, l)
<1> DEFINE d == file[f]
           b == IF full THEN FlushAll(d) ELSE d
           g == [b EXCEPT !.buf = Append(@, l)]
<1>1. file \in [Files -> File] BY DEF IInv, Typed
<1>2. d \in File BY <1>1
<1>3. file'[f] = g /\ \A h \in Files : h # f => file'[h] = file[h] BY <1>1
<1> HIDE DEF d
<1>4. b \in File /\ Steady(d, b)
  <2>1. FlushAll(d) \in File /\ Steady(d, FlushAll(d)) BY <1>2, FlushAllSteady
  <2>2. Steady(d, d) BY <1>2, SteadySelf
  <2> QED BY <1>2, <2>1, <2>2
<1> HIDE DEF b
<1>5. /\ Written(g) = Append(Written(b), l) /\ g.disk = b.disk /\ g.synced = b.synced
  BY <1>4, PutWritten
<1> HIDE DEF g
<1>6. /\ Written(g) = Append(Written(d), l) /\ d.synced <= g.synced
      /\ \A i \in 1..Len(d.disk) : g.disk[i] = d.disk[i]
  BY <1>4, <1>5 DEF Steady
<1> QED BY <1>3, <1>6 DEF RowPut, d

\* So what was written stays, and what is new was the first in flight.
LEMMA RowPutAdds ==
    ASSUME IInv, LinesTyped, NEW f \in DataFiles, NEW m \in InFlight, RowPut(f, m.line),
           m.file = f, m.line \in DataLine, \A x \in InFlight' : Ahead(W, m, x),
           opened' = opened \cup {f}, file'[f] \in File
    PROVE  /\ Adding /\ SyncKept /\ LinesTyped'
           /\ \A h \in DataFiles : \A x : IsWritten(x, h) => IsWritten(x, h)'
           /\ IsWritten(m.line, f)'
<1> DEFINE c == Written(file[f])
           k == Len(c)
           l == m.line
           v == Written(file'[f])
<1>1. \A h \in DataFiles : /\ h \in Files /\ file[h] \in File /\ file[h].synced \in Nat
                            /\ file[h].synced <= Len(file[h].disk)
                            /\ Len(file[h].disk) \in Nat
  <2> TAKE h \in DataFiles
  <2>1. h \in Files BY DEF Files
  <2>2. file[h] \in File BY <2>1 DEF IInv, Typed
  <2> QED BY <2>1, <2>2, WrittenType DEF IInv, Bounded, File
<1>2. c \in Seq(DataLine) /\ v = Append(c, l) /\ l \in DataLine BY DEF LinesTyped, RowPut
<1>3. k \in Nat BY <1>2, LenProperties
<1>4. /\ v \in Seq(DataLine) /\ Len(v) = k + 1 /\ v[k + 1] = l
      /\ \A i \in 1..k : v[i] = c[i]
  <2> HIDE DEF c, l
  <2> QED BY <1>2, AppendProperties DEF k
<1>5. \A h \in DataFiles : h # f => file'[h] = file[h] BY <1>1 DEF RowPut
<1> HIDE DEF c, v, k
<1>6. Adding
  <2> SUFFICES ASSUME NEW h \in DataFiles, NEW i \in 1..Len(Written(file'[h]))
               PROVE  WasThere(h, i) \/ WasFirst(h, i)
    BY DEF Adding
  <2>1. CASE h # f
    <3>1. Written(file'[h]) = Written(file[h]) BY <1>5, <2>1
    <3>2. Len(Written(file[h])) \in Nat BY <1>1, WrittenType, LenProperties
    <3> QED BY <3>1, <3>2 DEF WasThere
  <2>2. CASE h = f /\ i \in 1..k BY <1>3, <1>4, <2>2 DEF WasThere, c, v, k
  <2>3. CASE h = f /\ i = k + 1
    <3>1. m.line = Written(file'[h])[i] BY <1>4, <2>3 DEF v
    <3> QED BY <2>3, <3>1 DEF WasFirst
  <2>4. h = f => i \in 1..k \/ i = k + 1
    <3>1. Len(v) = k + 1 BY <1>4
    <3> QED BY <1>3, <3>1 DEF v
  <2> QED BY <2>1, <2>2, <2>3, <2>4
<1>7. SyncKept
  <2> SUFFICES ASSUME NEW h \in DataFiles
               PROVE  /\ file[h].synced <= file'[h].synced
                      /\ \A i \in 1..file[h].synced : file'[h].disk[i] = file[h].disk[i]
    BY DEF SyncKept
  <2>1. \A i \in 1..file[h].synced : i \in 1..Len(file[h].disk) BY <1>1
  <2>2. CASE h # f BY <1>1, <1>5, <2>2
  <2>3. CASE h = f
    <3>1. /\ file[f].synced <= file'[f].synced
          /\ \A i \in 1..Len(file[f].disk) : file'[f].disk[i] = file[f].disk[i]
      BY DEF RowPut
    <3> QED BY <2>1, <2>3, <3>1
  <2> QED BY <2>2, <2>3
<1>8. LinesTyped'
  <2> SUFFICES ASSUME NEW h \in DataFiles
               PROVE  /\ Written(file'[h]) \in Seq(DataLine)
                      /\ file'[h].buf # <<>> => h \in opened'
    BY DEF LinesTyped
  <2>1. CASE h # f BY <1>5, <2>1 DEF LinesTyped
  <2>2. CASE h = f BY <1>4, <2>2 DEF v
  <2> QED BY <2>1, <2>2
<1>9. \A h \in DataFiles : \A x : IsWritten(x, h) => IsWritten(x, h)'
  <2> SUFFICES ASSUME NEW h \in DataFiles, NEW x, IsWritten(x, h) PROVE IsWritten(x, h)'
    OBVIOUS
  <2>1. CASE h # f BY <1>5, <2>1 DEF IsWritten
  <2>2. CASE h = f
    <3>1. PICK i \in 1..k : c[i] = x BY <2>2 DEF IsWritten, c, k
    <3>2. i \in 1..Len(v) /\ v[i] = x BY <1>3, <1>4, <3>1
    <3> QED BY <2>2, <3>2 DEF IsWritten, v
  <2> QED BY <2>1, <2>2
<1>10. IsWritten(m.line, f)'
  <2>1. k + 1 \in 1..Len(v) /\ v[k + 1] = m.line BY <1>3, <1>4
  <2> QED BY <2>1 DEF IsWritten, v
<1> QED BY <1>6, <1>7, <1>8, <1>9, <1>10

\* The ranges that are open go on, and the row counts as written.
LEMMA RowPutRanges ==
    ASSUME SInv, IInv', NEW f \in DataFiles, NEW l \in DataLine, RowPut(f, l),
           \A i \in 1..Len(Written(file[f])) : Written(file[f])[i].session <= l.session,
           ranges' = [s \in Sessions |->
               [ranges[s] EXCEPT ![f] =
                   RangeAfter(@, l, s = l.session, Len(Written(file[f])))]],
           \A s \in Sessions :
               tally'[s].written = tally[s].written + (IF s = l.session THEN 1 ELSE 0),
           \A s \in Sessions : Mine(s)' => Mine(s)
    PROVE  RangesFit' /\ RangesCover' /\ WrittenCounted'
<1> DEFINE c == Written(file[f])
           q(s) == RangeAfter(ranges[s][f], l, s = l.session, Len(c))
<1>1. IInv /\ RangesFit /\ RangesCover /\ WrittenCounted /\ LinesTyped BY DEF SInv, Order
<1>2. c \in Seq(DataLine) /\ Written(file'[f]) = Append(c, l)
  BY <1>1 DEF LinesTyped, RowPut
<1>3. \A h \in DataFiles : h # f => Written(file'[h]) = Written(file[h])
  <2> TAKE h \in DataFiles
  <2>1. h \in Files BY DEF Files
  <2> QED BY <2>1 DEF RowPut
<1>4. \A s \in Sessions : ranges[s] \in [DataFiles -> Extent] BY <1>1 DEF IInv, Typed
<1>5. \A s \in Sessions : ranges'[s] = [ranges[s] EXCEPT ![f] = q(s)] BY <1>4
<1>6. \A s \in Sessions : \A h \in DataFiles :
          ranges'[s][h] = IF h = f THEN q(s) ELSE ranges[s][h]
  <2> HIDE DEF q
  <2> QED BY <1>4, <1>5
<1>7. ASSUME NEW s \in Sessions
      PROVE  /\ RangeFits(q(s), Append(c, l), s)
             /\ RangeCovers(ranges[s][f], c, s) => RangeCovers(q(s), Append(c, l), s)
             /\ q(s).rows = ranges[s][f].rows + (IF s = l.session THEN 1 ELSE 0)
  <2>1. ranges[s][f] \in Extent /\ s \in Nat BY <1>4, SessionsAreNat
  <2>2. RangeFits(ranges[s][f], c, s) BY <1>1 DEF RangesFit
  <2>3. \A i \in 1..Len(c) : c[i].session <= l.session OBVIOUS
  <2> HIDE DEF c
  <2> QED BY <1>2, <2>1, <2>2, <2>3, RangeGrows
<1> HIDE DEF q, c
<1>8. RangesFit'
  <2> SUFFICES ASSUME NEW s \in Sessions, NEW h \in DataFiles
               PROVE  RangeFits(ranges'[s][h], Written(file'[h]), s)
    BY DEF RangesFit
  <2>1. CASE h = f
    <3>1. ranges'[s][h] = q(s) BY <1>6, <2>1
    <3>2. Written(file'[h]) = Append(c, l) BY <1>2, <2>1
    <3>3. RangeFits(q(s), Append(c, l), s) BY <1>7
    <3> QED BY <3>1, <3>2, <3>3, Zenon
  <2>2. CASE h # f BY <1>1, <1>3, <1>6, <2>2 DEF RangesFit
  <2> QED BY <2>1, <2>2
<1>9. RangesCover'
  <2> SUFFICES ASSUME NEW s \in Sessions, Mine(s)', NEW h \in DataFiles
               PROVE  RangeCovers(ranges'[s][h], Written(file'[h]), s)
    BY DEF RangesCover
  <2>1. RangeCovers(ranges[s][h], Written(file[h]), s) BY <1>1 DEF RangesCover
  <2>2. CASE h = f
    <3>1. ranges'[s][h] = q(s) BY <1>6, <2>2
    <3>2. Written(file'[h]) = Append(c, l) BY <1>2, <2>2
    <3>3. RangeCovers(ranges[s][f], c, s) BY <2>1, <2>2, Zenon DEF c
    <3>4. RangeCovers(q(s), Append(c, l), s) BY <1>7, <3>3
    <3> QED BY <3>1, <3>2, <3>4, Zenon
  <2>3. CASE h # f BY <1>3, <1>6, <2>1, <2>3
  <2> QED BY <2>2, <2>3
<1>10. WrittenCounted'
  <2> SUFFICES ASSUME NEW s \in Sessions
               PROVE  tally'[s].written = Total(RowsIn(ranges'[s]), DataFiles)
    BY DEF WrittenCounted
  <2> DEFINE u == RowsIn(ranges[s])
             v == RowsIn(ranges'[s])
             one == IF s = l.session THEN 1 ELSE 0
  <2>1. \A h \in DataFiles : u[h] \in Int /\ v[h] = IF h = f THEN u[h] + one ELSE u[h]
    <3> TAKE h \in DataFiles
    <3>1. ranges[s][h] \in Extent BY <1>4
    <3>2. ranges[s][h].rows \in Int BY <3>1 DEF Extent
    <3>3. u[h] = ranges[s][h].rows /\ v[h] = ranges'[s][h].rows BY DEF RowsIn
    <3>4. CASE h = f BY <1>6, <1>7, <3>2, <3>3, <3>4
    <3>5. CASE h # f BY <1>6, <3>2, <3>3, <3>5
    <3> QED BY <3>4, <3>5
  <2>2. one \in Int OBVIOUS
  <2>3. tally[s].written = Total(u, DataFiles) BY <1>1 DEF WrittenCounted
  <2>4. tally'[s].written = tally[s].written + one OBVIOUS
  <2> HIDE DEF u, v, one
  <2>5. \A h \in DataFiles : u[h] \in Int /\ v[h] \in Int BY <2>1, <2>2
  <2>6. \A h \in DataFiles : h # f => v[h] = u[h] BY <2>1
  <2>7. v[f] - u[f] = one BY <2>1, <2>2
  <2>8. Total(v, DataFiles) = Total(u, DataFiles) + (v[f] - u[f])
    <3> DEFINE S == DataFiles
    <3>1. IsFiniteSet(S) /\ f \in S BY DataFilesFinite
    <3>2. \A h \in S : u[h] \in Int /\ v[h] \in Int BY <2>5
    <3>3. \A h \in S : h # f => v[h] = u[h] BY <2>6
    <3> HIDE DEF S
    <3>4. Total(v, S) = Total(u, S) + (v[f] - u[f]) BY <3>1, <3>2, <3>3, TotalChange
    <3> QED BY <3>4 DEF S
  <2> QED BY <2>3, <2>4, <2>7, <2>8 DEF v
<1> QED BY <1>8, <1>9, <1>10

\* A row is written: it is where it was under way to.
LEMMA WriteRowSettles ==
    ASSUME SInv, IInv', NEW f \in Files, f # MarkerFile, NEW full \in BOOLEAN,
           WriteLine(f, full)
    PROVE  SInv'
<1>0. PICK m : m = Message OBVIOUS
<1> DEFINE l == m.line
           start == Len(file[f].disk) + Len(file[f].buf)
           x == writer.touched \cup {f}
           y == writer.wrote + (IF f # MarkerFile THEN 1 ELSE 0)
<1>1. /\ StartMessage(f) /\ opened' = opened \cup {f}
      /\ file' = [file EXCEPT ![f] =
             [(IF full THEN FlushAll(file[f]) ELSE file[f]) EXCEPT !.buf = Append(@, l)]]
      /\ writer' = [Consumed EXCEPT !.touched = @ \cup {f},
                        !.wrote = @ + (IF f # MarkerFile THEN 1 ELSE 0)]
      /\ ranges' = [s \in Sessions |-> [ranges[s] EXCEPT ![f] =
                        RangeAfter(@, l, s = m.session, start)]]
      /\ tally' = [tally EXCEPT ![m.session].written = @ + 1]
      /\ UNCHANGED <<producer, chan>>
  BY <1>0 DEF WriteLine
<1>2. IInv /\ Order /\ Timely /\ AllSettled /\ LinesTyped BY DEF SInv, Order
<1>3. writer'.batch = Tail(writer.batch) /\ writer'.pc = "msgs"
  <2>1. writer' = [Consumed EXCEPT !.touched = x, !.wrote = y]
    BY <1>1, <1>2 DEF Consumed, IInv, Typed, Thread
  <2>2. writer.pc = "msgs" BY <1>1 DEF StartMessage
  <2> HIDE DEF x, y
  <2> QED BY <1>2, <2>1, <2>2, LineConsumed
<1>4. UNCHANGED <<now, begun, account, prod, closed, pending, emitted, chan>>
  BY <1>1 DEF producer, clock
<1>5. /\ m \in DataMsg /\ f \in DataFiles /\ l \in DataLine /\ l \in FileLine
      /\ m.session \in Sessions /\ m.file = f /\ writer.batch # <<>>
  BY <1>0, <1>1, <1>2, FirstLine DEF StartMessage
<1>6. /\ m \in InFlight /\ l \in emitted /\ l.session = m.session
      /\ Follow(m, Written(file[m.file]))
      /\ \A c \in InFlight : c = m \/ c \in InFlight'
      /\ \A c \in InFlight' : Ahead(W, m, c)
      /\ Hand' = Hand /\ Passing
      /\ \A s : Awaits(W', s) => Awaits(W, s)
      /\ \A c \in CloseMsg : OnWay(W', c) => OnWay(W, c)
  BY <1>0, <1>2, <1>3, <1>4, <1>5, RowTaken
<1>7. RowPut(f, l) BY <1>1, <1>2, <1>5, <1>0, PutIsRowPut
<1>8. file[f] \in File /\ file'[f] \in File BY <1>2 DEF IInv, Typed
<1>9. start = Len(Written(file[f])) BY <1>8, WrittenType
<1> HIDE DEF start
<1>10. /\ Adding /\ SyncKept /\ LinesTyped'
       /\ \A h \in DataFiles : \A r : IsWritten(r, h) => IsWritten(r, h)'
       /\ IsWritten(l, f)'
  <2>1. l = m.line /\ l \in DataLine /\ m \in InFlight /\ m.file = f BY <1>5, <1>6
  <2>2. \A c \in InFlight' : Ahead(W, m, c) BY <1>6
  <2>3. IInv /\ LinesTyped /\ opened' = opened \cup {f} BY <1>1, <1>2
  <2>4. RowPut(f, m.line) BY <1>7
  <2> HIDE DEF l
  <2>5. RowPut(f, l) BY <1>7
  <2> QED BY <1>5, <1>8, <2>1, <2>2, <2>3, <2>4, RowPutAdds
<1>11. \A s \in Sessions : Mine(s)' => Mine(s) BY <1>4, <1>6 DEF Mine
<1>12. \A s \in Sessions :
           /\ tally'[s].written = tally[s].written + (IF s = l.session THEN 1 ELSE 0)
           /\ tally'[s].dropped = tally[s].dropped
           /\ tally'[s].errors = tally[s].errors
  <2> DEFINE s0 == m.session
  <2>1. s0 \in Sessions /\ tally' = [tally EXCEPT ![s0].written = @ + 1] /\ l.session = s0
    BY <1>1, <1>5, <1>6
  <2>2. tally \in [Sessions -> Tally] BY <1>2 DEF IInv, Typed
  <2>3. \A s \in Sessions :
            tally'[s] = IF s = s0 THEN [tally[s] EXCEPT !.written = @ + 1] ELSE tally[s]
    BY <2>1, <2>2
  <2>4. \A s \in Sessions : tally[s] \in Tally /\ tally[s].written \in Nat
    BY <2>2 DEF Tally
  <2> HIDE DEF s0
  <2>5. \A s \in Sessions :
            LET t == [tally[s] EXCEPT !.written = @ + 1]
            IN  /\ t.written = tally[s].written + 1 /\ t.dropped = tally[s].dropped
                /\ t.errors = tally[s].errors
    BY <2>4 DEF Tally
  <2> TAKE s \in Sessions
  <2>6. CASE s = s0
    <3>1. tally'[s] = [tally[s] EXCEPT !.written = @ + 1] BY <2>3, <2>6
    <3>2. s = l.session BY <2>1, <2>6
    <3>3. /\ tally'[s].written = tally[s].written + 1
          /\ tally'[s].dropped = tally[s].dropped /\ tally'[s].errors = tally[s].errors
      BY <2>5, <3>1
    <3> QED BY <3>2, <3>3
  <2>7. CASE s # s0
    <3>1. tally'[s] = tally[s] /\ s # l.session BY <2>1, <2>3, <2>7
    <3>2. tally[s].written \in Nat BY <2>4
    <3> QED BY <3>1, <3>2
  <2> QED BY <2>6, <2>7
<1>13. RangesFit' /\ RangesCover' /\ WrittenCounted'
  <2>1. ranges' = [s \in Sessions |-> [ranges[s] EXCEPT ![f] =
                       RangeAfter(@, l, s = l.session, Len(Written(file[f])))]]
    BY <1>1, <1>6, <1>9
  <2>2. \A i \in 1..Len(Written(file[f])) : Written(file[f])[i].session <= l.session
    BY <1>5, <1>6 DEF Follow
  <2> HIDE DEF l
  <2> QED BY <1>5, <1>7, <1>11, <1>12, <2>1, <2>2, RowPutRanges
<1>14. Tracks
  <2>1. ASSUME NEW s \in Sessions, Mine(s)', Unlost(tally'[s])
        PROVE  Mine(s) /\ Unlost(tally[s])
    BY <1>11, <1>12, <2>1 DEF Unlost
  <2>2. ASSUME NEW c \in InFlight \cup Hand PROVE Kept(c.line)'
    <3>1. CASE c = m
      <4>1. c.line = l BY <3>1
      <4>2. IsWritten(l, f)' /\ f \in DataFiles BY <1>5, <1>10
      <4> HIDE DEF l
      <4>3. Kept(l)' BY <4>2 DEF Kept
      <4> QED BY <4>1, <4>3
    <3>2. CASE c # m
      <4>1. c \in InFlight' \cup Hand' BY <1>6, <3>2
      <4> QED BY <4>1 DEF Kept
    <3> QED BY <3>1, <3>2
  <2>3. emitted' = emitted BY <1>4
  <2> QED BY <1>10, <2>1, <2>2, <2>3 DEF Tracks
<1>15. Timely'
  <2>1. now \in Nat /\ now <= now' BY <1>2, <1>4, NowIsNat
  <2> QED BY <1>2, <1>4, <1>6, <2>1, TimelyKept
<1>16. Good \subseteq Good' => AllSettled'
  <2>1. MarkerFile \in Files /\ file'[MarkerFile] = file[MarkerFile]
    BY <1>7 DEF RowPut, Files
  <2>2. file[MarkerFile] \in File BY <1>2, <2>1 DEF IInv, Typed
  <2>3. Steady(file[MarkerFile], file'[MarkerFile]) BY <2>1, <2>2, SteadySelf
  <2> QED BY <1>2, <1>3, <2>3, MarkersStay
<1> QED BY <1>6, <1>10, <1>13, <1>14, <1>15, <1>16, MoveKeeps

\* A row is lost: the tally of its session says so.
LEMMA RowFailsSettles ==
    ASSUME SInv, IInv', NEW f \in Files, f # MarkerFile, NEW n \in 0..Len(file[f].buf),
           LineFails(f, n)
    PROVE  SInv'
<1> DEFINE m == Message
           s0 == m.session
           g == Flush(file[f], n)
<1>1. /\ StartMessage(f)
      /\ file' = [file EXCEPT ![f] = g] \/ file' = file
      /\ writer' = Consumed
      /\ tally' = [tally EXCEPT ![m.session].errors = @ + 1]
      /\ UNCHANGED <<producer, chan, opened, ranges>>
  BY DEF LineFails
<1>2. /\ IInv /\ Order /\ Timely /\ AllSettled /\ LinesTyped
      /\ RangesFit /\ RangesCover /\ WrittenCounted
  BY DEF SInv, Order
<1>3. writer'.batch = Tail(writer.batch) /\ writer'.pc = "msgs"
  BY <1>1, <1>2, LineConsumed DEF StartMessage
<1>4. UNCHANGED <<now, begun, account, prod, closed, pending, emitted, chan>>
  BY <1>1 DEF producer, clock
<1>5. /\ m \in DataMsg /\ f \in DataFiles /\ s0 \in Sessions /\ writer.batch # <<>>
  BY <1>1, <1>2, FirstLine DEF StartMessage
<1>6. /\ \A c \in InFlight : c = m \/ c \in InFlight'
      /\ Hand' = Hand /\ Passing
      /\ \A s : Awaits(W', s) => Awaits(W, s)
      /\ \A c \in CloseMsg : OnWay(W', c) => OnWay(W, c)
  BY <1>2, <1>3, <1>4, <1>5, RowTaken
<1>7. \A h \in Files : Steady(file[h], file'[h])
  <2> TAKE h \in Files
  <2>1. file \in [Files -> File] BY <1>2 DEF IInv, Typed
  <2>2. Steady(file[h], file[h]) BY <2>1, SteadySelf
  <2>3. Steady(file[f], g) BY <2>1, FlushSteady
  <2> HIDE DEF g
  <2>4. file'[h] = file[h] \/ (h = f /\ file'[h] = g) BY <1>1, <2>1
  <2> QED BY <2>2, <2>3, <2>4
<1> HIDE DEF m, s0, g
<1>8. CalmFiles /\ Steady(file[MarkerFile], file'[MarkerFile])
  BY <1>7 DEF CalmFiles, Files
<1>9. /\ \A h \in DataFiles : Written(file'[h]) = Written(file[h])
      /\ Adding /\ SyncKept /\ LinesTyped'
  BY <1>1, <1>2, <1>8, SteadyFiles
<1>10. \A s \in Sessions : Mine(s)' => Mine(s) BY <1>4, <1>6 DEF Mine
<1>11. \A s \in Sessions :
           /\ tally'[s].written = tally[s].written
           /\ s # s0 => tally'[s] = tally[s]
           /\ s = s0 => ~Unlost(tally'[s])
  <2>1. tally \in [Sessions -> Tally] BY <1>2 DEF IInv, Typed
  <2> DEFINE t == tally[s0]
             e == t.errors + 1
             v == [t EXCEPT !.errors = e]
  <2>2. t \in Tally BY <1>5, <2>1
  <2>3. t.errors \in Nat BY <2>2 DEF Tally
  <2>4. e # 0 BY <2>3
  <2>5. tally'[s0] = v /\ \A s \in Sessions : s # s0 => tally'[s] = tally[s]
    BY <1>1, <1>5, <2>1 DEF s0
  <2>6. v.errors = e /\ v.written = t.written
    <3> HIDE DEF t, e
    <3> QED BY <2>2 DEF Tally
  <2> HIDE DEF v, e
  <2> QED BY <2>4, <2>5, <2>6 DEF Unlost
<1>12. RangesFit' /\ RangesCover' /\ WrittenCounted'
  <2>1. \A s \in Sessions : SameExtent(s) BY <1>1, <1>10, <1>11 DEF SameExtent
  <2> QED BY <1>2, <1>9, <2>1, ExtentsKept
<1>13. Tracks
  <2>1. \A h \in DataFiles : \A r : IsWritten(r, h) => IsWritten(r, h)'
    BY <1>9 DEF IsWritten
  <2>2. ASSUME NEW s \in Sessions, Mine(s)', Unlost(tally'[s])
        PROVE  Mine(s) /\ Unlost(tally[s]) /\ s # s0
    BY <1>10, <1>11, <2>2
  <2>3. ASSUME NEW c \in InFlight \cup Hand, c.session # s0 PROVE Kept(c.line)'
    <3>1. c \in InFlight' \cup Hand' BY <1>6, <2>3 DEF s0
    <3> QED BY <3>1 DEF Kept
  <2>4. emitted' = emitted BY <1>4
  <2> QED BY <2>1, <2>2, <2>3, <2>4 DEF Tracks
<1>14. Timely'
  <2>1. now \in Nat /\ now <= now' BY <1>2, <1>4, NowIsNat
  <2> QED BY <1>2, <1>4, <1>6, <2>1, TimelyKept
<1>15. Good \subseteq Good' => AllSettled' BY <1>2, <1>3, <1>8, MarkersStay
<1> QED BY <1>6, <1>9, <1>12, <1>13, <1>14, <1>15, MoveKeeps

\* When a session's tally balances, none of its rows is under way.
LEMMA NoneUnderWay ==
    ASSUME IInv, NEW s \in Sessions, Awaits(W, s), Balances(tally[s])
    PROVE  \A x \in InFlight \cup Hand : x.session # s
<1>1. tally[s] \in Tally BY DEF IInv, Typed
<1>2. W \in Seq(Msg) BY TypedQueue DEF IInv, Fits
<1>3. Count(W, DataOf(s)) \in Nat /\ InHand(DataOf(s)) \in Nat
  <2>1. Count(W, DataOf(s)) \in Nat BY <1>2, CountType
  <2> QED BY <2>1, HandType
<1>4. tally[s].attempted = tally[s].written + tally[s].dropped + tally[s].errors
                               + Count(W, DataOf(s)) + InHand(DataOf(s))
  BY DEF IInv, TallyAccounts
<1>5. tally[s].attempted = tally[s].written + tally[s].dropped + tally[s].errors
  BY DEF Balances
<1>6. Count(W, DataOf(s)) = 0 /\ InHand(DataOf(s)) = 0 BY <1>1, <1>3, <1>4, <1>5 DEF Tally
<1>7. \A i \in DOMAIN W : W[i] \notin DataOf(s) BY <1>2, <1>6, CountType
<1>8. \A x \in InFlight : x \notin DataOf(s) BY <1>7 DEF InFlight, OnWay
<1>9. \A x \in Hand : x \notin DataOf(s) BY <1>6 DEF Hand, InHand
<1>10. \A x \in InFlight \cup Hand : x \in DataMsg BY UnderWayType
<1> QED BY <1>8, <1>9, <1>10 DEF DataOf

\* The account of a session that closes clean is complete.
CloseClean(m) ==
    /\ Balances(tally[m.session]) /\ NoLoss(tally[m.session])
    /\ m.by = "session_boundary" /\ m.start # "mid_session"
\* It is all of this process, nothing of it was lost, and it is over.
LEMMA CloseIsMine ==
    ASSUME SInv, NEW m \in CloseMsg, OnWay(W, m), Awaits(W, m.session), CloseClean(m)
    PROVE  Mine(m.session) /\ Unlost(tally[m.session]) /\ m.session < now
<1> DEFINE s == m.session
<1>1. IInv /\ Timely BY DEF SInv
<1>2. s \in Sessions BY DEF CloseMsg
<1>3. InTime(m.start, s) /\ s < now BY <1>1 DEF Timely, CloseClean
<1>4. begun # None /\ begun < s BY <1>3 DEF InTime, CloseClean
<1>5. tally[s] \in Tally BY <1>1, <1>2 DEF IInv, Typed
<1>6. tally[s].dropped + tally[s].errors + tally[s].spans + tally[s].flushErrors
          + tally[s].late = 0
  BY DEF CloseClean, NoLoss
<1> HIDE DEF s
<1>7. Unlost(tally[s])
  <2>1. /\ tally[s].dropped \in Nat /\ tally[s].errors \in Nat /\ tally[s].spans \in Nat
        /\ tally[s].flushErrors \in Nat /\ tally[s].late \in Nat
    BY <1>5 DEF Tally
  <2>2. tally[s].dropped = 0 /\ tally[s].errors = 0
    <3> DEFINE a == tally[s].dropped
               b == tally[s].errors
               c == tally[s].spans
               d == tally[s].flushErrors
               e == tally[s].late
    <3>1. a \in Nat /\ b \in Nat /\ c \in Nat /\ d \in Nat /\ e \in Nat BY <2>1
    <3>2. a + b + c + d + e = 0 BY <1>6
    <3> HIDE DEF a, b, c, d, e
    <3>3. a = 0 /\ b = 0 BY <3>1, <3>2
    <3> QED BY <3>3 DEF a, b
  <2> QED BY <2>2 DEF Unlost
<1>8. Mine(s) BY <1>4 DEF Mine, s
<1> QED BY <1>3, <1>7, <1>8 DEF s

\* A range on disk and synced is one that a marker can promise.
LEMMA RangeCloses ==
    ASSUME NEW f \in DataFiles, NEW s \in Nat, NEW r \in Extent, NEW c,
           RangeFits(r, c, s), RangeCovers(r, c, s),
           Written(file'[f]) = c, r.rows > 0 => file'[f].disk = c /\ file'[f].synced = Len(c),
           Len(c) \in Nat
    PROVE  LET q == [r EXCEPT !.hash = r.atEnd, !.atEnd = <<>>]
           IN  /\ RangeSettled(q, f, s)' /\ LinesInside(q, f, s)' /\ q.rows = r.rows
<1> DEFINE h == r.atEnd
           q == [r EXCEPT !.hash = h, !.atEnd = <<>>]
<1>1. /\ r.start \in Nat /\ r.end \in Nat /\ r.rows \in Nat /\ h \in Seq(DataLine)
      /\ q.start = r.start /\ q.end = r.end /\ q.rows = r.rows /\ q.hash = h
  BY DEF Extent
<1> HIDE DEF q
<1>2. RangeSettled(q, f, s)'
  <2> SUFFICES ASSUME r.rows > 0
               PROVE  /\ r.end = r.start + r.rows /\ r.end <= file'[f].synced
                      /\ Len(h) = r.rows
                      /\ \A i \in 1..Len(h) :
                             h[i] = file'[f].disk[r.start + i] /\ h[i].session = s
    BY <1>1 DEF RangeSettled
  <2> QED BY DEF RangeFits
<1>3. LinesInside(q, f, s)'
  <2> SUFFICES ASSUME NEW i \in 1..Len(c), c[i].session = s
               PROVE  r.rows > 0 /\ r.start < i /\ i <= r.end
    BY <1>1 DEF LinesInside
  <2>1. r.rows > 0 /\ r.start < i BY DEF RangeCovers
  <2>2. i > r.end => c[i].session > s BY <2>1 DEF RangeFits
  <2>3. i <= r.end BY <1>1, <2>2
  <2> QED BY <2>1, <2>3
<1> QED BY <1>1, <1>2, <1>3 DEF q

\* The marker of a session that closes clean can be relied on.
LEMMA MarkerSettles ==
    ASSUME SInv, IInv', NEW m \in CloseMsg, OnWay(W, m), Awaits(W, m.session), CloseClean(m),
           now' = now, emitted' = emitted, InFlight' = InFlight, Hand' = Hand,
           \A f \in DataFiles :
               /\ Written(file'[f]) = Written(file[f])
               /\ ranges[m.session][f].rows > 0 =>
                      /\ file'[f].disk = Written(file[f])
                      /\ file'[f].synced = Len(Written(file[f])),
           NEW k \in Marker, k.session = m.session, k.tally = tally[m.session],
           k.ranges = CloseRanges(m.session)
    PROVE  Settled(k)'
<1> DEFINE s == m.session
<1>1. IInv /\ Order /\ RangesFit /\ RangesCover /\ WrittenCounted /\ Accounted BY DEF SInv
<1>2. s \in Sessions /\ s \in Nat BY SessionsAreNat DEF CloseMsg
<1>3. Mine(s) /\ Unlost(tally[s]) /\ s < now BY CloseIsMine
<1>4. \A x \in InFlight \cup Hand : x.session # s
  <2>1. Balances(tally[s]) BY DEF CloseClean
  <2> HIDE DEF s
  <2> QED BY <1>1, <1>2, <2>1, NoneUnderWay DEF s
<1>5. ranges[s] \in [DataFiles -> Extent] BY <1>1, <1>2 DEF IInv, Typed
<1> HIDE DEF s
<1>6. ASSUME NEW f \in DataFiles
      PROVE  /\ RangeSettled(k.ranges[f], f, s)' /\ LinesInside(k.ranges[f], f, s)'
             /\ k.ranges[f].rows = ranges[s][f].rows
  <2> DEFINE r == ranges[s][f]
             c == Written(file[f])
             q == [r EXCEPT !.hash = r.atEnd, !.atEnd = <<>>]
  <2>1. r \in Extent BY <1>5
  <2>2. RangeFits(r, c, s) BY <1>1, <1>2 DEF RangesFit
  <2>3. RangeCovers(r, c, s) BY <1>1, <1>2, <1>3 DEF RangesCover
  <2>4. Written(file'[f]) = c /\ (r.rows > 0 => file'[f].disk = c /\ file'[f].synced = Len(c))
    BY DEF s
  <2>5. Len(c) \in Nat
    <3>1. c \in Seq(DataLine) BY <1>1 DEF Order, LinesTyped
    <3> QED BY <3>1, LenProperties
  <2>6. k.ranges[f] = q BY DEF CloseRanges, RangeHash, s
  <2>7. PICK r0, c0 : r0 = r /\ c0 = c OBVIOUS
  <2> DEFINE q0 == [r0 EXCEPT !.hash = r0.atEnd, !.atEnd = <<>>]
  <2>8. k.ranges[f] = q0 BY <2>6, <2>7
  <2> HIDE DEF r, c, q
  <2>9. /\ r0 \in Extent /\ RangeFits(r0, c0, s) /\ RangeCovers(r0, c0, s)
        /\ Written(file'[f]) = c0 /\ Len(c0) \in Nat
        /\ r0.rows > 0 => file'[f].disk = c0 /\ file'[f].synced = Len(c0)
    BY <2>1, <2>2, <2>3, <2>4, <2>5, <2>7
  <2>10. RangeSettled(q0, f, s)' /\ LinesInside(q0, f, s)' /\ q0.rows = r0.rows
    BY <1>2, <2>9, RangeCloses
  <2> HIDE DEF q0
  <2> QED BY <2>7, <2>8, <2>10 DEF r
<1>7. k.tally.written = Total(RowsIn(k.ranges), DataFiles)
  <2>1. RowsIn(k.ranges) = RowsIn(ranges[s]) BY <1>6 DEF RowsIn
  <2>2. tally[s].written = Total(RowsIn(ranges[s]), DataFiles)
    BY <1>1, <1>2 DEF WrittenCounted
  <2> QED BY <2>1, <2>2 DEF s
<1>8. \A r \in emitted' : r.session = s => OnSynced(r)'
  <2> SUFFICES ASSUME NEW r \in emitted, r.session = s PROVE OnSynced(r)' OBVIOUS
  <2>1. Kept(r) BY <1>1, <1>2, <1>3 DEF Accounted
  <2>2. \A x \in InFlight \cup Hand : x.line # r BY <1>1, <1>4 DEF Order, UnderWay
  <2>3. PICK f \in DataFiles : IsWritten(r, f) BY <2>1, <2>2 DEF Kept
  <2>4. PICK i \in 1..Len(Written(file[f])) : Written(file[f])[i] = r BY <2>3 DEF IsWritten
  <2>5. ranges[s][f].rows > 0
    <3>1. RangeCovers(ranges[s][f], Written(file[f]), s)
      BY <1>1, <1>2, <1>3 DEF RangesCover
    <3> QED BY <2>4, <3>1 DEF RangeCovers
  <2>6. file'[f].disk = Written(file[f]) /\ file'[f].synced = Len(Written(file[f]))
    BY <2>5 DEF s
  <2>7. i \in 1..file'[f].synced /\ file'[f].disk[i] = r BY <2>4, <2>6
  <2> QED BY <2>7 DEF OnSynced
<1>9. k.session = s BY DEF s
<1>10. \A x \in InFlight' \cup Hand' : x.session # s BY <1>4
<1>11. s < now' BY <1>3
<1>12. \A f \in DataFiles : /\ RangeSettled(k.ranges[f], f, s)'
                           /\ LinesInside(k.ranges[f], f, s)'
  BY <1>6
<1> QED BY <1>7, <1>8, <1>9, <1>10, <1>11, <1>12 DEF Settled

\* The barrier of a session is handled: its rows are flushed and synced, and its marker
\* is made of its account.
LEMMA SessionBarrierSettles ==
    ASSUME SInv, IInv', NEW bad \in BadFlushes, NEW unsynced, SessionBarrier(bad, unsynced)
    PROVE  SInv'
<1>0. PICK m : m = Message OBVIOUS
<1> DEFINE s == m.session
<1>1. PICK k :
          k = [kind |-> "session", session |-> s, by |-> m.by,
               start |-> m.start, scored |-> m.scored, tally |-> tally[s],
               ranges |-> CloseRanges(s), flushed |-> bad = {}, synced |-> unsynced = {},
               exact |-> RangeFiles(s) \cap poisoned = {}]
  OBVIOUS
<1> DEFINE flushed(f) == IF f \in opened /\ f \notin bad THEN FlushAll(file[f]) ELSE file[f]
           synced(f) == IF f \in SyncedFiles(s) \ unsynced
                        THEN [flushed(f) EXCEPT !.synced = Len(flushed(f).disk)]
                        ELSE flushed(f)
<1>2. /\ writer.pc = "msgs" /\ writer.batch # <<>> /\ Message.msg = "close"
      /\ file' = [f \in Files |-> synced(f)]
      /\ ranges' = [ranges EXCEPT ![s] = [f \in DataFiles |-> NoRange]]
      /\ tally' = [tally EXCEPT ![s] = ZeroTally]
      /\ writer' = [[writer EXCEPT !.batch = Tail(@)] EXCEPT !.pc = "marker", !.close = k]
      /\ UNCHANGED <<now, begun, account, prod, closed, pending, emitted, chan, opened>>
  BY <1>0, <1>1 DEF SessionBarrier, producer, clock, Consumed, SyncedFiles
<1>3. /\ k.session = s /\ k.tally = tally[s] /\ k.ranges = CloseRanges(s)
      /\ k.by = m.by /\ k.start = m.start /\ k.kind = "session"
      /\ k.flushed = (bad = {}) /\ k.synced = (unsynced = {})
  BY <1>1
<1>4. /\ IInv /\ Order /\ Timely /\ AllSettled /\ LinesTyped /\ writer \in Thread
  BY DEF SInv, Order, IInv, Typed
<1>5. m \in CloseMsg /\ m = Message
  <2>1. writer.batch \in Seq(Msg) BY <1>4 DEF Thread
  <2>2. Message \in Msg BY <1>2, <2>1, HeadTailProperties DEF Message
  <2> QED BY <1>0, <1>2, <2>2 DEF Msg, LineMsg, DataMsg, MarkMsg
<1>6. s \in Sessions /\ Awaits(W, s) /\ s \in closed
  BY <1>2, <1>4, <1>5, BarrierBalances
<1>7. writer'.batch = Tail(writer.batch) /\ writer'.pc = "marker" /\ writer'.close = k
  BY <1>2, <1>4 DEF Thread
<1>8. /\ W \in Seq(Msg) /\ W # <<>> /\ m = Head(W) /\ W' = Tail(W)
  BY <1>2, <1>4, <1>5, <1>7, HeadTaken
<1>9. OnWay(W, m)
  <2>1. 1 \in DOMAIN W /\ W[1] = m BY <1>8, LenProperties, EmptySeq
  <2> QED BY <2>1 DEF OnWay
<1>10. ~Awaits(W', s)
  <2>1. OneEach(W) BY <1>4 DEF IInv, ClosedOnce
  <2> QED BY <1>5, <1>8, <2>1, TakeHead
<1>11. /\ Gains(W, W', {})
       /\ \A t \in Sessions :
              t \notin closed' \/ Awaits(W', t) => t \notin closed \/ Awaits(W, t)
       /\ \A c \in CloseMsg : OnWay(W', c) => OnWay(W, c)
  <2>1. Message \notin DataMsg BY <1>2 DEF DataMsg
  <2> QED BY <1>2, <1>4, <1>7, <2>1, HeadGone
<1> HIDE DEF s
<1>12. ASSUME NEW f \in Files
       PROVE  /\ Steady(file[f], file'[f])
              /\ f \in DataFiles /\ bad = {} /\ unsynced = {} /\ ranges[s][f].rows > 0 =>
                     /\ file'[f].disk = Written(file[f])
                     /\ file'[f].synced = Len(Written(file[f]))
  <2> DEFINE g == flushed(f)
             h == [g EXCEPT !.synced = Len(g.disk)]
             d == file[f]
             a == FlushAll(d)
  <2>1. file'[f] = synced(f) BY <1>2
  <2>2. Sound(d) /\ d \in File BY <1>4, FilesAreSound DEF Sound
  <2>3. Sound(a) BY <2>2, FlushAllSound
  <2>4. Steady(d, a) /\ a.disk = Written(d) BY <2>2, FlushAllSteady
  <2>5. Steady(d, d) BY <2>2, SteadySelf
  <2>6. Sound(g) /\ Steady(d, g) BY <2>2, <2>3, <2>4, <2>5
  <2>7. f \in DataFiles /\ bad = {} => g.disk = Written(d)
    <3> SUFFICES ASSUME f \in DataFiles, bad = {} PROVE g.disk = Written(d) OBVIOUS
    <3>1. CASE f \in opened BY <2>4, <3>1
    <3>2. CASE f \notin opened
      <4>1. d.buf = <<>> BY <1>4, <3>2 DEF LinesTyped
      <4> QED BY <2>2, <3>2, <4>1, WrittenType
    <3> QED BY <3>1, <3>2
  <2>8. synced(f) = h \/ synced(f) = g OBVIOUS
  <2>9. f \in DataFiles /\ unsynced = {} /\ ranges[s][f].rows > 0 => synced(f) = h
    BY DEF SyncedFiles, RangeFiles
  <2> HIDE DEF synced, flushed, g, a, d
  <2>10. /\ Steady(g, h) /\ h.synced = Len(g.disk) /\ h.disk = g.disk /\ h \in File
    BY <2>6, SyncSteady
  <2>11. Steady(d, h)
    <3>1. Len(d.disk) <= Len(g.disk)
      <4>1. Len(d.disk) <= Len(d.disk) /\ Len(d.disk) <= Len(Written(d))
        <5>1. /\ Len(d.disk) \in Nat /\ Len(d.buf) \in Nat
              /\ Len(Written(d)) = Len(d.disk) + Len(d.buf)
          BY <2>2, WrittenType
        <5> DEFINE u == Len(d.disk)
                   v == Len(d.buf)
                   w == Len(Written(d))
        <5>2. u \in Nat /\ v \in Nat /\ w = u + v BY <5>1
        <5> HIDE DEF u, v, w
        <5>3. u <= u /\ u <= w BY <5>2
        <5> QED BY <5>3 DEF u, w
      <4>2. g = a \/ g = d BY DEF g, flushed, a, d
      <4> QED BY <2>4, <4>1, <4>2
    <3>2. g \in File /\ h \in File BY <2>6, <2>10 DEF Sound
    <3> HIDE DEF h
    <3> QED BY <2>2, <2>6, <2>10, <3>1, <3>2, SteadyMore
  <2>12. Steady(d, file'[f]) BY <2>1, <2>6, <2>8, <2>11
  <2>13. f \in DataFiles /\ bad = {} /\ unsynced = {} /\ ranges[s][f].rows > 0 =>
             file'[f].disk = Written(d) /\ file'[f].synced = Len(Written(d))
    BY <2>1, <2>7, <2>9, <2>10
  <2> QED BY <2>12, <2>13 DEF d
<1> HIDE DEF synced, flushed
<1>13. CalmFiles /\ Steady(file[MarkerFile], file'[MarkerFile])
  <2>1. DataFiles \subseteq Files /\ MarkerFile \in Files BY DEF Files
  <2> QED BY <1>12, <2>1 DEF CalmFiles
<1>14. InFlight' = InFlight /\ Hand' = Hand
  BY <1>2, <1>11 DEF Gains, InFlight, Hand
<1>15. now \in Nat /\ now <= now' BY <1>2, <1>4, NowIsNat
<1>16. Calm
  <2>1. \A x, y \in DataMsg : Ahead(W', x, y) => Ahead(W, x, y) BY <1>11 DEF Gains
  <2> QED BY <1>2, <1>13, <1>14, <1>15, <2>1 DEF Calm
<1>17. \A t \in Sessions : (SameExtent(t) /\ (Unlost(tally'[t]) => Unlost(tally[t])))
                               \/ NoAccount(t)
  <2> TAKE t \in Sessions
  <2>1. ranges \in [Sessions -> [DataFiles -> Extent]] /\ tally \in [Sessions -> Tally]
    BY <1>4 DEF IInv, Typed
  <2>2. CASE t = s
    <3>1. ranges'[t] = [f \in DataFiles |-> NoRange] /\ tally'[t] = ZeroTally
      BY <1>2, <2>1, <2>2
    <3>2. ~Mine(s)' BY <1>2, <1>6, <1>10 DEF Mine
    <3> QED BY <2>2, <3>1, <3>2 DEF NoAccount
  <2>3. CASE t # s
    <3>1. ranges'[t] = ranges[t] /\ tally'[t] = tally[t] BY <1>2, <2>1, <2>3
    <3>2. Mine(t)' => Mine(t) BY <1>2, <1>11 DEF Mine
    <3> QED BY <3>1, <3>2 DEF SameExtent
  <2> QED BY <2>2, <2>3
<1>18. /\ Order' /\ RangesFit' /\ RangesCover' /\ WrittenCounted' /\ Accounted'
       /\ Good \subseteq Good'
  BY <1>16, <1>17, CalmAccounts
<1>19. Timely' BY <1>2, <1>4, <1>11, <1>15, TimelyKept
<1>20. k \in Marker
  BY <1>7 DEF IInv, Typed, Thread
<1>21. k \in Good'
  <2> SUFFICES ASSUME Clean(k) PROVE Settled(k)'
    BY <1>20 DEF Good, FileLine
  <2>1. CloseClean(m) BY <1>3 DEF Clean, CloseClean, s
  <2>2. bad = {} /\ unsynced = {} BY <1>3 DEF Clean
  <2>3. \A f \in DataFiles : Written(file'[f]) = Written(file[f])
    BY <1>13 DEF CalmFiles, Steady
  <2>4. \A f \in DataFiles : ranges[m.session][f].rows > 0 =>
            /\ file'[f].disk = Written(file[f])
            /\ file'[f].synced = Len(Written(file[f]))
    BY <1>12, <2>2 DEF Files, s
  <2>5. /\ Awaits(W, m.session) /\ k.session = m.session /\ k.tally = tally[m.session]
        /\ k.ranges = CloseRanges(m.session)
    BY <1>3, <1>6 DEF s
  <2> QED BY <1>2, <1>5, <1>9, <1>14, <1>20, <2>1, <2>3, <2>4, <2>5, MarkerSettles
<1>22. AllSettled'
  <2>1. Holds(file'[MarkerFile], Good')
    <3>1. Holds(file[MarkerFile], Good) BY <1>4 DEF AllSettled
    <3>2. Holds(file'[MarkerFile], Good) BY <1>13, <3>1 DEF Steady
    <3>3. Seq(Good) \subseteq Seq(Good') BY <1>18
    <3> QED BY <3>2, <3>3 DEF Holds
  <2> QED BY <1>7, <1>21, <2>1 DEF AllSettled
<1> QED BY <1>18, <1>19, <1>22 DEF SInv


-----------------------------------------------------------------------------
(* A new process.                                                          *)

\* Nothing is on its way in a process that has just started.
LEMMA StartedIdle ==
    ASSUME Started
    PROVE  /\ W = <<>> /\ InFlight = {} /\ Hand = {} /\ writer.pc = "recv"
           /\ \A s : ~Awaits(W, s)
           /\ \A m : ~OnWay(W, m)
           /\ \A m, n : ~Ahead(W, m, n)
<1>1. W = <<>>
  <2>1. <<>> \o <<>> = <<>> OBVIOUS
  <2> QED BY <2>1 DEF W, Way, Q, Started, Resting
<1>2. \A m : ~OnWay(W, m) BY <1>1 DEF OnWay
<1>3. \A m, n : ~Ahead(W, m, n) BY <1>1 DEF Ahead
<1>4. \A s : ~Awaits(W, s) BY <1>1 DEF Awaits
<1>5. InFlight = {} BY <1>2 DEF InFlight
<1>6. Hand = {} /\ writer.pc = "recv" BY DEF Started, Ready, Hand, Resting
<1> QED BY <1>1, <1>2, <1>3, <1>4, <1>5, <1>6

\* It is the process of every row of a session that is still to come, and there is none.
LEMMA FreshHolds ==
    ASSUME Started, Order
    PROVE  Timely /\ RangesFit /\ RangesCover /\ WrittenCounted /\ Accounted
<1>1. /\ now \in Nat /\ begun = None /\ account = None
      /\ \A s \in Sessions :
             tally[s] = ZeroTally /\ ranges[s] = [f \in DataFiles |-> NoRange]
  BY SessionsAreNat DEF Started
<1>2. Timely BY <1>1, StartedIdle DEF Timely
<1>3. ASSUME NEW s \in Sessions, Mine(s), NEW r \in emitted PROVE r.session # s
  <2>1. now < s /\ s \in Nat BY <1>1, <1>3, SessionsAreNat DEF Mine
  <2>2. r.session <= now BY DEF Order, RowsInTime
  <2>3. r.session \in Nat BY SessionsAreNat DEF Started, DataLine
  <2> QED BY <1>1, <2>1, <2>2, <2>3
<1>4. RangesFit
  <2> SUFFICES ASSUME NEW s \in Sessions, NEW f \in DataFiles
               PROVE  RangeFits(ranges[s][f], Written(file[f]), s)
    BY DEF RangesFit
  <2>1. ranges[s][f].rows = 0 BY <1>1 DEF NoRange
  <2> QED BY <2>1 DEF RangeFits
<1>5. RangesCover
  <2> SUFFICES ASSUME NEW s \in Sessions, Mine(s), NEW f \in DataFiles,
                      NEW i \in 1..Len(Written(file[f])), Written(file[f])[i].session = s
               PROVE  FALSE
    BY DEF RangesCover, RangeCovers
  <2>1. Written(file[f])[i] \in emitted BY DEF Order, LinesOffered
  <2> QED BY <1>3, <2>1
<1>6. WrittenCounted
  <2> SUFFICES ASSUME NEW s \in Sessions
               PROVE  tally[s].written = Total(RowsIn(ranges[s]), DataFiles)
    BY DEF WrittenCounted
  <2>1. tally[s].written = 0 BY <1>1 DEF ZeroTally
  <2> QED BY <1>1, <2>1, ZeroTotal
<1>7. Accounted BY <1>3 DEF Accounted
<1> QED BY <1>2, <1>4, <1>5, <1>6, <1>7

\* Both as one state predicate each.
Idle == /\ W = <<>> /\ InFlight = {} /\ Hand = {} /\ writer.pc = "recv"
        /\ \A m, n : ~Ahead(W, m, n)
NoLines == Timely /\ RangesFit /\ RangesCover /\ WrittenCounted /\ Accounted
\* So it is after a restart.
LEMMA FreshHoldsNext == (Started' => Idle') /\ (Started' /\ Order' => NoLines')
<1>1. Started => Idle BY StartedIdle DEF Idle
<1>2. Started /\ Order => NoLines BY FreshHolds DEF NoLines
<1> QED BY <1>1, <1>2, PTL

\* A sequence is of what its elements are.
LEMMA SeqOfElements ==
    ASSUME NEW S, NEW T, NEW d \in Seq(S), \A i \in 1..Len(d) : d[i] \in T
    PROVE  d \in Seq(T)
<1>1. Len(d) \in Nat /\ d \in [1..Len(d) -> S] BY LenProperties
<1>2. d \in [1..Len(d) -> T] BY <1>1
<1> QED BY <1>1, <1>2, SeqDef

\* The files lose their buffers, and what of them is not synced may go.
Cut(f) ==
    /\ file'[f].buf = <<>> /\ file'[f].synced = file[f].synced
    /\ Len(file'[f].disk) <= Len(file[f].disk)
    /\ \A i \in 1..Len(file'[f].disk) : file'[f].disk[i] = file[f].disk[i]
\* So a new process keeps the invariant.
LEMMA FreshSettles ==
    ASSUME SInv, IInv', Started', UNCHANGED <<now, emitted>>, \A f \in Files : Cut(f)
    PROVE  SInv'
<1>1. IInv /\ Order /\ LinesTyped /\ AllSettled BY DEF SInv, Order
<1>2. Idle' BY FreshHoldsNext
<1>3. InFlight' = {} /\ Hand' = {} /\ \A m, n : ~Ahead(W', m, n) BY <1>2 DEF Idle
<1>4. now \in Nat BY <1>1, NowIsNat
<1>5. Passing BY <1>3, <1>4 DEF Passing
<1>6. ASSUME NEW f \in Files
      PROVE  /\ file[f] \in File /\ file'[f] \in File /\ Cut(f)
             /\ Len(file[f].disk) \in Nat /\ Len(file'[f].disk) \in Nat
             /\ Written(file'[f]) = file'[f].disk
             /\ \A i \in 1..Len(file'[f].disk) : i \in 1..Len(file[f].disk)
             /\ file[f].synced \in Nat /\ file[f].synced <= Len(file'[f].disk)
  <2>1. file[f] \in File /\ file'[f] \in File /\ Cut(f) BY <1>1 DEF IInv, Typed
  <2>2. Len(file[f].disk) \in Nat /\ Len(file'[f].disk) \in Nat BY <2>1, WrittenType
  <2>3. file'[f].buf = <<>> BY <2>1 DEF Cut
  <2>4. Written(file'[f]) = file'[f].disk BY <2>1, <2>3, WrittenType
  <2>5. \A i \in 1..Len(file'[f].disk) : i \in 1..Len(file[f].disk) BY <2>1, <2>2 DEF Cut
  <2>6. file[f].synced \in Nat BY <2>1 DEF File
  <2>7. file'[f].synced <= Len(file'[f].disk) BY DEF IInv, Bounded
  <2>8. file[f].synced <= Len(file'[f].disk) BY <2>1, <2>7 DEF Cut
  <2> QED BY <2>1, <2>2, <2>4, <2>5, <2>6, <2>8
<1>7. DataFiles \subseteq Files /\ MarkerFile \in Files BY DEF Files
<1>8. ASSUME NEW f \in DataFiles, NEW i \in 1..Len(file'[f].disk)
      PROVE  /\ i \in 1..Len(Written(file[f]))
             /\ Written(file[f])[i] = file'[f].disk[i]
             /\ file'[f].disk[i] \in DataLine
  <2>1. i \in 1..Len(file[f].disk) /\ file'[f].disk[i] = file[f].disk[i]
    BY <1>6, <1>7 DEF Cut
  <2>2. /\ Len(file[f].disk) \in Nat /\ Len(file[f].buf) \in Nat
        /\ Len(Written(file[f])) = Len(file[f].disk) + Len(file[f].buf)
        /\ Written(file[f])[i] = file[f].disk[i]
    BY <1>6, <1>7, <2>1, WrittenType
  <2>3. i \in 1..Len(Written(file[f]))
    <3> DEFINE u == Len(file[f].disk)
               v == Len(file[f].buf)
               w == Len(Written(file[f]))
    <3>1. u \in Nat /\ v \in Nat /\ w = u + v /\ i \in 1..u BY <2>1, <2>2
    <3> HIDE DEF u, v, w
    <3>2. i \in 1..w BY <3>1
    <3> QED BY <3>2 DEF w
  <2>4. Written(file[f])[i] \in DataLine BY <1>1, <2>3, LineIsRow
  <2> QED BY <2>1, <2>2, <2>3, <2>4
<1>9. Adding
  <2> SUFFICES ASSUME NEW f \in DataFiles, NEW i \in 1..Len(Written(file'[f]))
               PROVE  WasThere(f, i)
    BY DEF Adding
  <2>1. Written(file'[f]) = file'[f].disk BY <1>6, <1>7
  <2>2. i \in 1..Len(file'[f].disk) BY <2>1
  <2>3. i \in 1..Len(Written(file[f])) /\ Written(file[f])[i] = file'[f].disk[i]
    BY <1>8, <2>2
  <2>4. i <= Len(Written(file[f])) BY <2>3
  <2> QED BY <2>1, <2>3, <2>4 DEF WasThere
<1>10. SyncKept
  <2> SUFFICES ASSUME NEW f \in DataFiles
               PROVE  /\ file[f].synced <= file'[f].synced
                      /\ \A i \in 1..file[f].synced : file'[f].disk[i] = file[f].disk[i]
    BY DEF SyncKept
  <2>1. /\ Cut(f) /\ file[f].synced \in Nat /\ file[f].synced <= Len(file'[f].disk)
        /\ Len(file'[f].disk) \in Nat
    BY <1>6, <1>7
  <2>2. \A i \in 1..file[f].synced : i \in 1..Len(file'[f].disk) BY <2>1
  <2>3. file[f].synced <= file'[f].synced BY <2>1 DEF Cut
  <2> QED BY <2>1, <2>2, <2>3 DEF Cut
<1>11. LinesTyped'
  <2> SUFFICES ASSUME NEW f \in DataFiles
               PROVE  /\ Written(file'[f]) \in Seq(DataLine)
                      /\ file'[f].buf # <<>> => f \in opened'
    BY DEF LinesTyped
  <2>1. file'[f].buf = <<>> /\ Written(file'[f]) = file'[f].disk /\ file'[f] \in File
    BY <1>6, <1>7 DEF Cut
  <2>2. file'[f].disk \in Seq(FileLine) BY <2>1 DEF File
  <2>3. file'[f].disk \in Seq(DataLine) BY <1>8, <2>2, SeqOfElements
  <2> QED BY <2>1, <2>3
<1>12. Order' BY <1>1, <1>5, <1>9, <1>11, OrderKept
<1>13. Good \subseteq Good' BY <1>1, <1>5, <1>9, <1>10, <1>11, GoodKept
<1>14. NoLines' BY <1>12, FreshHoldsNext
<1>15. AllSettled'
  <2>1. writer'.pc = "recv" BY <1>2 DEF Idle
  <2> DEFINE M == MarkerFile
             G == Good'
  <2>2. /\ file'[M].buf = <<>> /\ file'[M] \in File /\ Cut(M)
        /\ \A i \in 1..Len(file'[M].disk) : i \in 1..Len(file[M].disk)
    BY <1>6, <1>7 DEF Cut
  <2>3. file[M].disk \in Seq(Good) BY <1>1 DEF AllSettled, Holds
  <2>4. \A i \in 1..Len(file'[M].disk) : file'[M].disk[i] \in G
    <3> TAKE i \in 1..Len(file'[M].disk)
    <3>1. file[M].disk[i] \in Good BY <2>2, <2>3, ElementOfSeq
    <3> QED BY <1>13, <2>2, <3>1 DEF Cut
  <2>5. file'[M].disk \in Seq(FileLine) BY <2>2 DEF File
  <2> HIDE DEF G
  <2>6. file'[M].disk \in Seq(G) BY <2>4, <2>5, SeqOfElements
  <2>7. file'[M].buf \in Seq(G)
    <3>1. <<>> \in Seq(G) OBVIOUS
    <3> QED BY <2>2, <3>1
  <2> QED BY <2>1, <2>6, <2>7 DEF AllSettled, Holds, G
<1> QED BY <1>12, <1>14, <1>15 DEF SInv, NoLines


\* A restart.
LEMMA RestartSettles ==
    ASSUME SInv, IInv', Restart
    PROVE  SInv'
<1>1. IInv BY DEF SInv
<1>2. /\ Started' /\ UNCHANGED <<now, emitted>>
      /\ \A f \in Files : file'[f] = [buf |-> <<>>, disk |-> file[f].disk,
                                       synced |-> file[f].synced]
  BY <1>1, RestartStarts
<1>3. ASSUME NEW f \in Files PROVE Cut(f)
  <2>1. file'[f].buf = <<>> /\ file'[f].disk = file[f].disk /\ file'[f].synced = file[f].synced
    <3> DEFINE x == <<>>
               y == file[f].disk
               z == file[f].synced
    <3>1. file'[f] = [buf |-> x, disk |-> y, synced |-> z] BY <1>2
    <3> HIDE DEF x, y, z
    <3>2. file'[f].buf = x /\ file'[f].disk = y /\ file'[f].synced = z BY <3>1
    <3> QED BY <3>2 DEF x, y, z
  <2>2. file[f] \in File BY <1>1 DEF IInv, Typed
  <2>3. Len(file[f].disk) \in Nat BY <2>2, WrittenType
  <2> QED BY <2>1, <2>3 DEF Cut
<1> QED BY <1>2, <1>3, FreshSettles

\* A power loss.
LEMMA PowerLossSettles ==
    ASSUME SInv, IInv', NEW f \in Files, NEW n, PowerLoss(f, n)
    PROVE  SInv'
<1>1. IInv BY DEF SInv
<1>2. /\ Started' /\ UNCHANGED <<now, emitted>> /\ n \in 0..Len(file[f].disk)
      /\ \A g \in Files : file'[g] =
             [buf |-> <<>>,
              disk |-> IF g = f THEN SubSeq(file[g].disk, 1, n) ELSE file[g].disk,
              synced |-> file[g].synced]
  BY <1>1, PowerLossStarts
<1>3. ASSUME NEW g \in Files PROVE Cut(g)
  <2> DEFINE d == file[g].disk
             e == SubSeq(d, 1, n)
  <2>1. /\ file'[g].buf = <<>> /\ file'[g].disk = IF g = f THEN e ELSE d
        /\ file'[g].synced = file[g].synced
    <3> DEFINE x == <<>>
               y == IF g = f THEN e ELSE d
               z == file[g].synced
    <3>1. file'[g] = [buf |-> x, disk |-> y, synced |-> z] BY <1>2, Zenon
    <3> HIDE DEF x, y, z
    <3>2. file'[g].buf = x /\ file'[g].disk = y /\ file'[g].synced = z BY <3>1
    <3> QED BY <3>2 DEF x, y, z
  <2>2. file[g] \in File BY <1>1 DEF IInv, Typed
  <2>3. d \in Seq(FileLine) /\ Len(d) \in Nat BY <2>2, WrittenType DEF File
  <2>4. CASE g = f
    <3>1. n \in 0..Len(d) BY <1>2, <2>4
    <3> HIDE DEF d
    <3>2. \A i \in 1..n : d[i] \in FileLine
      <4> TAKE i \in 1..n
      <4>1. i \in 1..Len(d) BY <2>3, <3>1
      <4> QED BY <2>3, <4>1, ElementOfSeq
    <3>3. Len(e) = n BY <2>3, <3>1, Halves
    <3>4. \A i \in 1..n : e[i] = d[i]
      <4>1. 1 \in Int /\ n \in Int BY <3>1
      <4>2. \A i \in 1..(n - 1 + 1) : e[i] = d[1 + i - 1] BY <3>2, <4>1, SubSeqProperties
      <4> HIDE DEF e
      <4> QED BY <3>1, <4>2
    <3> HIDE DEF e
    <3>5. Len(e) <= Len(d) BY <2>3, <3>1, <3>3
    <3> QED BY <2>1, <2>4, <3>3, <3>4, <3>5 DEF Cut, d
  <2>5. CASE g # f BY <2>1, <2>3, <2>5 DEF Cut
  <2> QED BY <2>4, <2>5
<1> QED BY <1>2, <1>3, FreshSettles

\* It holds to begin with.
LEMMA InitSettles == Init => SInv
<1> SUFFICES ASSUME Init PROVE SInv OBVIOUS
<1>1. Started BY InitStarts
<1>2. IInv BY <1>1, StartedHolds
<1>3. emitted = {} /\ \A f \in Files : file[f].buf = <<>> /\ file[f].disk = <<>>
  BY DEF Init
<1>4. InFlight = {} /\ Hand = {} /\ writer.pc = "recv" /\ \A m, n : ~Ahead(W, m, n)
  BY <1>1, StartedIdle
<1>5. ASSUME NEW f \in Files PROVE Written(file[f]) = <<>>
  <2>1. <<>> \o <<>> = <<>> OBVIOUS
  <2> QED BY <1>3, <2>1 DEF Written
<1>6. DataFiles \subseteq Files /\ MarkerFile \in Files BY DEF Files
<1>7. Order
  <2>1. LinesTyped
    <3>1. <<>> \in Seq(DataLine) OBVIOUS
    <3> QED BY <1>3, <1>5, <1>6, <3>1 DEF LinesTyped
  <2>2. LinesOffered
    <3>1. \A f \in DataFiles : Len(Written(file[f])) = 0 BY <1>5, <1>6
    <3>2. \A i \in 1..0 : FALSE OBVIOUS
    <3> QED BY <3>1, <3>2 DEF LinesOffered
  <2>3. RowsInTime BY <1>3 DEF RowsInTime
  <2>4. UnderWay /\ HandIsLast BY <1>4 DEF UnderWay, HandIsLast
  <2>5. WayInOrder BY <1>4 DEF WayInOrder
  <2> QED BY <2>1, <2>2, <2>3, <2>4, <2>5 DEF Order
<1>8. AllSettled
  <2>1. <<>> \in Seq(Good) OBVIOUS
  <2> QED BY <1>3, <1>4, <1>6, <2>1 DEF AllSettled, Holds
<1> QED BY <1>1, <1>2, <1>7, <1>8, FreshHolds DEF SInv

\* Every step keeps it when the wall clock never steps back over a session boundary.
LEMMA StepSettles ==
    ~ClockSteps /\ SInv /\ [Next]_vars => SInv'
<1> SUFFICES ASSUME ~ClockSteps, SInv, [Next]_vars PROVE SInv' OBVIOUS
<1>1. IInv' BY StepInvariant DEF SInv
<1>2. CASE Producer
  BY <1>1, <1>2, TickSettles, RecordSettles, ReserveSettles, SendSettles, SentSettles,
     FinishSettles, SendDeferredSettles DEF Producer
<1>3. CASE Receive BY <1>1, <1>3, ReceiveSettles
<1>4. CASE HandleLine
  <2>1. PICK f \in Files : \/ \E full \in BOOLEAN : WriteLine(f, full)
                           \/ \E n \in 0..Len(file[f].buf) : LineFails(f, n)
    BY <1>4 DEF HandleLine
  <2>2. CASE f = MarkerFile
    BY <1>1, <2>1, <2>2, WriteMarkLineSettles, MarkLineFailsSettles
  <2>3. CASE f # MarkerFile BY <1>1, <2>1, <2>3, WriteRowSettles, RowFailsSettles
  <2> QED BY <2>2, <2>3
<1>5. CASE HandleClose
  BY <1>1, <1>5, SessionBarrierSettles, WriteMarkerSettles, MarkerFailsSettles,
     SyncMarkerSettles DEF HandleClose
<1>6. CASE EndBatch BY <1>1, <1>6, FlushBatchSettles DEF EndBatch
<1>7. CASE World
  <2>1. ~StepBack BY DEF StepBack
  <2> QED BY <1>1, <1>7, <2>1, NextSessionSettles, RestartSettles, PowerLossSettles DEF World
<1>8. CASE UNCHANGED vars BY <1>1, <1>8, StutterSettles
<1> QED BY <1>2, <1>3, <1>4, <1>5, <1>6, <1>7, <1>8 DEF Next, Writer


\* The rows a marker counts are the total of its ranges.
LEMMA RowsAdded ==
    ASSUME NEW q \in [DataFiles -> Extent]
    PROVE  LET used == {f \in DataFiles : q[f].rows > 0}
           IN  MapThenSumSet(LAMBDA f : q[f].rows, used) = Total(RowsIn(q), DataFiles)
<1> DEFINE S == {f \in DataFiles : q[f].rows > 0}
           e == RowsIn(q)
           Step(g, s) == IF s = {} THEN 0
                         ELSE LET x == CHOOSE x \in s : TRUE IN q[x].rows + g[s \ {x}]
           Solves(g) == g = [s \in SUBSET S |-> Step(g, s)]
           h == CHOOSE g : Solves(g)
<1>1. MapThenSumSet(LAMBDA f : q[f].rows, S) = h[S]
  BY DEF MapThenSumSet, MapThenFoldSet
<1>2. S \subseteq DataFiles /\ IsFiniteSet(S) /\ IsFiniteSet(DataFiles)
  BY DataFilesFinite, FS_Subset
<1>3. \A f \in DataFiles : e[f] = q[f].rows /\ e[f] \in Nat BY DEF RowsIn, Extent
<1>4. \A f \in DataFiles : e[f] = IF f \in S THEN e[f] ELSE 0 BY <1>3
<1> HIDE DEF S, e
<1>5. \A g : Solves(g) <=> SumsOver(g, e, S)
  <2>1. ASSUME NEW g, NEW s \in SUBSET S PROVE Adds(g, e, s) = Step(g, s)
    <3>1. Step(g, s) = IF s = {} THEN 0 ELSE q[Pick(s)].rows + g[s \ {Pick(s)}]
      BY DEF Pick
    <3>2. CASE s = {} BY <3>1, <3>2 DEF Adds
    <3>3. CASE s # {}
      <4>1. Pick(s) \in DataFiles BY <1>2, <3>3, PickIn
      <4>2. e[Pick(s)] = q[Pick(s)].rows BY <1>3, <4>1
      <4> HIDE DEF Step
      <4> QED BY <3>1, <3>3, <4>2, Zenon DEF Adds
    <3> QED BY <3>2, <3>3
  <2> HIDE DEF Step
  <2>2. ASSUME NEW g
        PROVE  [s \in SUBSET S |-> Step(g, s)] = [s \in SUBSET S |-> Adds(g, e, s)]
    BY <2>1, Zenon
  <2> QED BY <2>2, Zenon DEF SumsOver
<1> HIDE DEF Solves
<1>6. SumsOver(h, e, S)
  <2>1. \E g : Solves(g) BY <1>2, <1>5, SumsExist
  <2>2. Solves(h) BY <2>1, Zenon
  <2> QED BY <1>5, <2>2, Zenon
<1> HIDE DEF h
<1>7. h[S] = Total(e, S) BY <1>2, <1>6, TotalSums
<1>8. Total(e, DataFiles) = Total(e, S)
  <2>1. \A f \in DataFiles : e[f] \in Int BY <1>3
  <2> DEFINE U == DataFiles
  <2>2. IsFiniteSet(U) /\ S \subseteq U BY <1>2
  <2>3. \A f \in U : e[f] \in Int BY <2>1
  <2>4. \A f \in U : e[f] = IF f \in S THEN e[f] ELSE 0 BY <1>4
  <2> HIDE DEF U
  <2>5. Total(e, U) = Total(e, S) BY <2>2, <2>3, <2>4, TotalFilter
  <2> QED BY <2>5 DEF U
<1> QED BY <1>1, <1>7, <1>8 DEF S, e

\* What a clean marker promises is what the offline reader checks.
LEMMA SettledVerifies ==
    ASSUME IInv, LinesTyped, NEW m \in Marker, Settled(m)
    PROVE  RowsVerify(m)
<1> DEFINE used == {f \in DataFiles : m.ranges[f].rows > 0}
<1>1. m.ranges \in [DataFiles -> Extent] BY DEF Marker
<1>2. ASSUME NEW f \in DataFiles
      PROVE  /\ file[f] \in File /\ file[f].disk \in Seq(FileLine)
             /\ Len(file[f].disk) \in Nat /\ file[f].synced \in Nat
             /\ file[f].synced <= Len(file[f].disk)
             /\ \A i \in 1..Len(file[f].disk) :
                    i \in 1..Len(Written(file[f])) /\ Written(file[f])[i] = file[f].disk[i]
  <2>1. f \in Files BY DEF Files
  <2>2. file[f] \in File BY <2>1 DEF IInv, Typed
  <2>3. file[f].synced <= Len(file[f].disk) BY <2>1 DEF IInv, Bounded
  <2> DEFINE u == Len(file[f].disk)
             v == Len(file[f].buf)
             w == Len(Written(file[f]))
  <2>4. /\ u \in Nat /\ v \in Nat /\ w = u + v
        /\ \A i \in 1..u : Written(file[f])[i] = file[f].disk[i]
    BY <2>2, WrittenType
  <2>5. \A i \in 1..u : i \in 1..w
    <3> HIDE DEF u, v, w
    <3> QED BY <2>4
  <2> QED BY <2>2, <2>3, <2>4, <2>5 DEF File
<1>3. ASSUME NEW f \in used
      PROVE  RangeVerifies(m.ranges[f], f, m.session)
  <2> DEFINE r == m.ranges[f]
             d == file[f].disk
             h == r.hash
             slice == SubSeq(d, r.start + 1, r.end)
  <2>1. f \in DataFiles /\ r.rows > 0 /\ r \in Extent BY <1>1
  <2>2. r.start \in Nat /\ r.end \in Nat /\ r.rows \in Nat /\ h \in Seq(DataLine)
    BY <2>1 DEF Extent
  <2>3. /\ r.end = r.start + r.rows /\ r.end <= file[f].synced /\ Len(h) = r.rows
        /\ \A i \in 1..Len(h) : h[i] = d[r.start + i] /\ h[i].session = m.session
    BY <2>1 DEF Settled, RangeSettled
  <2>4. /\ d \in Seq(FileLine) /\ Len(d) \in Nat /\ file[f].synced \in Nat
        /\ file[f].synced <= Len(d)
    BY <1>2, <2>1
  <2> HIDE DEF r, d, h
  <2>5. r.end <= Len(d) BY <2>2, <2>3, <2>4
  <2>6. \A i \in (r.start + 1)..r.end : d[i] \in FileLine
    <3> TAKE i \in (r.start + 1)..r.end
    <3>1. i \in 1..Len(d) BY <2>2, <2>4, <2>5
    <3> QED BY <2>4, <3>1, ElementOfSeq
  <2>7. /\ slice \in Seq(FileLine)
        /\ Len(slice) = (IF r.start + 1 <= r.end THEN r.end - (r.start + 1) + 1 ELSE 0)
        /\ \A i \in 1..(r.end - (r.start + 1) + 1) : slice[i] = d[r.start + 1 + i - 1]
    <3>1. r.start + 1 \in Int /\ r.end \in Int BY <2>2
    <3> QED BY <2>6, <3>1, SubSeqProperties
  <2> HIDE DEF slice
  <2>8. Len(slice) = r.rows /\ r.end - (r.start + 1) + 1 = r.rows BY <2>1, <2>2, <2>3, <2>7
  <2>9. \A i \in 1..r.rows : slice[i] = d[r.start + i]
    <3> TAKE i \in 1..r.rows
    <3>1. r.start + 1 + i - 1 = r.start + i BY <2>2
    <3> QED BY <2>7, <2>8, <3>1
  <2>10. h \in Seq(FileLine) BY <2>2 DEF FileLine
  <2>11. slice = h
    <3>1. Len(slice) = Len(h) BY <2>3, <2>8
    <3>2. \A i \in 1..Len(slice) : slice[i] = h[i] BY <2>3, <2>8, <2>9
    <3> QED BY <2>7, <2>10, <3>1, <3>2, SeqEqual
  <2>12. \A i \in DOMAIN slice : slice[i].session = m.session
    <3>1. DOMAIN h = 1..Len(h) BY <2>10, LenProperties
    <3> QED BY <2>3, <2>11, <3>1
  <2> QED BY <2>5, <2>8, <2>11, <2>12 DEF RangeVerifies, slice, r, d, h
<1>4. ASSUME NEW f \in DataFiles, NEW i \in DOMAIN file[f].disk,
             file[f].disk[i].session = m.session
      PROVE  f \in used /\ i \in (m.ranges[f].start + 1)..m.ranges[f].end
  <2>1. i \in 1..Len(file[f].disk) BY <1>2, LenProperties
  <2>2. i \in 1..Len(Written(file[f])) /\ Written(file[f])[i].session = m.session
    BY <1>2, <1>4, <2>1
  <2>3. m.ranges[f].rows > 0 /\ m.ranges[f].start < i /\ i <= m.ranges[f].end
    BY <2>2 DEF Settled, LinesInside
  <2>4. m.ranges[f] \in Extent BY <1>1
  <2>5. m.ranges[f].start \in Nat /\ m.ranges[f].end \in Nat BY <2>4 DEF Extent
  <2>6. i \in Nat BY <1>2, <2>1
  <2> QED BY <2>3, <2>5, <2>6
<1>5. m.tally.written = MapThenSumSet(LAMBDA f : m.ranges[f].rows, used)
  <2> DEFINE q == m.ranges
  <2>1. q \in [DataFiles -> Extent] BY <1>1
  <2>2. m.tally.written = Total(RowsIn(q), DataFiles) BY DEF Settled
  <2> HIDE DEF q
  <2>3. MapThenSumSet(LAMBDA f : q[f].rows, {f \in DataFiles : q[f].rows > 0})
            = Total(RowsIn(q), DataFiles)
    BY <2>1, RowsAdded
  <2> QED BY <2>2, <2>3 DEF q
<1> HIDE DEF used
<1> QED BY <1>3, <1>4, <1>5 DEF RowsVerify, used


\* So a clean marker verifies.
LEMMA CleanFollows == SInv => CleanMarkerVerifies
<1> SUFFICES ASSUME SInv, NEW i \in DOMAIN Markers, Markers[i].kind = "session",
                    Clean(Markers[i])
             PROVE  RowsVerify(Markers[i])
  BY DEF CleanMarkerVerifies
<1> DEFINE m == Markers[i]
<1>1. IInv /\ LinesTyped /\ Markers \in Seq(Good)
  BY DEF SInv, Order, AllSettled, Holds, Markers
<1>2. m \in Good BY <1>1, LenProperties, ElementOfSeq
<1>3. m \in Marker BY <1>2 DEF Good, FileLine, DataLine, MarkLine
<1>4. Settled(m) BY <1>2 DEF Good
<1> HIDE DEF m
<1>5. RowsVerify(m) BY <1>1, <1>3, <1>4, SettledVerifies
<1> QED BY <1>5 DEF m

\* And a certified session has all its rows on disk.
LEMMA CertifiedFollows == SInv => CertifiedIsComplete
<1> SUFFICES ASSUME SInv, NEW s \in Sessions, Certifies(s)
             PROVE  OnDisk(s) = RowsOf(s)
  BY DEF CertifiedIsComplete
<1>1. IInv /\ LinesTyped /\ LinesOffered /\ Markers \in Seq(Good)
  BY DEF SInv, Order, AllSettled, Holds, Markers
<1>2. PICK i \in MarkersOf(s) : TRUE
  <2>1. MarkersOf(s) # {} BY FS_EmptySet DEF Certifies
  <2> QED BY <2>1
<1> DEFINE m == Markers[i]
<1>3. m \in Good /\ m.kind = "session" /\ m.session = s /\ Clean(m)
  BY <1>1, <1>2, LenProperties, ElementOfSeq DEF MarkersOf, Certifies
<1>4. Settled(m) BY <1>3 DEF Good
<1>5. \A r \in emitted : r.session = s => OnSynced(r) BY <1>3, <1>4 DEF Settled
<1>6. ASSUME NEW f \in DataFiles
      PROVE  /\ file[f].disk \in Seq(FileLine) /\ Len(file[f].disk) \in Nat
             /\ file[f].synced \in Nat /\ file[f].synced <= Len(file[f].disk)
             /\ DOMAIN file[f].disk = 1..Len(file[f].disk)
             /\ \A j \in 1..Len(file[f].disk) : file[f].disk[j] \in emitted
  <2>1. f \in Files BY DEF Files
  <2>2. file[f] \in File BY <1>1, <2>1 DEF IInv, Typed
  <2>3. file[f].synced <= Len(file[f].disk) BY <1>1, <2>1 DEF IInv, Bounded
  <2>4. file[f].disk \in Seq(FileLine) /\ file[f].synced \in Nat BY <2>2 DEF File
  <2> DEFINE u == Len(file[f].disk)
             v == Len(file[f].buf)
             w == Len(Written(file[f]))
  <2>5. /\ u \in Nat /\ v \in Nat /\ w = u + v
        /\ \A j \in 1..u : Written(file[f])[j] = file[f].disk[j]
    BY <2>2, WrittenType
  <2>6. \A j \in 1..u : j \in 1..w
    <3> HIDE DEF u, v, w
    <3> QED BY <2>5
  <2>7. \A j \in 1..u : file[f].disk[j] \in emitted
    BY <1>1, <2>5, <2>6 DEF LinesOffered
  <2> QED BY <2>3, <2>4, <2>5, <2>7, LenProperties
<1> HIDE DEF m
<1>7. ASSUME NEW r \in OnDisk(s) PROVE r \in RowsOf(s)
  <2>1. r.session = s /\ \E f \in DataFiles : r \in ToSet(file[f].disk) BY DEF OnDisk
  <2>2. PICK f \in DataFiles : r \in ToSet(file[f].disk) BY <2>1
  <2>3. PICK j \in DOMAIN file[f].disk : r = file[f].disk[j] BY <2>2 DEF ToSet
  <2>4. r \in emitted BY <1>6, <2>3
  <2> QED BY <2>1, <2>4 DEF RowsOf
<1>8. ASSUME NEW r \in RowsOf(s) PROVE r \in OnDisk(s)
  <2>1. r \in emitted /\ r.session = s BY DEF RowsOf
  <2>2. PICK f \in DataFiles : \E j \in 1..file[f].synced : file[f].disk[j] = r
    BY <1>5, <2>1 DEF OnSynced
  <2>3. PICK j \in 1..file[f].synced : file[f].disk[j] = r BY <2>2
  <2>4. j \in DOMAIN file[f].disk BY <1>6
  <2>5. r \in ToSet(file[f].disk) BY <2>3, <2>4 DEF ToSet
  <2> QED BY <2>1, <2>5 DEF OnDisk
<1> QED BY <1>7, <1>8

\* The invariant of the clean markers, when the wall clock never steps back over a
\* session boundary.
LEMMA SettledInvariant == ~ClockSteps => (CapturesSpec => []SInv)
<1> SUFFICES ASSUME ~ClockSteps PROVE CapturesSpec => []SInv OBVIOUS
<1>1. CapturesInit => SInv BY InitSettles DEF CapturesInit
<1>2. SInv /\ [CapturesNext]_<<part, vars, observationVars, outcomeVars>> => SInv'
  <2> SUFFICES ASSUME SInv, [CapturesNext]_<<part, vars, observationVars, outcomeVars>>
               PROVE  SInv'
    OBVIOUS
  <2>1. Next \/ UNCHANGED vars BY DEF CapturesNext
  <2> QED BY <2>1, StepSettles
<1> QED BY <1>1, <1>2, PTL DEF CapturesSpec

\* Unless the wall clock steps back over a session boundary, a marker with nothing to
\* report is never refused for its rows: they were flushed and synced before it, in the
\* ranges it names, and no deferral of the barrier, failed write of another session,
\* crash or power loss takes that back.
THEOREM CleanMarkersVerifyAlways == ~ClockSteps => (CapturesSpec => []CleanMarkerVerifies)
  BY SettledInvariant, CleanFollows, PTL

\* Under the same condition, a session is certified only if the files hold exactly the
\* rows that were offered for it, by any process, whatever was dropped, failed, crashed
\* or lost its power in between.
THEOREM CertifiedIsCompleteAlways == ~ClockSteps => (CapturesSpec => []CertifiedIsComplete)
  BY SettledInvariant, CertifiedFollows, PTL

-----------------------------------------------------------------------------
(* The proofs about the opportunity engine are about the part of Captures. *)
OP == INSTANCE OpportunityProofs WITH
    Symbols <- OutcomeSymbols, DayLen <- OutcomeDayLen, Quiet <- QuietFor,
    Bound <- OpenBound, Settle <- SettleAfter, MaxTime <- OutcomeMaxTime,
    clock <- oppClock, open <- oppOpen, emitted <- ranked, opened <- openedCount,
    closed <- closedCount, rows <- outcomes

LEMMA SameOutcomes ==
    /\ Outcomes!Init <=> OP!Init
    /\ Outcomes!Next <=> OP!Next
    /\ Outcomes!vars = OP!vars
<1> USE DEF
        Outcomes!Times, OP!Times, Outcomes!Move, OP!Move, Outcomes!SymbolActivity,
        OP!SymbolActivity, Outcomes!NoDay, OP!NoDay, Outcomes!MarketDay, OP!MarketDay,
        Outcomes!UtcDate, OP!UtcDate, Outcomes!Identity, OP!Identity, Outcomes!Day,
        OP!Day, Outcomes!IsOpen, OP!IsOpen, Outcomes!Key, OP!Key, Outcomes!Latest,
        OP!Latest, Outcomes!ClosedAt, OP!ClosedAt, Outcomes!Notice, OP!Notice,
        Outcomes!Cardinality, OP!Cardinality
<1>1. Outcomes!Init <=> OP!Init
  BY DEF Outcomes!NewEdges, OP!NewEdges, Outcomes!Init, OP!Init
<1>2. Outcomes!vars = OP!vars
  BY DEF
        Outcomes!engine, OP!engine, Outcomes!collector, OP!collector, Outcomes!vars,
        OP!vars
<1>3. \A gone, r : Outcomes!Rank(gone, r) = OP!Rank(gone, r)
  BY DEF Outcomes!Ranked, OP!Ranked, Outcomes!Rank, OP!Rank
<1>4. \A closes, r : Outcomes!Collect(closes, r) = OP!Collect(closes, r)
  BY DEF
        Outcomes!Visible, OP!Visible, Outcomes!Concerns, OP!Concerns, Outcomes!Marked,
        OP!Marked, Outcomes!Ranked, OP!Ranked, Outcomes!Anchor, OP!Anchor,
        Outcomes!Row, OP!Row, Outcomes!Ids, OP!Ids, Outcomes!Overflow, OP!Overflow,
        Outcomes!Collect, OP!Collect
<1>5. \A e, gone, stays, opens :
          Outcomes!Opportunities(e, gone, stays, opens) = OP!Opportunities(e, gone, stays, opens)
  BY DEF
        Outcomes!Late, OP!Late, Outcomes!Was, OP!Was, Outcomes!Edge, OP!Edge,
        Outcomes!Positive, OP!Positive, Outcomes!Levels, OP!Levels, Outcomes!Since,
        OP!Since, Outcomes!Recorded, OP!Recorded, Outcomes!Fresh, OP!Fresh,
        Outcomes!Opportunities, OP!Opportunities
<1>6. \A e, vacant : Outcomes!EdgesAfter(e, vacant) = OP!EdgesAfter(e, vacant)
  BY DEF
        Outcomes!Late, OP!Late, Outcomes!Levels, OP!Levels, Outcomes!Issued, OP!Issued,
        Outcomes!EdgesAfter, OP!EdgesAfter
<1>7. /\ \A e, due : Outcomes!Crosses(e, due) = OP!Crosses(e, due)
      /\ \A e, due : Outcomes!Stays(e, due) = OP!Stays(e, due)
      /\ \A e, due : Outcomes!Vacant(e, due) = OP!Vacant(e, due)
      /\ \A e : Outcomes!Duplicate(e) = OP!Duplicate(e)
  BY DEF
        Outcomes!Late, OP!Late, Outcomes!Crosses, OP!Crosses, Outcomes!Stays, OP!Stays,
        Outcomes!Was, OP!Was, Outcomes!Edge, OP!Edge, Outcomes!Levels, OP!Levels,
        Outcomes!Vacant, OP!Vacant, Outcomes!Issued, OP!Issued, Outcomes!Duplicate,
        OP!Duplicate
<1>8. /\ \A left : Outcomes!Victims(left) = OP!Victims(left)
      /\ \A r : Outcomes!Expired(r) = OP!Expired(r)
      /\ \A s, t, x : Outcomes!Event(s, t, x) = OP!Event(s, t, x)
      /\ Outcomes!Says = OP!Says
      /\ \A r : Outcomes!Later(r) <=> OP!Later(r)
  BY DEF
        Outcomes!Before, OP!Before, Outcomes!Victims, OP!Victims, Outcomes!Expired,
        OP!Expired, Outcomes!Event, OP!Event, Outcomes!Levels, OP!Levels,
        Outcomes!Kinds, OP!Kinds, Outcomes!Says, OP!Says, Outcomes!Later, OP!Later
<1>9. ASSUME NEW r PROVE Outcomes!Receive(r) <=> OP!Receive(r)
  <2> DEFINE
           OCloses(t, due, crossed, evicted) ==
               {Outcomes!ExpiryNotice(u, r) : u \in due}
               \cup {Outcomes!Notice(u, t, "session_boundary", r) : u \in crossed}
               \cup {Outcomes!Notice(u, t, "capacity_reached", r) : u \in evicted}
           OOpen == {u \in OutcomeSymbols : Outcomes!IsOpen(u)}
           OCrossed(e, s, due) == IF Outcomes!Crosses(e, due) THEN {s} ELSE {}
           OOpens(e, due) == Outcomes!Vacant(e, due) /\ ~Outcomes!Duplicate(e)
           OEvicted(e, s, due) ==
               IF OOpens(e, due)
               THEN Outcomes!Victims(OOpen \ (due \cup OCrossed(e, s, due))) ELSE {}
           OGone(e, s, due) == due \cup OCrossed(e, s, due) \cup OEvicted(e, s, due)
           OAll(e, s, t, due) ==
               OCloses(t, due, OCrossed(e, s, due), OEvicted(e, s, due))
           OStep(e, s, t, due) ==
               /\ Outcomes!Opportunities(e, OGone(e, s, due), Outcomes!Stays(e, due), OOpens(e, due))
               /\ edges' = Outcomes!EdgesAfter(e, Outcomes!Vacant(e, due))
               /\ Outcomes!Rank(OGone(e, s, due), r)
               /\ Outcomes!Collect(OAll(e, s, t, due), r)
               /\ notices' = notices \cup OAll(e, s, t, due)
           PCloses(t, due, crossed, evicted) ==
               {OP!ExpiryNotice(u, r) : u \in due}
               \cup {OP!Notice(u, t, "session_boundary", r) : u \in crossed}
               \cup {OP!Notice(u, t, "capacity_reached", r) : u \in evicted}
           POpen == {u \in OutcomeSymbols : OP!IsOpen(u)}
           PCrossed(e, s, due) == IF OP!Crosses(e, due) THEN {s} ELSE {}
           POpens(e, due) == OP!Vacant(e, due) /\ ~OP!Duplicate(e)
           PEvicted(e, s, due) ==
               IF POpens(e, due)
               THEN OP!Victims(POpen \ (due \cup PCrossed(e, s, due))) ELSE {}
           PGone(e, s, due) == due \cup PCrossed(e, s, due) \cup PEvicted(e, s, due)
           PAll(e, s, t, due) ==
               PCloses(t, due, PCrossed(e, s, due), PEvicted(e, s, due))
           PStep(e, s, t, due) ==
               /\ OP!Opportunities(e, PGone(e, s, due), OP!Stays(e, due), POpens(e, due))
               /\ edges' = OP!EdgesAfter(e, OP!Vacant(e, due))
               /\ OP!Rank(PGone(e, s, due), r)
               /\ OP!Collect(PAll(e, s, t, due), r)
               /\ notices' = notices \cup PAll(e, s, t, due)
  <2>1. \A t, due, crossed, evicted :
            OCloses(t, due, crossed, evicted) = PCloses(t, due, crossed, evicted)
    BY DEF Outcomes!Silence, OP!Silence, Outcomes!ExpiryNotice, OP!ExpiryNotice
  <2>2. OOpen = POpen OBVIOUS
  <2> HIDE DEF OCloses, PCloses, OOpen, POpen
  <2>3. ASSUME NEW e, NEW s, NEW t, NEW due
        PROVE  OStep(e, s, t, due) = PStep(e, s, t, due)
    <3>1. OCrossed(e, s, due) = PCrossed(e, s, due) BY <1>7
    <3>2. OOpens(e, due) = POpens(e, due) BY <1>7
    <3> HIDE DEF OCrossed, PCrossed, OOpens, POpens
    <3>3. OEvicted(e, s, due) = PEvicted(e, s, due) BY <1>8, <2>2, <3>1, <3>2
    <3> HIDE DEF OEvicted, PEvicted
    <3>4. OGone(e, s, due) = PGone(e, s, due) BY <3>1, <3>3
    <3>5. OAll(e, s, t, due) = PAll(e, s, t, due) BY <2>1, <3>1, <3>3
    <3> HIDE DEF OGone, PGone, OAll, PAll
    <3>6. Outcomes!Stays(e, due) = OP!Stays(e, due) BY <1>7
    <3>7. Outcomes!Vacant(e, due) = OP!Vacant(e, due) BY <1>7
    <3>8. Outcomes!Opportunities(e, OGone(e, s, due), Outcomes!Stays(e, due), OOpens(e, due))
            = OP!Opportunities(e, PGone(e, s, due), OP!Stays(e, due), POpens(e, due))
      BY <1>5, <3>2, <3>4, <3>6, Zenon
    <3>9. Outcomes!EdgesAfter(e, Outcomes!Vacant(e, due)) = OP!EdgesAfter(e, OP!Vacant(e, due))
      BY <1>6, <3>7, Zenon
    <3>10. Outcomes!Rank(OGone(e, s, due), r) = OP!Rank(PGone(e, s, due), r)
      BY <1>3, <3>4, Zenon
    <3>11. Outcomes!Collect(OAll(e, s, t, due), r) = OP!Collect(PAll(e, s, t, due), r)
      BY <1>4, <3>5, Zenon
    <3> QED BY <3>5, <3>8, <3>9, <3>10, <3>11, Zenon
  <2> USE DEF OCloses, PCloses, OOpen, POpen
  <2>4. Outcomes!Receive(r) <=>
            /\ Outcomes!Later(r)
            /\ \E s \in OutcomeSymbols, t \in {t \in (0..OutcomeMaxTime) : t <= r /\ r <= t + MaxLate},
                  x \in Outcomes!Says : OStep(Outcomes!Event(s, t, x), s, t, Outcomes!Expired(r))
            /\ UNCHANGED <<lifecycle, finished>>
    BY DEF Outcomes!Receive
  <2>5. OP!Receive(r) <=>
            /\ OP!Later(r)
            /\ \E s \in OutcomeSymbols, t \in {t \in (0..OutcomeMaxTime) : t <= r /\ r <= t + MaxLate},
                  x \in OP!Says : PStep(OP!Event(s, t, x), s, t, OP!Expired(r))
            /\ UNCHANGED <<lifecycle, finished>>
    BY DEF OP!Receive
  <2> HIDE DEF OStep, PStep
  <2> QED BY <1>8, <2>3, <2>4, <2>5, Zenon
<1>10. ASSUME NEW r PROVE Outcomes!Tick(r) <=> OP!Tick(r)
  <2> DEFINE OTold(due) == {Outcomes!ExpiryNotice(s, r) : s \in due}
             PTold(due) == {OP!ExpiryNotice(s, r) : s \in due}
  <2>1. \A due : OTold(due) = PTold(due)
    BY DEF Outcomes!Silence, OP!Silence, Outcomes!ExpiryNotice, OP!ExpiryNotice
  <2>2. Outcomes!Tick(r) <=>
            /\ Outcomes!Later(r)
            /\ oppOpen' = [s \in OutcomeSymbols |-> IF s \in Outcomes!Expired(r) THEN None ELSE oppOpen[s]]
            /\ byLastSeen' = byLastSeen \ {Outcomes!Key(s) : s \in Outcomes!Expired(r)}
            /\ closedCount' = closedCount + Outcomes!Cardinality(Outcomes!Expired(r))
            /\ Outcomes!Rank(Outcomes!Expired(r), r)
            /\ Outcomes!Collect(OTold(Outcomes!Expired(r)), r)
            /\ notices' = notices \cup OTold(Outcomes!Expired(r))
            /\ UNCHANGED <<lifecycle, edges, openedCount, minted, finished>>
    BY DEF Outcomes!Tick
  <2>3. OP!Tick(r) <=>
            /\ OP!Later(r)
            /\ oppOpen' = [s \in OutcomeSymbols |-> IF s \in OP!Expired(r) THEN None ELSE oppOpen[s]]
            /\ byLastSeen' = byLastSeen \ {OP!Key(s) : s \in OP!Expired(r)}
            /\ closedCount' = closedCount + OP!Cardinality(OP!Expired(r))
            /\ OP!Rank(OP!Expired(r), r)
            /\ OP!Collect(PTold(OP!Expired(r)), r)
            /\ notices' = notices \cup PTold(OP!Expired(r))
            /\ UNCHANGED <<lifecycle, edges, openedCount, minted, finished>>
    BY DEF OP!Tick
  <2> HIDE DEF OTold, PTold
  <2> QED BY <1>3, <1>4, <1>8, <2>1, <2>2, <2>3, Zenon
<1>11. \A r : Outcomes!Finish(r) <=> OP!Finish(r)
  BY DEF
        Outcomes!Later, OP!Later, Outcomes!Finish, OP!Finish, Outcomes!Visible,
        OP!Visible, Outcomes!Concerns, OP!Concerns, Outcomes!Marked, OP!Marked,
        Outcomes!Row, OP!Row
<1>12. Outcomes!Ended <=> OP!Ended
  BY DEF
        Outcomes!engine, OP!engine, Outcomes!collector, OP!collector, Outcomes!vars, OP!vars,
        Outcomes!Ended, OP!Ended
<1> QED BY <1>1, <1>2, <1>9, <1>10, <1>11, <1>12 DEF Outcomes!Next, OP!Next

(* And so are their properties.                                           *)
LEMMA SameOutcomesProperties ==
    /\ Outcomes!TypeOK <=> OP!TypeOK
    /\ Outcomes!IndexInStep <=> OP!IndexInStep
    /\ Outcomes!OpenedAreAccounted <=> OP!OpenedAreAccounted
    /\ Outcomes!NoAnchorAfterClose <=> OP!NoAnchorAfterClose
    /\ Outcomes!IdsAreNew <=> OP!IdsAreNew
    /\ Outcomes!WithinTheDay <=> OP!WithinTheDay
    /\ Outcomes!EveryAnchorHasItsRow <=> OP!EveryAnchorHasItsRow
    /\ Outcomes!LiveAgreesWithReplay <=> OP!LiveAgreesWithReplay
  BY DEF Outcomes!Instants, OP!Instants, Outcomes!Reasons, OP!Reasons, Outcomes!TypeOK,
        OP!TypeOK, Outcomes!IndexInStep, OP!IndexInStep, Outcomes!OpenedAreAccounted,
        OP!OpenedAreAccounted, Outcomes!Measures, OP!Measures, Outcomes!Anchors,
        OP!Anchors, Outcomes!NoAnchorAfterClose, OP!NoAnchorAfterClose,
        Outcomes!IdsAreNew, OP!IdsAreNew, Outcomes!WithinTheDay, OP!WithinTheDay,
        Outcomes!EveryAnchorHasItsRow, OP!EveryAnchorHasItsRow, Outcomes!Replayed,
        OP!Replayed, Outcomes!LiveAgreesWithReplay, OP!LiveAgreesWithReplay,
        Outcomes!Times, OP!Times, Outcomes!Move, OP!Move, Outcomes!SymbolActivity,
        OP!SymbolActivity, Outcomes!MarketDay, OP!MarketDay, Outcomes!IsOpen, OP!IsOpen,
        Outcomes!Key, OP!Key, Outcomes!Ids, OP!Ids, Outcomes!Visible, OP!Visible,
        Outcomes!Cardinality, OP!Cardinality

(* A step of the composition is a step of that part, or leaves it alone.   *)
LEMMA StepOutcomes ==
    [CapturesNext]_<<part, vars, observationVars, outcomeVars>> => [OP!Next]_(OP!vars)
<1>1. UNCHANGED outcomeVars => UNCHANGED OP!vars
  BY DEF outcomeVars, OP!vars, OP!engine, OP!collector
<1> QED BY <1>1, SameOutcomes DEF CapturesNext

(* The opportunity engine and its outcomes stay true, whatever the other   *)
(* captures do.                                                            *)
THEOREM OpportunitiesAreTrueAlways == CapturesSpec => []OpportunitiesAreTrue
<1>1. OP!Configured
  BY OutcomesAssumption
  DEF OP!Configured, OP!Opportunity, OP!Times, IsFiniteSet, OP!IsFiniteSet
<1>2. CapturesInit => OP!IInv
  <2>1. CapturesInit => OP!Init BY SameOutcomes DEF CapturesInit
  <2> QED BY <1>1, <2>1, OP!InitInvariant
<1>3. OP!IInv /\ [CapturesNext]_<<part, vars, observationVars, outcomeVars>> => OP!IInv'
  BY <1>1, StepOutcomes, OP!StepInvariant
<1>4. OP!IInv => OpportunitiesAreTrue
  BY <1>1, OP!EachHasItsRow, OP!TypesHold, SameOutcomesProperties
  DEF OP!IInv, OpportunitiesAreTrue
<1> QED BY <1>2, <1>3, <1>4, PTL DEF CapturesSpec
=============================================================================
