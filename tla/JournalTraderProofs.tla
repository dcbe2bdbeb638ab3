------------------------- MODULE JournalTraderProofs -------------------------
(***************************************************************************)
(* What holds of the journal-mode trader for every set of symbols, every   *)
(* price, capacity and duration, and however many faults: its types, that  *)
(* the book in memory is the one a restart would read back, that the slots *)
(* are kept, that a symbol is entered once a day, and that no verdict is   *)
(* lost but to a fault between two rows of one bar.                        *)
(*                                                                         *)
(* The inductive invariant IInv says what the rows that wait to be         *)
(* appended mean: replayed over the journal they give the book in memory,  *)
(* and each of them is a row the journal may take.  VInv adds what the     *)
(* bars make of a position, and which of them are still to come.           *)
(***************************************************************************)
EXTENDS JournalTrader, FiniteSetTheorems, SequenceTheorems, TLAPS

-----------------------------------------------------------------------------
Events == {e \in [kind : {"bar", "momentum", "signal"}, sym : Symbols, at : Int,
                  val : Closes \cup Levels \cup Asked] :
              /\ e.kind = "bar" => e.val \in Closes
              /\ e.kind = "momentum" => e.val \in Levels
              /\ e.kind = "signal" => e.val \in Asked}

(* p is the position the journal keeps as d; only the last bar p has seen  *)
(* may be younger, since a bar that changes nothing writes no row.         *)
SamePosition(p, d) ==
    \/ p = None /\ d = None
    \/ /\ p # None /\ d # None
       /\ p.at = d.at /\ p.entry = d.entry /\ p.high = d.high
       /\ p.managed >= d.managed

SameBook(m, d) == /\ m.day = d.day /\ m.closed = d.closed
                  /\ \A s \in Symbols : SamePosition(m.pos[s], d.pos[s])

(* The journal's book once the rows are appended, of which there are two   *)
(* at most.                                                                *)
Appended(book, rows) ==
    IF rows = <<>> THEN book
    ELSE IF Len(rows) = 1 THEN Replay(book, rows[1])
    ELSE Replay(Replay(book, rows[1]), rows[2])

(* A row the book may take: it opens a symbol that is not held, not yet    *)
(* entered that day, and for which there is a slot, and closes or raises   *)
(* only what is held.                                                      *)
Takes(book, r) ==
    /\ r.kind = "entered" => /\ book.pos[r.sym] = None
                             /\ book.day[r.sym] # Day(r.at)
                             /\ Cardinality(Held(book)) < MaxConcurrent
    /\ r.kind \in {"exited", "stop"} => book.pos[r.sym] # None

TakesAll(book, rows) ==
    /\ rows # <<>> => Takes(book, rows[1])
    /\ Len(rows) = 2 => /\ rows[1].kind = "stop" /\ rows[2].kind = "exited"
                        /\ rows[1].sym = rows[2].sym

(* The engine's book and the rows it leaves to append to the journal.      *)
Decided(m, b, rows) ==
    /\ m \in Books /\ rows \in Seq(Rows) /\ Len(rows) <= 2
    /\ SameBook(m, Appended(b, rows)) /\ TakesAll(b, rows)

WireTyped == wire \in Seq(Events)
BacklogTraded == \A b \in backlog : close[b[1]][b[2]] # None
DownIsIdle == link = "down" => pending = <<>>
MemoryIsAppended == link # "down" => SameBook(mem, Appended(disk, pending))
RowsTaken == TakesAll(disk, pending)
BooksOK == DownIsIdle /\ MemoryIsAppended /\ RowsTaken /\ WithinSlots

IInv == TypeOK /\ WireTyped /\ BacklogTraded /\ BooksOK

-----------------------------------------------------------------------------
(* What one row does to a book: seed_from_history, row by row.             *)

(* A calendar day is a number.                                             *)
LEMMA DayIsInt == ASSUME NEW t \in Int PROVE Day(t) \in Int
  BY DurationAssumption DEF Day

(* A position is not the absence of one.                                   *)
LEMMA NoneIsNoPosition == ASSUME NEW p \in Position PROVE p # None
  BY NoPositionAssumption

Opened(r) == [at |-> r.at, entry |-> r.val, high |-> r.val, managed |-> r.at]

(* An entered row opens a position.                                        *)
LEMMA OpenedIsPosition ==
    ASSUME NEW r \in Rows PROVE Opened(r) \in Position
  BY DEF Rows, Opened, Position

Entering(m, r) == [m EXCEPT !.pos[r.sym] = Opened(r), !.day[r.sym] = Day(r.at)]
Closing(m, s) == [m EXCEPT !.pos[s] = None, !.closed = @ + 1]

(* The types of the parts of a book.                                       *)
LEMMA BookParts ==
    ASSUME NEW b \in Books
    PROVE  /\ b.pos \in [Symbols -> Position \cup {None}]
           /\ b.day \in [Symbols -> Int \cup {None}]
           /\ b.closed \in Nat
  BY DEF Books

(* A book is its three parts.                                              *)
LEMMA BookRecord ==
    ASSUME NEW b \in Books
    PROVE  b = [pos |-> b.pos, day |-> b.day, closed |-> b.closed]
  BY DEF Books

(* What the entry of a row does to each part of a book.                    *)
LEMMA EnteringFacts ==
    ASSUME NEW m \in Books, NEW r \in Rows
    PROVE  /\ Entering(m, r).pos = [m.pos EXCEPT ![r.sym] = Opened(r)]
           /\ Entering(m, r).day = [m.day EXCEPT ![r.sym] = Day(r.at)]
           /\ Entering(m, r).closed = m.closed
  <1> DEFINE P == [m.pos EXCEPT ![r.sym] = Opened(r)]
             D == [m.day EXCEPT ![r.sym] = Day(r.at)]
  <1>1. Entering(m, r) = [m EXCEPT !.pos = P, !.day = D] BY DEF Entering
  <1>2. r.at \in Int BY DEF Rows
  <1>3. Opened(r) \in Position /\ Day(r.at) \in Int BY <1>2, OpenedIsPosition, DayIsInt
  <1>4. P \in [Symbols -> Position \cup {None}] BY <1>3, BookParts
  <1>5. D \in [Symbols -> Int \cup {None}] BY <1>3, BookParts
  <1> HIDE DEF P, D
  <1>6. Entering(m, r) = [pos |-> P, day |-> D, closed |-> m.closed]
    BY <1>1, BookRecord
  <1> QED BY <1>6 DEF P, D

(* What a close does to each part of a book.                               *)
LEMMA ClosingFacts ==
    ASSUME NEW m \in Books, NEW s \in Symbols
    PROVE  /\ Closing(m, s).pos = [m.pos EXCEPT ![s] = None]
           /\ Closing(m, s).day = m.day
           /\ Closing(m, s).closed = m.closed + 1
  <1> DEFINE P == [m.pos EXCEPT ![s] = None]
  <1>1. Closing(m, s) = [m EXCEPT !.pos = P, !.closed = @ + 1] BY DEF Closing
  <1>2. P \in [Symbols -> Position \cup {None}] BY BookParts
  <1>3. m.closed + 1 \in Nat BY BookParts
  <1> HIDE DEF P
  <1>4. Closing(m, s) = [pos |-> P, day |-> m.day, closed |-> m.closed + 1]
    BY <1>1, BookRecord
  <1> QED BY <1>4 DEF P

(* A book stays one through an entry.                                      *)
LEMMA EnteringTyped ==
    ASSUME NEW m \in Books, NEW r \in Rows PROVE Entering(m, r) \in Books
  <1> DEFINE P == [m.pos EXCEPT ![r.sym] = Opened(r)]
             D == [m.day EXCEPT ![r.sym] = Day(r.at)]
  <1>1. Entering(m, r) = [m EXCEPT !.pos = P, !.day = D] BY DEF Entering
  <1>2. Opened(r) \in Position /\ Day(r.at) \in Int BY OpenedIsPosition, DayIsInt DEF Rows
  <1>3. /\ P \in [Symbols -> Position \cup {None}]
        /\ D \in [Symbols -> Int \cup {None}]
    BY <1>2, BookParts
  <1> HIDE DEF P, D
  <1> QED BY <1>1, <1>3 DEF Books

(* A book stays one through a close.                                       *)
LEMMA ClosingTyped ==
    ASSUME NEW m \in Books, NEW s \in Symbols PROVE Closing(m, s) \in Books
  <1> DEFINE P == [m.pos EXCEPT ![s] = None]
  <1>1. Closing(m, s) = [m EXCEPT !.pos = P, !.closed = @ + 1] BY DEF Closing
  <1>2. P \in [Symbols -> Position \cup {None}] /\ m.closed + 1 \in Nat BY BookParts
  <1> HIDE DEF P
  <1> QED BY <1>1, <1>2 DEF Books

(* An entered row, replayed.                                               *)
LEMMA ReplayEntered ==
    ASSUME NEW b \in Books, NEW r \in Rows, r.kind = "entered"
    PROVE  /\ Replay(b, r).pos = [b.pos EXCEPT ![r.sym] = Opened(r)]
           /\ Replay(b, r).day = [b.day EXCEPT ![r.sym] = Day(r.at)]
           /\ Replay(b, r).closed = b.closed
  <1>1. Replay(b, r) = Entering(b, r) BY DEF Replay, Entering, Opened
  <1> QED BY <1>1, EnteringFacts

(* An exited row, replayed.                                                *)
LEMMA ReplayExited ==
    ASSUME NEW b \in Books, NEW r \in Rows, r.kind = "exited"
    PROVE  /\ Replay(b, r).pos = [b.pos EXCEPT ![r.sym] = None]
           /\ Replay(b, r).day = b.day
           /\ Replay(b, r).closed = b.closed + 1
  <1>1. Replay(b, r) = Closing(b, r.sym) BY DEF Replay, Closing
  <1> QED BY <1>1, ClosingFacts DEF Rows

Raised(p, r) == [p EXCEPT !.high = IF r.val > @ THEN r.val ELSE @,
                          !.managed = IF r.at > @ THEN r.at ELSE @]

(* A raised stop leaves a position.                                        *)
LEMMA RaisedIsPosition ==
    ASSUME NEW p \in Position, NEW r \in Rows
    PROVE  Raised(p, r) \in Position
  BY DEF Raised, Position, Rows

(* A stop row of a held symbol, replayed.                                  *)
LEMMA ReplayStop ==
    ASSUME NEW b \in Books, NEW r \in Rows, r.kind = "stop", b.pos[r.sym] # None
    PROVE  /\ Replay(b, r).pos = [b.pos EXCEPT ![r.sym] = Raised(b.pos[r.sym], r)]
           /\ Replay(b, r).day = b.day
           /\ Replay(b, r).closed = b.closed
  <1> DEFINE P == [b.pos EXCEPT ![r.sym] = Raised(b.pos[r.sym], r)]
  <1>1. r.sym \in Symbols /\ b.pos[r.sym] \in Position BY BookParts DEF Rows
  <1>2. Raised(b.pos[r.sym], r) \in Position BY <1>1, RaisedIsPosition
  <1>3. Replay(b, r) = [b EXCEPT !.pos = P]
    BY <1>1, ZenonT(30) DEF Replay, Raised, Position
  <1> HIDE DEF P
  <1>4. Replay(b, r) = [pos |-> P, day |-> b.day, closed |-> b.closed]
    BY <1>3, BookRecord
  <1> QED BY <1>4 DEF P

(* The rows seed_from_history ignores.                                     *)
LEMMA ReplayOther ==
    ASSUME NEW b \in Books, NEW r \in Rows,
           r.kind \notin {"entered", "exited"},
           r.kind = "stop" => b.pos[r.sym] = None
    PROVE  Replay(b, r) = b
  BY DEF Replay

(* A book stays one through any row.                                       *)
LEMMA ReplayTyped ==
    ASSUME NEW b \in Books, NEW r \in Rows PROVE Replay(b, r) \in Books
  <1>1. CASE r.kind = "entered"
    <2>1. Replay(b, r) = Entering(b, r) BY <1>1 DEF Replay, Entering, Opened
    <2> QED BY <2>1, EnteringTyped
  <1>2. CASE r.kind = "exited"
    <2>1. Replay(b, r) = Closing(b, r.sym) BY <1>2 DEF Replay, Closing
    <2> QED BY <2>1, ClosingTyped DEF Rows
  <1>3. CASE r.kind = "stop" /\ b.pos[r.sym] # None
    <2>1. r.sym \in Symbols /\ b.pos[r.sym] \in Position BY <1>3, BookParts DEF Rows
    <2>2. Raised(b.pos[r.sym], r) \in Position BY <2>1, RaisedIsPosition
    <2> DEFINE P == [b.pos EXCEPT ![r.sym] = Raised(b.pos[r.sym], r)]
    <2>3. Replay(b, r) = [b EXCEPT !.pos = P]
      BY <1>3, <2>1, ZenonT(30) DEF Replay, Raised, Position
    <2>4. P \in [Symbols -> Position \cup {None}] BY <2>2, BookParts
    <2> HIDE DEF P
    <2> QED BY <2>3, <2>4 DEF Books
  <1>4. CASE r.kind \notin {"entered", "exited"} /\ (r.kind = "stop" => b.pos[r.sym] = None)
    BY <1>4, ReplayOther
  <1> QED BY <1>1, <1>2, <1>3, <1>4

(* Nothing but an entry adds a held symbol, and an entry adds its own.     *)
LEMMA HeldFinite ==
    ASSUME NEW b \in Books PROVE IsFiniteSet(Held(b))
  BY SymbolsAssumption, FS_Subset DEF Held

(* A row the journal may take keeps it within its slots.                   *)
LEMMA ReplayHeld ==
    ASSUME NEW b \in Books, NEW r \in Rows, Takes(b, r),
           Cardinality(Held(b)) <= MaxConcurrent
    PROVE  Cardinality(Held(Replay(b, r))) <= MaxConcurrent
  <1>1. CASE r.kind = "entered"
    <2>1. r.sym \in Symbols /\ Opened(r) # None
      BY OpenedIsPosition, NoneIsNoPosition DEF Rows
    <2>0. Replay(b, r).pos = [b.pos EXCEPT ![r.sym] = Opened(r)]
      BY <1>1, ReplayEntered
    <2>2. Held(Replay(b, r)) = Held(b) \cup {r.sym}
      <3> DEFINE P == b.pos
      <3>1. P \in [Symbols -> Position \cup {None}] BY BookParts
      <3> HIDE DEF P
      <3>2. Replay(b, r).pos = [P EXCEPT ![r.sym] = Opened(r)] BY <2>0 DEF P
      <3>3. \A s \in Symbols : Replay(b, r).pos[s] = IF s = r.sym THEN Opened(r) ELSE P[s]
        BY <3>1, <3>2, <2>1
      <3>4. Held(b) = {s \in Symbols : P[s] # None} BY DEF Held, P
      <3> QED BY <3>3, <3>4, <2>1 DEF Held
    <2>3. IsFiniteSet(Held(b)) BY HeldFinite
    <2>4. /\ Cardinality(Held(b)) \in Nat /\ Cardinality(Held(b) \cup {r.sym}) \in Nat
          /\ Cardinality(Held(b) \cup {r.sym}) <= Cardinality(Held(b)) + 1
      <3>1. /\ IsFiniteSet(Held(b) \cup {r.sym})
            /\ Cardinality(Held(b) \cup {r.sym}) =
                  IF r.sym \in Held(b) THEN Cardinality(Held(b)) ELSE Cardinality(Held(b)) + 1
        BY <2>3, FS_AddElement
      <3>2. Cardinality(Held(b)) \in Nat BY <2>3, FS_CardinalityType
      <3> QED BY <3>1, <3>2
    <2>5. Cardinality(Held(b)) < MaxConcurrent BY <1>1 DEF Takes
    <2> QED BY <2>2, <2>4, <2>5, MaxConcurrentAssumption
  <1>2. CASE r.kind # "entered"
    <2>0. \A s \in Symbols : Replay(b, r).pos[s] # None => b.pos[s] # None
      <3>1. CASE r.kind = "exited" BY <3>1, ReplayExited, BookParts, ZenonT(30)
      <3>2. CASE r.kind = "stop" /\ b.pos[r.sym] # None BY <3>2, ReplayStop, BookParts, ZenonT(30)
      <3>3. CASE r.kind # "exited" /\ ~(r.kind = "stop" /\ b.pos[r.sym] # None)
        BY <1>2, <3>3, ReplayOther
      <3> QED BY <3>1, <3>2, <3>3
    <2>1. Held(Replay(b, r)) \subseteq Held(b) BY <2>0 DEF Held
    <2>2. Cardinality(Held(Replay(b, r))) <= Cardinality(Held(b))
      BY <2>1, HeldFinite, FS_Subset
    <2>3. /\ Cardinality(Held(b)) \in Nat /\ Cardinality(Held(Replay(b, r))) \in Nat
      BY HeldFinite, ReplayTyped, FS_CardinalityType
    <2> QED BY <2>2, <2>3, MaxConcurrentAssumption
  <1> QED BY <1>1, <1>2

-----------------------------------------------------------------------------
(* Memory and journal make the same step.                                  *)

(* An entry in memory, and its row on the journal.                         *)
LEMMA EnteredAlike ==
    ASSUME NEW m \in Books, NEW b \in Books, SameBook(m, b),
           NEW r \in Rows, r.kind = "entered"
    PROVE  SameBook(Entering(m, r), Replay(b, r))
  <1>1. /\ Entering(m, r).pos = [m.pos EXCEPT ![r.sym] = Opened(r)]
        /\ Entering(m, r).day = [m.day EXCEPT ![r.sym] = Day(r.at)]
        /\ Entering(m, r).closed = m.closed
    BY EnteringFacts
  <1>2. /\ Replay(b, r).pos = [b.pos EXCEPT ![r.sym] = Opened(r)]
        /\ Replay(b, r).day = [b.day EXCEPT ![r.sym] = Day(r.at)]
        /\ Replay(b, r).closed = b.closed
    BY ReplayEntered
  <1>3. /\ m.day = b.day /\ m.closed = b.closed
        /\ \A s \in Symbols : SamePosition(m.pos[s], b.pos[s])
    BY DEF SameBook
  <1>4. SamePosition(Opened(r), Opened(r))
    BY OpenedIsPosition, NoneIsNoPosition DEF SamePosition, Position
  <1>5. m.pos \in [Symbols -> Position \cup {None}] BY BookParts
  <1>6. b.pos \in [Symbols -> Position \cup {None}] BY BookParts
  <1>7. \A s \in Symbols : SamePosition(Entering(m, r).pos[s], Replay(b, r).pos[s])
    BY <1>1, <1>2, <1>3, <1>4, <1>5, <1>6
  <1> QED BY <1>1, <1>2, <1>3, <1>7 DEF SameBook

(* A close in memory, and its row on the journal.                          *)
LEMMA ClosedAlike ==
    ASSUME NEW m \in Books, NEW b \in Books, SameBook(m, b),
           NEW r \in Rows, r.kind = "exited"
    PROVE  SameBook(Closing(m, r.sym), Replay(b, r))
  <1>0. r.sym \in Symbols BY DEF Rows
  <1>1. /\ Closing(m, r.sym).pos = [m.pos EXCEPT ![r.sym] = None]
        /\ Closing(m, r.sym).day = m.day
        /\ Closing(m, r.sym).closed = m.closed + 1
    BY <1>0, ClosingFacts
  <1>2. /\ Replay(b, r).pos = [b.pos EXCEPT ![r.sym] = None]
        /\ Replay(b, r).day = b.day
        /\ Replay(b, r).closed = b.closed + 1
    BY ReplayExited
  <1>3. /\ m.day = b.day /\ m.closed = b.closed
        /\ \A s \in Symbols : SamePosition(m.pos[s], b.pos[s])
    BY DEF SameBook
  <1>4. SamePosition(None, None) BY DEF SamePosition
  <1>5. m.pos \in [Symbols -> Position \cup {None}] BY BookParts
  <1>6. b.pos \in [Symbols -> Position \cup {None}] BY BookParts
  <1>7. \A s \in Symbols : SamePosition(Closing(m, r.sym).pos[s], Replay(b, r).pos[s])
    BY <1>1, <1>2, <1>3, <1>4, <1>5, <1>6
  <1> QED BY <1>1, <1>2, <1>3, <1>7 DEF SameBook

(* A raised stop followed by the exit leaves what the exit alone leaves.   *)
LEMMA StopThenClosed ==
    ASSUME NEW m \in Books, NEW b \in Books, SameBook(m, b),
           NEW p \in Rows, p.kind = "stop", b.pos[p.sym] # None,
           NEW r \in Rows, r.kind = "exited", r.sym = p.sym
    PROVE  SameBook(Closing(m, r.sym), Replay(Replay(b, p), r))
  <1>0. r.sym \in Symbols /\ Replay(b, p) \in Books BY ReplayTyped DEF Rows
  <1>1. /\ Replay(b, p).pos = [b.pos EXCEPT ![r.sym] = Raised(b.pos[r.sym], p)]
        /\ Replay(b, p).day = b.day
        /\ Replay(b, p).closed = b.closed
    BY ReplayStop
  <1>2. /\ Replay(Replay(b, p), r).pos = [Replay(b, p).pos EXCEPT ![r.sym] = None]
        /\ Replay(Replay(b, p), r).day = b.day
        /\ Replay(Replay(b, p), r).closed = b.closed + 1
    BY <1>0, <1>1, ReplayExited
  <1>3. b.pos \in [Symbols -> Position \cup {None}] BY BookParts
  <1>4. Replay(Replay(b, p), r).pos = [b.pos EXCEPT ![r.sym] = None]
    BY <1>1, <1>2, <1>3
  <1>5. /\ m.day = b.day /\ m.closed = b.closed
        /\ \A s \in Symbols : SamePosition(m.pos[s], b.pos[s])
    BY DEF SameBook
  <1>6. /\ Closing(m, r.sym).pos = [m.pos EXCEPT ![r.sym] = None]
        /\ Closing(m, r.sym).day = m.day
        /\ Closing(m, r.sym).closed = m.closed + 1
    BY <1>0, ClosingFacts
  <1>7. m.pos \in [Symbols -> Position \cup {None}] BY BookParts
  <1>8. SamePosition(None, None) BY DEF SamePosition
  <1>9. \A s \in Symbols : SamePosition(Closing(m, r.sym).pos[s], Replay(Replay(b, p), r).pos[s])
    BY <1>3, <1>4, <1>5, <1>6, <1>7, <1>8
  <1> QED BY <1>2, <1>5, <1>6, <1>9 DEF SameBook

-----------------------------------------------------------------------------
(* What the engine decides of one event.                                   *)

(* An event that changes nothing leaves no row.                            *)
LEMMA DecidesNothing ==
    ASSUME NEW m \in Books, NEW b \in Books, SameBook(m, b)
    PROVE  Decided(m, b, <<>>)
  BY DEF Decided, Appended, TakesAll

(* An event that leaves one row the journal may take.                      *)
LEMMA DecidesRow ==
    ASSUME NEW m \in Books, NEW b \in Books, NEW r \in Rows,
           SameBook(m, Replay(b, r)), Takes(b, r)
    PROVE  Decided(m, b, <<r>>)
  <1>1. /\ <<r>> \in Seq(Rows) /\ Len(<<r>>) = 1 /\ <<r>>[1] = r /\ <<r>> # <<>>
    OBVIOUS
  <1>2. Appended(b, <<r>>) = Replay(b, r) BY <1>1 DEF Appended
  <1>3. TakesAll(b, <<r>>) BY <1>1 DEF TakesAll
  <1> QED BY <1>1, <1>2, <1>3 DEF Decided

(* A bar that raises the stop and closes leaves two rows.                  *)
LEMMA DecidesPair ==
    ASSUME NEW m \in Books, NEW b \in Books, NEW p \in Rows, NEW r \in Rows,
           p.kind = "stop", r.kind = "exited", p.sym = r.sym, Takes(b, p),
           SameBook(m, Replay(Replay(b, p), r))
    PROVE  Decided(m, b, <<p, r>>)
  <1>1. /\ <<p, r>> \in Seq(Rows) /\ Len(<<p, r>>) = 2 /\ <<p, r>> # <<>>
        /\ <<p, r>>[1] = p /\ <<p, r>>[2] = r
    OBVIOUS
  <1>2. Appended(b, <<p, r>>) = Replay(Replay(b, p), r) BY <1>1 DEF Appended
  <1>3. TakesAll(b, <<p, r>>) BY <1>1 DEF TakesAll
  <1> QED BY <1>1, <1>2, <1>3 DEF Decided

(* The rows the handlers write are rows.                                   *)
LEMMA RowTyped ==
    ASSUME NEW kind \in Kinds, NEW s \in Symbols, NEW t \in Int, NEW v \in Int,
           NEW why \in {"target", "stop", "timeout", "momentum", None}
    PROVE  /\ Row(kind, s, t, v, why) \in Rows
           /\ Row(kind, s, t, v, why).kind = kind
           /\ Row(kind, s, t, v, why).sym = s
           /\ Row(kind, s, t, v, why).at = t
           /\ Row(kind, s, t, v, why).val = v
  BY DEF Row, Rows

(* A refused entry leaves memory and journal alike.                        *)
LEMMA SkipDecides ==
    ASSUME mem \in Books, disk \in Books, SameBook(mem, disk),
           NEW s \in Symbols, NEW t \in Int, Skip(s, t)
    PROVE  Decided(mem', disk, pending')
  <1> DEFINE r == Row("skipped", s, t, 0, None)
  <1>1. r \in Rows /\ r.kind = "skipped" BY RowTyped DEF Kinds
  <1>2. mem' = mem /\ pending' = <<r>> BY DEF Skip
  <1> HIDE DEF r
  <1>3. Replay(disk, r) = disk BY <1>1, ReplayOther
  <1>4. Takes(disk, r) BY <1>1 DEF Takes
  <1>5. SameBook(mem, Replay(disk, r)) BY <1>3
  <1> QED BY <1>1, <1>2, <1>4, <1>5, DecidesRow

(* try_enter leaves a row that is taken, or a refusal.                     *)
LEMMA TryEnterDecides ==
    ASSUME mem \in Books, disk \in Books, SameBook(mem, disk),
           NEW s \in Symbols, NEW price \in Int, NEW t \in Int, NEW level,
           TryEnter(s, price, t, level)
    PROVE  Decided(mem', disk, pending')
  <1> DEFINE r == Row("entered", s, t, price, None)
  <1>1. CASE Skip(s, t) BY <1>1, SkipDecides
  <1>2. CASE /\ Gates(s, t, level) /\ mem' = Entering(mem, r) /\ pending' = <<r>>
    <2>1. r \in Rows /\ r.kind = "entered" /\ r.sym = s /\ r.at = t
      BY RowTyped DEF Kinds
    <2> HIDE DEF r
    <2>2. Held(mem) = Held(disk) BY DEF Held, SameBook, SamePosition
    <2>3. Takes(disk, r)
      BY <1>2, <2>1, <2>2 DEF Gates, Takes, SameBook, SamePosition
    <2>4. SameBook(Entering(mem, r), Replay(disk, r)) BY <2>1, EnteredAlike
    <2>5. Entering(mem, r) \in Books BY <2>1, EnteringTyped
    <2>6. Decided(Entering(mem, r), disk, <<r>>) BY <2>1, <2>3, <2>4, <2>5, DecidesRow
    <2> QED BY <1>2, <2>6
  <1>3. CASE /\ Gates(s, t, level)
             /\ mem' = [mem EXCEPT !.pos[s] = [at |-> t, entry |-> price,
                                               high |-> price, managed |-> t],
                                   !.day[s] = Day(t)]
             /\ pending' = <<r>>
    <2>1. r.sym = s /\ r.at = t /\ r.val = price BY RowTyped DEF Kinds
    <2>2. Opened(r) = [at |-> t, entry |-> price, high |-> price, managed |-> t]
      BY <2>1 DEF Opened
    <2>3. mem' = Entering(mem, r) BY <1>3, <2>1, <2>2 DEF Entering
    <2> QED BY <1>2, <1>3, <2>3
  <1> QED BY <1>1, <1>3 DEF TryEnter

(* A position closed by its momentum.                                      *)
LEMMA CloseDecides ==
    ASSUME mem \in Books, disk \in Books, SameBook(mem, disk),
           NEW r \in Rows, r.kind = "exited", mem.pos[r.sym] # None,
           mem' = ClosePosition(r.sym), pending' = <<r>>
    PROVE  Decided(mem', disk, pending')
  <1>1. mem' = Closing(mem, r.sym) BY DEF ClosePosition, Closing
  <1>2. r.sym \in Symbols BY DEF Rows
  <1>3. Takes(disk, r) BY <1>2 DEF Takes, SameBook, SamePosition
  <1>4. SameBook(Closing(mem, r.sym), Replay(disk, r)) BY ClosedAlike
  <1>5. Closing(mem, r.sym) \in Books BY <1>2, ClosingTyped
  <1>6. Decided(Closing(mem, r.sym), disk, <<r>>) BY <1>3, <1>4, <1>5, DecidesRow
  <1> QED BY <1>1, <1>6

(* The momentum cache keeps its type.                                      *)
LEMMA CachesTyped ==
    ASSUME NEW c \in Caches
    PROVE  /\ c.price \in Int \cup {None} /\ c.barAt \in Int \cup {None}
           /\ c.level \in Levels \cup {None}
           /\ c.side \in {"above", "below", None}
           /\ c = [level |-> c.level, side |-> c.side, price |-> c.price, barAt |-> c.barAt]
  BY DEF Caches

(* The price cache keeps its type.                                         *)
LEMMA PricedCaches ==
    ASSUME NEW c \in Caches, NEW v \in Int, NEW t \in Int
    PROVE  [c EXCEPT !.price = v, !.barAt = t - 1] \in Caches
  <1> DEFINE N == Int \cup {None}
             u == t - 1
  <1>1. v \in N /\ u \in N OBVIOUS
  <1>2. Caches = [level : Levels \cup {None}, side : {"above", "below", None},
                  price : N, barAt : N]
    BY DEF Caches
  <1> HIDE DEF N, u
  <1>3. [c EXCEPT !.price = v, !.barAt = u] \in Caches BY <1>1, <1>2
  <1> QED BY <1>3 DEF u

(* on_momentum, in all its branches.                                       *)
LEMMA MomentumDecides ==
    ASSUME mem \in Books, disk \in Books, SameBook(mem, disk),
           seen \in [Symbols -> Caches], pending = <<>>,
           NEW e \in Events, e.kind = "momentum", OnMomentum(e)
    PROVE  Decided(mem', disk, pending') /\ seen' \in [Symbols -> Caches]
  <1> DEFINE s == e.sym
  <1>1. s \in Symbols /\ e.at \in Int /\ e.val \in Levels BY DEF Events
  <1>2. seen[s].price \in Int \cup {None} BY <1>1, CachesTyped
  <1>3. seen' \in [Symbols -> Caches]
    <2> DEFINE side == IF e.val = "strong" THEN "above" ELSE "below"
    <2>1. seen' = [seen EXCEPT ![s] = [@ EXCEPT !.level = e.val, !.side = side]]
      BY DEF OnMomentum
    <2>2. side \in {"above", "below", None} OBVIOUS
    <2> HIDE DEF side
    <2>3. seen[s] \in Caches BY <1>1
    <2>4. [seen[s] EXCEPT !.level = e.val, !.side = side] \in Caches
      BY <1>1, <2>2, <2>3 DEF Caches
    <2> QED BY <2>1, <2>4, <1>1
  <1>4. CASE /\ mem.pos[s] # None /\ seen[s].price # None
             /\ mem' = ClosePosition(s)
             /\ pending' = <<Row("exited", s, e.at, seen[s].price, "momentum")>>
    <2> DEFINE r == Row("exited", s, e.at, seen[s].price, "momentum")
    <2>1. r \in Rows /\ r.kind = "exited" /\ r.sym = s
      BY <1>1, <1>2, <1>4, RowTyped DEF Kinds
    <2>2. pending' = <<r>> /\ mem' = ClosePosition(r.sym) /\ mem.pos[r.sym] # None
      BY <1>4, <2>1
    <2> HIDE DEF r
    <2>3. Decided(mem', disk, pending') BY <2>1, <2>2, CloseDecides
    <2> QED BY <1>3, <2>3
  <1>5. CASE FreshPrice(s, e.at) /\ TryEnter(s, seen[s].price, e.at, e.val)
    <2>1. seen[s].price \in Int BY <1>2, <1>5 DEF FreshPrice
    <2>2. Decided(mem', disk, pending') BY <1>1, <1>5, <2>1, TryEnterDecides
    <2> QED BY <1>3, <2>2
  <1>6. CASE Skip(s, e.at)
    <2>1. Decided(mem', disk, pending') BY <1>1, <1>6, SkipDecides
    <2> QED BY <1>3, <2>1
  <1>7. CASE UNCHANGED <<mem, pending>> /\ pending = <<>>
    <2>1. Decided(mem', disk, pending') BY <1>7, DecidesNothing
    <2> QED BY <1>3, <2>1
  <1> QED BY <1>4, <1>5, <1>6, <1>7 DEF OnMomentum

(* A second row behind a first.                                            *)
LEMMA AppendToOne ==
    ASSUME NEW S, NEW a \in S, NEW b \in S PROVE Append(<<a>>, b) = <<a, b>>
  <1> DEFINE s == Append(<<a>>, b)
             t == <<a, b>>
  <1>1. <<a>> \in Seq(S) /\ Len(<<a>>) = 1 /\ <<a>>[1] = a OBVIOUS
  <1>2. t \in Seq(S) /\ Len(t) = 2 /\ t[1] = a /\ t[2] = b OBVIOUS
  <1>3. s \in Seq(S) /\ Len(s) = 2 /\ s[1] = a /\ s[2] = b BY <1>1
  <1> HIDE DEF s, t
  <1>4. \A i \in 1 .. Len(s) : i = 1 \/ i = 2 BY <1>3
  <1>5. \A i \in 1 .. Len(s) : s[i] = t[i] BY <1>2, <1>3, <1>4
  <1>6. s = t BY <1>2, <1>3, <1>5, SeqEqual
  <1> QED BY <1>6 DEF s, t

(* Prices are numbers.                                                     *)
LEMMA PriceIsInt == ASSUME NEW c \in Closes PROVE c \in Int
  BY PriceAssumption

(* A held position stays held: the row for a raised stop, if there is one, *)
(* carries the new high and the time of the bar.                           *)
LEMMA HoldDecides ==
    ASSUME mem \in Books, disk \in Books, SameBook(mem, disk),
           NEW s \in Symbols, NEW t \in Int, NEW c \in Int,
           mem.pos[s] # None, t > mem.pos[s].managed,
           NEW q, q = [mem.pos[s] EXCEPT !.high = IF c > mem.pos[s].high THEN c ELSE @,
                                         !.managed = t],
           mem' = [mem EXCEPT !.pos[s] = q],
           pending' = IF c > mem.pos[s].high
                      THEN <<Row("stop", s, t, c, None)>> ELSE <<>>
    PROVE  Decided(mem', disk, pending')
  <1> DEFINE p == mem.pos[s]
             d == disk.pos[s]
             r == Row("stop", s, t, c, None)
             P == [mem.pos EXCEPT ![s] = q]
  <1>1. mem.pos \in [Symbols -> Position \cup {None}] BY BookParts
  <1>2. disk.pos \in [Symbols -> Position \cup {None}] BY BookParts
  <1>3. p \in Position BY <1>1
  <1>4. SamePosition(p, d) /\ d # None BY DEF SameBook, SamePosition
  <1>5. d \in Position BY <1>2, <1>4
  <1>6. /\ q = [at |-> p.at, entry |-> p.entry,
                high |-> IF c > p.high THEN c ELSE p.high, managed |-> t]
        /\ q \in Position
    BY <1>3 DEF Position
  <1>7. mem' \in Books /\ mem'.pos = P /\ mem'.day = mem.day /\ mem'.closed = mem.closed
    <2>1. mem' = [mem EXCEPT !.pos = P] OBVIOUS
    <2>2. P \in [Symbols -> Position \cup {None}] BY <1>1, <1>6
    <2> HIDE DEF P
    <2> QED BY <2>1, <2>2 DEF Books
  <1>8. mem.day = disk.day /\ mem.closed = disk.closed
        /\ \A u \in Symbols : SamePosition(mem.pos[u], disk.pos[u])
    BY DEF SameBook
  <1>9. CASE c > p.high
    <2>1. r \in Rows /\ r.kind = "stop" /\ r.sym = s /\ r.at = t /\ r.val = c
      BY RowTyped DEF Kinds
    <2>2. pending' = <<r>> BY <1>9
    <2> HIDE DEF r
    <2>3. /\ Replay(disk, r).pos = [disk.pos EXCEPT ![s] = Raised(d, r)]
          /\ Replay(disk, r).day = disk.day
          /\ Replay(disk, r).closed = disk.closed
      BY <2>1, <1>4, ReplayStop
    <2>4. SamePosition(q, Raised(d, r))
      <3>1. p.at = d.at /\ p.entry = d.entry /\ p.high = d.high /\ p.managed >= d.managed
        BY <1>3, <1>4, NoneIsNoPosition DEF SamePosition
      <3>2. Raised(d, r) = [at |-> d.at, entry |-> d.entry, high |-> c, managed |-> t]
        <4>1. c > d.high /\ t > d.managed BY <1>3, <1>5, <1>9, <3>1 DEF Position
        <4>2. Raised(d, r) = [d EXCEPT !.high = c, !.managed = t]
          BY <2>1, <4>1 DEF Raised
        <4>3. d = [at |-> d.at, entry |-> d.entry, high |-> d.high, managed |-> d.managed]
          BY <1>5 DEF Position
        <4> QED BY <4>2, <4>3
      <3>3. Raised(d, r) # None /\ q # None
        BY <1>5, <1>6, <2>1, RaisedIsPosition, NoneIsNoPosition
      <3> QED BY <1>6, <1>9, <3>1, <3>2, <3>3 DEF SamePosition
    <2>5. \A u \in Symbols : SamePosition(mem'.pos[u], Replay(disk, r).pos[u])
      BY <1>1, <1>2, <1>7, <1>8, <2>3, <2>4
    <2>6. SameBook(mem', Replay(disk, r)) BY <1>7, <1>8, <2>3, <2>5 DEF SameBook
    <2>7. Takes(disk, r) BY <1>4, <2>1 DEF Takes
    <2> QED BY <1>7, <2>1, <2>2, <2>6, <2>7, DecidesRow
  <1>10. CASE ~(c > p.high)
    <2>1. SamePosition(q, d)
      <3>1. q # None BY <1>6, NoneIsNoPosition
      <3> QED BY <1>3, <1>4, <1>5, <1>6, <1>10, <3>1, SMTT(30) DEF SamePosition, Position
    <2>2. \A u \in Symbols : SamePosition(mem'.pos[u], disk.pos[u])
      BY <1>1, <1>7, <1>8, <2>1
    <2>3. SameBook(mem', disk) BY <1>7, <1>8, <2>2 DEF SameBook
    <2>4. pending' = <<>> BY <1>10
    <2> QED BY <1>7, <2>3, <2>4, DecidesNothing
  <1> QED BY <1>9, <1>10

(* on_bar, in all its branches.                                            *)
LEMMA BarDecides ==
    ASSUME mem \in Books, disk \in Books, SameBook(mem, disk),
           seen \in [Symbols -> Caches], pending = <<>>,
           NEW e \in Events, e.kind = "bar", OnBar(e)
    PROVE  Decided(mem', disk, pending') /\ seen' \in [Symbols -> Caches]
  <1> DEFINE s == e.sym
             p == mem.pos[s]
             q == [p EXCEPT !.high = IF e.val > p.high THEN e.val ELSE @, !.managed = e.at]
             why == Verdict(q, e.val, e.at)
             stop == Row("stop", s, e.at, e.val, None)
             exit == Row("exited", s, e.at, e.val, why)
             stops == IF e.val > p.high THEN <<stop>> ELSE <<>>
  <1>1. s \in Symbols /\ e.at \in Int /\ e.val \in Int
    BY PriceIsInt DEF Events
  <1>2. seen' \in [Symbols -> Caches]
    <2>1. seen' = [seen EXCEPT ![s] = [@ EXCEPT !.price = e.val, !.barAt = e.at - 1]]
      BY DEF OnBar
    <2>2. seen[s] \in Caches BY <1>1
    <2>3. [seen[s] EXCEPT !.price = e.val, !.barAt = e.at - 1] \in Caches
      BY <1>1, <2>2, PricedCaches
    <2> QED BY <2>1, <2>3, <1>1
  <1>3. why \in {"target", "stop", "timeout", "momentum", None} BY DEF Verdict
  <1>4. CASE UNCHANGED <<mem, pending>>
    BY <1>2, <1>4, DecidesNothing
  <1>5. CASE /\ p # None /\ e.at > p.managed
             /\ mem' = [mem EXCEPT !.pos[s] = q] /\ pending' = stops
    BY <1>1, <1>2, <1>5, HoldDecides
  <1>6. CASE /\ p # None /\ e.at > p.managed
             /\ mem' = ClosePosition(s) /\ pending' = Append(stops, exit)
    <2>1. exit \in Rows /\ exit.kind = "exited" /\ exit.sym = s
      BY <1>1, <1>3, RowTyped DEF Kinds
    <2>2. stop \in Rows /\ stop.kind = "stop" /\ stop.sym = s
      BY <1>1, RowTyped DEF Kinds
    <2> HIDE DEF exit, stop
    <2>3. CASE e.val > p.high
      <3>0. pending' = Append(<<stop>>, exit) BY <1>6, <2>3
      <3>1. pending' = <<stop, exit>> BY <2>1, <2>2, <3>0, AppendToOne
      <3>2. disk.pos[s] # None BY <1>1, <1>6 DEF SameBook, SamePosition
      <3>3. Takes(disk, stop) BY <2>2, <3>2 DEF Takes
      <3>4. SameBook(Closing(mem, s), Replay(Replay(disk, stop), exit))
        BY <2>1, <2>2, <3>2, StopThenClosed
      <3>5. mem' = Closing(mem, s) BY <1>6 DEF ClosePosition, Closing
      <3>6. Closing(mem, s) \in Books BY <1>1, ClosingTyped
      <3>7. Decided(Closing(mem, s), disk, <<stop, exit>>)
        BY <2>1, <2>2, <3>3, <3>4, <3>6, DecidesPair
      <3> QED BY <1>2, <3>1, <3>5, <3>7
    <2>4. CASE ~(e.val > p.high)
      <3>1. pending' = <<exit>> BY <1>6, <2>4
      <3> QED BY <1>2, <1>6, <2>1, <3>1, CloseDecides
    <2> QED BY <2>3, <2>4
  <1> QED BY <1>4, <1>5, <1>6 DEF OnBar

(* Any event the trader handles.                                           *)
LEMMA EventDecides ==
    ASSUME mem \in Books, disk \in Books, SameBook(mem, disk),
           seen \in [Symbols -> Caches], pending = <<>>,
           NEW e \in Events, OnEvent(e)
    PROVE  Decided(mem', disk, pending') /\ seen' \in [Symbols -> Caches]
  <1>1. CASE e.kind = "bar" /\ OnBar(e) BY <1>1, BarDecides
  <1>2. CASE e.kind = "momentum" /\ OnMomentum(e) BY <1>2, MomentumDecides
  <1>3. CASE e.kind = "signal" /\ OnSignal(e)
    <2>1. e.sym \in Symbols /\ e.at \in Int /\ e.val \in Int
      BY <1>3, PriceAssumption DEF Events
    <2>2. TryEnter(e.sym, e.val, e.at, seen[e.sym].level) /\ seen' = seen
      BY <1>3 DEF OnSignal
    <2>3. Decided(mem', disk, pending') BY <2>1, <2>2, TryEnterDecides
    <2> QED BY <2>2, <2>3
  <1> QED BY <1>1, <1>2, <1>3 DEF OnEvent

-----------------------------------------------------------------------------
(* The invariant is inductive.  The four conjuncts about the books first.  *)

(* What touches neither book nor rows keeps the books.                     *)
LEMMA BooksKept ==
    ASSUME BooksOK, UNCHANGED <<mem, disk, pending>>,
           link' = link \/ (link # "down" /\ link' # "down")
    PROVE  BooksOK'
  BY DEF BooksOK, DownIsIdle, MemoryIsAppended, RowsTaken, WithinSlots, Held,
         SameBook, Appended, TakesAll, Takes

(* The row at the head of the queue.                                       *)
LEMMA FirstRow ==
    ASSUME pending \in Seq(Rows), pending # <<>>
    PROVE  pending[1] \in Rows /\ Head(pending) = pending[1]
  OBVIOUS

(* A queue of rows has one or two.                                         *)
LEMMA OneOrTwo ==
    ASSUME NEW S, NEW q \in Seq(S), q # <<>>, Len(q) <= 2
    PROVE  Len(q) = 1 \/ Len(q) = 2
  <1> DEFINE n == Len(q)
  <1>1. n \in Nat /\ n # 0 /\ n <= 2 OBVIOUS
  <1> HIDE DEF n
  <1>2. n = 1 \/ n = 2 BY <1>1
  <1> QED BY <1>2 DEF n

(* What is left behind the first of two rows.                              *)
LEMMA TailOfTwo ==
    ASSUME NEW S, NEW q \in Seq(S), Len(q) = 2
    PROVE  /\ Tail(q) \in Seq(S) /\ Len(Tail(q)) = 1
           /\ Tail(q)[1] = q[2] /\ Tail(q) # <<>>
  <1> DEFINE t == Tail(q)
  <1>1. q # <<>> OBVIOUS
  <1>2. /\ t \in Seq(S) /\ Len(t) = Len(q) - 1
        /\ \A i \in 1 .. Len(t) : t[i] = q[i + 1]
    BY <1>1, HeadTailProperties
  <1> HIDE DEF t
  <1>3. Len(t) = 1 BY <1>2
  <1>4. t[1] = q[1 + 1] BY <1>2, <1>3
  <1>5. ASSUME t = <<>> PROVE FALSE BY <1>3, <1>5
  <1> QED BY <1>2, <1>3, <1>4, <1>5 DEF t

(* The first of the rows that wait reaches the file.                       *)
LEMMA FirstAppended ==
    ASSUME TypeOK, BooksOK, pending # <<>>, disk' = Replay(disk, Head(pending))
    PROVE  disk' \in Books /\ WithinSlots'
  <1>1. pending[1] \in Rows /\ Head(pending) = pending[1] BY FirstRow DEF TypeOK
  <1>2. disk \in Books BY DEF TypeOK
  <1>3. Takes(disk, pending[1]) BY DEF BooksOK, RowsTaken, TakesAll
  <1>4. Cardinality(Held(disk)) <= MaxConcurrent BY DEF BooksOK, WithinSlots
  <1>5. disk' = Replay(disk, pending[1]) BY <1>1
  <1>6. disk' \in Books BY <1>1, <1>2, <1>5, ReplayTyped
  <1>7. Cardinality(Held(Replay(disk, pending[1]))) <= MaxConcurrent
    BY <1>1, <1>2, <1>3, <1>4, ReplayHeld
  <1>8. WithinSlots' BY <1>5, <1>7 DEF WithinSlots, Held
  <1> QED BY <1>6, <1>8

(* A connection that ends leaves the journal in order.                     *)
LEMMA BooksDown ==
    ASSUME TypeOK, BooksOK, link' = "down", pending' = <<>>,
           disk' = disk \/ (pending # <<>> /\ disk' = Replay(disk, Head(pending)))
    PROVE  BooksOK' /\ disk' \in Books
  <1>1. disk' \in Books /\ WithinSlots'
    <2>1. CASE disk' = disk BY <2>1 DEF TypeOK, BooksOK, WithinSlots, Held
    <2>2. CASE pending # <<>> /\ disk' = Replay(disk, Head(pending))
      BY <2>2, FirstAppended
    <2> QED BY <2>1, <2>2
  <1>2. DownIsIdle' /\ MemoryIsAppended' BY DEF DownIsIdle, MemoryIsAppended
  <1>3. RowsTaken' BY DEF RowsTaken, TakesAll
  <1> QED BY <1>1, <1>2, <1>3 DEF BooksOK

(* An appended row moves the journal towards the memory.                   *)
LEMMA BooksAppend ==
    ASSUME TypeOK, BooksOK, AppendRow
    PROVE  BooksOK' /\ disk' \in Books /\ pending' \in Seq(Rows) /\ Len(pending') <= 2
  <1>0. pending # <<>> /\ disk' = Replay(disk, Head(pending)) /\ pending' = Tail(pending)
        /\ mem' = mem /\ link' = link
    BY DEF AppendRow
  <1>1. pending[1] \in Rows /\ Head(pending) = pending[1]
    BY <1>0, FirstRow DEF TypeOK
  <1>2. disk' \in Books /\ WithinSlots' BY <1>0, FirstAppended
  <1>3. link # "down" /\ SameBook(mem, Appended(disk, pending))
    BY <1>0 DEF BooksOK, DownIsIdle, MemoryIsAppended
  <1>4. DownIsIdle' BY <1>0, <1>3 DEF DownIsIdle
  <1>5. pending \in Seq(Rows) /\ (Len(pending) = 1 \/ Len(pending) = 2)
    BY <1>0, OneOrTwo DEF TypeOK
  <1>6. CASE Len(pending) = 1
    <2>1. pending' = <<>> BY <1>0, <1>5, <1>6
    <2>2. Appended(disk, pending) = disk' BY <1>0, <1>1, <1>6 DEF Appended
    <2>3. MemoryIsAppended'
      BY <1>0, <1>3, <2>1, <2>2 DEF MemoryIsAppended, SameBook, Appended
    <2>4. RowsTaken' BY <2>1 DEF RowsTaken, TakesAll
    <2> QED BY <1>2, <1>4, <2>1, <2>3, <2>4 DEF BooksOK
  <1>7. CASE Len(pending) = 2
    <2>1. pending' \in Seq(Rows) /\ Len(pending') = 1 /\ pending'[1] = pending[2]
          /\ pending' # <<>>
      BY <1>0, <1>5, <1>7, TailOfTwo
    <2>2. Appended(disk, pending) = Replay(disk', pending'[1])
      BY <1>0, <1>1, <1>7, <2>1 DEF Appended
    <2>3. MemoryIsAppended'
      BY <1>0, <1>3, <2>1, <2>2 DEF MemoryIsAppended, SameBook, Appended
    <2>4. Takes(disk, pending[1]) /\ pending[1].kind = "stop"
          /\ pending[2].kind = "exited" /\ pending[1].sym = pending[2].sym
      BY <1>0, <1>7 DEF BooksOK, RowsTaken, TakesAll
    <2>5. disk'.pos[pending[1].sym] # None
      <3> DEFINE r == pending[1]
      <3>1. disk \in Books /\ r.sym \in Symbols /\ disk.pos[r.sym] # None
        BY <1>1, <2>4 DEF TypeOK, Rows, Takes
      <3>2. disk' = Replay(disk, r) BY <1>0, <1>1
      <3> HIDE DEF r
      <3>3. disk'.pos = [disk.pos EXCEPT ![r.sym] = Raised(disk.pos[r.sym], r)]
        BY <1>1, <2>4, <3>1, <3>2, ReplayStop DEF r
      <3>4. disk.pos \in [Symbols -> Position \cup {None}] BY <3>1, BookParts
      <3>5. Raised(disk.pos[r.sym], r) # None
        BY <1>1, <3>1, <3>4, RaisedIsPosition, NoneIsNoPosition DEF r
      <3> QED BY <3>1, <3>3, <3>4, <3>5 DEF r
    <2>6. Takes(disk', pending'[1]) BY <2>1, <2>4, <2>5 DEF Takes
    <2>7. RowsTaken' BY <2>1, <2>6 DEF RowsTaken, TakesAll
    <2> QED BY <1>2, <1>4, <2>1, <2>3, <2>7 DEF BooksOK
  <1> QED BY <1>5, <1>6, <1>7

(* A handled event keeps the books.                                        *)
LEMMA BooksDecided ==
    ASSUME TypeOK, BooksOK, link # "down", link' = link, disk' = disk,
           Decided(mem', disk, pending')
    PROVE  BooksOK' /\ mem' \in Books /\ pending' \in Seq(Rows) /\ Len(pending') <= 2
  <1>1. MemoryIsAppended' BY DEF Decided, MemoryIsAppended, SameBook, Appended
  <1>2. RowsTaken' BY DEF Decided, RowsTaken, TakesAll, Takes, Held
  <1>3. WithinSlots' BY DEF BooksOK, WithinSlots, Held
  <1>4. DownIsIdle' BY DEF DownIsIdle
  <1> QED BY <1>1, <1>2, <1>3, <1>4 DEF BooksOK, Decided

(* With no row waiting the two books agree.                                *)
LEMMA MemoryIsDisk ==
    ASSUME BooksOK, link # "down", pending = <<>>
    PROVE  SameBook(mem, disk)
  BY DEF BooksOK, MemoryIsAppended, Appended

-----------------------------------------------------------------------------
(* The book of an empty journal.                                           *)
LEMMA EmptyBookTyped == EmptyBook \in Books
  BY DEF EmptyBook, Books

(* The caches of a new process.                                            *)
LEMMA UnseenTyped == Unseen \in Caches
  BY DEF Unseen, Caches

(* The caches after a reseed.                                              *)
LEMMA ClearedTyped ==
    ASSUME seen \in [Symbols -> Caches] PROVE ClearSeen \in [Symbols -> Caches]
  <1>1. ASSUME NEW s \in Symbols
        PROVE  [seen[s] EXCEPT !.level = None, !.price = None] \in Caches
    BY DEF Caches
  <1> QED BY <1>1 DEF ClearSeen

(* The invariant holds of a trader that has never run.                     *)
THEOREM InitInvariant == Init => IInv
<1> SUFFICES ASSUME Init PROVE IInv OBVIOUS
<1> USE DEF Init
<1>1. TypeOK
  <2>1. mem \in Books /\ disk \in Books BY EmptyBookTyped
  <2>2. seen \in [Symbols -> Caches] BY UnseenTyped
  <2>3. 0 \in 0..MaxTime /\ 0 \in 0..MaxAlerts /\ 0 \in 0..MaxFaults BY BoundAssumption
  <2>4. Len(wire) <= WireCap /\ pending \in Seq(Rows) /\ Len(pending) <= 2
    BY DurationAssumption
  <2> QED BY <2>1, <2>2, <2>3, <2>4 DEF TypeOK
<1>2. WireTyped /\ BacklogTraded BY DEF WireTyped, BacklogTraded
<1>3. BooksOK
  <2>1. Held(disk) = {} BY DEF Held, EmptyBook
  <2>2. Cardinality({}) = 0 BY FS_EmptySet
  <2> QED BY <2>1, <2>2, MaxConcurrentAssumption
          DEF BooksOK, DownIsIdle, MemoryIsAppended, RowsTaken, TakesAll, WithinSlots
<1> QED BY <1>1, <1>2, <1>3 DEF IInv

(* The server's queue for this trader.                                     *)
LEMMA DeliverKeeps ==
    ASSUME WireTyped, Len(wire) <= WireCap, open \in BOOLEAN,
           NEW e \in Events, Deliver(e)
    PROVE  WireTyped' /\ Len(wire') <= WireCap /\ open' \in BOOLEAN
  <1>1. wire \in Seq(Events) /\ Len(wire) \in Nat BY DEF WireTyped
  <1>2. CASE wire' = wire /\ open' \in BOOLEAN BY <1>1, <1>2 DEF WireTyped
  <1>3. CASE Len(wire) < WireCap /\ wire' = Append(wire, e) /\ open' = open
    <2>1. wire' \in Seq(Events) /\ Len(wire') = Len(wire) + 1
      BY <1>1, <1>3, AppendProperties
    <2> QED BY <1>1, <1>3, <2>1, DurationAssumption DEF WireTyped
  <1> QED BY <1>2, <1>3 DEF Deliver

(* The market's events have their type.                                    *)
LEMMA EventTyped ==
    ASSUME NEW s \in Symbols, NEW t \in Int
    PROVE  /\ \A c \in Closes : Event("bar", s, t, c) \in Events
           /\ \A l \in Levels : Event("momentum", s, t, l) \in Events
           /\ \A a \in Asked : Event("signal", s, t, a) \in Events
  BY DEF Event, Events

(* Time passes.                                                            *)
LEMMA MinuteKeeps == ASSUME IInv, Minute PROVE IInv'
  <1> USE DEF IInv, Minute, TraderUnchanged
  <1>1. TypeOK' BY BoundAssumption DEF TypeOK
  <1>2. WireTyped' /\ BacklogTraded' BY DEF WireTyped, BacklogTraded
  <1> QED BY <1>1, <1>2, BooksKept

(* A bar of the market closes and is delivered.                            *)
LEMMA BarClosesKeeps == ASSUME IInv, NEW s \in Symbols, BarCloses(s) PROVE IInv'
  <1>1. PICK c \in Closes : /\ close' = [close EXCEPT ![s][now] = c]
                            /\ Deliver(Event("bar", s, now, c))
    BY DEF BarCloses
  <1>2. /\ now > 0 /\ UNCHANGED <<now, alerts, faults>>
        /\ UNCHANGED <<link, backlog, mem, seen, pending, disk, readable>>
    BY DEF BarCloses, TraderUnchanged
  <1>3. TypeOK /\ WireTyped /\ BacklogTraded /\ BooksOK BY DEF IInv
  <1>4. now \in Times /\ now \in Int BY <1>2, <1>3, BoundAssumption DEF TypeOK, Times
  <1>5. WireTyped' /\ Len(wire') <= WireCap /\ open' \in BOOLEAN
    BY <1>1, <1>3, <1>4, EventTyped, DeliverKeeps DEF TypeOK
  <1>6. close \in [Symbols -> [Times -> Closes \cup {None}]] BY <1>3 DEF TypeOK
  <1>7. /\ close' \in [Symbols -> [Times -> Closes \cup {None}]]
        /\ \A u \in Symbols, t \in Times : close[u][t] # None => close'[u][t] # None
    <2>1. c # None BY PriceIsInt, NoneAssumption
    <2> QED BY <1>1, <1>4, <1>6, <2>1
  <1>8. TypeOK' BY <1>2, <1>3, <1>5, <1>7 DEF TypeOK
  <1>9. BacklogTraded'
    <2>1. ASSUME NEW b \in backlog PROVE close'[b[1]][b[2]] # None
      <3>1. b[1] \in Symbols /\ b[2] \in Times BY <1>3 DEF TypeOK
      <3> QED BY <1>3, <1>7, <3>1 DEF BacklogTraded
    <2> QED BY <1>2, <2>1 DEF BacklogTraded
  <1>10. BooksOK' BY <1>2, <1>3, BooksKept
  <1> QED BY <1>5, <1>8, <1>9, <1>10 DEF IInv

(* An alert is delivered.                                                  *)
LEMMA AlertKeeps == ASSUME IInv, NEW s \in Symbols, Alert(s) PROVE IInv'
  <1>1. /\ alerts < MaxAlerts /\ alerts' = alerts + 1 /\ UNCHANGED <<now, close, faults>>
        /\ UNCHANGED <<link, backlog, mem, seen, pending, disk, readable>>
    BY DEF Alert, TraderUnchanged
  <1>2. TypeOK /\ WireTyped /\ BacklogTraded /\ BooksOK BY DEF IInv
  <1>3. now \in Int BY <1>2, BoundAssumption DEF TypeOK
  <1>4. PICK e \in Events : Deliver(e)
    <2>1. CASE \E l \in Levels : Deliver(Event("momentum", s, now, l))
      BY <1>3, <2>1, EventTyped
    <2>2. CASE \E a \in Asked : Deliver(Event("signal", s, now, a))
      BY <1>3, <2>2, EventTyped
    <2> QED BY <2>1, <2>2 DEF Alert
  <1>5. WireTyped' /\ Len(wire') <= WireCap /\ open' \in BOOLEAN
    BY <1>2, <1>4, DeliverKeeps DEF TypeOK
  <1>6. TypeOK' BY <1>1, <1>2, <1>5, BoundAssumption DEF TypeOK
  <1>7. BacklogTraded' BY <1>1, <1>2 DEF BacklogTraded
  <1>8. BooksOK' BY <1>1, <1>2, BooksKept
  <1> QED BY <1>5, <1>6, <1>7, <1>8 DEF IInv

(* A connection seeds the engine with the journal's book.                  *)
LEMMA ConnectKeeps == ASSUME IInv, Connect PROVE IInv'
  <1>1. /\ link = "down" /\ mem' = disk /\ seen' = ClearSeen /\ wire' = <<>>
        /\ open' = TRUE /\ link' = "fetching"
        /\ UNCHANGED <<now, close, backlog, pending, disk, readable, alerts, faults>>
    BY DEF Connect, ConnectWith
  <1>2. TypeOK /\ WireTyped /\ BacklogTraded /\ BooksOK BY DEF IInv
  <1>3. seen' \in [Symbols -> Caches] BY <1>1, <1>2, ClearedTyped DEF TypeOK
  <1>4. WireTyped' /\ Len(wire') <= WireCap BY <1>1, DurationAssumption DEF WireTyped
  <1>5. TypeOK' BY <1>1, <1>2, <1>3, <1>4 DEF TypeOK
  <1>6. BacklogTraded' BY <1>1, <1>2 DEF BacklogTraded
  <1>7. BooksOK'
    <2>1. pending' = <<>> BY <1>1, <1>2 DEF BooksOK, DownIsIdle
    <2>2. disk \in Books BY <1>2 DEF TypeOK
    <2>3. \A s \in Symbols : SamePosition(disk.pos[s], disk.pos[s])
      <3>1. disk.pos \in [Symbols -> Position \cup {None}] BY <2>2, BookParts
      <3>2. \A p \in Position : SamePosition(p, p)
        BY NoneIsNoPosition DEF SamePosition, Position
      <3>3. SamePosition(None, None) BY DEF SamePosition
      <3> QED BY <3>1, <3>2, <3>3
    <2>4. MemoryIsAppended'
      BY <1>1, <2>1, <2>3 DEF MemoryIsAppended, SameBook, Appended
    <2>5. RowsTaken' /\ DownIsIdle' BY <1>1, <2>1 DEF RowsTaken, TakesAll, DownIsIdle
    <2>6. WithinSlots' BY <1>1, <1>2 DEF BooksOK, WithinSlots, Held
    <2> QED BY <2>4, <2>5, <2>6 DEF BooksOK
  <1> QED BY <1>4, <1>5, <1>6, <1>7 DEF IInv

(* The missed bars are fetched; each of them was traded.                   *)
LEMMA FetchKeeps == ASSUME IInv, Fetch PROVE IInv'
  <1> USE DEF IInv, Fetch
  <1>1. TypeOK' BY DEF TypeOK, MissedBars
  <1>2. WireTyped' BY DEF WireTyped
  <1>3. BacklogTraded' BY DEF BacklogTraded, MissedBars, Missed
  <1> QED BY <1>1, <1>2, <1>3, BooksKept

(* A missed bar is fed to the engine.                                      *)
LEMMA RecoverBarKeeps == ASSUME IInv, RecoverBar PROVE IInv'
  <1>1. /\ link = "recovering" /\ pending = <<>>
        /\ UNCHANGED <<now, close, wire, open, link, disk, readable, alerts, faults>>
    BY DEF RecoverBar
  <1>2. PICK b \in backlog : /\ OnEvent(Event("bar", b[1], b[2], close[b[1]][b[2]]))
                             /\ backlog' = backlog \ {b}
    BY DEF RecoverBar
  <1>3. TypeOK /\ WireTyped /\ BacklogTraded /\ BooksOK BY DEF IInv
  <1> DEFINE e == Event("bar", b[1], b[2], close[b[1]][b[2]])
  <1>4. e \in Events
    <2>1. b[1] \in Symbols /\ b[2] \in Times /\ b[2] \in Int
      BY <1>3, BoundAssumption DEF TypeOK, Times
    <2>2. close[b[1]][b[2]] \in Closes BY <1>3, <2>1 DEF TypeOK, BacklogTraded
    <2> QED BY <2>1, <2>2, EventTyped
  <1> HIDE DEF e
  <1>5. SameBook(mem, disk) BY <1>1, <1>3, MemoryIsDisk
  <1>6. Decided(mem', disk, pending') /\ seen' \in [Symbols -> Caches]
    BY <1>1, <1>2, <1>3, <1>4, <1>5, EventDecides DEF TypeOK, e
  <1>7. BooksOK' /\ mem' \in Books /\ pending' \in Seq(Rows) /\ Len(pending') <= 2
    BY <1>1, <1>3, <1>6, BooksDecided
  <1>8. TypeOK' BY <1>1, <1>2, <1>3, <1>6, <1>7 DEF TypeOK
  <1>9. WireTyped' /\ BacklogTraded' BY <1>1, <1>2, <1>3 DEF WireTyped, BacklogTraded
  <1> QED BY <1>7, <1>8, <1>9 DEF IInv

(* The recovery is over.                                                   *)
LEMMA RecoveredKeeps == ASSUME IInv, Recovered PROVE IInv'
  <1> USE DEF IInv, Recovered
  <1>1. TypeOK' BY DEF TypeOK
  <1>2. WireTyped' /\ BacklogTraded' BY DEF WireTyped, BacklogTraded
  <1> QED BY <1>1, <1>2, BooksKept

(* An event of the socket is handled or found stale.                       *)
LEMMA ReceiveKeeps == ASSUME IInv, Receive PROVE IInv'
  <1>1. /\ link = "live" /\ pending = <<>> /\ wire # <<>> /\ wire' = Tail(wire)
        /\ UNCHANGED <<now, close, open, link, backlog, disk, readable, alerts, faults>>
    BY DEF Receive
  <1>2. TypeOK /\ WireTyped /\ BacklogTraded /\ BooksOK BY DEF IInv
  <1>3. /\ Head(wire) \in Events /\ wire' \in Seq(Events) /\ Len(wire') <= WireCap
    <2>1. wire \in Seq(Events) /\ Len(wire) \in Nat BY <1>2 DEF WireTyped
    <2>2. Head(wire) \in Events /\ Tail(wire) \in Seq(Events) /\ Len(Tail(wire)) = Len(wire) - 1
      BY <1>1, <2>1, HeadTailProperties
    <2> QED BY <1>1, <1>2, <2>1, <2>2, DurationAssumption DEF TypeOK
  <1>4. WireTyped' /\ BacklogTraded' BY <1>1, <1>2, <1>3 DEF WireTyped, BacklogTraded
  <1>5. CASE UNCHANGED <<mem, seen, pending>>
    <2>1. TypeOK' BY <1>1, <1>2, <1>3, <1>5 DEF TypeOK
    <2>2. BooksOK' BY <1>1, <1>2, <1>5, BooksKept
    <2> QED BY <1>4, <2>1, <2>2 DEF IInv
  <1>6. CASE OnEvent(Head(wire))
    <2>1. SameBook(mem, disk) BY <1>1, <1>2, MemoryIsDisk
    <2>2. Decided(mem', disk, pending') /\ seen' \in [Symbols -> Caches]
      BY <1>1, <1>2, <1>3, <1>6, <2>1, EventDecides DEF TypeOK
    <2>3. BooksOK' /\ mem' \in Books /\ pending' \in Seq(Rows) /\ Len(pending') <= 2
      BY <1>1, <1>2, <2>2, BooksDecided
    <2>4. TypeOK' BY <1>1, <1>2, <1>3, <2>2, <2>3 DEF TypeOK
    <2> QED BY <1>4, <2>3, <2>4 DEF IInv
  <1> QED BY <1>5, <1>6 DEF Receive

(* A row is appended.                                                      *)
LEMMA AppendRowKeeps == ASSUME IInv, AppendRow PROVE IInv'
  <1>1. BooksOK' /\ disk' \in Books /\ pending' \in Seq(Rows) /\ Len(pending') <= 2
    BY BooksAppend DEF IInv
  <1>2. TypeOK' BY <1>1 DEF IInv, AppendRow, TypeOK
  <1>3. WireTyped' /\ BacklogTraded' BY DEF IInv, AppendRow, WireTyped, BacklogTraded
  <1> QED BY <1>1, <1>2, <1>3 DEF IInv

(* Every way to lose the connection ends alike.                            *)
LEMMA DisconnectKeeps ==
    ASSUME IInv, Disconnect, mem' \in Books, seen' \in [Symbols -> Caches],
           readable' \in BOOLEAN, faults' \in 0..MaxFaults, UNCHANGED <<now, close, alerts>>,
           disk' = disk \/ (pending # <<>> /\ disk' = Replay(disk, Head(pending)))
    PROVE  IInv'
  <1>1. BooksOK' /\ disk' \in Books BY BooksDown DEF IInv, Disconnect
  <1>2. WireTyped' /\ BacklogTraded' /\ Len(wire') <= WireCap
        /\ pending' \in Seq(Rows) /\ Len(pending') <= 2
    BY DurationAssumption DEF Disconnect, WireTyped, BacklogTraded
  <1>3. TypeOK' BY <1>1, <1>2 DEF IInv, Disconnect, TypeOK
  <1> QED BY <1>1, <1>2, <1>3 DEF IInv

(* The faults stay within their bound.                                     *)
LEMMA FaultTyped == ASSUME TypeOK, MayFault PROVE faults' \in 0..MaxFaults
  BY BoundAssumption DEF TypeOK, MayFault

(* A connection that ends, or a process that dies.                         *)
LEMMA EndsKeep ==
    ASSUME IInv, Closed \/ AppendFails \/ FetchFails \/ Crash
    PROVE  IInv'
  <1>1. TypeOK BY DEF IInv
  <1>2. CASE Closed BY <1>1, <1>2, DisconnectKeeps DEF Closed, TypeOK
  <1>3. CASE AppendFails
    <2>1. /\ faults' \in 0..MaxFaults /\ Disconnect /\ UNCHANGED <<now, close, mem, seen, alerts>>
          /\ pending # <<>>
      BY <1>1, <1>3, FaultTyped DEF AppendFails
    <2>2. /\ disk' = disk \/ disk' = Replay(disk, Head(pending))
          /\ readable' \in BOOLEAN
      BY <1>1, <1>3 DEF AppendFails, TypeOK
    <2> QED BY <1>1, <2>1, <2>2, DisconnectKeeps DEF TypeOK
  <1>4. CASE FetchFails BY <1>1, <1>4, FaultTyped, DisconnectKeeps DEF FetchFails, TypeOK
  <1>5. CASE Crash
    <2>1. mem' \in Books /\ seen' \in [Symbols -> Caches]
      BY <1>5, EmptyBookTyped, UnseenTyped DEF Crash
    <2> QED BY <1>1, <1>5, <2>1, FaultTyped, DisconnectKeeps DEF Crash, TypeOK
  <1> QED BY <1>2, <1>3, <1>4, <1>5

(* The server or the network closes the socket.                            *)
LEMMA CutKeeps == ASSUME IInv, Cut PROVE IInv'
  <1> USE DEF IInv, Cut, TraderUnchanged
  <1>1. WireTyped' /\ BacklogTraded' /\ Len(wire') <= WireCap
    BY DurationAssumption DEF WireTyped, BacklogTraded
  <1>2. TypeOK' BY <1>1, FaultTyped DEF TypeOK
  <1> QED BY <1>1, <1>2, BooksKept

(* Nothing happens.                                                        *)
LEMMA StutterKeeps == ASSUME IInv, UNCHANGED vars PROVE IInv'
  <1> USE DEF IInv, vars
  <1>1. TypeOK' /\ WireTyped' /\ BacklogTraded' BY DEF TypeOK, WireTyped, BacklogTraded
  <1> QED BY <1>1, BooksKept

(* Every step keeps the invariant.                                         *)
THEOREM StepInvariant == IInv /\ [Next]_vars => IInv'
<1> SUFFICES ASSUME IInv, [Next]_vars PROVE IInv' OBVIOUS
<1>1. CASE Minute BY <1>1, MinuteKeeps
<1>2. CASE Connect BY <1>2, ConnectKeeps
<1>3. CASE Fetch BY <1>3, FetchKeeps
<1>4. CASE RecoverBar BY <1>4, RecoverBarKeeps
<1>5. CASE Recovered BY <1>5, RecoveredKeeps
<1>6. CASE Receive BY <1>6, ReceiveKeeps
<1>7. CASE AppendRow BY <1>7, AppendRowKeeps
<1>8. CASE Closed \/ AppendFails \/ FetchFails \/ Crash BY <1>8, EndsKeep
<1>9. CASE Cut BY <1>9, CutKeeps
<1>10. ASSUME NEW s \in Symbols, BarCloses(s) PROVE IInv' BY <1>10, BarClosesKeeps
<1>11. ASSUME NEW s \in Symbols, Alert(s) PROVE IInv' BY <1>11, AlertKeeps
<1>12. CASE UNCHANGED vars BY <1>12, StutterKeeps
<1> QED BY <1>1, <1>2, <1>3, <1>4, <1>5, <1>6, <1>7, <1>8, <1>9, <1>10, <1>11, <1>12
        DEF Next, Run

(* The inductive invariant holds for every instance.                       *)
THEOREM Invariant == Spec => []IInv
<1> QED BY InitInvariant, StepInvariant, PTL DEF Spec

-----------------------------------------------------------------------------
(* The queue of the trader stays within its capacity and no event leaves   *)
(* more than two rows to append, whatever the market and the faults do.    *)
THEOREM TypeCorrect == Spec => []TypeOK
<1>1. IInv => TypeOK BY DEF IInv
<1> QED BY Invariant, <1>1, PTL

(* No prefix of the journal holds more positions than the configuration    *)
(* has slots: try_enter counts the book in memory, and the invariant says  *)
(* that book is the journal's.                                             *)
THEOREM SlotsKept == Spec => []WithinSlots
<1>1. IInv => WithinSlots BY DEF IInv, BooksOK
<1> QED BY Invariant, <1>1, PTL

(* Between two events the connected engine manages exactly what a restart  *)
(* would read back from the journal.                                       *)
THEOREM MemoryIsJournal == Spec => []MemoryFollowsJournal
<1>1. ASSUME NEW p \in Position, NEW d \in Position,
             p.at = d.at, p.entry = d.entry, p.high = d.high
      PROVE  [p EXCEPT !.managed = 0] = [d EXCEPT !.managed = 0]
  <2>1. [p EXCEPT !.managed = 0] = [at |-> p.at, entry |-> p.entry, high |-> p.high, managed |-> 0]
    BY DEF Position
  <2>2. [d EXCEPT !.managed = 0] = [at |-> d.at, entry |-> d.entry, high |-> d.high, managed |-> 0]
    BY DEF Position
  <2> QED BY <1>1, <2>1, <2>2
<1>2. IInv => MemoryFollowsJournal
  <2> SUFFICES ASSUME IInv, link # "down", pending = <<>> PROVE MemoryFollowsJournal
    BY DEF MemoryFollowsJournal
  <2>1. SameBook(mem, disk) BY MemoryIsDisk DEF IInv
  <2>2. mem \in Books /\ disk \in Books BY DEF IInv, TypeOK
  <2>3. ASSUME NEW s \in Symbols
        PROVE  \/ mem.pos[s] = None /\ disk.pos[s] = None
               \/ /\ mem.pos[s] # None /\ disk.pos[s] # None
                  /\ mem.pos[s].managed >= disk.pos[s].managed
                  /\ [mem.pos[s] EXCEPT !.managed = 0] = [disk.pos[s] EXCEPT !.managed = 0]
    <3>1. SamePosition(mem.pos[s], disk.pos[s]) BY <2>1 DEF SameBook
    <3>2. CASE mem.pos[s] # None /\ disk.pos[s] # None
      <4>1. mem.pos[s] \in Position /\ disk.pos[s] \in Position BY <2>2, <3>2, BookParts
      <4>2. [mem.pos[s] EXCEPT !.managed = 0] = [disk.pos[s] EXCEPT !.managed = 0]
        BY <1>1, <3>1, <3>2, <4>1 DEF SamePosition
      <4> QED BY <3>1, <3>2, <4>2 DEF SamePosition
    <3> QED BY <3>1, <3>2 DEF SamePosition
  <2> QED BY <2>1, <2>3 DEF MemoryFollowsJournal, SameBook
<1> QED BY Invariant, <1>2, PTL

(* The journal moves only by the row at the head of the queue.             *)
LEMMA JournalStep ==
    ASSUME [Next]_vars
    PROVE  disk' = disk \/ (pending # <<>> /\ disk' = Replay(disk, Head(pending)))
<1>1. CASE Minute \/ Cut BY <1>1 DEF Minute, Cut, TraderUnchanged
<1>2. CASE Connect \/ Fetch \/ RecoverBar \/ Recovered \/ Receive \/ Closed
  BY <1>2 DEF Connect, ConnectWith, Fetch, RecoverBar, Recovered, Receive, Closed
<1>3. CASE AppendRow BY <1>3 DEF AppendRow
<1>4. CASE AppendFails BY <1>4 DEF AppendFails
<1>5. CASE FetchFails \/ Crash BY <1>5 DEF FetchFails, Crash
<1>6. ASSUME NEW s \in Symbols, BarCloses(s) \/ Alert(s) PROVE disk' = disk
  BY <1>6 DEF BarCloses, Alert, TraderUnchanged
<1>7. CASE UNCHANGED vars BY <1>7 DEF vars
<1> QED BY <1>1, <1>2, <1>3, <1>4, <1>5, <1>6, <1>7 DEF Next, Run

(* What a row that the journal may take does to one symbol.                *)
LEMMA TakenRow ==
    ASSUME NEW b \in Books, NEW r \in Rows, Takes(b, r), NEW s \in Symbols
    PROVE  /\ (/\ Replay(b, r).pos[s] # None
               /\ b.pos[s] = None \/ b.pos[s].at # Replay(b, r).pos[s].at)
                => b.pos[s] = None /\ b.day[s] # Day(Replay(b, r).pos[s].at)
           /\ Replay(b, r).closed # b.closed => b.pos[r.sym] # None
<1>1. b.pos \in [Symbols -> Position \cup {None}] /\ r.sym \in Symbols
  BY BookParts DEF Rows
<1>2. CASE r.kind = "entered"
  <2>1. /\ Replay(b, r).pos = [b.pos EXCEPT ![r.sym] = Opened(r)]
        /\ Replay(b, r).closed = b.closed
    BY <1>2, ReplayEntered
  <2>2. b.pos[r.sym] = None /\ b.day[r.sym] # Day(r.at) BY <1>2 DEF Takes
  <2>3. Opened(r).at = r.at BY DEF Opened
  <2>4. CASE s = r.sym
    <3>1. Replay(b, r).pos[s] = Opened(r) BY <1>1, <2>1, <2>4
    <3> QED BY <2>1, <2>2, <2>3, <2>4, <3>1
  <2>5. CASE s # r.sym
    <3>1. Replay(b, r).pos[s] = b.pos[s] BY <1>1, <2>1, <2>5
    <3> QED BY <2>1, <3>1
  <2> QED BY <2>4, <2>5
<1>3. CASE r.kind = "exited"
  <2>1. Replay(b, r).pos = [b.pos EXCEPT ![r.sym] = None] BY <1>3, ReplayExited
  <2>2. Replay(b, r).pos[s] = None \/ Replay(b, r).pos[s] = b.pos[s] BY <1>1, <2>1
  <2>3. b.pos[r.sym] # None BY <1>3 DEF Takes
  <2> QED BY <2>2, <2>3
<1>4. CASE r.kind = "stop"
  <2>1. b.pos[r.sym] # None BY <1>4 DEF Takes
  <2>2. /\ Replay(b, r).pos = [b.pos EXCEPT ![r.sym] = Raised(b.pos[r.sym], r)]
        /\ Replay(b, r).closed = b.closed
    BY <1>4, <2>1, ReplayStop
  <2>3. Raised(b.pos[r.sym], r).at = b.pos[r.sym].at
    BY <1>1, <2>1 DEF Raised, Position
  <2>4. CASE s = r.sym
    <3>1. Replay(b, r).pos[s] = Raised(b.pos[r.sym], r) BY <1>1, <2>2, <2>4
    <3> QED BY <2>1, <2>2, <2>3, <2>4, <3>1
  <2>5. CASE s # r.sym
    <3>1. Replay(b, r).pos[s] = b.pos[s] BY <1>1, <2>2, <2>5
    <3> QED BY <2>2, <3>1
  <2> QED BY <2>4, <2>5
<1>5. CASE r.kind \notin {"entered", "exited", "stop"} BY <1>5, ReplayOther
<1> QED BY <1>2, <1>3, <1>4, <1>5

(* Whatever crashes, failed appends and reconnects come between, the       *)
(* journal takes one entry per symbol and day and closes only what it      *)
(* holds.                                                                  *)
THEOREM EnteredOnceADay == Spec => OneEntryPerDay
<1> DEFINE Opens(s) == /\ disk'.pos[s] # None
                       /\ disk.pos[s] = None \/ disk.pos[s].at # disk'.pos[s].at
           Once(s) == Opens(s) => disk.pos[s] = None /\ disk.day[s] # Day(disk'.pos[s].at)
           Ends(s) == (pending # <<>> /\ disk'.closed # disk.closed /\ Head(pending).sym = s)
                        => disk.pos[s] # None
<1>1. IInv /\ [Next]_vars => \A s \in Symbols : Once(s) /\ Ends(s)
  <2> SUFFICES ASSUME IInv, [Next]_vars, NEW s \in Symbols PROVE Once(s) /\ Ends(s)
    OBVIOUS
  <2>1. CASE disk' = disk BY <2>1
  <2>2. CASE pending # <<>> /\ disk' = Replay(disk, Head(pending))
    <3>1. pending \in Seq(Rows) /\ disk \in Books BY DEF IInv, TypeOK
    <3>2. Head(pending) \in Rows /\ Head(pending) = pending[1] BY <2>2, <3>1, HeadTailProperties
    <3>3. Takes(disk, Head(pending)) BY <2>2, <3>2 DEF IInv, BooksOK, RowsTaken, TakesAll
    <3> QED BY <2>2, <3>1, <3>2, <3>3, TakenRow
  <2> QED BY <2>1, <2>2, JournalStep
<1>2. [\A s \in Symbols : Once(s) /\ Ends(s)]_vars <=> 
      [ \A s \in Symbols :
          /\ (disk'.pos[s] # None /\ (disk.pos[s] = None \/ disk.pos[s].at # disk'.pos[s].at))
               => disk.pos[s] = None /\ disk.day[s] # Day(disk'.pos[s].at)
          /\ (pending # <<>> /\ disk'.closed # disk.closed /\ Head(pending).sym = s)
               => disk.pos[s] # None ]_vars
  OBVIOUS
<1> QED BY Invariant, <1>1, <1>2, PTL DEF Spec, OneEntryPerDay

-----------------------------------------------------------------------------
(***************************************************************************)
(* No verdict is lost.  A position is right when the bars it counts as     *)
(* managed are those the market closed, none of which called for its exit, *)
(* and its high is the highest of their closes.  That every position stays *)
(* right needs to know what is on its way to it: a held position has yet   *)
(* to see exactly the bars still in the backlog or behind them on the wire *)
(* (Coming), in the order of time (InOrder); and that the rows that wait   *)
(* are right of the journal, so that a replay of any part of them is.      *)
(***************************************************************************)
(* h is the highest close of s, from the entry of p to minute t.           *)
Highest(c, h, s, p, t) ==
    /\ h \in Int /\ p.entry <= h
    /\ \A v \in Times : (p.at < v /\ v <= t /\ c[s][v] # None) => c[s][v] <= h
    /\ h = p.entry \/ \E v \in Times : p.at < v /\ v <= t /\ c[s][v] = h

(* The bar of minute t does not close p.                                    *)
Spared(c, s, p, t) ==
    (p.at < t /\ c[s][t] # None) =>
        \E h \in Int : /\ Highest(c, h, s, p, t)
                       /\ Verdict([p EXCEPT !.high = h], c[s][t], t) = None

(* Position p of s is what the bars it has seen make of it: they raised its *)
(* high, and none of them closes it.                                       *)
Right(c, n, s, p) ==
    /\ 0 <= p.at /\ p.at <= p.managed /\ p.managed <= n
    /\ p.managed # p.at => p.managed \in Times /\ c[s][p.managed] # None
    /\ Highest(c, p.high, s, p, p.managed)
    /\ \A t \in Times : t <= p.managed => Spared(c, s, p, t)


(* The server's queue is in the order of time, and its bars are the         *)
(* market's, each once.                                                    *)
InOrder(c, n, w) ==
    /\ \A i \in 1..Len(w) : w[i].at \in 0..n
    /\ \A i \in 1..Len(w) : w[i].kind = "bar" =>
          w[i].at \in Times /\ c[w[i].sym][w[i].at] = w[i].val
    /\ \A i, j \in 1..Len(w) : i < j => w[i].at <= w[j].at
    /\ \A i, j \in 1..Len(w) :
          (i < j /\ w[i].kind = "bar" /\ w[j].kind = "bar" /\ w[i].sym = w[j].sym)
             => w[i].at < w[j].at

(* A bar of the market is on its way, or it came to a queue the server had  *)
(* given up, behind everything in it.                                      *)
OnWire(w, s, t) ==
    \E i \in 1..Len(w) : w[i].kind = "bar" /\ w[i].sym = s /\ w[i].at = t
CutOff(w, o, t) == ~o /\ \A i \in 1..Len(w) : w[i].at <= t
Arriving(w, o, s, t) == OnWire(w, s, t) \/ CutOff(w, o, t)

(* Behind an event on the wire comes every later bar.                       *)
Follows(c, w, o) ==
    \A s \in Symbols : \A t \in Times : \A i \in 1..Len(w) :
        (c[s][t] # None /\ w[i].at < t) => Arriving(w, o, s, t)

(* A held position has yet to see exactly the bars that will be fed to it:  *)
(* the recovered ones, then those on the wire.                             *)
Coming(c, m, q, w, o) ==
    \A s \in Held(m) : \A t \in Times :
        (c[s][t] # None /\ m.pos[s].managed < t) =>
            \/ <<s, t>> \in q
            \/ (\A b \in q : b[2] <= t) /\ Arriving(w, o, s, t)

(* The rows that wait are right of the journal's positions.                 *)
RowRight(c, n, d, r) ==
    /\ r.kind = "entered" => r.at \in 0..n
    /\ r.kind = "exited" =>
          /\ r.at <= n /\ d.pos[r.sym] # None
          /\ \A t \in Times : t < r.at => Spared(c, r.sym, d.pos[r.sym], t)
    /\ r.kind = "stop" =>
          /\ r.at \in Times /\ r.at <= n /\ c[r.sym][r.at] # None /\ d.pos[r.sym] # None
          /\ d.pos[r.sym].managed < r.at /\ d.pos[r.sym].high < r.val
          /\ Highest(c, r.val, r.sym, d.pos[r.sym], r.at)
          /\ \A t \in Times : t < r.at => Spared(c, r.sym, d.pos[r.sym], t)
RowsRight(c, n, d, rows) ==
    /\ \A i \in DOMAIN rows : RowRight(c, n, d, rows[i])
    /\ (Len(rows) = 1 /\ rows[1].kind = "stop") =>
          Spared(c, rows[1].sym, d.pos[rows[1].sym], rows[1].at)
    /\ Len(rows) = 2 => rows[2].at = rows[1].at /\ rows[2].why # "momentum"

(* The bar whose first row is written and whose second is not.              *)
Halfway(s) == MidPair /\ Head(pending).sym = s

DiskRight == readable => \A s \in Held(disk) :
                 Right(close, now, s, disk.pos[s]) \/ Halfway(s)
MemoryRight == link # "down" => \A s \in Held(mem) : Right(close, now, s, mem.pos[s])
Linked == /\ link # "down" => readable
          /\ link \in {"down", "fetching"} => pending = <<>>
          /\ link # "recovering" => backlog = {}
          /\ \A b \in backlog : b[2] <= now
          /\ \A s \in Symbols : \A t \in Times : close[s][t] # None => t <= now
WireRight == link # "down" => InOrder(close, now, wire) /\ Follows(close, wire, open)
FeedRight == link \in {"recovering", "live"} => Coming(close, mem, backlog, wire, open)

VInv == /\ Linked /\ WireRight /\ FeedRight /\ MemoryRight /\ DiskRight
        /\ RowsRight(close, now, disk, pending)

(* Between two states at most the bar of the current minute closes.         *)
OneMinute(c, d, n) ==
    \A s \in Symbols : /\ n \in Times => c[s][n] = None \/ d[s][n] = c[s][n]
                       /\ \A v \in Times : v # n => d[s][v] = c[s][v]

-----------------------------------------------------------------------------
(* What a verdict depends on.                                              *)
LEMMA VerdictSame ==
    ASSUME NEW p \in Position, NEW q \in Position, p.at = q.at, p.entry = q.entry,
           NEW h, NEW x, NEW t
    PROVE  Verdict([p EXCEPT !.high = h], x, t) = Verdict([q EXCEPT !.high = h], x, t)
<1> DEFINE a == [p EXCEPT !.high = h]  b == [q EXCEPT !.high = h]
<1>1. a.high = b.high /\ a.at = b.at /\ a.entry = b.entry BY DEF Position
<1> HIDE DEF a, b
<1>2. Verdict(a, x, t) = Verdict(b, x, t) BY <1>1 DEF Verdict, StopOf, TargetOf
<1> QED BY <1>2 DEF a, b

(* The high and the verdict of a position go by its entry alone.            *)
LEMMA SameEntry ==
    ASSUME NEW c, NEW s, NEW t, NEW p \in Position, NEW q \in Position,
           p.at = q.at, p.entry = q.entry
    PROVE  /\ \A h : Highest(c, h, s, p, t) <=> Highest(c, h, s, q, t)
           /\ Spared(c, s, p, t) <=> Spared(c, s, q, t)
<1>1. \A h : Highest(c, h, s, p, t) <=> Highest(c, h, s, q, t) BY DEF Highest
<1>2. \A h : Verdict([p EXCEPT !.high = h], c[s][t], t)
               = Verdict([q EXCEPT !.high = h], c[s][t], t)
  BY VerdictSame
<1>3. Spared(c, s, p, t) <=> Spared(c, s, q, t) BY <1>1, <1>2, Zenon DEF Spared
<1> QED BY <1>1, <1>3

(* So do they by the closes up to their time.                               *)
LEMMA SameCloses ==
    ASSUME NEW c, NEW d, NEW s, NEW t \in Int, NEW p,
           \A v \in Times : v <= t => d[s][v] = c[s][v]
    PROVE  /\ \A h : Highest(c, h, s, p, t) => Highest(d, h, s, p, t)
           /\ t \in Times => (Spared(c, s, p, t) => Spared(d, s, p, t))
<1>1. ASSUME NEW h, Highest(c, h, s, p, t) PROVE Highest(d, h, s, p, t)
  BY <1>1 DEF Highest
<1>2. ASSUME t \in Times, Spared(c, s, p, t) PROVE Spared(d, s, p, t)
  <2>1. d[s][t] = c[s][t] BY <1>2
  <2> QED BY <1>1, <1>2, <2>1, Zenon DEF Spared
<1> QED BY <1>1, <1>2

(* One more close does not touch a position that has seen what it could:    *)
(* it is of a minute whose bar was still to come.                          *)
LEMMA RightStands ==
    ASSUME NEW c, NEW d, NEW n \in Nat, NEW k \in Nat, n <= k, NEW s, NEW p \in Position,
           Right(c, n, s, p), n \in Times => c[s][n] = None \/ d[s][n] = c[s][n],
           \A v \in Times : v # n => d[s][v] = c[s][v]
    PROVE  Right(d, k, s, p)
<1>1. p.at \in Int /\ p.managed \in Int BY DEF Position
<1>2. \A v \in Times : v \in Int BY BoundAssumption DEF Times
<1>3. 0 <= p.at /\ p.at <= p.managed /\ p.managed <= n BY DEF Right
<1>4. CASE p.managed = p.at
  <2>1. Highest(d, p.high, s, p, p.managed)
    <3>1. \A v \in Times : ~(p.at < v /\ v <= p.managed) BY <1>1, <1>2, <1>4
    <3> QED BY <3>1 DEF Right, Highest
  <2>2. \A t \in Times : t <= p.managed => Spared(d, s, p, t)
    BY <1>1, <1>2, <1>4 DEF Spared
  <2> QED BY <1>1, <1>3, <1>4, <2>1, <2>2 DEF Right
<1>5. CASE p.managed # p.at
  <2>1. p.managed \in Times /\ c[s][p.managed] # None BY <1>5 DEF Right
  <2>2. \A v \in Times : v <= p.managed => d[s][v] = c[s][v]
    <3> SUFFICES ASSUME NEW v \in Times, v <= p.managed PROVE d[s][v] = c[s][v] OBVIOUS
    <3>1. CASE v # n BY <3>1
    <3>2. CASE v = n
      <4>1. p.managed = n BY <1>1, <1>2, <1>3, <3>2
      <4> QED BY <2>1, <3>2, <4>1
    <3> QED BY <3>1, <3>2
  <2>3. Highest(d, p.high, s, p, p.managed) BY <1>1, <2>2, SameCloses DEF Right
  <2>4. \A t \in Times : t <= p.managed => Spared(d, s, p, t)
    <3> SUFFICES ASSUME NEW t \in Times, t <= p.managed PROVE Spared(d, s, p, t) OBVIOUS
    <3>1. \A v \in Times : v <= t => d[s][v] = c[s][v] BY <1>1, <1>2, <2>2
    <3>2. Spared(c, s, p, t) /\ t \in Int BY <1>2 DEF Right
    <3> QED BY <3>1, <3>2, SameCloses
  <2>5. d[s][p.managed] # None BY <1>1, <2>1, <2>2
  <2> QED BY <1>1, <1>3, <2>1, <2>3, <2>4, <2>5 DEF Right
<1> QED BY <1>4, <1>5

(* A position that has just been opened has seen no bar.                    *)
LEMMA OpenedRight ==
    ASSUME NEW c, NEW n \in Nat, NEW s, NEW r \in Rows, r.at \in 0..n
    PROVE  Right(c, n, s, Opened(r))
<1> DEFINE p == Opened(r)
<1>1. p.at = r.at /\ p.managed = r.at /\ p.entry = r.val /\ p.high = r.val /\ r.val \in Int
  BY DEF Opened, Rows
<1> HIDE DEF p
<1>2. \A v \in Times : v \in Int BY BoundAssumption DEF Times
<1>3. Highest(c, p.high, s, p, p.managed) BY <1>1, <1>2 DEF Highest
<1>4. \A t \in Times : t <= p.managed => Spared(c, s, p, t) BY <1>1, <1>2 DEF Spared
<1>5. Right(c, n, s, p) BY <1>1, <1>3, <1>4 DEF Right
<1> QED BY <1>5 DEF p

(* The next bar of a position's symbol: what its high becomes.              *)
LEMMA NextBar ==
    ASSUME NEW c \in [Symbols -> [Times -> Closes \cup {None}]], NEW n \in Nat,
           NEW s \in Symbols, NEW p \in Position, Right(c, n, s, p),
           NEW u \in Times, p.managed < u, c[s][u] \in Int, c[s][u] # None,
           \A t \in Times : p.managed < t /\ t < u => c[s][t] = None
    PROVE  /\ Highest(c, IF c[s][u] > p.high THEN c[s][u] ELSE p.high, s, p, u)
           /\ \A t \in Times : t < u => Spared(c, s, p, t)
<1>1. p.at \in Int /\ p.managed \in Int /\ p.high \in Int /\ p.entry \in Int BY DEF Position
<1>2. \A v \in Times : v \in Int BY BoundAssumption DEF Times
<1>3. Highest(c, p.high, s, p, p.managed) /\ p.at <= p.managed BY DEF Right
<1>4. \A t \in Times : t < u => Spared(c, s, p, t)
  <2> SUFFICES ASSUME NEW t \in Times, t < u PROVE Spared(c, s, p, t) OBVIOUS
  <2>1. CASE t <= p.managed BY <2>1 DEF Right
  <2>2. CASE ~(t <= p.managed)
    <3>1. c[s][t] = None BY <1>1, <1>2, <2>2
    <3> QED BY <3>1 DEF Spared
  <2> QED BY <2>1, <2>2
<1> DEFINE x == c[s][u]
           h == IF x > p.high THEN x ELSE p.high
<1>5. h \in Int /\ p.high <= h /\ x <= h /\ (h = x \/ h = p.high) BY <1>1
<1> HIDE DEF h
<1>6. p.entry <= h BY <1>1, <1>3, <1>5 DEF Highest
<1>7. ASSUME NEW v \in Times, p.at < v /\ v <= u, c[s][v] # None PROVE c[s][v] <= h
  <2>1. CASE v = u BY <1>5, <2>1
  <2>2. CASE v # u
    <3>1. v <= p.managed BY <1>1, <1>2, <1>7, <2>2
    <3>2. c[s][v] <= p.high BY <1>3, <1>7, <3>1 DEF Highest
    <3>3. c[s][v] \in Int BY <1>7, PriceIsInt
    <3> QED BY <1>1, <1>5, <3>2, <3>3
  <2> QED BY <2>1, <2>2
<1>8. h = p.entry \/ \E v \in Times : p.at < v /\ v <= u /\ c[s][v] = h
  <2>1. CASE h = x BY <1>1, <1>2, <1>3, <2>1
  <2>2. CASE h = p.high
    <3>1. h = p.entry \/ \E v \in Times : p.at < v /\ v <= p.managed /\ c[s][v] = h
      BY <1>3, <2>2 DEF Highest
    <3>2. \A v \in Times : v <= p.managed => v <= u BY <1>1, <1>2
    <3> QED BY <3>1, <3>2
  <2> QED BY <1>5, <2>1, <2>2
<1>9. Highest(c, h, s, p, u) BY <1>5, <1>6, <1>7, <1>8 DEF Highest
<1> QED BY <1>4, <1>9 DEF h

(* And the position that has seen it, if the bar does not close it.         *)
LEMMA FedRight ==
    ASSUME NEW c, NEW n \in Nat, NEW s, NEW p \in Position, NEW q \in Position,
           NEW u \in Times, u <= n, c[s][u] # None, 0 <= p.at, p.at < u,
           q.at = p.at, q.entry = p.entry, q.managed = u,
           Highest(c, q.high, s, p, u), \A t \in Times : t < u => Spared(c, s, p, t),
           Verdict(q, c[s][u], u) = None
    PROVE  /\ Right(c, n, s, q) /\ Spared(c, s, p, u)
<1>1. u \in Int /\ q.high \in Int BY BoundAssumption DEF Times, Position
<1>2. [q EXCEPT !.high = q.high] = q BY DEF Position
<1>3. Highest(c, q.high, s, q, u) BY SameEntry
<1>4. Spared(c, s, q, u) BY <1>1, <1>2, <1>3 DEF Spared
<1>5. \A t \in Times : t <= u => Spared(c, s, q, t)
  <2> SUFFICES ASSUME NEW t \in Times, t <= u PROVE Spared(c, s, q, t) OBVIOUS
  <2>1. CASE t = u BY <1>4, <2>1
  <2>2. CASE t # u
    <3>1. t < u BY <1>1, <2>2, BoundAssumption DEF Times
    <3> QED BY <3>1, SameEntry
  <2> QED BY <2>1, <2>2
<1>6. q.managed # q.at => q.managed \in Times /\ c[s][q.managed] # None OBVIOUS
<1>7. 0 <= q.at /\ q.at <= q.managed /\ q.managed <= n BY <1>1 DEF Position
<1>8. Right(c, n, s, q) BY <1>3, <1>5, <1>6, <1>7 DEF Right
<1>9. Spared(c, s, p, u) BY <1>4, SameEntry
<1> QED BY <1>8, <1>9

(* A position whose stop is raised by a bar that spares it.                 *)
LEMMA RaisedRight ==
    ASSUME NEW c, NEW n \in Nat, NEW s, NEW p \in Position, NEW q \in Position,
           NEW u \in Times, u <= n, c[s][u] # None, 0 <= p.at, p.at < u,
           q.at = p.at, q.entry = p.entry, q.managed = u,
           Highest(c, q.high, s, p, u), \A t \in Times : t < u => Spared(c, s, p, t),
           Spared(c, s, p, u)
    PROVE  Right(c, n, s, q)
<1>1. u \in Int BY BoundAssumption DEF Times
<1>2. Highest(c, q.high, s, q, u) BY SameEntry
<1>3. \A t \in Times : t <= u => Spared(c, s, q, t)
  <2> SUFFICES ASSUME NEW t \in Times, t <= u PROVE Spared(c, s, q, t) OBVIOUS
  <2>1. t = u \/ t < u BY <1>1, BoundAssumption DEF Times
  <2>2. Spared(c, s, p, t) BY <2>1
  <2> QED BY <2>2, SameEntry
<1>4. q.managed # q.at => q.managed \in Times /\ c[s][q.managed] # None OBVIOUS
<1>5. 0 <= q.at /\ q.at <= q.managed /\ q.managed <= n BY <1>1 DEF Position
<1> QED BY <1>2, <1>3, <1>4, <1>5 DEF Right

(* The rows that wait stay right while the market moves on.                 *)
LEMMA RowsStand ==
    ASSUME NEW c, NEW e, NEW n \in Nat, NEW k \in Nat, n <= k, NEW d,
           NEW rows \in Seq(Rows), OneMinute(c, e, n), RowsRight(c, n, d, rows), Len(rows) <= 2
    PROVE  RowsRight(e, k, d, rows)
<1>0. \A v \in Times : v \in Int BY BoundAssumption DEF Times
<1>1. ASSUME NEW s \in Symbols, NEW t \in Times, t < n, NEW p, Spared(c, s, p, t)
      PROVE  Spared(e, s, p, t)
  <2>1. \A v \in Times : v <= t => e[s][v] = c[s][v] BY <1>0, <1>1 DEF OneMinute
  <2> QED BY <1>0, <1>1, <2>1, SameCloses
<1>2. ASSUME NEW s \in Symbols, NEW u \in Times, u <= n, c[s][u] # None, NEW p
      PROVE  /\ e[s][u] # None
             /\ \A h : Highest(c, h, s, p, u) => Highest(e, h, s, p, u)
             /\ Spared(c, s, p, u) => Spared(e, s, p, u)
  <2>1. \A v \in Times : v <= u => e[s][v] = c[s][v]
    <3> SUFFICES ASSUME NEW v \in Times, v <= u PROVE e[s][v] = c[s][v] OBVIOUS
    <3>1. CASE v # n BY <3>1 DEF OneMinute
    <3>2. CASE v = n
      <4>1. u = n BY <1>0, <1>2, <3>2
      <4> QED BY <1>2, <3>2, <4>1 DEF OneMinute
    <3> QED BY <3>1, <3>2
  <2>2. u \in Int /\ u <= u BY <1>0
  <2> QED BY <1>2, <2>1, <2>2, SameCloses
<1>3. ASSUME NEW r \in Rows, RowRight(c, n, d, r) PROVE RowRight(e, k, d, r)
  <2>0. r.sym \in Symbols /\ r.at \in Int BY DEF Rows
  <2>1. r.kind = "entered" => r.at \in 0..k BY <1>3, <2>0 DEF RowRight
  <2>2. ASSUME r.kind = "exited"
        PROVE  /\ r.at <= k /\ d.pos[r.sym] # None
               /\ \A t \in Times : t < r.at => Spared(e, r.sym, d.pos[r.sym], t)
    <3>1. /\ r.at <= n /\ d.pos[r.sym] # None
          /\ \A t \in Times : t < r.at => Spared(c, r.sym, d.pos[r.sym], t)
      BY <1>3, <2>2 DEF RowRight
    <3>2. \A t \in Times : t < r.at => t < n BY <1>0, <2>0, <3>1
    <3> QED BY <1>1, <2>0, <3>1, <3>2
  <2>3. ASSUME r.kind = "stop"
        PROVE  /\ r.at \in Times /\ r.at <= k /\ e[r.sym][r.at] # None
               /\ d.pos[r.sym] # None
               /\ d.pos[r.sym].managed < r.at /\ d.pos[r.sym].high < r.val
               /\ Highest(e, r.val, r.sym, d.pos[r.sym], r.at)
               /\ \A t \in Times : t < r.at => Spared(e, r.sym, d.pos[r.sym], t)
    <3>1. /\ r.at \in Times /\ r.at <= n /\ c[r.sym][r.at] # None
          /\ d.pos[r.sym] # None
          /\ d.pos[r.sym].managed < r.at /\ d.pos[r.sym].high < r.val
          /\ Highest(c, r.val, r.sym, d.pos[r.sym], r.at)
          /\ \A t \in Times : t < r.at => Spared(c, r.sym, d.pos[r.sym], t)
      BY <1>3, <2>3 DEF RowRight
    <3>2. \A t \in Times : t < r.at => t < n BY <1>0, <2>0, <3>1
    <3>3. /\ e[r.sym][r.at] # None /\ Highest(e, r.val, r.sym, d.pos[r.sym], r.at)
      BY <1>2, <2>0, <3>1
    <3>4. \A t \in Times : t < r.at => Spared(e, r.sym, d.pos[r.sym], t)
      BY <1>1, <2>0, <3>1, <3>2
    <3> QED BY <2>0, <3>1, <3>3, <3>4
  <2> QED BY <2>1, <2>2, <2>3 DEF RowRight
<1>4. \A i \in DOMAIN rows : RowRight(e, k, d, rows[i])
  <2>1. \A i \in DOMAIN rows : rows[i] \in Rows OBVIOUS
  <2> QED BY <1>3, <2>1 DEF RowsRight
<1>5. ASSUME Len(rows) = 1, rows[1].kind = "stop"
      PROVE  Spared(e, rows[1].sym, d.pos[rows[1].sym], rows[1].at)
  <2>0. 1 \in DOMAIN rows BY <1>5
  <2>1. rows[1] \in Rows /\ RowRight(c, n, d, rows[1]) BY <2>0 DEF RowsRight
  <2>2. /\ rows[1].at \in Times /\ rows[1].at <= n /\ c[rows[1].sym][rows[1].at] # None
    BY <1>5, <2>1 DEF RowRight
  <2>3. rows[1].sym \in Symbols BY <2>1 DEF Rows
  <2>4. Spared(c, rows[1].sym, d.pos[rows[1].sym], rows[1].at) BY <1>5 DEF RowsRight
  <2> QED BY <1>2, <2>2, <2>3, <2>4
<1>6. Len(rows) = 2 => rows[2].at = rows[1].at /\ rows[2].why # "momentum"
  BY DEF RowsRight
<1> QED BY <1>4, <1>5, <1>6 DEF RowsRight

(* A row that reaches the file leaves right positions there.                *)
LEMMA ReplayRight ==
    ASSUME NEW c, NEW n \in Nat, NEW d \in Books, NEW r \in Rows, RowRight(c, n, d, r),
           r.kind = "stop" => Spared(c, r.sym, d.pos[r.sym], r.at),
           \A s \in Held(d) : Right(c, n, s, d.pos[s]) \/ (s = r.sym /\ r.kind = "exited")
    PROVE  \A s \in Held(Replay(d, r)) : Right(c, n, s, Replay(d, r).pos[s])
<1> DEFINE b == Replay(d, r)
<1>1. r.sym \in Symbols /\ r.at \in Int /\ r.val \in Int /\ r.kind \in Kinds BY DEF Rows
<1>2. d.pos \in [Symbols -> Position \cup {None}] BY BookParts
<1>3. CASE r.kind = "entered"
  <2>1. b.pos = [d.pos EXCEPT ![r.sym] = Opened(r)] BY <1>3, ReplayEntered
  <2>2. Right(c, n, r.sym, Opened(r)) BY <1>3, OpenedRight DEF RowRight
  <2> HIDE DEF b
  <2>3. ASSUME NEW s \in Held(b) PROVE Right(c, n, s, b.pos[s])
    <3>1. CASE s = r.sym BY <1>1, <1>2, <2>1, <2>2, <3>1
    <3>2. CASE s # r.sym
      <4>1. b.pos[s] = d.pos[s] /\ s \in Held(d) BY <1>1, <1>2, <2>1, <2>3, <3>2 DEF Held
      <4> QED BY <3>2, <4>1
    <3> QED BY <3>1, <3>2
  <2> QED BY <2>3 DEF b
<1>4. CASE r.kind = "exited"
  <2>1. b.pos = [d.pos EXCEPT ![r.sym] = None] BY <1>4, ReplayExited
  <2> HIDE DEF b
  <2>2. ASSUME NEW s \in Held(b) PROVE Right(c, n, s, b.pos[s])
    <3>1. s # r.sym /\ b.pos[s] = d.pos[s] /\ s \in Held(d)
      BY <1>1, <1>2, <2>1, <2>2 DEF Held
    <3> QED BY <3>1
  <2> QED BY <2>2 DEF b
<1>5. CASE r.kind = "stop"
  <2> DEFINE p == d.pos[r.sym]  q == Raised(p, r)
  <2>0. p # None /\ p \in Position BY <1>1, <1>2, <1>5 DEF RowRight
  <2>1. b.pos = [d.pos EXCEPT ![r.sym] = q] BY <1>5, <2>0, ReplayStop
  <2>2. q \in Position BY <2>0, RaisedIsPosition
  <2>3. p.managed < r.at /\ p.high < r.val BY <1>5 DEF RowRight
  <2>4. q.at = p.at /\ q.entry = p.entry /\ q.managed = r.at /\ q.high = r.val
    <3>1. ~(p.high >= r.val) /\ r.val > p.high /\ r.at > p.managed
      BY <1>1, <2>0, <2>3 DEF Position
    <3> QED BY <2>0, <3>1 DEF Raised, Position
  <2>5. r.sym \in Held(d) BY <1>1, <2>0 DEF Held
  <2>6. Right(c, n, r.sym, p) BY <1>5, <2>5
  <2>7. 0 <= p.at /\ p.at < r.at
    <3>1. 0 <= p.at /\ p.at <= p.managed BY <2>6 DEF Right
    <3> QED BY <1>1, <2>0, <2>3, <3>1 DEF Position
  <2>8. /\ r.at \in Times /\ r.at <= n /\ c[r.sym][r.at] # None
        /\ Highest(c, r.val, r.sym, p, r.at)
        /\ \A t \in Times : t < r.at => Spared(c, r.sym, p, t)
        /\ Spared(c, r.sym, p, r.at)
    BY <1>5 DEF RowRight
  <2> HIDE DEF p, q, b
  <2>9. Right(c, n, r.sym, q) BY <2>0, <2>2, <2>4, <2>7, <2>8, RaisedRight
  <2>10. ASSUME NEW s \in Held(b) PROVE Right(c, n, s, b.pos[s])
    <3>1. CASE s = r.sym BY <1>1, <1>2, <2>1, <2>9, <3>1
    <3>2. CASE s # r.sym
      <4>1. b.pos[s] = d.pos[s] /\ s \in Held(d) BY <1>1, <1>2, <2>1, <2>10, <3>2 DEF Held
      <4> QED BY <3>2, <4>1
    <3> QED BY <3>1, <3>2
  <2> QED BY <2>10 DEF b
<1>6. CASE r.kind = "skipped"
  <2>1. b = d BY <1>6, ReplayOther
  <2> QED BY <1>6, <2>1
<1> QED BY <1>1, <1>3, <1>4, <1>5, <1>6 DEF Kinds

-----------------------------------------------------------------------------
(* The server's queue.                                                     *)

(* An event appended at its own time is in order behind the others.         *)
LEMMA AppendInOrder ==
    ASSUME NEW c, NEW n \in Nat, NEW w \in Seq(Events), InOrder(c, n, w),
           NEW e \in Events, e.at = n,
           e.kind = "bar" => n \in Times /\ c[e.sym][n] = e.val,
           e.kind = "bar" => ~OnWire(w, e.sym, n)
    PROVE  InOrder(c, n, Append(w, e))
<1> DEFINE v == Append(w, e)  l == Len(w)
<1>1. /\ l \in Nat /\ Len(v) = l + 1 /\ v[l + 1] = e /\ \A i \in 1..l : v[i] = w[i]
  OBVIOUS
<1> HIDE DEF v
<1>2. \A i \in 1..Len(v) : i \in 1..l \/ i = l + 1 BY <1>1
<1>3. \A i \in 1..Len(v) : v[i].at \in 0..n BY <1>1, <1>2 DEF InOrder
<1>4. \A i \in 1..Len(v) : v[i].kind = "bar" =>
          v[i].at \in Times /\ c[v[i].sym][v[i].at] = v[i].val
  BY <1>1, <1>2 DEF InOrder
<1>5. ASSUME NEW i \in 1..Len(v), NEW j \in 1..Len(v), i < j
      PROVE  /\ v[i].at <= v[j].at
             /\ (v[i].kind = "bar" /\ v[j].kind = "bar" /\ v[i].sym = v[j].sym)
                   => v[i].at < v[j].at
  <2>1. i \in 1..l BY <1>1, <1>2, <1>5
  <2>2. CASE j \in 1..l BY <1>1, <1>5, <2>1, <2>2 DEF InOrder
  <2>3. CASE j = l + 1
    <3>1. v[i] = w[i] /\ v[j] = e /\ w[i].at \in 0..n BY <1>1, <2>1, <2>3 DEF InOrder
    <3>2. (w[i].kind = "bar" /\ e.kind = "bar" /\ w[i].sym = e.sym) => w[i].at # n
      BY <2>1 DEF OnWire
    <3> QED BY <3>1, <3>2
  <2> QED BY <1>2, <2>2, <2>3
<1>6. InOrder(c, n, v) BY <1>3, <1>4, <1>5 DEF InOrder
<1> QED BY <1>6 DEF v

(* What is behind the head of the queue.                                    *)
LEMMA Behind ==
    ASSUME NEW w \in Seq(Events), w # <<>>
    PROVE  /\ Len(w) \in Nat /\ Len(w) >= 1 /\ Head(w) = w[1] /\ w[1] \in Events
           /\ Tail(w) \in Seq(Events) /\ Len(Tail(w)) = Len(w) - 1
           /\ \A i \in 1..Len(Tail(w)) : i + 1 \in 1..Len(w) /\ Tail(w)[i] = w[i + 1]
<1>1. /\ Len(w) \in Nat /\ Len(w) # 0 /\ Head(w) = w[1]
      /\ Tail(w) \in Seq(Events) /\ Len(Tail(w)) = Len(w) - 1
      /\ \A i \in 1..Len(Tail(w)) : Tail(w)[i] = w[i + 1]
  BY HeadTailProperties
<1>2. w[1] \in Events
  <2>1. 1 \in 1..Len(w) BY <1>1
  <2> QED BY <2>1
<1> QED BY <1>1, <1>2

(* Taking the head leaves the rest in order, and it is of the oldest time.  *)
LEMMA TailInOrder ==
    ASSUME NEW c, NEW n \in Nat, NEW w \in Seq(Events), w # <<>>, InOrder(c, n, w)
    PROVE  /\ InOrder(c, n, Tail(w))
           /\ \A i \in 1..Len(w) : Head(w).at <= w[i].at
           /\ Head(w).at \in 0..n
           /\ Head(w).kind = "bar" =>
                 Head(w).at \in Times /\ c[Head(w).sym][Head(w).at] = Head(w).val
<1> DEFINE v == Tail(w)
<1>1. /\ Len(w) \in Nat /\ Len(w) >= 1 /\ Head(w) = w[1] /\ w[1] \in Events
      /\ Len(v) = Len(w) - 1
      /\ \A i \in 1..Len(v) : i + 1 \in 1..Len(w) /\ v[i] = w[i + 1]
  BY Behind
<1> HIDE DEF v
<1>2. \A i \in 1..Len(w) : Head(w).at <= w[i].at
  <2> SUFFICES ASSUME NEW i \in 1..Len(w) PROVE w[1].at <= w[i].at BY <1>1
  <2>1. 1 \in 1..Len(w) /\ w[1].at \in 0..n BY <1>1 DEF InOrder
  <2>2. CASE i = 1 BY <2>1, <2>2
  <2>3. CASE i # 1
    <3>1. 1 < i BY <2>3
    <3> QED BY <2>1, <3>1 DEF InOrder
  <2> QED BY <2>2, <2>3
<1>3. \A i \in 1..Len(v), j \in 1..Len(v) : i < j => i + 1 < j + 1 BY <1>1
<1>4. InOrder(c, n, v) BY <1>1, <1>3 DEF InOrder
<1>5. 1 \in 1..Len(w) BY <1>1
<1> QED BY <1>1, <1>2, <1>4, <1>5 DEF InOrder, v

(* What is still arriving once the head is taken, if it was not the head.   *)
LEMMA TailArrives ==
    ASSUME NEW w \in Seq(Events), w # <<>>, NEW o, NEW s, NEW t, Arriving(w, o, s, t),
           ~(Head(w).kind = "bar" /\ Head(w).sym = s /\ Head(w).at = t)
    PROVE  Arriving(Tail(w), o, s, t)
<1> DEFINE v == Tail(w)
<1>1. /\ Len(w) \in Nat /\ Len(w) >= 1 /\ Head(w) = w[1]
      /\ Len(v) = Len(w) - 1
      /\ \A i \in 1..Len(v) : i + 1 \in 1..Len(w) /\ v[i] = w[i + 1]
  BY Behind
<1> HIDE DEF v
<1>2. CASE OnWire(w, s, t)
  <2>1. PICK i \in 1..Len(w) : w[i].kind = "bar" /\ w[i].sym = s /\ w[i].at = t
    BY <1>2 DEF OnWire
  <2>2. i # 1 BY <1>1, <2>1
  <2>3. i - 1 \in 1..Len(v) /\ (i - 1) + 1 = i BY <1>1, <2>2
  <2>4. v[i - 1] = w[i] BY <1>1, <2>3
  <2> QED BY <2>1, <2>3, <2>4 DEF OnWire, Arriving, v
<1>3. CASE CutOff(w, o, t) BY <1>1, <1>3 DEF CutOff, Arriving, v
<1> QED BY <1>2, <1>3 DEF Arriving

(* What the server sends of the current minute reaches the queue, or the    *)
(* queue has been given up; what was arriving still is.                    *)
LEMMA DeliverRight ==
    ASSUME IInv, InOrder(close, now, wire), link # "down",
           NEW d, InOrder(d, now, wire), NEW e \in Events, e.at = now, Deliver(e),
           e.kind = "bar" => now \in Times /\ d[e.sym][now] = e.val,
           e.kind = "bar" => ~OnWire(wire, e.sym, now)
    PROVE  /\ InOrder(d, now, wire')
           /\ \A s, t : Arriving(wire, open, s, t) => Arriving(wire', open', s, t)
           /\ e.kind = "bar" => Arriving(wire', open', e.sym, now)
           /\ \A i \in 1..Len(wire') : wire'[i].at = now \/ (i \in 1..Len(wire) /\ wire'[i] = wire[i])
<1>1. wire \in Seq(Events) /\ open \in BOOLEAN /\ now \in Nat
  BY DEF IInv, TypeOK, WireTyped
<1>2. \A i \in 1..Len(wire) : wire[i].at <= now BY <1>1 DEF InOrder
<1>3. CASE open /\ Len(wire) < WireCap
  <2>1. wire' = Append(wire, e) /\ open' = open BY <1>3 DEF Deliver
  <2> DEFINE v == Append(wire, e)  l == Len(wire)
  <2>2. l \in Nat /\ Len(v) = l + 1 /\ v[l + 1] = e /\ \A i \in 1..l : v[i] = wire[i]
    BY <1>1
  <2>3. InOrder(d, now, v) BY <1>1, AppendInOrder
  <2> HIDE DEF v
  <2>4. l + 1 \in 1..Len(v) BY <2>2
  <2>5. \A i \in 1..l : i \in 1..Len(v) BY <2>2
  <2>6. ASSUME NEW s, NEW t, Arriving(wire, open, s, t) PROVE Arriving(v, open, s, t)
    <3>1. OnWire(wire, s, t) BY <1>3, <2>6 DEF Arriving, CutOff
    <3>2. PICK i \in 1..l : wire[i].kind = "bar" /\ wire[i].sym = s /\ wire[i].at = t
      BY <3>1 DEF OnWire
    <3>3. i \in 1..Len(v) /\ v[i] = wire[i] BY <2>2, <2>5
    <3> QED BY <3>2, <3>3 DEF Arriving, OnWire
  <2>7. e.kind = "bar" => Arriving(v, open, e.sym, now) BY <2>2, <2>4 DEF Arriving, OnWire
  <2>8. \A i \in 1..Len(v) : v[i].at = now \/ (i \in 1..l /\ v[i] = wire[i])
    <3>1. \A i \in 1..Len(v) : i \in 1..l \/ i = l + 1 BY <2>2
    <3> QED BY <2>2, <3>1
  <2>9. wire' = v BY <2>1 DEF v
  <2> QED BY <2>1, <2>3, <2>6, <2>7, <2>8, <2>9
<1>4. CASE ~(open /\ Len(wire) < WireCap)
  <2>1. wire' = wire /\ open' = FALSE BY <1>1, <1>4 DEF Deliver
  <2>2. Arriving(wire', open', e.sym, now) BY <1>2, <2>1 DEF Arriving, CutOff
  <2>3. ASSUME NEW s, NEW t, Arriving(wire, open, s, t) PROVE Arriving(wire', open', s, t)
    BY <2>1, <2>3 DEF Arriving, CutOff
  <2> QED BY <2>1, <2>2, <2>3
<1> QED BY <1>3, <1>4

-----------------------------------------------------------------------------
(* What the engine makes of an event.                                      *)

(* The event comes at its time, and no bar the position of its symbol has   *)
(* not seen is older.                                                      *)
Timely(e) ==
    /\ e.at \in 0..now
    /\ e.kind = "bar" => e.at \in Times /\ close[e.sym][e.at] = e.val
    /\ mem.pos[e.sym] # None =>
          \A t \in Times : (mem.pos[e.sym].managed < t /\ t < e.at) => close[e.sym][t] = None

(* The engine between two events.                                           *)
Steady ==
    /\ mem \in Books /\ disk \in Books /\ SameBook(mem, disk)
    /\ now \in Nat /\ close \in [Symbols -> [Times -> Closes \cup {None}]]
    /\ \A s \in Held(mem) : Right(close, now, s, mem.pos[s])

(* The book q and the rows an event leaves are right, and a position it     *)
(* leaves is one it held, further on, or one of the event's own time.       *)
Judges(q, rows, e) ==
    /\ \A s \in Held(q) : Right(close, now, s, q.pos[s])
    /\ RowsRight(close, now, disk, rows)
    /\ \A s \in Held(q) :
          \/ /\ s \in Held(mem) /\ mem.pos[s].managed <= q.pos[s].managed
             /\ (e.kind = "bar" /\ s = e.sym) => e.at <= q.pos[s].managed
          \/ s = e.sym /\ e.kind # "bar" /\ q.pos[s].managed = e.at

(* The position of the event's symbol, in memory and on the journal, was    *)
(* spared by every older bar.                                              *)
LEMMA SparedSoFar ==
    ASSUME Steady, NEW e \in Events, Timely(e), mem.pos[e.sym] # None
    PROVE  /\ mem.pos[e.sym] \in Position /\ disk.pos[e.sym] \in Position
           /\ disk.pos[e.sym] # None
           /\ disk.pos[e.sym].at = mem.pos[e.sym].at
           /\ disk.pos[e.sym].entry = mem.pos[e.sym].entry
           /\ disk.pos[e.sym].high = mem.pos[e.sym].high
           /\ disk.pos[e.sym].managed <= mem.pos[e.sym].managed
           /\ Right(close, now, e.sym, mem.pos[e.sym])
           /\ \A t \in Times : t < e.at =>
                 /\ Spared(close, e.sym, mem.pos[e.sym], t)
                 /\ Spared(close, e.sym, disk.pos[e.sym], t)
<1> DEFINE s == e.sym  p == mem.pos[s]  d == disk.pos[s]
<1>1. s \in Symbols /\ e.at \in Int BY DEF Events
<1>2. p \in Position \cup {None} /\ d \in Position \cup {None} BY <1>1, BookParts DEF Steady
<1>3. SamePosition(p, d) BY <1>1 DEF Steady, SameBook
<1>4. p # None OBVIOUS
<1>5. /\ d # None /\ d.at = p.at /\ d.entry = p.entry /\ d.high = p.high
      /\ p.managed >= d.managed
  BY <1>3, <1>4 DEF SamePosition
<1>6. p \in Position /\ d \in Position BY <1>2, <1>4, <1>5
<1>7. d.managed <= p.managed BY <1>5, <1>6 DEF Position
<1>8. Right(close, now, s, p) BY <1>1, <1>4 DEF Steady, Held
<1>9. ASSUME NEW t \in Times, t < e.at PROVE Spared(close, s, p, t) /\ Spared(close, s, d, t)
  <2>1. t \in Int /\ p.managed \in Int BY <1>6, BoundAssumption DEF Times, Position
  <2>2. t <= p.managed => Spared(close, s, p, t) BY <1>8 DEF Right
  <2>3. ASSUME ~(t <= p.managed) PROVE Spared(close, s, p, t)
    <3>1. p.managed < t BY <2>1, <2>3
    <3>2. close[s][t] = None BY <1>4, <1>9, <3>1 DEF Timely
    <3> QED BY <3>2 DEF Spared
  <2>4. Spared(close, s, p, t) BY <2>2, <2>3
  <2>5. Spared(close, s, d, t) <=> Spared(close, s, p, t) BY <1>5, <1>6, SameEntry
  <2> QED BY <2>4, <2>5
<1> QED BY <1>5, <1>6, <1>7, <1>8, <1>9

(* A row alone.                                                            *)
LEMMA OneRowRight ==
    ASSUME NEW c, NEW n, NEW d, NEW r \in Rows, RowRight(c, n, d, r),
           r.kind = "stop" => Spared(c, r.sym, d.pos[r.sym], r.at)
    PROVE  RowsRight(c, n, d, <<r>>)
<1> DEFINE q == <<r>>
<1>1. Len(q) = 1 /\ DOMAIN q = {1} /\ q[1] = r OBVIOUS
<1> HIDE DEF q
<1>2. RowsRight(c, n, d, q) BY <1>1 DEF RowsRight
<1> QED BY <1>2 DEF q

(* No row.                                                                 *)
LEMMA NoRowRight ==
    ASSUME NEW c, NEW n, NEW d PROVE RowsRight(c, n, d, <<>>)
<1> DEFINE q == <<>>
<1>1. Len(q) = 0 /\ DOMAIN q = {} OBVIOUS
<1> HIDE DEF q
<1>2. RowsRight(c, n, d, q) BY <1>1 DEF RowsRight
<1> QED BY <1>2 DEF q

(* What leaves the positions alone.                                         *)
LEMMA StillJudges ==
    ASSUME Steady, NEW e \in Events, NEW rows, RowsRight(close, now, disk, rows),
           e.kind = "bar" =>
               mem.pos[e.sym] = None \/ (mem.pos[e.sym] # None /\ e.at <= mem.pos[e.sym].managed)
    PROVE  Judges(mem, rows, e)
<1>1. \A s \in Held(mem) : mem.pos[s] # None /\ mem.pos[s].managed \in Int
  <2>1. \A s \in Held(mem) : mem.pos[s] \in Position BY BookParts DEF Steady, Held
  <2> QED BY <2>1 DEF Held, Position
<1>2. \A s \in Held(mem) : mem.pos[s].managed <= mem.pos[s].managed BY <1>1
<1>3. \A s \in Held(mem) : (e.kind = "bar" /\ s = e.sym) => e.at <= mem.pos[s].managed
  BY <1>1
<1> QED BY <1>2, <1>3 DEF Steady, Judges

(* A new position.                                                         *)
LEMMA OpeningJudges ==
    ASSUME Steady, NEW e \in Events, Timely(e), e.kind # "bar",
           NEW r \in Rows, r.kind = "entered", r.sym = e.sym, r.at = e.at
    PROVE  Judges(Entering(mem, r), <<r>>, e)
<1> DEFINE q == Entering(mem, r)
<1>1. mem.pos \in [Symbols -> Position \cup {None}] /\ r.sym \in Symbols
  BY BookParts DEF Steady, Rows
<1>2. q.pos = [mem.pos EXCEPT ![r.sym] = Opened(r)] BY EnteringFacts DEF Steady
<1>3. Opened(r).managed = r.at BY DEF Opened
<1>4. r.at \in 0..now BY DEF Timely
<1>5. Right(close, now, r.sym, Opened(r)) BY <1>4, OpenedRight DEF Steady
<1>6. RowsRight(close, now, disk, <<r>>)
  <2>1. RowRight(close, now, disk, r) BY <1>4 DEF RowRight
  <2> QED BY <2>1, OneRowRight
<1> HIDE DEF q
<1>7. ASSUME NEW s \in Held(q)
      PROVE  \/ s = r.sym /\ q.pos[s] = Opened(r)
             \/ s # r.sym /\ s \in Held(mem) /\ q.pos[s] = mem.pos[s]
  BY <1>1, <1>2, <1>7 DEF Held
<1>8. \A s \in Held(mem) : mem.pos[s] \in Position BY <1>1 DEF Held
<1>9. \A s \in Held(mem) : mem.pos[s].managed <= mem.pos[s].managed BY <1>8 DEF Position
<1>10. \A s \in Held(q) : Right(close, now, s, q.pos[s]) BY <1>5, <1>7 DEF Steady
<1>11. Judges(q, <<r>>, e) BY <1>3, <1>6, <1>7, <1>9, <1>10 DEF Judges
<1> QED BY <1>11 DEF q

(* A position that is closed.                                               *)
LEMMA ClosingJudges ==
    ASSUME Steady, NEW e \in Events, NEW rows, RowsRight(close, now, disk, rows)
    PROVE  Judges(Closing(mem, e.sym), rows, e)
<1> DEFINE q == Closing(mem, e.sym)
<1>1. mem.pos \in [Symbols -> Position \cup {None}] /\ e.sym \in Symbols
  BY BookParts DEF Steady, Events
<1>2. q.pos = [mem.pos EXCEPT ![e.sym] = None] BY <1>1, ClosingFacts DEF Steady
<1> HIDE DEF q
<1>3. \A s \in Held(q) : s # e.sym /\ s \in Held(mem) /\ q.pos[s] = mem.pos[s]
  BY <1>1, <1>2 DEF Held
<1>4. \A s \in Held(mem) : mem.pos[s] \in Position BY <1>1 DEF Held
<1>5. \A s \in Held(mem) : mem.pos[s].managed <= mem.pos[s].managed BY <1>4 DEF Position
<1>6. Judges(q, rows, e) BY <1>3, <1>5 DEF Judges, Steady
<1> QED BY <1>6 DEF q

(* The row of a close is of a position no older bar should have closed.     *)
LEMMA ExitRight ==
    ASSUME Steady, NEW e \in Events, Timely(e), mem.pos[e.sym] # None,
           NEW r \in Rows, r.kind = "exited", r.sym = e.sym, r.at = e.at
    PROVE  RowRight(close, now, disk, r)
<1>1. r.at <= now BY DEF Timely, Steady
<1>2. /\ disk.pos[r.sym] # None
      /\ \A t \in Times : t < r.at => Spared(close, r.sym, disk.pos[r.sym], t)
  BY SparedSoFar
<1> QED BY <1>1, <1>2 DEF RowRight

(* The row of a raised stop carries the highest close.                      *)
LEMMA StopRight ==
    ASSUME Steady, NEW e \in Events, Timely(e), mem.pos[e.sym] # None, e.kind = "bar",
           mem.pos[e.sym].managed < e.at, mem.pos[e.sym].high < e.val,
           NEW r \in Rows, r.kind = "stop", r.sym = e.sym, r.at = e.at, r.val = e.val
    PROVE  RowRight(close, now, disk, r)
<1> DEFINE s == e.sym  p == mem.pos[s]  d == disk.pos[s]
<1>1. /\ p \in Position /\ d \in Position /\ d # None
      /\ d.at = p.at /\ d.entry = p.entry /\ d.high = p.high
      /\ d.managed <= p.managed /\ Right(close, now, s, p)
      /\ \A t \in Times : t < e.at => Spared(close, s, d, t)
  BY SparedSoFar
<1>2. s \in Symbols /\ e.at \in Int /\ e.val \in Closes /\ e.val \in Int
  BY PriceIsInt DEF Events
<1>3. /\ e.at \in Times /\ e.at <= now /\ close[s][e.at] = e.val
      /\ \A t \in Times : p.managed < t /\ t < e.at => close[s][t] = None
  BY DEF Timely, Steady
<1>4. e.val # None BY <1>2, NoneAssumption
<1>5. now \in Nat /\ close \in [Symbols -> [Times -> Closes \cup {None}]] BY DEF Steady
<1>6. p.managed < e.at /\ p.high < e.val OBVIOUS
<1>7. /\ r.sym = s /\ r.at = e.at /\ r.val = e.val /\ d = disk.pos[r.sym] OBVIOUS
<1> HIDE DEF p, d, s
<1>8. Highest(close, IF close[s][e.at] > p.high THEN close[s][e.at] ELSE p.high, s, p, e.at)
  BY <1>1, <1>2, <1>3, <1>4, <1>5, <1>6, NextBar
<1>9. p.high \in Int /\ d.managed \in Int /\ p.managed \in Int BY <1>1 DEF Position
<1>10. e.val > p.high BY <1>2, <1>6, <1>9
<1>11. Highest(close, e.val, s, p, e.at) BY <1>3, <1>8, <1>10
<1>12. Highest(close, e.val, s, d, e.at) BY <1>1, <1>11, SameEntry
<1>13. d.managed < e.at /\ d.high < e.val BY <1>1, <1>2, <1>6, <1>9
<1> QED BY <1>1, <1>3, <1>4, <1>7, <1>12, <1>13 DEF RowRight

(* What a bar of a held symbol, not yet managed, tells.                     *)
LEMMA BarTells ==
    ASSUME Steady, NEW e \in Events, Timely(e), mem.pos[e.sym] # None, e.kind = "bar",
           mem.pos[e.sym].managed < e.at
    PROVE  /\ e.sym \in Symbols /\ e.at \in Times /\ e.at <= now
           /\ close[e.sym][e.at] = e.val /\ e.val \in Int /\ e.val # None
           /\ mem.pos[e.sym] \in Position
           /\ 0 <= mem.pos[e.sym].at /\ mem.pos[e.sym].at < e.at
           /\ Highest(close, IF e.val > mem.pos[e.sym].high THEN e.val
                             ELSE mem.pos[e.sym].high, e.sym, mem.pos[e.sym], e.at)
           /\ \A t \in Times : t < e.at => Spared(close, e.sym, mem.pos[e.sym], t)
<1> DEFINE s == e.sym  p == mem.pos[s]
<1>1. p \in Position /\ Right(close, now, s, p) BY SparedSoFar
<1>2. s \in Symbols /\ e.val \in Closes /\ e.val \in Int BY PriceIsInt DEF Events
<1>3. /\ e.at \in Times /\ e.at <= now /\ close[s][e.at] = e.val
      /\ \A t \in Times : p.managed < t /\ t < e.at => close[s][t] = None
  BY DEF Timely, Steady
<1>4. e.val # None BY <1>2, NoneAssumption
<1>5. now \in Nat /\ close \in [Symbols -> [Times -> Closes \cup {None}]] BY DEF Steady
<1>6. p.managed < e.at OBVIOUS
<1> HIDE DEF p, s
<1>7. /\ Highest(close, IF close[s][e.at] > p.high THEN close[s][e.at] ELSE p.high, s, p, e.at)
      /\ \A t \in Times : t < e.at => Spared(close, s, p, t)
  BY <1>1, <1>2, <1>3, <1>4, <1>5, <1>6, NextBar
<1>8. p.at \in Int /\ p.managed \in Int /\ e.at \in Int
  BY <1>1, <1>3, BoundAssumption DEF Position, Times
<1>9. 0 <= p.at /\ p.at <= p.managed BY <1>1 DEF Right
<1>10. p.at < e.at BY <1>6, <1>8, <1>9
<1>11. Highest(close, IF e.val > p.high THEN e.val ELSE p.high, s, p, e.at) BY <1>3, <1>7
<1> QED BY <1>1, <1>2, <1>3, <1>4, <1>7, <1>9, <1>10, <1>11 DEF p, s

(* A bar that leaves the position open.                                     *)
LEMMA HoldJudges ==
    ASSUME Steady, NEW e \in Events, Timely(e), mem.pos[e.sym] # None, e.kind = "bar",
           mem.pos[e.sym].managed < e.at,
           NEW q, q = [mem.pos[e.sym] EXCEPT
                          !.high = IF e.val > mem.pos[e.sym].high THEN e.val ELSE @,
                          !.managed = e.at],
           Verdict(q, e.val, e.at) = None,
           NEW m, m = [mem EXCEPT !.pos[e.sym] = q],
           NEW rows, rows = IF e.val > mem.pos[e.sym].high
                            THEN <<Row("stop", e.sym, e.at, e.val, None)>> ELSE <<>>
    PROVE  Judges(m, rows, e)
<1> DEFINE s == e.sym  p == mem.pos[s]  r == Row("stop", s, e.at, e.val, None)
<1>1. /\ s \in Symbols /\ e.at \in Times /\ e.at <= now
      /\ close[s][e.at] = e.val /\ e.val \in Int /\ e.val # None
      /\ p \in Position /\ 0 <= p.at /\ p.at < e.at
      /\ Highest(close, IF e.val > p.high THEN e.val ELSE p.high, s, p, e.at)
      /\ \A t \in Times : t < e.at => Spared(close, s, p, t)
  BY BarTells
<1>2. e.at \in Int BY <1>1, BoundAssumption DEF Times
<1>3. /\ q \in Position /\ q.at = p.at /\ q.entry = p.entry /\ q.managed = e.at
      /\ q.high = IF e.val > p.high THEN e.val ELSE p.high
  BY <1>1, <1>2 DEF Position
<1>4. Verdict(q, close[s][e.at], e.at) = None BY <1>1
<1>5. now \in Nat BY DEF Steady
<1>6. m = [mem EXCEPT !.pos[s] = q] OBVIOUS
<1>7. e.val > p.high => mem.pos[s].high < e.val BY <1>1 DEF Position
<1>8. Right(close, now, s, q) /\ Spared(close, s, p, e.at)
  <2> HIDE DEF p, s
  <2>1. close[s][e.at] # None BY <1>1
  <2>2. Highest(close, q.high, s, p, e.at) BY <1>1, <1>3
  <2> QED BY <1>1, <1>3, <1>4, <1>5, <2>1, <2>2, FedRight
<1>9. RowsRight(close, now, disk, rows)
  <2>1. CASE e.val > p.high
    <3>1. /\ r \in Rows /\ r.kind = "stop" /\ r.sym = e.sym /\ r.at = e.at /\ r.val = e.val
      BY <1>1, <1>2, RowTyped DEF Kinds
    <3>2. rows = <<r>> BY <2>1
    <3> HIDE DEF r
    <3>3. RowRight(close, now, disk, r) BY <1>7, <2>1, <3>1, StopRight
    <3>4. disk.pos[s] \in Position /\ disk.pos[s].at = p.at /\ disk.pos[s].entry = p.entry
      BY SparedSoFar
    <3>5. Spared(close, s, disk.pos[s], e.at) <=> Spared(close, s, p, e.at)
      BY <1>1, <3>4, SameEntry
    <3>6. Spared(close, r.sym, disk.pos[r.sym], r.at) BY <1>8, <3>1, <3>5
    <3> QED BY <3>1, <3>2, <3>3, <3>6, OneRowRight
  <2>2. CASE ~(e.val > p.high)
    <3>1. rows = <<>> BY <2>2
    <3> QED BY <3>1, NoRowRight
  <2> QED BY <2>1, <2>2
<1>10. mem.pos \in [Symbols -> Position \cup {None}] BY BookParts DEF Steady
<1>11. m.pos = [mem.pos EXCEPT ![s] = q]
  <2> DEFINE P == [mem.pos EXCEPT ![s] = q]
  <2>1. m = [mem EXCEPT !.pos = P] BY <1>6
  <2>2. mem = [pos |-> mem.pos, day |-> mem.day, closed |-> mem.closed]
    BY BookRecord DEF Steady
  <2> HIDE DEF P
  <2>3. m.pos = P BY <2>1, <2>2
  <2> QED BY <2>3 DEF P
<1>12. ASSUME NEW u \in Held(m)
       PROVE  \/ u = s /\ m.pos[u] = q /\ u \in Held(mem) /\ mem.pos[u] = p
              \/ u # s /\ u \in Held(mem) /\ m.pos[u] = mem.pos[u]
  BY <1>1, <1>10, <1>11, <1>12 DEF Held
<1>13. \A u \in Held(mem) : Right(close, now, u, mem.pos[u]) BY DEF Steady
<1>14. \A u \in Held(m) : Right(close, now, u, m.pos[u]) BY <1>8, <1>12, <1>13
<1>15. \A u \in Held(mem) : mem.pos[u].managed <= mem.pos[u].managed
  <2>1. \A u \in Held(mem) : mem.pos[u] \in Position BY <1>10 DEF Held
  <2> QED BY <2>1 DEF Position
<1>16. p.managed <= q.managed /\ e.at <= q.managed BY <1>1, <1>2, <1>3 DEF Position
<1>17. \A u \in Held(m) :
          /\ u \in Held(mem) /\ mem.pos[u].managed <= m.pos[u].managed
          /\ (e.kind = "bar" /\ u = e.sym) => e.at <= m.pos[u].managed
  BY <1>12, <1>15, <1>16
<1> HIDE DEF p, s
<1> QED BY <1>9, <1>14, <1>17 DEF Judges

(* A bar that raises the stop and closes the position.                      *)
LEMMA PairRight ==
    ASSUME Steady, NEW e \in Events, Timely(e), mem.pos[e.sym] # None, e.kind = "bar",
           mem.pos[e.sym].managed < e.at, mem.pos[e.sym].high < e.val,
           NEW r \in Rows, r.kind = "stop", r.sym = e.sym, r.at = e.at, r.val = e.val,
           NEW x \in Rows, x.kind = "exited", x.sym = e.sym, x.at = e.at,
           x.why # "momentum"
    PROVE  RowsRight(close, now, disk, <<r, x>>)
<1> DEFINE q == <<r, x>>
<1>1. Len(q) = 2 /\ DOMAIN q = {1, 2} /\ q[1] = r /\ q[2] = x OBVIOUS
<1>2. RowRight(close, now, disk, r) BY StopRight
<1>3. RowRight(close, now, disk, x) BY ExitRight
<1> HIDE DEF q
<1>4. RowsRight(close, now, disk, q) BY <1>1, <1>2, <1>3 DEF RowsRight
<1> QED BY <1>4 DEF q

(* A refused entry.                                                         *)
LEMMA SkipJudges ==
    ASSUME Steady, NEW e \in Events, Timely(e), e.kind # "bar", Skip(e.sym, e.at)
    PROVE  Judges(mem', pending', e)
<1> DEFINE r == Row("skipped", e.sym, e.at, 0, None)
<1>1. r \in Rows /\ r.kind = "skipped" BY RowTyped DEF Kinds, Events
<1>2. mem' = mem /\ pending' = <<r>> BY DEF Skip
<1> HIDE DEF r
<1>3. RowRight(close, now, disk, r) BY <1>1 DEF RowRight
<1>4. RowsRight(close, now, disk, <<r>>) BY <1>1, <1>3, OneRowRight
<1>5. Judges(mem, <<r>>, e) BY <1>4, StillJudges
<1> QED BY <1>2, <1>5

(* try_enter.                                                               *)
LEMMA TryEnterJudges ==
    ASSUME Steady, NEW e \in Events, Timely(e), e.kind # "bar",
           NEW price \in Int, NEW level, TryEnter(e.sym, price, e.at, level)
    PROVE  Judges(mem', pending', e)
<1> DEFINE r == Row("entered", e.sym, e.at, price, None)
<1>1. CASE Skip(e.sym, e.at) BY <1>1, SkipJudges
<1>2. CASE /\ mem' = [mem EXCEPT !.pos[e.sym] = [at |-> e.at, entry |-> price,
                                                 high |-> price, managed |-> e.at],
                                 !.day[e.sym] = Day(e.at)]
           /\ pending' = <<r>>
  <2>1. r \in Rows /\ r.kind = "entered" /\ r.sym = e.sym /\ r.at = e.at /\ r.val = price
    BY RowTyped DEF Kinds, Events
  <2>2. Opened(r) = [at |-> e.at, entry |-> price, high |-> price, managed |-> e.at]
    BY <2>1 DEF Opened
  <2>3. mem' = Entering(mem, r) BY <1>2, <2>1, <2>2 DEF Entering
  <2> HIDE DEF r
  <2>4. Judges(Entering(mem, r), <<r>>, e) BY <2>1, OpeningJudges
  <2> QED BY <1>2, <2>3, <2>4
<1> QED BY <1>1, <1>2 DEF TryEnter

(* on_momentum.                                                             *)
LEMMA MomentumJudges ==
    ASSUME Steady, seen \in [Symbols -> Caches], pending = <<>>,
           NEW e \in Events, Timely(e), e.kind = "momentum", OnMomentum(e)
    PROVE  Judges(mem', pending', e)
<1> DEFINE s == e.sym
<1>1. s \in Symbols /\ e.at \in Int BY DEF Events
<1>2. seen[s].price \in Int \cup {None} BY <1>1, CachesTyped
<1>3. CASE /\ mem.pos[s] # None /\ seen[s].price # None
           /\ mem' = ClosePosition(s)
           /\ pending' = <<Row("exited", s, e.at, seen[s].price, "momentum")>>
  <2> DEFINE r == Row("exited", s, e.at, seen[s].price, "momentum")
  <2>1. r \in Rows /\ r.kind = "exited" /\ r.sym = s /\ r.at = e.at
    BY <1>1, <1>2, <1>3, RowTyped DEF Kinds
  <2>2. pending' = <<r>> /\ mem' = Closing(mem, e.sym) BY <1>3 DEF ClosePosition, Closing
  <2> HIDE DEF r
  <2>3. RowRight(close, now, disk, r) BY <1>3, <2>1, ExitRight
  <2>4. RowsRight(close, now, disk, <<r>>) BY <2>1, <2>3, OneRowRight
  <2>5. Judges(Closing(mem, e.sym), <<r>>, e) BY <2>4, ClosingJudges
  <2> QED BY <2>2, <2>5
<1>4. CASE FreshPrice(s, e.at) /\ TryEnter(s, seen[s].price, e.at, e.val)
  <2>1. seen[s].price \in Int BY <1>2, <1>4 DEF FreshPrice
  <2> QED BY <1>4, <2>1, TryEnterJudges
<1>5. CASE Skip(s, e.at) BY <1>5, SkipJudges
<1>6. CASE UNCHANGED <<mem, pending>>
  <2>1. mem' = mem /\ pending' = <<>> BY <1>6
  <2>2. Judges(mem, <<>>, e) BY NoRowRight, StillJudges
  <2> QED BY <2>1, <2>2
<1> QED BY <1>3, <1>4, <1>5, <1>6 DEF OnMomentum

(* on_bar.                                                                  *)
LEMMA BarJudges ==
    ASSUME Steady, pending = <<>>, NEW e \in Events, Timely(e), e.kind = "bar", OnBar(e)
    PROVE  Judges(mem', pending', e)
<1> DEFINE s == e.sym
           p == mem.pos[s]
           q == [p EXCEPT !.high = IF e.val > p.high THEN e.val ELSE @, !.managed = e.at]
           why == Verdict(q, e.val, e.at)
           stop == Row("stop", s, e.at, e.val, None)
           exit == Row("exited", s, e.at, e.val, why)
           stops == IF e.val > p.high THEN <<stop>> ELSE <<>>
<1>1. s \in Symbols /\ e.at \in Int /\ e.val \in Int BY PriceIsInt DEF Events
<1>2. why \in {"target", "stop", "timeout", None} BY DEF Verdict
<1>3. CASE (p = None \/ (p # None /\ e.at <= p.managed)) /\ UNCHANGED <<mem, pending>>
  <2>1. mem' = mem /\ pending' = <<>> BY <1>3
  <2>2. Judges(mem, <<>>, e) BY <1>3, NoRowRight, StillJudges
  <2> QED BY <2>1, <2>2
<1>4. CASE /\ p # None /\ e.at > p.managed /\ why = None
           /\ mem' = [mem EXCEPT !.pos[s] = q] /\ pending' = stops
  <2>1. p \in Position BY <1>4, SparedSoFar
  <2>2. p.managed < e.at BY <1>1, <1>4, <2>1 DEF Position
  <2> QED BY <1>4, <2>2, HoldJudges
<1>5. CASE /\ p # None /\ e.at > p.managed /\ why # None
           /\ mem' = ClosePosition(s) /\ pending' = Append(stops, exit)
  <2>1. p \in Position BY <1>5, SparedSoFar
  <2>2. p.managed < e.at BY <1>1, <1>5, <2>1 DEF Position
  <2>3. /\ exit \in Rows /\ exit.kind = "exited" /\ exit.sym = e.sym /\ exit.at = e.at
    BY <1>1, <1>2, RowTyped DEF Kinds
  <2>4. exit.why # "momentum" BY <1>2, <1>5 DEF Row
  <2>5. stop \in Rows /\ stop.kind = "stop" /\ stop.sym = e.sym /\ stop.at = e.at
        /\ stop.val = e.val
    BY <1>1, RowTyped DEF Kinds
  <2>6. mem' = Closing(mem, e.sym) BY <1>5 DEF ClosePosition, Closing
  <2> HIDE DEF exit, stop, why
  <2>7. CASE e.val > p.high
    <3>1. pending' = Append(<<stop>>, exit) BY <1>5, <2>7
    <3>2. pending' = <<stop, exit>> BY <2>3, <2>5, <3>1, AppendToOne
    <3>3. p.high < e.val BY <1>1, <2>1, <2>7 DEF Position
    <3>4. RowsRight(close, now, disk, <<stop, exit>>)
      BY <1>5, <2>2, <2>3, <2>4, <2>5, <3>3, PairRight
    <3>5. Judges(Closing(mem, e.sym), <<stop, exit>>, e) BY <3>4, ClosingJudges
    <3> QED BY <2>6, <3>2, <3>5
  <2>8. CASE ~(e.val > p.high)
    <3>1. pending' = <<exit>> BY <1>5, <2>8
    <3>2. RowRight(close, now, disk, exit) BY <1>5, <2>3, ExitRight
    <3>3. RowsRight(close, now, disk, <<exit>>) BY <2>3, <3>2, OneRowRight
    <3>4. Judges(Closing(mem, e.sym), <<exit>>, e) BY <3>3, ClosingJudges
    <3> QED BY <2>6, <3>1, <3>4
  <2> QED BY <2>7, <2>8
<1> QED BY <1>3, <1>4, <1>5 DEF OnBar

(* Any event.                                                               *)
LEMMA EventJudges ==
    ASSUME Steady, seen \in [Symbols -> Caches], pending = <<>>,
           NEW e \in Events, Timely(e), OnEvent(e)
    PROVE  Judges(mem', pending', e)
<1>1. CASE e.kind = "bar" /\ OnBar(e) BY <1>1, BarJudges
<1>2. CASE e.kind = "momentum" /\ OnMomentum(e) BY <1>2, MomentumJudges
<1>3. CASE e.kind = "signal" /\ OnSignal(e)
  <2>1. e.val \in Int BY <1>3, PriceAssumption DEF Events
  <2>2. TryEnter(e.sym, e.val, e.at, seen[e.sym].level) BY <1>3 DEF OnSignal
  <2> QED BY <1>3, <2>1, <2>2, TryEnterJudges
<1> QED BY <1>1, <1>2, <1>3 DEF OnEvent

-----------------------------------------------------------------------------
(* The invariant is inductive.                                             *)

(* A held position is one.                                                 *)
LEMMA HeldPosition ==
    ASSUME NEW b \in Books, NEW s \in Held(b)
    PROVE  s \in Symbols /\ b.pos[s] \in Position /\ b.pos[s] # None
  BY BookParts DEF Held

(* Time is a number.                                                       *)
LEMMA NowIsNat == ASSUME IInv PROVE now \in Nat
  BY BoundAssumption DEF IInv, TypeOK

(* What touches neither book nor rows leaves them right, while the market  *)
(* goes on for at most a minute.                                           *)
LEMMA BooksStand ==
    ASSUME IInv, VInv, IInv', now <= now', OneMinute(close, close', now),
           UNCHANGED <<mem, disk, pending, readable>>, link' = link \/ link # "down"
    PROVE  /\ MemoryRight' /\ DiskRight' /\ RowsRight(close', now', disk', pending')
<1>1. now \in Nat /\ now' \in Nat BY NowIsNat, BoundAssumption DEF IInv, TypeOK
<1>2. mem \in Books /\ disk \in Books /\ pending \in Seq(Rows) /\ Len(pending) <= 2
  BY DEF IInv, TypeOK
<1>3. ASSUME NEW s \in Symbols, NEW p \in Position, Right(close, now, s, p)
      PROVE  Right(close', now', s, p)
  <2>1. /\ now \in Times => close[s][now] = None \/ close'[s][now] = close[s][now]
        /\ \A v \in Times : v # now => close'[s][v] = close[s][v]
    BY DEF OneMinute
  <2> QED BY <1>1, <1>3, <2>1, RightStands
<1>4. MemoryRight'
  <2>1. ASSUME link # "down", NEW s \in Held(mem) PROVE Right(close', now', s, mem.pos[s])
    <3>1. s \in Symbols /\ mem.pos[s] \in Position BY <1>2, HeldPosition
    <3>2. Right(close, now, s, mem.pos[s]) BY <2>1 DEF VInv, MemoryRight
    <3> QED BY <1>3, <3>1, <3>2
  <2> QED BY <2>1 DEF MemoryRight, Held
<1>5. DiskRight'
  <2>1. ASSUME readable, NEW s \in Held(disk)
        PROVE  Right(close', now', s, disk.pos[s]) \/ Halfway(s)
    <3>1. s \in Symbols /\ disk.pos[s] \in Position BY <1>2, HeldPosition
    <3>2. Right(close, now, s, disk.pos[s]) \/ Halfway(s) BY <2>1 DEF VInv, DiskRight
    <3> QED BY <1>3, <3>1, <3>2
  <2> QED BY <2>1 DEF DiskRight, Held, Halfway, MidPair
<1>6. RowsRight(close', now', disk, pending)
  <2>1. RowsRight(close, now, disk, pending) BY DEF VInv
  <2> QED BY <1>1, <1>2, <2>1, RowsStand
<1> QED BY <1>4, <1>5, <1>6

(* What the server sends of the current minute leaves the queue in order,  *)
(* and no bar is lost to a position.                                       *)
LEMMA SentRight ==
    ASSUME IInv, VInv, link # "down", NEW e \in Events, e.at = now, Deliver(e),
           NEW d, InOrder(d, now, wire),
           e.kind = "bar" => now \in Times /\ d[e.sym][now] = e.val,
           e.kind = "bar" => ~OnWire(wire, e.sym, now),
           \A s \in Symbols : \A t \in Times :
               d[s][t] # None => \/ close[s][t] # None
                                 \/ e.kind = "bar" /\ s = e.sym /\ t = now
    PROVE  /\ InOrder(d, now, wire') /\ Follows(d, wire', open')
           /\ Coming(close, mem, backlog, wire, open) => Coming(d, mem, backlog, wire', open')
<1>1. now \in Nat BY NowIsNat
<1>2. InOrder(close, now, wire) /\ Follows(close, wire, open) BY DEF VInv, WireRight
<1>3. /\ InOrder(d, now, wire')
      /\ \A s, t : Arriving(wire, open, s, t) => Arriving(wire', open', s, t)
      /\ e.kind = "bar" => Arriving(wire', open', e.sym, now)
      /\ \A i \in 1..Len(wire') :
             wire'[i].at = now \/ (i \in 1..Len(wire) /\ wire'[i] = wire[i])
  BY <1>2, DeliverRight
<1>4. \A s \in Symbols : \A t \in Times : close[s][t] # None => t <= now
  BY DEF VInv, Linked
<1>5. \A t \in Times : t \in Int BY BoundAssumption DEF Times
<1>6. ASSUME NEW s \in Symbols, NEW t \in Times, NEW i \in 1..Len(wire'),
             d[s][t] # None, wire'[i].at < t
      PROVE  Arriving(wire', open', s, t)
  <2>1. CASE e.kind = "bar" /\ s = e.sym /\ t = now BY <1>3, <2>1
  <2>2. CASE close[s][t] # None
    <3>1. t <= now BY <1>4, <2>2
    <3>2. wire'[i].at # now BY <1>1, <1>5, <1>6, <3>1
    <3>3. i \in 1..Len(wire) /\ wire'[i] = wire[i] BY <1>3, <3>2
    <3>4. Arriving(wire, open, s, t) BY <1>2, <1>6, <2>2, <3>3 DEF Follows
    <3> QED BY <1>3, <3>4
  <2> QED BY <1>6, <2>1, <2>2
<1>7. ASSUME Coming(close, mem, backlog, wire, open),
             NEW s \in Held(mem), NEW t \in Times, d[s][t] # None, mem.pos[s].managed < t
      PROVE  \/ <<s, t>> \in backlog
             \/ (\A b \in backlog : b[2] <= t) /\ Arriving(wire', open', s, t)
  <2>1. CASE e.kind = "bar" /\ s = e.sym /\ t = now BY <1>3, <2>1 DEF VInv, Linked
  <2>2. CASE close[s][t] # None
    <3>1. \/ <<s, t>> \in backlog
          \/ (\A b \in backlog : b[2] <= t) /\ Arriving(wire, open, s, t)
      BY <1>7, <2>2 DEF Coming
    <3> QED BY <1>3, <3>1
  <2>3. s \in Symbols BY DEF Held
  <2> QED BY <1>7, <2>1, <2>2, <2>3
<1> QED BY <1>3, <1>6, <1>7 DEF Follows, Coming

(* A minute passes.                                                        *)
LEMMA MinuteRight == ASSUME IInv, VInv, Minute, IInv' PROVE VInv'
<1>1. /\ now' = now + 1 /\ UNCHANGED <<close, wire, open>>
      /\ UNCHANGED <<link, backlog, mem, pending, disk, readable>>
  BY DEF Minute, TraderUnchanged
<1>2. now \in Nat /\ now <= now' BY <1>1, NowIsNat
<1>3. OneMinute(close, close', now) BY <1>1 DEF OneMinute
<1>4. MemoryRight' /\ DiskRight' /\ RowsRight(close', now', disk', pending')
  BY <1>1, <1>2, <1>3, BooksStand
<1>5. WireRight'
  <2>1. ASSUME link # "down" PROVE InOrder(close, now', wire) /\ Follows(close, wire, open)
    <3>1. InOrder(close, now, wire) /\ Follows(close, wire, open)
      BY <2>1 DEF VInv, WireRight
    <3>2. \A x \in 0..now : x \in 0..now' BY <1>1, <1>2
    <3> QED BY <3>1, <3>2 DEF InOrder
  <2> QED BY <1>1, <2>1 DEF WireRight
<1>6. FeedRight' BY <1>1 DEF VInv, FeedRight, Coming, Held
<1>7. Linked'
  <2>1. \A b \in backlog : b[2] <= now'
    <3>1. \A b \in backlog : b[2] \in Int /\ b[2] <= now
      BY BoundAssumption DEF IInv, TypeOK, VInv, Linked, Times
    <3> QED BY <1>1, <1>2, <3>1
  <2>2. \A s \in Symbols : \A t \in Times : close[s][t] # None => t <= now'
    <3>1. \A t \in Times : t \in Int BY BoundAssumption DEF Times
    <3> QED BY <1>1, <1>2, <3>1 DEF VInv, Linked
  <2> QED BY <1>1, <2>1, <2>2 DEF VInv, Linked
<1> QED BY <1>4, <1>5, <1>6, <1>7 DEF VInv

(* A bar of the market closes.                                             *)
LEMMA BarClosesRight ==
    ASSUME IInv, VInv, NEW s \in Symbols, BarCloses(s), IInv' PROVE VInv'
<1>1. PICK c \in Closes : /\ close' = [close EXCEPT ![s][now] = c]
                          /\ Deliver(Event("bar", s, now, c))
  BY DEF BarCloses
<1>2. /\ now > 0 /\ close[s][now] = None /\ now' = now
      /\ UNCHANGED <<link, backlog, mem, pending, disk, readable>>
  BY DEF BarCloses, TraderUnchanged
<1> DEFINE e == Event("bar", s, now, c)
<1>3. now \in Nat /\ now \in Times BY <1>2, NowIsNat, BoundAssumption DEF IInv, TypeOK, Times
<1>4. close \in [Symbols -> [Times -> Closes \cup {None}]] /\ wire \in Seq(Events)
  BY DEF IInv, TypeOK, WireTyped
<1>5. c # None BY PriceIsInt, NoneAssumption
<1>6. /\ close'[s][now] = c
      /\ \A u \in Symbols, t \in Times : (u # s \/ t # now) => close'[u][t] = close[u][t]
  BY <1>1, <1>3, <1>4
<1>7. OneMinute(close, close', now) BY <1>2, <1>6 DEF OneMinute
<1>8. MemoryRight' /\ DiskRight' /\ RowsRight(close', now', disk', pending')
  BY <1>2, <1>3, <1>7, BooksStand
<1>9. Linked'
  <2>1. ASSUME NEW u \in Symbols, NEW t \in Times, close'[u][t] # None PROVE t <= now
    <3>1. CASE u # s \/ t # now
      <4>1. close[u][t] # None BY <1>6, <2>1, <3>1
      <4> QED BY <4>1 DEF VInv, Linked
    <3>2. CASE t = now BY <1>3, <3>2
    <3> QED BY <3>1, <3>2
  <2> QED BY <1>2, <2>1 DEF VInv, Linked
<1>10. ASSUME link # "down"
       PROVE  /\ InOrder(close', now, wire') /\ Follows(close', wire', open')
              /\ Coming(close, mem, backlog, wire, open)
                    => Coming(close', mem, backlog, wire', open')
  <2>1. InOrder(close, now, wire) BY <1>10 DEF VInv, WireRight
  <2>2. e \in Events /\ e.kind = "bar" /\ e.sym = s /\ e.at = now /\ e.val = c
    BY <1>3, EventTyped DEF Event
  <2>3. ASSUME NEW i \in 1..Len(wire), wire[i].kind = "bar"
        PROVE  close[wire[i].sym][wire[i].at] # None
    <3>1. wire[i] \in Events BY <1>4
    <3>2. wire[i].val \in Closes BY <2>3, <3>1 DEF Events
    <3>3. wire[i].val # None BY <3>2, PriceIsInt, NoneAssumption
    <3> QED BY <2>1, <2>3, <3>3 DEF InOrder
  <2>4. ~OnWire(wire, s, now) BY <1>2, <2>3 DEF OnWire
  <2>5. InOrder(close', now, wire)
    <3>1. \A i \in 1..Len(wire) : wire[i].sym \in Symbols BY <1>4 DEF Events
    <3>2. \A i \in 1..Len(wire) : wire[i].kind = "bar" =>
             wire[i].at \in Times /\ close'[wire[i].sym][wire[i].at] = wire[i].val
      BY <1>2, <1>6, <2>1, <2>3, <3>1 DEF InOrder
    <3> QED BY <2>1, <3>2 DEF InOrder
  <2>6. \A u \in Symbols : \A t \in Times :
           close'[u][t] # None => close[u][t] # None \/ (u = s /\ t = now)
    BY <1>6
  <2>7. Deliver(e) BY <1>1
  <2> HIDE DEF e
  <2> QED BY <1>3, <1>6, <1>10, <2>2, <2>4, <2>5, <2>6, <2>7, SentRight
<1>11. WireRight' BY <1>2, <1>10 DEF WireRight
<1>12. FeedRight' BY <1>2, <1>10 DEF VInv, FeedRight, Coming, Held
<1> QED BY <1>8, <1>9, <1>11, <1>12 DEF VInv

(* An alert is sent.                                                       *)
LEMMA AlertRight ==
    ASSUME IInv, VInv, NEW s \in Symbols, Alert(s), IInv' PROVE VInv'
<1>1. /\ link # "down" /\ UNCHANGED <<now, close>>
      /\ UNCHANGED <<link, backlog, mem, pending, disk, readable>>
  BY DEF Alert, TraderUnchanged
<1>2. now \in Nat BY NowIsNat
<1>3. PICK e \in Events : Deliver(e) /\ e.kind # "bar" /\ e.at = now
  <2>1. CASE \E l \in Levels : Deliver(Event("momentum", s, now, l))
    BY <1>2, <2>1, EventTyped DEF Event
  <2>2. CASE \E a \in Asked : Deliver(Event("signal", s, now, a))
    BY <1>2, <2>2, EventTyped DEF Event
  <2> QED BY <2>1, <2>2 DEF Alert
<1>4. OneMinute(close, close', now) BY <1>1 DEF OneMinute
<1>5. MemoryRight' /\ DiskRight' /\ RowsRight(close', now', disk', pending')
  BY <1>1, <1>2, <1>4, BooksStand
<1>6. InOrder(close, now, wire) BY <1>1 DEF VInv, WireRight
<1>7. /\ InOrder(close, now, wire') /\ Follows(close, wire', open')
      /\ Coming(close, mem, backlog, wire, open) => Coming(close, mem, backlog, wire', open')
  BY <1>1, <1>3, <1>6, SentRight
<1>8. WireRight' BY <1>1, <1>7 DEF WireRight
<1>9. FeedRight' BY <1>1, <1>7 DEF VInv, FeedRight, Coming, Held
<1>10. Linked' BY <1>1 DEF VInv, Linked
<1> QED BY <1>5, <1>8, <1>9, <1>10 DEF VInv

(* A connection begins with the journal's positions and an empty queue.     *)
LEMMA ConnectRight == ASSUME IInv, VInv, Connect PROVE VInv'
<1>1. /\ link = "down" /\ readable /\ mem' = disk /\ wire' = <<>> /\ open' = TRUE
      /\ link' = "fetching" /\ UNCHANGED <<now, close, backlog, pending, disk, readable>>
  BY DEF Connect, ConnectWith
<1>2. pending = <<>> BY <1>1 DEF VInv, Linked
<1>3. \A s \in Held(disk) : Right(close, now, s, disk.pos[s])
  BY <1>1, <1>2 DEF VInv, DiskRight, Halfway, MidPair
<1>4. MemoryRight' BY <1>1, <1>3 DEF MemoryRight, Held
<1>5. DiskRight' BY <1>1, <1>3 DEF DiskRight, Held
<1>6. WireRight' BY <1>1 DEF WireRight, InOrder, Follows
<1>7. FeedRight' BY <1>1 DEF FeedRight
<1>8. Linked' BY <1>1, <1>2 DEF VInv, Linked
<1>9. RowsRight(close', now', disk', pending') BY <1>1 DEF VInv
<1> QED BY <1>4, <1>5, <1>6, <1>7, <1>8, <1>9 DEF VInv

(* What the REST call answers is every bar the held positions have missed.  *)
LEMMA FetchRight == ASSUME IInv, VInv, Fetch, IInv' PROVE VInv'
<1>1. /\ link = "fetching" /\ backlog' = MissedBars /\ link' = "recovering"
      /\ UNCHANGED <<now, close, wire, open, mem, pending, disk, readable>>
  BY DEF Fetch
<1>2. now \in Nat BY NowIsNat
<1>3. OneMinute(close, close', now) BY <1>1 DEF OneMinute
<1>4. MemoryRight' /\ DiskRight' /\ RowsRight(close', now', disk', pending')
  BY <1>1, <1>2, <1>3, BooksStand
<1>5. WireRight' BY <1>1 DEF VInv, WireRight
<1>6. FeedRight'
  <2>1. ASSUME NEW s \in Held(mem), NEW t \in Times, close[s][t] # None,
               mem.pos[s].managed < t
        PROVE  <<s, t>> \in MissedBars
    <3>1. s \in Symbols /\ mem.pos[s] \in Position /\ mem.pos[s] # None
      BY HeldPosition DEF IInv, TypeOK
    <3>2. t <= now BY <2>1, <3>1 DEF VInv, Linked
    <3>3. t > mem.pos[s].managed BY <2>1, <3>1, BoundAssumption DEF Position, Times
    <3> QED BY <2>1, <3>1, <3>2, <3>3 DEF MissedBars, Missed
  <2> QED BY <1>1, <2>1 DEF FeedRight, Coming, Held
<1>7. Linked'
  <2>1. \A b \in MissedBars : b[2] <= now BY DEF MissedBars, Missed
  <2> QED BY <1>1, <2>1 DEF VInv, Linked
<1> QED BY <1>4, <1>5, <1>6, <1>7 DEF VInv

(* The recovery is over.                                                   *)
LEMMA RecoveredRight == ASSUME IInv, VInv, Recovered, IInv' PROVE VInv'
<1>1. /\ link = "recovering" /\ pending = <<>> /\ backlog = {} /\ link' = "live"
      /\ UNCHANGED <<now, close, wire, open, backlog, mem, pending, disk, readable>>
  BY DEF Recovered
<1>2. now \in Nat BY NowIsNat
<1>3. OneMinute(close, close', now) BY <1>1 DEF OneMinute
<1>4. MemoryRight' /\ DiskRight' /\ RowsRight(close', now', disk', pending')
  BY <1>1, <1>2, <1>3, BooksStand
<1>5. WireRight' /\ FeedRight' BY <1>1 DEF VInv, WireRight, FeedRight, Coming, Held
<1>6. Linked' BY <1>1 DEF VInv, Linked
<1> QED BY <1>4, <1>5, <1>6 DEF VInv

(* The engine between two events: nothing waits, nothing is half written.   *)
LEMMA EngineSteady ==
    ASSUME IInv, VInv, link # "down", pending = <<>>
    PROVE  /\ Steady /\ seen \in [Symbols -> Caches]
           /\ readable /\ \A s \in Held(disk) : Right(close, now, s, disk.pos[s])
<1>1. mem \in Books /\ disk \in Books /\ seen \in [Symbols -> Caches]
      /\ close \in [Symbols -> [Times -> Closes \cup {None}]]
  BY DEF IInv, TypeOK
<1>2. SameBook(mem, disk) BY MemoryIsDisk DEF IInv
<1>3. \A s \in Held(mem) : Right(close, now, s, mem.pos[s]) BY DEF VInv, MemoryRight
<1>4. readable BY DEF VInv, Linked
<1>5. \A s \in Held(disk) : Right(close, now, s, disk.pos[s])
  BY <1>4 DEF VInv, DiskRight, Halfway, MidPair
<1> QED BY <1>1, <1>2, <1>3, <1>4, <1>5, NowIsNat DEF Steady

(* A recovered bar is fed.                                                 *)
LEMMA RecoverBarRight == ASSUME IInv, VInv, RecoverBar, IInv' PROVE VInv'
<1>1. /\ link = "recovering" /\ pending = <<>>
      /\ UNCHANGED <<now, close, wire, open, link, disk, readable>>
  BY DEF RecoverBar
<1>2. PICK b \in backlog : /\ \A c \in backlog : b[2] <= c[2]
                           /\ OnEvent(Event("bar", b[1], b[2], close[b[1]][b[2]]))
                           /\ backlog' = backlog \ {b}
  BY DEF RecoverBar
<1> DEFINE e == Event("bar", b[1], b[2], close[b[1]][b[2]])
<1>3. /\ b \in Symbols \X Times /\ b[1] \in Symbols /\ b[2] \in Times /\ b[2] \in Int
      /\ b = <<b[1], b[2]>>
  BY BoundAssumption DEF IInv, TypeOK, Times
<1>4. e \in Events /\ e.kind = "bar" /\ e.sym = b[1] /\ e.at = b[2]
      /\ e.val = close[b[1]][b[2]]
  <2>1. close[b[1]][b[2]] \in Closes BY <1>3 DEF IInv, TypeOK, BacklogTraded
  <2> QED BY <1>3, <2>1, EventTyped DEF Event
<1>5. OnEvent(e) BY <1>2
<1> HIDE DEF e
<1>6. Steady /\ seen \in [Symbols -> Caches] /\ readable
      /\ \A s \in Held(disk) : Right(close, now, s, disk.pos[s])
  BY <1>1, EngineSteady
<1>7. mem \in Books BY DEF IInv, TypeOK
<1>8. Coming(close, mem, backlog, wire, open) BY <1>1 DEF VInv, FeedRight
<1>9. Timely(e)
  <2>1. e.at \in 0..now
    <3>1. b[2] <= now BY DEF VInv, Linked
    <3>2. now \in Nat /\ e.at = b[2] /\ b[2] \in 1..MaxTime BY <1>3, <1>4, NowIsNat DEF Times
    <3> QED BY <3>1, <3>2, BoundAssumption
  <2>2. ASSUME mem.pos[e.sym] # None, NEW t \in Times, mem.pos[e.sym].managed < t,
               t < e.at, close[e.sym][t] # None
        PROVE  FALSE
    <3>1. e.sym \in Held(mem) BY <1>3, <1>4, <2>2 DEF Held
    <3>2. <<e.sym, t>> \in backlog \/ (\A c \in backlog : c[2] <= t)
      BY <1>8, <2>2, <3>1 DEF Coming
    <3>3. b[2] <= t BY <1>2, <3>2
    <3> QED BY <1>3, <1>4, <2>2, <3>3, BoundAssumption DEF Times
  <2> QED BY <1>3, <1>4, <2>1, <2>2 DEF Timely
<1>10. Judges(mem', pending', e) BY <1>1, <1>4, <1>5, <1>6, <1>9, EventJudges
<1>11. MemoryRight' BY <1>1, <1>10 DEF Judges, MemoryRight, Held
<1>12. DiskRight' BY <1>1, <1>6 DEF DiskRight, Held
<1>13. WireRight' BY <1>1 DEF VInv, WireRight
<1>14. ASSUME NEW s \in Held(mem'), NEW t \in Times, close[s][t] # None,
              mem'.pos[s].managed < t
       PROVE  \/ <<s, t>> \in backlog'
              \/ (\A c \in backlog' : c[2] <= t) /\ Arriving(wire, open, s, t)
  <2>1. /\ s \in Held(mem) /\ mem.pos[s].managed <= mem'.pos[s].managed
        /\ s = e.sym => e.at <= mem'.pos[s].managed
    BY <1>4, <1>10 DEF Judges
  <2>2. mem.pos[s].managed \in Int /\ mem'.pos[s].managed \in Int /\ t \in Int
    <3>1. mem' \in Books BY DEF IInv, TypeOK
    <3> QED BY <1>7, <2>1, <3>1, HeldPosition, BoundAssumption DEF Position, Times
  <2>3. mem.pos[s].managed < t BY <1>14, <2>1, <2>2
  <2>4. \/ <<s, t>> \in backlog
        \/ (\A c \in backlog : c[2] <= t) /\ Arriving(wire, open, s, t)
    BY <1>8, <1>14, <2>1, <2>3 DEF Coming
  <2>5. <<s, t>> # b
    <3>1. ASSUME <<s, t>> = b PROVE FALSE
      <4>1. s = e.sym /\ t = e.at BY <1>3, <1>4, <3>1
      <4> QED BY <1>14, <2>1, <2>2, <4>1
    <3> QED BY <3>1
  <2> QED BY <1>2, <2>4, <2>5
<1>15. FeedRight' BY <1>1, <1>14 DEF FeedRight, Coming, Held
<1>16. Linked' BY <1>1, <1>2 DEF VInv, Linked
<1>17. RowsRight(close', now', disk', pending') BY <1>1, <1>10 DEF Judges
<1> QED BY <1>11, <1>12, <1>13, <1>15, <1>16, <1>17 DEF VInv

(* An event of the socket is handled, or found stale.                      *)
LEMMA ReceiveRight == ASSUME IInv, VInv, Receive, IInv' PROVE VInv'
<1>1. /\ link = "live" /\ pending = <<>> /\ wire # <<>> /\ wire' = Tail(wire)
      /\ UNCHANGED <<now, close, open, link, backlog, disk, readable>>
  BY DEF Receive
<1> DEFINE e == Head(wire)
<1>2. wire \in Seq(Events) /\ now \in Nat BY NowIsNat DEF IInv, WireTyped
<1>3. /\ InOrder(close, now, wire) /\ Follows(close, wire, open)
      /\ Coming(close, mem, backlog, wire, open)
  BY <1>1 DEF VInv, WireRight, FeedRight
<1>4. backlog = {} BY <1>1 DEF VInv, Linked
<1>5. /\ InOrder(close, now, Tail(wire)) /\ \A i \in 1..Len(wire) : e.at <= wire[i].at
      /\ e.at \in 0..now
      /\ e.kind = "bar" => e.at \in Times /\ close[e.sym][e.at] = e.val
  BY <1>1, <1>2, <1>3, TailInOrder
<1>6. /\ Len(wire) \in Nat /\ Len(wire) >= 1 /\ e = wire[1] /\ e \in Events
      /\ Len(Tail(wire)) = Len(wire) - 1
      /\ \A i \in 1..Len(Tail(wire)) : i + 1 \in 1..Len(wire) /\ Tail(wire)[i] = wire[i + 1]
  BY <1>1, <1>2, Behind
<1>7. ASSUME NEW s, NEW t, Arriving(wire, open, s, t),
             ~(e.kind = "bar" /\ e.sym = s /\ e.at = t)
      PROVE  Arriving(Tail(wire), open, s, t)
  BY <1>1, <1>2, <1>7, TailArrives
<1>8. \A t \in Times : t \in Int BY BoundAssumption DEF Times
<1> HIDE DEF e
<1>9. WireRight'
  <2>1. ASSUME NEW s \in Symbols, NEW t \in Times, NEW i \in 1..Len(Tail(wire)),
               close[s][t] # None, Tail(wire)[i].at < t
        PROVE  Arriving(Tail(wire), open, s, t)
    <3>1. i + 1 \in 1..Len(wire) /\ wire[i + 1].at < t BY <1>6, <2>1
    <3>2. Arriving(wire, open, s, t) BY <1>3, <2>1, <3>1 DEF Follows
    <3>3. e.at # t
      <4>1. wire[i + 1].at \in Int BY <1>2, <1>3, <3>1 DEF InOrder
      <4>2. e.at <= wire[i + 1].at BY <1>5, <3>1
      <4> QED BY <1>2, <1>5, <1>8, <3>1, <4>1, <4>2
    <3> QED BY <1>7, <3>2, <3>3
  <2> QED BY <1>1, <1>5, <2>1 DEF WireRight, Follows
<1>10. Steady /\ seen \in [Symbols -> Caches] /\ readable
       /\ \A s \in Held(disk) : Right(close, now, s, disk.pos[s])
  BY <1>1, EngineSteady
<1>11. DiskRight' BY <1>1, <1>10 DEF DiskRight, Held
<1>12. Linked' BY <1>1 DEF VInv, Linked
<1>13. CASE Stale(e) /\ UNCHANGED <<mem, seen, pending>>
  <2>1. e.kind # "bar" BY <1>13 DEF Stale
  <2>2. FeedRight'
    <3>1. ASSUME NEW s \in Held(mem), NEW t \in Times, close[s][t] # None,
                 mem.pos[s].managed < t
          PROVE  Arriving(Tail(wire), open, s, t)
      <4>1. Arriving(wire, open, s, t) BY <1>3, <1>4, <3>1 DEF Coming
      <4> QED BY <1>7, <2>1, <4>1
    <3> QED BY <1>1, <1>4, <1>13, <3>1 DEF FeedRight, Coming, Held
  <2>3. MemoryRight' BY <1>1, <1>13 DEF VInv, MemoryRight, Held
  <2>4. RowsRight(close', now', disk', pending') BY <1>1, <1>13 DEF VInv
  <2> QED BY <1>9, <1>11, <1>12, <2>2, <2>3, <2>4 DEF VInv
<1>14. CASE OnEvent(e)
  <2>1. Timely(e)
    <3>1. ASSUME mem.pos[e.sym] # None, NEW t \in Times, mem.pos[e.sym].managed < t,
                 t < e.at, close[e.sym][t] # None
          PROVE  FALSE
      <4>1. e.sym \in Held(mem) BY <1>6, <3>1 DEF Held, Events
      <4>2. Arriving(wire, open, e.sym, t) BY <1>3, <1>4, <3>1, <4>1 DEF Coming
      <4>3. e.at \in Int /\ t \in Int BY <1>2, <1>5, <1>8
      <4>4. CASE OnWire(wire, e.sym, t)
        <5>1. e.at <= t BY <1>5, <4>4 DEF OnWire
        <5> QED BY <3>1, <4>3, <5>1
      <4>5. CASE CutOff(wire, open, t)
        <5>1. 1 \in 1..Len(wire) BY <1>6
        <5>2. e.at <= t BY <1>6, <4>5, <5>1 DEF CutOff
        <5> QED BY <3>1, <4>3, <5>2
      <4> QED BY <4>2, <4>4, <4>5 DEF Arriving
    <3> QED BY <1>5, <3>1 DEF Timely
  <2>2. Judges(mem', pending', e) BY <1>1, <1>6, <1>10, <1>14, <2>1, EventJudges
  <2>3. FeedRight'
    <3>1. ASSUME NEW s \in Held(mem'), NEW t \in Times, close[s][t] # None,
                 mem'.pos[s].managed < t
          PROVE  Arriving(Tail(wire), open, s, t)
      <4>1. mem'.pos[s].managed \in Int /\ t \in Int /\ s \in Symbols
        <5>1. mem' \in Books BY DEF IInv, TypeOK
        <5> QED BY <1>8, <5>1, HeldPosition DEF Position
      <4>2. CASE /\ s \in Held(mem) /\ mem.pos[s].managed <= mem'.pos[s].managed
                 /\ (e.kind = "bar" /\ s = e.sym) => e.at <= mem'.pos[s].managed
        <5>1. mem.pos[s].managed \in Int
          <6>1. mem \in Books BY DEF IInv, TypeOK
          <6> QED BY <4>2, <6>1, HeldPosition DEF Position
        <5>2. mem.pos[s].managed < t BY <3>1, <4>1, <4>2, <5>1
        <5>3. Arriving(wire, open, s, t) BY <1>3, <1>4, <3>1, <4>2, <5>2 DEF Coming
        <5>4. ~(e.kind = "bar" /\ e.sym = s /\ e.at = t) BY <3>1, <4>1, <4>2
        <5> QED BY <1>7, <5>3, <5>4
      <4>3. CASE s = e.sym /\ e.kind # "bar" /\ mem'.pos[s].managed = e.at
        <5>1. 1 \in 1..Len(wire) /\ wire[1].at < t BY <1>6, <3>1, <4>3
        <5>2. Arriving(wire, open, s, t) BY <1>3, <3>1, <4>1, <5>1 DEF Follows
        <5> QED BY <1>7, <4>3, <5>2
      <4> QED BY <2>2, <4>2, <4>3 DEF Judges
    <3> QED BY <1>1, <1>4, <3>1 DEF FeedRight, Coming, Held
  <2>4. MemoryRight' BY <1>1, <2>2 DEF Judges, MemoryRight, Held
  <2>5. RowsRight(close', now', disk', pending') BY <1>1, <2>2 DEF Judges
  <2> QED BY <1>9, <1>11, <1>12, <2>3, <2>4, <2>5 DEF VInv
<1> QED BY <1>13, <1>14 DEF Receive, e

(* The last row that waits reaches the file: the journal is right of it.    *)
LEMMA LastRowRight ==
    ASSUME IInv, VInv, readable, Len(pending) = 1
    PROVE  \A s \in Held(Replay(disk, Head(pending))) :
               Right(close, now, s, Replay(disk, Head(pending)).pos[s])
<1> DEFINE r == Head(pending)
<1>1. pending \in Seq(Rows) /\ pending # <<>> /\ 1 \in DOMAIN pending
  <2>1. pending \in Seq(Rows) BY DEF IInv, TypeOK
  <2>2. 1 \in DOMAIN pending BY <2>1
  <2>3. ASSUME pending = <<>> PROVE FALSE
    <3>1. DOMAIN pending = {} BY <2>3
    <3> QED BY <2>2, <3>1
  <2> QED BY <2>1, <2>2, <2>3
<1>2. r = pending[1] /\ r \in Rows BY <1>1, FirstRow
<1>3. /\ RowRight(close, now, disk, r)
      /\ r.kind = "stop" => Spared(close, r.sym, disk.pos[r.sym], r.at)
  BY <1>1, <1>2 DEF VInv, RowsRight
<1>4. \A s \in Held(disk) : Right(close, now, s, disk.pos[s]) \/ (s = r.sym /\ r.kind = "exited")
  BY DEF VInv, DiskRight, Halfway, MidPair
<1>5. disk \in Books /\ now \in Nat BY NowIsNat DEF IInv, TypeOK
<1> HIDE DEF r
<1>6. \A s \in Held(Replay(disk, r)) : Right(close, now, s, Replay(disk, r).pos[s])
  BY <1>2, <1>3, <1>4, <1>5, ReplayRight
<1> QED BY <1>6 DEF r

(* The first of a pair reaches the file: its stop has seen the bar that     *)
(* closes the position, and the row of the close is next.                  *)
LEMMA FirstOfPair ==
    ASSUME IInv, VInv, AppendRow, readable, Len(pending) = 2
    PROVE  DiskRight' /\ RowsRight(close', now', disk', pending')
<1> DEFINE r == pending[1]  x == pending[2]  p == disk.pos[r.sym]
<1>1. /\ disk' = Replay(disk, Head(pending)) /\ pending' = Tail(pending)
      /\ pending # <<>> /\ UNCHANGED <<now, close, readable>>
  BY DEF AppendRow
<1>2. /\ pending \in Seq(Rows) /\ 1 \in DOMAIN pending /\ 2 \in DOMAIN pending
      /\ disk \in Books /\ now \in Nat
  BY NowIsNat DEF IInv, TypeOK
<1>3. r \in Rows /\ Head(pending) = r /\ x \in Rows BY <1>1, <1>2, FirstRow
<1>4. /\ r.kind = "stop" /\ x.kind = "exited" /\ x.sym = r.sym /\ Takes(disk, r)
  BY <1>1 DEF IInv, BooksOK, RowsTaken, TakesAll
<1>5. x.at = r.at /\ x.why # "momentum" /\ RowRight(close, now, disk, r)
      /\ RowRight(close, now, disk, x)
  BY <1>2 DEF VInv, RowsRight
<1>6. \A s \in Held(disk) : Right(close, now, s, disk.pos[s])
  BY <1>3, <1>4 DEF VInv, DiskRight, Halfway, MidPair
<1>7. /\ pending' \in Seq(Rows) /\ Len(pending') = 1 /\ pending'[1] = x /\ pending' # <<>>
  BY <1>1, <1>2, TailOfTwo
<1>8. r.sym \in Symbols /\ disk.pos \in [Symbols -> Position \cup {None}] /\ p # None
  BY <1>2, <1>3, <1>4, BookParts DEF Rows, Takes
<1>9. p \in Position BY <1>8
<1> DEFINE q == Raised(p, r)
<1>10. disk'.pos = [disk.pos EXCEPT ![r.sym] = q] BY <1>1, <1>2, <1>3, <1>4, <1>8, ReplayStop
<1>11. q \in Position BY <1>3, <1>9, RaisedIsPosition
<1>12. q.at = p.at /\ q.entry = p.entry /\ q.managed = r.at
  <2>1. p.managed < r.at /\ r.at \in Int /\ p.managed \in Int
    BY <1>3, <1>4, <1>5, <1>9 DEF RowRight, Rows, Position
  <2>2. r.at > p.managed BY <2>1
  <2> QED BY <1>9, <2>2 DEF Raised, Position
<1>13. q # None BY <1>11, NoneIsNoPosition
<1> HIDE DEF q, p, r, x
<1>14. disk'.pos[r.sym] = q BY <1>8, <1>10
<1>15. RowRight(close, now, disk', x)
  <2>1. x.at <= now /\ \A t \in Times : t < x.at => Spared(close, r.sym, p, t)
    BY <1>4, <1>5 DEF RowRight, p
  <2>2. \A t : Spared(close, r.sym, p, t) <=> Spared(close, r.sym, q, t)
    BY <1>9, <1>11, <1>12, SameEntry
  <2> QED BY <1>4, <1>13, <1>14, <2>1, <2>2 DEF RowRight
<1>16. pending' = <<x>>
  <2>1. \A i \in 1..Len(pending') : i = 1 BY <1>7
  <2>2. <<x>> \in Seq(Rows) /\ Len(<<x>>) = 1 /\ <<x>>[1] = x BY <1>3
  <2> QED BY <1>7, <2>1, <2>2, SeqEqual
<1>17. RowsRight(close, now, disk', <<x>>) BY <1>3, <1>4, <1>15, OneRowRight
<1>18. ASSUME NEW s, s = r.sym PROVE Halfway(s)'
  <2>1. Head(pending') = x BY <1>7, HeadTailProperties
  <2>2. disk'.pos[s] # None /\ disk'.pos[s].managed = x.at BY <1>5, <1>12, <1>13, <1>14, <1>18
  <2> QED BY <1>4, <1>5, <1>7, <1>18, <2>1, <2>2 DEF Halfway, MidPair
<1>19. ASSUME NEW s \in Held(disk'), s # r.sym PROVE Right(close, now, s, disk'.pos[s])
  <2>1. s \in Held(disk) /\ disk'.pos[s] = disk.pos[s] BY <1>8, <1>10, <1>19 DEF Held
  <2> QED BY <1>6, <2>1
<1>20. \A s \in Held(disk') : Right(close, now, s, disk'.pos[s]) \/ Halfway(s)'
  BY <1>18, <1>19
<1>21. DiskRight' BY <1>1, <1>20 DEF DiskRight, Held
<1> QED BY <1>1, <1>16, <1>17, <1>21

(* A row is appended.                                                      *)
LEMMA AppendRowRight == ASSUME IInv, VInv, AppendRow PROVE VInv'
<1>1. /\ disk' = Replay(disk, Head(pending)) /\ pending' = Tail(pending) /\ pending # <<>>
      /\ UNCHANGED <<now, close, wire, open, link, backlog, mem, readable>>
  BY DEF AppendRow
<1>2. link # "down" /\ link # "fetching" /\ readable BY <1>1 DEF VInv, Linked
<1>3. DiskRight' /\ RowsRight(close', now', disk', pending')
  <2>1. pending \in Seq(Rows) /\ (Len(pending) = 1 \/ Len(pending) = 2)
    BY <1>1, OneOrTwo DEF IInv, TypeOK
  <2>2. CASE Len(pending) = 1
    <3>1. pending' = <<>> BY <1>1, <2>1, <2>2
    <3>2. \A s \in Held(disk') : Right(close, now, s, disk'.pos[s])
      BY <1>1, <1>2, <2>2, LastRowRight
    <3> QED BY <1>1, <3>1, <3>2, NoRowRight DEF DiskRight, Held
  <2>3. CASE Len(pending) = 2 BY <1>2, <2>3, FirstOfPair
  <2> QED BY <2>1, <2>2, <2>3
<1>4. MemoryRight' /\ WireRight' /\ FeedRight'
  BY <1>1 DEF VInv, MemoryRight, WireRight, FeedRight, Coming, Held
<1>5. Linked' BY <1>1, <1>2 DEF VInv, Linked
<1> QED BY <1>3, <1>4, <1>5 DEF VInv

(* Every way to lose the connection leaves the journal alone.              *)
LEMMA EndRight ==
    ASSUME VInv, Disconnect, UNCHANGED <<now, close>>,
           readable' => \A s \in Held(disk') : Right(close, now, s, disk'.pos[s])
    PROVE  VInv'
<1>1. link' = "down" /\ pending' = <<>> /\ backlog' = {} BY DEF Disconnect
<1>2. Linked' BY <1>1 DEF VInv, Linked
<1>3. WireRight' /\ FeedRight' /\ MemoryRight' BY <1>1 DEF WireRight, FeedRight, MemoryRight
<1>4. DiskRight' BY DEF DiskRight, Held
<1>5. RowsRight(close', now', disk', pending') BY <1>1, NoRowRight
<1> QED BY <1>2, <1>3, <1>4, <1>5 DEF VInv

(* A connection that ends, or a process that dies: unless a pair of rows is *)
(* half written, every position of the journal is right.                   *)
LEMMA EndsRight ==
    ASSUME IInv, VInv, ~SplitPairs, Closed \/ AppendFails \/ FetchFails \/ Crash
    PROVE  VInv'
<1>1. ASSUME ~MidPair, readable, disk' = disk
      PROVE  \A s \in Held(disk') : Right(close, now, s, disk'.pos[s])
  BY <1>1 DEF VInv, DiskRight, Halfway, Held
<1>2. CASE Closed
  <2>1. ~MidPair BY <1>2 DEF Closed, MidPair
  <2> QED BY <1>1, <1>2, <2>1, EndRight DEF Closed
<1>3. CASE AppendFails
  <2>1. pending # <<>> /\ Disconnect /\ UNCHANGED <<now, close>> BY <1>3 DEF AppendFails
  <2>2. CASE ~MidPair /\ UNCHANGED <<disk, readable>> BY <1>1, <2>1, <2>2, EndRight
  <2>3. CASE Len(pending) = 1 /\ disk' = Replay(disk, Head(pending)) /\ UNCHANGED readable
    BY <2>1, <2>3, LastRowRight, EndRight
  <2>4. CASE readable' = FALSE BY <2>1, <2>4, EndRight
  <2> QED BY <1>3, <2>2, <2>3, <2>4 DEF AppendFails
<1>4. CASE FetchFails
  <2>1. ~MidPair BY <1>4 DEF FetchFails, MidPair, VInv, Linked
  <2> QED BY <1>1, <1>4, <2>1, EndRight DEF FetchFails
<1>5. CASE Crash
  <2>1. ~MidPair BY <1>5 DEF Crash
  <2> QED BY <1>1, <1>5, <2>1, EndRight DEF Crash
<1> QED BY <1>2, <1>3, <1>4, <1>5

(* The server or the network closes the socket: what is on the wire is      *)
(* lost, and nothing follows it.                                           *)
LEMMA CutRight == ASSUME IInv, VInv, Cut PROVE VInv'
<1>1. /\ link # "down" /\ open' = FALSE /\ wire' = <<>>
      /\ UNCHANGED <<now, close, link, backlog, mem, pending, disk, readable>>
  BY DEF Cut, TraderUnchanged
<1>2. WireRight' BY <1>1 DEF WireRight, InOrder, Follows
<1>3. \A s, t : Arriving(<<>>, FALSE, s, t) BY DEF Arriving, CutOff
<1>4. FeedRight' BY <1>1, <1>3 DEF VInv, FeedRight, Coming, Held
<1>5. MemoryRight' /\ DiskRight' /\ Linked' /\ RowsRight(close', now', disk', pending')
  BY <1>1 DEF VInv, MemoryRight, DiskRight, Linked, Held, Halfway, MidPair
<1> QED BY <1>2, <1>4, <1>5 DEF VInv

(* Nothing happens.                                                        *)
LEMMA StutterRight == ASSUME VInv, UNCHANGED vars PROVE VInv'
<1> USE DEF vars
<1>1. Linked' /\ WireRight' /\ MemoryRight' BY DEF VInv, Linked, WireRight, MemoryRight, Held
<1>2. DiskRight' BY DEF VInv, DiskRight, Held, Halfway, MidPair
<1>3. FeedRight' BY DEF VInv, FeedRight, Coming, Held
<1>4. RowsRight(close', now', disk', pending') BY DEF VInv
<1> QED BY <1>1, <1>2, <1>3, <1>4 DEF VInv

(* A trader that has never run has lost nothing.                            *)
LEMMA InitRight == Init => VInv
<1> SUFFICES ASSUME Init PROVE VInv OBVIOUS
<1>1. Linked /\ WireRight /\ FeedRight /\ MemoryRight
  BY DEF Init, Linked, WireRight, FeedRight, MemoryRight
<1>2. DiskRight BY DEF Init, DiskRight, Held, EmptyBook
<1>3. RowsRight(close, now, disk, pending) BY NoRowRight DEF Init
<1> QED BY <1>1, <1>2, <1>3 DEF VInv

(* Every step keeps what is right.                                         *)
LEMMA StepRight == ASSUME ~SplitPairs, IInv, VInv, [Next]_vars, IInv' PROVE VInv'
<1>1. CASE Minute BY <1>1, MinuteRight
<1>2. CASE Connect BY <1>2, ConnectRight
<1>3. CASE Fetch BY <1>3, FetchRight
<1>4. CASE RecoverBar BY <1>4, RecoverBarRight
<1>5. CASE Recovered BY <1>5, RecoveredRight
<1>6. CASE Receive BY <1>6, ReceiveRight
<1>7. CASE AppendRow BY <1>7, AppendRowRight
<1>8. CASE Closed \/ AppendFails \/ FetchFails \/ Crash BY <1>8, EndsRight
<1>9. CASE Cut BY <1>9, CutRight
<1>10. ASSUME NEW s \in Symbols, BarCloses(s) PROVE VInv' BY <1>10, BarClosesRight
<1>11. ASSUME NEW s \in Symbols, Alert(s) PROVE VInv' BY <1>11, AlertRight
<1>12. CASE UNCHANGED vars BY <1>12, StutterRight
<1> QED BY <1>1, <1>2, <1>3, <1>4, <1>5, <1>6, <1>7, <1>8, <1>9, <1>10, <1>11, <1>12
        DEF Next, Run

(* What is spared is not due: the highest close is the one the market says. *)
LEMMA SparedIsNotDue ==
    ASSUME IInv, NEW s \in Symbols, NEW p \in Position, NEW t \in Times,
           Spared(close, s, p, t)
    PROVE  ~Due(s, p, t)
<1> SUFFICES ASSUME Due(s, p, t) PROVE FALSE OBVIOUS
<1>1. PICK h \in Int : /\ Highest(close, h, s, p, t)
                       /\ Verdict([p EXCEPT !.high = h], close[s][t], t) = None
  BY DEF Due, Spared
<1> DEFINE P == {p.entry} \cup {close[s][u] : u \in {v \in Times :
                                   p.at < v /\ v <= t /\ close[s][v] # None}}
           k == CHOOSE x \in P : \A g \in P : g <= x
<1>2. h \in P /\ \A g \in P : g <= h
  <2>1. h \in P BY <1>1, NoneAssumption DEF Highest
  <2>2. ASSUME NEW g \in P PROVE g <= h
    <3>1. CASE g = p.entry BY <1>1, <3>1 DEF Highest
    <3>2. CASE \E v \in Times : p.at < v /\ v <= t /\ close[s][v] # None /\ g = close[s][v]
      BY <1>1, <3>2 DEF Highest
    <3> QED BY <3>1, <3>2
  <2> QED BY <2>1, <2>2
<1>3. \A g \in P : g \in Int
  <2>1. \A v \in Times : close[s][v] # None => close[s][v] \in Int
    BY PriceIsInt DEF IInv, TypeOK
  <2> QED BY <2>1 DEF Position
<1>4. HighBy(s, p, t) = k BY DEF HighBy
<1> HIDE DEF P
<1>5. k \in P /\ \A g \in P : g <= k BY <1>2
<1>6. k \in Int /\ h <= k /\ k <= h BY <1>2, <1>3, <1>5
<1> HIDE DEF k
<1>7. k = h BY <1>6
<1> QED BY <1>1, <1>4, <1>7 DEF Due

(* Nothing right is overdue.                                               *)
LEMMA RightLosesNothing == ASSUME IInv, VInv PROVE NoVerdictLost
<1>1. ASSUME link # "down", NEW s \in Held(mem), NEW t \in Times, t <= mem.pos[s].managed
      PROVE  ~Due(s, mem.pos[s], t)
  <2>1. s \in Symbols /\ mem.pos[s] \in Position BY HeldPosition DEF IInv, TypeOK
  <2>2. Spared(close, s, mem.pos[s], t) BY <1>1 DEF VInv, MemoryRight, Right
  <2> QED BY <2>1, <2>2, SparedIsNotDue
<1>2. ASSUME NEW n \in DOMAIN pending, pending[n].kind = "exited",
             NEW t \in Times, t < pending[n].at
      PROVE  ~Due(pending[n].sym, disk.pos[pending[n].sym], t)
  <2> DEFINE s == pending[n].sym
  <2>1. pending[n] \in Rows /\ disk \in Books BY DEF IInv, TypeOK
  <2>2. disk.pos[s] # None /\ Spared(close, s, disk.pos[s], t)
    BY <1>2 DEF VInv, RowsRight, RowRight
  <2>3. s \in Symbols BY <2>1 DEF Rows
  <2>4. disk.pos[s] \in Position BY <2>1, <2>2, <2>3, BookParts
  <2> QED BY <2>2, <2>3, <2>4, SparedIsNotDue
<1> QED BY <1>1, <1>2 DEF NoVerdictLost

(* Restarts, failed appends, lag and reconnects lose no verdict: a position *)
(* the connected engine manages met no target, stop or timeout on any bar   *)
(* it counts as managed, and one that is being closed is closed by the      *)
(* first bar that calls for it.  The one thing the proof excludes is a      *)
(* fault between the two rows of one bar, where the verdict is lost.        *)
THEOREM VerdictsAreKept ==
    ASSUME ~SplitPairs
    PROVE  Spec => []NoVerdictLost
<1>1. Init => IInv /\ VInv BY InitInvariant, InitRight
<1>2. (IInv /\ VInv) /\ [Next]_vars => (IInv /\ VInv)'
  BY StepInvariant, StepRight
<1>3. IInv /\ VInv => NoVerdictLost BY RightLosesNothing
<1> QED BY <1>1, <1>2, <1>3, PTL DEF Spec

=============================================================================
