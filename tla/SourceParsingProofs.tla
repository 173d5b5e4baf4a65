-------------------------- MODULE SourceParsingProofs --------------------------
(***************************************************************************)
(* Of the readings of a reviewed document a parser accepts only such as      *)
(* publish the same, or differ in one cell, or have each name and text on   *)
(* the row it belongs to: for the descriptions of parsers of the classes    *)
(* Countable, Orderless, OwnCells and Fitting, for every document and every *)
(* number of rows.                                                          *)
(***************************************************************************)
EXTENDS SourceParsingProperties, NaturalLemmas, SequenceTheorems

\* What the review of a document wrote into its parser.
Interpreting == Interpreted(description, reviewed, RowsTaken(description, reviewed))
ReviewWritten ==
    /\ Interpreting.ok
    /\ recorded = [taken    |-> RowsTaken(description, reviewed),
                   rows     |-> Interpreting.rows,
                   findings |-> Findings(description, Interpreting)]
IInv ==
    /\ reviewed # None => ReviewWritten
    /\ reviewed # None /\ drift = None => extracted = reviewed

\* An interpretation keeps the rows that were taken.
LEMMA InterpretedTakes ==
    ASSUME NEW p, NEW document, NEW known
    PROVE  Interpreted(p, document, known).taken = RowsTaken(p, document)
BY DEF Interpreted, WithRepairs, WithCompletions, Interpretation


\* A review writes what it found, and the invariant holds of it.
LEMMA ReviewStep ==
    ASSUME IInv, NEW d, Review(d)
    PROVE  IInv'
<1> DEFINE document == Numbered(d)
           taken == RowsTaken(description, document)
           i == Interpreted(description, document, taken)
<1>1. /\ i.ok
      /\ reviewed = None /\ reviewed' = document
      /\ recorded' = [taken |-> i.taken, rows |-> i.rows, findings |-> Findings(description, i)]
      /\ extracted' = document
      /\ UNCHANGED <<description, drift, result>>
    BY DEF Review, RecordReview, RecordFindings, Record
<1>2. i.taken = taken
    BY InterpretedTakes
<1>3. RowsTaken(description, reviewed)' = taken
    BY <1>1, Zenon
<1>4. Interpreting' = i
    BY <1>1, Zenon DEF Interpreting
<1>5. Findings(description, Interpreting)' = Findings(description, i)
    BY <1>1, <1>4, Zenon
<1> HIDE DEF i, taken, document
<1>6. ReviewWritten'
    BY <1>1, <1>2, <1>3, <1>4, <1>5 DEF ReviewWritten
<1>7. QED
    BY <1>1, <1>6 DEF IInv


\* Every step keeps the invariant.
LEMMA StepInv ==
    ASSUME IInv, [Next]_vars
    PROVE  IInv'
<1>1. ASSUME NEW d \in Documents(description), Review(d)
      PROVE  IInv'
    BY <1>1, ReviewStep
<1>2. CASE Drift
    <2>1. PICK kind, rows : kind \in Drifts /\ Extract(kind, rows)
        BY <1>2 DEF Drift, LoseRow, RepeatRow, ExchangeRows, BreakRow, LoseCell, GarbleCell,
                    Drifts
    <2>2. /\ reviewed # None /\ result = None /\ drift' # None
          /\ UNCHANGED <<description, reviewed, recorded, result>>
        BY <2>1, NoneIsNoDrift DEF Extract
    <2>3. ReviewWritten'
        BY <2>2 DEF IInv, ReviewWritten, Interpreting
    <2>4. QED
        BY <2>2, <2>3 DEF IInv
<1>3. CASE Parse
    BY <1>3 DEF Parse, IInv, ReviewWritten, Interpreting
<1>4. CASE UNCHANGED vars
    BY <1>4 DEF vars, IInv, ReviewWritten, Interpreting
<1>5. QED
    BY <1>1, <1>2, <1>3, <1>4 DEF Next


----------------------------------------------------------------------------
\* The walk over a document, row by row.

\* f is the walk over the first k rows.
Steps(p, document, f, k) ==
    f = [n \in 0 .. k |-> IF n = 0 THEN Begin ELSE Scan(p, f[n - 1], document, n, document[n])]

\* There is such a walk for every number of rows: the recursion of Walk is well founded.
LEMMA WalkExists ==
    ASSUME NEW p, NEW document, NEW k \in Nat
    PROVE  \E f : Steps(p, document, f, k)
<1> DEFINE S == {n \in Nat : \E f : Steps(p, document, f, n)}
<1>1. 0 \in S
  <2>1. Steps(p, document, [n \in 0 .. 0 |-> Begin], 0)
    BY DEF Steps
  <2> QED
    BY <2>1
<1>2. ASSUME NEW n \in Nat, n \in S PROVE n + 1 \in S
  <2>1. PICK f : Steps(p, document, f, n)
    BY <1>2
  <2> DEFINE g == [m \in 0 .. n + 1 |->
                     IF m <= n THEN f[m] ELSE Scan(p, f[n], document, n + 1, document[n + 1])]
  <2>2. \A m \in 0 .. n + 1 :
           g[m] = IF m = 0 THEN Begin ELSE Scan(p, g[m - 1], document, m, document[m])
    <3>1. TAKE m \in 0 .. n + 1
    <3>2. CASE m = n + 1
      BY <3>2
    <3>3. CASE m \in 0 .. n
      BY <2>1, <3>3 DEF Steps
    <3> QED
      BY <3>2, <3>3
  <2>3. Steps(p, document, g, n + 1)
    BY <2>2 DEF Steps
  <2> QED
    BY <2>3
<1>3. k \in S
  <2> HIDE DEF S
  <2>1. QED
    BY <1>1, <1>2, NaturalsByInduction
<1> QED
  BY <1>3

\* The walk begins at Begin and goes on by Scan.
LEMMA WalkSteps ==
    ASSUME NEW p, NEW document, Len(document) \in Nat
    PROVE  /\ Walk(p, document)[0] = Begin
           /\ \A n \in 1 .. Len(document) :
                 Walk(p, document)[n] = Scan(p, Walk(p, document)[n - 1], document, n, document[n])
<1> DEFINE w == Walk(p, document)
<1>1. w = CHOOSE f : Steps(p, document, f, Len(document))
  BY DEF Walk, Steps
<1>2. Steps(p, document, w, Len(document))
  BY <1>1, WalkExists
<1> QED
  BY <1>2 DEF Steps

----------------------------------------------------------------------------
\* One step of the walk.  Rows that are read alone: nothing of the row above
\* comes to stand on them.

\* Rows that differ at most in the text that was joined to them.
SameText(x, y) ==
    /\ x.kind = y.kind /\ x.page = y.page /\ x.no = y.no /\ x.name = y.name /\ x.id = y.id
    /\ x.from = y.from /\ x.to = y.to /\ x.note = y.note /\ x.section = y.section
    /\ x.meant = y.meant

\* Sequences of such rows.
SameTexts(a, b) ==
    /\ Len(a) = Len(b)
    /\ \A i \in 1 .. Len(a) : SameText(a[i], b[i])

\* What a walk may know.
States ==
    [refused : BOOLEAN, section : Words, held : Seq(Words), taken : Seq(Rows), open : BOOLEAN,
     layout : SUBSET (Nat \X Words \X Nat \X Words), left : Nat, carried : Nat,
     completed : Nat, fragments : Nat]

\* Parsers that take nothing of a row from another row.
ReadsAlone(p) == p.carries = {} /\ ~p.recovers

\* A row as such a parser reads it under a section.
ReadAlone(p, section, r) ==
    InOrder(p, IF p.under = "heading" THEN [r EXCEPT !.section = section] ELSE r)

\* Such a parser takes the row.
Kept(p, section, r) ==
    /\ r.kind = "row"
    /\ Faults(ReadAlone(p, section, r)) \cap (p.flows \cup p.skipped \cup p.dropped \cup p.refused) = {}

\* What is read depends on nothing but the section.
LEMMA ReadsOnlyItself ==
    ASSUME NEW p, ReadsAlone(p), NEW s \in States, NEW document, NEW r \in Rows
    PROVE  /\ Read(p, s, document, r) = ReadAlone(p, s.section, r)
           /\ ReadAlone(p, s.section, r) \in Rows
           /\ Carries(p, s, r) = FALSE
<1>1. Carries(p, s, r) = FALSE
  BY DEF Carries, ReadsAlone
<1>2. UnderHeading(p, s, r) \in Rows
  BY DEF UnderHeading, Rows, States
<1>3. \A x \in Rows : InOrder(p, x) \in Rows
  BY DEF InOrder, Rows
<1>4. \A x : Named(p, document, x) = x
  BY DEF Named, ReadsAlone
<1>5. \A x, y : Belonging(x, y, FALSE) = x
  BY DEF Belonging
<1>6. ReadAlone(p, s.section, r) = InOrder(p, UnderHeading(p, s, r))
  BY DEF ReadAlone, UnderHeading
<1> QED
  BY <1>1, <1>2, <1>3, <1>4, <1>5, <1>6 DEF Read

\* Rows have the text that they have.
LEMMA SameTextsReflexive == ASSUME NEW a PROVE SameTexts(a, a)
BY DEF SameTexts, SameText

\* A fragment that joins a row leaves its cells alone.
LEMMA JoinType ==
    ASSUME NEW s \in States, NEW r \in Rows, s.taken # <<>>
    PROVE  /\ Join(s, r) \in States
           /\ SameTexts(Join(s, r).taken, s.taken)
           /\ Join(s, r).section = s.section
           /\ Join(s, r).refused = s.refused
<1> DEFINE k == Len(s.taken)
           joined == Append(s.taken[k].joined, r.meant)
           q == [s.taken[k] EXCEPT !.joined = joined]
           taken == [s.taken EXCEPT ![k] = q]
           n == s.fragments + 1
<1>1. s.taken \in Seq(Rows) /\ k \in 1 .. Len(s.taken)
  BY EmptySeq DEF States
<1>2. s.taken[k] \in Rows
  BY <1>1
<1>9. joined \in Seq(Words)
  BY <1>2, AppendProperties DEF Rows
<1>3. q \in Rows
  <2> HIDE DEF joined
  <2> QED
    BY <1>2, <1>9 DEF Rows
<1>4. SameText(q, s.taken[k])
  BY <1>2 DEF Rows, SameText
<1>5. Join(s, r) = [s EXCEPT !.taken = taken, !.fragments = n] /\ n \in Nat
  BY <1>1, <1>2 DEF Join, States
<1> HIDE DEF q, joined
<1>6. taken \in Seq(Rows) /\ Len(taken) = Len(s.taken)
      /\ \A j \in 1 .. Len(taken) : taken[j] = IF j = k THEN q ELSE s.taken[j]
  BY <1>1, <1>3, ExceptSeq
<1>7. SameTexts(taken, s.taken)
  BY <1>4, <1>6 DEF SameTexts, SameText
<1> HIDE DEF taken, k, n
<1>8. /\ Join(s, r) \in States
      /\ Join(s, r).taken = taken
      /\ Join(s, r).section = s.section
      /\ Join(s, r).refused = s.refused
  BY <1>5, <1>6 DEF States
<1> QED
  BY <1>7, <1>8

\* Rows that hold no company, and headings, take no row.
LEMMA OtherRowsTakeNothing ==
    ASSUME NEW s \in States, NEW r \in Rows, NEW at \in Nat
    PROVE  /\ Refuse(s) \in States /\ Refuse(s).refused
           /\ Hold(s, r) \in States /\ Hold(s, r).taken = s.taken
           /\ Hold(s, r).section = s.section
           /\ PassOver(s, at, r) \in States /\ PassOver(s, at, r).taken = s.taken
           /\ PassOver(s, at, r).section = s.section /\ PassOver(s, at, r).refused = s.refused
<1> DEFINE n == s.fragments + 1
           held == Append(s.held, r.meant)
           layout == s.layout \cup {<<at, r.kind, r.page, r.section>>}
<1>1. n \in Nat /\ held \in Seq(Words) /\ layout \in SUBSET (Nat \X Words \X Nat \X Words)
  BY DEF States, Rows
<1>2. /\ Refuse(s) = [s EXCEPT !.refused = TRUE]
      /\ Hold(s, r) = [s EXCEPT !.held = held, !.fragments = n]
      /\ PassOver(s, at, r) = [s EXCEPT !.layout = layout, !.open = FALSE]
  BY DEF Refuse, Hold, PassOver
<1>3. Refuse(s) \in States /\ Refuse(s).refused
  BY <1>2 DEF States
<1> HIDE DEF n, held, layout
<1>4. Hold(s, r) \in States /\ Hold(s, r).taken = s.taken /\ Hold(s, r).section = s.section
  BY <1>1, <1>2 DEF States
<1>5. /\ PassOver(s, at, r) \in States /\ PassOver(s, at, r).taken = s.taken
      /\ PassOver(s, at, r).section = s.section /\ PassOver(s, at, r).refused = s.refused
  BY <1>1, <1>2 DEF States
<1> QED
  BY <1>3, <1>4, <1>5

\* Text without a row of its own takes no row.
LEMMA TextTakesNothing ==
    ASSUME NEW p, NEW s \in States, ~s.refused, NEW r \in Rows
    PROVE  /\ Text(p, s, r) \in States
           /\ ~Text(p, s, r).refused =>
                 /\ SameTexts(Text(p, s, r).taken, s.taken)
                 /\ Text(p, s, r).section = s.section
<1>1. CASE s.taken # <<>>
  BY <1>1, JoinType DEF Text
<1>2. CASE s.taken = <<>>
  <2>1. /\ Refuse(s) \in States /\ Refuse(s).refused
        /\ Hold(s, r) \in States /\ Hold(s, r).taken = s.taken
        /\ Hold(s, r).section = s.section
    BY OtherRowsTakeNothing
  <2>2. Text(p, s, r) \in {Hold(s, r), s, Refuse(s)}
    BY <1>2 DEF Text
  <2> QED
    BY <2>1, <2>2, SameTextsReflexive
<1> QED
  BY <1>1, <1>2

\* t is s with one more row, or with none.
OneRowMore(t, s, q) ==
    /\ Len(t.taken) = Len(s.taken) + 1
    /\ \A i \in 1 .. Len(s.taken) : SameText(t.taken[i], s.taken[i])
    /\ SameText(t.taken[Len(s.taken) + 1], q)

\* s has become t over the row r: unless it refused, it took r if and only if r is kept.
Advanced(p, s, r, t) ==
    /\ t.section = IF r.kind = "section" /\ p.under = "heading" THEN r.section ELSE s.section
    /\ IF Kept(p, s.section, r) THEN OneRowMore(t, s, ReadAlone(p, s.section, r))
                                ELSE SameTexts(t.taken, s.taken)

\* Taking a row adds it at the end.
LEMMA TakeAddsRow ==
    ASSUME NEW s \in States, NEW r \in Rows
    PROVE  /\ Take(s, r) \in States
           /\ Take(s, r).refused = s.refused
           /\ Take(s, r).section = s.section
           /\ OneRowMore(Take(s, r), s, r)
<1> DEFINE joined == s.held \o r.joined
           none == <<>>
           q == [r EXCEPT !.joined = joined]
           taken == Append(s.taken, q)
<1>6. joined \in Seq(Words) /\ none \in Seq(Words)
  <2>1. s.held \in Seq(Words) /\ r.joined \in Seq(Words)
    BY DEF States, Rows
  <2> QED
    BY <2>1, ConcatProperties, EmptySeq
<1>2. Take(s, r) = [s EXCEPT !.taken = taken, !.held = none, !.open = TRUE]
  BY DEF Take, States
<1> HIDE DEF joined, none
<1>1. q \in Rows /\ SameText(q, r)
  BY <1>6 DEF Rows, SameText
<1> HIDE DEF q
<1>3. /\ taken \in Seq(Rows) /\ Len(taken) = Len(s.taken) + 1
      /\ \A i \in 1 .. Len(s.taken) : taken[i] = s.taken[i]
      /\ taken[Len(s.taken) + 1] = q
  BY <1>1 DEF States
<1> HIDE DEF taken
<1>4. Take(s, r) \in States /\ Take(s, r).refused = s.refused /\ Take(s, r).section = s.section
      /\ Take(s, r).taken = taken
  BY <1>2, <1>3, <1>6 DEF States
<1>5. OneRowMore(Take(s, r), s, r)
  BY <1>1, <1>3, <1>4 DEF OneRowMore, SameText
<1> QED
  BY <1>4, <1>5

\* A row is taken or not by its own faults alone.
LEMMA EnterAdvances ==
    ASSUME NEW p, ReadsAlone(p), NEW s \in States, ~s.refused, NEW document, NEW r \in Rows,
           r.kind = "row"
    PROVE  /\ Company(p, s, document, r) \in States
           /\ ~Company(p, s, document, r).refused => Advanced(p, s, r, Company(p, s, document, r))
<1> DEFINE read == ReadAlone(p, s.section, r)
           faults == Faults(read)
           t == Company(p, s, document, r)
<1>1. t = Enter(p, s, r, read, faults) /\ read \in Rows /\ Carries(p, s, r) = FALSE
  BY ReadsOnlyItself DEF Company, EnterAsRead
<1> HIDE DEF read, faults, t
<1>2. Kept(p, s.section, r) <=> faults \cap (p.flows \cup p.skipped \cup p.dropped \cup p.refused) = {}
  BY DEF Kept, read, faults
<1>3. Advanced(p, s, r, t) <=>
         /\ t.section = s.section
         /\ IF Kept(p, s.section, r) THEN OneRowMore(t, s, read) ELSE SameTexts(t.taken, s.taken)
  BY DEF Advanced, read
<1>4. CASE faults \cap p.flows # {}
  <2>1. t = Text(p, s, r)
    BY <1>1, <1>4 DEF Enter
  <2>2. ~Kept(p, s.section, r)
    BY <1>2, <1>4
  <2> QED
    BY <1>3, <2>1, <2>2, TextTakesNothing DEF t
<1>5. CASE faults \cap p.flows = {} /\ faults \cap p.skipped # {}
  <2>1. t = [s EXCEPT !.open = FALSE]
    BY <1>1, <1>5 DEF Enter
  <2>2. ~Kept(p, s.section, r)
    BY <1>2, <1>5
  <2>3. t \in States /\ t.section = s.section /\ t.taken = s.taken
    BY <2>1 DEF States
  <2> QED
    BY <1>3, <2>2, <2>3, SameTextsReflexive DEF t
<1>6. CASE faults \cap p.flows = {} /\ faults \cap p.skipped = {} /\ faults \cap p.dropped # {}
  <2> DEFINE n == s.left + 1
  <2>1. t = [s EXCEPT !.left = n, !.open = FALSE] /\ n \in Nat
    BY <1>1, <1>6 DEF Enter, States
  <2> HIDE DEF n
  <2>2. ~Kept(p, s.section, r)
    BY <1>2, <1>6
  <2>3. t \in States /\ t.section = s.section /\ t.taken = s.taken
    BY <2>1 DEF States
  <2> QED
    BY <1>3, <2>2, <2>3, SameTextsReflexive DEF t
<1>7. CASE /\ faults \cap p.flows = {} /\ faults \cap p.skipped = {} /\ faults \cap p.dropped = {}
           /\ faults \cap p.refused # {}
  <2>1. t = Refuse(s)
    BY <1>1, <1>7 DEF Enter
  <2>2. t \in States /\ t.refused
    BY <2>1 DEF States, Refuse
  <2> QED
    BY <2>2 DEF t
<1>8. CASE /\ faults \cap p.flows = {} /\ faults \cap p.skipped = {} /\ faults \cap p.dropped = {}
           /\ faults \cap p.refused = {}
  <2> DEFINE u == [s EXCEPT !.carried = @ + 0]
  <2>1. t = Take(u, read)
    BY <1>1, <1>8 DEF Enter
  <2>2. u \in States /\ u.refused = s.refused /\ u.section = s.section /\ u.taken = s.taken
    BY DEF States
  <2> HIDE DEF u
  <2>3. /\ t \in States /\ t.section = s.section /\ OneRowMore(t, u, read)
    BY <1>1, <2>1, <2>2, TakeAddsRow
  <2>4. OneRowMore(t, s, read)
    BY <2>2, <2>3 DEF OneRowMore
  <2>5. Kept(p, s.section, r)
    BY <1>2, <1>8
  <2> QED
    BY <1>3, <2>3, <2>4, <2>5 DEF t
<1> QED
  BY <1>4, <1>5, <1>6, <1>7, <1>8

\* Every row of a document advances the walk.
LEMMA ScanAdvances ==
    ASSUME NEW p, ReadsAlone(p), NEW s \in States, NEW document, NEW at \in Nat, NEW r \in Rows
    PROVE  /\ Scan(p, s, document, at, r) \in States
           /\ s.refused => Scan(p, s, document, at, r).refused
           /\ ~Scan(p, s, document, at, r).refused => Advanced(p, s, r, Scan(p, s, document, at, r))
<1> DEFINE t == Scan(p, s, document, at, r)
<1> HIDE DEF t
<1>1. CASE s.refused
  BY <1>1 DEF Scan, t
<1>2. CASE ~s.refused /\ r.kind = "row"
  BY <1>2, EnterAdvances DEF Scan, t
<1>3. CASE ~s.refused /\ r.kind # "row"
  <2>1. ~Kept(p, s.section, r)
    BY <1>3 DEF Kept
  <2>2. /\ Text(p, s, r) \in States
        /\ ~Text(p, s, r).refused
              => SameTexts(Text(p, s, r).taken, s.taken) /\ Text(p, s, r).section = s.section
    BY <1>3, TextTakesNothing
  <2>3. /\ Refuse(s) \in States /\ Refuse(s).refused
        /\ Hold(s, r) \in States /\ Hold(s, r).taken = s.taken
        /\ Hold(s, r).section = s.section
    BY OtherRowsTakeNothing
  <2>5. PassOver(s, at, r) \in States /\ PassOver(s, at, r).taken = s.taken
        /\ PassOver(s, at, r).section = s.section /\ PassOver(s, at, r).refused = s.refused
    BY OtherRowsTakeNothing
  <2> DEFINE u == [PassOver(s, at, r) EXCEPT !.section = r.section]
  <2>6. u \in States /\ u.taken = s.taken /\ u.section = r.section /\ u.refused = s.refused
    BY <2>5 DEF States, Rows
  <2> HIDE DEF u
  <2>7. CASE Joins(p, s, r)
    <3>1. t = Text(p, s, r) /\ r.kind # "section"
      BY <1>3, <2>7 DEF Scan, Joins, t
    <3> QED
      BY <1>3, <2>1, <2>2, <3>1 DEF Advanced, t
  <2>8. CASE ~Joins(p, s, r) /\ r.kind = "lead" /\ "lead" \in p.joins
    <3>1. t = Hold(s, r)
      BY <1>3, <2>8 DEF Scan, t
    <3> QED
      BY <1>3, <2>1, <2>3, <2>8, <3>1, SameTextsReflexive DEF Advanced, t
  <2>9. CASE /\ ~Joins(p, s, r) /\ ~(r.kind = "lead" /\ "lead" \in p.joins)
             /\ r.kind = "section" /\ p.under = "heading"
    <3>1. t = u
      BY <1>3, <2>9 DEF Scan, u, t
    <3> QED
      BY <1>3, <2>1, <2>6, <2>9, <3>1, SameTextsReflexive DEF Advanced, t
  <2>10. CASE /\ ~Joins(p, s, r) /\ ~(r.kind = "lead" /\ "lead" \in p.joins)
              /\ ~(r.kind = "section" /\ p.under = "heading")
    <3>1. t = IF r.kind \in p.passed THEN PassOver(s, at, r) ELSE Refuse(s)
      BY <1>3, <2>10 DEF Scan, t
    <3> QED
      BY <1>3, <2>1, <2>3, <2>5, <2>10, <3>1, SameTextsReflexive DEF Advanced, t
  <2> QED
    BY <2>7, <2>8, <2>9, <2>10
<1> QED
  BY <1>1, <1>2, <1>3 DEF t

----------------------------------------------------------------------------
\* Two walks over documents that differ in one place.

\* A walk over a document that nothing in it stopped.
Undisturbed(p, document, w) ==
    /\ w[0] = Begin
    /\ \A n \in 0 .. Len(document) : w[n] \in States
    /\ \A n \in 1 .. Len(document) : Advanced(p, w[n - 1], document[n], w[n])

\* A walk begins in a known state.
LEMMA BeginType == Begin \in States
<1> DEFINE rows == <<>>
           text == <<>>
           layout == {}
           no == FALSE
<1>1. rows \in Seq(Rows) /\ text \in Seq(Words)
  BY EmptySeq
<1>5. layout \in SUBSET (Nat \X Words \X Nat \X Words)
  BY Zenon
<1>6. Blank \in Words
  BY DEF Words
<1>7. no \in BOOLEAN
  OBVIOUS
<1>2. /\ no \in BOOLEAN /\ Blank \in Words /\ text \in Seq(Words)
      /\ layout \in SUBSET (Nat \X Words \X Nat \X Words)
  BY <1>1, <1>5, <1>6, <1>7
<1>3. Begin = [refused |-> no, section |-> Blank, held |-> text, taken |-> rows, open |-> no,
               layout |-> layout, left |-> 0, carried |-> 0, completed |-> 0, fragments |-> 0]
  BY DEF Begin
<1> HIDE DEF rows, text, layout, no
<1>4. [refused |-> no, section |-> Blank, held |-> text, taken |-> rows, open |-> no,
       layout |-> layout, left |-> 0, carried |-> 0, completed |-> 0, fragments |-> 0] \in States
  BY <1>1, <1>2 DEF States
<1> QED
  BY <1>3, <1>4

\* A walk stays among the known states.
LEMMA WalkTypes ==
    ASSUME NEW p, ReadsAlone(p), NEW document \in Seq(Rows)
    PROVE  \A n \in 0 .. Len(document) : Walk(p, document)[n] \in States
<1> DEFINE w == Walk(p, document)
           S == {n \in Nat : n <= Len(document) => w[n] \in States}
<1>1. 0 \in S
  BY BeginType, WalkSteps
<1>2. ASSUME NEW n \in Nat, n \in S PROVE n + 1 \in S
  <2>1. CASE n + 1 <= Len(document)
    <3>1. w[n] \in States /\ n + 1 \in 1 .. Len(document) /\ (n + 1) - 1 = n
      BY <1>2, <2>1
    <3>2. document[n + 1] \in Rows
      BY <3>1
    <3>3. w[n + 1] = Scan(p, w[n], document, n + 1, document[n + 1])
      BY <3>1, WalkSteps
    <3> HIDE DEF w
    <3> QED
      BY <3>1, <3>2, <3>3, ScanAdvances
  <2> QED
    BY <2>1
<1>3. \A n \in Nat : n \in S
  <2> HIDE DEF S
  <2> QED
    BY <1>1, <1>2, NaturalsByInduction
<1> QED
  BY <1>3

\* A document that is not refused at its end was refused nowhere.
LEMMA UnrefusedIsUndisturbed ==
    ASSUME NEW p, ReadsAlone(p), NEW document \in Seq(Rows), ~Scanned(p, document).refused
    PROVE  /\ Undisturbed(p, document, Walk(p, document))
           /\ Scanned(p, document) = Walk(p, document)[Len(document)]
           /\ \A n \in 0 .. Len(document) : ~Walk(p, document)[n].refused
<1> DEFINE w == Walk(p, document)
           N == Len(document)
           S == {k \in Nat : k <= N => ~w[N - k].refused}
<1>0. N \in Nat /\ \A n \in 0 .. N : w[n] \in States
  BY WalkTypes
<1>1. /\ ~w[N].refused
      /\ Scanned(p, document) = w[N]
  <2>1. w[N] \in States
    BY <1>0
  <2>2. Scanned(p, document) = Close(w[N])
    BY DEF Scanned
  <2> HIDE DEF w
  <2> QED
    BY <2>1, <2>2 DEF Close, Refuse, States
<1>2. \A n \in 1 .. N : w[n] = Scan(p, w[n - 1], document, n, document[n])
  BY WalkSteps
<1>3. \A n \in 1 .. N :
         /\ w[n - 1].refused => w[n].refused
         /\ ~w[n].refused => Advanced(p, w[n - 1], document[n], w[n])
  <2> TAKE n \in 1 .. N
  <2>1. w[n - 1] \in States /\ document[n] \in Rows /\ n \in Nat
    BY <1>0
  <2>2. w[n] = Scan(p, w[n - 1], document, n, document[n])
    BY <1>2
  <2> HIDE DEF w
  <2> QED
    BY <2>1, <2>2, ScanAdvances
<1>4. \A k \in Nat : k \in S
  <2> HIDE DEF w
  <2>1. 0 \in S
    BY <1>0, <1>1
  <2>2. ASSUME NEW k \in Nat, k \in S PROVE k + 1 \in S
    <3>1. CASE k + 1 <= N
      <4>1. N - k \in 1 .. N /\ (N - k) - 1 = N - (k + 1) /\ ~w[N - k].refused
        BY <1>0, <2>2, <3>1
      <4>2. ~w[(N - k) - 1].refused
        BY <1>3, <4>1
      <4> QED
        BY <4>1, <4>2
    <3> QED
      BY <3>1, <2>2
  <2> HIDE DEF S
  <2> QED
    BY <2>1, <2>2, NaturalsByInduction
<1>5. \A n \in 0 .. N : ~w[n].refused
  <2> TAKE n \in 0 .. N
  <2>1. N - n \in Nat /\ N - (N - n) = n /\ N - n <= N
    BY <1>0
  <2> HIDE DEF w
  <2> QED
    BY <1>4, <2>1
<1>6. w[0] = Begin
  BY WalkSteps
<1> HIDE DEF w
<1>7. Undisturbed(p, document, w)
  BY <1>0, <1>3, <1>5, <1>6 DEF Undisturbed
<1> QED
  BY <1>1, <1>5, <1>7 DEF w

\* The same rows have led from s to u and from t to v.
Followed(s, t, u, v) ==
    /\ u.section = v.section
    /\ Len(s.taken) <= Len(u.taken)
    /\ Len(u.taken) + Len(t.taken) = Len(v.taken) + Len(s.taken)
    /\ \A l \in 1 .. Len(s.taken) : SameText(u.taken[l], s.taken[l])
    /\ \A l \in 1 .. Len(t.taken) : SameText(v.taken[l], t.taken[l])
    /\ \A l \in Len(s.taken) + 1 .. Len(u.taken) :
          SameText(u.taken[l], v.taken[l + Len(t.taken) - Len(s.taken)])

\* What a walk has taken is a sequence of rows.
LEMMA TakenType == ASSUME NEW s \in States PROVE s.taken \in Seq(Rows) /\ Len(s.taken) \in Nat
<1>1. s.taken \in Seq(Rows)
  BY DEF States
<1> QED
  BY <1>1

\* Having the same text is an equivalence.
LEMMA SameTextIsEquivalence ==
    /\ \A x : SameText(x, x)
    /\ \A x, y : SameText(x, y) => SameText(y, x)
    /\ \A x, y, z : SameText(x, y) /\ SameText(y, z) => SameText(x, z)
BY DEF SameText

\* Walks that have gone nowhere follow each other.
LEMMA NothingFollows ==
    ASSUME NEW s \in States, NEW t \in States, s.section = t.section
    PROVE  Followed(s, t, s, t)
<1>1. Len(s.taken) \in Nat /\ Len(t.taken) \in Nat
  BY TakenType
<1> DEFINE k == Len(s.taken)
           l == Len(t.taken)
<1>5. k \in Nat /\ l \in Nat
  BY <1>1
<1> HIDE DEF k, l
<1>2. k <= k /\ k + l = l + k /\ \A i \in k + 1 .. k : FALSE
  BY <1>5
<1>3. \A i : SameText(s.taken[i], s.taken[i]) /\ SameText(t.taken[i], t.taken[i])
  BY SameTextIsEquivalence
<1>4. /\ s.section = t.section /\ k <= k /\ k + l = l + k
      /\ \A i \in 1 .. k : SameText(s.taken[i], s.taken[i])
      /\ \A i \in 1 .. l : SameText(t.taken[i], t.taken[i])
      /\ \A i \in k + 1 .. k : SameText(s.taken[i], t.taken[i + l - k])
  BY <1>2, <1>3
<1> QED
  BY <1>4 DEF Followed, k, l

\* One more row that both walks pass keeps them together.
LEMMA RowFollows ==
    ASSUME NEW p, NEW s \in States, NEW t \in States, NEW u \in States, NEW v \in States,
           Followed(s, t, u, v), NEW r \in Rows,
           NEW x \in States, Advanced(p, u, r, x),
           NEW y \in States, Advanced(p, v, r, y)
    PROVE  Followed(s, t, x, y)
<1> DEFINE q == ReadAlone(p, u.section, r)
           k == Len(s.taken)
           l == Len(t.taken)
           m == Len(u.taken)
           n == Len(v.taken)
<1>1. k \in Nat /\ l \in Nat /\ m \in Nat /\ n \in Nat /\ Len(x.taken) \in Nat /\ Len(y.taken) \in Nat
  BY TakenType
<1>2. /\ u.section = v.section /\ k <= m /\ m + l = n + k
      /\ \A i \in 1 .. k : SameText(u.taken[i], s.taken[i])
      /\ \A i \in 1 .. l : SameText(v.taken[i], t.taken[i])
      /\ \A i \in k + 1 .. m : SameText(u.taken[i], v.taken[i + l - k])
  BY DEF Followed
<1>3. x.section = y.section
  BY <1>2 DEF Advanced
<1>4. \/ OneRowMore(x, u, q) /\ OneRowMore(y, v, q)
      \/ SameTexts(x.taken, u.taken) /\ SameTexts(y.taken, v.taken)
  BY <1>2 DEF Advanced
<1> HIDE DEF q
<1>5. /\ \A i \in 1 .. m : SameText(x.taken[i], u.taken[i])
      /\ \A i \in 1 .. n : SameText(y.taken[i], v.taken[i])
  BY <1>1, <1>4 DEF OneRowMore, SameTexts
<1>10. \/ /\ Len(x.taken) = m + 1 /\ Len(y.taken) = n + 1
          /\ SameText(x.taken[m + 1], q) /\ SameText(y.taken[n + 1], q)
       \/ Len(x.taken) = m /\ Len(y.taken) = n
  BY <1>1, <1>4 DEF OneRowMore, SameTexts
<1> HIDE DEF k, l, m, n
<1>6. /\ k <= Len(x.taken)
      /\ Len(x.taken) + l = Len(y.taken) + k
  <2>1. /\ k <= m /\ m + l = n + k
        /\ \/ Len(x.taken) = m + 1 /\ Len(y.taken) = n + 1
           \/ Len(x.taken) = m /\ Len(y.taken) = n
    BY <1>2, <1>10
  <2> QED
    BY <1>1, <2>1
<1>7. ASSUME NEW i \in 1 .. k PROVE SameText(x.taken[i], s.taken[i])
  BY <1>1, <1>2, <1>5, SameTextIsEquivalence
<1>8. ASSUME NEW i \in 1 .. l PROVE SameText(y.taken[i], t.taken[i])
  <2>1. i \in 1 .. n
    BY <1>1, <1>2
  <2> QED
    BY <1>2, <1>5, <2>1, SameTextIsEquivalence
<1>9. ASSUME NEW i \in k + 1 .. Len(x.taken) PROVE SameText(x.taken[i], y.taken[i + l - k])
  <2>1. CASE i \in k + 1 .. m
    <3>1. i \in 1 .. m /\ i + l - k \in 1 .. n
      BY <1>1, <1>2, <2>1
    <3>2. SameText(x.taken[i], u.taken[i]) /\ SameText(y.taken[i + l - k], v.taken[i + l - k])
      BY <1>5, <3>1
    <3> QED
      BY <1>2, <2>1, <3>2, SameTextIsEquivalence
  <2>2. CASE i = m + 1 /\ Len(x.taken) = m + 1
    <3>1. i + l - k = n + 1
      BY <1>1, <1>2, <2>2
    <3>2. SameText(x.taken[m + 1], q) /\ SameText(y.taken[n + 1], q)
      BY <1>1, <1>10, <2>2
    <3> QED
      BY <2>2, <3>1, <3>2, SameTextIsEquivalence
  <2> QED
    BY <1>1, <1>10, <2>1, <2>2
<1> QED
  BY <1>3, <1>6, <1>7, <1>8, <1>9 DEF Followed, k, l

\* So does every number of common rows.
LEMMA RowsFollow ==
    ASSUME NEW p, NEW a \in Seq(Rows), NEW b \in Seq(Rows), NEW v, NEW w,
           Undisturbed(p, a, v), Undisturbed(p, b, w),
           NEW i \in Nat, NEW j \in Nat, NEW m \in Nat, i + m <= Len(a), j + m <= Len(b),
           \A k \in 1 .. m : a[i + k] = b[j + k],
           v[i].section = w[j].section
    PROVE  Followed(v[i], w[j], v[i + m], w[j + m])
<1> DEFINE S == {k \in Nat : k <= m => Followed(v[i], w[j], v[i + k], w[j + k])}
<1>1. 0 \in S
  <2>1. v[i] \in States /\ w[j] \in States
    BY DEF Undisturbed
  <2>2. Followed(v[i], w[j], v[i], w[j])
    BY <2>1, NothingFollows
  <2>3. i + 0 = i /\ j + 0 = j
    OBVIOUS
  <2> QED
    BY <2>2, <2>3
<1>2. ASSUME NEW k \in Nat, k \in S PROVE k + 1 \in S
  <2>1. CASE k + 1 <= m
    <3> DEFINE r == a[i + (k + 1)]
    <3>1. Followed(v[i], w[j], v[i + k], w[j + k])
      BY <1>2, <2>1
    <3>2. k + 1 \in 1 .. m
      BY <2>1
    <3>3. /\ r \in Rows /\ r = b[j + (k + 1)]
      <4>1. a[i + (k + 1)] = b[j + (k + 1)]
        BY <3>2
      <4>2. i + (k + 1) \in 1 .. Len(a)
        BY <2>1
      <4> QED
        BY <4>1, <4>2
    <3>4. /\ Advanced(p, v[i + k], r, v[i + (k + 1)])
          /\ v[i] \in States /\ v[i + k] \in States /\ v[i + (k + 1)] \in States
      <4> DEFINE n == i + (k + 1)
      <4>1. n \in 1 .. Len(a) /\ n \in 0 .. Len(a) /\ n - 1 = i + k
            /\ i \in 0 .. Len(a) /\ i + k \in 0 .. Len(a)
        BY <2>1
      <4> HIDE DEF n
      <4>2. Advanced(p, v[n - 1], a[n], v[n])
        BY <4>1 DEF Undisturbed
      <4>3. v[i] \in States /\ v[i + k] \in States /\ v[n] \in States
        BY <4>1 DEF Undisturbed
      <4> QED
        BY <4>1, <4>2, <4>3 DEF n
    <3>5. /\ Advanced(p, w[j + k], r, w[j + (k + 1)])
          /\ w[j] \in States /\ w[j + k] \in States /\ w[j + (k + 1)] \in States
      <4> DEFINE n == j + (k + 1)
      <4>1. n \in 1 .. Len(b) /\ n \in 0 .. Len(b) /\ n - 1 = j + k
            /\ j \in 0 .. Len(b) /\ j + k \in 0 .. Len(b)
        BY <2>1
      <4> HIDE DEF n
      <4>2. Advanced(p, w[n - 1], b[n], w[n])
        BY <4>1 DEF Undisturbed
      <4>3. w[j] \in States /\ w[j + k] \in States /\ w[n] \in States
        BY <4>1 DEF Undisturbed
      <4> QED
        BY <3>3, <4>1, <4>2, <4>3 DEF n
    <3> HIDE DEF r
    <3>6. Followed(v[i], w[j], v[i + (k + 1)], w[j + (k + 1)])
      BY <3>1, <3>3, <3>4, <3>5, RowFollows
    <3> QED
      BY <3>6
  <2> QED
    BY <2>1
<1>3. m \in S
  <2> HIDE DEF S
  <2> QED
    BY <1>1, <1>2, NaturalsByInduction
<1> QED
  BY <1>3

\* Walks that began with the same rows and went on together have taken the same text.
LEMMA FollowedAlike ==
    ASSUME NEW s, NEW t, NEW u, NEW v, Followed(s, t, u, v), SameTexts(s.taken, t.taken),
           Len(s.taken) \in Nat, Len(u.taken) \in Nat, Len(v.taken) \in Nat
    PROVE  SameTexts(u.taken, v.taken)
<1> DEFINE k == Len(s.taken)
           m == Len(u.taken)
<1>1. /\ Len(t.taken) = k /\ \A i \in 1 .. k : SameText(s.taken[i], t.taken[i])
  BY DEF SameTexts
<1>2. /\ m + k = Len(v.taken) + k
      /\ \A i \in 1 .. k : SameText(u.taken[i], s.taken[i])
      /\ \A i \in 1 .. k : SameText(v.taken[i], t.taken[i])
      /\ \A i \in k + 1 .. m : SameText(u.taken[i], v.taken[i + k - k])
  BY <1>1 DEF Followed
<1>3. k \in Nat /\ m \in Nat
  OBVIOUS
<1> HIDE DEF k, m
<1>4. m = Len(v.taken)
  <2>1. m + k = Len(v.taken) + k
    BY <1>2
  <2> QED
    BY <1>3, <2>1
<1>5. ASSUME NEW i \in 1 .. m PROVE SameText(u.taken[i], v.taken[i])
  <2>1. CASE i \in 1 .. k
    BY <1>1, <1>2, <2>1, SameTextIsEquivalence
  <2>2. CASE i \in k + 1 .. m
    <3>1. i + k - k = i
      BY <1>3
    <3> QED
      BY <1>2, <2>2, <3>1
  <2> QED
    BY <1>3, <2>1, <2>2
<1> QED
  BY <1>4, <1>5 DEF SameTexts, m

\* Two documents that begin with the same rows.
BeginAlike(a, b, m) ==
    m \in Nat /\ m <= Len(a) /\ m <= Len(b) /\ \A k \in 1 .. m : a[k] = b[k]

\* Walks over documents that begin alike are the same up to there.
LEMMA SameBeginning ==
    ASSUME NEW p, NEW a \in Seq(Rows), NEW b \in Seq(Rows), NEW v, NEW w,
           Undisturbed(p, a, v), Undisturbed(p, b, w),
           NEW m, BeginAlike(a, b, m)
    PROVE  SameTexts(v[m].taken, w[m].taken) /\ v[m].section = w[m].section
<1>1. v[0] = Begin /\ w[0] = Begin
  BY DEF Undisturbed
<1>0. m \in Nat /\ m <= Len(a) /\ m <= Len(b) /\ \A k \in 1 .. m : a[k] = b[k]
  BY DEF BeginAlike
<1>2. Followed(v[0], w[0], v[m], w[m])
  <2> DEFINE z == 0
  <2>1. /\ z \in Nat /\ z + m <= Len(a) /\ z + m <= Len(b)
        /\ \A k \in 1 .. m : a[z + k] = b[z + k]
        /\ v[z].section = w[z].section
    BY <1>0, <1>1
  <2>2. z + m = m
    BY <1>0
  <2> HIDE DEF z
  <2>3. Followed(v[z], w[z], v[z + m], w[z + m])
    BY <1>0, <2>1, RowsFollow
  <2> QED
    BY <2>2, <2>3 DEF z
<1>3. Begin.taken = <<>>
  BY DEF Begin
<1>4. v[m] \in States /\ w[m] \in States
  BY <1>0 DEF Undisturbed
<1>5. Len(v[m].taken) \in Nat /\ Len(w[m].taken) \in Nat
  BY <1>4, TakenType
<1> QED
  BY <1>1, <1>2, <1>3, <1>5 DEF Followed, SameTexts

----------------------------------------------------------------------------
\* A document and one with a row more.

\* b is a without its row i.
Without(a, i, b) ==
    /\ Len(a) = Len(b) + 1
    /\ \A k \in 1 .. i - 1 : a[k] = b[k]
    /\ \A k \in i .. Len(b) : a[k + 1] = b[k]

\* The rows that were taken are the same without the row i, which was not taken.
Untaken(v, w, a, i, b) ==
    /\ SameTexts(v[Len(a)].taken, w[Len(b)].taken)
    /\ Len(v[i].taken) = Len(v[i - 1].taken)

\* Without one of its rows a document yields the same rows, or one fewer; always one
\* fewer without a row that is taken.
LEMMA LostRow ==
    ASSUME NEW p, NEW a \in Seq(Rows), NEW b \in Seq(Rows),
           NEW i \in 1 .. Len(a), p.under # "heading" \/ a[i].kind # "section", Without(a, i, b),
           NEW v, NEW w, Undisturbed(p, a, v), Undisturbed(p, b, w)
    PROVE  \/ Untaken(v, w, a, i, b)
           \/ Len(v[Len(a)].taken) = Len(w[Len(b)].taken) + 1
<1> DEFINE h == i - 1
           m == Len(b) - h
<1>1. /\ h \in Nat /\ m \in Nat /\ h <= Len(a) /\ h <= Len(b) /\ Len(a) \in Nat /\ Len(b) \in Nat
      /\ i \in Nat /\ i + m = Len(a) /\ h + m = Len(b)
  BY DEF Without
<1>2. SameTexts(v[h].taken, w[h].taken) /\ v[h].section = w[h].section
  <2>1. BeginAlike(a, b, h)
    BY <1>1 DEF BeginAlike, Without
  <2> HIDE DEF h
  <2> QED
    BY <2>1, SameBeginning
<1>3. Advanced(p, v[h], a[i], v[i])
  BY DEF Undisturbed
<1>4. v[i].section = w[h].section
  BY <1>2, <1>3 DEF Advanced
<1>5. Followed(v[i], w[h], v[Len(a)], w[Len(b)])
  <2>1. \A k \in 1 .. m : a[i + k] = b[h + k]
    <3> TAKE k \in 1 .. m
    <3>1. h + k \in i .. Len(b) /\ (h + k) + 1 = i + k
      BY <1>1
    <3> QED
      BY <3>1 DEF Without
  <2> HIDE DEF h, m
  <2>3. i \in Nat /\ h \in Nat /\ m \in Nat /\ i + m <= Len(a) /\ h + m <= Len(b)
    BY <1>1
  <2>2. Followed(v[i], w[h], v[i + m], w[h + m])
    BY <1>4, <2>1, <2>3, RowsFollow
  <2> QED
    BY <1>1, <2>2
<1>6. /\ Len(v[h].taken) \in Nat /\ Len(w[h].taken) \in Nat /\ Len(v[i].taken) \in Nat
      /\ Len(v[Len(a)].taken) \in Nat /\ Len(w[Len(b)].taken) \in Nat
  <2>1. /\ v[h] \in States /\ w[h] \in States /\ v[i] \in States
        /\ v[Len(a)] \in States /\ w[Len(b)] \in States
    BY <1>1 DEF Undisturbed
  <2> QED
    BY <2>1, TakenType
<1> HIDE DEF h, m
<1>7. CASE SameTexts(v[i].taken, v[h].taken)
  <2>1. SameTexts(v[i].taken, w[h].taken)
    BY <1>2, <1>7, SameTextIsEquivalence DEF SameTexts
  <2>2. SameTexts(v[Len(a)].taken, w[Len(b)].taken)
    BY <1>5, <1>6, <2>1, FollowedAlike
  <2> QED
    BY <1>7, <2>2 DEF SameTexts, Untaken, h
<1>8. CASE Len(v[i].taken) = Len(v[h].taken) + 1
  <2>1. /\ Len(v[i].taken) = Len(w[h].taken) + 1
        /\ Len(v[Len(a)].taken) + Len(w[h].taken) = Len(w[Len(b)].taken) + Len(v[i].taken)
    BY <1>2, <1>5, <1>8 DEF SameTexts, Followed
  <2> DEFINE x == Len(v[Len(a)].taken)
             y == Len(w[Len(b)].taken)
             z == Len(w[h].taken)
  <2>2. x \in Nat /\ y \in Nat /\ z \in Nat /\ x + z = y + (z + 1)
    BY <1>6, <2>1
  <2> HIDE DEF x, y, z
  <2>3. x = y + 1
    BY <2>2
  <2> QED
    BY <2>3 DEF x, y
<1> QED
  BY <1>3, <1>7, <1>8 DEF Advanced, OneRowMore

----------------------------------------------------------------------------
\* Rows with the same text.

\* Two tables of rows with the same text.
Alike(a, b) ==
    /\ DOMAIN a = DOMAIN b
    /\ \A i \in DOMAIN a : SameText(a[i], b[i])

\* Rows with the same text have the same cells.
LEMMA SameCells ==
    ASSUME NEW x, NEW y, SameText(x, y)
    PROVE  /\ \A f \in Fields : x[f] = y[f]
           /\ \A f \in Fields : Is(x, f) = Is(y, f)
<1>1. \A f \in Fields : x[f] = y[f]
  BY DEF Fields, SameText
<1> QED
  BY <1>1 DEF Is

\* The faults of a row are those of its text.
LEMMA SameFaults ==
    ASSUME NEW x, NEW y, SameText(x, y)
    PROVE  Faults(x) = Faults(y)
<1> DEFINE blankx == {g \in Fields : x[g] = Blank}
           blanky == {g \in Fields : y[g] = Blank}
           somex == {g \in Fields : x[g] # Blank}
           somey == {g \in Fields : y[g] # Blank}
           badx == {g \in Fields : x[g] # Blank /\ ~Is(x, g)}
           bady == {g \in Fields : y[g] # Blank /\ ~Is(y, g)}
<1>1. blankx = blanky /\ somex = somey /\ badx = bady
  BY SameCells
<1>2. /\ x.name = y.name /\ x.id = y.id /\ x.from = y.from /\ x.to = y.to /\ x.note = y.note
      /\ Is(x, "id") = Is(y, "id") /\ Is(x, "from") = Is(y, "from") /\ Is(x, "to") = Is(y, "to")
  <2>1. "id" \in Fields /\ "from" \in Fields /\ "to" \in Fields
    BY DEF Fields
  <2> QED
    BY <2>1, SameCells DEF SameText
<1> DEFINE All(blank, some, bad, name, id, from, to, note, isId, isFrom, isTo) ==
        {No(f) : f \in blank} \cup {Some(f) : f \in some} \cup {Bad(f) : f \in bad}
        \cup {e \in {Anonymous} : name = Blank /\ id = Blank}
        \cup {e \in {Unmarked} : from = Blank /\ note = Blank}
        \cup {e \in {Undated} : from = Blank /\ to = Blank}
        \cup {e \in {Bare} : ~isId /\ from = Blank /\ to = Blank}
        \cup {e \in {HalfDated} : (from = Blank) # (to = Blank)}
        \cup {e \in {Inverted} : from = "d2" /\ to = "d1"}
        \cup {e \in {Unreadable} : ~isFrom /\ ~isTo}
        \cup {e \in {Premature} : note = "pending" /\ to # Blank}
        \cup {e \in {Endless} : note # "pending" /\ to = Blank}
<1>3. Faults(x) = All(blankx, somex, badx, x.name, x.id, x.from, x.to, x.note,
                      Is(x, "id"), Is(x, "from"), Is(x, "to"))
  BY DEF Faults
<1>4. Faults(y) = All(blanky, somey, bady, y.name, y.id, y.from, y.to, y.note,
                      Is(y, "id"), Is(y, "from"), Is(y, "to"))
  BY DEF Faults
<1> HIDE DEF blankx, blanky, somex, somey, badx, bady, All
<1> QED
  BY <1>1, <1>2, <1>3, <1>4

\* So is whether its dates must be completed,
LEMMA SameIncomplete ==
    ASSUME NEW p, NEW x, NEW y, SameText(x, y)
    PROVE  Incomplete(p, x) = Incomplete(p, y)
<1>1. Is(x, "from") = Is(y, "from") /\ Is(x, "to") = Is(y, "to")
  BY SameCells DEF Fields
<1>2. Has(x, {Bad("from"), Bad("to")}) = Has(y, {Bad("from"), Bad("to")})
  BY SameFaults DEF Has
<1> QED
  BY <1>1, <1>2 DEF Incomplete

\* with which dates,
LEMMA SamePeers ==
    ASSUME NEW p, NEW a, NEW b, Alike(a, b), NEW i \in DOMAIN a
    PROVE  Peers(p, a, i) = Peers(p, b, i)
<1>1. \A k \in DOMAIN a :
         /\ a[k].name = b[k].name /\ a[k].id = b[k].id /\ a[k].from = b[k].from /\ a[k].to = b[k].to
         /\ a[k].note = b[k].note
         /\ Is(a[k], "from") = Is(b[k], "from") /\ Is(a[k], "to") = Is(b[k], "to")
  <2> TAKE k \in DOMAIN a
  <2>1. SameText(a[k], b[k])
    BY DEF Alike
  <2> QED
    BY <2>1, SameCells DEF SameText, Fields
<1>2. DOMAIN a = DOMAIN b
  BY DEF Alike
<1> DEFINE Pairs(t) == {k \in DOMAIN t : Is(t[k], "from") /\ Is(t[k], "to")
                                           /\ (t[k].name = t[i].name /\ t[k].id = t[i].id)
                                           /\ t[k].note = t[i].note}
           Match(t) == {k \in DOMAIN t \ {i} :
                             /\ (t[k].name = t[i].name /\ t[k].id = t[i].id)
                             /\ Is(t[k], "from") /\ Is(t[k], "to")
                             /\ t[i].from \in Formed.from => t[k].from = t[i].from
                             /\ t[i].to \in Formed.to => t[k].to = t[i].to}
<1>3. Pairs(a) = Pairs(b) /\ Match(a) = Match(b)
  BY <1>1, <1>2
<1>4. /\ {<<a[j].from, a[j].to>> : j \in Pairs(a)} = {<<b[j].from, b[j].to>> : j \in Pairs(b)}
      /\ {<<a[j].from, a[j].to>> : j \in Match(a)} = {<<b[j].from, b[j].to>> : j \in Match(b)}
  BY <1>1, <1>3
<1> QED
  BY <1>4, Zenon DEF Peers

\* which rows are,
LEMMA SameCompletable ==
    ASSUME NEW p, NEW a, NEW b, Alike(a, b)
    PROVE  Completable(p, a) = Completable(p, b)
<1>1. \A i \in DOMAIN a : Incomplete(p, a[i]) = Incomplete(p, b[i])
  BY SameIncomplete DEF Alike
<1>2. \A i \in DOMAIN a : Cardinality(Peers(p, a, i)) = Cardinality(Peers(p, b, i))
  BY SamePeers
<1>3. DOMAIN a = DOMAIN b
  BY DEF Alike
<1> QED
  BY <1>1, <1>2, <1>3, Zenon DEF Completable

\* and what they become.
LEMMA SameCompleted ==
    ASSUME NEW p, NEW a, NEW b, Alike(a, b), NEW c,
           \A i \in DOMAIN a : a[i] \in Rows /\ b[i] \in Rows
    PROVE  Alike(Completed(p, a, c), Completed(p, b, c))
<1>1. DOMAIN a = DOMAIN b
  BY DEF Alike
<1>2. DOMAIN Completed(p, a, c) = DOMAIN a /\ DOMAIN Completed(p, b, c) = DOMAIN b
  BY DEF Completed
<1>3. ASSUME NEW i \in DOMAIN a
      PROVE  SameText(Completed(p, a, c)[i], Completed(p, b, c)[i])
  <2>1. SameText(a[i], b[i]) /\ a[i] \in Rows /\ b[i] \in Rows
    BY DEF Alike
  <2>2. Peers(p, a, i) = Peers(p, b, i)
    BY SamePeers
  <2> DEFINE pair == CHOOSE x \in Peers(p, a, i) : TRUE
  <2>5. Completed(p, a, c)[i] = IF i \in c THEN Dated(a[i], pair) ELSE a[i]
    BY DEF Completed
  <2>6. Completed(p, b, c)[i] =
            IF i \in c THEN Dated(b[i], CHOOSE x \in Peers(p, b, i) : TRUE) ELSE b[i]
    BY <1>1 DEF Completed
  <2>7. (CHOOSE x \in Peers(p, b, i) : TRUE) = pair
    BY <2>2, Zenon
  <2>3. /\ Completed(p, a, c)[i] = IF i \in c THEN Dated(a[i], pair) ELSE a[i]
        /\ Completed(p, b, c)[i] = IF i \in c THEN Dated(b[i], pair) ELSE b[i]
    BY <2>5, <2>6, <2>7
  <2> HIDE DEF pair
  <2>4. SameText(Dated(a[i], pair), Dated(b[i], pair))
    BY <2>1 DEF Dated, SameText, Rows
  <2> QED
    BY <2>1, <2>3, <2>4
<1> QED
  BY <1>1, <1>2, <1>3 DEF Alike

\* Repairs make the same of the same text.
LEMMA SameRepaired ==
    ASSUME NEW p, NEW a, NEW b, Alike(a, b), NEW review \in Seq(Rows),
           \A i \in DOMAIN a : a[i] \in Rows /\ b[i] \in Rows
    PROVE  /\ Alike(Repaired(p, a, review), Repaired(p, b, review))
           /\ DOMAIN Repaired(p, a, review) = DOMAIN a
           /\ \A i \in DOMAIN a : Repaired(p, a, review)[i] \in Rows /\ Repaired(p, b, review)[i] \in Rows
<1>1. DOMAIN a = DOMAIN b
  BY DEF Alike
<1>2. DOMAIN Repaired(p, a, review) = DOMAIN a /\ DOMAIN Repaired(p, b, review) = DOMAIN b
  BY DEF Repaired
<1>3. ASSUME NEW i \in DOMAIN a
      PROVE  /\ SameText(Repaired(p, a, review)[i], Repaired(p, b, review)[i])
             /\ Repaired(p, a, review)[i] \in Rows /\ Repaired(p, b, review)[i] \in Rows
  <2>1. SameText(a[i], b[i]) /\ a[i] \in Rows /\ b[i] \in Rows
    BY DEF Alike
  <2> DEFINE known == Reviewed(review, i, p.repaired \cup p.supplied)
             name == review[i].meant
  <2>2. /\ Repaired(p, a, review)[i] = IF known THEN [a[i] EXCEPT !.name = name] ELSE a[i]
        /\ Repaired(p, b, review)[i] = IF known THEN [b[i] EXCEPT !.name = name] ELSE b[i]
    BY <1>1 DEF Repaired
  <2>3. known => name \in Words
    <3>1. known => i \in DOMAIN review
      BY DEF Reviewed
    <3>2. i \in DOMAIN review => review[i] \in Rows
      OBVIOUS
    <3> QED
      BY <3>1, <3>2 DEF Rows
  <2> HIDE DEF known, name
  <2>4. known => /\ [a[i] EXCEPT !.name = name] \in Rows /\ [b[i] EXCEPT !.name = name] \in Rows
                 /\ SameText([a[i] EXCEPT !.name = name], [b[i] EXCEPT !.name = name])
    BY <2>1, <2>3 DEF Rows, SameText
  <2> QED
    BY <2>1, <2>2, <2>4
<1> QED
  BY <1>1, <1>2, <1>3 DEF Alike

----------------------------------------------------------------------------
\* Records.

\* A group is a set of rows with a first one.
LEMMA GroupsAreOfRows ==
    ASSUME NEW p, NEW rows, NEW g \in Groups(p, rows), DOMAIN rows \subseteq Nat
    PROVE  g \subseteq DOMAIN rows /\ First(g) \in g
<1>1. PICK i \in DOMAIN rows :
        g = {j \in DOMAIN rows : IF p.key = {} THEN i = j
                                 ELSE \A f \in p.key : CellFor(rows[i], f) = CellFor(rows[j], f)}
  BY DEF Groups
<1>2. g \subseteq DOMAIN rows /\ i \in g
  BY <1>1
<1>3. \E x \in g : \A y \in g : x <= y
  BY <1>2, LeastNatural
<1> QED
  BY <1>2, <1>3 DEF First

\* Where a row is a record, there are as many records as rows.
LEMMA RecordPerRow ==
    ASSUME NEW p, p.key = {}, NEW rows, NEW n \in Nat, DOMAIN rows = 1 .. n
    PROVE  Cardinality(Groups(p, rows)) = n
<1> DEFINE f == [i \in 1 .. n |-> {i}]
           groups == Groups(p, rows)
<1>1. groups = {{j \in 1 .. n : i = j} : i \in 1 .. n}
  BY DEF Groups
<1>2. \A i \in 1 .. n : {j \in 1 .. n : i = j} = {i}
  OBVIOUS
<1>3. groups = {{i} : i \in 1 .. n}
  BY <1>1, <1>2
<1> HIDE DEF groups
<1>4. f \in Bijection(1 .. n, groups)
  <2>1. f \in [1 .. n -> groups]
    BY <1>3
  <2>2. \A i, j \in 1 .. n : f[i] = f[j] => i = j
    OBVIOUS
  <2>3. \A g \in groups : \E i \in 1 .. n : f[i] = g
    BY <1>3
  <2> HIDE DEF f
  <2> QED
    BY <2>1, <2>2, <2>3 DEF Bijection, Injection, Surjection, IsInjective
<1>5. IsFiniteSet(1 .. n) /\ Cardinality(1 .. n) = n
  BY FS_Interval
<1> QED
  BY <1>4, <1>5, FS_Bijection DEF ExistsBijection, groups

----------------------------------------------------------------------------
\* A row that is lost, repeated or broken in two.

\* A document without a row is a document.
LEMMA Removed ==
    ASSUME NEW S, NEW s \in Seq(S), NEW i \in 1 .. Len(s)
    PROVE  RemoveAt(s, i) \in Seq(S) /\ Without(s, i, RemoveAt(s, i))
<1> DEFINE n == Len(s)
           h == i - 1
           m == n - i
           front == SubSeq(s, 1, i - 1)
           back == SubSeq(s, i + 1, n)
           r == front \o back
<1>1. /\ front \in Seq(S) /\ Len(front) = h
      /\ \A k \in 1 .. h : front[k] = s[k]
  BY SubSeqProperties
<1>2. /\ back \in Seq(S) /\ Len(back) = m
      /\ \A k \in 1 .. m : back[k] = s[i + k]
  BY SubSeqProperties
<1>3. n \in Nat /\ h \in Nat /\ m \in Nat /\ i \in Nat /\ h + m = n - 1 /\ h = i - 1
  OBVIOUS
<1> HIDE DEF front, back, h, m
<1>4. /\ r \in Seq(S) /\ Len(r) = h + m
      /\ \A k \in 1 .. h : r[k] = front[k]
      /\ \A k \in 1 .. m : r[h + k] = back[k]
  <2>1. /\ r \in Seq(S) /\ Len(r) = Len(front) + Len(back)
        /\ \A k \in 1 .. Len(front) + Len(back) :
              r[k] = IF k <= Len(front) THEN front[k] ELSE back[k - Len(front)]
    BY <1>1, <1>2, ConcatProperties
  <2> HIDE DEF r
  <2>2. ASSUME NEW k \in 1 .. h PROVE r[k] = front[k]
    BY <1>1, <1>2, <1>3, <2>1
  <2>3. ASSUME NEW k \in 1 .. m PROVE r[h + k] = back[k]
    <3>1. h + k \in 1 .. h + m /\ ~(h + k <= h) /\ (h + k) - h = k
      BY <1>3
    <3> QED
      BY <1>1, <1>2, <2>1, <3>1
  <2> QED
    BY <1>1, <1>2, <2>1, <2>2, <2>3
<1>5. RemoveAt(s, i) = r
  BY DEF RemoveAt, front, back
<1> HIDE DEF r, n
<1>6. ASSUME NEW k \in 1 .. h PROVE s[k] = r[k]
  BY <1>1, <1>4
<1>7. ASSUME NEW k \in i .. Len(r) PROVE s[k + 1] = r[k]
  <2>1. PICK l \in 1 .. m : h + l = k /\ i + l = k + 1
    <3>1. k - h \in 1 .. m /\ h + (k - h) = k /\ i + (k - h) = k + 1
      BY <1>3, <1>4
    <3> QED
      BY <3>1
  <2> QED
    BY <1>2, <1>4, <2>1
<1>8. n = Len(r) + 1
  BY <1>3, <1>4
<1> QED
  BY <1>3, <1>4, <1>5, <1>6, <1>7, <1>8 DEF Without, n

\* A document with a row more is a document that has that row in excess.
LEMMA Inserted ==
    ASSUME NEW S, NEW s \in Seq(S), NEW i \in 1 .. Len(s) + 1, NEW e \in S
    PROVE  InsertAt(s, i, e) \in Seq(S) /\ Without(InsertAt(s, i, e), i, s) /\ InsertAt(s, i, e)[i] = e
<1> DEFINE n == Len(s)
           front == SubSeq(s, 1, i - 1)
           back == SubSeq(s, i, n)
           start == front \o <<e>>
<1>1. /\ front \in Seq(S) /\ Len(front) = i - 1
      /\ \A k \in 1 .. i - 1 : front[k] = s[k]
  BY SubSeqProperties
<1>2. /\ back \in Seq(S) /\ Len(back) = n - i + 1
      /\ \A k \in 1 .. n - i + 1 : back[k] = s[i + k - 1]
  BY SubSeqProperties
<1>3. InsertAt(s, i, e) = start \o back
  BY DEF InsertAt
<1>4. /\ start \in Seq(S) /\ Len(start) = i
      /\ \A k \in 1 .. i - 1 : start[k] = s[k]
      /\ start[i] = e
  BY <1>1
<1> HIDE DEF start, back
<1>5. /\ start \o back \in Seq(S) /\ Len(start \o back) = i + (n - i + 1)
      /\ \A k \in 1 .. i + (n - i + 1) :
            (start \o back)[k] = IF k <= i THEN start[k] ELSE back[k - i]
  BY <1>2, <1>4, ConcatProperties
<1> DEFINE r == start \o back
<1>6. n \in Nat /\ Len(r) = n + 1 /\ \A k \in 1 .. n + 1 : r[k] = IF k <= i THEN start[k] ELSE back[k - i]
  BY <1>5
<1> HIDE DEF r
<1>7. ASSUME NEW k \in 1 .. i - 1 PROVE r[k] = s[k]
  BY <1>4, <1>6
<1>8. ASSUME NEW k \in i .. n PROVE r[k + 1] = s[k]
  <2>1. (k + 1) - i \in 1 .. n - i + 1 /\ i + ((k + 1) - i) - 1 = k /\ ~(k + 1 <= i) /\ k + 1 \in 1 .. n + 1
    BY <1>6
  <2> QED
    BY <1>2, <1>6, <2>1
<1>9. r[i] = e
  BY <1>4, <1>6
<1> QED
  BY <1>3, <1>5, <1>6, <1>7, <1>8, <1>9 DEF Without, r

\* Numbering a document leaves it a document.
LEMMA NumberedRows ==
    ASSUME NEW d \in Seq(Rows)
    PROVE  Numbered(d) \in Seq(Rows)
<1> DEFINE count(i) == Cardinality({j \in 1 .. i : d[j].kind = "row"})
<1>1. ASSUME NEW i \in 1 .. Len(d)
      PROVE  [d[i] EXCEPT !.no = count(i)] \in Rows
  <2>1. count(i) \in Nat
    <3>1. IsFiniteSet(1 .. i)
      BY FS_Interval
    <3>2. IsFiniteSet({j \in 1 .. i : d[j].kind = "row"})
      BY <3>1, FS_Subset
    <3> QED
      BY <3>2, FS_CardinalityType
  <2>2. d[i] \in Rows
    OBVIOUS
  <2> HIDE DEF count
  <2> QED
    BY <2>1, <2>2 DEF Rows
<1>2. Numbered(d) = [i \in 1 .. Len(d) |-> [d[i] EXCEPT !.no = count(i)]]
  BY DEF Numbered
<1> DEFINE e(i) == [d[i] EXCEPT !.no = count(i)]
<1> HIDE DEF count
<1>3. Numbered(d) = [i \in 1 .. Len(d) |-> e(i)] /\ \A i \in 1 .. Len(d) : e(i) \in Rows
  BY <1>1, <1>2
<1> HIDE DEF e
<1>4. Len(d) \in Nat
  OBVIOUS
<1> QED
  BY <1>3, <1>4

\* The table that an interpretation makes of the rows it took.
Table(p, taken, known) ==
    Completed(p, Repaired(p, taken, known), Completable(p, Repaired(p, taken, known)))

\* The rows of an interpretation are those of its table.
LEMMA InterpretedTable ==
    ASSUME NEW p, ~p.sorted, NEW document, NEW known
    PROVE  Interpreted(p, document, known).rows = Table(p, Scanned(p, document).taken, known)
BY DEF Interpreted, WithRepairs, WithCompletions, Interpretation, RowsTaken, Sorted, Table

\* A table has a row for every row taken.
LEMMA TableType ==
    ASSUME NEW p, NEW taken \in Seq(Rows), NEW known
    PROVE  DOMAIN Table(p, taken, known) = 1 .. Len(taken)
<1>1. DOMAIN taken = 1 .. Len(taken)
  OBVIOUS
<1> QED
  BY <1>1 DEF Table, Completed, Repaired

\* Rows with the same text make tables with the same text.
LEMMA AlikeTables ==
    ASSUME NEW p, NEW a \in Seq(Rows), NEW b \in Seq(Rows), SameTexts(a, b), NEW known \in Seq(Rows)
    PROVE  Alike(Table(p, a, known), Table(p, b, known))
<1>1. Alike(a, b) /\ \A i \in DOMAIN a : a[i] \in Rows /\ b[i] \in Rows
  BY DEF Alike, SameTexts
<1> DEFINE x == Repaired(p, a, known)
           y == Repaired(p, b, known)
<1>2. Alike(x, y) /\ \A i \in DOMAIN x : x[i] \in Rows /\ y[i] \in Rows
  BY <1>1, SameRepaired
<1> HIDE DEF x, y
<1>3. Completable(p, x) = Completable(p, y)
  BY <1>2, SameCompletable
<1>4. Alike(Completed(p, x, Completable(p, x)), Completed(p, y, Completable(p, x)))
  BY <1>2, SameCompleted
<1> QED
  BY <1>3, <1>4 DEF Table, x, y

\* Of this form are all rows, and what the repairs make of them.
Formal(r) ==
    r = [kind |-> r.kind, page |-> r.page, no |-> r.no, name |-> r.name, id |-> r.id, from |-> r.from,
         to |-> r.to, note |-> r.note, section |-> r.section, meant |-> r.meant, joined |-> r.joined]

\* A table is made of rows, with the text that was joined to those taken.
LEMMA TableKeepsText ==
    ASSUME NEW p, NEW taken \in Seq(Rows), NEW known, NEW i \in 1 .. Len(taken)
    PROVE  /\ Formal(Table(p, taken, known)[i])
           /\ Table(p, taken, known)[i].joined = taken[i].joined
<1> DEFINE u == Repaired(p, taken, known)
           c == Completable(p, u)
           q == Table(p, taken, known)
           pair == CHOOSE x \in Peers(p, u, i) : TRUE
<1>1. taken[i] \in Rows /\ i \in DOMAIN taken /\ DOMAIN taken = 1 .. Len(taken)
  OBVIOUS
<1>2. \A r \in Rows : Formal(r)
  BY DEF Rows, Formal
<1>3. DOMAIN u = DOMAIN taken /\ (u[i] = taken[i] \/ u[i] = [taken[i] EXCEPT !.name = known[i].meant])
  BY <1>1 DEF Repaired
<1> HIDE DEF u, c, pair
<1>4. q[i] = u[i] \/ q[i] = Dated(u[i], pair)
  <2>1. q = Completed(p, u, c)
    BY DEF Table, u, c
  <2> HIDE DEF q
  <2> QED
    BY <1>1, <1>3, <2>1 DEF Completed, pair
<1> HIDE DEF q
<1>5. \A r : Formal(r) => /\ \A n : /\ Formal([r EXCEPT !.name = n])
                                    /\ [r EXCEPT !.name = n].joined = r.joined
                         /\ Formal(Dated(r, pair)) /\ Dated(r, pair).joined = r.joined
  <2> DEFINE f == pair[1]
             t == pair[2]
  <2> HIDE DEF f, t
  <2>1. ASSUME NEW r, Formal(r), NEW n
        PROVE  Formal([r EXCEPT !.name = n]) /\ [r EXCEPT !.name = n].joined = r.joined
    BY <2>1 DEF Formal
  <2>2. ASSUME NEW r, Formal(r)
        PROVE  Formal([r EXCEPT !.from = f, !.to = t]) /\ [r EXCEPT !.from = f, !.to = t].joined = r.joined
    <3> DEFINE x == [r EXCEPT !.from = f]
               y == [x EXCEPT !.to = t]
    <3>1. Formal(x) /\ x.joined = r.joined
      BY <2>2 DEF Formal
    <3>2. y = [r EXCEPT !.from = f, !.to = t]
      OBVIOUS
    <3> HIDE DEF x
    <3>3. Formal(y) /\ y.joined = x.joined
      BY <3>1 DEF Formal
    <3> HIDE DEF y
    <3> QED
      BY <3>1, <3>2, <3>3
  <2> QED
    BY <2>1, <2>2 DEF Dated, f, t
<1>6. Formal(u[i]) /\ u[i].joined = taken[i].joined
  BY <1>1, <1>2, <1>3, <1>5
<1>7. Formal(q[i]) /\ q[i].joined = taken[i].joined
  BY <1>4, <1>5, <1>6
<1> QED
  BY <1>7 DEF q

\* Such rows differ in nothing but text if they have the same text.
LEMMA SameButForText ==
    ASSUME NEW x, NEW y, Formal(x), Formal(y), SameText(x, y)
    PROVE  /\ [x EXCEPT !.joined = <<>>] = [y EXCEPT !.joined = <<>>]
           /\ x.joined = y.joined => x = y
<1> DEFINE none == <<>>
<1> HIDE DEF none
<1>1. [x EXCEPT !.joined = none] = [y EXCEPT !.joined = none]
  BY DEF Formal, SameText
<1>2. x.joined = y.joined => x = y
  BY DEF Formal, SameText
<1> QED
  BY <1>1, <1>2 DEF none

\* Tables with the same text are the same but for what was joined to their rows.
LEMMA AlikeButForText ==
    ASSUME NEW p, NEW s \in Seq(Rows), NEW t \in Seq(Rows), NEW known,
           NEW x, x = Table(p, s, known), NEW y, y = Table(p, t, known), Alike(x, y)
    PROVE  /\ ButForText(x) = ButForText(y)
           /\ (\A i \in DOMAIN s : s[i].joined = <<>>) /\ (\A i \in DOMAIN t : t[i].joined = <<>>)
                 => x = y
<1>1. /\ DOMAIN x = 1 .. Len(s) /\ DOMAIN y = 1 .. Len(t)
      /\ DOMAIN s = 1 .. Len(s) /\ DOMAIN t = 1 .. Len(t)
  BY TableType
<1>2. DOMAIN x = DOMAIN y /\ \A i \in DOMAIN x : SameText(x[i], y[i])
  BY DEF Alike
<1>3. ASSUME NEW i \in DOMAIN x
      PROVE  /\ Formal(x[i]) /\ x[i].joined = s[i].joined
             /\ Formal(y[i]) /\ y[i].joined = t[i].joined
  <2>1. i \in 1 .. Len(s) /\ i \in 1 .. Len(t)
    BY <1>1, <1>2
  <2> QED
    BY <2>1, TableKeepsText
<1> DEFINE bare(r) == [r EXCEPT !.joined = <<>>]
<1>4. ASSUME NEW i \in DOMAIN x
      PROVE  bare(x[i]) = bare(y[i]) /\ (s[i].joined = t[i].joined => x[i] = y[i])
  <2>1. bare(x[i]) = bare(y[i]) /\ (x[i].joined = y[i].joined => x[i] = y[i])
    BY <1>2, <1>3, SameButForText
  <2> HIDE DEF bare
  <2> QED
    BY <1>3, <2>1
<1>5. ButForText(x) = ButForText(y)
  <2>1. \A rows : ButForText(rows) = [i \in DOMAIN rows |-> bare(rows[i])]
    BY DEF ButForText
  <2> HIDE DEF bare
  <2> QED
    BY <1>2, <1>4, <2>1
<1> HIDE DEF bare
<1>6. ASSUME \A i \in DOMAIN s : s[i].joined = <<>>, \A i \in DOMAIN t : t[i].joined = <<>>
      PROVE  x = y
  <2>1. x = [i \in DOMAIN x |-> x[i]] /\ y = [i \in DOMAIN y |-> y[i]]
    <3>1. Table(p, s, known) = [k \in DOMAIN Table(p, s, known) |-> Table(p, s, known)[k]]
      BY DEF Table, Completed
    <3>2. Table(p, t, known) = [k \in DOMAIN Table(p, t, known) |-> Table(p, t, known)[k]]
      BY DEF Table, Completed
    <3> QED
      BY <3>1, <3>2
  <2>2. \A i \in DOMAIN x : x[i] = y[i]
    BY <1>1, <1>2, <1>4, <1>6
  <2> QED
    BY <1>2, <2>1, <2>2
<1> QED
  BY <1>5, <1>6

\* The number of rows shows, in the records or in a count of its own.
CountsRows(p) == p.key = {} \/ "rows" \in p.gates

\* Of two interpretations that agree with one review, each has as many rows as the other.
LEMMA CountedRows ==
    ASSUME NEW p, CountsRows(p), NEW i, NEW j, NEW m \in Nat, NEW n \in Nat,
           DOMAIN i.rows = 1 .. m, DOMAIN j.rows = 1 .. n,
           AsRecorded(p, Findings(p, i), Findings(p, j))
    PROVE  m = n
<1>1. /\ Findings(p, i).records = Findings(p, j).records
      /\ \A g \in p.gates \ {"twins", "names"} : Findings(p, i).gates[g] = Findings(p, j).gates[g]
  BY DEF AsRecorded
<1>2. CASE p.key = {}
  <2>1. Cardinality(Groups(p, i.rows)) = m /\ Cardinality(Groups(p, j.rows)) = n
    BY <1>2, RecordPerRow
  <2>2. /\ Findings(p, i).records = Cardinality(Groups(p, i.rows))
        /\ Findings(p, j).records = Cardinality(Groups(p, j.rows))
    BY DEF Findings, GroupedFindings
  <2> QED
    BY <1>1, <2>1, <2>2
<1>3. CASE "rows" \in p.gates
  <2>1. \A s, rows, groups : Measure(p, "rows", s, rows, groups) = Len(rows)
    BY DEF Measure, OfWalk, OfRecords, RowMeasure
  <2>2. /\ Findings(p, i).gates["rows"] = Len(i.rows)
        /\ Findings(p, j).gates["rows"] = Len(j.rows)
    BY <1>3, <2>1 DEF Findings, GroupedFindings
  <2>3. Len(i.rows) = m /\ Len(j.rows) = n
    OBVIOUS
  <2> QED
    BY <1>1, <1>3, <2>2, <2>3
<1> QED
  BY <1>2, <1>3 DEF CountsRows

\* One row more or less in a document is noticed, or was not of the table.
LEMMA RowNoticed ==
    ASSUME NEW p, ReadsAlone(p), ~p.sorted, CountsRows(p),
           NEW a \in Seq(Rows), NEW b \in Seq(Rows), NEW i \in 1 .. Len(a), Without(a, i, b),
           p.under # "heading" \/ a[i].kind # "section",
           NEW known \in Seq(Rows),
           NEW x, x = Interpreted(p, a, known), NEW y, y = Interpreted(p, b, known), x.ok, y.ok,
           \/ AsRecorded(p, Findings(p, x), Findings(p, y))
           \/ AsRecorded(p, Findings(p, y), Findings(p, x))
    PROVE  Alike(x.rows, y.rows)
<1> DEFINE S(d) == Scanned(p, d)
<1>1. ~S(a).refused /\ ~S(b).refused
  BY DEF Interpreted, WithRepairs, WithCompletions, Interpretation
<1> DEFINE s == S(a).taken
           t == S(b).taken
<1>2. s \in Seq(Rows) /\ t \in Seq(Rows) /\ (SameTexts(s, t) \/ Len(s) = Len(t) + 1)
  <2> DEFINE v == Walk(p, a)
             w == Walk(p, b)
  <2>1. /\ Undisturbed(p, a, v) /\ S(a) = v[Len(a)]
        /\ Undisturbed(p, b, w) /\ S(b) = w[Len(b)]
    BY <1>1, UnrefusedIsUndisturbed
  <2> HIDE DEF v, w, S
  <2>2. SameTexts(v[Len(a)].taken, w[Len(b)].taken) \/ Len(v[Len(a)].taken) = Len(w[Len(b)].taken) + 1
    BY <2>1, LostRow DEF Untaken
  <2>3. S(a) \in States /\ S(b) \in States
    BY <2>1 DEF Undisturbed
  <2> QED
    BY <2>1, <2>2, <2>3, TakenType
<1>3. x.rows = Table(p, s, known) /\ y.rows = Table(p, t, known)
  BY InterpretedTable
<1> HIDE DEF S, s, t
<1>4. DOMAIN x.rows = 1 .. Len(s) /\ DOMAIN y.rows = 1 .. Len(t) /\ Len(s) \in Nat /\ Len(t) \in Nat
  BY <1>2, <1>3, TableType
<1>5. Len(s) = Len(t)
  BY <1>4, CountedRows
<1>6. SameTexts(s, t)
  BY <1>2, <1>4, <1>5
<1> QED
  BY <1>2, <1>3, <1>6, AlikeTables

----------------------------------------------------------------------------
\* A cell that is lost or garbled.

\* Two documents of one length that end with the same rows.
LEMMA SameEnding ==
    ASSUME NEW p, NEW a \in Seq(Rows), NEW b \in Seq(Rows), Len(b) = Len(a),
           NEW j \in Nat, j <= Len(a), \A k \in j + 1 .. Len(a) : a[k] = b[k],
           NEW v, NEW w, Undisturbed(p, a, v), Undisturbed(p, b, w),
           v[j].section = w[j].section
    PROVE  Followed(v[j], w[j], v[Len(a)], w[Len(a)])
<1> DEFINE m == Len(a) - j
<1>1. m \in Nat /\ Len(a) \in Nat /\ j + m = Len(a) /\ j + m <= Len(a) /\ j + m <= Len(b)
  OBVIOUS
<1>2. \A k \in 1 .. m : a[j + k] = b[j + k]
  <2> TAKE k \in 1 .. m
  <2>1. j + k \in j + 1 .. Len(a)
    BY <1>1
  <2> QED
    BY <2>1
<1> HIDE DEF m
<1>3. Followed(v[j], w[j], v[j + m], w[j + m])
  BY <1>1, <1>2, RowsFollow
<1> QED
  BY <1>1, <1>3

\* The row q of one table is x and of the other is y; the others are the same.
DifferAt(s, t, q, x, y) ==
    /\ Len(s) = Len(t) /\ q \in 1 .. Len(s)
    /\ \A k \in 1 .. Len(s) : k # q => SameText(s[k], t[k])
    /\ SameText(s[q], x) /\ SameText(t[q], y)

\* Two rows of a company in one place of two documents make one row of the table
\* another, or make it come or go.
LEMMA ChangedStep ==
    ASSUME NEW p, NEW c, NEW g,
           NEW vh \in States, NEW vi \in States, Advanced(p, vh, c, vi),
           NEW wh \in States, NEW wi \in States, Advanced(p, wh, g, wi),
           SameTexts(vh.taken, wh.taken), vh.section = wh.section,
           NEW v \in States, NEW w \in States, Followed(vi, wi, v, w),
           NEW s, s = v.taken, NEW t, t = w.taken
    PROVE  \/ Len(s) # Len(t)
           \/ SameTexts(s, t)
           \/ \E q, section : DifferAt(s, t, q, ReadAlone(p, section, c), ReadAlone(p, section, g))
<1> DEFINE e == ReadAlone(p, vh.section, c)
           d == ReadAlone(p, vh.section, g)
<1>1. SameTexts(vh.taken, wh.taken) /\ vh.section = wh.section
  OBVIOUS
<1>2. Advanced(p, vh, c, vi) /\ Advanced(p, wh, g, wi)
  OBVIOUS
<1>4. Followed(vi, wi, v, w)
  OBVIOUS
<1>5. ReadAlone(p, vh.section, c) = e /\ ReadAlone(p, wh.section, g) = d
  BY <1>1
<1>6. /\ Len(vh.taken) \in Nat /\ Len(vi.taken) \in Nat /\ Len(wi.taken) \in Nat
      /\ Len(wh.taken) \in Nat /\ Len(s) \in Nat /\ Len(t) \in Nat
  BY TakenType
<1> HIDE DEF e, d
<1> DEFINE keptA == Kept(p, vh.section, c)
           keptB == Kept(p, wh.section, g)
<1>7. CASE ~keptA /\ ~keptB
  <2>1. SameTexts(vi.taken, vh.taken) /\ SameTexts(wi.taken, wh.taken)
    BY <1>2, <1>7 DEF Advanced
  <2>2. SameTexts(vi.taken, wi.taken)
    BY <1>1, <2>1, SameTextIsEquivalence DEF SameTexts
  <2> QED
    BY <1>4, <1>6, <2>2, FollowedAlike
<1>8. CASE (keptA /\ ~keptB) \/ (keptB /\ ~keptA)
  <2> DEFINE x == Len(vi.taken)
             y == Len(wi.taken)
             m == Len(s)
             n == Len(t)
  <2> DEFINE l == Len(vh.taken)
  <2>4. l \in Nat /\ l = Len(wh.taken)
    BY <1>1, <1>6 DEF SameTexts
  <2>5. (keptA => x = l + 1) /\ (~keptA => x = l)
    BY <1>2 DEF Advanced, SameTexts, OneRowMore
  <2>6. (keptB => y = l + 1) /\ (~keptB => y = l)
    BY <1>2, <2>4 DEF Advanced, SameTexts, OneRowMore
  <2>1. x # y
    <3> HIDE DEF x, y, l, keptA, keptB
    <3> QED
      BY <1>8, <2>4, <2>5, <2>6
  <2>2. x \in Nat /\ y \in Nat /\ m \in Nat /\ n \in Nat /\ m + y = n + x
    BY <1>4, <1>6 DEF Followed
  <2> HIDE DEF x, y, m, n
  <2>3. m # n
    BY <2>1, <2>2
  <2> QED
    BY <2>3 DEF m, n
<1>9. CASE keptA /\ keptB
  <2> DEFINE x == Len(vh.taken)
             q == x + 1
             m == Len(s)
  <2>1. OneRowMore(vi, vh, e) /\ OneRowMore(wi, wh, d)
    BY <1>2, <1>5, <1>9 DEF Advanced
  <2>2. /\ x = Len(wh.taken) /\ Len(vi.taken) = q /\ Len(wi.taken) = q
        /\ \A k \in 1 .. x : SameText(vi.taken[k], vh.taken[k]) /\ SameText(wi.taken[k], wh.taken[k])
        /\ \A k \in 1 .. x : SameText(vh.taken[k], wh.taken[k])
        /\ SameText(vi.taken[q], e) /\ SameText(wi.taken[q], d)
    BY <1>1, <2>1 DEF OneRowMore, SameTexts
  <2>3. /\ q <= m /\ m + q = Len(t) + q
        /\ \A k \in 1 .. q : SameText(s[k], vi.taken[k])
        /\ \A k \in 1 .. q : SameText(t[k], wi.taken[k])
        /\ \A k \in q + 1 .. m : SameText(s[k], t[k + q - q])
    BY <1>4, <2>2 DEF Followed
  <2>4. x \in Nat /\ q \in Nat /\ m \in Nat /\ Len(t) \in Nat /\ q = x + 1
    BY <1>6
  <2> HIDE DEF x, q, m
  <2>5. m = Len(t) /\ q \in 1 .. m
    <3> DEFINE n == Len(t)
    <3>1. q <= m /\ m + q = n + q
      BY <2>3
    <3>2. q \in Nat /\ m \in Nat /\ n \in Nat /\ 1 <= q
      BY <2>4
    <3> HIDE DEF n
    <3>3. m = n /\ q \in 1 .. m
      BY <3>1, <3>2
    <3> QED
      BY <3>3 DEF n
  <2>6. ASSUME NEW k \in 1 .. m, k # q PROVE SameText(s[k], t[k])
    <3>1. CASE k \in 1 .. x
      <4>1. k \in 1 .. q
        BY <2>4, <3>1
      <4>2. /\ SameText(s[k], vi.taken[k]) /\ SameText(vi.taken[k], vh.taken[k])
            /\ SameText(vh.taken[k], wh.taken[k])
            /\ SameText(wi.taken[k], wh.taken[k]) /\ SameText(t[k], wi.taken[k])
        BY <2>2, <2>3, <3>1, <4>1
      <4> QED
        BY <4>2, SameTextIsEquivalence
    <3>2. CASE k \in q + 1 .. m
      <4>1. k + q - q = k
        BY <2>4, <3>2
      <4> QED
        BY <2>3, <3>2, <4>1
    <3> QED
      BY <2>4, <2>6, <3>1, <3>2
  <2>7. SameText(s[q], e) /\ SameText(t[q], d)
    <3>1. q \in 1 .. q
      BY <2>4
    <3> QED
      BY <2>2, <2>3, <3>1, SameTextIsEquivalence
  <2>8. DifferAt(s, t, q, e, d)
    BY <2>5, <2>6, <2>7 DEF DifferAt, m
  <2> QED
    BY <2>8 DEF e, d
<1> QED
  BY <1>7, <1>8, <1>9

\* A row that is changed in place changes its own row of the table, or makes it come or go.
LEMMA ChangedRow ==
    ASSUME NEW p,
           NEW a \in Seq(Rows), NEW b \in Seq(Rows), Len(b) = Len(a),
           NEW i \in 1 .. Len(a), \A k \in 1 .. Len(a) : k # i => a[k] = b[k],
           a[i].kind = "row", b[i].kind = "row",
           NEW v, NEW w, Undisturbed(p, a, v), Undisturbed(p, b, w),
           NEW s, s = v[Len(a)].taken, NEW t, t = w[Len(a)].taken
    PROVE  \/ Len(s) # Len(t)
           \/ SameTexts(s, t)
           \/ \E q, section : DifferAt(s, t, q, ReadAlone(p, section, a[i]), ReadAlone(p, section, b[i]))
<1> DEFINE h == i - 1
<1>0. h \in Nat /\ h <= Len(a) /\ h <= Len(b) /\ i \in Nat /\ i <= Len(a)
  OBVIOUS
<1>1. SameTexts(v[h].taken, w[h].taken) /\ v[h].section = w[h].section
  <2>1. BeginAlike(a, b, h)
    BY <1>0 DEF BeginAlike
  <2> HIDE DEF h
  <2> QED
    BY <2>1, SameBeginning
<1>2. Advanced(p, v[h], a[i], v[i]) /\ Advanced(p, w[h], b[i], w[i])
  BY DEF Undisturbed
<1>3. v[i].section = w[i].section
  BY <1>1, <1>2 DEF Advanced
<1>4. Followed(v[i], w[i], v[Len(a)], w[Len(a)])
  <2>1. \A k \in i + 1 .. Len(a) : a[k] = b[k]
    OBVIOUS
  <2> QED
    BY <1>0, <1>3, <2>1, SameEnding
<1>6. /\ v[h] \in States /\ w[h] \in States /\ v[i] \in States /\ w[i] \in States
      /\ v[Len(a)] \in States /\ w[Len(a)] \in States
  <2>1. /\ h \in 0 .. Len(a) /\ i \in 0 .. Len(a) /\ Len(a) \in 0 .. Len(a)
        /\ h \in 0 .. Len(b) /\ i \in 0 .. Len(b) /\ Len(a) \in 0 .. Len(b)
    OBVIOUS
  <2> HIDE DEF h
  <2> QED
    BY <2>1 DEF Undisturbed
<1> HIDE DEF h
<1> QED
  BY <1>1, <1>2, <1>4, <1>6, ChangedStep

\* b is a with its row i broken in two: the rest of it stands in a row below.
Broken(a, b, i) ==
    /\ Len(b) = Len(a) + 1
    /\ \A k \in 1 .. i - 1 : a[k] = b[k]
    /\ a[i].kind = "row" /\ b[i].kind = "row" /\ b[i].meant = a[i].meant
    /\ b[i + 1].kind = "tail" /\ b[i + 1].meant = a[i].meant
    /\ \A k \in i + 1 .. Len(a) : a[k] = b[k + 1]

\* What has the same text as the state after a row has advanced as far.
LEMMA AdvancedAlike ==
    ASSUME NEW p, NEW s \in States, NEW r, NEW t, Advanced(p, s, r, t),
           NEW u, u.section = t.section, SameTexts(u.taken, t.taken)
    PROVE  Advanced(p, s, r, u)
<1>1. Len(s.taken) \in Nat
  BY TakenType
<1>2. CASE Kept(p, s.section, r)
  <2> DEFINE q == ReadAlone(p, s.section, r)
             n == Len(s.taken)
  <2>1. OneRowMore(t, s, q)
    BY <1>2 DEF Advanced
  <2> HIDE DEF q
  <2>2. /\ Len(u.taken) = n + 1 /\ \A i \in 1 .. n : i \in 1 .. n + 1 /\ SameText(t.taken[i], s.taken[i])
        /\ n + 1 \in 1 .. n + 1 /\ SameText(t.taken[n + 1], q)
        /\ \A i \in 1 .. n + 1 : SameText(u.taken[i], t.taken[i])
    BY <1>1, <2>1 DEF OneRowMore, SameTexts
  <2> HIDE DEF n
  <2>3. /\ \A i \in 1 .. n : SameText(u.taken[i], s.taken[i])
        /\ SameText(u.taken[n + 1], q)
    BY <2>2, SameTextIsEquivalence
  <2>4. OneRowMore(u, s, q)
    BY <2>2, <2>3 DEF OneRowMore, n
  <2> QED
    BY <1>2, <2>4 DEF Advanced, q
<1>3. CASE ~Kept(p, s.section, r)
  <2>1. SameTexts(t.taken, s.taken)
    BY <1>3 DEF Advanced
  <2>2. SameTexts(u.taken, s.taken)
    BY <2>1, SameTextIsEquivalence DEF SameTexts
  <2> QED
    BY <1>3, <2>2 DEF Advanced
<1> QED
  BY <1>2, <1>3

\* A row that is broken in two changes its own row of the table, or makes it come or go.
LEMMA BrokenRow ==
    ASSUME NEW p,
           NEW a \in Seq(Rows), NEW b \in Seq(Rows), NEW i \in 1 .. Len(a), Broken(a, b, i),
           NEW v, NEW w, Undisturbed(p, a, v), Undisturbed(p, b, w),
           NEW s, s = v[Len(a)].taken, NEW t, t = w[Len(b)].taken
    PROVE  \/ Len(s) # Len(t)
           \/ SameTexts(s, t)
           \/ \E q, section : DifferAt(s, t, q, ReadAlone(p, section, a[i]), ReadAlone(p, section, b[i]))
<1> DEFINE h == i - 1
           j == i + 1
           m == Len(a) - i
<1>0. /\ h \in Nat /\ i \in Nat /\ j \in Nat /\ m \in Nat /\ h <= Len(a) /\ h <= Len(b)
      /\ i + m = Len(a) /\ j + m = Len(b) /\ j \in 1 .. Len(b) /\ j - 1 = i
  <2>1. Len(b) = Len(a) + 1 /\ Len(a) \in Nat
    BY DEF Broken
  <2> QED
    BY <2>1
<1>1. SameTexts(v[h].taken, w[h].taken) /\ v[h].section = w[h].section
  <2>1. BeginAlike(a, b, h)
    BY <1>0 DEF BeginAlike, Broken
  <2> HIDE DEF h
  <2> QED
    BY <2>1, SameBeginning
<1>2. Advanced(p, v[h], a[i], v[i]) /\ Advanced(p, w[h], b[i], w[i])
  BY <1>0 DEF Undisturbed
<1>3. Advanced(p, w[i], b[j], w[j])
  <2>1. Advanced(p, w[j - 1], b[j], w[j])
    BY <1>0 DEF Undisturbed
  <2> QED
    BY <1>0, <2>1
<1>4. b[j].kind = "tail" /\ w[j].section = w[i].section /\ SameTexts(w[j].taken, w[i].taken)
  BY <1>3 DEF Advanced, Kept, Broken
<1>5. Advanced(p, w[h], b[i], w[j])
  <2>1. w[h] \in States
    <3>1. h \in 0 .. Len(b)
      BY <1>0
    <3> HIDE DEF h, j
    <3> QED
      BY <3>1 DEF Undisturbed
  <2> HIDE DEF h, j
  <2> QED
    BY <1>2, <1>4, <2>1, AdvancedAlike
<1>6. v[i].section = w[j].section
  BY <1>1, <1>2, <1>5 DEF Advanced, Broken
<1>7. Followed(v[i], w[j], v[Len(a)], w[Len(b)])
  <2>1. \A k \in 1 .. m : a[i + k] = b[j + k]
    <3> TAKE k \in 1 .. m
    <3>1. i + k \in i + 1 .. Len(a) /\ (i + k) + 1 = j + k
      BY <1>0
    <3> QED
      BY <3>1 DEF Broken
  <2> HIDE DEF j, m
  <2>2. i + m <= Len(a) /\ j + m <= Len(b)
    BY <1>0
  <2>3. Followed(v[i], w[j], v[i + m], w[j + m])
    BY <1>0, <1>6, <2>1, <2>2, RowsFollow
  <2> QED
    BY <1>0, <2>3
<1>8. /\ v[h] \in States /\ w[h] \in States /\ v[i] \in States /\ w[j] \in States
      /\ v[Len(a)] \in States /\ w[Len(b)] \in States
  <2>1. /\ h \in 0 .. Len(a) /\ i \in 0 .. Len(a) /\ Len(a) \in 0 .. Len(a)
        /\ h \in 0 .. Len(b) /\ j \in 0 .. Len(b) /\ Len(b) \in 0 .. Len(b)
    BY <1>0
  <2> HIDE DEF h, j
  <2> QED
    BY <2>1 DEF Undisturbed
<1> HIDE DEF h, j, m
<1> QED
  BY <1>1, <1>2, <1>5, <1>7, <1>8, ChangedStep

----------------------------------------------------------------------------
\* Rows in another order.

\* What a record shows of its first row is part of its key.
ShowsItsKey(p) ==
    \/ p.key = {}
    \/ {"id", "from", "to"} \subseteq p.key /\ ("name" \in p.key \/ p.shows # "first")

\* Rows of one record.
SameRecord(p, rows, i, j) ==
    IF p.key = {} THEN i = j ELSE \A f \in p.key : CellFor(rows[i], f) = CellFor(rows[j], f)

\* The groups are the sets of rows of one record.
LEMMA GroupsAreRecords ==
    ASSUME NEW p, NEW rows
    PROVE  Groups(p, rows) = {{j \in DOMAIN rows : SameRecord(p, rows, i, j)} : i \in DOMAIN rows}
BY DEF Groups, SameRecord

\* Rows of one record agree in what the record shows of its first row.
LEMMA RecordShowsItsKey ==
    ASSUME NEW p, ShowsItsKey(p), NEW rows, NEW g \in Groups(p, rows), NEW i \in g, NEW j \in g
    PROVE  /\ p.shows = "first" => FullName(rows[i]) = FullName(rows[j])
           /\ rows[i].id = rows[j].id
           /\ rows[i].from = rows[j].from /\ rows[i].to = rows[j].to
<1>1. PICK k \in DOMAIN rows : g = {l \in DOMAIN rows : SameRecord(p, rows, k, l)}
  BY GroupsAreRecords
<1>2. SameRecord(p, rows, k, i) /\ SameRecord(p, rows, k, j)
  BY <1>1
<1>3. CASE p.key = {}
  BY <1>2, <1>3 DEF SameRecord
<1>4. CASE {"id", "from", "to"} \subseteq p.key /\ ("name" \in p.key \/ p.shows # "first")
  <2>1. /\ \A f \in {"id", "from", "to"} : CellFor(rows[i], f) = CellFor(rows[j], f)
        /\ p.shows = "first" => CellFor(rows[i], "name") = CellFor(rows[j], "name")
    BY <1>2, <1>4 DEF SameRecord
  <2>2. \A r : /\ CellFor(r, "name") = FullName(r) /\ CellFor(r, "id") = r.id
                /\ CellFor(r, "from") = r.from /\ CellFor(r, "to") = r.to
    BY DEF CellFor
  <2> QED
    BY <2>1, <2>2
<1> QED
  BY <1>3, <1>4 DEF ShowsItsKey

\* pi exchanges rows of s, which gives t.
Reorders(pi, n, s, t) ==
    /\ pi \in [1 .. n -> 1 .. n] /\ DOMAIN s = 1 .. n /\ DOMAIN t = 1 .. n
    /\ \A k \in 1 .. n : pi[pi[k]] = k /\ s[k] = t[pi[k]]

\* Rows in another order show the same observations.
LEMMA PermutedObservations ==
    ASSUME NEW p, ShowsItsKey(p), NEW n \in Nat, NEW s, NEW t, NEW pi, Reorders(pi, n, s, t)
    PROVE  Observations(p, s) = Observations(p, t)
<1> /\ pi \in [1 .. n -> 1 .. n] /\ DOMAIN s = 1 .. n /\ DOMAIN t = 1 .. n
    /\ \A k \in 1 .. n : pi[pi[k]] = k /\ s[k] = t[pi[k]]
  BY DEF Reorders
<1> DEFINE G == Groups(p, s)
           H == Groups(p, t)
           phi == [g \in G |-> {pi[k] : k \in g}]
           A(g) == Observation(p, s, g)
           B(h) == Observation(p, t, h)
<1>1. \A i, j \in 1 .. n : SameRecord(p, s, i, j) = SameRecord(p, t, pi[i], pi[j])
  <2>1. TAKE i, j \in 1 .. n
  <2>2. \A f \in p.key : CellFor(s[i], f) = CellFor(t[pi[i]], f) /\ CellFor(s[j], f) = CellFor(t[pi[j]], f)
    OBVIOUS
  <2>3. i = j <=> pi[i] = pi[j]
    OBVIOUS
  <2> QED
    BY <2>2, <2>3 DEF SameRecord
<1>2. G = {{j \in 1 .. n : SameRecord(p, s, i, j)} : i \in 1 .. n}
  BY GroupsAreRecords
<1>3. H = {{j \in 1 .. n : SameRecord(p, t, i, j)} : i \in 1 .. n}
  BY GroupsAreRecords
<1>4. \A g \in G : g \subseteq 1 .. n
  BY <1>2
<1>5. \A i \in 1 .. n : {pi[j] : j \in {k \in 1 .. n : SameRecord(p, s, i, k)}}
                          = {j \in 1 .. n : SameRecord(p, t, pi[i], j)}
  <2> TAKE i \in 1 .. n
  <2>1. ASSUME NEW m \in {pi[j] : j \in {k \in 1 .. n : SameRecord(p, s, i, k)}}
        PROVE  m \in 1 .. n /\ SameRecord(p, t, pi[i], m)
    BY <1>1, <2>1
  <2>2. ASSUME NEW m \in 1 .. n, SameRecord(p, t, pi[i], m)
        PROVE  m \in {pi[j] : j \in {k \in 1 .. n : SameRecord(p, s, i, k)}}
    <3>1. pi[m] \in 1 .. n /\ pi[pi[m]] = m
      OBVIOUS
    <3>2. SameRecord(p, s, i, pi[m])
      BY <1>1, <2>2, <3>1
    <3> QED
      BY <3>1, <3>2
  <2> QED
    BY <2>1, <2>2
<1>6. \A g \in G : phi[g] \in H
  <2> TAKE g \in G
  <2>1. PICK i \in 1 .. n : g = {j \in 1 .. n : SameRecord(p, s, i, j)}
    BY <1>2
  <2>2. phi[g] = {j \in 1 .. n : SameRecord(p, t, pi[i], j)}
    BY <1>5, <2>1
  <2> QED
    BY <1>3, <2>2
<1>7. \A h \in H : \E g \in G : phi[g] = h
  <2> TAKE h \in H
  <2>1. PICK i \in 1 .. n : h = {j \in 1 .. n : SameRecord(p, t, i, j)}
    BY <1>3
  <2>2. pi[i] \in 1 .. n /\ pi[pi[i]] = i
    OBVIOUS
  <2> DEFINE g == {j \in 1 .. n : SameRecord(p, s, pi[i], j)}
  <2>3. g \in G
    BY <1>2, <2>2
  <2>4. phi[g] = h
    BY <1>5, <2>1, <2>2, <2>3
  <2> QED
    BY <2>3, <2>4
<1>8. \A g, k \in G : phi[g] = phi[k] => g = k
  <2>1. \A g, k \in G : phi[g] = phi[k] => g \subseteq k
    <3> TAKE g, k \in G
    <3> HAVE phi[g] = phi[k]
    <3>1. ASSUME NEW i \in g PROVE i \in k
      <4>1. pi[i] \in phi[k]
        OBVIOUS
      <4>2. PICK j \in k : pi[i] = pi[j]
        BY <4>1
      <4>3. i = j
        BY <1>4, <4>2
      <4> QED
        BY <4>3
    <3> QED
      BY <3>1
  <2> QED
    BY <2>1
<1>9. \A g \in G : A(g) = B(phi[g])
  <2> TAKE g \in G
  <2> DEFINE h == phi[g]
  <2>1. /\ g \subseteq 1 .. n /\ First(g) \in g
        /\ h \in H /\ First(h) \in h
    <3>1. DOMAIN s \subseteq Nat /\ DOMAIN t \subseteq Nat
      OBVIOUS
    <3>2. h \in H
      BY <1>6
    <3> HIDE DEF h, phi
    <3>3. g \subseteq DOMAIN s /\ First(g) \in g
      BY <3>1, GroupsAreOfRows
    <3>4. First(h) \in h
      BY <3>1, <3>2, GroupsAreOfRows
    <3> QED
      BY <3>2, <3>3, <3>4
  <2>2. h = {pi[k] : k \in g}
    OBVIOUS
  <2>3. \A k \in g : /\ StatusOf(p, s[k]) = StatusOf(p, t[pi[k]])
                     /\ s[k].section = t[pi[k]].section
                     /\ FullName(s[k]) = FullName(t[pi[k]]) /\ s[k].id = t[pi[k]].id
                     /\ s[k].from = t[pi[k]].from /\ s[k].to = t[pi[k]].to
    BY <2>1
  <2> HIDE DEF h, phi
  <2>4. /\ {StatusOf(p, s[k]) : k \in g} = {StatusOf(p, t[k]) : k \in h}
        /\ {s[k].section : k \in g} = {t[k].section : k \in h}
    BY <2>2, <2>3
  <2>9. {FullName(s[k]) : k \in g} = {FullName(t[k]) : k \in h}
    BY <2>2, <2>3
  <2>5. PICK k \in g : First(h) = pi[k]
    BY <2>1, <2>2
  <2> DEFINE x == First(g)
             y == First(h)
  <2>6. /\ p.shows = "first" => FullName(s[x]) = FullName(t[y])
        /\ s[x].id = t[y].id /\ s[x].from = t[y].from /\ s[x].to = t[y].to
    <3>1. /\ p.shows = "first" => FullName(s[x]) = FullName(s[k])
          /\ s[x].id = s[k].id
          /\ s[x].from = s[k].from /\ s[x].to = s[k].to
      <4>1. x \in g /\ k \in g /\ g \in Groups(p, s)
        BY <2>1
      <4> HIDE DEF x, G
      <4> QED
        BY <4>1, RecordShowsItsKey
    <3> QED
      BY <2>3, <2>5, <3>1
  <2>8. NameShown(p, s, g) = NameShown(p, t, h)
    <3>1. CASE p.shows = "first"
      BY <2>6, <3>1 DEF NameShown
    <3>2. CASE p.shows # "first"
      BY <2>9, <3>2 DEF NameShown
    <3> QED
      BY <3>1, <3>2
  <2>7. Observation(p, s, g) = Observation(p, t, h)
    BY <2>4, <2>6, <2>8 DEF Observation
  <2> QED
    BY <2>7 DEF h
<1>10. IsFiniteSet(G)
  <2> DEFINE f == [i \in 1 .. n |-> {j \in 1 .. n : SameRecord(p, s, i, j)}]
  <2>1. IsFiniteSet(1 .. n)
    BY FS_Interval
  <2>2. IsFiniteSet({f[i] : i \in 1 .. n})
    <3> HIDE DEF f
    <3> QED
      BY <2>1, ImagesAreFinite
  <2>3. {f[i] : i \in 1 .. n} = G
    BY <1>2
  <2> QED
    BY <2>2, <2>3
<1>11. /\ Observations(p, s) = [v \in {A(x) : x \in G} |-> Cardinality({x \in G : A(x) = v})]
       /\ Observations(p, t) = [v \in {B(x) : x \in H} |-> Cardinality({x \in H : B(x) = v})]
  BY DEF Observations, Tally
<1>0. DOMAIN phi = G
  OBVIOUS
<1> HIDE DEF G, H, A, B, phi
<1>12. {A(x) : x \in G} = {B(x) : x \in H}
  BY <1>6, <1>7, <1>9
<1>13. ASSUME NEW v
       PROVE  Cardinality({x \in G : A(x) = v}) = Cardinality({x \in H : B(x) = v})
  <2> DEFINE X == {x \in G : A(x) = v}
             Y == {x \in H : B(x) = v}
             f == [x \in X |-> phi[x]]
  <2>1. IsFiniteSet(X)
    BY <1>10, FS_Subset
  <2>2. f \in [X -> Y]
    BY <1>6, <1>9
  <2>3. \A x, y \in X : f[x] = f[y] => x = y
    BY <1>8
  <2>4. \A y \in Y : \E x \in X : f[x] = y
    BY <1>7, <1>9
  <2> HIDE DEF X, Y, f
  <2>5. f \in Bijection(X, Y)
    BY <2>2, <2>3, <2>4 DEF Bijection, Injection, Surjection, IsInjective
  <2>6. Cardinality(Y) = Cardinality(X)
    BY <2>1, <2>5, FS_Bijection DEF ExistsBijection
  <2> QED
    BY <2>6 DEF X, Y
<1> DEFINE C(v) == Cardinality({x \in G : A(x) = v})
           D(v) == Cardinality({x \in H : B(x) = v})
           V == {A(x) : x \in G}
<1>14. \A v : C(v) = D(v)
  BY <1>13
<1>15. Observations(p, s) = [v \in V |-> C(v)] /\ Observations(p, t) = [v \in V |-> D(v)]
  BY <1>11, <1>12
<1> HIDE DEF C, D, V
<1> QED
  BY <1>14, <1>15

----------------------------------------------------------------------------
\* Two rows that change places.

\* The rows q and q + 1 have changed places.
Exchanged(s, t, q) ==
    /\ Len(s) = Len(t) /\ q \in 1 .. Len(s) /\ q + 1 \in 1 .. Len(s)
    /\ \A k \in 1 .. Len(s) : k # q /\ k # q + 1 => SameText(s[k], t[k])
    /\ SameText(s[q], t[q + 1]) /\ SameText(s[q + 1], t[q])

\* Two rows add as many rows as each of them adds.
LEMMA TwoMoreRows ==
    ASSUME NEW s \in States, NEW t \in States, NEW u \in States, NEW x, NEW y,
           OneRowMore(t, s, x), OneRowMore(u, t, y)
    PROVE  /\ Len(u.taken) = Len(s.taken) + 2
           /\ \A k \in 1 .. Len(s.taken) : SameText(u.taken[k], s.taken[k])
           /\ SameText(u.taken[Len(s.taken) + 1], x) /\ SameText(u.taken[Len(s.taken) + 2], y)
<1> DEFINE n == Len(s.taken)
<1>1. n \in Nat
  BY TakenType
<1>2. /\ Len(t.taken) = n + 1 /\ Len(u.taken) = (n + 1) + 1
      /\ \A k \in 1 .. n : SameText(t.taken[k], s.taken[k])
      /\ SameText(t.taken[n + 1], x)
      /\ \A k \in 1 .. n + 1 : SameText(u.taken[k], t.taken[k])
      /\ SameText(u.taken[(n + 1) + 1], y)
  BY DEF OneRowMore
<1> HIDE DEF n
<1>3. n + 2 = (n + 1) + 1 /\ n + 1 \in 1 .. n + 1 /\ \A k \in 1 .. n : k \in 1 .. n + 1
  BY <1>1
<1>4. /\ Len(u.taken) = n + 2
      /\ \A k \in 1 .. n : SameText(u.taken[k], s.taken[k])
      /\ SameText(u.taken[n + 1], x) /\ SameText(u.taken[n + 2], y)
  BY <1>2, <1>3, SameTextIsEquivalence
<1> QED
  BY <1>4 DEF n

\* What a row adds does not depend on what was taken before.
LEMMA SameRowMore ==
    ASSUME NEW s, NEW t, NEW u, NEW v, NEW x, SameTexts(s.taken, t.taken), Len(t.taken) \in Nat,
           OneRowMore(u, s, x), OneRowMore(v, t, x)
    PROVE  SameTexts(u.taken, v.taken)
<1> DEFINE n == Len(t.taken)
<1>1. /\ n \in Nat /\ Len(s.taken) = n
      /\ \A k \in 1 .. n : SameText(s.taken[k], t.taken[k])
      /\ Len(u.taken) = n + 1 /\ Len(v.taken) = n + 1
      /\ \A k \in 1 .. n : SameText(u.taken[k], s.taken[k]) /\ SameText(v.taken[k], t.taken[k])
      /\ SameText(u.taken[n + 1], x) /\ SameText(v.taken[n + 1], x)
  BY DEF SameTexts, OneRowMore
<1> HIDE DEF n
<1>2. ASSUME NEW k \in 1 .. n + 1 PROVE SameText(u.taken[k], v.taken[k])
  <2>1. CASE k = n + 1
    BY <1>1, <2>1, SameTextIsEquivalence
  <2>2. CASE k \in 1 .. n
    BY <1>1, <2>2, SameTextIsEquivalence
  <2> QED
    BY <1>1, <2>1, <2>2
<1> QED
  BY <1>1, <1>2 DEF SameTexts

\* b is a with the rows i and j in each other's place.
AfterExchange(a, b, i, j) ==
    /\ j = i + 1 /\ j \in 1 .. Len(a) /\ b[i] = a[j] /\ b[j] = a[i]
    /\ \A k \in 1 .. Len(a) : k # i /\ k # j => a[k] = b[k]

\* Headings stand where they stood.
HeadingsStay(a, b) ==
    \A k \in 1 .. Len(a) :
        a[k].kind = "section" \/ b[k].kind = "section" => a[k].kind = b[k].kind /\ a[k].section = b[k].section

\* Rows that change places yield the same rows, of which two may have changed places.
LEMMA ExchangedRows ==
    ASSUME NEW p, NEW a \in Seq(Rows), NEW b \in Seq(Rows), Len(b) = Len(a),
           p.under # "heading" \/ HeadingsStay(a, b),
           NEW i \in 1 .. Len(a), NEW j, AfterExchange(a, b, i, j),
           NEW v, NEW w, Undisturbed(p, a, v), Undisturbed(p, b, w),
           NEW s, s = v[Len(a)].taken, NEW t, t = w[Len(a)].taken
    PROVE  SameTexts(s, t) \/ \E q : Exchanged(s, t, q)
<1> DEFINE h == i - 1
<1>0. h \in Nat /\ h <= Len(a) /\ h <= Len(b) /\ j \in Nat /\ j <= Len(a)
  BY DEF AfterExchange
<1>1. SameTexts(v[h].taken, w[h].taken) /\ v[h].section = w[h].section
  <2>1. BeginAlike(a, b, h)
    BY <1>0 DEF BeginAlike, AfterExchange
  <2> HIDE DEF h
  <2> QED
    BY <2>1, SameBeginning
<1>2. /\ Advanced(p, v[h], a[i], v[i]) /\ Advanced(p, w[h], a[j], w[i])
      /\ Advanced(p, v[i], a[j], v[j]) /\ Advanced(p, w[i], a[i], w[j])
  <2>1. /\ Advanced(p, v[h], a[i], v[i]) /\ Advanced(p, w[h], b[i], w[i])
    BY DEF Undisturbed
  <2>2. Advanced(p, v[j - 1], a[j], v[j]) /\ Advanced(p, w[j - 1], b[j], w[j]) /\ j - 1 = i
    BY DEF Undisturbed, AfterExchange
  <2> QED
    BY <2>1, <2>2 DEF AfterExchange
<1>10. \/ p.under # "heading" \/ (a[i].kind # "section" /\ a[j].kind # "section")
       \/ a[i].kind = "section" /\ a[j].kind = "section" /\ a[i].section = a[j].section
  BY DEF HeadingsStay, AfterExchange
<1>3. v[j].section = w[j].section
  <2>1. CASE p.under # "heading" \/ (a[i].kind # "section" /\ a[j].kind # "section")
    BY <1>1, <1>2, <2>1 DEF Advanced
  <2>2. CASE a[i].kind = "section" /\ a[j].kind = "section" /\ a[i].section = a[j].section
    BY <1>1, <1>2, <2>2 DEF Advanced
  <2> QED
    BY <1>10, <2>1, <2>2
<1>4. Followed(v[j], w[j], v[Len(a)], w[Len(a)])
  <2>1. \A k \in j + 1 .. Len(a) : a[k] = b[k]
    BY DEF AfterExchange
  <2> QED
    BY <1>0, <1>3, <2>1, SameEnding
<1>5. /\ v[h] \in States /\ v[i] \in States /\ v[j] \in States /\ v[Len(a)] \in States
      /\ w[h] \in States /\ w[i] \in States /\ w[j] \in States /\ w[Len(a)] \in States
  <2>1. /\ h \in 0 .. Len(a) /\ i \in 0 .. Len(a) /\ j \in 0 .. Len(a) /\ Len(a) \in 0 .. Len(a)
        /\ h \in 0 .. Len(b) /\ i \in 0 .. Len(b) /\ j \in 0 .. Len(b) /\ Len(a) \in 0 .. Len(b)
    BY <1>0
  <2> HIDE DEF h
  <2> QED
    BY <2>1 DEF Undisturbed
<1>6. Len(s) \in Nat /\ Len(t) \in Nat /\ Len(v[h].taken) \in Nat
  BY <1>5, TakenType
<1> DEFINE x == ReadAlone(p, v[h].section, a[i])
           y == ReadAlone(p, v[h].section, a[j])
           keepsX == Kept(p, v[h].section, a[i])
           keepsY == Kept(p, v[h].section, a[j])
<1>7. /\ IF keepsX THEN OneRowMore(v[i], v[h], x) ELSE SameTexts(v[i].taken, v[h].taken)
      /\ IF keepsY THEN OneRowMore(v[j], v[i], y) ELSE SameTexts(v[j].taken, v[i].taken)
      /\ IF keepsY THEN OneRowMore(w[i], w[h], y) ELSE SameTexts(w[i].taken, w[h].taken)
      /\ IF keepsX THEN OneRowMore(w[j], w[i], x) ELSE SameTexts(w[j].taken, w[i].taken)
  <2>1. CASE p.under # "heading" \/ (a[i].kind # "section" /\ a[j].kind # "section")
    <3>1. v[i].section = v[h].section /\ w[i].section = v[h].section /\ w[h].section = v[h].section
      BY <1>1, <1>2, <2>1 DEF Advanced
    <3> QED
      BY <1>2, <3>1 DEF Advanced
  <2>2. CASE a[i].kind = "section" /\ a[j].kind = "section" /\ a[i].section = a[j].section
    <3>1. \A section : ~Kept(p, section, a[i]) /\ ~Kept(p, section, a[j])
      BY <2>2 DEF Kept
    <3> QED
      BY <1>2, <3>1 DEF Advanced
  <2> QED
    BY <1>10, <2>1, <2>2
<1> HIDE DEF h, x, y, keepsX, keepsY
<1>8. CASE ~(keepsX /\ keepsY)
  <2>1. SameTexts(v[j].taken, w[j].taken)
    <3>1. CASE ~keepsX /\ ~keepsY
      <4>1. SameTexts(v[i].taken, v[h].taken) /\ SameTexts(v[j].taken, v[i].taken)
            /\ SameTexts(w[i].taken, w[h].taken) /\ SameTexts(w[j].taken, w[i].taken)
        BY <1>7, <3>1
      <4> QED
        BY <1>1, <4>1, SameTextIsEquivalence DEF SameTexts
    <3>2. CASE keepsX /\ ~keepsY
      <4>1. OneRowMore(v[i], v[h], x) /\ SameTexts(v[j].taken, v[i].taken)
            /\ SameTexts(w[i].taken, w[h].taken) /\ OneRowMore(w[j], w[i], x)
        BY <1>7, <3>2
      <4>2. SameTexts(w[i].taken, v[h].taken)
        BY <1>1, <4>1, SameTextIsEquivalence DEF SameTexts
      <4>3. SameTexts(w[j].taken, v[i].taken)
        BY <1>6, <4>1, <4>2, SameRowMore
      <4> QED
        BY <4>1, <4>3, SameTextIsEquivalence DEF SameTexts
    <3>3. CASE ~keepsX /\ keepsY
      <4>1. SameTexts(v[i].taken, v[h].taken) /\ OneRowMore(v[j], v[i], y)
            /\ OneRowMore(w[i], w[h], y) /\ SameTexts(w[j].taken, w[i].taken)
        BY <1>7, <3>3
      <4>2. SameTexts(w[h].taken, v[i].taken)
        BY <1>1, <4>1, SameTextIsEquivalence DEF SameTexts
      <4>3. SameTexts(w[i].taken, v[j].taken)
        <5>1. Len(v[i].taken) \in Nat
          BY <1>5, TakenType
        <5> QED
          BY <4>1, <4>2, <5>1, SameRowMore
      <4> QED
        BY <4>1, <4>3, SameTextIsEquivalence DEF SameTexts
    <3> QED
      BY <1>8, <3>1, <3>2, <3>3
  <2>2. Len(v[j].taken) \in Nat
    BY <1>5, TakenType
  <2> QED
    BY <1>4, <1>6, <2>1, <2>2, FollowedAlike
<1>9. CASE keepsX /\ keepsY
  <2> DEFINE n == Len(v[h].taken)
             q == n + 1
             r == n + 2
             m == Len(s)
             l == Len(t)
  <2>1. OneRowMore(v[i], v[h], x) /\ OneRowMore(v[j], v[i], y)
        /\ OneRowMore(w[i], w[h], y) /\ OneRowMore(w[j], w[i], x)
    BY <1>7, <1>9
  <2>2. /\ n = Len(w[h].taken) /\ Len(v[j].taken) = r /\ Len(w[j].taken) = r
        /\ \A k \in 1 .. n : SameText(v[j].taken[k], v[h].taken[k]) /\ SameText(w[j].taken[k], w[h].taken[k])
        /\ \A k \in 1 .. n : SameText(v[h].taken[k], w[h].taken[k])
        /\ SameText(v[j].taken[q], x) /\ SameText(v[j].taken[r], y)
        /\ SameText(w[j].taken[q], y) /\ SameText(w[j].taken[r], x)
    <3>1. /\ Len(v[j].taken) = r
          /\ \A k \in 1 .. n : SameText(v[j].taken[k], v[h].taken[k])
          /\ SameText(v[j].taken[q], x) /\ SameText(v[j].taken[r], y)
      BY <1>5, <2>1, TwoMoreRows
    <3>2. /\ Len(w[j].taken) = Len(w[h].taken) + 2
          /\ \A k \in 1 .. Len(w[h].taken) : SameText(w[j].taken[k], w[h].taken[k])
          /\ SameText(w[j].taken[Len(w[h].taken) + 1], y) /\ SameText(w[j].taken[Len(w[h].taken) + 2], x)
      BY <1>5, <2>1, TwoMoreRows
    <3>3. n = Len(w[h].taken) /\ \A k \in 1 .. n : SameText(v[h].taken[k], w[h].taken[k])
      BY <1>1 DEF SameTexts
    <3> QED
      BY <3>1, <3>2, <3>3
  <2>3. /\ r <= m /\ m + r = l + r
        /\ \A k \in 1 .. r : SameText(s[k], v[j].taken[k])
        /\ \A k \in 1 .. r : SameText(t[k], w[j].taken[k])
        /\ \A k \in r + 1 .. m : SameText(s[k], t[k + r - r])
    BY <1>4, <2>2 DEF Followed
  <2>4. n \in Nat /\ q \in Nat /\ r \in Nat /\ m \in Nat /\ l \in Nat /\ q = n + 1 /\ r = q + 1
    BY <1>6
  <2> HIDE DEF n, q, r, m, l
  <2>5. m = l /\ q \in 1 .. m /\ r \in 1 .. m /\ q \in 1 .. r /\ r \in 1 .. r
    <3>1. r <= m /\ m + r = l + r
      BY <2>3
    <3> QED
      BY <2>4, <3>1
  <2>6. ASSUME NEW k \in 1 .. m, k # q, k # r PROVE SameText(s[k], t[k])
    <3>1. CASE k \in 1 .. n
      <4>1. k \in 1 .. r
        BY <2>4, <3>1
      <4>2. /\ SameText(s[k], v[j].taken[k]) /\ SameText(v[j].taken[k], v[h].taken[k])
            /\ SameText(v[h].taken[k], w[h].taken[k])
            /\ SameText(w[j].taken[k], w[h].taken[k]) /\ SameText(t[k], w[j].taken[k])
        BY <2>2, <2>3, <3>1, <4>1
      <4> QED
        BY <4>2, SameTextIsEquivalence
    <3>2. CASE k \in r + 1 .. m
      <4>1. k + r - r = k
        BY <2>4, <3>2
      <4> QED
        BY <2>3, <3>2, <4>1
    <3> QED
      BY <2>4, <2>6, <3>1, <3>2
  <2>7. SameText(s[q], x) /\ SameText(s[r], y) /\ SameText(t[q], y) /\ SameText(t[r], x)
    BY <2>2, <2>3, <2>5, SameTextIsEquivalence
  <2>8. SameText(s[q], t[r]) /\ SameText(s[r], t[q])
    BY <2>7, SameTextIsEquivalence
  <2>9. Exchanged(s, t, q)
    <3>1. r = q + 1
      BY <2>4
    <3> QED
      BY <2>5, <2>6, <2>8, <3>1 DEF Exchanged, m, l
  <2> QED
    BY <2>9
<1> QED
  BY <1>8, <1>9

----------------------------------------------------------------------------
\* What a parser makes of two such documents.

\* Names and dates of a row are its own.
Supplies(p) == p.repaired \cup p.supplied # {} \/ p.peers # "none"

\* Where nothing is supplied, the table is what was taken.
LEMMA NothingSupplied ==
    ASSUME NEW p, NEW taken \in Seq(Rows), NEW known, p.peers = "none"
    PROVE  /\ Table(p, taken, known) = Repaired(p, taken, known)
           /\ p.repaired \cup p.supplied = {} => Table(p, taken, known) = taken
<1>1. \A rows : Completable(p, rows) = {}
  BY DEF Completable, Incomplete
<1>2. \A rows : Completed(p, rows, {}) = [i \in DOMAIN rows |-> rows[i]]
  BY DEF Completed
<1>3. Repaired(p, taken, known) = [i \in DOMAIN Repaired(p, taken, known) |-> Repaired(p, taken, known)[i]]
  BY DEF Repaired
<1>4. Table(p, taken, known) = Repaired(p, taken, known)
  BY <1>1, <1>2, <1>3 DEF Table
<1>5. ASSUME p.repaired \cup p.supplied = {}
      PROVE  Repaired(p, taken, known) = taken
  <2>1. \A i : ~Reviewed(known, i, p.repaired \cup p.supplied)
    BY <1>5 DEF Reviewed, Has
  <2>2. Repaired(p, taken, known) = [i \in DOMAIN taken |-> taken[i]]
    BY <2>1 DEF Repaired
  <2> QED
    BY <2>2
<1> QED
  BY <1>4, <1>5

\* Rows of the table that change places show the same observations, but for text.
LEMMA ExchangedObservations ==
    ASSUME NEW p, ShowsItsKey(p), NEW s \in Seq(Rows), NEW t \in Seq(Rows), NEW q, Exchanged(s, t, q)
    PROVE  Observations(p, ButForText(s)) = Observations(p, ButForText(t))
<1> DEFINE n == Len(s)
           pi == [k \in 1 .. n |-> IF k = q THEN q + 1 ELSE IF k = q + 1 THEN q ELSE k]
           x == ButForText(s)
           y == ButForText(t)
<1>1. /\ n \in Nat /\ DOMAIN s = 1 .. n /\ DOMAIN t = 1 .. n /\ q \in 1 .. n /\ q + 1 \in 1 .. n
      /\ \A k \in 1 .. n : k # q /\ k # q + 1 => SameText(s[k], t[k])
      /\ SameText(s[q], t[q + 1]) /\ SameText(s[q + 1], t[q])
  BY DEF Exchanged
<1>2. \A k \in 1 .. n : s[k] \in Rows /\ t[k] \in Rows
  BY <1>1
<1> HIDE DEF n
<1>3. pi \in [1 .. n -> 1 .. n] /\ \A k \in 1 .. n : pi[pi[k]] = k
  BY <1>1
<1>4. \A k \in 1 .. n : SameText(s[k], t[pi[k]]) /\ pi[k] \in 1 .. n
  BY <1>1
<1> HIDE DEF pi
<1>5. \A r \in Rows : Formal(r)
  BY DEF Rows, Formal
<1>6. \A k \in 1 .. n : [s[k] EXCEPT !.joined = <<>>] = [t[pi[k]] EXCEPT !.joined = <<>>]
  BY <1>2, <1>4, <1>5, SameButForText
<1>7. /\ DOMAIN x = 1 .. n /\ DOMAIN y = 1 .. n
      /\ \A k \in 1 .. n : x[k] = y[pi[k]]
  BY <1>1, <1>4, <1>6 DEF ButForText
<1> HIDE DEF x, y
<1>8. Reorders(pi, n, x, y)
  BY <1>3, <1>7 DEF Reorders
<1>9. Observations(p, x) = Observations(p, y)
  BY <1>1, <1>8, PermutedObservations
<1> QED
  BY <1>9 DEF x, y

\* Rows that change places are the same observations, but for text.
LEMMA OrderUnseen ==
    ASSUME NEW p, ReadsAlone(p), ~p.sorted, ~Supplies(p), ShowsItsKey(p),
           NEW a \in Seq(Rows), NEW b \in Seq(Rows), Len(b) = Len(a),
           p.under # "heading" \/ HeadingsStay(a, b),
           NEW i \in 1 .. Len(a), NEW j, AfterExchange(a, b, i, j), NEW known,
           NEW x, x = Interpreted(p, a, known), NEW y, y = Interpreted(p, b, known), x.ok, y.ok
    PROVE  /\ Observations(p, ButForText(x.rows)) = Observations(p, ButForText(y.rows))
           /\ x.rows = Scanned(p, a).taken /\ y.rows = Scanned(p, b).taken
<1>1. ~Scanned(p, a).refused /\ ~Scanned(p, b).refused
  BY DEF Interpreted, WithRepairs, WithCompletions, Interpretation
<1> DEFINE v == Walk(p, a)
           w == Walk(p, b)
           s == Scanned(p, a).taken
           t == Scanned(p, b).taken
<1>2. /\ Undisturbed(p, a, v) /\ s = v[Len(a)].taken
      /\ Undisturbed(p, b, w) /\ t = w[Len(a)].taken
  BY <1>1, UnrefusedIsUndisturbed
<1>3. v[Len(a)] \in States /\ w[Len(a)] \in States
  <2> HIDE DEF v, w
  <2> QED
    BY <1>2 DEF Undisturbed
<1>4. x.rows = Table(p, s, known) /\ y.rows = Table(p, t, known)
  BY InterpretedTable
<1> HIDE DEF v, w, s, t
<1>5. s \in Seq(Rows) /\ t \in Seq(Rows)
  BY <1>2, <1>3, TakenType
<1>6. x.rows = s /\ y.rows = t
  BY <1>4, <1>5, NothingSupplied DEF Supplies
<1>7. SameTexts(s, t) \/ \E q : Exchanged(s, t, q)
  BY <1>2, ExchangedRows
<1>8. ASSUME SameTexts(s, t)
      PROVE  Observations(p, ButForText(x.rows)) = Observations(p, ButForText(y.rows))
  <2>1. Alike(x.rows, y.rows)
    BY <1>5, <1>6, <1>8 DEF Alike, SameTexts
  <2>2. ButForText(x.rows) = ButForText(y.rows)
    BY <1>4, <1>5, <2>1, AlikeButForText
  <2> QED
    BY <2>2
<1>9. ASSUME NEW q, Exchanged(s, t, q)
      PROVE  Observations(p, ButForText(x.rows)) = Observations(p, ButForText(y.rows))
  BY <1>5, <1>6, <1>9, ExchangedObservations
<1>10. Observations(p, ButForText(x.rows)) = Observations(p, ButForText(y.rows))
  BY <1>7, <1>8, <1>9
<1> QED
  BY <1>6, <1>10 DEF s, t

\* x and y differ in the cell f only.
DifferIn(x, y, f) == \A g \in Fields : g # f => x[g] = y[g]

\* Tables that differ in one cell still do after the repairs.
LEMMA RepairedCell ==
    ASSUME NEW p, NEW s \in Seq(Rows), NEW t \in Seq(Rows), NEW known,
           NEW q, NEW x, NEW y, DifferAt(s, t, q, x, y), NEW f \in Fields, DifferIn(x, y, f),
           NEW i \in 1 .. Len(s), NEW g \in Fields,
           Repaired(p, s, known)[i][g] # Repaired(p, t, known)[i][g]
    PROVE  i = q /\ g = f
<1> DEFINE fits == Reviewed(known, i, p.repaired \cup p.supplied)
           name == known[i].meant
<1>0. i \in DOMAIN s /\ i \in DOMAIN t /\ s[i] \in Rows /\ t[i] \in Rows
  BY DEF DifferAt
<1>1. /\ Repaired(p, s, known)[i] = IF fits THEN [s[i] EXCEPT !.name = name] ELSE s[i]
      /\ Repaired(p, t, known)[i] = IF fits THEN [t[i] EXCEPT !.name = name] ELSE t[i]
  BY <1>0, Zenon DEF Repaired
<1> HIDE DEF fits, name
<1>2. \A r \in Rows : /\ [r EXCEPT !.name = name]["name"] = name
                      /\ \A h \in Fields : h # "name" => [r EXCEPT !.name = name][h] = r[h]
  BY DEF Rows, Fields
<1>3. s[i][g] # t[i][g]
  <2>1. CASE ~fits
    BY <1>1, <2>1
  <2>2. CASE fits
    <3>1. g # "name"
      BY <1>0, <1>1, <1>2, <2>2
    <3>2. [s[i] EXCEPT !.name = name][g] = s[i][g] /\ [t[i] EXCEPT !.name = name][g] = t[i][g]
      BY <1>0, <1>2, <3>1
    <3> QED
      BY <1>1, <2>2, <3>2
  <2> QED
    BY <2>1, <2>2
<1>4. i = q
  <2>1. i # q => SameText(s[i], t[i])
    BY DEF DifferAt
  <2> QED
    BY <1>3, <2>1, SameCells
<1>5. s[q][g] = x[g] /\ t[q][g] = y[g]
  BY SameCells DEF DifferAt
<1> QED
  BY <1>3, <1>4, <1>5 DEF DifferIn

\* What differs between two tables is the cell f of the row q.
OneCell(x, y, q, f) ==
    DOMAIN x = DOMAIN y /\ \A k \in DOMAIN x : \A g \in Fields : y[k][g] # x[k][g] => k = q /\ g = f

\* A cell that changes unnoticed is all that changes in the table.
LEMMA CellUnseen ==
    ASSUME NEW p, ReadsAlone(p), ~p.sorted, ~p.ordered, p.peers = "none", CountsRows(p),
           NEW a \in Seq(Rows), NEW b \in Seq(Rows), Len(b) = Len(a),
           NEW i \in 1 .. Len(a), \A k \in 1 .. Len(a) : k # i => a[k] = b[k],
           a[i].kind = "row", b[i].kind = "row",
           NEW f \in Fields, DifferIn(a[i], b[i], f), NEW known \in Seq(Rows),
           NEW x, x = Interpreted(p, a, known), NEW y, y = Interpreted(p, b, known), x.ok, y.ok,
           AsRecorded(p, Findings(p, y), Findings(p, x))
    PROVE  \E q : OneCell(x.rows, y.rows, q, f)
<1>1. ~Scanned(p, a).refused /\ ~Scanned(p, b).refused
  BY DEF Interpreted, WithRepairs, WithCompletions, Interpretation
<1> DEFINE v == Walk(p, a)
           w == Walk(p, b)
           s == Scanned(p, a).taken
           t == Scanned(p, b).taken
<1>2. /\ Undisturbed(p, a, v) /\ s = v[Len(a)].taken
      /\ Undisturbed(p, b, w) /\ t = w[Len(a)].taken
  BY <1>1, UnrefusedIsUndisturbed
<1>3. v[Len(a)] \in States /\ w[Len(a)] \in States
  <2> HIDE DEF v, w
  <2> QED
    BY <1>2 DEF Undisturbed
<1>4. x.rows = Table(p, s, known) /\ y.rows = Table(p, t, known)
  BY InterpretedTable
<1> HIDE DEF v, w, s, t
<1>5. s \in Seq(Rows) /\ t \in Seq(Rows) /\ Len(s) \in Nat /\ Len(t) \in Nat
  BY <1>2, <1>3, TakenType
<1>6. DOMAIN x.rows = 1 .. Len(s) /\ DOMAIN y.rows = 1 .. Len(t)
  BY <1>4, <1>5, TableType
<1>7. Len(s) = Len(t)
  BY <1>5, <1>6, CountedRows
<1> DEFINE d(section) == ReadAlone(p, section, a[i])
           e(section) == ReadAlone(p, section, b[i])
<1>8. SameTexts(s, t) \/ \E q, section : DifferAt(s, t, q, d(section), e(section))
  BY <1>2, <1>7, ChangedRow
<1>11. \A section : DifferIn(d(section), e(section), f)
  <2>1. a[i] \in Rows /\ b[i] \in Rows
    OBVIOUS
  <2>2. \A section : /\ d(section) = IF p.under = "heading" THEN [a[i] EXCEPT !.section = section] ELSE a[i]
                     /\ e(section) = IF p.under = "heading" THEN [b[i] EXCEPT !.section = section] ELSE b[i]
    BY DEF ReadAlone, InOrder
  <2>3. \A section : DifferIn([a[i] EXCEPT !.section = section], [b[i] EXCEPT !.section = section], f)
    BY <2>1 DEF DifferIn, Rows, Fields
  <2> HIDE DEF d, e
  <2> QED
    BY <2>2, <2>3
<1> HIDE DEF d, e
<1>9. CASE SameTexts(s, t)
  <2>1. Alike(x.rows, y.rows)
    BY <1>4, <1>5, <1>9, AlikeTables
  <2>2. \A k \in DOMAIN x.rows : \A g \in Fields : y.rows[k][g] = x.rows[k][g]
    <3> TAKE k \in DOMAIN x.rows
    <3>1. SameText(x.rows[k], y.rows[k])
      BY <2>1 DEF Alike
    <3> QED
      BY <3>1, SameCells
  <2>3. OneCell(x.rows, y.rows, 0, f)
    BY <1>6, <1>7, <2>2 DEF OneCell
  <2> QED
    BY <2>3
<1>10. CASE \E q, section : DifferAt(s, t, q, d(section), e(section))
  <2>1. PICK q, section : DifferAt(s, t, q, d(section), e(section))
    BY <1>10
  <2>2. x.rows = Repaired(p, s, known) /\ y.rows = Repaired(p, t, known)
    BY <1>4, <1>5, NothingSupplied
  <2> DEFINE u == Repaired(p, s, known)
             z == Repaired(p, t, known)
  <2>3. ASSUME NEW k \in 1 .. Len(s), NEW g \in Fields, u[k][g] # z[k][g]
        PROVE  k = q /\ g = f
    <3>1. DifferIn(d(section), e(section), f)
      BY <1>11
    <3> QED
      BY <1>5, <2>1, <2>3, <3>1, RepairedCell
  <2> HIDE DEF u, z
  <2>5. u = x.rows /\ z = y.rows
    BY <2>2 DEF u, z
  <2>4. OneCell(x.rows, y.rows, q, f)
    BY <1>6, <1>7, <2>3, <2>5 DEF OneCell
  <2> QED
    BY <2>4
<1> QED
  BY <1>8, <1>9, <1>10

----------------------------------------------------------------------------
\* Lost headings, and headings that change places.

\* The headings of the first n rows, as a walk notes them.
HeadingsAt(document, n) ==
    {<<k, "section", document[k].page, document[k].section>> :
        k \in {l \in 1 .. n : document[l].kind = "section"}}

\* How many headings a document has.
HeadingCount(document) == Cardinality({k \in DOMAIN document : document[k].kind = "section"})

\* Joining and taking leave the layout alone.
LEMMA LayoutKept ==
    ASSUME NEW s \in States, NEW r, NEW read
    PROVE  /\ Join(s, r).layout = s.layout /\ Hold(s, r).layout = s.layout
           /\ Take(s, read).layout = s.layout
           /\ \A n : Take([s EXCEPT !.carried = n], read).layout = s.layout
BY DEF Join, Hold, Take, States

\* No row of a company is noted as a heading.
LEMMA CompanyKeepsLayout ==
    ASSUME NEW p, NEW s \in States, NEW document, NEW r
    PROVE  Company(p, s, document, r).refused \/ Company(p, s, document, r).layout = s.layout
<1> DEFINE t == Company(p, s, document, r)
           read == Read(p, s, document, r)
           n == s.carried + (IF Carries(p, s, r) THEN 1 ELSE 0)
<1>1. t \in {Text(p, s, r), [s EXCEPT !.open = FALSE], [s EXCEPT !.left = @ + 1, !.open = FALSE],
             Refuse(s), Take([s EXCEPT !.carried = n], read)}
  BY DEF Company, EnterAsRead, Enter
<1>2. Text(p, s, r) \in {Join(s, r), Hold(s, r), s, Refuse(s)}
  BY DEF Text
<1>3. Refuse(s).refused
  BY DEF Refuse, States
<1>4. /\ [s EXCEPT !.open = FALSE].layout = s.layout
      /\ [s EXCEPT !.left = @ + 1, !.open = FALSE].layout = s.layout
  BY DEF States
<1>5. /\ Join(s, r).layout = s.layout /\ Hold(s, r).layout = s.layout
      /\ Take([s EXCEPT !.carried = n], read).layout = s.layout
  BY LayoutKept
<1> HIDE DEF t, read, n
<1>6. t.refused \/ t.layout = s.layout
  BY <1>1, <1>2, <1>3, <1>4, <1>5
<1> QED
  BY <1>6 DEF t

\* Every heading that is not refused is noted, at its place.
LEMMA ScanNotesHeadings ==
    ASSUME NEW p, NEW s \in States, ~s.refused, NEW document, NEW at \in Nat, NEW r \in Rows,
           NEW t, t = Scan(p, s, document, at, r), ~t.refused
    PROVE  Headings(t) = IF r.kind = "section" THEN Headings(s) \cup {<<at, "section", r.page, r.section>>}
                         ELSE Headings(s)
<1> DEFINE new == <<at, r.kind, r.page, r.section>>
<1>1. CASE r.kind = "row"
  <2>1. t = Company(p, s, document, r)
    BY <1>1 DEF Scan
  <2> QED
    BY <1>1, <2>1, CompanyKeepsLayout DEF Headings
<1>2. CASE r.kind # "row"
  <2>1. Refuse(s).refused
    BY DEF Refuse, States
  <2>2. CASE \/ Joins(p, s, r) \/ (r.kind = "lead" /\ "lead" \in p.joins)
    <3>1. t \in {Join(s, r), Hold(s, r), s, Refuse(s)} /\ r.kind # "section"
      BY <1>2, <2>2 DEF Scan, Text, Joins
    <3>2. Join(s, r).layout = s.layout /\ Hold(s, r).layout = s.layout
      BY LayoutKept
    <3>3. t.layout = s.layout
      BY <2>1, <3>1, <3>2
    <3> QED
      BY <3>1, <3>3 DEF Headings
  <2>3. CASE ~Joins(p, s, r) /\ ~(r.kind = "lead" /\ "lead" \in p.joins)
    <3>1. t \in {PassOver(s, at, r), [PassOver(s, at, r) EXCEPT !.section = r.section], Refuse(s)}
      BY <1>2, <2>3 DEF Scan
    <3>2. /\ PassOver(s, at, r).layout = s.layout \cup {new}
          /\ [PassOver(s, at, r) EXCEPT !.section = r.section].layout = s.layout \cup {new}
      BY DEF PassOver, States
    <3> HIDE DEF new
    <3>3. t.layout = s.layout \cup {new}
      BY <2>1, <3>1, <3>2
    <3>4. Headings(t) = {x \in s.layout \cup {new} : x[2] = "section"}
      BY <3>3 DEF Headings
    <3>5. new[2] = r.kind
      BY DEF new
    <3>6. CASE r.kind = "section"
      <4>1. new = <<at, "section", r.page, r.section>>
        BY <3>6 DEF new
      <4> QED
        BY <3>4, <3>5, <3>6, <4>1 DEF Headings
    <3>7. CASE r.kind # "section"
      BY <3>4, <3>5, <3>7 DEF Headings
    <3> QED
      BY <3>6, <3>7
  <2> QED
    BY <2>2, <2>3
<1> QED
  BY <1>1, <1>2

\* The headings that a parser has passed over at the end of a document.
LEMMA WalkNotesHeadings ==
    ASSUME NEW p, ReadsAlone(p), NEW document \in Seq(Rows), ~Scanned(p, document).refused
    PROVE  Headings(Scanned(p, document)) = HeadingsAt(document, Len(document))
<1> DEFINE w == Walk(p, document)
           N == Len(document)
<1>1. /\ \A n \in 0 .. N : w[n] \in States /\ ~w[n].refused
      /\ Scanned(p, document) = w[N]
  <2>1. /\ Undisturbed(p, document, w) /\ Scanned(p, document) = w[N]
        /\ \A n \in 0 .. N : ~w[n].refused
    BY UnrefusedIsUndisturbed
  <2> HIDE DEF w
  <2> QED
    BY <2>1 DEF Undisturbed
<1>2. w[0] = Begin /\ \A n \in 1 .. N : w[n] = Scan(p, w[n - 1], document, n, document[n])
  BY WalkSteps
<1> HIDE DEF w
<1>3. \A n \in 1 .. N : Headings(w[n]) = IF document[n].kind = "section"
                                          THEN Headings(w[n - 1]) \cup {<<n, "section", document[n].page, document[n].section>>}
                                          ELSE Headings(w[n - 1])
  <2> TAKE n \in 1 .. N
  <2>1. /\ w[n - 1] \in States /\ ~w[n - 1].refused /\ ~w[n].refused /\ n \in Nat /\ document[n] \in Rows
        /\ w[n] = Scan(p, w[n - 1], document, n, document[n])
    <3>1. n \in 0 .. N /\ n - 1 \in 0 .. N /\ n \in Nat /\ document[n] \in Rows
      OBVIOUS
    <3> QED
      BY <1>1, <1>2, <3>1
  <2> DEFINE r == document[n]
             s == w[n - 1]
             t == w[n]
  <2>2. s \in States /\ ~s.refused /\ ~t.refused /\ n \in Nat /\ r \in Rows /\ t = Scan(p, s, document, n, r)
    BY <2>1
  <2> HIDE DEF r, s, t
  <2>3. Headings(t) = IF r.kind = "section" THEN Headings(s) \cup {<<n, "section", r.page, r.section>>}
                      ELSE Headings(s)
    BY <2>2, ScanNotesHeadings
  <2> QED
    BY <2>3 DEF r, s, t
<1> DEFINE S == {n \in Nat : n <= N => Headings(w[n]) = HeadingsAt(document, n)}
<1>4. 0 \in S
  <2>1. Headings(Begin) = {}
    BY DEF Headings, Begin
  <2>2. HeadingsAt(document, 0) = {}
    BY DEF HeadingsAt
  <2> QED
    BY <1>2, <2>1, <2>2
<1>5. ASSUME NEW n \in Nat, n \in S PROVE n + 1 \in S
  <2>1. CASE n + 1 <= N
    <3> DEFINE m == n + 1
               new == <<m, "section", document[m].page, document[m].section>>
    <3>1. m \in 1 .. N /\ m - 1 = n /\ Headings(w[n]) = HeadingsAt(document, n)
      BY <1>5, <2>1
    <3>2. Headings(w[m]) = IF document[m].kind = "section" THEN HeadingsAt(document, n) \cup {new}
                           ELSE HeadingsAt(document, n)
      BY <1>3, <3>1
    <3>3. {l \in 1 .. m : document[l].kind = "section"} =
             {l \in 1 .. n : document[l].kind = "section"}
                 \cup (IF document[m].kind = "section" THEN {m} ELSE {})
      BY <3>1
    <3> HIDE DEF m
    <3>4. HeadingsAt(document, m) = IF document[m].kind = "section" THEN HeadingsAt(document, n) \cup {new}
                                    ELSE HeadingsAt(document, n)
      BY <3>3 DEF HeadingsAt
    <3>5. Headings(w[m]) = HeadingsAt(document, m)
      BY <3>2, <3>4
    <3> QED
      BY <3>5 DEF m
  <2> QED
    BY <2>1
<1>6. N \in S
  <2>1. \A n \in Nat : n \in S
    <3> HIDE DEF S
    <3> QED
      BY <1>4, <1>5, NaturalsByInduction
  <2> QED
    BY <2>1
<1> QED
  BY <1>1, <1>6

\* As many headings are noted as the document has.
LEMMA HeadingsCounted ==
    ASSUME NEW d \in Seq(Rows)
    PROVE  Cardinality(HeadingsAt(d, Len(d))) = HeadingCount(d)
<1> DEFINE I == {k \in 1 .. Len(d) : d[k].kind = "section"}
           H == HeadingsAt(d, Len(d))
           f == [k \in I |-> <<k, "section", d[k].page, d[k].section>>]
<1>1. f \in Bijection(I, H)
  <2>1. f \in [I -> H]
    BY DEF HeadingsAt
  <2>2. \A k, l \in I : f[k] = f[l] => k = l
    OBVIOUS
  <2>3. \A h \in H : \E k \in I : f[k] = h
    BY DEF HeadingsAt
  <2> HIDE DEF f, H, I
  <2> QED
    BY <2>1, <2>2, <2>3 DEF Bijection, Injection, Surjection, IsInjective
<1>2. IsFiniteSet(I)
  <2>1. IsFiniteSet(1 .. Len(d))
    BY FS_Interval
  <2> QED
    BY <2>1, FS_Subset
<1>3. Cardinality(H) = Cardinality(I)
  <2> HIDE DEF f, H, I
  <2> QED
    BY <1>1, <1>2, FS_Bijection DEF ExistsBijection
<1>4. DOMAIN d = 1 .. Len(d)
  OBVIOUS
<1> QED
  BY <1>3, <1>4 DEF HeadingCount

\* A document that loses a heading has fewer headings.
LEMMA LostHeading ==
    ASSUME NEW a \in Seq(Rows), NEW b \in Seq(Rows), NEW i \in 1 .. Len(a), Without(a, i, b),
           HeadingCount(a) = HeadingCount(b)
    PROVE  a[i].kind # "section"
<1> DEFINE A == {k \in 1 .. Len(a) : a[k].kind = "section"}
           B == {k \in 1 .. Len(b) : b[k].kind = "section"}
           I == A \ {i}
           f == [k \in B |-> IF k < i THEN k ELSE k + 1]
<1>1. DOMAIN a = 1 .. Len(a) /\ DOMAIN b = 1 .. Len(b) /\ Len(a) = Len(b) + 1 /\ i \in Nat
  BY DEF Without
<1>2. IsFiniteSet(A) /\ IsFiniteSet(B)
  <2>1. IsFiniteSet(1 .. Len(a)) /\ IsFiniteSet(1 .. Len(b))
    BY FS_Interval
  <2> QED
    BY <2>1, FS_Subset
<1>3. \A k \in 1 .. Len(b) : /\ k < i => k \in 1 .. i - 1 /\ k \in 1 .. Len(a) /\ a[k] = b[k]
                             /\ ~(k < i) => k + 1 \in 1 .. Len(a) /\ a[k + 1] = b[k]
  BY <1>1 DEF Without
<1>4. f \in [B -> I]
  BY <1>1, <1>3
<1>5. \A k, l \in B : f[k] = f[l] => k = l
  BY <1>1
<1>6. \A x \in I : \E k \in B : f[k] = x
  <2> TAKE x \in I
  <2>1. CASE x < i
    <3>1. x \in 1 .. Len(b) /\ a[x] = b[x]
      BY <1>1, <1>3, <2>1
    <3> QED
      BY <2>1, <3>1
  <2>2. CASE x > i
    <3> DEFINE k == x - 1
    <3>1. k \in 1 .. Len(b) /\ ~(k < i) /\ k + 1 = x
      BY <1>1, <2>2
    <3>2. a[x] = b[k]
      BY <1>3, <3>1
    <3>3. k \in B /\ f[k] = x
      BY <3>1, <3>2
    <3> QED
      BY <3>3
  <2> QED
    BY <1>1, <2>1, <2>2
<1>7. Cardinality(I) = Cardinality(B)
  <2> HIDE DEF A, B, I, f
  <2>1. f \in Bijection(B, I)
    BY <1>4, <1>5, <1>6 DEF Bijection, Injection, Surjection, IsInjective
  <2> QED
    BY <1>2, <2>1, FS_Bijection DEF ExistsBijection
<1>8. HeadingCount(a) = Cardinality(A) /\ HeadingCount(b) = Cardinality(B)
  BY <1>1 DEF HeadingCount
<1>9. i \in A => Cardinality(I) = Cardinality(A) - 1
  BY <1>2, FS_RemoveElement
<1>10. Cardinality(A) \in Nat
  BY <1>2, FS_CardinalityType
<1>11. i \notin A
  <2> DEFINE c == Cardinality(A)
             d == Cardinality(I)
  <2>1. c \in Nat /\ d = c /\ (i \in A => d = c - 1)
    BY <1>7, <1>8, <1>9, <1>10
  <2> HIDE DEF c, d, A
  <2> QED
    BY <2>1
<1> QED
  BY <1>11

\* The parser compares its headings with those of the review.
NotesHeadings(p) == p.gates \cap {"layout", "heading count"} # {}

\* What a parser compares of headings is what the walk noted.
LEMMA InterpretedHeadings ==
    ASSUME NEW p, ReadsAlone(p), NEW a \in Seq(Rows), NEW known,
           NEW x, x = Interpreted(p, a, known), x.ok
    PROVE  Headings(x.walk) = HeadingsAt(a, Len(a)) /\ Cardinality(Headings(x.walk)) = HeadingCount(a)
<1> DEFINE s == Scanned(p, a)
<1>1. ~s.refused
  BY DEF Interpreted, WithRepairs, WithCompletions, Interpretation
<1>2. s \in States
  <2> DEFINE v == Walk(p, a)
  <2>1. Undisturbed(p, a, v) /\ s = v[Len(a)]
    BY <1>1, UnrefusedIsUndisturbed
  <2> HIDE DEF v, s
  <2> QED
    BY <2>1 DEF Undisturbed
<1>3. Headings(s) = HeadingsAt(a, Len(a))
  BY <1>1, WalkNotesHeadings
<1>4. x.walk.layout = s.layout
  <2>1. PICK m, n : x.walk = [s EXCEPT !.left = m, !.completed = n]
    BY DEF Interpreted, WithRepairs, WithCompletions, Interpretation
  <2> HIDE DEF s
  <2> QED
    BY <1>2, <2>1 DEF States
<1>5. Headings(x.walk) = Headings(s)
  BY <1>4 DEF Headings
<1> HIDE DEF s
<1> QED
  BY <1>3, <1>5, HeadingsCounted

\* Where the layout is compared, headings stand where they stood.
LEMMA NotedLayout ==
    ASSUME NEW p, ReadsAlone(p), "layout" \in p.gates,
           NEW a \in Seq(Rows), NEW b \in Seq(Rows), Len(a) = Len(b), NEW known,
           NEW x, x = Interpreted(p, a, known), NEW y, y = Interpreted(p, b, known), x.ok, y.ok,
           AsRecorded(p, Findings(p, y), Findings(p, x))
    PROVE  Headings(x.walk) = Headings(y.walk) /\ HeadingsStay(a, b)
<1>1. Findings(p, y).gates["layout"] = Findings(p, x).gates["layout"]
  BY DEF AsRecorded
<1>2. \A u, rows, groups : Measure(p, "layout", u, rows, groups) = u.layout
  BY DEF Measure, OfWalk, WalkMeasure
<1>3. Findings(p, x).gates["layout"] = x.walk.layout /\ Findings(p, y).gates["layout"] = y.walk.layout
  BY <1>2 DEF Findings, GroupedFindings
<1>4. Headings(x.walk) = Headings(y.walk)
  BY <1>1, <1>3 DEF Headings
<1>5. HeadingsAt(a, Len(a)) = HeadingsAt(b, Len(a))
  BY <1>4, InterpretedHeadings
<1> DEFINE h(d, k) == <<k, "section", d[k].page, d[k].section>>
<1>6. HeadingsStay(a, b)
  <2>1. \A d, e : \A k \in 1 .. Len(a) :
           HeadingsAt(d, Len(a)) = HeadingsAt(e, Len(a)) /\ d[k].kind = "section"
               => e[k].kind = "section" /\ d[k].section = e[k].section
    <3> TAKE d, e
    <3> TAKE k \in 1 .. Len(a)
    <3> HAVE HeadingsAt(d, Len(a)) = HeadingsAt(e, Len(a)) /\ d[k].kind = "section"
    <3>1. h(d, k) \in HeadingsAt(e, Len(a))
      BY DEF HeadingsAt
    <3>2. PICK l \in {m \in 1 .. Len(a) : e[m].kind = "section"} : h(d, k) = h(e, l)
      BY <3>1 DEF HeadingsAt
    <3> QED
      BY <3>2
  <2> QED
    BY <1>5, <2>1 DEF HeadingsStay
<1> QED
  BY <1>4, <1>6

\* Where headings are counted, none is lost or repeated.
LEMMA NotedHeadings ==
    ASSUME NEW p, ReadsAlone(p), NotesHeadings(p), NEW a \in Seq(Rows), NEW b \in Seq(Rows), NEW known,
           NEW x, x = Interpreted(p, a, known), NEW y, y = Interpreted(p, b, known), x.ok, y.ok,
           AsRecorded(p, Findings(p, y), Findings(p, x))
    PROVE  HeadingCount(a) = HeadingCount(b)
<1>3. /\ Cardinality(Headings(x.walk)) = HeadingCount(a)
      /\ Cardinality(Headings(y.walk)) = HeadingCount(b)
  BY InterpretedHeadings
<1>6. \A g \in p.gates \ {"twins", "names"} : Findings(p, y).gates[g] = Findings(p, x).gates[g]
  BY DEF AsRecorded
<1>7. CASE "layout" \in p.gates
  <2>1. \A u, rows, groups : Measure(p, "layout", u, rows, groups) = u.layout
    BY DEF Measure, OfWalk, WalkMeasure
  <2>2. Findings(p, x).gates["layout"] = x.walk.layout /\ Findings(p, y).gates["layout"] = y.walk.layout
    BY <1>7, <2>1 DEF Findings, GroupedFindings
  <2>3. x.walk.layout = y.walk.layout
    BY <1>6, <1>7, <2>2
  <2>4. Headings(x.walk) = Headings(y.walk)
    BY <2>3 DEF Headings
  <2> QED
    BY <1>3, <2>4
<1>8. CASE "heading count" \in p.gates
  <2>1. \A u, rows, groups : Measure(p, "heading count", u, rows, groups) = Cardinality(Headings(u))
    BY DEF Measure, OfWalk, WalkMeasure
  <2>2. /\ Findings(p, x).gates["heading count"] = Cardinality(Headings(x.walk))
        /\ Findings(p, y).gates["heading count"] = Cardinality(Headings(y.walk))
    BY <1>8, <2>1 DEF Findings, GroupedFindings
  <2>3. Cardinality(Headings(x.walk)) = Cardinality(Headings(y.walk))
    BY <1>6, <1>8, <2>2
  <2> QED
    BY <1>3, <2>3
<1> QED
  BY <1>7, <1>8 DEF NotesHeadings

----------------------------------------------------------------------------
\* From documents to behaviours.

\* What the library yields after a drift, compared with the reviewed rows.
OneRowApart(d, e) ==
    \/ \E i \in 1 .. Len(d) : Without(d, i, e)
    \/ \E i \in 1 .. Len(e) : Without(e, i, d)

\* Two neighbours have changed places.
Swapped(d, e) ==
    Len(e) = Len(d) /\ \E i, j \in 1 .. Len(d) : AfterExchange(d, e, i, j)

\* One row differs in one cell.
OneCellApart(d, e, f) ==
    /\ Len(e) = Len(d)
    /\ \E i \in 1 .. Len(d) :
          /\ \A k \in 1 .. Len(d) : k # i => d[k] = e[k]
          /\ d[i].kind = "row" /\ e[i].kind = "row" /\ DifferIn(d[i], e[i], f)

\* How the drift of this kind shows.
Drifted(kind, d, e) ==
    /\ e \in Seq(Rows)
    /\ kind \in {"lose", "repeat"} => OneRowApart(d, e)
    /\ kind = "break" => \E i \in 1 .. Len(d) : Broken(d, e, i)
    /\ kind = "exchange" => Swapped(d, e)
    /\ kind \in Fields => OneCellApart(d, e, kind)

\* The description is that of some parser.
Described == \E n \in DOMAIN Parsers : description = Parsers[n]

\* The reviewed and the extracted documents are rows, and differ as the drift says.
DInv ==
    /\ Described
    /\ reviewed # None => reviewed \in Seq(Rows)
    /\ drift # None => drift \in Drifts /\ reviewed # None /\ Drifted(drift, reviewed, extracted)
    /\ result # None => reviewed # None /\ result = Parsed(description, extracted, recorded)

\* A row with the rest of another below it is that row broken.
LEMMA RestBelow ==
    ASSUME NEW d \in Seq(Rows), NEW c, Len(c) = Len(d), NEW i \in 1 .. Len(d), NEW e, Without(e, i + 1, c),
           \A k \in 1 .. Len(d) : k # i => c[k] = d[k],
           d[i].kind = "row" /\ c[i].kind = "row" /\ c[i].meant = d[i].meant,
           e[i + 1].kind = "tail" /\ e[i + 1].meant = d[i].meant
    PROVE  Broken(d, e, i)
<1>1. i \in Nat /\ Len(d) \in Nat
  OBVIOUS
<1>2. /\ Len(e) = Len(d) + 1
      /\ \A k \in 1 .. i : e[k] = c[k]
      /\ \A k \in i + 1 .. Len(d) : e[k + 1] = c[k]
  <2>1. (i + 1) - 1 = i
    BY <1>1
  <2> QED
    BY <2>1 DEF Without
<1>3. /\ \A k \in 1 .. i - 1 : d[k] = e[k]
      /\ \A k \in i + 1 .. Len(d) : d[k] = e[k + 1]
  BY <1>1, <1>2
<1>4. e[i] = c[i]
  BY <1>1, <1>2
<1> QED
  BY <1>2, <1>3, <1>4 DEF Broken

\* A row that is inserted.
LEMMA InsertedRow ==
    ASSUME NEW c \in Seq(Rows), NEW j \in 1 .. Len(c) + 1, NEW r \in Rows
    PROVE  /\ InsertAt(c, j, r) \in Seq(Rows)
           /\ Without(InsertAt(c, j, r), j, c) /\ InsertAt(c, j, r)[j] = r
BY Inserted

\* c is d with its row i cut off, and r is the rest of that row.
CutOff(d, c, r, i) ==
    /\ Len(c) = Len(d) /\ \A k \in 1 .. Len(d) : k # i => c[k] = d[k]
    /\ d[i].kind = "row" /\ c[i].kind = "row" /\ c[i].meant = d[i].meant
    /\ r.kind = "tail" /\ r.meant = d[i].meant

\* The rest of a row, put below it.
LEMMA RestInserted ==
    ASSUME NEW d \in Seq(Rows), NEW c \in Seq(Rows), NEW i \in 1 .. Len(d), NEW r \in Rows,
           CutOff(d, c, r, i)
    PROVE  /\ InsertAt(c, i + 1, r) \in Seq(Rows) /\ Without(InsertAt(c, i + 1, r), i + 1, c)
           /\ InsertAt(c, i + 1, r)[i + 1] = r /\ Broken(d, InsertAt(c, i + 1, r), i)
<1> DEFINE j == i + 1
           e == InsertAt(c, j, r)
<1>1. e \in Seq(Rows) /\ Without(e, j, c) /\ e[j] = r
  <2>1. j \in 1 .. Len(c) + 1
    BY DEF CutOff
  <2> HIDE DEF j
  <2> QED
    BY <2>1, InsertedRow
<1> HIDE DEF e
<1>2. Broken(d, e, i)
  BY <1>1, RestBelow DEF CutOff
<1> QED
  BY <1>1, <1>2 DEF e

\* A row that is broken keeps the beginning of its name.
LEMMA RowBroken ==
    ASSUME NEW d \in Seq(Rows), NEW i \in 1 .. Len(d), d[i].kind = "row",
           NEW c, c = [d EXCEPT ![i].name = "x"],
           NEW r, r = [d[i] EXCEPT !.kind = "tail"]
    PROVE  /\ c \in Seq(Rows) /\ r \in Rows /\ CutOff(d, c, r, i)
           /\ c[i].name = "x" /\ c[i].joined = d[i].joined
           /\ r.name = d[i].name /\ r.joined = d[i].joined
<1> DEFINE x == "x"
           tail == "tail"
           g == [d[i] EXCEPT !.name = x]
<1>1. x \in Words /\ tail \in Words
  BY DEF Words
<1>2. d[i] \in Rows /\ i \in Nat /\ Len(d) \in Nat
  OBVIOUS
<1>3. c = [d EXCEPT ![i] = g] /\ r = [d[i] EXCEPT !.kind = tail]
  OBVIOUS
<1> HIDE DEF x, tail
<1>4. /\ r \in Rows /\ r.kind = tail /\ r.meant = d[i].meant /\ r.name = d[i].name
      /\ r.joined = d[i].joined
  BY <1>1, <1>2, <1>3 DEF Rows
<1>5. g \in Rows /\ g.name = x /\ g.kind = "row" /\ g.meant = d[i].meant /\ g.joined = d[i].joined
  BY <1>1, <1>2 DEF Rows
<1> HIDE DEF g
<1>6. /\ c \in Seq(Rows) /\ Len(c) = Len(d) /\ c[i] = g
      /\ \A k \in 1 .. Len(d) : k # i => c[k] = d[k]
  BY <1>2, <1>3, <1>5
<1>7. CutOff(d, c, r, i)
  BY <1>4, <1>5, <1>6 DEF CutOff, tail
<1> QED
  BY <1>4, <1>5, <1>6, <1>7 DEF x

\* Every drift leaves documents that differ as its kind says.
LEMMA DriftShows ==
    ASSUME DInv, Drift
    PROVE  \E kind \in Drifts : \E rows : Extract(kind, rows) /\ Drifted(kind, reviewed, rows)
<1>1. reviewed # None /\ reviewed \in Seq(Rows)
  BY DEF Drift, DInv
<1> DEFINE d == reviewed
<1>2. PICK i \in 1 .. Len(d) :
          \/ LoseRow(i) \/ RepeatRow(i) \/ ExchangeRows(i) \/ BreakRow(i)
          \/ \E f \in Fields : LoseCell(i, f) \/ GarbleCell(i, f)
  BY <1>1 DEF Drift
<1>3. d[i] \in Rows /\ i \in Nat /\ d \in Seq(Rows)
  BY <1>1
<1>4. /\ "lose" \notin Fields /\ "repeat" \notin Fields /\ "break" \notin Fields /\ "exchange" \notin Fields
      /\ \A f \in Fields : f \notin {"lose", "repeat", "break", "exchange"}
  BY DEF Fields
<1>5. CASE LoseRow(i)
  <2> DEFINE e == RemoveAt(d, i)
  <2>1. e \in Seq(Rows) /\ Without(d, i, e)
    BY <1>3, Removed
  <2>2. Extract("lose", e)
    BY <1>5 DEF LoseRow
  <2> HIDE DEF e, d
  <2>3. Drifted("lose", d, e)
    BY <1>4, <2>1 DEF Drifted, OneRowApart
  <2> QED
    BY <2>2, <2>3 DEF Drifts, d
<1>6. CASE RepeatRow(i)
  <2> DEFINE e == InsertAt(d, i, d[i])
  <2>1. e \in Seq(Rows) /\ Without(e, i, d)
    BY <1>3, Inserted
  <2>2. Extract("repeat", e)
    BY <1>6 DEF RepeatRow
  <2>3. i \in 1 .. Len(e)
    BY <1>3, <2>1 DEF Without
  <2> HIDE DEF e, d
  <2>4. Drifted("repeat", d, e)
    BY <1>4, <2>1, <2>3 DEF Drifted, OneRowApart
  <2> QED
    BY <2>2, <2>4 DEF Drifts, d
<1>7. CASE BreakRow(i)
  <2> DEFINE j == i + 1
             c == [d EXCEPT ![i].name = "x"]
             r == [d[i] EXCEPT !.kind = "tail"]
             e == InsertAt(c, j, r)
  <2>1. extracted' = e /\ Extract("break", e) /\ d[i].kind = "row"
    BY <1>7 DEF BreakRow, Extract
  <2>2. e \in Seq(Rows) /\ Broken(d, e, i)
    <3>1. c = [d EXCEPT ![i].name = "x"] /\ r = [d[i] EXCEPT !.kind = "tail"] /\ e = InsertAt(c, i + 1, r)
      OBVIOUS
    <3> HIDE DEF c, r, e, d
    <3>2. i \in 1 .. Len(d) /\ d \in Seq(Rows) /\ d[i].kind = "row"
      BY <1>3, <2>1
    <3>3. c \in Seq(Rows) /\ r \in Rows /\ CutOff(d, c, r, i)
      BY <3>1, <3>2, RowBroken
    <3>4. InsertAt(c, i + 1, r) \in Seq(Rows) /\ Broken(d, InsertAt(c, i + 1, r), i)
      BY <3>2, <3>3, RestInserted
    <3> QED
      BY <3>1, <3>4, Zenon
  <2> HIDE DEF e, d
  <2>3. Drifted("break", d, e)
    BY <1>3, <1>4, <2>2 DEF Drifted
  <2> QED
    BY <2>1, <2>3 DEF Drifts, d
<1>8. CASE ExchangeRows(i)
  <2> DEFINE j == i + 1
             e == [d EXCEPT ![i] = d[j], ![j] = d[i]]
  <2>1. Extract("exchange", e) /\ j \in 1 .. Len(d)
    BY <1>3, <1>8 DEF ExchangeRows
  <2>2. d[j] \in Rows /\ j # i
    BY <1>3, <2>1
  <2>3. e \in Seq(Rows) /\ Len(e) = Len(d)
    BY <1>3, <2>1, <2>2
  <2>4. AfterExchange(d, e, i, j)
    <3>1. e[i] = d[j] /\ e[j] = d[i] /\ \A k \in 1 .. Len(d) : k # i /\ k # j => d[k] = e[k]
      BY <1>3, <2>1, <2>2
    <3> QED
      BY <2>1, <3>1 DEF AfterExchange
  <2> HIDE DEF e, j, d
  <2>5. Drifted("exchange", d, e)
    BY <1>4, <2>1, <2>3, <2>4 DEF Drifted, Swapped
  <2> QED
    BY <2>1, <2>5 DEF Drifts, d
<1>9. ASSUME NEW f \in Fields, LoseCell(i, f) \/ GarbleCell(i, f)
      PROVE  \E kind \in Drifts : \E rows : Extract(kind, rows) /\ Drifted(kind, reviewed, rows)
  <2>1. PICK c \in {Blank, "x"} : Extract(f, [d EXCEPT ![i][f] = c])
    BY <1>9 DEF LoseCell, GarbleCell
  <2> DEFINE r == [d[i] EXCEPT ![f] = c]
             e == [d EXCEPT ![i] = r]
  <2>2. r \in Rows /\ DifferIn(d[i], r, f) /\ d[i].kind = "row" /\ r.kind = "row"
    <3>1. c \in Words
      BY DEF Words
    <3>2. d[i].kind = "row"
      BY <1>9 DEF LoseCell, GarbleCell
    <3> QED
      BY <1>3, <3>1, <3>2 DEF Rows, Fields, DifferIn
  <2>3. Extract(f, e)
    BY <2>1
  <2> HIDE DEF r
  <2>4. e \in Seq(Rows) /\ Len(e) = Len(d) /\ e[i] = r /\ \A k \in 1 .. Len(d) : k # i => d[k] = e[k]
    BY <1>3, <2>2
  <2> HIDE DEF e, d
  <2>5. Drifted(f, d, e)
    BY <1>4, <2>2, <2>4 DEF Drifted, OneCellApart
  <2> QED
    BY <2>3, <2>5 DEF Drifts, d
<1> QED
  BY <1>2, <1>5, <1>6, <1>7, <1>8, <1>9

\* Every step keeps that.
LEMMA DriftedReviewed ==
    ASSUME IInv, DInv, [Next]_vars
    PROVE  DInv'
<1>1. ASSUME NEW d \in Documents(description), Review(d)
      PROVE  DInv'
  <2>1. d \in Seq(Rows)
    BY DocumentsAreRows DEF DInv, Described
  <2>2. Numbered(d) \in Seq(Rows)
    BY <2>1, NumberedRows
  <2>3. /\ reviewed = None /\ reviewed' = Numbered(d)
        /\ UNCHANGED <<description, drift, result>>
    BY <1>1 DEF Review, RecordReview, RecordFindings, Record
  <2>4. drift = None /\ result = None
    BY <2>3 DEF DInv
  <2> QED
    BY <2>2, <2>3, <2>4 DEF DInv, Described
<1>2. CASE Drift
  <2>1. PICK kind \in Drifts : \E rows : Extract(kind, rows) /\ Drifted(kind, reviewed, rows)
    BY <1>2, DriftShows
  <2>3. PICK rows : Extract(kind, rows) /\ Drifted(kind, reviewed, rows)
    BY <2>1
  <2>2. /\ reviewed # None /\ result = None /\ drift' = kind /\ extracted' = rows
        /\ UNCHANGED <<description, reviewed, recorded, result>>
    BY <2>3 DEF Extract
  <2> QED
    BY <2>2, <2>3 DEF DInv, Described
<1>3. CASE Parse
  BY <1>3 DEF Parse, DInv, Described
<1>4. CASE UNCHANGED vars
  BY <1>4 DEF vars, DInv, Described
<1> QED
  BY <1>1, <1>2, <1>3, <1>4 DEF Next

\* What an accepted reading and its review have in common.
Known == RowsTaken(description, reviewed)
Reading == Interpreted(description, extracted, Known)

\* What is accepted agrees with the review in all that the parser compares.
LEMMA AcceptedReading ==
    ASSUME IInv, DInv, Accepted
    PROVE  /\ reviewed # None
           /\ Interpreting = Interpreted(description, reviewed, Known)
           /\ Interpreting.ok /\ Reading.ok
           /\ AsRecorded(description, Findings(description, Reading), Findings(description, Interpreting))
           /\ recorded.rows = Interpreting.rows
           /\ result.rows = Reading.rows
<1> DEFINE p == description
           x == Interpreting
           y == Reading
           found == Findings(p, x)
<1>1. reviewed # None /\ result = Parsed(p, extracted, recorded) /\ result.ok
  BY DEF Accepted, DInv
<1>2. x.ok /\ recorded = [taken |-> Known, rows |-> x.rows, findings |-> found]
  BY <1>1 DEF IInv, ReviewWritten, Known
<1>3. x = Interpreted(p, reviewed, Known)
  BY DEF Interpreting, Known
<1> HIDE DEF x, found
<1>4. recorded.taken = Known /\ recorded.rows = x.rows /\ recorded.findings = found
  BY <1>2
<1>5. y = Interpreted(p, extracted, recorded.taken)
  BY <1>4, Zenon DEF Reading
<1> HIDE DEF y
<1>6. result = Judged(p, y, recorded)
  BY <1>1, <1>5, Zenon DEF Parsed
<1>7. y.ok /\ AsRecorded(p, Findings(p, y), found) /\ result.rows = y.rows
  <2>1. CASE y.ok /\ AsRecorded(p, Findings(p, y), recorded.findings)
    BY <1>4, <1>6, <2>1 DEF Judged
  <2>2. CASE ~(y.ok /\ AsRecorded(p, Findings(p, y), recorded.findings))
    BY <1>1, <1>6, <2>2 DEF Judged, Refused
  <2> QED
    BY <2>1, <2>2
<1> QED
  BY <1>1, <1>2, <1>3, <1>4, <1>7 DEF x, y, found

\* The review took rows.
LEMMA KnownRows ==
    ASSUME DInv, reviewed # None, ReadsAlone(description), ~description.sorted, Interpreting.ok
    PROVE  reviewed \in Seq(Rows) /\ Known \in Seq(Rows)
<1> DEFINE p == description
           d == reviewed
           w == Walk(p, d)
           s == Scanned(p, d)
<1>1. d \in Seq(Rows)
  BY DEF DInv
<1>2. ~s.refused
  BY DEF Interpreting, Interpreted, WithRepairs, WithCompletions, Interpretation
<1>3. Undisturbed(p, d, w) /\ s = w[Len(d)]
  BY <1>1, <1>2, UnrefusedIsUndisturbed
<1>4. Known = s.taken
  BY DEF Known, RowsTaken, Sorted
<1> HIDE DEF p, d, w, s
<1>5. s \in States
  BY <1>1, <1>3 DEF Undisturbed
<1> QED
  BY <1>1, <1>4, <1>5, TakenType DEF d

\* Parsers that take the dates of a row from that row, each from its own cell.
OwnCells(p) == ReadsAlone(p) /\ ~p.sorted /\ ~p.ordered /\ p.peers = "none" /\ CountsRows(p)

\* The property follows from the invariant: what differs is one cell of one row.
LEMMA OwnCellsAreLocal ==
    ASSUME IInv, DInv, OwnCells(description)
    PROVE  CellLossIsLocal
<1> DEFINE p == description
           a == reviewed
           b == extracted
           x == Interpreting
           y == Reading
<1> SUFFICES ASSUME Accepted, drift \in Fields
             PROVE  \E q : OneCell(recorded.rows, result.rows, q, drift)
  <2> DEFINE Differs(i) == {f \in Fields : result.rows[i][f] # recorded.rows[i][f]}
  <2>1. CASE Accepted /\ drift \in Fields
    <3>1. PICK q : OneCell(recorded.rows, result.rows, q, drift)
      BY <2>1
    <3>2. /\ DOMAIN result.rows = DOMAIN recorded.rows
          /\ \A i \in DOMAIN result.rows : \A g \in Differs(i) : i = q /\ g = drift
      BY <3>1 DEF OneCell
    <3> HIDE DEF Differs
    <3>3. /\ \A i, j \in DOMAIN result.rows : Differs(i) # {} /\ Differs(j) # {} => i = j
          /\ \A i \in DOMAIN result.rows : Differs(i) \subseteq {drift}
      BY <3>2
    <3> QED
      BY <3>2, <3>3 DEF CellLossIsLocal, Differs
  <2>2. CASE ~(Accepted /\ drift \in Fields)
    BY <2>2 DEF CellLossIsLocal
  <2> QED
    BY <2>1, <2>2
<1>1. /\ a # None /\ x = Interpreted(p, a, Known) /\ y = Interpreted(p, b, Known) /\ x.ok /\ y.ok
      /\ AsRecorded(p, Findings(p, y), Findings(p, x))
      /\ recorded.rows = x.rows /\ result.rows = y.rows
  BY AcceptedReading DEF Reading
<1>2. a \in Seq(Rows) /\ Known \in Seq(Rows)
  BY <1>1, KnownRows DEF OwnCells
<1>3. b \in Seq(Rows) /\ OneCellApart(a, b, drift)
  <2>1. drift # None
    BY NoneIsNoDrift DEF Drifts
  <2> QED
    BY <2>1 DEF DInv, Drifted
<1>4. ReadsAlone(p) /\ ~p.sorted /\ ~p.ordered /\ p.peers = "none" /\ CountsRows(p)
  BY DEF OwnCells
<1> HIDE DEF p, a, b, x, y
<1>5. PICK i \in 1 .. Len(a) : /\ \A k \in 1 .. Len(a) : k # i => a[k] = b[k]
                               /\ a[i].kind = "row" /\ b[i].kind = "row" /\ DifferIn(a[i], b[i], drift)
  BY <1>3 DEF OneCellApart
<1>6. Len(b) = Len(a)
  BY <1>3 DEF OneCellApart
<1>7. \E q : OneCell(x.rows, y.rows, q, drift)
  BY <1>1, <1>2, <1>3, <1>4, <1>5, <1>6, CellUnseen
<1> QED
  BY <1>1, <1>7

----------------------------------------------------------------------------
\* Text and names on their rows.

\* Parsers that join no text to rows.
Apart(p) == p.joins = {} /\ p.flows = {}

\* Parsers that take every row or stop, and join text to the row above it.
Whole(p) == "lead" \notin p.joins /\ p.flows = {} /\ p.skipped = {} /\ p.dropped = {}

\* s has become t: it has the same rows,
SameRows(t, s) ==
    Len(t.taken) = Len(s.taken) /\ \A i \in 1 .. Len(s.taken) : t.taken[i] = s.taken[i]

\* one row more,
Grown(t, s, q) ==
    /\ Len(t.taken) = Len(s.taken) + 1
    /\ \A i \in 1 .. Len(s.taken) : t.taken[i] = s.taken[i]
    /\ t.taken[Len(s.taken) + 1].name = q.name /\ t.taken[Len(s.taken) + 1].meant = q.meant
    /\ t.taken[Len(s.taken) + 1].joined = q.joined

\* or text at the last row.
Extended(t, s, r) ==
    /\ Len(s.taken) \in Nat \ {0} /\ Len(t.taken) = Len(s.taken)
    /\ \A i \in 1 .. Len(s.taken) - 1 : t.taken[i] = s.taken[i]
    /\ t.taken[Len(s.taken)].name = s.taken[Len(s.taken)].name
    /\ t.taken[Len(s.taken)].meant = s.taken[Len(s.taken)].meant
    /\ t.taken[Len(s.taken)].joined = Append(s.taken[Len(s.taken)].joined, r.meant)
    /\ s.taken[Len(s.taken)].joined \in Seq(Words)

\* A parser reads the name of a row as it is printed.
LEMMA ReadsName ==
    ASSUME NEW p, NEW section, NEW r \in Rows, NEW q, q = ReadAlone(p, section, r)
    PROVE  q.name = r.name /\ q.meant = r.meant /\ q.joined = r.joined
<1> DEFINE u == IF p.under = "heading" THEN [r EXCEPT !.section = section] ELSE r
<1>1. /\ u.name = r.name /\ u.meant = r.meant /\ u.joined = r.joined
      /\ u = [kind |-> u.kind, page |-> u.page, no |-> u.no, name |-> u.name, id |-> u.id, from |-> u.from,
              to |-> u.to, note |-> u.note, section |-> u.section, meant |-> u.meant, joined |-> u.joined]
  BY DEF Rows
<1>2. q = IF p.ordered /\ u.from = Blank THEN [u EXCEPT !.from = u.to, !.to = Blank] ELSE u
  BY DEF ReadAlone, InOrder
<1> HIDE DEF u
<1> QED
  BY <1>1, <1>2

\* Text joins the last row, or is passed over.
LEMMA TextExtends ==
    ASSUME NEW p, "lead" \notin p.joins, NEW s \in States, ~s.refused, NEW r \in Rows,
           NEW t, t = Text(p, s, r), ~t.refused
    PROVE  t.held = s.held /\ (SameRows(t, s) \/ Extended(t, s, r))
<1>1. CASE s.taken # <<>>
  <2> DEFINE k == Len(s.taken)
             joined == Append(s.taken[k].joined, r.meant)
             q == [s.taken[k] EXCEPT !.joined = joined]
             taken == [s.taken EXCEPT ![k] = q]
  <2>1. s.taken \in Seq(Rows) /\ k \in 1 .. Len(s.taken) /\ k \in Nat \ {0}
    BY <1>1, EmptySeq DEF States
  <2>7. s.taken[k].joined \in Seq(Words)
    <3>1. s.taken[k] \in Rows
      BY <2>1
    <3>2. \A x \in Rows : x.joined \in Seq(Words)
      BY DEF Rows
    <3> QED
      BY <3>1, <3>2
  <2>2. t = Join(s, r)
    BY <1>1 DEF Text
  <2>3. t = [s EXCEPT !.taken = taken, !.fragments = s.fragments + 1]
    BY <2>2 DEF Join
  <2> HIDE DEF joined
  <2>4. q.name = s.taken[k].name /\ q.meant = s.taken[k].meant /\ q.joined = joined
    BY <2>1 DEF Rows
  <2> HIDE DEF q
  <2>5. Len(taken) = k /\ taken[k] = q /\ \A i \in 1 .. k - 1 : taken[i] = s.taken[i]
    BY <2>1
  <2> HIDE DEF taken
  <2>6. t.taken = taken /\ t.held = s.held
    BY <2>3 DEF States
  <2> QED
    BY <2>1, <2>4, <2>5, <2>6, <2>7 DEF Extended, joined
<1>2. CASE s.taken = <<>>
  <2>1. t = s \/ t = Refuse(s)
    BY <1>2 DEF Text
  <2>2. t = s
    BY <2>1 DEF Refuse, States
  <2> QED
    BY <2>2 DEF SameRows
<1> QED
  BY <1>1, <1>2

\* What a row does to the rows that were taken.
LEMMA ScanTells ==
    ASSUME NEW p, ReadsAlone(p), "lead" \notin p.joins, p.flows = {},
           NEW s \in States, ~s.refused, s.held = <<>>, NEW document, NEW at \in Nat, NEW r \in Rows,
           NEW t, t = Scan(p, s, document, at, r), ~t.refused
    PROVE  /\ t.held = <<>>
           /\ \/ SameRows(t, s) /\ (r.kind = "row" => p.skipped # {} \/ p.dropped # {})
              \/ r.kind = "row" /\ Grown(t, s, r)
              \/ r.kind = "tail" /\ p.joins # {} /\ Extended(t, s, r)
<1>1. CASE r.kind = "row"
  <2> DEFINE read == ReadAlone(p, s.section, r)
             faults == Faults(read)
  <2>1. t = Enter(p, s, r, read, faults) /\ read \in Rows /\ Carries(p, s, r) = FALSE
    BY <1>1, ReadsOnlyItself DEF Scan, Company, EnterAsRead
  <2>2. read.name = r.name /\ read.meant = r.meant /\ read.joined = r.joined
    BY ReadsName
  <2> HIDE DEF read, faults
  <2>3. CASE faults \cap p.skipped # {}
    <3>1. t = [s EXCEPT !.open = FALSE]
      BY <2>1, <2>3 DEF Enter
    <3>2. t.held = s.held /\ t.taken = s.taken /\ p.skipped # {}
      BY <2>3, <3>1 DEF States
    <3> QED
      BY <3>2 DEF SameRows
  <2>4. CASE faults \cap p.skipped = {} /\ faults \cap p.dropped # {}
    <3>1. t = [s EXCEPT !.left = @ + 1, !.open = FALSE]
      BY <2>1, <2>4 DEF Enter
    <3>2. t.held = s.held /\ t.taken = s.taken /\ p.dropped # {}
      BY <2>4, <3>1 DEF States
    <3> QED
      BY <3>2 DEF SameRows
  <2>5. CASE faults \cap p.skipped = {} /\ faults \cap p.dropped = {} /\ faults \cap p.refused # {}
    <3>1. t = Refuse(s)
      BY <2>1, <2>5 DEF Enter
    <3> QED
      BY <3>1 DEF States, Refuse
  <2>6. CASE faults \cap p.skipped = {} /\ faults \cap p.dropped = {} /\ faults \cap p.refused = {}
    <3> DEFINE u == [s EXCEPT !.carried = @ + 0]
               q == [read EXCEPT !.joined = u.held \o @]
    <3>1. t = Take(u, read)
      BY <2>1, <2>6 DEF Enter
    <3>2. u.held = <<>> /\ u.taken = s.taken /\ s.taken \in Seq(Rows)
          /\ u = [refused |-> u.refused, section |-> u.section, held |-> u.held, taken |-> u.taken,
                  open |-> u.open, layout |-> u.layout, left |-> u.left, carried |-> u.carried,
                  completed |-> u.completed, fragments |-> u.fragments]
      BY DEF States
    <3>7. read.joined \in Seq(Words)
      BY <2>1 DEF Rows
    <3>8. u.held \o read.joined = read.joined
      BY <3>2, <3>7, ConcatEmptySeq
    <3>3. q.name = r.name /\ q.meant = r.meant /\ q.joined = r.joined
      BY <2>1, <2>2, <3>8 DEF Rows
    <3> HIDE DEF u
    <3>4. t = [u EXCEPT !.taken = Append(u.taken, q), !.held = <<>>, !.open = TRUE]
      BY <3>1 DEF Take
    <3> HIDE DEF q
    <3>5. t.held = <<>> /\ t.taken = Append(s.taken, q)
      BY <3>2, <3>4
    <3>6. /\ Len(t.taken) = Len(s.taken) + 1 /\ t.taken[Len(s.taken) + 1] = q
          /\ \A i \in 1 .. Len(s.taken) : t.taken[i] = s.taken[i]
      BY <3>2, <3>5
    <3> QED
      BY <1>1, <3>3, <3>5, <3>6 DEF Grown
  <2> QED
    BY <2>3, <2>4, <2>5, <2>6
<1>2. CASE r.kind # "row"
  <2>1. CASE Joins(p, s, r)
    <3>1. t = Text(p, s, r) /\ r.kind = "tail" /\ p.joins # {}
      BY <1>2, <2>1 DEF Scan, Joins
    <3>2. t.held = <<>> /\ (SameRows(t, s) \/ Extended(t, s, r))
      BY <3>1, TextExtends
    <3> QED
      BY <1>2, <3>1, <3>2
  <2>2. CASE ~Joins(p, s, r)
    <3> DEFINE h == PassOver(s, at, r)
               u == [h EXCEPT !.section = r.section]
    <3>1. t = u \/ t = h \/ t = Refuse(s)
      BY <1>2, <2>2 DEF Scan
    <3>2. h.held = s.held /\ h.taken = s.taken /\ h \in States
      <4>1. h.taken = s.taken /\ h \in States
        BY OtherRowsTakeNothing
      <4>2. h.held = s.held
        BY DEF PassOver, States
      <4> QED
        BY <4>1, <4>2
    <3> HIDE DEF h
    <3>3. u.held = s.held /\ u.taken = s.taken
      BY <3>2 DEF States
    <3> HIDE DEF u
    <3>4. t # Refuse(s)
      BY DEF Refuse, States
    <3>5. t.held = <<>> /\ t.taken = s.taken
      BY <3>1, <3>2, <3>3, <3>4
    <3> QED
      BY <1>2, <3>5 DEF SameRows
  <2> QED
    BY <2>1, <2>2
<1> QED
  BY <1>1, <1>2

\* What the page tells a parser that joins text to the row above it.
Tells(p, document) == Apart(p) \/ (Whole(p) /\ TextIsBelow(document))

\* The last row that was taken is the last row of the page.
LastTaken(s, document, n) ==
    \A k \in 1 .. n :
        document[k].kind = "row" /\ (\A l \in k + 1 .. n : document[l].kind # "row")
            => Len(s.taken) # 0 /\ s.taken[Len(s.taken)].meant = document[k].meant

\* Text that is joined to a row is of its company.
OwnText(r) == \A k \in DOMAIN r.joined : r.joined[k] = r.meant

\* What the first n rows of a document have told.
Told(p, document, s, n) ==
    /\ s.held = <<>>
    /\ \A i \in 1 .. Len(s.taken) : s.taken[i].name \in {s.taken[i].meant, Blank, "x"}
    /\ Tells(p, document) => \A i \in 1 .. Len(s.taken) : OwnText(s.taken[i])
    /\ Apart(p) => \A i \in 1 .. Len(s.taken) : s.taken[i].joined = <<>>
    /\ Whole(p) => LastTaken(s, document, n)

\* One more row of the page tells no lie.
LEMMA ScanIsTold ==
    ASSUME NEW p, ReadsAlone(p), "lead" \notin p.joins, p.flows = {},
           NEW document \in Seq(Rows), Printed(document), NEW n \in Nat, n + 1 <= Len(document),
           NEW s \in States, ~s.refused, Told(p, document, s, n),
           NEW t, t = Scan(p, s, document, n + 1, document[n + 1]), ~t.refused
    PROVE  Told(p, document, t, n + 1)
<1> DEFINE r == document[n + 1]
           m == Len(s.taken)
<1>1. r \in Rows /\ n + 1 \in Nat /\ n + 1 \in 1 .. Len(document) /\ s.held = <<>>
  BY DEF Told
<1>2. /\ t.held = <<>>
      /\ \/ SameRows(t, s) /\ (r.kind = "row" => p.skipped # {} \/ p.dropped # {})
         \/ r.kind = "row" /\ Grown(t, s, r)
         \/ r.kind = "tail" /\ p.joins # {} /\ Extended(t, s, r)
  <2> DEFINE at == n + 1
  <2>1. t = Scan(p, s, document, at, r) /\ at \in Nat
    OBVIOUS
  <2> HIDE DEF at, r
  <2> QED
    BY <1>1, <2>1, ScanTells
<1>3. r.name \in {r.meant, Blank, "x"} /\ r.joined = <<>>
  BY <1>1 DEF Printed
<1>4. m \in Nat
  BY TakenType
<1>5. ASSUME r.kind # "row", Whole(p), NEW k \in 1 .. n + 1,
             document[k].kind = "row", \A l \in k + 1 .. n + 1 : document[l].kind # "row"
      PROVE  m # 0 /\ s.taken[m].meant = document[k].meant
  <2>1. k \in 1 .. n /\ \A l \in k + 1 .. n : document[l].kind # "row"
    BY <1>5
  <2> QED
    BY <1>5, <2>1 DEF Told, LastTaken
<1>6. CASE SameRows(t, s) /\ (r.kind = "row" => p.skipped # {} \/ p.dropped # {})
  <2>1. Len(t.taken) = m /\ \A i \in 1 .. m : t.taken[i] = s.taken[i]
    BY <1>6 DEF SameRows
  <2>2. ASSUME Whole(p) PROVE LastTaken(t, document, n + 1)
    <3>1. r.kind # "row"
      BY <1>6, <2>2 DEF Whole
    <3>2. m # 0 => t.taken[m] = s.taken[m]
      BY <1>4, <2>1
    <3> QED
      BY <1>5, <2>1, <2>2, <3>1, <3>2 DEF LastTaken
  <2> QED
    BY <1>2, <2>1, <2>2 DEF Told
<1>7. CASE r.kind = "row" /\ Grown(t, s, r)
  <2>1. /\ Len(t.taken) = m + 1 /\ \A i \in 1 .. m : t.taken[i] = s.taken[i]
        /\ t.taken[m + 1].name = r.name /\ t.taken[m + 1].meant = r.meant /\ t.taken[m + 1].joined = r.joined
    BY <1>7 DEF Grown
  <2>2. LastTaken(t, document, n + 1)
    <3> SUFFICES ASSUME NEW k \in 1 .. n + 1, document[k].kind = "row",
                        \A l \in k + 1 .. n + 1 : document[l].kind # "row"
                 PROVE  Len(t.taken) # 0 /\ t.taken[Len(t.taken)].meant = document[k].meant
      BY DEF LastTaken
    <3>1. k = n + 1
      BY <1>7
    <3> QED
      BY <1>4, <2>1, <3>1
  <2>3. ASSUME NEW i \in 1 .. m + 1
        PROVE  /\ t.taken[i].name \in {t.taken[i].meant, Blank, "x"}
               /\ Tells(p, document) => OwnText(t.taken[i])
               /\ Apart(p) => t.taken[i].joined = <<>>
    <3>1. CASE i = m + 1
      BY <1>3, <2>1, <3>1 DEF OwnText
    <3>2. CASE i # m + 1
      <4>1. i \in 1 .. m /\ t.taken[i] = s.taken[i]
        BY <1>4, <2>1, <3>2
      <4> QED
        BY <4>1 DEF Told
    <3> QED
      BY <3>1, <3>2
  <2> QED
    BY <1>2, <2>1, <2>2, <2>3 DEF Told
<1>8. CASE r.kind = "tail" /\ p.joins # {} /\ Extended(t, s, r)
  <2>1. /\ m # 0 /\ Len(t.taken) = m /\ \A i \in 1 .. m - 1 : t.taken[i] = s.taken[i]
        /\ t.taken[m].name = s.taken[m].name /\ t.taken[m].meant = s.taken[m].meant
        /\ t.taken[m].joined = Append(s.taken[m].joined, r.meant) /\ s.taken[m].joined \in Seq(Words)
    BY <1>8 DEF Extended
  <2>2. ASSUME Whole(p) PROVE LastTaken(t, document, n + 1)
    BY <1>5, <1>8, <2>1, <2>2 DEF LastTaken
  <2>3. ASSUME Tells(p, document) PROVE r.meant = s.taken[m].meant
    <3>1. Whole(p) /\ TextIsBelow(document)
      BY <1>8, <2>3 DEF Tells, Apart
    <3>2. Below(document, n + 1)
      BY <1>1, <1>8, <3>1 DEF TextIsBelow
    <3>3. PICK j \in 1 .. n : /\ document[j].kind = "row" /\ document[j].meant = r.meant
                              /\ \A l \in j + 1 .. n : document[l].kind # "row"
      BY <3>2 DEF Below
    <3> QED
      BY <3>1, <3>3 DEF Told, LastTaken
  <2>4. ASSUME NEW i \in 1 .. m
        PROVE  /\ t.taken[i].name \in {t.taken[i].meant, Blank, "x"}
               /\ Tells(p, document) => OwnText(t.taken[i])
    <3>1. CASE i = m
      <4> DEFINE joined == s.taken[m].joined
      <4>1. t.taken[m].joined = Append(joined, r.meant) /\ joined \in Seq(Words) /\ m \in 1 .. m
        <5>1. m \in 1 .. m
          BY <1>4, <3>1
        <5> HIDE DEF m, r
        <5> QED
          BY <2>1, <5>1
      <4>2. Tells(p, document) => \A k \in DOMAIN joined : joined[k] = r.meant
        BY <2>3, <4>1 DEF Told, OwnText
      <4>3. s.taken[m].name \in {s.taken[m].meant, Blank, "x"}
        BY <4>1 DEF Told
      <4> HIDE DEF joined
      <4>4. \A k \in DOMAIN Append(joined, r.meant) :
               Append(joined, r.meant)[k] = r.meant \/ (k \in DOMAIN joined /\ Append(joined, r.meant)[k] = joined[k])
        BY <4>1
      <4> QED
        BY <2>1, <2>3, <3>1, <4>1, <4>2, <4>3, <4>4 DEF OwnText
    <3>2. CASE i # m
      <4>1. i \in 1 .. m - 1
        BY <1>4, <3>2
      <4> QED
        BY <2>1, <4>1 DEF Told
    <3> QED
      BY <3>1, <3>2
  <2>5. ~Apart(p)
    BY <1>8 DEF Apart
  <2> QED
    BY <1>2, <2>1, <2>2, <2>4, <2>5 DEF Told
<1> QED
  BY <1>2, <1>6, <1>7, <1>8

\* Nothing that a walk has taken is said of another company.
LEMMA WalkIsTold ==
    ASSUME NEW p, ReadsAlone(p), "lead" \notin p.joins, p.flows = {},
           NEW document \in Seq(Rows), Printed(document), ~Scanned(p, document).refused
    PROVE  \A n \in 0 .. Len(document) : Told(p, document, Walk(p, document)[n], n)
<1> DEFINE w == Walk(p, document)
           S == {n \in Nat : n <= Len(document) => Told(p, document, w[n], n)}
<1>1. 0 \in S
  <2>1. w[0] = Begin
    BY WalkSteps
  <2>2. Begin.held = <<>> /\ Begin.taken = <<>>
    BY DEF Begin
  <2> HIDE DEF w
  <2>3. Told(p, document, w[0], 0)
    BY <2>1, <2>2 DEF Told, LastTaken
  <2> QED
    BY <2>3
<1>2. /\ \A n \in 1 .. Len(document) : w[n] = Scan(p, w[n - 1], document, n, document[n])
      /\ \A n \in 0 .. Len(document) : w[n] \in States /\ ~w[n].refused
  BY WalkSteps, WalkTypes, UnrefusedIsUndisturbed
<1> HIDE DEF w
<1>3. ASSUME NEW n \in Nat, n \in S PROVE n + 1 \in S
  <2>1. CASE n + 1 <= Len(document)
    <3>1. /\ n \in 0 .. Len(document) /\ n + 1 \in 0 .. Len(document) /\ n + 1 \in 1 .. Len(document)
          /\ (n + 1) - 1 = n /\ Told(p, document, w[n], n)
      BY <1>3, <2>1
    <3>2. w[n + 1] = Scan(p, w[n], document, n + 1, document[n + 1])
      BY <1>2, <3>1
    <3>3. w[n] \in States /\ ~w[n].refused /\ ~w[n + 1].refused
      BY <1>2, <3>1
    <3>4. Told(p, document, w[n + 1], n + 1)
      BY <2>1, <3>1, <3>2, <3>3, ScanIsTold
    <3> QED
      BY <3>4
  <2> QED
    BY <2>1
<1>4. \A n \in Nat : n \in S
  <2> HIDE DEF S
  <2> QED
    BY <1>1, <1>3, NaturalsByInduction
<1> QED
  BY <1>4 DEF w

\* A parser that skips no row takes each.
LEMMA RowIsTaken ==
    ASSUME NEW p, ReadsAlone(p), Whole(p),
           NEW document \in Seq(Rows), Printed(document), ~Scanned(p, document).refused,
           NEW i \in 1 .. Len(document), document[i].kind = "row"
    PROVE  Len(Walk(p, document)[i].taken) = Len(Walk(p, document)[i - 1].taken) + 1
<1> DEFINE w == Walk(p, document)
<1>1. /\ w[i] = Scan(p, w[i - 1], document, i, document[i])
      /\ w[i - 1] \in States /\ ~w[i - 1].refused /\ ~w[i].refused
  BY WalkSteps, WalkTypes, UnrefusedIsUndisturbed
<1>2. "lead" \notin p.joins /\ p.flows = {} /\ p.skipped = {} /\ p.dropped = {}
  BY DEF Whole
<1>3. w[i - 1].held = <<>>
  <2>1. i - 1 \in 0 .. Len(document)
    OBVIOUS
  <2>2. Told(p, document, w[i - 1], i - 1)
    BY <1>2, <2>1, WalkIsTold
  <2> HIDE DEF w
  <2> QED
    BY <2>2 DEF Told
<1> HIDE DEF w
<1> DEFINE s == w[i - 1]
           t == w[i]
           r == document[i]
<1>4. /\ i \in Nat /\ r \in Rows /\ r.kind = "row"
      /\ t = Scan(p, s, document, i, r) /\ s \in States /\ ~s.refused /\ ~t.refused /\ s.held = <<>>
  BY <1>1, <1>3
<1> HIDE DEF s, t, r
<1>5. \/ SameRows(t, s) /\ (r.kind = "row" => p.skipped # {} \/ p.dropped # {})
      \/ r.kind = "row" /\ Grown(t, s, r)
      \/ r.kind = "tail" /\ p.joins # {} /\ Extended(t, s, r)
  BY <1>2, <1>4, ScanTells
<1>6. Grown(t, s, r)
  BY <1>2, <1>4, <1>5
<1> QED
  BY <1>6 DEF Grown, s, t, w

----------------------------------------------------------------------------
\* Legible documents.

\* Documents with the same companies in their rows have the same text below them.
LEMMA SamePage ==
    ASSUME NEW d, NEW e, Len(e) = Len(d),
           \A k \in 1 .. Len(d) : e[k].kind = d[k].kind /\ e[k].meant = d[k].meant,
           Len(d) \in Nat, TextIsBelow(d)
    PROVE  TextIsBelow(e)
<1> SUFFICES ASSUME NEW k \in 1 .. Len(d), e[k].kind = "tail"
             PROVE  Below(e, k)
  BY DEF TextIsBelow
<1>1. PICK j \in 1 .. k - 1 : /\ d[j].kind = "row" /\ d[j].meant = d[k].meant
                              /\ \A l \in j + 1 .. k - 1 : d[l].kind # "row"
  BY DEF TextIsBelow, Below
<1>2. e[j].kind = "row" /\ e[j].meant = e[k].meant
  BY <1>1
<1>3. \A l \in j + 1 .. k - 1 : e[l].kind # "row"
  BY <1>1
<1> QED
  BY <1>2, <1>3 DEF Below

\* A document stays legible when it is numbered.
LEMMA NumberedIsLegible ==
    ASSUME NEW d \in Seq(Rows), Printed(d), TextIsBelow(d)
    PROVE  Printed(Numbered(d)) /\ TextIsBelow(Numbered(d))
<1> DEFINE count(i) == Cardinality({j \in 1 .. i : d[j].kind = "row"})
           row(i) == [d[i] EXCEPT !.no = count(i)]
           e == Numbered(d)
<1>1. Numbered(d) = [i \in 1 .. Len(d) |-> row(i)] /\ Len(d) \in Nat
  BY DEF Numbered
<1>2. ASSUME NEW i \in 1 .. Len(d)
      PROVE  /\ row(i).kind = d[i].kind /\ row(i).meant = d[i].meant
             /\ row(i).name = d[i].name /\ row(i).joined = d[i].joined
  <2>1. d[i] \in Rows
    OBVIOUS
  <2> HIDE DEF count
  <2> QED
    BY <2>1 DEF Rows
<1> HIDE DEF row
<1>3. Len(e) = Len(d) /\ \A i \in 1 .. Len(d) : e[i] = row(i)
  BY <1>1
<1> HIDE DEF e
<1>4. TextIsBelow(e)
  BY <1>1, <1>2, <1>3, SamePage
<1>5. Printed(e)
  BY <1>2, <1>3 DEF Printed
<1> QED
  BY <1>4, <1>5 DEF e

\* Where a row of b stands in a, which has one row more.
Up(i, k) == IF k < i THEN k ELSE k + 1

\* Where the row that b lacks is not of a company, text is below its row in both or in
\* neither.
LEMMA BelowShifts ==
    ASSUME NEW a, NEW b, NEW i \in Nat \ {0}, Len(b) \in Nat, i <= Len(b) + 1, Without(a, i, b),
           a[i].kind # "row", NEW k \in 1 .. Len(b)
    PROVE  Below(a, Up(i, k)) <=> Below(b, k)
<1> DEFINE u(l) == Up(i, l)
           down(l) == IF l < i THEN l ELSE l - 1
<1>1. \A l \in 1 .. Len(b) : a[u(l)] = b[l]
  BY DEF Without, Up
<1>2. \A l \in Nat : u(l) \in Nat /\ u(l) # i /\ down(u(l)) = l
  BY DEF Up
<1>3. \A l, m \in Nat : l < m <=> u(l) < u(m)
  BY DEF Up
<1>4. \A l \in Nat \ {0, i} : down(l) \in Nat \ {0} /\ u(down(l)) = l
  BY DEF Up
<1>7. \A l \in Nat \ {0} : u(l) # 0
  BY DEF Up
<1> HIDE DEF u, down
<1>8. k \in Nat /\ u(k) \in Nat
  <2>1. k \in Nat
    OBVIOUS
  <2> QED
    BY <1>2, <2>1
<1>5. ASSUME Below(b, k) PROVE Below(a, u(k))
  <2>1. PICK j \in 1 .. k - 1 : /\ b[j].kind = "row" /\ b[j].meant = b[k].meant
                                /\ \A l \in j + 1 .. k - 1 : b[l].kind # "row"
    BY <1>5 DEF Below
  <2>2. u(j) \in 1 .. u(k) - 1
    <3>1. j \in Nat \ {0} /\ j < k
      BY <1>8
    <3>2. u(j) \in Nat /\ u(j) # 0 /\ u(j) < u(k)
      BY <1>2, <1>3, <1>7, <1>8, <3>1
    <3> QED
      BY <1>8, <3>2
  <2>3. a[u(j)].kind = "row" /\ a[u(j)].meant = a[u(k)].meant
    BY <1>1, <2>1
  <2>4. ASSUME NEW l \in u(j) + 1 .. u(k) - 1 PROVE a[l].kind # "row"
    <3>1. l \in Nat \ {0} /\ u(j) < l /\ l < u(k)
      BY <1>8, <2>2
    <3>2. CASE l = i
      BY <3>2
    <3>3. CASE l # i
      <4>1. down(l) \in Nat \ {0} /\ u(down(l)) = l
        BY <1>4, <3>1, <3>3
      <4>2. j < down(l) /\ down(l) < k
        BY <1>3, <3>1, <4>1
      <4>3. down(l) \in j + 1 .. k - 1 /\ down(l) \in 1 .. Len(b)
        BY <4>1, <4>2
      <4> QED
        BY <1>1, <2>1, <4>1, <4>3
    <3> QED
      BY <3>2, <3>3
  <2> QED
    BY <2>2, <2>3, <2>4 DEF Below
<1>6. ASSUME Below(a, u(k)) PROVE Below(b, k)
  <2>1. PICK j \in 1 .. u(k) - 1 : /\ a[j].kind = "row" /\ a[j].meant = a[u(k)].meant
                                   /\ \A l \in j + 1 .. u(k) - 1 : a[l].kind # "row"
    BY <1>6 DEF Below
  <2>2. j \in Nat \ {0, i} /\ j < u(k)
    <3>1. j \in Nat \ {0} /\ j < u(k)
      BY <1>8
    <3>2. j # i
      BY <2>1
    <3> QED
      BY <3>1, <3>2
  <2> DEFINE h == down(j)
  <2>3. h \in Nat \ {0} /\ u(h) = j
    BY <1>4, <2>2
  <2> HIDE DEF h
  <2>4. h \in 1 .. k - 1 /\ h \in 1 .. Len(b)
    BY <1>3, <2>2, <2>3
  <2>5. b[h].kind = "row" /\ b[h].meant = b[k].meant
    BY <1>1, <2>1, <2>3, <2>4
  <2>6. ASSUME NEW l \in h + 1 .. k - 1 PROVE b[l].kind # "row"
    <3>1. l \in Nat /\ h < l /\ l < k /\ l \in 1 .. Len(b)
      BY <2>4
    <3>2. u(h) < u(l) /\ u(l) < u(k)
      BY <1>3, <2>3, <3>1
    <3>4. j \in Nat /\ u(l) \in Nat /\ j < u(l)
      BY <1>2, <2>3, <3>1, <3>2
    <3>3. u(l) \in j + 1 .. u(k) - 1
      BY <1>8, <3>2, <3>4
    <3> QED
      BY <1>1, <2>1, <3>1, <3>3
  <2> QED
    BY <2>4, <2>5, <2>6 DEF Below
<1> QED
  BY <1>5, <1>6 DEF u

\* One row more or less that is not of a company leaves text below its row.
LEMMA TextStaysBelow ==
    ASSUME NEW a \in Seq(Rows), NEW b \in Seq(Rows), NEW i \in 1 .. Len(a), Without(a, i, b),
           a[i].kind # "row"
    PROVE  /\ TextIsBelow(a) => TextIsBelow(b)
           /\ TextIsBelow(b) /\ (a[i].kind = "tail" => Below(a, i)) => TextIsBelow(a)
<1>1. i \in Nat \ {0} /\ Len(b) \in Nat /\ i <= Len(b) + 1 /\ Len(a) = Len(b) + 1
  BY DEF Without
<1>2. \A k \in 1 .. Len(b) : a[Up(i, k)] = b[k] /\ Up(i, k) \in 1 .. Len(a)
  BY <1>1 DEF Without, Up
<1>3. \A k \in 1 .. Len(b) : Below(a, Up(i, k)) <=> Below(b, k)
  BY <1>1, BelowShifts
<1>4. ASSUME TextIsBelow(a) PROVE TextIsBelow(b)
  BY <1>2, <1>3, <1>4 DEF TextIsBelow
<1>5. ASSUME TextIsBelow(b), a[i].kind = "tail" => Below(a, i), NEW k \in 1 .. Len(a), a[k].kind = "tail"
      PROVE  Below(a, k)
  <2>1. CASE k = i
    BY <1>5, <2>1
  <2>2. CASE k # i
    <3>1. PICK l \in 1 .. Len(b) : Up(i, l) = k
      <4>1. CASE k < i
        <5>1. k \in 1 .. Len(b) /\ Up(i, k) = k
          BY <1>1, <4>1 DEF Up
        <5> QED
          BY <5>1
      <4>2. CASE i < k
        <5>1. k - 1 \in 1 .. Len(b) /\ Up(i, k - 1) = k
          BY <1>1, <4>2 DEF Up
        <5> QED
          BY <5>1
      <4> QED
        BY <1>1, <2>2, <4>1, <4>2
    <3> QED
      BY <1>2, <1>3, <1>5, <3>1 DEF TextIsBelow
  <2> QED
    BY <2>1, <2>2
<1> QED
  BY <1>4, <1>5 DEF TextIsBelow

\* A row is as it is printed.
AsPrinted(r) == r.name \in {r.meant, Blank, "x"} /\ r.joined = <<>>

\* One row more or less.
LEMMA PrintedStays ==
    ASSUME NEW a \in Seq(Rows), NEW b \in Seq(Rows), NEW i \in 1 .. Len(a), Without(a, i, b)
    PROVE  /\ Printed(a) => Printed(b)
           /\ Printed(b) /\ AsPrinted(a[i]) => Printed(a)
<1>1. i \in Nat \ {0} /\ Len(b) \in Nat /\ i <= Len(b) + 1 /\ Len(a) = Len(b) + 1
  BY DEF Without
<1>2. \A k \in 1 .. Len(b) : a[Up(i, k)] = b[k] /\ Up(i, k) \in 1 .. Len(a)
  BY <1>1 DEF Without, Up
<1>3. \A d : Printed(d) <=> \A k \in 1 .. Len(d) : AsPrinted(d[k])
  BY DEF Printed, AsPrinted
<1>4. Printed(a) => Printed(b)
  BY <1>2, <1>3
<1>5. ASSUME Printed(b), AsPrinted(a[i]), NEW k \in 1 .. Len(a)
      PROVE  AsPrinted(a[k])
  <2>1. CASE k < i
    <3>1. k \in 1 .. Len(b) /\ Up(i, k) = k
      BY <1>1, <2>1 DEF Up
    <3> QED
      BY <1>2, <1>3, <1>5, <3>1
  <2>2. CASE i < k
    <3>1. k - 1 \in 1 .. Len(b) /\ Up(i, k - 1) = k
      BY <1>1, <2>2 DEF Up
    <3> QED
      BY <1>2, <1>3, <1>5, <3>1
  <2>3. CASE k = i
    BY <1>5, <2>3
  <2> QED
    BY <1>1, <2>1, <2>2, <2>3
<1> QED
  BY <1>3, <1>4, <1>5

\* A company's row is lost, or there is one more.
CompanyApart(d, e) ==
    \/ \E i \in 1 .. Len(d) : Without(d, i, e) /\ d[i].kind = "row"
    \/ \E i \in 1 .. Len(e) : Without(e, i, d) /\ e[i].kind = "row"

\* What a drift of this kind leaves legible.
Legible(kind, d, e) ==
    /\ Printed(e)
    /\ kind \in {"lose", "repeat"} => TextIsBelow(e) \/ CompanyApart(d, e)
    /\ kind = "break" => TextIsBelow(e)
    /\ kind \in Fields => TextIsBelow(e) /\ \A k \in 1 .. Len(d) : d[k].meant = e[k].meant

\* Documents are legible at the review, and as legible as the drift leaves them after it.
LInv ==
    /\ reviewed # None => Printed(reviewed) /\ TextIsBelow(reviewed)
    /\ drift # None => Legible(drift, reviewed, extracted)

\* No drift changes what a row means, and what is printed is lost or garbled at most.
LEMMA DriftIsLegible ==
    ASSUME DInv, LInv, Drift
    PROVE  Legible(drift', reviewed, extracted')
<1>1. reviewed # None /\ reviewed \in Seq(Rows) /\ Printed(reviewed) /\ TextIsBelow(reviewed)
  BY DEF Drift, DInv, LInv
<1> DEFINE d == reviewed
<1>2. PICK i \in 1 .. Len(d) :
          \/ LoseRow(i) \/ RepeatRow(i) \/ ExchangeRows(i) \/ BreakRow(i)
          \/ \E f \in Fields : LoseCell(i, f) \/ GarbleCell(i, f)
  BY <1>1 DEF Drift
<1>3. d[i] \in Rows /\ i \in Nat /\ d \in Seq(Rows) /\ AsPrinted(d[i])
  BY <1>1 DEF Printed, AsPrinted
<1>4. /\ "lose" \notin Fields /\ "repeat" \notin Fields /\ "break" \notin Fields /\ "exchange" \notin Fields
      /\ \A f \in Fields : f \notin {"lose", "repeat", "break", "exchange"}
  BY DEF Fields
<1>5. CASE LoseRow(i)
  <2> DEFINE e == RemoveAt(d, i)
  <2>1. e \in Seq(Rows) /\ Without(d, i, e)
    BY <1>3, Removed
  <2>2. extracted' = e /\ drift' = "lose"
    BY <1>5 DEF LoseRow, Extract
  <2> HIDE DEF e, d
  <2>3. TextIsBelow(e) \/ CompanyApart(d, e)
    BY <1>1, <1>3, <2>1, TextStaysBelow DEF CompanyApart, d
  <2>4. Printed(e)
    BY <1>1, <1>3, <2>1, PrintedStays DEF d
  <2>5. Legible("lose", d, e)
    BY <1>4, <2>3, <2>4 DEF Legible
  <2> QED
    BY <2>2, <2>5 DEF d
<1>6. CASE RepeatRow(i)
  <2> DEFINE e == InsertAt(d, i, d[i])
  <2>1. e \in Seq(Rows) /\ Without(e, i, d) /\ e[i] = d[i]
    BY <1>3, Inserted
  <2>2. extracted' = e /\ drift' = "repeat"
    BY <1>6 DEF RepeatRow, Extract
  <2>3. i \in 1 .. Len(e) /\ \A k \in 1 .. i - 1 : e[k] = d[k]
    BY <1>3, <2>1 DEF Without
  <2> HIDE DEF e, d
  <2>4. e[i].kind = "tail" => Below(e, i)
    <3> SUFFICES ASSUME e[i].kind = "tail" PROVE Below(e, i)
      OBVIOUS
    <3>1. Below(d, i)
      BY <1>1, <1>3, <2>1 DEF TextIsBelow, d
    <3>2. PICK j \in 1 .. i - 1 : /\ d[j].kind = "row" /\ d[j].meant = d[i].meant
                                  /\ \A l \in j + 1 .. i - 1 : d[l].kind # "row"
      BY <3>1 DEF Below
    <3>3. \A l \in j + 1 .. i - 1 : e[l].kind # "row"
      BY <1>3, <2>3, <3>2
    <3> QED
      BY <2>1, <2>3, <3>2, <3>3 DEF Below
  <2>5. TextIsBelow(e) \/ CompanyApart(d, e)
    BY <1>1, <1>3, <2>1, <2>3, <2>4, TextStaysBelow DEF CompanyApart, d
  <2>6. Printed(e)
    BY <1>1, <1>3, <2>1, <2>3, PrintedStays DEF d
  <2>7. Legible("repeat", d, e)
    BY <1>4, <2>5, <2>6 DEF Legible
  <2> QED
    BY <2>2, <2>7 DEF d
<1>7. CASE BreakRow(i)
  <2> DEFINE c == [d EXCEPT ![i].name = "x"]
             r == [d[i] EXCEPT !.kind = "tail"]
             j == i + 1
             e == InsertAt(c, j, r)
  <2>2. extracted' = e /\ drift' = "break" /\ d[i].kind = "row"
    BY <1>7 DEF BreakRow, Extract
  <2>1. /\ c \in Seq(Rows) /\ Len(c) = Len(d) /\ \A k \in 1 .. Len(d) : k # i => c[k] = d[k]
        /\ c[i].name = "x" /\ c[i].kind = "row" /\ c[i].meant = d[i].meant /\ c[i].joined = d[i].joined
        /\ r.kind = "tail" /\ r.meant = d[i].meant /\ r.name = d[i].name /\ r.joined = d[i].joined
        /\ e \in Seq(Rows) /\ Without(e, j, c) /\ e[j] = r
    <3>1. /\ c = [d EXCEPT ![i].name = "x"] /\ r = [d[i] EXCEPT !.kind = "tail"]
          /\ j = i + 1 /\ e = InsertAt(c, j, r)
      OBVIOUS
    <3> HIDE DEF j, c, r, e, d
    <3>2. i \in 1 .. Len(d) /\ d \in Seq(Rows) /\ d[i].kind = "row"
      BY <1>3, <2>2
    <3>3. c \in Seq(Rows) /\ r \in Rows /\ CutOff(d, c, r, i)
      BY <3>1, <3>2, RowBroken
    <3>4. c[i].name = "x" /\ c[i].joined = d[i].joined
      BY <3>1, <3>2, RowBroken
    <3>5. r.name = d[i].name /\ r.joined = d[i].joined
      BY <3>1, <3>2, RowBroken
    <3>6. /\ InsertAt(c, i + 1, r) \in Seq(Rows) /\ Without(InsertAt(c, i + 1, r), i + 1, c)
          /\ InsertAt(c, i + 1, r)[i + 1] = r
      BY <3>2, <3>3, RestInserted
    <3>7. e \in Seq(Rows) /\ Without(e, j, c) /\ e[j] = r
      BY <3>1, <3>6, Zenon
    <3> QED
      BY <3>3, <3>7, <3>4, <3>5 DEF CutOff
  <2> HIDE DEF e, c, r, d
  <2>8. j \in 1 .. Len(e) /\ Len(d) \in Nat /\ \A k \in 1 .. i : e[k] = c[k]
    BY <1>3, <2>1 DEF Without
  <2>3. \A k \in 1 .. Len(d) : c[k].kind = d[k].kind /\ c[k].meant = d[k].meant
    BY <2>1, <2>2
  <2>4. TextIsBelow(c)
    BY <1>1, <2>1, <2>3, <2>8, SamePage DEF d
  <2>5. Printed(c)
    <3>1. /\ \A k \in 1 .. Len(d) : AsPrinted(d[k])
          /\ (\A k \in 1 .. Len(c) : AsPrinted(c[k])) => Printed(c)
      BY <1>1 DEF Printed, AsPrinted, d
    <3>2. AsPrinted(c[i])
      BY <1>3, <2>1 DEF AsPrinted
    <3> QED
      BY <2>1, <3>1, <3>2
  <2>6. Below(e, j)
    <3>1. i \in 1 .. j - 1 /\ \A l \in i + 1 .. j - 1 : e[l].kind # "row"
      BY <1>3
    <3>2. e[i].kind = "row" /\ e[i].meant = e[j].meant
      BY <1>3, <2>1, <2>8
    <3> QED
      BY <3>1, <3>2 DEF Below
  <2>7. AsPrinted(r)
    BY <1>3, <2>1 DEF AsPrinted
  <2> HIDE DEF j
  <2>9. TextIsBelow(e)
    BY <2>1, <2>4, <2>6, <2>8, TextStaysBelow
  <2>10. Printed(e)
    BY <2>1, <2>5, <2>7, <2>8, PrintedStays
  <2>11. Legible("break", d, e)
    BY <1>4, <2>9, <2>10 DEF Legible
  <2> QED
    BY <2>2, <2>11 DEF d
<1>8. CASE ExchangeRows(i)
  <2> DEFINE j == i + 1
             e == [d EXCEPT ![i] = d[j], ![j] = d[i]]
  <2>1. extracted' = e /\ drift' = "exchange" /\ j \in 1 .. Len(d)
    BY <1>3, <1>8 DEF ExchangeRows, Extract
  <2>2. Len(e) = Len(d) /\ \A k \in 1 .. Len(d) : \E l \in 1 .. Len(d) : e[k] = d[l]
    BY <1>3, <2>1
  <2> HIDE DEF e, j, d
  <2>3. Printed(e)
    <3>1. /\ \A k \in 1 .. Len(d) : AsPrinted(d[k])
          /\ (\A k \in 1 .. Len(e) : AsPrinted(e[k])) => Printed(e)
      BY <1>1 DEF Printed, AsPrinted, d
    <3> QED
      BY <2>2, <3>1
  <2>4. Legible("exchange", d, e)
    BY <1>4, <2>3 DEF Legible
  <2> QED
    BY <2>1, <2>4 DEF d
<1>9. ASSUME NEW f \in Fields, LoseCell(i, f) \/ GarbleCell(i, f)
      PROVE  Legible(drift', reviewed, extracted')
  <2>1. PICK c \in {Blank, "x"} : Extract(f, [d EXCEPT ![i][f] = c])
    BY <1>9 DEF LoseCell, GarbleCell
  <2> DEFINE r == [d[i] EXCEPT ![f] = c]
             e == [d EXCEPT ![i] = r]
  <2>2. r.kind = d[i].kind /\ r.meant = d[i].meant /\ r.joined = d[i].joined /\ r.name \in {d[i].name, Blank, "x"}
    BY <1>3 DEF Rows, Fields
  <2>6. AsPrinted(r)
    BY <1>3, <2>2 DEF AsPrinted
  <2>3. extracted' = e /\ drift' = f
    BY <2>1 DEF Extract
  <2> HIDE DEF r
  <2>4. Len(e) = Len(d) /\ e[i] = r /\ Len(d) \in Nat /\ \A k \in 1 .. Len(d) : k # i => d[k] = e[k]
    BY <1>3, <2>2
  <2> HIDE DEF e, d
  <2>5. \A k \in 1 .. Len(d) : e[k].kind = d[k].kind /\ e[k].meant = d[k].meant
    BY <2>2, <2>4
  <2>7. TextIsBelow(e)
    BY <1>1, <2>4, <2>5, SamePage DEF d
  <2>8. Printed(e)
    <3>1. \A k \in 1 .. Len(d) : AsPrinted(e[k])
      BY <1>1, <2>4, <2>6 DEF Printed, AsPrinted, d
    <3> QED
      BY <2>4, <3>1 DEF Printed, AsPrinted
  <2>9. Legible(f, d, e)
    BY <1>4, <2>5, <2>7, <2>8 DEF Legible
  <2> QED
    BY <2>3, <2>9 DEF d
<1> QED
  BY <1>2, <1>5, <1>6, <1>7, <1>8, <1>9

\* Every step leaves the documents legible.
LEMMA StaysLegible ==
    ASSUME IInv, DInv, LInv, [Next]_vars
    PROVE  LInv'
<1>1. ASSUME NEW d \in Documents(description), Review(d)
      PROVE  LInv'
  <2>1. d \in Seq(Rows) /\ Printed(d) /\ TextIsBelow(d)
    BY DocumentsAreRows, DocumentsAreLegible DEF DInv, Described
  <2>2. Printed(Numbered(d)) /\ TextIsBelow(Numbered(d))
    BY <2>1, NumberedIsLegible
  <2>3. /\ reviewed = None /\ reviewed' = Numbered(d)
        /\ UNCHANGED <<description, drift, result>>
    BY <1>1 DEF Review, RecordReview, RecordFindings, Record
  <2>4. drift = None
    BY <2>3 DEF DInv
  <2> QED
    BY <2>2, <2>3, <2>4 DEF LInv
<1>2. CASE Drift
  <2>1. Legible(drift', reviewed, extracted')
    BY <1>2, DriftIsLegible
  <2>2. reviewed # None /\ UNCHANGED reviewed
    BY <1>2 DEF Drift, LoseRow, RepeatRow, ExchangeRows, BreakRow, LoseCell, GarbleCell, Extract
  <2> QED
    BY <2>1, <2>2 DEF LInv
<1>3. CASE Parse
  BY <1>3 DEF Parse, LInv
<1>4. CASE UNCHANGED vars
  BY <1>4 DEF vars, LInv
<1> QED
  BY <1>1, <1>2, <1>3, <1>4 DEF Next

----------------------------------------------------------------------------
\* What is taken of them.

\* What the table shows of a row that was taken.
LEMMA TableShows ==
    ASSUME NEW p, NEW t \in Seq(Rows), NEW known, NEW i \in 1 .. Len(t)
    PROVE  /\ Table(p, t, known)[i].joined = t[i].joined /\ Table(p, t, known)[i].meant = t[i].meant
           /\ Table(p, t, known)[i].name = IF Reviewed(known, i, p.repaired \cup p.supplied)
                                             THEN known[i].meant ELSE t[i].name
<1> DEFINE fits == Reviewed(known, i, p.repaired \cup p.supplied)
           name == known[i].meant
           u == Repaired(p, t, known)
           r == IF fits THEN [t[i] EXCEPT !.name = name] ELSE t[i]
           completable == Completable(p, u)
           pair == CHOOSE x \in Peers(p, u, i) : TRUE
<1>1. i \in DOMAIN t /\ t[i] \in Rows
  OBVIOUS
<1>2. DOMAIN u = DOMAIN t /\ u[i] = r
  BY <1>1, Zenon DEF Repaired
<1> HIDE DEF fits, name
<1>3. /\ r.joined = t[i].joined /\ r.meant = t[i].meant /\ r.name = IF fits THEN name ELSE t[i].name
      /\ \A x, y : /\ [r EXCEPT !.from = x, !.to = y].joined = r.joined
                   /\ [r EXCEPT !.from = x, !.to = y].meant = r.meant
                   /\ [r EXCEPT !.from = x, !.to = y].name = r.name
  BY <1>1 DEF Rows
<1> HIDE DEF u, r, completable, pair
<1>4. Completed(p, u, completable)[i] = IF i \in completable THEN Dated(r, pair) ELSE r
  <2>1. Completed(p, u, completable)[i] = IF i \in completable THEN Dated(u[i], pair) ELSE u[i]
    BY <1>1, <1>2, Zenon DEF Completed, pair
  <2> QED
    BY <1>2, <2>1
<1>5. Table(p, t, known)[i] = Completed(p, u, completable)[i]
  BY DEF Table, u, completable
<1>6. \/ Table(p, t, known)[i] = r
      \/ \E x, y : Table(p, t, known)[i] = [r EXCEPT !.from = x, !.to = y]
  BY <1>4, <1>5 DEF Dated
<1> DEFINE q == Table(p, t, known)[i]
<1> HIDE DEF q
<1>7. q.joined = r.joined /\ q.meant = r.meant /\ q.name = r.name
  <2>1. CASE q = r
    BY <2>1
  <2>2. ASSUME NEW x, NEW y, q = [r EXCEPT !.from = x, !.to = y]
        PROVE  q.joined = r.joined /\ q.meant = r.meant /\ q.name = r.name
    BY <1>3, <2>2
  <2> QED
    BY <1>6, <2>1, <2>2 DEF q
<1> QED
  BY <1>3, <1>7 DEF fits, name, q

\* A document that was read, and the rows that were taken of it.
Took(p, document, known, x, s) ==
    /\ ~Scanned(p, document).refused
    /\ Undisturbed(p, document, Walk(p, document))
    /\ s = Walk(p, document)[Len(document)].taken /\ s \in Seq(Rows)
    /\ x.rows = Table(p, s, known) /\ DOMAIN x.rows = 1 .. Len(s)

\* A document that was interpreted was read to its end, and its repairs fit.
LEMMA InterpretedTook ==
    ASSUME NEW p, ReadsAlone(p), ~p.sorted, NEW document \in Seq(Rows), NEW known,
           NEW x, x = Interpreted(p, document, known), x.ok
    PROVE  /\ Took(p, document, known, x, Scanned(p, document).taken)
           /\ RepairsFit(p, Scanned(p, document).taken, known)
<1> DEFINE w == Walk(p, document)
           s == Scanned(p, document)
<1>1. ~s.refused /\ RepairsFit(p, s.taken, known)
  BY DEF Interpreted, WithRepairs, WithCompletions, Interpretation, RowsTaken, Sorted
<1>2. Undisturbed(p, document, w) /\ s = w[Len(document)]
  BY <1>1, UnrefusedIsUndisturbed
<1>3. x.rows = Table(p, s.taken, known)
  BY InterpretedTable
<1> HIDE DEF w, s
<1>4. s.taken \in Seq(Rows)
  BY <1>2, TakenType DEF Undisturbed
<1>5. DOMAIN x.rows = 1 .. Len(s.taken)
  BY <1>3, <1>4, TableType
<1> QED
  BY <1>1, <1>2, <1>3, <1>4, <1>5 DEF Took, s, w

\* Parsers whose text, if they join any, belongs to the row above it, whose rows are
\* counted, and to which the review supplies no name blindly.
Fitting(p) ==
    /\ ReadsAlone(p) /\ ~p.sorted /\ CountsRows(p) /\ p.supplied = {}
    /\ Apart(p) \/ Whole(p)
    /\ p.repaired = {} \/ p.under # "heading"

\* The companies of two rows that the review repaired can be told apart.
Tellable ==
    \A i, j \in 1 .. Len(Known) :
        Has(Known[i], description.repaired) /\ Cells(Known[i]) = Cells(Known[j])
            => Known[i].meant = Known[j].meant

\* What is taken of a legible document is what is printed there.
LEMMA TakenIsTold ==
    ASSUME NEW p, ReadsAlone(p), "lead" \notin p.joins, p.flows = {},
           NEW document \in Seq(Rows), Printed(document),
           NEW known, NEW x, NEW s, Took(p, document, known, x, s)
    PROVE  \A i \in 1 .. Len(s) :
              /\ s[i].name \in {s[i].meant, Blank, "x"}
              /\ Tells(p, document) => OwnText(s[i])
              /\ Apart(p) => s[i].joined = <<>>
<1> DEFINE w == Walk(p, document)
<1>1. ~Scanned(p, document).refused /\ s = w[Len(document)].taken
  BY DEF Took
<1>2. \A n \in 0 .. Len(document) : Told(p, document, w[n], n)
  BY <1>1, WalkIsTold
<1> HIDE DEF w
<1>3. Told(p, document, w[Len(document)], Len(document))
  <2>1. Len(document) \in 0 .. Len(document)
    OBVIOUS
  <2> QED
    BY <1>2, <2>1
<1> QED
  BY <1>1, <1>3 DEF Told

\* A parser that joins no text to rows takes rows without text.
LEMMA ApartFromText ==
    ASSUME NEW p, ReadsAlone(p), ~p.sorted, Apart(p), NEW document \in Seq(Rows), Printed(document),
           NEW known, NEW x, x = Interpreted(p, document, known), x.ok
    PROVE  \A i \in 1 .. Len(Scanned(p, document).taken) : Scanned(p, document).taken[i].joined = <<>>
<1>1. Took(p, document, known, x, Scanned(p, document).taken)
  BY InterpretedTook
<1>2. "lead" \notin p.joins /\ p.flows = {}
  BY DEF Apart
<1> QED
  BY <1>1, <1>2, TakenIsTold

\* A row more or less changes nothing that is taken, unless it is of a company and taken.
LEMMA RowUntaken ==
    ASSUME NEW p, ReadsAlone(p), NEW a \in Seq(Rows), NEW b \in Seq(Rows),
           NEW i \in 1 .. Len(a), Without(a, i, b), p.under # "heading" \/ a[i].kind # "section",
           NEW known, NEW x, NEW s, Took(p, a, known, x, s), NEW y, NEW t, Took(p, b, known, y, t),
           Len(s) = Len(t)
    PROVE  /\ SameTexts(s, t)
           /\ Whole(p) /\ Printed(a) => a[i].kind # "row"
<1> DEFINE v == Walk(p, a)
           w == Walk(p, b)
<1>1. /\ Undisturbed(p, a, v) /\ s = v[Len(a)].taken /\ ~Scanned(p, a).refused
      /\ Undisturbed(p, b, w) /\ t = w[Len(b)].taken /\ Len(s) \in Nat
  BY DEF Took
<1> HIDE DEF v, w
<1>2. \/ SameTexts(s, t) /\ Len(v[i].taken) = Len(v[i - 1].taken)
      \/ Len(s) = Len(t) + 1
  <2>1. Undisturbed(p, a, v) /\ Undisturbed(p, b, w)
    BY <1>1
  <2>2. Untaken(v, w, a, i, b) \/ Len(v[Len(a)].taken) = Len(w[Len(b)].taken) + 1
    BY <2>1, LostRow
  <2> QED
    BY <1>1, <2>2 DEF Untaken
<1>3. SameTexts(s, t) /\ Len(v[i].taken) = Len(v[i - 1].taken)
  BY <1>1, <1>2
<1>4. ASSUME Whole(p), Printed(a), a[i].kind = "row"
      PROVE  FALSE
  <2>1. Len(v[i].taken) = Len(v[i - 1].taken) + 1
    BY <1>1, <1>4, RowIsTaken DEF v
  <2>2. v[i - 1] \in States
    BY <1>1 DEF Undisturbed
  <2>3. Len(v[i - 1].taken) \in Nat
    BY <2>2, TakenType
  <2> QED
    BY <1>3, <2>1, <2>3
<1> QED
  BY <1>3, <1>4

\* Rows with the same text have the same cells.
LEMMA SameTextSameCells ==
    ASSUME NEW x, NEW y, SameText(x, y)
    PROVE  Cells(x) = Cells(y)
<1>1. \A f \in Fields \cup {"page"} : x[f] = y[f]
  BY SameCells DEF SameText
<1> QED
  BY <1>1 DEF Cells

\* A row with the cells that the review repaired is of the company that it saw there.
LEMMA RepairsMean ==
    ASSUME IInv, DInv, LInv, Accepted, Fitting(description), Tellable, description.under # "heading",
           NEW s, s = Known, Took(description, reviewed, Known, Interpreting, s),
           NEW t, Took(description, extracted, Known, Reading, t), Len(t) = Len(s),
           NEW k \in 1 .. Len(s), Has(s[k], description.repaired), Cells(t[k]) = Cells(s[k])
    PROVE  t[k].meant = s[k].meant
<1> DEFINE p == description
           a == reviewed
           b == extracted
           v == Walk(p, a)
           w == Walk(p, b)
<1>1. /\ Undisturbed(p, a, v) /\ s = v[Len(a)].taken
      /\ Undisturbed(p, b, w) /\ t = w[Len(b)].taken
      /\ s \in Seq(Rows) /\ t \in Seq(Rows) /\ Len(s) \in Nat
  BY DEF Took
<1>2. a # None /\ a \in Seq(Rows)
  BY AcceptedReading DEF DInv
<1>3. ReadsAlone(p)
  BY DEF Fitting
<1>4. CASE drift = None
  <2>1. b = a
    BY <1>2, <1>4 DEF IInv
  <2> HIDE DEF v, w, p, a, b
  <2>2. t = s
    BY <1>1, <2>1 DEF v, w
  <2> QED
    BY <2>2
<1>5. CASE drift \in Drifts
  <2>1. Drifted(drift, a, b) /\ Legible(drift, a, b)
    BY <1>5, NoneIsNoDrift DEF DInv, LInv
  <2>2. b \in Seq(Rows)
    BY <2>1 DEF Drifted
  <2>3. SameTexts(s, t) => t[k].meant = s[k].meant
    BY DEF SameTexts, SameText
  <2>4. CASE drift \in {"lose", "repeat"}
    <3>1. OneRowApart(a, b)
      BY <2>1, <2>4 DEF Drifted
    <3>2. ASSUME NEW i \in 1 .. Len(a), Without(a, i, b) PROVE SameTexts(s, t)
      BY <1>2, <1>3, <2>2, <3>2, RowUntaken
    <3>3. ASSUME NEW i \in 1 .. Len(b), Without(b, i, a) PROVE SameTexts(t, s)
      BY <1>2, <1>3, <2>2, <3>3, RowUntaken
    <3>4. SameTexts(t, s) => SameTexts(s, t)
      BY SameTextIsEquivalence DEF SameTexts
    <3> QED
      BY <2>3, <3>1, <3>2, <3>3, <3>4 DEF OneRowApart
  <2>5. CASE drift = "exchange"
    <3>1. PICK i \in 1 .. Len(a) : \E j : AfterExchange(a, b, i, j)
      BY <2>1, <2>5 DEF Drifted, Swapped
    <3>2. PICK j : AfterExchange(a, b, i, j)
      BY <3>1
    <3>3. Len(b) = Len(a)
      BY <2>1, <2>5 DEF Drifted, Swapped
    <3> HIDE DEF v, w, p, a, b
    <3>4. SameTexts(s, t) \/ \E q : Exchanged(s, t, q)
      <4>1. p.under # "heading" /\ s = v[Len(a)].taken /\ t = w[Len(a)].taken
        BY <1>1, <3>3 DEF p
      <4> QED
        BY <1>1, <1>2, <2>2, <3>2, <3>3, <4>1, ExchangedRows
    <3>5. ASSUME NEW q, Exchanged(s, t, q)
          PROVE  t[k].meant = s[k].meant
      <4>1. /\ q \in 1 .. Len(s) /\ q + 1 \in 1 .. Len(s)
            /\ k # q /\ k # q + 1 => SameText(s[k], t[k])
            /\ SameText(s[q], t[q + 1]) /\ SameText(s[q + 1], t[q])
        BY <3>5 DEF Exchanged
      <4>2. \A l, m \in 1 .. Len(s) :
               Has(s[l], p.repaired) /\ Cells(s[l]) = Cells(s[m]) => s[l].meant = s[m].meant
        BY DEF Tellable, p
      <4>3. CASE k = q
        <5>1. Cells(s[q + 1]) = Cells(s[k]) /\ s[q + 1].meant = t[k].meant
          BY <4>1, <4>3, SameTextSameCells DEF SameText
        <5> QED
          BY <4>1, <4>2, <5>1 DEF p
      <4>4. CASE k = q + 1
        <5>1. Cells(s[q]) = Cells(s[k]) /\ s[q].meant = t[k].meant
          BY <4>1, <4>4, SameTextSameCells DEF SameText
        <5> QED
          BY <4>1, <4>2, <5>1 DEF p
      <4>5. CASE k # q /\ k # q + 1
        BY <4>1, <4>5 DEF SameText
      <4> QED
        BY <4>3, <4>4, <4>5
    <3> QED
      BY <2>3, <3>4, <3>5
  <2>6. CASE drift \in Fields
    <3>1. Len(b) = Len(a) /\ \A i \in 1 .. Len(a) : a[i].meant = b[i].meant
      <4>1. drift # "exchange" /\ drift \notin {"lose", "repeat", "break"}
        BY <2>6 DEF Fields
      <4> QED
        BY <2>1, <2>6 DEF Legible, Drifted, OneCellApart
    <3>2. PICK i \in 1 .. Len(a) : /\ \A l \in 1 .. Len(a) : l # i => a[l] = b[l]
                                   /\ a[i].kind = "row" /\ b[i].kind = "row"
      BY <2>1, <2>6 DEF Drifted, OneCellApart
    <3>3. a[i] \in Rows /\ b[i] \in Rows /\ a[i].meant = b[i].meant
      BY <1>2, <2>2, <3>1
    <3> HIDE DEF v, w, p, a, b
    <3> DEFINE d(section) == ReadAlone(p, section, a[i])
               e(section) == ReadAlone(p, section, b[i])
    <3>4. SameTexts(s, t) \/ \E q, section : DifferAt(s, t, q, d(section), e(section))
      <4>1. s = v[Len(a)].taken /\ t = w[Len(a)].taken
        BY <1>1, <3>1
      <4> QED
        BY <1>1, <1>2, <2>2, <3>1, <3>2, <4>1, ChangedRow
    <3>5. \A section : d(section).meant = e(section).meant
      BY <3>3, ReadsName
    <3> HIDE DEF d, e
    <3>6. ASSUME NEW q, NEW section, DifferAt(s, t, q, d(section), e(section))
          PROVE  t[k].meant = s[k].meant
      BY <3>5, <3>6 DEF DifferAt, SameText
    <3> QED
      BY <2>3, <3>4, <3>6
  <2>7. CASE drift = "break"
    <3>1. PICK i \in 1 .. Len(a) : Broken(a, b, i)
      BY <2>1, <2>7 DEF Drifted
    <3>2. a[i] \in Rows /\ b[i] \in Rows /\ a[i].meant = b[i].meant
      <4>1. i \in 1 .. Len(b)
        BY <3>1 DEF Broken
      <4> QED
        BY <1>2, <2>2, <3>1, <4>1 DEF Broken
    <3> HIDE DEF v, w, p, a, b
    <3> DEFINE d(section) == ReadAlone(p, section, a[i])
               e(section) == ReadAlone(p, section, b[i])
    <3>3. SameTexts(s, t) \/ \E q, section : DifferAt(s, t, q, d(section), e(section))
      BY <1>1, <1>2, <2>2, <3>1, BrokenRow
    <3>4. \A section : d(section).meant = e(section).meant
      BY <3>2, ReadsName
    <3> HIDE DEF d, e
    <3>5. ASSUME NEW q, NEW section, DifferAt(s, t, q, d(section), e(section))
          PROVE  t[k].meant = s[k].meant
      BY <3>4, <3>5 DEF DifferAt, SameText
    <3> QED
      BY <2>3, <3>3, <3>5
  <2> QED
    BY <1>5, <2>4, <2>5, <2>6, <2>7 DEF Drifts
<1>6. drift = None \/ drift \in Drifts
  BY DEF DInv
<1> QED
  BY <1>4, <1>5, <1>6

\* Text that was accepted is below its row, unless rows changed places.
LEMMA AcceptedTells ==
    ASSUME IInv, DInv, LInv, Accepted, Fitting(description), drift # "exchange",
           NEW s, Took(description, reviewed, Known, Interpreting, s),
           NEW t, Took(description, extracted, Known, Reading, t), Len(t) = Len(s)
    PROVE  Tells(description, extracted)
<1> DEFINE p == description
           a == reviewed
           b == extracted
<1>1. a # None /\ a \in Seq(Rows) /\ Printed(a) /\ TextIsBelow(a)
  BY AcceptedReading DEF DInv, LInv
<1>2. CASE Apart(p)
  BY <1>2 DEF Tells
<1>3. CASE Whole(p) /\ drift = None
  BY <1>1, <1>3 DEF Tells, IInv
<1>4. CASE Whole(p) /\ drift \in Drifts
  <2>1. Drifted(drift, a, b) /\ Legible(drift, a, b)
    BY <1>4, NoneIsNoDrift DEF DInv, LInv
  <2>2. b \in Seq(Rows) /\ Printed(b) /\ ReadsAlone(p)
    BY <2>1 DEF Drifted, Legible, Fitting
  <2>3. CASE drift \in Fields
    BY <1>4, <2>1, <2>3 DEF Legible, Tells
  <2>4. CASE drift = "break"
    BY <1>4, <2>1, <2>4 DEF Legible, Tells
  <2>5. CASE drift \in {"lose", "repeat"}
    <3>1. TextIsBelow(b) \/ CompanyApart(a, b)
      BY <2>1, <2>5 DEF Legible
    <3>2. ASSUME NEW i \in 1 .. Len(a), Without(a, i, b), a[i].kind = "row" PROVE FALSE
      <4>1. a[i].kind # "section"
        BY <3>2
      <4> QED
        BY <1>1, <1>4, <2>2, <3>2, <4>1, RowUntaken
    <3>3. ASSUME NEW i \in 1 .. Len(b), Without(b, i, a), b[i].kind = "row" PROVE FALSE
      <4>1. b[i].kind # "section"
        BY <3>3
      <4> QED
        BY <1>1, <1>4, <2>2, <3>3, <4>1, RowUntaken
    <3> QED
      BY <1>4, <3>1, <3>2, <3>3 DEF CompanyApart, Tells
  <2> QED
    BY <1>4, <2>3, <2>4, <2>5 DEF Drifts
<1> QED
  BY <1>2, <1>3, <1>4 DEF DInv, Fitting

\* The property follows from the invariant.
LEMMA FittingFits ==
    ASSUME IInv, DInv, LInv, Fitting(description), Tellable
    PROVE  TextFitsItsRow
<1> SUFFICES ASSUME Accepted, NEW i \in DOMAIN result.rows
             PROVE  /\ result.rows[i].name \in {result.rows[i].meant, Blank, "x"}
                    /\ drift # "exchange" => OwnText(result.rows[i])
  BY DEF TextFitsItsRow, OwnText
<1> DEFINE p == description
           a == reviewed
           b == extracted
           x == Interpreting
           y == Reading
           s == Scanned(p, a).taken
           t == Scanned(p, b).taken
<1>1. /\ a # None /\ x = Interpreted(p, a, Known) /\ y = Interpreted(p, b, Known) /\ x.ok /\ y.ok
      /\ AsRecorded(p, Findings(p, y), Findings(p, x)) /\ result.rows = y.rows
  BY AcceptedReading DEF Reading
<1>2. ReadsAlone(p) /\ ~p.sorted /\ CountsRows(p) /\ p.supplied = {}
  BY DEF Fitting
<1>3. a \in Seq(Rows) /\ b \in Seq(Rows) /\ Printed(b)
  <2>1. a \in Seq(Rows) /\ Printed(a)
    BY <1>1 DEF DInv, LInv
  <2>2. CASE drift = None
    BY <1>1, <2>1, <2>2 DEF IInv
  <2>3. CASE drift # None
    BY <2>1, <2>3 DEF DInv, LInv, Drifted, Legible
  <2> QED
    BY <2>1, <2>2, <2>3
<1>4. s = Known
  BY <1>2 DEF Known, RowsTaken, Sorted
<1>5. Took(p, a, Known, x, s) /\ Took(p, b, Known, y, t) /\ RepairsFit(p, t, Known)
  <2> HIDE DEF p, a, b, x, y
  <2>1. Took(p, a, Known, x, s)
    BY <1>1, <1>2, <1>3, InterpretedTook
  <2>2. Took(p, b, Known, y, t) /\ RepairsFit(p, t, Known)
    BY <1>1, <1>2, <1>3, InterpretedTook
  <2> QED
    BY <2>1, <2>2
<1> HIDE DEF x, y, s, t
<1>6. Len(t) = Len(s)
  <2>1. DOMAIN x.rows = 1 .. Len(s) /\ DOMAIN y.rows = 1 .. Len(t) /\ Len(s) \in Nat /\ Len(t) \in Nat
    BY <1>5 DEF Took
  <2> QED
    BY <1>1, <1>2, <2>1, CountedRows
<1>7. t \in Seq(Rows) /\ i \in 1 .. Len(t) /\ i \in DOMAIN t /\ y.rows = Table(p, t, Known)
  BY <1>1, <1>5 DEF Took
<1>8. /\ t[i].name \in {t[i].meant, Blank, "x"}
      /\ Tells(p, b) => OwnText(t[i])
  <2>1. "lead" \notin p.joins /\ p.flows = {}
    BY DEF Fitting, Apart, Whole
  <2> QED
    BY <1>2, <1>3, <1>5, <1>7, <2>1, TakenIsTold
<1>9. drift # "exchange" => Tells(p, b)
  BY <1>5, <1>6, AcceptedTells DEF x, y
<1>10. ASSUME Reviewed(Known, i, p.repaired \cup p.supplied)
       PROVE  Known[i].meant = t[i].meant
  <2>1. i \in DOMAIN Known /\ Has(Known[i], p.repaired) /\ Reviewed(Known, i, p.repaired)
    BY <1>2, <1>10 DEF Reviewed
  <2>2. Cells(t[i]) = Cells(Known[i])
    BY <1>5, <2>1 DEF RepairsFit
  <2>3. p.under # "heading"
    BY <2>1 DEF Has, Fitting
  <2> QED
    BY <1>4, <1>5, <1>6, <1>7, <2>1, <2>2, <2>3, RepairsMean DEF x, y
<1>11. /\ y.rows[i].joined = t[i].joined /\ y.rows[i].meant = t[i].meant
       /\ y.rows[i].name = IF Reviewed(Known, i, p.repaired \cup p.supplied)
                             THEN Known[i].meant ELSE t[i].name
  <2> DEFINE q == Table(p, t, Known)[i]
  <2>1. /\ q.joined = t[i].joined /\ q.meant = t[i].meant
        /\ q.name = IF Reviewed(Known, i, p.repaired \cup p.supplied) THEN Known[i].meant ELSE t[i].name
    <3> DEFINE known == Known
    <3>1. q = Table(p, t, known)[i]
      OBVIOUS
    <3> HIDE DEF p, known, q
    <3>2. /\ q.joined = t[i].joined /\ q.meant = t[i].meant
          /\ q.name = IF Reviewed(known, i, p.repaired \cup p.supplied) THEN known[i].meant ELSE t[i].name
      BY <1>7, <3>1, TableShows
    <3> QED
      BY <3>2 DEF known
  <2>2. q = y.rows[i]
    BY <1>7
  <2> HIDE DEF q
  <2> QED
    BY <2>1, <2>2
<1> QED
  BY <1>1, <1>8, <1>9, <1>10, <1>11 DEF OwnText

----------------------------------------------------------------------------
\* Rows that are lost, repeated, broken in two or exchanged.

\* Both documents are legible rows.
LEMMA BothAreLegible ==
    ASSUME IInv, DInv, LInv, reviewed # None
    PROVE  /\ reviewed \in Seq(Rows) /\ Printed(reviewed)
           /\ extracted \in Seq(Rows) /\ Printed(extracted)
<1>1. reviewed \in Seq(Rows) /\ Printed(reviewed)
  BY DEF DInv, LInv
<1>2. CASE drift = None
  BY <1>1, <1>2 DEF IInv
<1>3. CASE drift # None
  BY <1>1, <1>3 DEF DInv, LInv, Drifted, Legible
<1> QED
  BY <1>1, <1>2, <1>3

\* Two tables of one review are the same but for text, and without text the same.
LEMMA SameTables ==
    ASSUME NEW p, ReadsAlone(p), ~p.sorted,
           NEW a \in Seq(Rows), Printed(a), NEW b \in Seq(Rows), Printed(b), NEW known,
           NEW x, x = Interpreted(p, a, known), NEW y, y = Interpreted(p, b, known), x.ok, y.ok,
           Alike(x.rows, y.rows)
    PROVE  ButForText(x.rows) = ButForText(y.rows) /\ (Apart(p) => x.rows = y.rows)
<1> DEFINE s == Scanned(p, a).taken
           t == Scanned(p, b).taken
<1>1. Took(p, a, known, x, s) /\ Took(p, b, known, y, t)
  BY InterpretedTook
<1>2. Apart(p) => /\ \A i \in 1 .. Len(s) : s[i].joined = <<>>
                  /\ \A i \in 1 .. Len(t) : t[i].joined = <<>>
  BY ApartFromText
<1> HIDE DEF s, t
<1>3. /\ x.rows = Table(p, s, known) /\ s \in Seq(Rows) /\ DOMAIN s = 1 .. Len(s)
      /\ y.rows = Table(p, t, known) /\ t \in Seq(Rows) /\ DOMAIN t = 1 .. Len(t)
  BY <1>1 DEF Took
<1> QED
  BY <1>2, <1>3, AlikeButForText

\* Parsers whose rows stand alone and are counted.
Countable(p) == ReadsAlone(p) /\ ~p.sorted /\ CountsRows(p)

\* No heading is lost or repeated.
HeadingsCount == HeadingCount(extracted) = HeadingCount(reviewed)

\* Rows come or go noticed or not at all.
LEMMA CountedAreKept ==
    ASSUME IInv, DInv, LInv, Accepted, drift \in {"lose", "repeat"}, Countable(description),
           description.under # "heading" \/ NotesHeadings(description) \/ HeadingsCount
    PROVE  AsReviewedButForText /\ (Apart(description) => AsReviewed)
<1> DEFINE p == description
           a == reviewed
           b == extracted
           x == Interpreting
           y == Reading
<1>1. /\ a # None /\ x = Interpreted(p, a, Known) /\ y = Interpreted(p, b, Known) /\ x.ok /\ y.ok
      /\ AsRecorded(p, Findings(p, y), Findings(p, x))
      /\ recorded.rows = x.rows /\ result.rows = y.rows
  BY AcceptedReading DEF Reading
<1>2. a \in Seq(Rows) /\ Known \in Seq(Rows) /\ Printed(a) /\ b \in Seq(Rows) /\ Printed(b)
  BY <1>1, KnownRows, BothAreLegible DEF Countable
<1>3. OneRowApart(a, b)
  <2>1. drift # None
    BY NoneIsNoDrift DEF Drifts
  <2> QED
    BY <2>1 DEF DInv, Drifted
<1>4. ReadsAlone(p) /\ ~p.sorted /\ CountsRows(p)
  BY DEF Countable
<1>5. p.under # "heading" \/ HeadingCount(a) = HeadingCount(b)
  <2>1. CASE NotesHeadings(p)
    BY <1>1, <1>2, <1>4, <2>1, NotedHeadings
  <2> QED
    BY <2>1 DEF HeadingsCount
<1>6. /\ Observations(p, ButForText(y.rows)) = Observations(p, ButForText(x.rows)) => AsReviewedButForText
      /\ Observations(p, y.rows) = Observations(p, x.rows) => AsReviewed
  BY <1>1 DEF AsReviewed, AsReviewedButForText
<1> HIDE DEF p, a, b, x, y
<1>7. ASSUME NEW i \in 1 .. Len(a), Without(a, i, b)
      PROVE  Alike(x.rows, y.rows)
  <2>1. p.under # "heading" \/ a[i].kind # "section"
    BY <1>2, <1>5, <1>7, LostHeading
  <2> QED
    BY <1>1, <1>2, <1>4, <1>7, <2>1, RowNoticed
<1>8. ASSUME NEW i \in 1 .. Len(b), Without(b, i, a)
      PROVE  Alike(y.rows, x.rows)
  <2>1. p.under # "heading" \/ b[i].kind # "section"
    BY <1>2, <1>5, <1>8, LostHeading
  <2> QED
    BY <1>1, <1>2, <1>4, <1>8, <2>1, RowNoticed
<1>9. ButForText(x.rows) = ButForText(y.rows) /\ (Apart(p) => x.rows = y.rows)
  <2>1. CASE Alike(x.rows, y.rows)
    BY <1>1, <1>2, <1>4, <2>1, SameTables
  <2>2. CASE Alike(y.rows, x.rows)
    BY <1>1, <1>2, <1>4, <2>2, SameTables
  <2> QED
    BY <1>3, <1>7, <1>8, <2>1, <2>2 DEF OneRowApart
<1> QED
  BY <1>6, <1>9 DEF p

\* Parsers that stop at the rest of a row that stands in a row of its own.
KnowsNoRest(p) == p.joins = {} /\ "tail" \notin p.passed

\* No row that is broken in two is accepted.
LEMMA BrokenIsRefused ==
    ASSUME IInv, DInv, Accepted, drift = "break", ReadsAlone(description), KnowsNoRest(description)
    PROVE  FALSE
<1> DEFINE p == description
           b == extracted
           w == Walk(p, b)
<1>1. ~Scanned(p, b).refused
  <2>1. Reading.ok
    BY AcceptedReading
  <2> QED
    BY <2>1 DEF Reading, Interpreted, WithRepairs, WithCompletions, Interpretation
<1>2. b \in Seq(Rows) /\ \E i \in 1 .. Len(reviewed) : Broken(reviewed, b, i)
  <2>1. drift # None
    BY NoneIsNoDrift DEF Drifts
  <2> QED
    BY <2>1 DEF DInv, Drifted
<1>3. reviewed \in Seq(Rows)
  BY AcceptedReading DEF DInv
<1>4. PICK i \in 1 .. Len(reviewed) : Broken(reviewed, b, i)
  BY <1>2
<1>5. i + 1 \in 1 .. Len(b) /\ b[i + 1].kind = "tail" /\ i \in 0 .. Len(b) /\ i + 1 \in 0 .. Len(b)
  BY <1>3, <1>4 DEF Broken
<1> DEFINE j == i + 1
           r == b[j]
<1>6. j - 1 = i /\ j \in 1 .. Len(b) /\ j \in 0 .. Len(b) /\ r.kind = "tail"
  BY <1>5
<1> HIDE DEF j
<1>7. w[j] = Scan(p, w[i], b, j, r) /\ w[i] \in States /\ ~w[i].refused /\ ~w[j].refused
  <2>1. \A n \in 1 .. Len(b) : w[n] = Scan(p, w[n - 1], b, n, b[n])
    BY <1>2, WalkSteps
  <2>2. \A n \in 0 .. Len(b) : w[n] \in States /\ ~w[n].refused
    BY <1>1, <1>2, WalkTypes, UnrefusedIsUndisturbed
  <2> HIDE DEF w
  <2> QED
    BY <1>5, <1>6, <2>1, <2>2
<1> HIDE DEF w, r
<1>8. Scan(p, w[i], b, j, r) = Refuse(w[i])
  <2>1. p.joins = {} /\ "tail" \notin p.passed
    BY DEF KnowsNoRest
  <2>2. ~Joins(p, w[i], r)
    BY <2>1 DEF Joins
  <2> QED
    BY <1>6, <1>7, <2>1, <2>2 DEF Scan
<1>9. Refuse(w[i]).refused
  BY <1>7 DEF Refuse, States
<1> QED
  BY <1>7, <1>8, <1>9

\* Parsers that join no text, or are known not to count it.
TextCounts(uncounted) == Apart(description) \/ parser \in uncounted

\* The property follows from the invariant.
LEMMA CountedAsReviewed ==
    ASSUME IInv, DInv, LInv, Countable(description), TextCounts(TextUncounted \cup FragmentsOnce),
           description.under # "heading" \/ NotesHeadings(description) \/ HeadingsCount,
           drift = "break" => KnowsNoRest(description)
    PROVE  AcceptedAsReviewed
<1>1. ASSUME Accepted, drift \in {"lose", "repeat"}
      PROVE  AsReviewedButForText /\ (Apart(description) => AsReviewed)
  BY <1>1, CountedAreKept
<1>2. ASSUME Accepted, drift = "break" PROVE FALSE
  BY <1>2, BrokenIsRefused DEF Countable
<1> HIDE DEF TextUncounted, FragmentsOnce
<1> QED
  BY <1>1, <1>2 DEF AcceptedAsReviewed, TextCounts

\* Parsers whose rows have their names and dates of their own, and whose records
\* show nothing of their first row that the others do not have.
Orderless(p) == ReadsAlone(p) /\ ~p.sorted /\ ~Supplies(p) /\ ShowsItsKey(p)

\* Headings stand where the review saw them.
HeadingsStood == HeadingsStay(reviewed, extracted)

\* A table without text is all of its text.
LEMMA NoText ==
    ASSUME NEW rows \in Seq(Rows), \A i \in 1 .. Len(rows) : rows[i].joined = <<>>
    PROVE  ButForText(rows) = rows
<1>1. \A r \in Rows : Formal(r)
  BY DEF Rows, Formal
<1>2. DOMAIN rows = 1 .. Len(rows) /\ \A i \in DOMAIN rows : rows[i] \in Rows
  OBVIOUS
<1>3. ASSUME NEW i \in DOMAIN rows
      PROVE  [rows[i] EXCEPT !.joined = <<>>] = rows[i]
  <2> DEFINE r == rows[i]
             none == <<>>
  <2>1. Formal(r) /\ r.joined = none
    BY <1>1, <1>2
  <2> HIDE DEF r, none
  <2>2. [r EXCEPT !.joined = none] = r
    BY <2>1 DEF Formal
  <2> QED
    BY <2>2 DEF r, none
<1>4. ButForText(rows) = [i \in DOMAIN rows |-> rows[i]]
  BY <1>3 DEF ButForText
<1> QED
  BY <1>4

\* The property follows from the invariant: the table is permuted, and records do not show it.
LEMMA OrderlessIsHarmless ==
    ASSUME IInv, DInv, LInv, Orderless(description), TextCounts(TextUncounted \cup FragmentsUnplaced),
           description.under # "heading" \/ "layout" \in description.gates \/ HeadingsStood
    PROVE  OrderIsHarmless
<1> HIDE DEF TextUncounted, FragmentsUnplaced
<1> SUFFICES ASSUME Accepted, drift = "exchange"
             PROVE  AsReviewedButForText /\ (Apart(description) => AsReviewed)
  BY DEF OrderIsHarmless, TextCounts
<1> DEFINE p == description
           a == reviewed
           b == extracted
           x == Interpreting
           y == Reading
<1>1. /\ a # None /\ x = Interpreted(p, a, Known) /\ y = Interpreted(p, b, Known) /\ x.ok /\ y.ok
      /\ AsRecorded(p, Findings(p, y), Findings(p, x))
      /\ recorded.rows = x.rows /\ result.rows = y.rows
  BY AcceptedReading DEF Reading
<1>2. a \in Seq(Rows) /\ Known \in Seq(Rows) /\ Printed(a) /\ b \in Seq(Rows) /\ Printed(b)
  BY <1>1, KnownRows, BothAreLegible DEF Orderless
<1>3. Swapped(a, b)
  <2>1. drift # None
    BY NoneIsNoDrift DEF Drifts
  <2> QED
    BY <2>1 DEF DInv, Drifted
<1>4. ReadsAlone(p) /\ ~p.sorted /\ ~Supplies(p) /\ ShowsItsKey(p)
  BY DEF Orderless
<1>5. p.under # "heading" \/ HeadingsStay(a, b)
  <2>1. CASE "layout" \in p.gates
    <3>1. Len(a) = Len(b)
      BY <1>3 DEF Swapped
    <3> HIDE DEF p, a, b, x, y
    <3> QED
      BY <1>1, <1>2, <1>4, <2>1, <3>1, NotedLayout
  <2> QED
    BY <2>1 DEF HeadingsStood
<1>6. /\ Observations(p, ButForText(y.rows)) = Observations(p, ButForText(x.rows)) => AsReviewedButForText
      /\ Observations(p, y.rows) = Observations(p, x.rows) => AsReviewed
  BY <1>1 DEF AsReviewed, AsReviewedButForText
<1> HIDE DEF p, a, b, x, y
<1>7. PICK i \in 1 .. Len(a), j \in 1 .. Len(a) : AfterExchange(a, b, i, j)
  BY <1>3 DEF Swapped, AfterExchange
<1>8. Len(b) = Len(a)
  BY <1>3 DEF Swapped
<1> DEFINE s == Scanned(p, a).taken
           t == Scanned(p, b).taken
<1>9. /\ Observations(p, ButForText(x.rows)) = Observations(p, ButForText(y.rows))
      /\ x.rows = s /\ y.rows = t
  BY <1>1, <1>2, <1>4, <1>5, <1>7, <1>8, OrderUnseen
<1>10. ASSUME Apart(p)
       PROVE  ButForText(x.rows) = x.rows /\ ButForText(y.rows) = y.rows
  <2>1. s \in Seq(Rows) /\ t \in Seq(Rows)
    BY <1>1, <1>2, <1>4, InterpretedTook DEF Took
  <2>2. /\ \A k \in 1 .. Len(s) : s[k].joined = <<>>
        /\ \A k \in 1 .. Len(t) : t[k].joined = <<>>
    BY <1>1, <1>2, <1>4, <1>10, ApartFromText
  <2> HIDE DEF s, t
  <2> QED
    BY <1>9, <2>1, <2>2, NoText
<1> QED
  BY <1>6, <1>9, <1>10 DEF p

----------------------------------------------------------------------------
\* The theorems.

\* Whatever the library made of the reviewed document.
LEMMA InvHolds == Spec => [](IInv /\ DInv)
<1>1. Init => IInv /\ DInv
  BY DEF Init, IInv, DInv, Described
<1>2. IInv /\ DInv /\ [Next]_vars => (IInv /\ DInv)'
  BY StepInv, DriftedReviewed
<1> QED
  BY <1>1, <1>2, PTL DEF Spec

\* Whatever the library made of a legible document.
LEMMA LegibleHolds == Spec => []LInv
<1>1. Init => LInv
  BY DEF Init, LInv
<1>2. IInv /\ DInv /\ LInv /\ [Next]_vars => LInv'
  BY StaysLegible
<1> QED
  BY <1>1, <1>2, InvHolds, PTL DEF Spec

\* A row or a heading that is lost or repeated never changes what is published without
\* a refusal, nor does a row that is broken in two where the parser knows no rests of
\* rows: for every parser whose rows stand alone and whose rows or records are counted,
\* provided that it counts its headings or none was lost or repeated, for every document
\* and every number of rows.  Of the parsers that are known to publish text uncounted
\* this says nothing about the text; of the others, that they join none.
THEOREM CountedRowsAreNoticed ==
    Spec => [](/\ Countable(description)
               /\ TextCounts(TextUncounted \cup FragmentsOnce)
               /\ (description.under # "heading" \/ NotesHeadings(description) \/ HeadingsCount)
               /\ (drift = "break" => KnowsNoRest(description))
               => AcceptedAsReviewed)
<1>1. IInv /\ DInv /\ LInv =>
        (/\ Countable(description)
         /\ TextCounts(TextUncounted \cup FragmentsOnce)
         /\ (description.under # "heading" \/ NotesHeadings(description) \/ HeadingsCount)
         /\ (drift = "break" => KnowsNoRest(description))
         => AcceptedAsReviewed)
  BY CountedAsReviewed
<1> QED
  BY <1>1, InvHolds, LegibleHolds, PTL

\* Rows that come in another order publish the same observations: for every parser
\* that supplies nothing by place and whose records show nothing of their first row
\* that is not in their key, provided that it compares its layout or the headings
\* stand where they stood, for every document and every number of rows.  Of the parsers
\* that are known not to say which row text belongs to this says nothing about the
\* text; of the others, that they join none.
THEOREM OrderShowsNowhere ==
    Spec => [](/\ Orderless(description)
               /\ TextCounts(TextUncounted \cup FragmentsUnplaced)
               /\ (description.under # "heading" \/ "layout" \in description.gates \/ HeadingsStood)
               => OrderIsHarmless)
<1>1. IInv /\ DInv /\ LInv =>
        (/\ Orderless(description)
         /\ TextCounts(TextUncounted \cup FragmentsUnplaced)
         /\ (description.under # "heading" \/ "layout" \in description.gates \/ HeadingsStood)
         => OrderIsHarmless)
  BY OrderlessIsHarmless
<1> QED
  BY <1>1, InvHolds, LegibleHolds, PTL

\* A cell that is lost or garbled, and not refused, is all that differs in the rows of
\* the parser: no date, name or section of that row or of another moves, for every
\* parser that takes the dates of a row from the row itself, each from its own cell,
\* and counts its rows, for every document and every number of rows.
THEOREM CellsAreTheirOwn == Spec => [](OwnCells(description) => CellLossIsLocal)
<1>1. IInv /\ DInv => (OwnCells(description) => CellLossIsLocal)
  BY OwnCellsAreLocal
<1> QED
  BY <1>1, InvHolds, PTL

\* A name that the review repaired, or that stands on the page, is never published for
\* another company, and text without a row of its own is joined to the company it
\* belongs to, however rows, text or cells are lost, repeated, broken or garbled: for
\* every parser that joins no text, or joins it to the row above and takes every row or
\* stops, provided that rows repaired by the review can be told apart; for every legible
\* document and every number of rows.
THEOREM TextBelongsToItsRow == Spec => [](Fitting(description) /\ Tellable => TextFitsItsRow)
<1>1. IInv /\ DInv /\ LInv => (Fitting(description) /\ Tellable => TextFitsItsRow)
  BY FittingFits
<1> QED
  BY <1>1, InvHolds, LegibleHolds, PTL
================================================================================
