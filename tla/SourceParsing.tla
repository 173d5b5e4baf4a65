----------------------------- MODULE SourceParsing -----------------------------
(***************************************************************************)
(* A reviewed document is parsed again.  The bytes are those of the review: *)
(* every parser or the caller checks their digest.  The rows are what the   *)
(* installed PDF, HTML or workbook library makes of them now, which may     *)
(* differ from what it made of them at the review.  The parser is to return *)
(* the reviewed observations or to stop.                                    *)
(* parsers/*.py, publishing/public_national_registry.py (_validate_batch).  *)
(***************************************************************************)
EXTENDS SourceRows, SequencesExt

CONSTANTS Parsers,       \* name of a parser -> its description
          Documents(_),  \* description -> documents a review may meet
          None

VARIABLES parser,           \* its name
          description,
          reviewed,         \* the rows that the review saw, or None
          recorded,         \* what it wrote into the parser
          extracted,        \* the rows that the library yields now
          drift,            \* how they differ, or None
          result            \* observations, Refused, or None before the parser ran

vars == <<parser, description, reviewed, recorded, extracted, drift, result>>

\* How the extracted rows may differ from those of the review.
Drifts == {"lose", "repeat", "exchange", "break"} \cup Fields

ASSUME NoneIsNoDrift == None \notin Drifts

ASSUME DocumentsAreRows ==
    \A n \in DOMAIN Parsers : \A d \in Documents(Parsers[n]) : d \in Seq(Rows)

\* What a reader sees.  The name on a row is that of its company, if it is there and
\* whole; and text below a row belongs to it.
Printed(document) ==
    \A k \in 1 .. Len(document) :
        document[k].name \in {document[k].meant, Blank, "x"} /\ document[k].joined = <<>>

Below(document, k) ==
    \E j \in 1 .. k - 1 :
        /\ document[j].kind = "row" /\ document[j].meant = document[k].meant
        /\ \A l \in j + 1 .. k - 1 : document[l].kind # "row"

TextIsBelow(document) == \A k \in 1 .. Len(document) : document[k].kind = "tail" => Below(document, k)

ASSUME DocumentsAreLegible ==
    \A n \in DOMAIN Parsers : \A d \in Documents(Parsers[n]) : Printed(d) /\ TextIsBelow(d)

\* Records and statuses are told apart by cells of the row.
ASSUME ParsersNameCells ==
    \A n \in DOMAIN Parsers :
        Parsers[n].key \subseteq Fields \cup {"identity"} /\ Parsers[n].status \subseteq Fields

----------------------------------------------------------------------------
(* Cells that the row itself does not have.                                 *)

Has(r, kinds) == Faults(r) \cap kinds # {}

Reviewed(review, i, kinds) == i \in DOMAIN review /\ Has(review[i], kinds)

\* Mutant: only the number of rows is compared.
AsMany(p, rows, review) == Len(rows) = Len(review)

\* A row that the review repairs is as it was, and no other row lacks its name.
\* (A name that is cut off looks like any other.)
RepairsFit(p, rows, review) ==
    \A i \in DOMAIN rows \cup DOMAIN review :
        (i \in DOMAIN rows /\ Has(rows[i], p.repaired \ {Bad("name")})) \/ Reviewed(review, i, p.repaired)
            => i \in DOMAIN rows /\ i \in DOMAIN review /\ Cells(rows[i]) = Cells(review[i])

Repaired(p, rows, review) ==
    [i \in DOMAIN rows |->
        IF Reviewed(review, i, p.repaired \cup p.supplied)
          THEN [rows[i] EXCEPT !.name = review[i].meant]
          ELSE rows[i]]

\* Dates of other rows of the same company: those that agree in the other date,
\* or all that are complete.
Peers(p, rows, i) ==
    LET r == rows[i]
        Same(x) == x.name = r.name /\ x.id = r.id
        Pairs == {<<rows[j].from, rows[j].to>> :
                    j \in {k \in DOMAIN rows : Is(rows[k], "from") /\ Is(rows[k], "to")
                                                 /\ Same(rows[k]) /\ rows[k].note = r.note}}
        Match == {<<rows[j].from, rows[j].to>> :
                    j \in {k \in DOMAIN rows \ {i} :
                             /\ Same(rows[k]) /\ Is(rows[k], "from") /\ Is(rows[k], "to")
                             /\ r.from \in Formed.from => rows[k].from = r.from
                             /\ r.to \in Formed.to => rows[k].to = r.to}}
    IN IF p.peers = "pair" THEN Pairs ELSE Match

Incomplete(p, r) ==
    CASE p.peers = "none" -> FALSE
      [] p.peers = "pair" -> ~Is(r, "from") \/ ~Is(r, "to")
      [] p.peers = "match" -> Has(r, {Bad("from"), Bad("to")}) /\ (Is(r, "from") \/ Is(r, "to"))

Completable(p, rows) ==
    {i \in DOMAIN rows : Incomplete(p, rows[i]) /\ Cardinality(Peers(p, rows, i)) = 1}

Dated(r, pair) == [r EXCEPT !.from = pair[1], !.to = pair[2]]

Completed(p, rows, completable) ==
    [i \in DOMAIN rows |->
        IF i \in completable
          THEN Dated(rows[i], CHOOSE x \in Peers(p, rows, i) : TRUE)
          ELSE rows[i]]

\* Several candidates stop one parser; the other leaves such a row out.
Ambiguous(p, rows) ==
    p.peers = "match" /\ \E i \in DOMAIN rows : Incomplete(p, rows[i]) /\ Cardinality(Peers(p, rows, i)) > 1

Orphans(p, rows, completable) ==
    IF p.peers = "pair" THEN {i \in DOMAIN rows : Incomplete(p, rows[i])} \ completable ELSE {}

Sorted(p, rows) == IF p.sorted THEN SortSeq(rows, LAMBDA x, y : x.no < y.no) ELSE rows

Colliding(p, rows) == p.sorted /\ \E i, j \in DOMAIN rows : i # j /\ rows[i].no = rows[j].no

----------------------------------------------------------------------------
(* From rows to records.                                                    *)

\* The name of a row goes on with the text that was joined to it; text of its own
\* makes a name whole that was cut off.
FullName(r) ==
    IF r.name = "x" /\ r.joined # <<>> /\ Head(r.joined) = r.meant
      THEN r.joined
      ELSE <<r.name>> \o r.joined

Identity(r) == IF Is(r, "id") THEN <<r.id>> ELSE FullName(r)

CellFor(r, f) ==
    CASE f = "identity" -> Identity(r)
      [] f = "name"     -> FullName(r)
      [] OTHER          -> r[f]

\* Rows that show one observation.
Groups(p, rows) ==
    LET Same(i, j) == IF p.key = {} THEN i = j
                      ELSE \A f \in p.key : CellFor(rows[i], f) = CellFor(rows[j], f)
    IN {{j \in DOMAIN rows : Same(i, j)} : i \in DOMAIN rows}

First(g) == CHOOSE i \in g : \A j \in g : i <= j

StatusOf(p, r) == [f \in p.status |-> IF f \in {"from", "to"} THEN r[f] = Blank ELSE r[f]]

\* Of several names the longest, or the one of the review, wherever it stands.
Chosen(names) == CHOOSE v \in names : TRUE

NameShown(p, rows, g) ==
    IF p.shows = "first" THEN FullName(rows[First(g)]) ELSE Chosen({FullName(rows[i]) : i \in g})

\* A record shows its first row with its text, and the sections of all of them.
Observation(p, rows, g) ==
    LET r == rows[First(g)] IN
    [name |-> NameShown(p, rows, g), id |-> r.id, from |-> r.from, to |-> r.to,
     status |-> {StatusOf(p, rows[i]) : i \in g}, sections |-> {rows[i].section : i \in g}]

Tally(f(_), S) == [v \in {f(x) : x \in S} |-> Cardinality({x \in S : f(x) = v})]

Observations(p, rows) ==
    LET Of(g) == Observation(p, rows, g) IN Tally(Of, Groups(p, rows))

----------------------------------------------------------------------------
(* What is compared with the review.                                        *)

\* Rows that were reviewed with their faults.
Exceptions(p, rows) == {Cells(rows[i]) : i \in {j \in DOMAIN rows : Has(rows[j], p.reviewed)}}

PlacedExceptions(p, rows) ==
    {<<i, Cells(rows[i])>> : i \in {j \in DOMAIN rows : Has(rows[j], p.placed)}}

Headings(s) == {x \in s.layout : x[2] = "section"}

\* What a gate compares of the walk over the document,
WalkMeasure(g, s) ==
    CASE g = "layout"        -> s.layout
      [] g = "headings"      -> {<<x[3], x[4]>> : x \in Headings(s)}
      [] g = "heading count" -> Cardinality(Headings(s))
      [] g = "headers"       -> {<<n, Cardinality({x \in s.layout : x[2] = "header" /\ x[3] = n})>> :
                                    n \in {x[3] : x \in s.layout}}
      [] g = "fragments"     -> s.fragments
      [] g = "carried"       -> s.carried
      [] g = "completed"     -> s.completed
      [] g = "complete"      -> s.left

\* of the rows,
RowMeasure(p, g, rows) ==
    LET D == DOMAIN rows
        Page(i) == rows[i].page
        Section(i) == rows[i].section
        Note(i) == rows[i].note
        RowStatus(i) == StatusOf(p, rows[i])
    IN CASE g = "rows"          -> Len(rows)
         [] g = "pages"         -> Tally(Page, D)
         [] g = "sections"      -> Tally(Section, D)
         [] g = "section count" -> Cardinality({Section(i) : i \in D})
         [] g = "notes"         -> Tally(Note, D)
         [] g = "row status"    -> Tally(RowStatus, D)
         [] g = "ids"           -> Cardinality({rows[i].id : i \in {j \in D : Is(rows[j], "id")}})
         [] g = "numbers"       -> [i \in D |-> rows[i].no]
         [] g = "serial"        -> \A i, j \in D : i # j => rows[i].no # rows[j].no
         [] g = "unique"        -> \A i, j \in D : i # j => Cells(rows[i]) # Cells(rows[j])
         [] g = "joined"        -> [i \in D |-> Len(rows[i].joined)]
         [] g = "continued"     -> {i \in D : rows[i].joined # <<>>}
         [] g = "faults"        -> Exceptions(p, rows)
         [] g = "malformed"     -> Cardinality({i \in D : Has(rows[i], {Bad("from"), Bad("to")})})
         [] g = "twins"         -> {x \in D \X D : x[1] < x[2] /\ Cells(rows[x[1]]) = Cells(rows[x[2]])}
         [] g = "repeats"       -> {x \in {<<v, Cardinality({i \in D : rows[i].id = v})>> :
                                             v \in {rows[i].id : i \in D}} : x[2] > 1}

\* and of the records.
RecordMeasure(p, g, rows, groups) ==
    LET Status(x) == {StatusOf(p, rows[i]) : i \in x}
        Identified(x) == Is(rows[First(x)], "id")
        Unlisted(x) == rows[First(x)].from = Blank
        Unending(x) == rows[First(x)].to = Blank
        Names(x) == {FullName(rows[i]) : i \in x}
        State(i) == <<rows[i].from, rows[i].to, rows[i].note>>
        OfIdentity(v) == {i \in DOMAIN rows : Identity(rows[i]) = v}
    IN CASE g = "status"      -> Tally(Status, groups)
         [] g = "coverage"    -> Tally(Identified, groups)
         [] g = "sizes"       -> Tally(Cardinality, groups)
         [] g = "blanks"      -> <<Tally(Unlisted, groups), Tally(Unending, groups)>>
         [] g = "digest"      -> [i \in DOMAIN rows |-> Observation(p, rows, CHOOSE x \in groups : i \in x)]
         [] g = "memberships" -> Cardinality(UNION {{<<x, rows[i].section>> : i \in x} : x \in groups})
         [] g = "variants"    -> Cardinality({x \in groups :
                                    \E i, j \in x : \E f \in Fields \ {"section"} :
                                        CellFor(rows[i], f) # CellFor(rows[j], f)})
         [] g = "states"      -> Cardinality({v \in {Identity(rows[i]) : i \in DOMAIN rows} :
                                    Cardinality({State(i) : i \in OfIdentity(v)}) > 1})
         [] g = "names"       -> {Names(x) : x \in {y \in groups : Cardinality(Names(y)) > 1}}
         [] g = "agree"       -> \A x \in groups : \A i, j \in x : State(i) = State(j)
         [] g = "once"        -> \A x \in groups : \A i, j \in x : i # j => rows[i].section # rows[j].section
         [] g = "distinct"    ->
                \A x, y \in groups :
                    x # y /\ Identified(x) => rows[First(x)].id # rows[First(y)].id

OfWalk == {"layout", "headings", "heading count", "headers", "fragments", "carried", "completed", "complete"}

OfRecords == {"status", "coverage", "sizes", "blanks", "digest", "memberships", "variants", "states",
              "names", "agree", "once", "distinct"}

Measure(p, g, s, rows, groups) ==
    IF g \in OfWalk THEN WalkMeasure(g, s)
    ELSE IF g \in OfRecords THEN RecordMeasure(p, g, rows, groups)
    ELSE RowMeasure(p, g, rows)

GroupedFindings(p, i, groups) ==
    [records |-> Cardinality(groups),   \* expected_source_rows of the configuration
     gates   |-> [g \in p.gates |-> Measure(p, g, i.walk, i.rows, groups)],
     faults  |-> Exceptions(p, i.read),
     placed  |-> PlacedExceptions(p, i.read)]

Findings(p, i) == GroupedFindings(p, i, Groups(p, i.rows))

\* What no review accepts: rows left out, one identifier in two records, one
\* section twice in a record, one row twice, one number twice, rows of a record
\* that disagree, where the parser says so.
Sound(p, findings) ==
    /\ "complete" \in p.gates => findings.gates["complete"] = 0
    /\ \A g \in p.gates \cap {"distinct", "once", "unique", "serial", "agree"} : findings.gates[g]

AsRecorded(p, found, known) ==
    /\ found.records = known.records
    /\ found.faults \subseteq known.faults
    /\ found.placed = known.placed
    /\ "twins" \in p.gates => known.gates["twins"] \subseteq found.gates["twins"]
    /\ "names" \in p.gates => found.gates["names"] \subseteq known.gates["names"]
    /\ \A g \in p.gates \ {"twins", "names"} : found.gates[g] = known.gates[g]

----------------------------------------------------------------------------
(* The parser, with what its review recorded.                               *)

Refused == [ok |-> FALSE, rows |-> <<>>]

\* The rows that the walk over a document takes.
RowsTaken(p, document) == Sorted(p, Scanned(p, document).taken)

\* The walk and its rows: as they are taken, as they are read with the repairs
\* written for the known rows, and as they are completed.
Interpretation(p, s, taken, read, completable, known) ==
    [ok    |-> /\ ~s.refused /\ taken # <<>>
               /\ RepairsFit(p, taken, known)
               /\ ~Ambiguous(p, read) /\ ~Colliding(p, taken),
     walk  |-> [s EXCEPT !.left = @ + Cardinality(Orphans(p, read, completable)),
                         !.completed = Cardinality(completable)],
     taken |-> taken,
     read  |-> read,
     rows  |-> Completed(p, read, completable)]

WithCompletions(p, s, taken, read, known) ==
    Interpretation(p, s, taken, read, Completable(p, read), known)

WithRepairs(p, s, taken, known) == WithCompletions(p, s, taken, Repaired(p, taken, known), known)

\* What a parser makes of a document before it compares anything.
Interpreted(p, document, known) ==
    WithRepairs(p, Scanned(p, document), RowsTaken(p, document), known)

Judged(p, i, known) ==
    IF i.ok /\ AsRecorded(p, Findings(p, i), known.findings) THEN [ok |-> TRUE, rows |-> i.rows] ELSE Refused

Parsed(p, document, known) == Judged(p, Interpreted(p, document, known.taken), known)

----------------------------------------------------------------------------
(* A review reads the document and writes its findings into the parser.     *)
(* Then the library changes how it reads the page, and the parser runs.     *)

\* Data rows carry printed numbers in the order of the page.
Numbered(document) ==
    [i \in DOMAIN document |->
        [document[i] EXCEPT !.no = Cardinality({j \in 1 .. i : document[j].kind = "row"})]]

Init ==
    /\ parser \in DOMAIN Parsers /\ description = Parsers[parser]
    /\ reviewed = None /\ recorded = None
    /\ extracted = None /\ drift = None
    /\ result = None

Record(document, i, findings) ==
    /\ i.ok /\ Sound(description, findings)
    /\ reviewed' = document
    /\ recorded' = [taken |-> i.taken, rows |-> i.rows, findings |-> findings]
    /\ extracted' = document
    /\ UNCHANGED <<parser, description, drift, result>>

RecordFindings(document, i) == Record(document, i, Findings(description, i))

RecordReview(document) ==
    RecordFindings(document, Interpreted(description, document, RowsTaken(description, document)))

Review(document) == reviewed = None /\ RecordReview(Numbered(document))

Extract(kind, rows) ==
    /\ reviewed # None /\ drift = None /\ result = None
    /\ extracted' = rows
    /\ drift' = kind
    /\ UNCHANGED <<parser, description, reviewed, recorded, result>>

LoseRow(i) == Extract("lose", RemoveAt(reviewed, i))

RepeatRow(i) == Extract("repeat", InsertAt(reviewed, i, reviewed[i]))

ExchangeRows(i) ==
    /\ i + 1 \in DOMAIN reviewed
    /\ Extract("exchange", [reviewed EXCEPT ![i] = reviewed[i + 1], ![i + 1] = reviewed[i]])

\* Where the section is that of a page or of a heading, a row has no cell for it.
LoseCell(i, f) ==
    /\ reviewed[i].kind = "row" /\ reviewed[i][f] # Blank
    /\ f = "section" => description.under = "cell"
    /\ Extract(f, [reviewed EXCEPT ![i][f] = Blank])

\* Text that is cut off or run together is in no known form.
GarbleCell(i, f) ==
    /\ reviewed[i].kind = "row" /\ Is(reviewed[i], f)
    /\ f = "section" => description.under = "cell"
    /\ Extract(f, [reviewed EXCEPT ![i][f] = "x"])

\* A name of several lines may come as two rows: what it begins with, and the rest.
BreakRow(i) ==
    /\ reviewed[i].kind = "row" /\ Is(reviewed[i], "name")
    /\ Extract("break", InsertAt([reviewed EXCEPT ![i].name = "x"], i + 1,
                                 [reviewed[i] EXCEPT !.kind = "tail"]))

Parse ==
    /\ reviewed # None /\ result = None
    /\ result' = Parsed(description, extracted, recorded)
    /\ UNCHANGED <<parser, description, reviewed, recorded, extracted, drift>>

Drift ==
    /\ reviewed # None
    /\ \E i \in DOMAIN reviewed :
          \/ LoseRow(i) \/ RepeatRow(i) \/ ExchangeRows(i) \/ BreakRow(i)
          \/ \E f \in Fields : LoseCell(i, f) \/ GarbleCell(i, f)

Next ==
    \/ \E d \in Documents(description) : Review(d)
    \/ Drift
    \/ Parse

Spec == Init /\ [][Next]_vars
===============================================================================
