------------------------------ MODULE SourceRows ------------------------------
(***************************************************************************)
(* What the parsers of reviewed documents have in common.  A parser walks   *)
(* over the physical rows that a library extracted from one document,       *)
(* passes over titles and headers, refuses what was not reviewed, joins     *)
(* broken text to its row, groups rows that describe one observation, and   *)
(* compares what it found with what the review of that document recorded.   *)
(* white_list_archive/parsers/ (one module per prefecture).                 *)
(*                                                                         *)
(* A parser is described by the record Plain and its exceptions to it; the  *)
(* modules TableSources, PositionedSources, CombinedSources,                *)
(* WorkbookSources and PageSources describe them one by one.                *)
(***************************************************************************)
EXTENDS Naturals, Sequences, FiniteSets

\* A physical row: its kind, where it is printed, its cells, what the page means by
\* it (the company a reader sees it belong to), and the companies whose text was
\* joined to it, in the order of that text.
Fields == {"name", "id", "from", "to", "note", "section"}

Blank == ""
Row == [kind |-> "row", page |-> 1, no |-> 0, name |-> "a", id |-> "1", from |-> "d1",
        to |-> "d2", note |-> Blank, section |-> "I", meant |-> "a", joined |-> <<>>]

\* All rows.  (The words written in these modules are strings; the provers do not
\* know it of a literal.)
Words == STRING \cup {Blank, "x", "tail"}
Rows == [kind : Words, page : Nat, no : Nat, name : Words, id : Words, from : Words, to : Words,
         note : Words, section : Words, meant : Words, joined : Seq(Words)]

\* Cells in the form that the review expects.
Formed == [name    |-> {"a", "b"},
           id      |-> {"1", "2"},
           from    |-> {"d1", "d2"},
           to      |-> {"d1", "d2"},
           note    |-> {"update", "pending"},
           section |-> {"I", "II"}]

No(f) == <<"no", f>>
Bad(f) == <<"bad", f>>
Some(f) == <<"some", f>>

Anonymous == <<"no", "name and id">>
Unmarked == <<"no", "date and note">>
Undated == <<"no", "date">>
Bare == <<"no", "id and date">>
HalfDated == <<"dates", "half">>
Inverted == <<"dates", "inverted">>
Unreadable == <<"dates", "unreadable">>
Premature == <<"dates", "before the decision">>
Endless == <<"dates", "without an expiry">>

\* Cells that must be there in a known form.
Formless(f) == {No(f), Bad(f)}

Is(r, f) == r[f] \in Formed[f]

\* Everything about a row that a parser may look at.
Faults(r) ==
    {No(f) : f \in {g \in Fields : r[g] = Blank}}
        \cup {Some(f) : f \in {g \in Fields : r[g] # Blank}}
        \cup {Bad(f) : f \in {g \in Fields : r[g] # Blank /\ ~Is(r, g)}}
        \cup {x \in {Anonymous} : r.name = Blank /\ r.id = Blank}
        \cup {x \in {Unmarked} : r.from = Blank /\ r.note = Blank}
        \cup {x \in {Undated} : r.from = Blank /\ r.to = Blank}
        \cup {x \in {Bare} : ~Is(r, "id") /\ r.from = Blank /\ r.to = Blank}
        \cup {x \in {HalfDated} : (r.from = Blank) # (r.to = Blank)}
        \cup {x \in {Inverted} : r.from = "d2" /\ r.to = "d1"}
        \cup {x \in {Unreadable} : ~Is(r, "from") /\ ~Is(r, "to")}
        \cup {x \in {Premature} : r.note = "pending" /\ r.to # Blank}
        \cup {x \in {Endless} : r.note # "pending" /\ r.to = Blank}

----------------------------------------------------------------------------
(* The description of a parser.                                             *)

Plain ==
    [passed   |-> {"blank", "title", "header"}, \* rows without a record
     refused  |-> {},      \* faults of a row that stop the parser
     skipped  |-> {},      \* faults for which a row is not of the list
     dropped  |-> {},      \* faults for which a row is left out, and counted
     reviewed |-> {},      \* faults that no other row may have than at the review
     placed   |-> {},      \* faults of exactly the rows of the review, in their places
     repaired |-> {},      \* the review supplies the name, if the row is as it was
     supplied |-> {},      \* the review supplies the name, whatever is in the row
     carries  |-> {},      \* the row is of the company above it
     recovers |-> FALSE,   \* a missing name is read beside the date of the row
     ordered  |-> FALSE,   \* dates are told apart by their order only
     sorted   |-> FALSE,   \* rows come in the order of their printed numbers
     peers    |-> "none",  \* how another row of the company supplies dates
     joins    |-> {},      \* fragments of text that belong to a row
     flows    |-> {},      \* faults for which a row is only text of its neighbour
     under    |-> "cell",  \* where the section of a row is read
     key      |-> {},      \* cells that tell records apart; none: a row is a record
     shows    |-> "first", \* of several names that of the first row, or a chosen one
     status   |-> {},      \* cells that the status depends on
     gates    |-> {}]      \* what must be as it was reviewed

\* The reviewed cells of one row; not how the page was read.
Cells(r) == [f \in Fields \cup {"page"} |-> r[f]]

\* open: the row right above is of the same table.
Begin == [refused |-> FALSE, section |-> Blank, held |-> <<>>, taken |-> <<>>, open |-> FALSE,
          layout |-> {}, left |-> 0, carried |-> 0, completed |-> 0, fragments |-> 0]

Refuse(s) == [s EXCEPT !.refused = TRUE]

\* A fragment joins the row above it, or waits for the row below it.
Join(s, r) ==
    [s EXCEPT !.taken[Len(s.taken)].joined = Append(@, r.meant), !.fragments = @ + 1]

Hold(s, r) == [s EXCEPT !.held = Append(@, r.meant), !.fragments = @ + 1]

\* Text without a row of its own.
Text(p, s, r) ==
    IF s.taken # <<>> THEN Join(s, r)
    ELSE IF "lead" \in p.joins THEN Hold(s, r)
    ELSE IF "other" \in p.passed THEN s
    ELSE Refuse(s)

Take(s, r) ==
    [s EXCEPT !.taken = Append(@, [r EXCEPT !.joined = s.held \o @]), !.held = <<>>, !.open = TRUE]

PassOver(s, at, r) ==
    [s EXCEPT !.layout = @ \cup {<<at, r.kind, r.page, r.section>>}, !.open = FALSE]

\* The name on the page beside the first row that has the date of this one.
NameBeside(document, r) ==
    LET Dated(i) == document[i].kind = "row" /\ document[i].page = r.page /\ document[i].from = r.from
    IN document[CHOOSE i \in DOMAIN document : Dated(i) /\ \A j \in 1 .. i - 1 : ~Dated(j)].meant

UnderHeading(p, s, r) == IF p.under = "heading" THEN [r EXCEPT !.section = s.section] ELSE r

\* Mutant: every parser tells dates apart by their order.
FirstDateFirst(p, r) ==
    IF r.from = Blank THEN [r EXCEPT !.from = r.to, !.to = Blank] ELSE r

InOrder(p, r) ==
    IF p.ordered /\ r.from = Blank THEN [r EXCEPT !.from = r.to, !.to = Blank] ELSE r

Named(p, document, r) ==
    IF p.recovers /\ r.name = Blank THEN [r EXCEPT !.name = NameBeside(document, r)] ELSE r

Carries(p, s, r) == Faults(r) \cap p.carries # {} /\ s.open /\ s.taken[Len(s.taken)].page = r.page

\* The company of a row is that of the row above it, or its own.
Belonging(r, above, carried) ==
    IF carried THEN [r EXCEPT !.name = above.name, !.id = above.id] ELSE r

\* A row as the parser reads it.
Read(p, s, document, r) ==
    Belonging(Named(p, document, InOrder(p, UnderHeading(p, s, r))),
              s.taken[Len(s.taken)], Carries(p, s, r))

\* What becomes of a row with these faults.
Enter(p, s, r, read, faults) ==
    LET Has(kinds) == faults \cap kinds # {}
    IN IF Has(p.flows) THEN Text(p, s, r)
       ELSE IF Has(p.skipped) THEN [s EXCEPT !.open = FALSE]
       ELSE IF Has(p.dropped) THEN [s EXCEPT !.left = @ + 1, !.open = FALSE]
       ELSE IF Has(p.refused) THEN Refuse(s)
       ELSE Take([s EXCEPT !.carried = @ + (IF Carries(p, s, r) THEN 1 ELSE 0)], read)

EnterAsRead(p, s, r, read) == Enter(p, s, r, read, Faults(read))

Company(p, s, document, r) == EnterAsRead(p, s, r, Read(p, s, document, r))

\* The rest of a row at the top of the next page.
AtTop(s, r) == s.taken # <<>> /\ s.taken[Len(s.taken)].page # r.page

Joins(p, s, r) ==
    /\ r.kind = "tail"
    /\ \/ "tail" \in p.joins
       \/ "next" \in p.joins /\ s.open
       \/ "top" \in p.joins /\ AtTop(s, r)

Scan(p, s, document, at, r) ==
    IF s.refused THEN s
    ELSE IF r.kind = "row" THEN Company(p, s, document, r)
    ELSE IF Joins(p, s, r) THEN Text(p, s, r)
    ELSE IF r.kind = "lead" /\ "lead" \in p.joins THEN Hold(s, r)
    ELSE IF r.kind = "section" /\ p.under = "heading"
        THEN [PassOver(s, at, r) EXCEPT !.section = r.section]
    ELSE IF r.kind \in p.passed THEN PassOver(s, at, r)
    ELSE Refuse(s)

\* Text that waits for a row at the end is refused.
Close(s) == IF s.held # <<>> THEN Refuse(s) ELSE s

\* What the parser knows after each row.
Walk(p, document) ==
    LET upTo[n \in 0 .. Len(document)] ==
            IF n = 0 THEN Begin ELSE Scan(p, upTo[n - 1], document, n, document[n])
    IN upTo

\* The whole document.
Scanned(p, document) == Close(Walk(p, document)[Len(document)])
===============================================================================
