--------------------------- MODULE CombinedSources ---------------------------
(***************************************************************************)
(* The parsers of documents that hold listed companies and applicants.      *)
(***************************************************************************)
EXTENDS SourceRows

\* Ancona.  Names that the library merges or moves are known by page and row.
AnconaRow == [Plain EXCEPT
    !.refused = {No("id"), HalfDated, Bad("note"), Bad("section")},
    !.reviewed = {Bad("from"), Bad("to")},
    !.status = {"note", "from"}]

AnconaRepairs == {No("name"), Bad("name")}

AnconaCombined == [AnconaRow EXCEPT
    !.repaired = AnconaRepairs,
    !.gates = {"headers", "pages", "rows", "status"}]

\* Enna.  The first page holds applicants; each other page is of one section.
EnnaRow == [Plain EXCEPT
    !.refused = {No("name"), Bad("note")} \cup Formless("id") \cup Formless("from"),
    !.gates = {"headers", "pages"}]

EnnaApplicants == [EnnaRow EXCEPT
    !.refused = @ \cup Formless("section") \cup {No("note")},
    !.gates = @ \cup {"distinct"}]

EnnaListed == [EnnaRow EXCEPT
    !.refused = @ \cup Formless("to"),
    !.under = "page",
    !.key = {"name", "id", "from", "to", "note"},
    !.status = {"note"},
    !.gates = @ \cup {"headings", "notes", "status", "coverage"}]

\* Belluno.  The status text says whether an expiry must be there.
BellunoRow == [Plain EXCEPT
    !.refused = {No("name"), Bad("note"), Bad("to"), Premature, Endless}
                    \cup Formless("section") \cup Formless("from"),
    !.status = {"note"}]

BellunoCombined == [BellunoRow EXCEPT !.gates = {"headers", "rows"}]

\* Pesaro e Urbino.  Both dates, or neither and a note.
PesaroRow == [Plain EXCEPT
    !.refused = {No("name"), No("id"), Bad("note"), HalfDated, Unmarked, Bad("from"), Bad("to")},
    !.status = {"note"}]

PesaroCombined == [PesaroRow EXCEPT !.gates = {"headers", "rows"}]

\* Cremona.  Printed numbers and malformed identifiers are those of the review.
CremonaRow == [Plain EXCEPT
    !.refused = {No("name"), No("id"), HalfDated, Bad("from"), Bad("to"), Bad("note"),
                 Premature, Unmarked} \cup Formless("section"),
    !.status = {"note"}]

CremonaRows == [CremonaRow EXCEPT !.gates = {"pages", "rows", "numbers"}]

CremonaCombined == [CremonaRows EXCEPT
    !.placed = {Bad("id")},
    !.gates = @ \cup {"status", "coverage"}]

\* Cosenza.  A line that holds a name and a date or an identifier starts a
\* record; every line up to the next start is text of it.  No count is checked.
CosenzaLines == [Plain EXCEPT
    !.passed = @ \cup {"other"},
    !.joins = {"tail"},
    !.flows = {No("name"), Bare, Unmarked}]

CosenzaCombined == CosenzaLines

\* Forli-Cesena.  Malformed identifiers must be the reviewed ones.
ForliRow == [Plain EXCEPT
    !.refused = {No("name"), HalfDated, Bad("from"), Bad("to"), Unmarked} \cup Formless("section"),
    !.status = {"note"}]

ForliBlock == [ForliRow EXCEPT
    !.reviewed = Formless("id"),
    !.gates = {"rows", "faults"}]

ForliCombined == [ForliBlock EXCEPT !.gates = @ \cup {"status", "coverage", "repeats", "blanks"}]

\* Ravenna.  Numbered rows; the name of one row is supplied if its other cells
\* are those of the review.
RavennaRow == [Plain EXCEPT
    !.refused = {Bad("section")},
    !.reviewed = {Bad("from")},
    !.status = {"note", "from"}]

RavennaRepairs == {No("name")}

RavennaCombined == [RavennaRow EXCEPT
    !.repaired = RavennaRepairs,
    !.gates = {"headers", "pages", "rows", "serial", "status", "coverage", "malformed"}]

===============================================================================
