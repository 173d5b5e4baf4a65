---------------------------- MODULE WorkbookSources ----------------------------
(***************************************************************************)
(* The parsers of workbooks and of sheets exported as text.  The cells of a *)
(* sheet have coordinates, so titles, headers and footers are expected at   *)
(* their rows.                                                              *)
(***************************************************************************)
EXTENDS SourceRows

\* Fermo.  Numbered rows; the numbers have known gaps.  Rows with a number only
\* end the sheet.
FermoRow == [Plain EXCEPT
    !.skipped = {Anonymous},
    !.refused = {No("name"), No("id")} \cup Formless("section"),
    !.gates = {"numbers", "layout", "rows", "coverage", "faults"}]

FermoListed == [FermoRow EXCEPT
    !.refused = @ \cup Formless("to") \cup {Bad("note")},
    !.reviewed = {Bad("id")} \cup Formless("from"),
    !.status = {"note"},
    !.gates = @ \cup {"notes", "status"}]

FermoApplicants == [FermoRow EXCEPT
    !.refused = @ \cup {Some("note")},
    !.reviewed = {Bad("id")} \cup Formless("from")]

\* Lodi.  Every structural row has its row number; a section opens with a
\* heading, its activity and its header.
LodiListedRows == [Plain EXCEPT
    !.refused = UNION {Formless(f) : f \in {"id", "from", "to"}}
                    \cup {No("section"), Inverted, Bad("note")},
    !.under = "heading",
    !.status = {"note"},
    !.gates = {"layout"}]

LodiListed == [LodiListedRows EXCEPT
    !.key = {"id", "from", "to", "note"},
    !.gates = @ \cup {"rows", "sections", "row status", "sizes", "status"}]

LodiApplicants == [Plain EXCEPT
    !.refused = UNION {Formless(f) : f \in {"id", "from", "note"}},
    !.status = {"note"},
    !.gates = {"layout", "rows", "distinct", "status"}]

\* Catania.  Expiries are formulas over the listing date of the same row; what
\* the sheet has wrong is known by row number.
CataniaRow == [Plain EXCEPT
    !.refused = {No("name"), No("section"), No("from")},
    !.gates = {"layout", "rows", "coverage"}]

CataniaListed == [CataniaRow EXCEPT
    !.placed = {Bad("section"), Bad("from")} \cup Formless("to"),
    !.status = {"note"},
    !.gates = @ \cup {"status"}]

CataniaApplicants == [CataniaRow EXCEPT
    !.refused = @ \cup {No("id"), Some("note"), Bad("section"), Bad("from")},
    !.placed = {Bad("id")}]

\* Matera.  Two sheets; the status is a column of each.
MateraRow == [Plain EXCEPT
    !.refused = {No("name"), No("id"), Bad("section")} \cup Formless("from"),
    !.gates = {"layout", "rows"}]

MateraListed == [MateraRow EXCEPT !.refused = @ \cup Formless("to") \cup {Bad("note")}]

MateraApplicants == [MateraRow EXCEPT
    !.refused = @ \cup {Bad("note")},
    !.status = {"note"},
    !.gates = @ \cup {"row status"}]

\* Arezzo.  One sheet per section; a row without what a record needs is left
\* out, and the caller refuses a batch that left one out.
ArezzoRow == [Plain EXCEPT !.gates = {"headers", "complete"}]

ArezzoListed == [ArezzoRow EXCEPT
    !.dropped = {No("name"), No("id"), No("from")} \cup Formless("to"),
    !.under = "page",
    !.key = {"name", "id", "from", "to", "note"},
    !.status = {"note"},
    !.gates = @ \cup {"rows"}]

ArezzoApplicants == [ArezzoRow EXCEPT
    !.dropped = {No("name"), No("id")} \cup Formless("from"),
    !.refused = {Bad("section")}]

\* Campobasso.  Sections are headings on one sheet; rows without a name or a
\* date are passed over, and the section counts are known.
CampobassoRow == [Plain EXCEPT !.refused = {Bad("from"), Bad("to"), Bad("note")}]

CampobassoListed == [CampobassoRow EXCEPT
    !.passed = @ \cup {"tail"},
    !.skipped = {No("name"), No("from"), No("to")},
    !.under = "heading",
    !.key = {"name", "id", "from", "to"},
    !.status = {"note"},
    !.gates = {"headers", "sections", "rows", "once", "status"}]

CampobassoApplicants == [CampobassoRow EXCEPT
    !.refused = @ \cup {No("name"), No("from")},
    !.key = {"name", "id", "from", "section"},
    !.gates = {"headers", "once"}]

\* Sassari.  Requests stand in the date columns; anomalies are known by name.
SassariRow == [Plain EXCEPT
    !.refused = {No("name"), Bad("to")} \cup Formless("section"),
    !.reviewed = {Bad("id"), Bad("from")},
    !.gates = {"headers", "faults"}]

SassariCombined == [SassariRow EXCEPT
    !.status = {"from", "note"},
    !.gates = @ \cup {"rows", "status", "coverage"}]

\* Grosseto.  The section of a row follows from its place on the sheet.
GrossetoRow == [Plain EXCEPT
    !.refused = {No("name"), Bad("from"), Bad("to"), Bad("note")},
    !.under = "heading",
    !.gates = {"layout"}]

GrossetoListed == [GrossetoRow EXCEPT
    !.key = {"name", "id", "from", "to", "note"},
    !.status = {"note"},
    !.gates = @ \cup {"rows", "sections", "once", "status", "coverage", "blanks"}]

GrossetoApplicants == [GrossetoRow EXCEPT
    !.refused = @ \cup {No("from")},
    !.key = {"name", "id", "from"},
    !.gates = @ \cup {"rows", "sections", "once", "coverage"}]

\* Brescia.  Company names stand in a neighbouring column of known rows, and a
\* malformed date is that of another row of the same company, where one other
\* row has it.
BresciaListedRows == [Plain EXCEPT
    !.passed = @ \cup {"other"},
    !.refused = {No("from"), No("to"), Bad("note")},
    !.reviewed = {Bad("from"), Bad("to")},
    !.repaired = {No("name")},
    !.under = "heading",
    !.gates = {"headers", "layout", "sections", "rows"}]

BresciaPeers == "match"

BresciaListed == [BresciaListedRows EXCEPT
    !.peers = BresciaPeers,
    !.key = {"name", "id", "from", "to"},
    !.status = {"note"},
    !.gates = @ \cup {"completed", "once", "status"}]

BresciaApplicants == [Plain EXCEPT
    !.refused = {No("name"), No("id"), No("section")},
    !.reviewed = Formless("from"),
    !.key = {"name", "id", "section", "from"},
    !.gates = {"headers", "rows", "blanks", "malformed"}]

\* Piacenza.  A workbook in an archive; nothing may stand outside the reviewed
\* range.
PiacenzaRow == [Plain EXCEPT
    !.refused = {No("name"), No("id"), Bad("note")} \cup Formless("section"),
    !.gates = {"layout", "rows", "coverage"}]

PiacenzaListed == [PiacenzaRow EXCEPT
    !.refused = @ \cup {No("from"), No("to")},
    !.status = {"note"},
    !.gates = @ \cup {"status", "malformed"}]

PiacenzaApplicants == [PiacenzaRow EXCEPT !.refused = @ \cup Formless("from")]

\* Firenze.  The sheets of Arezzo, with everything counted.
FirenzeListed == [ArezzoListed EXCEPT !.gates = @ \cup {"status", "coverage", "malformed"}]

\* Imperia.  One sheet per section; malformed listing dates are counted.
ImperiaRow == [Plain EXCEPT
    !.refused = {No("name")},
    !.reviewed = {Bad("from")}]

ImperiaListedRows == [ImperiaRow EXCEPT
    !.refused = @ \cup Formless("to") \cup {Bad("note")},
    !.under = "page",
    !.gates = {"sections", "rows"}]

ImperiaListed == [ImperiaListedRows EXCEPT
    !.key = {"name", "id", "from", "to", "note"},
    !.status = {"note"},
    !.gates = @ \cup {"once", "malformed", "status", "notes", "coverage"}]

ImperiaApplicantRows == [ImperiaRow EXCEPT
    !.joins = {"tail"},
    !.gates = {"headers", "fragments"}]

ImperiaApplicants == [ImperiaApplicantRows EXCEPT
    !.refused = @ \cup {Bad("note")},
    !.status = {"note"},
    !.gates = @ \cup {"status", "coverage", "malformed", "blanks"}]

\* Prato.  A section per sheet; a company with several has a row in each.
PratoRow == [Plain EXCEPT !.refused = {No("name"), No("id")} \cup Formless("from")]

PratoListed == [PratoRow EXCEPT
    !.refused = @ \cup Formless("to") \cup {Bad("note")},
    !.under = "page",
    !.key = {"name", "id", "from", "to", "note"},
    !.status = {"note"},
    !.gates = {"headers", "sections", "rows", "once", "status"}]

PratoApplicantRows == [PratoRow EXCEPT !.gates = {"rows"}]

PratoApplicants == [PratoApplicantRows EXCEPT
    !.refused = @ \cup {No("section"), Some("note")},
    !.gates = @ \cup {"coverage"}]

\* Bolzano.  A word-processor document with a table per section; the text of an
\* update does not tell records apart.
BolzanoRow == [Plain EXCEPT
    !.refused = {No("name"), No("from")},
    !.reviewed = {Bad("from")}]

BolzanoListed == [BolzanoRow EXCEPT
    !.refused = @ \cup {No("to"), Bad("note")},
    !.reviewed = @ \cup {Bad("to")},
    !.under = "page",
    !.key = {"name", "id", "from", "to"},
    !.status = {"note"},
    !.gates = {"headers", "sections", "rows", "notes", "unique", "once", "status"}]

BolzanoApplicants == [BolzanoRow EXCEPT
    !.refused = @ \cup {Some("note")},
    !.gates = {"unique", "rows"}]

===============================================================================
