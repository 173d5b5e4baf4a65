------------------------------ MODULE PageSources ------------------------------
(***************************************************************************)
(* The parsers of web pages and of documents read as text.                  *)
(***************************************************************************)
EXTENDS SourceRows

\* Como.  A page with one table per population; rows of another width belong
\* to the page.  The review approved the records, not the bytes.
ComoTables == [Plain EXCEPT
    !.passed = @ \cup {"other"},
    !.gates = {"digest"}]

ComoListed == [ComoTables EXCEPT
    !.skipped = {Anonymous},
    !.refused = {No("name")},
    !.status = {"note"}]

ComoApplicants == [ComoTables EXCEPT
    !.skipped = {Anonymous},
    !.refused = {No("name"), No("id")} \cup Formless("from")]

\* Chieti.  A word-processor document, read with an external program; listed
\* companies stand under the activities.
ChietiRow == [Plain EXCEPT
    !.status = {"note"},
    !.gates = {"headings", "rows", "status", "coverage"}]

ChietiListedRows == [ChietiRow EXCEPT
    !.refused = {No("id"), No("section")},
    !.reviewed = {No("name")},
    !.under = "heading"]

ChietiListed == [ChietiListedRows EXCEPT !.key = {"name", "id", "from", "to", "note"}]

ChietiApplicants == [ChietiRow EXCEPT
    !.refused = {No("name"), Bad("note")},
    !.gates = @ \cup {"notes"}]

\* Milano.  One table per section; a request or an update may stand in the date
\* column.  A company has one record.
MilanoRow == [Plain EXCEPT
    !.refused = {No("name"), HalfDated, Unmarked, Bad("from"), Bad("to")} \cup Formless("id"),
    !.under = "heading",
    !.status = {"from", "note"},
    !.gates = {"headings", "headers", "rows"}]

MilanoCombined == [MilanoRow EXCEPT
    !.key = {"name", "id", "from", "to", "note"},
    !.gates = @ \cup {"once", "distinct", "status", "coverage"}]

\* Ascoli Piceno.  A record is a run of labelled lines.
AscoliRow == [Plain EXCEPT
    !.joins = {"tail"},
    !.refused = {No("name"), No("id"), No("section")},
    !.gates = {"rows"}]

AscoliListed == [AscoliRow EXCEPT
    !.refused = @ \cup Formless("from") \cup Formless("to") \cup Formless("note"),
    !.status = {"note"},
    !.gates = @ \cup {"status"}]

AscoliApplicants == [AscoliRow EXCEPT !.refused = @ \cup Formless("from") \cup Formless("note")]

\* Biella.  Two pages with one digest over the text of their tables.
BiellaTables == [Plain EXCEPT
    !.passed = @ \cup {"other"},
    !.skipped = {Anonymous},
    !.refused = {No("name"), No("id")},
    !.gates = {"digest"}]

BiellaApplicants == [BiellaTables EXCEPT
    !.refused = @ \cup {Bad("from"), Bad("note")},
    !.status = {"note"},
    !.gates = @ \cup {"rows"}]

BiellaListedRows == [BiellaTables EXCEPT
    !.refused = @ \cup {No("section")},
    !.under = "heading",
    !.gates = @ \cup {"heading count"}]

BiellaListed == [BiellaListedRows EXCEPT
    !.refused = @ \cup Formless("from") \cup {Bad("to"), Bad("note")},
    !.key = {"name", "id", "from", "to", "note"},
    !.status = {"note"},
    !.gates = @ \cup {"rows"}]

\* Pescara.  A word-processor document read as text; a company that several
\* headings name is one record.
PescaraRow == [Plain EXCEPT !.reviewed = {Bad("id")}]

PescaraListedRows == [PescaraRow EXCEPT
    !.refused = {No("name")},
    !.under = "heading",
    !.gates = {"headings", "rows"}]

PescaraListed == [PescaraListedRows EXCEPT
    !.refused = @ \cup {Bad("note")},
    !.reviewed = @ \cup {Bad("from"), Bad("to")},
    !.key = {"name", "id", "from", "to", "note"},
    !.status = {"note"},
    !.gates = @ \cup {"memberships", "status", "coverage", "malformed", "faults"}]

PescaraApplicantRows == [PescaraRow EXCEPT
    !.joins = {"tail"},
    !.gates = {"headers", "joined", "rows"}]

PescaraApplicants == [PescaraApplicantRows EXCEPT
    !.refused = {Bad("from")},
    !.gates = @ \cup {"coverage", "faults"}]

\* Potenza.  A page of numbered rows under one digest.
PotenzaRow == [Plain EXCEPT !.refused = {Bad("from"), Bad("to"), Bad("note")}]

PotenzaCombined == [PotenzaRow EXCEPT
    !.refused = @ \cup {No("name")},
    !.status = {"note"},
    !.gates = {"rows", "serial", "digest"}]

\* Taranto.  The tables of a page, under one digest each.
TarantoTables == [Plain EXCEPT
    !.refused = {No("name"), Bad("section")},
    !.gates = {"headers", "digest"}]

TarantoListed == [TarantoTables EXCEPT
    !.refused = @ \cup {Bad("note")},
    !.status = {"note"}]

TarantoApplicants == TarantoTables

\* Viterbo.  The printed pages of a web list, with the text between two labels for a
\* name; both populations have one reader.
ViterboRow == [Plain EXCEPT
    !.joins = {"tail"},
    !.refused = {No("name"), No("id"), No("section"), Bad("note")} \cup Formless("from"),
    !.status = {"note"}]

ViterboPages == [ViterboRow EXCEPT
    !.gates = {"pages", "notes", "status", "sections", "distinct", "faults", "coverage"}]

ViterboListed == [ViterboPages EXCEPT
    !.refused = @ \cup Formless("to"),
    !.reviewed = {Bad("id")}]

ViterboApplicants == [ViterboPages EXCEPT !.refused = @ \cup {No("note"), Bad("id")}]

===============================================================================
