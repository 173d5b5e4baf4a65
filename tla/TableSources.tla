----------------------------- MODULE TableSources -----------------------------
(***************************************************************************)
(* The parsers of tables in PDF documents.                                  *)
(***************************************************************************)
EXTENDS SourceRows

\* Messina.  Every page repeats the header; applicants have their dates beside
\* the table, one for each row.
MessinaRow == [Plain EXCEPT
    !.refused = {No("name"), Bad("section"), Bad("note")} \cup Formless("from"),
    !.gates = {"headers", "pages", "rows"}]

MessinaListed == [MessinaRow EXCEPT
    !.refused = @ \cup Formless("id") \cup Formless("to"),
    !.status = {"note"},
    !.gates = @ \cup {"status", "distinct"}]

MessinaApplicants == [MessinaRow EXCEPT
    !.placed = Formless("id"),
    !.gates = @ \cup {"coverage", "distinct"}]

\* Padova.  Names that the library loses are known by ordinal, as are dates of
\* no calendar and expiries before their listing.
PadovaRow == [Plain EXCEPT
    !.refused = Formless("from") \cup Formless("section"),
    !.gates = {"headers", "rows", "notes", "coverage"}]

PadovaListed == [PadovaRow EXCEPT
    !.refused = @ \cup {No("name")},
    !.placed = Formless("to") \cup {Inverted},
    !.status = {"note"},
    !.gates = @ \cup {"status"}]

\* Mutant: names are supplied by ordinal, whatever stands there.
PadovaSupplied == [PadovaRow EXCEPT
    !.supplied = {No("name")},
    !.gates = @ \cup {"twins"}]


PadovaApplicants == [PadovaRow EXCEPT
    !.repaired = {No("name")},
    !.gates = @ \cup {"twins"}]

\* Bari.  The ten sections are columns with a mark.  Rows that the library
\* breaks are supplied by page and row, without a look at what stands there.
BariRow == [Plain EXCEPT
    !.refused = {Bad("section")},
    !.reviewed = {Bad("from"), Bad("to")},
    !.gates = {"headers", "pages", "rows"}]

BariRepairs == {Bad("name")}

BariListed == [BariRow EXCEPT
    !.refused = @ \cup {No("section"), Bad("note")},
    !.supplied = BariRepairs \cup {No("name")},
    !.placed = {No("note")},
    !.status = {"note"},
    !.gates = @ \cup {"status"}]

BariApplicants == [BariRow EXCEPT
    !.refused = @ \cup Formless("note"),
    !.supplied = BariRepairs,
    !.placed = {No("name"), No("section")}]

\* Brindisi.  Rows of seven cells with a name and a date, under the section of
\* their page or of the last page that names one; applicants have bands of words
\* on the bounds of a table.
BrindisiListedRows == [Plain EXCEPT
    !.passed = @ \cup {"other", "tail"},
    !.skipped = {No("name")} \cup Formless("from"),
    !.under = "heading",
    !.gates = {"headings", "rows", "sections"}]

BrindisiListed == [BrindisiListedRows EXCEPT
    !.reviewed = {Bad("to")},
    !.key = {"identity", "from", "to", "note"},
    !.shows = "chosen",
    !.status = {"note"},
    !.gates = @ \cup {"row status", "status"}]

BrindisiApplicantRows == [Plain EXCEPT
    !.passed = @ \cup {"tail"},
    !.skipped = Formless("id"),
    !.refused = {No("name")},
    !.gates = {"headers", "pages"}]

BrindisiApplicants == [BrindisiApplicantRows EXCEPT
    !.refused = @ \cup {Bad("from")},
    !.placed = {No("from")},
    !.gates = @ \cup {"rows", "coverage"}]

\* Barletta-Andria-Trani.  A company row has an identifier and a date, or two
\* dates; what is below it continues it.  Dates are read in the order of their
\* cells, so the first that is left is the listing date.
BarlettaListedRows == [Plain EXCEPT
    !.passed = @ \cup {"other"},
    !.joins = {"tail"},
    !.flows = {No("name")},
    !.under = "heading",
    !.ordered = TRUE,
    !.gates = {"headings", "rows", "sections"}]

BarlettaListed == [BarlettaListedRows EXCEPT
    !.refused = {No("from")},
    !.reviewed = {Bad("from"), Bad("to")},
    !.key = {"identity", "from", "to", "note"},
    !.shows = "chosen",
    !.status = {"note"},
    !.gates = @ \cup {"row status"}]

BarlettaApplicants == [Plain EXCEPT
    !.passed = @ \cup {"other", "tail"},
    !.skipped = {No("name")} \cup Formless("from") \cup Formless("section"),
    !.joins = {"top"},
    !.gates = {"continued", "rows"}]

\* Cagliari.  Numbered rows with a section and both dates; all others are not
\* of the table.  A company with several sections has a row for each.
CagliariRow == [Plain EXCEPT !.passed = @ \cup {"other", "tail"}]

CagliariListed == [CagliariRow EXCEPT
    !.skipped = Formless("section") \cup Formless("from") \cup Formless("to"),
    !.key = {"name", "id", "from", "to", "note"},
    !.status = {"note"},
    !.gates = {"rows", "sections", "row status", "once", "status", "coverage"}]

CagliariApplicants == [CagliariRow EXCEPT
    !.skipped = {No("note")},
    !.refused = Formless("from") \cup {Bad("section")},
    !.gates = {"pages", "rows", "serial", "coverage"}]

\* Caltanissetta.  Rows of the width of the table with dates are companies.
CaltanissettaRow == [Plain EXCEPT
    !.passed = @ \cup {"other", "tail"},
    !.gates = {"rows", "unique", "coverage"}]

CaltanissettaListed == [CaltanissettaRow EXCEPT
    !.skipped = Formless("from") \cup Formless("to"),
    !.status = {"note"},
    !.gates = @ \cup {"status"}]

CaltanissettaApplicants == [CaltanissettaRow EXCEPT !.skipped = Formless("from")]

\* Caserta.  Rows are numbered without a gap, and what the page has wrong is
\* known by number.
CasertaRow == [Plain EXCEPT
    !.refused = {No("name")},
    !.gates = {"headers", "numbers", "rows", "coverage", "blanks", "notes"}]

CasertaListed == [CasertaRow EXCEPT
    !.refused = @ \cup {No("to"), No("section")},
    !.placed = {Bad("from"), Bad("to"), Bad("section"), No("id")},
    !.status = {"note"},
    !.gates = @ \cup {"status"}]

CasertaApplicants == [CasertaRow EXCEPT
    !.refused = @ \cup {Bad("section")},
    !.placed = {Bad("from"), No("section")}]

\* Catanzaro.  Every page is a table of one section; identifiers are marked.
CatanzaroRow == [Plain EXCEPT
    !.refused = {No("name"), No("id")},
    !.gates = {"headers", "rows", "coverage"}]

CatanzaroListed == [CatanzaroRow EXCEPT
    !.refused = @ \cup {No("from")},
    !.reviewed = Formless("to") \cup {Bad("from")},
    !.under = "page",
    !.key = {"name", "id", "from", "to", "note"},
    !.status = {"note"},
    !.gates = @ \cup {"sections", "once", "status"}]

CatanzaroApplicants == [CatanzaroRow EXCEPT
    !.reviewed = {Bad("from")},
    !.gates = @ \cup {"layout", "blanks", "malformed", "unique"}]

\* Crotone.  A row without a company is of the company above it; an applicant
\* that is split between two pages has its date on one of them.
CrotoneListed == [Plain EXCEPT
    !.carries = {Anonymous},
    !.refused = {No("name"), No("section")},
    !.reviewed = {Bad("from"), Bad("to")},
    !.under = "heading",
    !.key = {"name", "id", "from", "to", "note"},
    !.status = {"note"},
    !.gates = {"carried", "rows", "once", "status"}]

CrotoneApplicants == [Plain EXCEPT
    !.joins = {"top"},
    !.refused = {No("name"), No("id"), No("from")},
    !.reviewed = {Bad("from")},
    !.gates = {"fragments", "rows", "unique"}]

\* Ferrara.  Rows without identifier and dates continue the row right above
\* them.  One list is a bundle of a document for each section.
FerraraRow == [Plain EXCEPT !.joins = {"next"}]

FerraraOrdinary == [FerraraRow EXCEPT
    !.refused = {No("id"), No("to")},
    !.status = {"note"},
    !.gates = {"fragments", "rows", "status", "coverage", "malformed"}]

FerraraApplicants == [Plain EXCEPT
    !.refused = UNION {{No(f)} : f \in {"name", "id", "section"}} \cup Formless("from"),
    !.gates = {"layout", "rows", "coverage"}]

FerraraReconstructionRows == [FerraraRow EXCEPT
    !.refused = {No("name"), No("id"), No("to")},
    !.under = "page",
    !.gates = {"rows"}]

FerraraReconstruction == [FerraraReconstructionRows EXCEPT
    !.key = {"id", "from", "to", "note"},
    !.shows = "chosen",
    !.status = {"note"},
    !.gates = @ \cup {"sizes", "status", "coverage", "malformed"}]

\* Foggia.  A company is known by its identifier, and one that has several
\* names by the names of the review.
FoggiaRow == [Plain EXCEPT !.passed = @ \cup {"tail"}, !.gates = {"coverage"}]

FoggiaNames == {"names"}

FoggiaListed == [FoggiaRow EXCEPT
    !.skipped = {No("name"), No("id"), Undated},
    !.refused = {Bad("note")},
    !.under = "page",
    !.key = {"identity", "from", "to", "note"},
    !.shows = "chosen",
    !.status = {"note"},
    !.gates = {"rows", "status"} \cup FoggiaNames]

FoggiaApplicants == [FoggiaRow EXCEPT
    !.skipped = {No("name"), No("note")},
    !.refused = Formless("from") \cup {No("section"), Bad("note")},
    !.gates = @ \cup {"rows", "blanks"}]

\* Frosinone.  A row with a name and an identifier or a date opens a record, and
\* every other row is text of it.
FrosinoneRow == [Plain EXCEPT
    !.passed = @ \cup {"other"},
    !.joins = {"tail"},
    !.flows = {Bare},
    !.gates = {"fragments", "rows", "coverage", "malformed", "notes"}]

FrosinoneListed == [FrosinoneRow EXCEPT
    !.refused = {No("name"), Bad("note")},
    !.reviewed = {Bad("from"), Bad("to")},
    !.status = {"note"},
    !.gates = @ \cup {"layout", "status", "sections"}]

FrosinoneApplicants == [FrosinoneRow EXCEPT
    !.refused = {No("name")} \cup Formless("note"),
    !.reviewed = {Bad("from")},
    !.gates = @ \cup {"sections", "status"}]

\* Genova.  Tables that the library splits are put together from what the review
\* saw on their page, if the page still says so.
GenovaRow == [Plain EXCEPT
    !.refused = {Bad("note")},
    !.gates = {"rows"}]

GenovaListedShape == {No("from"), No("to")}

GenovaListed == [GenovaRow EXCEPT
    !.refused = @ \cup {No("name"), No("section")},
    !.reviewed = {Bad("from"), Bad("section")},
    !.placed = GenovaListedShape,
    !.status = {"note"},
    !.gates = @ \cup {"layout", "status"}]

GenovaSplitPage == {No("id")}

GenovaApplicants == [GenovaRow EXCEPT
    !.refused = @ \cup {No("section")},
    !.reviewed = {Bad("from"), Bad("section")},
    !.placed = GenovaSplitPage,
    !.repaired = {No("name")}]

\* Gorizia.  A word-processor document with a table per section, and a page of
\* applicants that must be, word by word, the reviewed ones.
GoriziaDates == {Bad("from"), Bad("to")}

GoriziaListedRows == [Plain EXCEPT
    !.refused = {No("name")},
    !.under = "page",
    !.gates = {"headers", "rows", "sections", "notes"}]

GoriziaListed == [GoriziaListedRows EXCEPT
    !.reviewed = GoriziaDates \cup {No("to")},
    !.key = {"name", "id", "from", "to"},
    !.status = {"note"},
    !.gates = @ \cup {"faults", "status"}]

GoriziaApplicants == [Plain EXCEPT
    !.passed = @ \cup {"other"},
    !.joins = {"tail"},
    !.flows = Formless("id"),
    !.gates = {"digest"}]

\* L'Aquila.  Rows of one table on each page; odd identifiers are those of the
\* review.
LaquilaRow == [Plain EXCEPT
    !.passed = @ \cup {"tail"},
    !.skipped = {No("name"), No("id"), No("from")},
    !.gates = {"pages", "rows"}]

LaquilaIdentifiers == {"ids", "coverage", "faults"}

LaquilaListed == [LaquilaRow EXCEPT
    !.refused = {Bad("from"), No("to"), Bad("note")},
    !.reviewed = {Bad("id"), Bad("to")},
    !.status = {"note"},
    !.gates = @ \cup LaquilaIdentifiers \cup {"status"}]

LaquilaApplicants == [LaquilaRow EXCEPT
    !.refused = {Bad("from")},
    !.reviewed = {Bad("id")},
    !.gates = @ \cup LaquilaIdentifiers \cup {"notes"}]

\* Mutant: the rows of a section are not counted.
LecceUncounted == [Plain EXCEPT
    !.refused = {No("name"), No("section")},
    !.placed = {Bad("from"), Bad("to")},
    !.under = "heading",
    !.gates = {"pages", "rows"}]

\* Lecce.  Sections open with a row of their own; malformed dates are known by
\* page and row.
LecceListedRows == [Plain EXCEPT
    !.refused = {No("name"), No("section")},
    !.placed = {Bad("from"), Bad("to")},
    !.under = "heading",
    !.gates = {"pages", "sections", "rows"}]

LecceListed == [LecceListedRows EXCEPT
    !.refused = @ \cup {Bad("note")},
    !.key = {"name", "id", "from", "to", "note"},
    !.status = {"note"},
    !.gates = @ \cup {"status", "coverage"}]

LecceApplicants == [Plain EXCEPT
    !.refused = {No("name"), No("id")} \cup Formless("from"),
    !.gates = {"headers", "pages", "rows", "coverage"}]

\* Lecco.  Cells are white rectangles beside the rectangle of a date.
LeccoRow == [Plain EXCEPT
    !.passed = @ \cup {"other", "tail"},
    !.skipped = Formless("from")]

LeccoListedRows == [LeccoRow EXCEPT !.gates = {"pages", "rows"}]

LeccoApplicantRows == [LeccoRow EXCEPT !.gates = {"pages", "rows"}]

LeccoRecords == {"status", "coverage"}

LeccoListed == [LeccoListedRows EXCEPT
    !.refused = {No("name"), Bad("section"), Bad("note")} \cup Formless("to"),
    !.reviewed = {No("section")} \cup Formless("id"),
    !.status = {"note"},
    !.gates = @ \cup LeccoRecords \cup {"faults", "distinct"}]

LeccoApplicants == [LeccoApplicantRows EXCEPT
    !.refused = {No("name"), Bad("note")} \cup Formless("id") \cup Formless("section"),
    !.status = {"note"},
    !.gates = @ \cup LeccoRecords]

\* Lucca.  Every row of the table is a company; the note stands with the expiry.
LuccaRow == [Plain EXCEPT
    !.refused = {No("name"), No("id"), No("section")} \cup Formless("from"),
    !.gates = {"headers", "pages", "rows"}]

LuccaIdentifiers == {"coverage", "ids", "faults"}

LuccaListed == [LuccaRow EXCEPT
    !.refused = @ \cup {Bad("note")},
    !.reviewed = {Bad("id")} \cup Formless("to"),
    !.status = {"note"},
    !.gates = @ \cup LuccaIdentifiers \cup {"status", "blanks"}]

LuccaApplicants == [LuccaRow EXCEPT
    !.reviewed = {Bad("id")},
    !.gates = @ \cup LuccaIdentifiers]

\* Macerata.  A company has the same row under each of its sections; an applicant
\* whose activities go on has a row for the rest of them.
MacerataListed == [Plain EXCEPT
    !.passed = @ \cup {"other", "tail"},
    !.skipped = Formless("from"),
    !.refused = {No("section"), Bad("note")},
    !.placed = Formless("id") \cup Formless("to"),
    !.under = "heading",
    !.key = {"name", "id", "from", "to", "note"},
    !.status = {"note"},
    !.gates = {"pages", "headings", "rows", "status", "coverage"}]

MacerataApplicants == [Plain EXCEPT
    !.joins = {"tail"},
    !.flows = {No("name")},
    !.refused = {Bad("note")},
    !.placed = Formless("id") \cup Formless("from"),
    !.status = {"note"},
    !.gates = {"pages", "fragments", "rows", "notes", "status", "coverage"}]

\* Modena.  Four documents of one layout; a page is of one section.
ModenaRow == [Plain EXCEPT !.gates = {"section count"}]

ModenaRows == [ModenaRow EXCEPT
    !.passed = @ \cup {"other", "tail"},
    !.skipped = {Undated},
    !.refused = {No("name"), No("id")},
    !.under = "page",
    !.gates = @ \cup {"rows"}]

ModenaBoundary == {"status", "coverage", "variants"}

ModenaListed == [ModenaRows EXCEPT
    !.placed = Formless("from") \cup Formless("to"),
    !.key = {"name", "id", "from", "to", "note"},
    !.status = {"note"},
    !.gates = @ \cup ModenaBoundary]

ModenaApplicants == [ModenaRows EXCEPT
    !.placed = {Bad("from")},
    !.key = {"name", "id", "from", "note"},
    !.gates = @ \cup ModenaBoundary]

\* Parma, Pistoia, Alessandria, Bologna and Aosta share the record that every
\* other parser makes; rows are found by the form of their date.
SharedRow == [Plain EXCEPT
    !.passed = @ \cup {"other", "tail"},
    !.skipped = Formless("from")]

ParmaCombined == [SharedRow EXCEPT
    !.skipped = @ \cup {No("section")},
    !.key = {"name", "id", "from", "note"},
    !.status = {"note"},
    !.gates = {"rows"}]

PistoiaListed == [SharedRow EXCEPT
    !.under = "heading",
    !.key = {"name", "id", "from", "to", "note"},
    !.status = {"note"},
    !.gates = {"rows"}]

\* The name of a row without one is read beside its date, where that date is
\* first on the page.
PistoiaNames == TRUE

PistoiaApplicants == [SharedRow EXCEPT
    !.recovers = PistoiaNames,
    !.dropped = {No("name"), No("id")},
    !.status = {"note"},
    !.gates = {"complete"}]

\* Rows without a readable pair of dates are of the one pair that the company
\* has elsewhere, or left out.
AlessandriaListed == [Plain EXCEPT
    !.passed = @ \cup {"other", "tail"},
    !.skipped = {Undated},
    !.dropped = {No("name"), No("id"), Unreadable},
    !.peers = "pair",
    !.under = "heading",
    !.key = {"name", "id", "note", "from", "to"},
    !.status = {"note"},
    !.gates = {"complete", "rows"}]

AlessandriaApplicants == [SharedRow EXCEPT
    !.dropped = {No("name"), No("id")},
    !.status = {"note"},
    !.gates = {"complete"}]

\* Cells stand at their distance from the first date of the row.
BolognaRows == [Plain EXCEPT
    !.passed = @ \cup {"other", "tail"},
    !.dropped = {No("name"), No("id")},
    !.gates = {"complete"}]

BolognaListed == [BolognaRows EXCEPT
    !.skipped = {Undated},
    !.dropped = @ \cup Formless("from"),
    !.status = {"note"}]

BolognaApplicants == [BolognaRows EXCEPT !.skipped = Formless("from")]

AostaRow == [SharedRow EXCEPT
    !.dropped = {No("name"), No("id")},
    !.gates = {"complete", "digest"}]

AostaListed == [AostaRow EXCEPT
    !.skipped = @ \cup Formless("to"),
    !.status = {"note"}]

AostaApplicants == [AostaRow EXCEPT !.status = {"note"}]

\* Napoli.  Rows are found by their printed number, each number once, and what
\* the page cuts off or runs together is known by number.
NapoliRow == [Plain EXCEPT !.gates = {"coverage"}]

NapoliRows == [NapoliRow EXCEPT
    !.passed = @ \cup {"other", "tail"},
    !.sorted = TRUE,
    !.gates = @ \cup {"rows"}]

NapoliPageBottoms == {No("name")}

NapoliSections == {Bad("section")}

NapoliListedDates == {Bad("from"), Bad("to")}

NapoliListed == [NapoliRows EXCEPT
    !.repaired = NapoliPageBottoms,
    !.placed = NapoliSections \cup NapoliListedDates \cup {Bad("note")},
    !.status = {"note"},
    !.gates = @ \cup {"status"}]

NapoliBoundaries == {Bad("name")}

NapoliApplicants == [NapoliRows EXCEPT
    !.refused = {No("name"), Bad("from")},
    !.repaired = NapoliBoundaries,
    !.placed = NapoliSections \cup {Some("note")},
    !.status = {"note"},
    !.gates = @ \cup {"status"}]

\* Pisa.  Three documents of one layout, each for one status.
PisaRow == [Plain EXCEPT !.refused = {No("name")} \cup Formless("note") \cup Formless("from")]

PisaRows == [PisaRow EXCEPT !.gates = {"headers", "rows"}]

PisaRecords == {"coverage", "distinct"}

PisaListed == [PisaRows EXCEPT
    !.refused = @ \cup Formless("to") \cup {Bad("id")},
    !.reviewed = {No("id")},
    !.gates = @ \cup PisaRecords \cup {"faults"}]

PisaApplicants == [PisaRows EXCEPT
    !.refused = @ \cup Formless("id"),
    !.gates = @ \cup PisaRecords]

PisaRenewalUpdate == [PisaRows EXCEPT
    !.refused = @ \cup Formless("id"),
    !.gates = @ \cup PisaRecords]

\* Perugia.  Headers, continuations and one fragment that belongs to the row
\* below it are known by page and row; a company is known by its identifier.
PerugiaRow == [Plain EXCEPT !.joins = {"tail"}]

PerugiaListedRows == [PerugiaRow EXCEPT
    !.placed = Formless("from") \cup Formless("to") \cup {Inverted, Bad("note")},
    !.under = "page",
    !.gates = {"layout", "joined", "rows", "sections", "notes", "coverage"}]

PerugiaListed == [PerugiaListedRows EXCEPT
    !.key = {"identity", "from", "to", "note"},
    !.status = {"note"},
    !.gates = @ \cup {"status"}]

PerugiaApplicantRows == [PerugiaRow EXCEPT
    !.joins = @ \cup {"lead"},
    !.placed = {No("name"), No("from")},
    !.gates = {"layout", "joined", "rows", "coverage"}]

PerugiaDecisions == {Bad("note")}

PerugiaApplicants == [PerugiaApplicantRows EXCEPT
    !.placed = @ \cup {Bad("from")} \cup PerugiaDecisions,
    !.status = {"note"},
    !.gates = @ \cup {"status"}]

\* Pordenone.  A bundle of a document for each section; a company is known by
\* its identifier.
PordenoneRow == [Plain EXCEPT
    !.passed = @ \cup {"section"},
    !.status = {"note"},
    !.gates = {"rows", "status", "coverage", "malformed"}]

PordenoneListedRows == [PordenoneRow EXCEPT
    !.refused = {Anonymous, Bad("note")},
    !.under = "page"]

PordenoneListed == [PordenoneListedRows EXCEPT
    !.key = {"identity", "from", "to", "note"},
    !.gates = @ \cup {"sizes", "states", "blanks"}]

PordenoneApplicants == [PordenoneRow EXCEPT
    !.refused = {Anonymous} \cup Formless("note") \cup Formless("from"),
    !.placed = {No("name")}]

\* Siracusa.  Every row is whole; a row with nothing but a note goes on with the
\* note above it.
SiracusaRow == [Plain EXCEPT
    !.refused = UNION {{No(f)} : f \in {"name", "id", "section"}},
    !.gates = {"headers", "rows", "unique", "coverage"}]

SiracusaListed == [SiracusaRow EXCEPT
    !.joins = {"tail"},
    !.refused = @ \cup Formless("to"),
    !.status = {"note"},
    !.gates = @ \cup {"fragments", "status"}]

SiracusaApplicants == [SiracusaRow EXCEPT
    !.refused = @ \cup {No("from")},
    !.reviewed = {Bad("from")},
    !.gates = @ \cup {"malformed"}]

\* Torino.  One header for the whole document, every other row is a company.
TorinoRow == [Plain EXCEPT !.refused = {No("name"), No("id")} \cup Formless("section")]

TorinoRows == [TorinoRow EXCEPT !.gates = {"headers", "pages"}]

TorinoIdentifiers == {Bad("id")}

TorinoListed == [TorinoRows EXCEPT
    !.refused = @ \cup Formless("to") \cup {Bad("from"), Bad("note")},
    !.reviewed = TorinoIdentifiers,
    !.status = {"note"},
    !.gates = @ \cup {"status", "coverage", "faults", "blanks", "notes"}]

TorinoApplicants == [TorinoRows EXCEPT
    !.refused = @ \cup Formless("from") \cup Formless("note") \cup {Bad("id")},
    !.gates = @ \cup {"coverage"}]

\* Trapani.  Tables stand below the heading of their section; continuations are
\* known by page, table and row.  A company is its identifier, and its rows agree.
TrapaniRow == [Plain EXCEPT
    !.joins = {"tail"},
    !.refused = {No("name"), Bad("note")} \cup Formless("id"),
    !.gates = {"joined", "rows"}]

TrapaniListed == [TrapaniRow EXCEPT
    !.refused = @ \cup Formless("from"),
    !.reviewed = Formless("to"),
    !.under = "heading",
    !.key = {"id"},
    !.shows = "chosen",
    !.status = {"note"},
    !.gates = @ \cup {"headings", "names", "agree", "faults", "status"}]

TrapaniApplicants == [TrapaniRow EXCEPT
    !.refused = @ \cup {No("note")} \cup Formless("from"),
    !.gates = @ \cup {"pages", "distinct"}]

\* Trento.  A row without identifier and dates is the rest of the last row of
\* the page before, on the pages where the review saw one.
TrentoRow == [Plain EXCEPT
    !.joins = {"tail"},
    !.gates = {"layout", "joined", "rows"}]

TrentoListedRows == [TrentoRow EXCEPT
    !.refused = {Bad("note"), Inverted},
    !.placed = Formless("id") \cup Formless("from") \cup Formless("to"),
    !.under = "page",
    !.status = {"note"},
    !.gates = @ \cup {"sections", "row status", "notes"}]

TrentoListed == [TrentoListedRows EXCEPT
    !.key = {"identity", "from", "to", "note"},
    !.gates = @ \cup {"sizes", "variants", "status"}]

TrentoApplicantRows == [TrentoRow EXCEPT
    !.refused = Formless("id") \cup {Some("note"), No("section")},
    !.placed = Formless("from")]

TrentoApplicants == [TrentoApplicantRows EXCEPT !.gates = @ \cup {"distinct", "sections"}]

===============================================================================
