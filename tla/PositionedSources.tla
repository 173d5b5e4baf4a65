--------------------------- MODULE PositionedSources ---------------------------
(***************************************************************************)
(* The parsers of pages without a usable table: words have coordinates, and *)
(* an anchor, a word that every record has, opens a band of lines.  Text    *)
(* without an anchor flows into a neighbouring band.                        *)
(***************************************************************************)
EXTENDS SourceRows

\* Udine.  Identifiers are the anchors; a name that is cut off at the end of a
\* page is completed.  What is above the first anchor is passed over.
UdineRow == [Plain EXCEPT
    !.passed = @ \cup {"other"},
    !.joins = {"tail"},
    !.flows = Formless("id"),
    !.refused = {No("name")},
    !.gates = {"pages", "rows"}]

UdineListed == [UdineRow EXCEPT
    !.refused = @ \cup {No("from"), No("to"), No("section")},
    !.reviewed = {Bad("from"), Bad("to")},
    !.under = "heading",
    !.status = {"note"},
    !.gates = @ \cup {"headings"}]

UdineApplicants == [UdineRow EXCEPT
    !.refused = @ \cup Formless("from") \cup Formless("section"),
    !.repaired = {Bad("name")}]

\* Benevento.  Listing and application dates are the anchors, and a line is of
\* the nearest one.
BeneventoRow == [Plain EXCEPT
    !.joins = {"tail", "lead"},
    !.flows = Formless("from"),
    !.refused = {No("name")}]

BeneventoListed == BeneventoRow

BeneventoApplicants == BeneventoRow

\* Agrigento.  The lines of the widest table are the bands; a band without a
\* company or its activities is not a record.
AgrigentoRow == [Plain EXCEPT
    !.passed = @ \cup {"other", "tail"},
    !.skipped = {No("name")}]

AgrigentoListed == [AgrigentoRow EXCEPT !.skipped = @ \cup {No("section")}]

AgrigentoApplicants == [AgrigentoRow EXCEPT !.refused = Formless("note")]

\* Asti.  Listing dates are the anchors, and the words of a company whose
\* application is pending; each belongs to a table with a section.
AstiAnchors == {Unmarked}

AstiRows == [Plain EXCEPT
    !.flows = AstiAnchors,
    !.joins = {"tail", "lead"},
    !.refused = {No("section")},
    !.under = "page",
    !.status = {"from"},
    !.gates = {"rows", "row status"}]

AstiListed == [AstiRows EXCEPT
    !.refused = @ \cup {No("name"), No("id"), Bad("from")},
    !.key = {"name", "id", "from", "to", "note"}]

AstiApplicants == [Plain EXCEPT
    !.refused = {No("name"), Bad("from")},
    !.status = {"note"}]

\* Avellino.  The only date of a record is its anchor, the expiry of a company
\* or the application of an applicant, and a line is of the nearest one.
AvellinoBands == {"tail", "lead"}

AvellinoRows == [Plain EXCEPT
    !.passed = @ \cup {"other"},
    !.joins = AvellinoBands,
    !.refused = {No("name"), No("id"), No("section")}]

AvellinoListed == [AvellinoRows EXCEPT !.flows = Formless("to")]

AvellinoApplicants == [AvellinoRows EXCEPT !.flows = Formless("from")]

\* Bergamo.  Records stand at fixed heights, with all text down to the next height;
\* blank dates and activities that do not name their section are known by page and
\* row.
BergamoRow == [Plain EXCEPT
    !.joins = {"tail"},
    !.refused = {No("name")},
    !.placed = Formless("section")]

BergamoRows == [BergamoRow EXCEPT !.gates = {"pages", "coverage"}]

BergamoApplicants == [BergamoRows EXCEPT
    !.refused = @ \cup {Bad("from")},
    !.placed = @ \cup {No("from")}]

BergamoListed == [BergamoRows EXCEPT
    !.refused = @ \cup Formless("from") \cup Formless("to") \cup {Bad("note")},
    !.status = {"note"},
    !.gates = @ \cup {"status"}]

\* Roma.  A record starts where a name and an identifier stand on one line, and
\* ends where the next one starts.
RomaStarts == {No("name"), No("id")}

RomaRow == [Plain EXCEPT
    !.passed = @ \cup {"other"},
    !.joins = {"tail"},
    !.flows = RomaStarts,
    !.refused = {Bad("note")},
    !.status = {"note"},
    !.gates = {"headers", "rows", "malformed", "faults", "status"}]

RomaListed == [RomaRow EXCEPT !.reviewed = {Bad("from"), Bad("to"), Undated}]

RomaApplicants == [RomaRow EXCEPT !.reviewed = {Bad("from"), No("from")}]

\* Cuneo.  A record reaches from its header to the next; its activities have
\* their dates beside them, and all of them the same.
CuneoRow == [Plain EXCEPT
    !.joins = {"tail"},
    !.refused = {No("name"), No("id"), No("section")},
    !.gates = {"pages", "rows"}]

CuneoListed == [CuneoRow EXCEPT
    !.refused = @ \cup {No("from"), Bad("note")},
    !.placed = {Bad("id"), Bad("from")},
    !.status = {"note"},
    !.gates = @ \cup {"repeats", "blanks", "notes", "status"}]

CuneoApplicants == [CuneoRow EXCEPT
    !.refused = @ \cup {Bad("id")} \cup Formless("from"),
    !.gates = @ \cup {"distinct"}]

\* Palermo.  Printed numbers are the anchors, and they must be those of the
\* review; malformed cells are known by number.
PalermoRow == [Plain EXCEPT
    !.joins = {"tail", "lead"},
    !.refused = Formless("section") \cup {Bad("note")}]

PalermoRows == [PalermoRow EXCEPT !.gates = {"numbers", "pages", "notes"}]

PalermoListed == [PalermoRows EXCEPT
    !.refused = @ \cup Formless("from"),
    !.placed = {Bad("id")} \cup Formless("to"),
    !.status = {"note"},
    !.gates = @ \cup {"coverage", "status"}]

PalermoApplicants == [PalermoRows EXCEPT
    !.refused = @ \cup {No("note")},
    !.placed = {Bad("id")},
    !.gates = @ \cup {"coverage"}]

\* Firenze.  A row has a date at its left edge, and lines without one belong to
\* the page; malformed identifiers are the reviewed ones.
FirenzeApplicantRow == [Plain EXCEPT
    !.passed = @ \cup {"other", "tail"},
    !.skipped = Formless("from"),
    !.refused = {No("name"), No("id")}]

FirenzeApplicants == [FirenzeApplicantRow EXCEPT
    !.refused = @ \cup {Some("note")},
    !.reviewed = {Bad("id")},
    !.gates = {"pages", "rows", "faults", "coverage"}]

===============================================================================
