------------------------ MODULE SourceParsingProperties ------------------------
(***************************************************************************)
(* What holds of every parser but those that are named as exceptions: for   *)
(* these the code has nothing that would notice.                            *)
(***************************************************************************)
EXTENDS SourceParsing

Accepted == result # None /\ result.ok

AsReviewed == Observations(description, result.rows) = Observations(description, recorded.rows)

\* The same, whatever text was joined to the rows.
ButForText(rows) == [i \in DOMAIN rows |-> [rows[i] EXCEPT !.joined = <<>>]]

AsReviewedButForText ==
    Observations(description, ButForText(result.rows)) = Observations(description, ButForText(recorded.rows))

\* The section of a company is that of the last heading, and neither the
\* headings nor the rows of a section are counted.
HeadingsUnchecked == {"crotone_listed", "pistoia_listed", "alessandria_listed"}

\* Text that is joined to the row of a company is published and not counted.
TextUncounted ==
    {"ascoli_listed", "ascoli_applicants", "asti_listed", "avellino_listed", "avellino_applicants",
     "barletta_listed", "benevento_listed", "benevento_applicants", "bergamo_listed",
     "bergamo_applicants", "cosenza_combined", "cuneo_listed", "cuneo_applicants",
     "ferrara_reconstruction", "palermo_listed", "palermo_applicants", "roma_listed",
     "roma_applicants", "udine_listed", "udine_applicants", "viterbo_listed", "viterbo_applicants"}

\* The reviewed fragments are compared as a set.
FragmentsOnce == {"barletta_applicants"}

\* Rows without what makes a company are passed over, so that the rest of a name
\* that is broken in two is lost.
RestPassedOver ==
    {"agrigento_listed", "agrigento_applicants", "alessandria_listed", "alessandria_applicants",
     "barletta_applicants", "bologna_listed", "bologna_applicants", "brindisi_listed",
     "brindisi_applicants", "cagliari_listed", "cagliari_applicants", "caltanissetta_listed",
     "caltanissetta_applicants", "campobasso_listed", "firenze_applicants", "foggia_listed",
     "foggia_applicants", "laquila_listed", "laquila_applicants", "lecco_listed",
     "lecco_applicants", "macerata_listed", "modena_listed", "modena_applicants",
     "napoli_listed", "napoli_applicants", "parma_combined", "pistoia_listed",
     "pistoia_applicants"}

\* A row that is lost, repeated or broken in two, be it a company, a heading or
\* text, does not change the observations that are published: the counts of the
\* parser and of its configuration notice, or the parts of a name are put together
\* again.  Where text is not counted, it is all that may be lost or repeated.
AcceptedAsReviewed ==
    Accepted =>
        /\ drift \in {"lose", "repeat"} /\ parser \notin HeadingsUnchecked =>
               IF parser \in TextUncounted \cup FragmentsOnce THEN AsReviewedButForText ELSE AsReviewed
        /\ drift = "break" /\ parser \notin RestPassedOver => AsReviewed

\* Headings are known, but not the number of rows below each of them.
SectionsUncounted ==
    HeadingsUnchecked \cup {"macerata_listed", "trapani_listed", "udine_listed", "milano_combined",
                            "chieti_listed", "pescara_listed"}

\* Names are supplied by place, whatever stands there.
SuppliedBlindly == {"bari_listed", "bari_applicants"}

\* A company that is listed under two names has the name of its first row.
NamedByFirstRow == {"lodi_listed", "perugia_listed", "pordenone_listed", "trento_listed"}

\* Fragments are counted, but not the row that each of them belongs to.
FragmentsUnplaced ==
    {"ferrara_ordinary", "frosinone_listed", "frosinone_applicants", "imperia_applicants",
     "macerata_applicants", "siracusa_listed"}

\* Rows that come in another order show the same observations, although
\* sections, repairs and known faults go by the place of a row.  Where nothing
\* says what row text belongs to, text is all that may come to stand elsewhere.
OrderIsHarmless ==
    Accepted /\ drift = "exchange" /\ parser \notin SectionsUncounted \cup SuppliedBlindly \cup NamedByFirstRow
        => IF parser \in TextUncounted \cup FragmentsUnplaced THEN AsReviewedButForText ELSE AsReviewed

\* The first date of a row is its listing date, whichever is left.
DatedByOrder == {"barletta_listed"}

\* A cell that is lost or garbled and not noticed is the only difference: it does
\* not move dates, names or sections of its own or of another row.
CellLossIsLocal ==
    LET Differs(i) == {f \in Fields : result.rows[i][f] # recorded.rows[i][f]}
    IN Accepted /\ drift \in Fields /\ parser \notin DatedByOrder =>
          /\ DOMAIN result.rows = DOMAIN recorded.rows
          /\ \A i, j \in DOMAIN result.rows : Differs(i) # {} /\ Differs(j) # {} => i = j
          /\ \A i \in DOMAIN result.rows : Differs(i) \subseteq {drift}

\* A missing name is taken from the first row of the page with the same date.
NamedByDate == {"pistoia_applicants"}

\* A record has the name that a reader sees on its row, or one that a reader
\* sees is wrong: names that the review supplied or that were carried over from
\* the row above never come to stand on a row of another company.  And text
\* without a row of its own is joined to the company that it belongs to, also
\* when the row it would have joined is lost or is itself read as text.  (Text that
\* changed places with a row is below another company: OrderIsHarmless.)
TextFitsItsRow ==
    Accepted => \A i \in DOMAIN result.rows :
        LET row == result.rows[i] IN
        /\ parser \notin NamedByDate \cup SuppliedBlindly =>
               row.name \in {row.meant, Blank, "x"}
        /\ drift # "exchange" => \A k \in DOMAIN row.joined : row.joined[k] = row.meant
===============================================================================
