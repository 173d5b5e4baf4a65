-------------------------- MODULE MCCapturePersistence --------------------------
(***************************************************************************)
(* Bounds for relational persistence.  Two series of one authority share a *)
(* page and its bytes; a third capture, of another authority, reuses the   *)
(* id of the first; or the bytes are served at a second locator too.       *)
(***************************************************************************)
EXTENDS CapturePersistenceProperties, TLC

CONSTANTS listed, applicants, id1, id2, page, bytes, other, pdf,
          annex, id3, elsewhere, authority,
          prefecture, ordinary, special

Capture(i, s, p, c) ==
    [id |-> i, series |-> s, resource |-> p, type |-> pdf, content |-> c]

MCManifests ==
    {Capture(id1, listed, page, bytes), Capture(id2, applicants, page, bytes),
     Capture(id1, elsewhere, annex, other)}
MCTwoManifests ==
    {Capture(id1, listed, page, bytes), Capture(id2, applicants, page, bytes)}
\* The same bytes at two locators, one of them shared by the series.
MCTwoLocators ==
    {Capture(id1, listed, page, bytes), Capture(id2, listed, annex, bytes),
     Capture(id3, applicants, annex, bytes)}

MCSeries == {listed, applicants, elsewhere}
MCAuthorityOf == [s \in MCSeries |-> IF s = elsewhere THEN prefecture ELSE authority]
MCOneRegime == [s \in MCSeries |-> ordinary]
MCTwoRegimes == [s \in MCSeries |-> IF s = applicants THEN special ELSE ordinary]

Symmetry == Permutations(Writers)
=============================================================================
