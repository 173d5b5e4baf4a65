--------------------------- MODULE MCParseSnapshots ---------------------------
(***************************************************************************)
(* Bounds for private interpretations.  A bundle of two labels, whose pages *)
(* have the same bytes, is captured twice.  A scalar source is interpreted *)
(* by two revisions of one parser.                                         *)
(***************************************************************************)
EXTENDS ParseSnapshotsProperties, TLC

CONSTANTS listed, applicants, listedAgain, applicantsAgain, single, page,
          reviewed, frozen, v1, v2

MCBundleContents == [c \in {listed, applicants, listedAgain, applicantsAgain} |-> page]
MCScalarContents == [c \in {single} |-> page]

Attempt(by, inputs, recipe, revision) ==
    [by |-> by, inputs |-> inputs, recipe |-> recipe, revision |-> revision]

Transform == Attempt("transform", <<listed, applicants>>, reviewed, v1)
Checked(by) == Attempt(by, <<listedAgain, applicantsAgain>>, reviewed, v1)
Reconcile == Attempt("reconcile", <<single>>, frozen, v1)
Scalar(by, revision) == Attempt(by, <<single>>, reviewed, revision)

MCRevisions == {Scalar("transform", v1), Scalar("persist", v2), Reconcile}
MCChecks == {Transform, Checked("transform"), Checked("persist")}

Symmetry == Permutations(Sessions) \cup Permutations(Outputs)
=============================================================================
