--------------------------- MODULE MCEvidenceArchive ---------------------------
(***************************************************************************)
(* Bounds for the archive-first boundary.                                  *)
(***************************************************************************)
EXTENDS EvidenceArchiveProperties, TLC

Symmetry == Permutations(Runs) \cup Permutations(Keys) \cup Permutations(Contents)
=============================================================================
