------------------------------ MODULE CaptureTable ------------------------------
(***************************************************************************)
(* What relational persistence promises its readers: a table of captures,  *)
(* to which one capture is added at a time, whole, once it is archived and *)
(* if it contradicts none that is there; and reports of captures that are  *)
(* there.                                                                  *)
(***************************************************************************)
CONSTANTS Manifests,    \* captures: [id, series, resource, type, content]
          AuthorityOf,  \* the reviewed inventory: authority of a series ...
          RegimeOf      \* ... and the White List regime it belongs to

VARIABLES archived,     \* captures that are durable in the store
          captures,     \* captures in the table
          reported      \* captures reported as persisted

vars == <<archived, captures, reported>>

\* An identity is of one capture, a resource of one type, and the register of
\* an authority of one regime.
Consistent(m, n) ==
    /\ m.id = n.id => m = n
    /\ m.resource = n.resource => m.type = n.type
    /\ AuthorityOf[m.series] = AuthorityOf[n.series] =>
           RegimeOf[m.series] = RegimeOf[n.series]

Init ==
    /\ archived \in SUBSET Manifests
    /\ captures = {}
    /\ reported = {}

Archive(m) ==
    /\ archived' = archived \cup {m}
    /\ UNCHANGED <<captures, reported>>

\* Its own retry included, whose acknowledgement may be the first to arrive.
Persist(m) ==
    /\ m \in archived
    /\ \A n \in captures : Consistent(m, n)
    /\ captures' = captures \cup {m}
    /\ reported' \in {reported, reported \cup {m}}
    /\ UNCHANGED archived

Next == \E m \in Manifests : Archive(m) \/ Persist(m)

Spec == Init /\ [][Next]_vars
=============================================================================
