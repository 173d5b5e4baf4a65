----------------------- MODULE EvidenceArchiveProperties -----------------------
(***************************************************************************)
(* What must hold of the archive-first boundary.                           *)
(***************************************************************************)
EXTENDS EvidenceArchive

\* Every variable has its type; a run holds a manifest exactly while it works.
TypeOK ==
    /\ objects \in [Contents -> Contents \cup {None}]
    /\ catalogue \in [Keys -> Records \cup {None}]
    /\ phase \in [Runs -> Phases]
    /\ manifest \in [Runs -> Manifests \cup {None}]
    /\ \A r \in Runs : phase[r] = "idle" <=> manifest[r] = None
    /\ created \in [Runs -> BOOLEAN]
    /\ parserInputs \in SUBSET Manifests

\* Nothing is catalogued whose bytes cannot be read back intact, although the
\* key of the bytes may have been occupied by a conflicting object.
CatalogueBacked ==
    \A k \in Keys : catalogue[k] # None =>
        /\ catalogue[k].manifest.key = k
        /\ Intact(catalogue[k].manifest.content)

\* The archive-first boundary: what a parser was given is durable, both the
\* bytes and the record of that very acquisition, whatever was retried or lost.
ParserBoundary ==
    \A m \in parserInputs :
        /\ Intact(m.content)
        /\ catalogue[m.key] # None
        /\ catalogue[m.key].manifest = m

\* One capture identity never reaches a parser under two manifests, although
\* several runs may try to archive different acquisitions under it.
NoRelabelling ==
    \A m, n \in parserInputs : m.key = n.key => m = n

\* A step never replaces or removes a stored object or a stored record: a retry
\* keeps the record of the run that came first, legacy records included.
WriteOnce ==
    [][/\ \A c \in Contents : objects[c] # None => objects'[c] = objects[c]
       /\ \A k \in Keys : catalogue[k] # None => catalogue'[k] = catalogue[k]]_vars

\* A run that verified its bytes or recorded its capture stands on evidence
\* that is there: what other runs do cannot take it away between two requests.
RunEvidence ==
    \A r \in Runs :
        /\ phase[r] \in {"verified", "recorded"} => Intact(manifest[r].content)
        /\ phase[r] = "recorded" => catalogue[manifest[r].key] # None
        /\ phase[r] = "recorded" /\ created[r] =>
               catalogue[manifest[r].key] = NewRecord(r)

\* Nothing stands in the way of m: no conflicting bytes under its digest, no
\* other acquisition under its identity.
Archivable(m) ==
    /\ objects[m.content] \in {m.content, None}
    /\ catalogue[m.key] # None => catalogue[m.key].manifest = m

\* Retries converge: wherever earlier attempts were cut off, and whichever of
\* them left bytes or a record behind, an acquisition reaches the parser.
RetriesConverge ==
    \A m \in Manifests : []Archivable(m) => <>(m \in parserInputs)

----------------------------------------------------------------------------
Preserved == {c \in Contents : Intact(c)}
Bound == [k \in Keys |-> IF catalogue[k] = None THEN None
                                                ELSE catalogue[k].manifest]

Evidence == INSTANCE ImmutableEvidence
              WITH preserved <- Preserved, bound <- Bound, exposed <- parserInputs

\* The archive implements immutable evidence: bytes are preserved once, bound
\* once to an acquisition, and exposed to a parser only afterwards.
ImplementsEvidence == Evidence!Spec
=============================================================================
