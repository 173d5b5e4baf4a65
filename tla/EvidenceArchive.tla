---------------------------- MODULE EvidenceArchive ----------------------------
(***************************************************************************)
(* The archive-first boundary: a run acquires bytes, stores them under     *)
(* their digest, reads them back, records the acquisition in the capture   *)
(* catalogue, reads the record back, and only then hands the capture to a  *)
(* parser.  Runs are concurrent workflow jobs against one object store     *)
(* whose only write is a conditional PUT; a run may stop between any two   *)
(* requests.  storage/evidence.py, storage/capture_catalogue.py,           *)
(* acquisition/archive_first.py, storage/catalogue_recovery.py.            *)
(*                                                                         *)
(* SHA-256 is injective here: a digest is the content it identifies.       *)
(***************************************************************************)
CONSTANTS Runs,        \* concurrent processes that archive captures
          Keys,        \* catalogue identities: (source_key, capture_id)
          Contents,    \* distinct byte sequences, each also its own digest
          Provenance,  \* the manifest fields besides key and content identity
          None

Manifests == [key : Keys, content : Contents, provenance : Provenance]

\* complete: the record embeds its manifest (records of older versions do not);
\* verifier: the run whose readback of the bytes the record's timestamp dates.
Records == [manifest : Manifests, complete : BOOLEAN, verifier : Runs \cup {None}]

Phases == {"idle", "staged", "stored", "verified", "recorded"}

ASSUME NoneIsNoValue ==
    None \notin Contents /\ None \notin Manifests /\ None \notin Records

VARIABLES objects,      \* the stored object under each digest key, or None
          catalogue,    \* the stored record under each capture key, or None
          phase,        \* where each run stands in archive_payload
          manifest,     \* the frozen manifest of each run's acquisition
          created,      \* whether the run's last conditional PUT created its key
          parserInputs  \* manifests that crossed the parser boundary

vars == <<objects, catalogue, phase, manifest, created, parserInputs>>
runVars == <<phase, manifest, created>>

Intact(c) == objects[c] = c

----------------------------------------------------------------------------
(* Object keys may be occupied by conflicting bytes, and the catalogue may *)
(* hold records of earlier versions, which archived under the same rule.   *)

Init ==
    /\ objects \in [Contents -> Contents \cup {None}]
    /\ catalogue \in [Keys -> [manifest : Manifests, complete : BOOLEAN,
                               verifier : {None}] \cup {None}]
    /\ \A k \in Keys : catalogue[k] # None =>
          catalogue[k].manifest.key = k /\ Intact(catalogue[k].manifest.content)
    /\ phase = [r \in Runs |-> "idle"]
    /\ manifest = [r \in Runs |-> None]
    /\ created = [r \in Runs |-> FALSE]
    /\ parserInputs = {}

----------------------------------------------------------------------------
Goto(r, p) == phase' = [phase EXCEPT ![r] = p]

\* Mutant: the failed run's manifest survives it.
FinishKeepsManifest(r) ==
    /\ Goto(r, "idle")
    /\ created' = [created EXCEPT ![r] = FALSE]
    /\ UNCHANGED manifest

\* The run ends: its local state goes with its process.
Finish(r) ==
    /\ Goto(r, "idle")
    /\ manifest' = [manifest EXCEPT ![r] = None]
    /\ created' = [created EXCEPT ![r] = FALSE]

\* A conditional PUT never replaces what is already under the key.
PutContent(c) == objects' = [objects EXCEPT ![c] = IF @ = None THEN c ELSE @]

\* Mutant: a complete record upgrades a legacy record in place.
PutRecordUpgrading(k, rec) ==
    catalogue' = [catalogue EXCEPT ![k] =
                    IF @ = None \/ ~@.complete THEN rec ELSE @]

PutRecord(k, rec) ==
    catalogue' = [catalogue EXCEPT ![k] = IF @ = None THEN rec ELSE @]

\* Bytes arrive (fetched, or taken from a recovery package under its
\* deterministic capture id) and the manifest is validated and frozen.
Stage(r, m) ==
    /\ phase[r] = "idle"
    /\ Goto(r, "staged")
    /\ manifest' = [manifest EXCEPT ![r] = m]
    /\ UNCHANGED <<objects, catalogue, created, parserInputs>>

ContentCreated(r) ==
    LET c == manifest[r].content IN
    /\ phase[r] = "staged"
    /\ objects[c] = None
    /\ PutContent(c)
    /\ created' = [created EXCEPT ![r] = TRUE]
    /\ Goto(r, "stored")
    /\ UNCHANGED <<catalogue, manifest, parserInputs>>

\* "Precondition failed": the key exists, perhaps because the transport retried
\* an attempt of this run whose acknowledgement was lost.
ContentExists(r) ==
    /\ phase[r] = "staged"
    /\ PutContent(manifest[r].content)
    /\ created' = [created EXCEPT ![r] = FALSE]
    /\ Goto(r, "stored")
    /\ UNCHANGED <<catalogue, manifest, parserInputs>>

\* Any other error is raised; the PUT may have taken effect all the same.
ContentPutFails(r) ==
    /\ phase[r] = "staged"
    /\ PutContent(manifest[r].content) \/ UNCHANGED objects
    /\ Finish(r)
    /\ UNCHANGED <<catalogue, parserInputs>>

\* Mutant: verified bytes are parsed at once, their provenance recorded later.
ReadBackThenParse(r) ==
    /\ phase[r] = "stored"
    /\ IF Intact(manifest[r].content)
         THEN /\ Goto(r, "verified")
              /\ parserInputs' = parserInputs \cup {manifest[r]}
              /\ UNCHANGED <<manifest, created>>
         ELSE Finish(r) /\ UNCHANGED parserInputs
    /\ UNCHANGED <<objects, catalogue>>

\* The full GET: neither the status of the PUT nor metadata vouches for bytes.
ReadBackContent(r) ==
    /\ phase[r] = "stored"
    /\ IF Intact(manifest[r].content)
         THEN Goto(r, "verified") /\ UNCHANGED <<manifest, created>>
         ELSE Finish(r)
    /\ UNCHANGED <<objects, catalogue, parserInputs>>

NewRecord(r) == [manifest |-> manifest[r], complete |-> TRUE, verifier |-> r]

RecordCreated(r) ==
    LET k == manifest[r].key IN
    /\ phase[r] = "verified"
    /\ catalogue[k] = None
    /\ PutRecord(k, NewRecord(r))
    /\ created' = [created EXCEPT ![r] = TRUE]
    /\ Goto(r, "recorded")
    /\ UNCHANGED <<objects, manifest, parserInputs>>

RecordExists(r) ==
    /\ phase[r] = "verified"
    /\ PutRecord(manifest[r].key, NewRecord(r))
    /\ created' = [created EXCEPT ![r] = FALSE]
    /\ Goto(r, "recorded")
    /\ UNCHANGED <<objects, manifest, parserInputs>>

RecordPutFails(r) ==
    /\ phase[r] = "verified"
    /\ PutRecord(manifest[r].key, NewRecord(r)) \/ UNCHANGED catalogue
    /\ Finish(r)
    /\ UNCHANGED <<objects, parserInputs>>

\* Mutant: any record found under the key is accepted.
RecordAcceptedUnread(r) ==
    LET stored == catalogue[manifest[r].key] IN
    IF created[r] THEN stored = NewRecord(r) ELSE stored # None

\* Mutant: an existing record has to equal the new one, times included.
RecordAcceptedVerbatim(r) == catalogue[manifest[r].key] = NewRecord(r)

\* A fresh record is compared byte for byte; an existing one only has to bind
\* the same manifest, so a retry keeps the verification time of the first run.
RecordAccepted(r) ==
    LET stored == catalogue[manifest[r].key] IN
    IF created[r] THEN stored = NewRecord(r)
                  ELSE stored # None /\ stored.manifest = manifest[r]

ReadBackRecord(r) ==
    /\ phase[r] = "recorded"
    /\ parserInputs' = IF RecordAccepted(r) THEN parserInputs \cup {manifest[r]}
                                            ELSE parserInputs
    /\ Finish(r)
    /\ UNCHANGED <<objects, catalogue>>

\* A failed request, a timeout or the end of the process.
Stop(r) ==
    /\ phase[r] # "idle"
    /\ Finish(r)
    /\ UNCHANGED <<objects, catalogue, parserInputs>>

\* A later worker rebuilds a capture from its catalogue key and an untrusted
\* index entry that claims content c; records without a manifest fail closed.
Rehydrate(k, c) ==
    /\ catalogue[k] # None
    /\ catalogue[k].complete
    /\ catalogue[k].manifest.key = k
    /\ catalogue[k].manifest.content = c
    /\ Intact(c)
    /\ parserInputs' = parserInputs \cup {catalogue[k].manifest}
    /\ UNCHANGED <<objects, catalogue, runVars>>

Advance(r) ==
    \/ ContentCreated(r) \/ ContentExists(r) \/ ReadBackContent(r)
    \/ RecordCreated(r) \/ RecordExists(r) \/ ReadBackRecord(r)

Fail(r) == ContentPutFails(r) \/ RecordPutFails(r) \/ Stop(r)

Next ==
    \/ \E r \in Runs : (\E m \in Manifests : Stage(r, m)) \/ Advance(r) \/ Fail(r)
    \/ \E k \in Keys, c \in Contents : Rehydrate(k, c)

Spec == Init /\ [][Next]_vars

----------------------------------------------------------------------------
\* A run that ends without having been given an answer that ends it.
Interrupted(r) == phase[r] # "idle" /\ phase'[r] = "idle" /\ ~Advance(r)

\* A started run goes on to its next request, every acquisition is taken up
\* again after a failed attempt, and the store does not fail for ever.
FairSpec ==
    /\ Spec
    /\ \A r \in Runs : WF_vars(Advance(r))
    /\ \A m \in Manifests : SF_vars(\E r \in Runs : Stage(r, m))
    /\ <>[][\A r \in Runs : ~Interrupted(r)]_vars
=============================================================================
