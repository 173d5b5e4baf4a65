------------------------- MODULE EvidenceArchiveProofs -------------------------
(***************************************************************************)
(* Proofs, for every set of runs, keys, contents and provenances, of what  *)
(* MCEvidenceArchive checks on a small instance.                           *)
(***************************************************************************)
EXTENDS EvidenceArchiveProperties, TLAPS

\* The invariant that is inductive: types, what the catalogue and the parsers
\* rest on, and what every run knows of the store between two requests.
IInv == TypeOK /\ CatalogueBacked /\ ParserBoundary /\ RunEvidence

USE NoneIsNoValue

----------------------------------------------------------------------------
\* A manifest and the record a run makes of it have the fields of their types.
LEMMA ManifestFields ==
    ASSUME NEW m \in Manifests
    PROVE  m.key \in Keys /\ m.content \in Contents /\ m # None
BY DEF Manifests

LEMMA NewRecordType ==
    ASSUME TypeOK, NEW r \in Runs, phase[r] # "idle"
    PROVE  /\ manifest[r] \in Manifests
           /\ NewRecord(r) \in Records
           /\ NewRecord(r) # None
           /\ NewRecord(r).manifest = manifest[r]
<1>1. manifest[r] \in Manifests
  BY DEF TypeOK
<1>2. NewRecord(r) \in Records
  BY <1>1 DEF NewRecord, Records
<1> QED
  BY <1>1, <1>2 DEF NewRecord

\* The initial states satisfy the invariant: nothing has been parsed, no run is
\* under way, and earlier versions archived under the same rule.
LEMMA InitIInv == Init => IInv
<1> SUFFICES ASSUME Init PROVE IInv
  OBVIOUS
<1>1. TypeOK
  <2>1. catalogue \in [Keys -> Records \cup {None}]
    BY DEF Init, Records
  <2> QED
    BY <2>1 DEF Init, TypeOK, Phases
<1>2. CatalogueBacked
  BY DEF Init, CatalogueBacked
<1>3. ParserBoundary /\ RunEvidence
  BY DEF Init, ParserBoundary, RunEvidence
<1> QED
  BY <1>1, <1>2, <1>3 DEF IInv

----------------------------------------------------------------------------
\* A step that only ends a run, or leaves every variable as it is.
LEMMA FinishIInv ==
    ASSUME IInv, NEW r \in Runs, Finish(r),
           UNCHANGED <<objects, catalogue, parserInputs>>
    PROVE  IInv'
<1>1. TypeOK'
  BY DEF IInv, TypeOK, Finish, Goto, Phases
<1>2. CatalogueBacked' /\ ParserBoundary'
  BY DEF IInv, CatalogueBacked, ParserBoundary, Intact
<1>3. RunEvidence'
  <2> SUFFICES ASSUME NEW q \in Runs
               PROVE  (/\ phase[q] \in {"verified", "recorded"} => Intact(manifest[q].content)
                       /\ phase[q] = "recorded" => catalogue[manifest[q].key] # None
                       /\ phase[q] = "recorded" /\ created[q] =>
                              catalogue[manifest[q].key] = NewRecord(q))'
    BY DEF RunEvidence
  <2>1. CASE q = r
    BY <2>1 DEF IInv, TypeOK, Finish, Goto
  <2>2. CASE q # r
    BY <2>2 DEF IInv, TypeOK, RunEvidence, Finish, Goto, Intact, NewRecord
  <2> QED
    BY <2>1, <2>2
<1> QED
  BY <1>1, <1>2, <1>3 DEF IInv

\* A conditional PUT of content keeps what was intact intact, so whatever the
\* catalogue, the parsers and the other runs rest on stays.
LEMMA PutContentKeepsIntact ==
    ASSUME TypeOK, NEW c \in Contents, PutContent(c) \/ UNCHANGED objects
    PROVE  /\ objects' \in [Contents -> Contents \cup {None}]
           /\ \A d \in Contents : Intact(d) => Intact(d)'
BY DEF TypeOK, PutContent, Intact

\* A conditional PUT of a record leaves every existing record alone.
LEMMA PutRecordKeepsRecords ==
    ASSUME TypeOK, NEW k \in Keys, NEW rec \in Records,
           PutRecord(k, rec) \/ UNCHANGED catalogue
    PROVE  /\ catalogue' \in [Keys -> Records \cup {None}]
           /\ \A j \in Keys : catalogue[j] # None => catalogue'[j] = catalogue[j]
           /\ \A j \in Keys : catalogue'[j] # None =>
                  catalogue[j] # None \/ (j = k /\ catalogue'[j] = rec)
           /\ PutRecord(k, rec) => catalogue'[k] # None
BY DEF TypeOK, PutRecord

\* If the store only gains, the parsers gain nothing and no run moves on, the
\* shared parts of the invariant survive.
LEMMA StoreGrowth ==
    ASSUME IInv,
           objects' \in [Contents -> Contents \cup {None}],
           \A d \in Contents : Intact(d) => Intact(d)',
           UNCHANGED <<catalogue, parserInputs>>
    PROVE  CatalogueBacked' /\ ParserBoundary'
<1>1. CatalogueBacked'
  BY DEF IInv, TypeOK, CatalogueBacked, Records, Manifests
<1>2. ParserBoundary'
  BY DEF IInv, TypeOK, ParserBoundary, Manifests
<1> QED
  BY <1>1, <1>2

----------------------------------------------------------------------------
LEMMA StageIInv ==
    ASSUME IInv, NEW r \in Runs, NEW m \in Manifests, Stage(r, m)
    PROVE  IInv'
<1>1. TypeOK'
  BY ManifestFields DEF IInv, TypeOK, Stage, Goto, Phases
<1>2. CatalogueBacked' /\ ParserBoundary'
  BY DEF IInv, CatalogueBacked, ParserBoundary, Intact, Stage
<1>3. RunEvidence'
  BY DEF IInv, TypeOK, RunEvidence, Stage, Goto, Intact, NewRecord
<1> QED
  BY <1>1, <1>2, <1>3 DEF IInv

\* Both answers to the PUT of the bytes: created, and already there.
LEMMA ContentPutIInv ==
    ASSUME IInv, NEW r \in Runs, ContentCreated(r) \/ ContentExists(r)
    PROVE  IInv'
<1> DEFINE c == manifest[r].content
<1>1. /\ phase[r] = "staged" /\ PutContent(c) /\ Goto(r, "stored")
      /\ created' \in [Runs -> BOOLEAN]
      /\ \A q \in Runs : q # r => created'[q] = created[q]
      /\ UNCHANGED <<catalogue, manifest, parserInputs>>
  BY DEF ContentCreated, ContentExists, IInv, TypeOK
<1>2. c \in Contents
  BY <1>1, ManifestFields DEF IInv, TypeOK
<1>3. /\ objects' \in [Contents -> Contents \cup {None}]
      /\ \A d \in Contents : Intact(d) => Intact(d)'
  BY <1>1, <1>2, PutContentKeepsIntact DEF IInv
<1>4. TypeOK'
  BY <1>1, <1>3 DEF IInv, TypeOK, Goto, Phases
<1>5. CatalogueBacked' /\ ParserBoundary'
  BY <1>1, <1>3, StoreGrowth
<1>6. RunEvidence'
  BY <1>1, <1>3, ManifestFields DEF IInv, TypeOK, RunEvidence, Goto, NewRecord
<1> QED
  BY <1>4, <1>5, <1>6 DEF IInv

LEMMA ReadBackContentIInv ==
    ASSUME IInv, NEW r \in Runs, ReadBackContent(r)
    PROVE  IInv'
<1>1. CASE Intact(manifest[r].content)
  <2>1. /\ phase[r] = "stored" /\ Goto(r, "verified")
        /\ UNCHANGED <<objects, catalogue, manifest, created, parserInputs>>
    BY <1>1 DEF ReadBackContent
  <2>2. TypeOK'
    BY <2>1 DEF IInv, TypeOK, Goto, Phases
  <2>3. CatalogueBacked' /\ ParserBoundary'
    BY <2>1 DEF IInv, CatalogueBacked, ParserBoundary, Intact
  <2>4. RunEvidence'
    BY <1>1, <2>1 DEF IInv, TypeOK, RunEvidence, Goto, Intact, NewRecord
  <2> QED
    BY <2>2, <2>3, <2>4 DEF IInv
<1>2. CASE ~Intact(manifest[r].content)
  BY <1>2, FinishIInv DEF ReadBackContent
<1> QED
  BY <1>1, <1>2

\* Both answers to the PUT of the record.
LEMMA RecordPutIInv ==
    ASSUME IInv, NEW r \in Runs, RecordCreated(r) \/ RecordExists(r)
    PROVE  IInv'
<1> DEFINE k == manifest[r].key
           rec == NewRecord(r)
<1>1. /\ phase[r] = "verified" /\ PutRecord(k, rec) /\ Goto(r, "recorded")
      /\ created' \in [Runs -> BOOLEAN]
      /\ \A q \in Runs : q # r => created'[q] = created[q]
      /\ created'[r] => catalogue[k] = None
      /\ UNCHANGED <<objects, manifest, parserInputs>>
  BY DEF RecordCreated, RecordExists, IInv, TypeOK
<1>2. /\ manifest[r] \in Manifests /\ rec \in Records /\ rec # None
      /\ rec.manifest = manifest[r]
  BY <1>1, NewRecordType DEF IInv
<1>3. k \in Keys /\ manifest[r].content \in Contents
  BY <1>2, ManifestFields
<1>4. Intact(manifest[r].content)
  BY <1>1 DEF IInv, RunEvidence
<1> HIDE DEF rec
<1>5. /\ catalogue' \in [Keys -> Records \cup {None}]
      /\ \A j \in Keys : catalogue[j] # None => catalogue'[j] = catalogue[j]
      /\ \A j \in Keys : catalogue'[j] # None =>
             catalogue[j] # None \/ (j = k /\ catalogue'[j] = rec)
      /\ catalogue'[k] # None
  BY <1>1, <1>2, <1>3, PutRecordKeepsRecords DEF IInv
<1>6. TypeOK'
  BY <1>1, <1>5 DEF IInv, TypeOK, Goto, Phases
<1>7. CatalogueBacked'
  BY <1>1, <1>2, <1>3, <1>4, <1>5 DEF IInv, TypeOK, CatalogueBacked, Intact
<1>8. ParserBoundary'
  BY <1>1, <1>5, ManifestFields DEF IInv, TypeOK, ParserBoundary, Intact
<1>9. RunEvidence'
  <2>1. created'[r] => catalogue'[k] = rec
    BY <1>1, <1>3, <1>5
  <2> SUFFICES ASSUME NEW q \in Runs
               PROVE  (/\ phase[q] \in {"verified", "recorded"} => Intact(manifest[q].content)
                       /\ phase[q] = "recorded" => catalogue[manifest[q].key] # None
                       /\ phase[q] = "recorded" /\ created[q] =>
                              catalogue[manifest[q].key] = NewRecord(q))'
    BY DEF RunEvidence
  <2>2. CASE q = r
    BY <1>1, <1>4, <1>5, <2>1, <2>2 DEF IInv, TypeOK, Goto, Intact, NewRecord, rec
  <2>3. CASE q # r
    <3>1. phase'[q] = phase[q] /\ manifest'[q] = manifest[q] /\ created'[q] = created[q]
      BY <1>1, <2>3 DEF IInv, TypeOK, Goto
    <3>2. phase[q] = "recorded" => manifest[q].key \in Keys
      BY ManifestFields DEF IInv, TypeOK
    <3> QED
      BY <1>1, <1>5, <3>1, <3>2 DEF IInv, RunEvidence, Intact, NewRecord
  <2> QED
    BY <2>2, <2>3
<1> QED
  BY <1>6, <1>7, <1>8, <1>9 DEF IInv

\* A failed PUT ends the run, whether or not it took effect.
LEMMA ContentPutFailsIInv ==
    ASSUME IInv, NEW r \in Runs, ContentPutFails(r)
    PROVE  IInv'
<1> DEFINE c == manifest[r].content
<1>1. /\ phase[r] = "staged" /\ Finish(r)
      /\ PutContent(c) \/ UNCHANGED objects
      /\ UNCHANGED <<catalogue, parserInputs>>
  BY DEF ContentPutFails
<1>2. c \in Contents
  BY <1>1, ManifestFields DEF IInv, TypeOK
<1>3. /\ objects' \in [Contents -> Contents \cup {None}]
      /\ \A d \in Contents : Intact(d) => Intact(d)'
  BY <1>1, <1>2, PutContentKeepsIntact DEF IInv
<1>4. TypeOK'
  BY <1>1, <1>3 DEF IInv, TypeOK, Finish, Goto, Phases
<1>5. CatalogueBacked' /\ ParserBoundary'
  BY <1>1, <1>3, StoreGrowth
<1>6. RunEvidence'
  BY <1>1, <1>3, ManifestFields
     DEF IInv, TypeOK, RunEvidence, Finish, Goto, NewRecord
<1> QED
  BY <1>4, <1>5, <1>6 DEF IInv

LEMMA RecordPutFailsIInv ==
    ASSUME IInv, NEW r \in Runs, RecordPutFails(r)
    PROVE  IInv'
<1> DEFINE k == manifest[r].key
           rec == NewRecord(r)
<1>1. /\ phase[r] = "verified" /\ Finish(r)
      /\ PutRecord(k, rec) \/ UNCHANGED catalogue
      /\ UNCHANGED <<objects, parserInputs>>
  BY DEF RecordPutFails
<1>2. /\ manifest[r] \in Manifests /\ rec \in Records /\ rec # None
      /\ rec.manifest = manifest[r]
  BY <1>1, NewRecordType DEF IInv
<1>3. k \in Keys /\ manifest[r].content \in Contents
  BY <1>2, ManifestFields
<1>4. Intact(manifest[r].content)
  BY <1>1 DEF IInv, RunEvidence
<1> HIDE DEF rec
<1>5. /\ catalogue' \in [Keys -> Records \cup {None}]
      /\ \A j \in Keys : catalogue[j] # None => catalogue'[j] = catalogue[j]
      /\ \A j \in Keys : catalogue'[j] # None =>
             catalogue[j] # None \/ (j = k /\ catalogue'[j] = rec)
  BY <1>1, <1>2, <1>3, PutRecordKeepsRecords DEF IInv
<1>6. TypeOK'
  BY <1>1, <1>5 DEF IInv, TypeOK, Finish, Goto, Phases
<1>7. CatalogueBacked'
  BY <1>1, <1>2, <1>3, <1>4, <1>5 DEF IInv, TypeOK, CatalogueBacked, Intact
<1>8. ParserBoundary'
  BY <1>1, <1>5, ManifestFields DEF IInv, TypeOK, ParserBoundary, Intact
<1>9. RunEvidence'
  <2>1. \A q \in Runs : phase'[q] # "idle" =>
            /\ q # r /\ phase[q] # "idle" /\ manifest[q].key \in Keys
            /\ phase'[q] = phase[q] /\ manifest'[q] = manifest[q]
            /\ created'[q] = created[q]
    BY <1>1, ManifestFields DEF IInv, TypeOK, Finish, Goto
  <2> QED
    BY <1>1, <1>5, <2>1 DEF IInv, RunEvidence, Intact, NewRecord
<1> QED
  BY <1>6, <1>7, <1>8, <1>9 DEF IInv

\* What an accepted record lets through to the parser was verified by the run
\* and is what the catalogue binds to the key.
LEMMA ReadBackRecordIInv ==
    ASSUME IInv, NEW r \in Runs, ReadBackRecord(r)
    PROVE  IInv'
<1>1. /\ phase[r] = "recorded" /\ Finish(r) /\ UNCHANGED <<objects, catalogue>>
      /\ manifest[r] \in Manifests /\ Intact(manifest[r].content)
      /\ catalogue[manifest[r].key] # None
      /\ parserInputs' = IF RecordAccepted(r) THEN parserInputs \cup {manifest[r]}
                                              ELSE parserInputs
  BY DEF ReadBackRecord, IInv, TypeOK, RunEvidence
<1>2. RecordAccepted(r) => catalogue[manifest[r].key].manifest = manifest[r]
  BY DEF RecordAccepted, NewRecord
<1>3. TypeOK'
  BY <1>1 DEF IInv, TypeOK, Finish, Goto, Phases
<1>4. CatalogueBacked'
  BY <1>1 DEF IInv, CatalogueBacked, Intact
<1>5. ParserBoundary'
  BY <1>1, <1>2 DEF IInv, ParserBoundary, Intact
<1>6. RunEvidence'
  <2>1. \A q \in Runs : phase'[q] # "idle" =>
            /\ q # r /\ phase'[q] = phase[q] /\ manifest'[q] = manifest[q]
            /\ created'[q] = created[q]
    BY <1>1 DEF IInv, TypeOK, Finish, Goto
  <2> QED
    BY <1>1, <2>1 DEF IInv, RunEvidence, Intact, NewRecord
<1> QED
  BY <1>3, <1>4, <1>5, <1>6 DEF IInv

LEMMA StopIInv ==
    ASSUME IInv, NEW r \in Runs, Stop(r)
    PROVE  IInv'
BY FinishIInv DEF Stop

LEMMA RehydrateIInv ==
    ASSUME IInv, NEW k \in Keys, NEW c \in Contents, Rehydrate(k, c)
    PROVE  IInv'
<1> DEFINE m == catalogue[k].manifest
<1>1. /\ m \in Manifests /\ m.key = k /\ m.content = c /\ Intact(c)
      /\ catalogue[k] # None /\ parserInputs' = parserInputs \cup {m}
      /\ UNCHANGED <<objects, catalogue, phase, manifest, created>>
  BY DEF Rehydrate, runVars, IInv, TypeOK, Records
<1>2. TypeOK'
  BY <1>1 DEF IInv, TypeOK
<1>3. CatalogueBacked' /\ RunEvidence'
  BY <1>1 DEF IInv, CatalogueBacked, RunEvidence, Intact, NewRecord
<1>4. ParserBoundary'
  BY <1>1 DEF IInv, ParserBoundary, Intact
<1> QED
  BY <1>2, <1>3, <1>4 DEF IInv

LEMMA NextIInv == IInv /\ [Next]_vars => IInv'
<1> SUFFICES ASSUME IInv, [Next]_vars PROVE IInv'
  OBVIOUS
<1>1. CASE UNCHANGED vars
  BY <1>1 DEF IInv, TypeOK, CatalogueBacked, ParserBoundary, RunEvidence,
              Intact, NewRecord, vars
<1>2. ASSUME NEW r \in Runs, NEW m \in Manifests, Stage(r, m) PROVE IInv'
  BY <1>2, StageIInv
<1>3. ASSUME NEW r \in Runs, Advance(r) PROVE IInv'
  BY <1>3, ContentPutIInv, ReadBackContentIInv, RecordPutIInv, ReadBackRecordIInv
     DEF Advance
<1>4. ASSUME NEW r \in Runs, Fail(r) PROVE IInv'
  BY <1>4, ContentPutFailsIInv, RecordPutFailsIInv, StopIInv DEF Fail
<1>5. ASSUME NEW k \in Keys, NEW c \in Contents, Rehydrate(k, c) PROVE IInv'
  BY <1>5, RehydrateIInv
<1> QED
  BY <1>1, <1>2, <1>3, <1>4, <1>5 DEF Next

----------------------------------------------------------------------------
\* The strengthened invariant holds of every behaviour of the archive.
THEOREM Invariance == Spec => []IInv
<1>1. Init => IInv
  BY InitIInv
<1>2. IInv /\ [Next]_vars => IInv'
  BY NextIInv
<1> QED
  BY <1>1, <1>2, PTL DEF Spec

\* Type correctness.
THEOREM TypeCorrect == Spec => []TypeOK
<1>1. IInv => TypeOK
  BY DEF IInv
<1> QED
  BY <1>1, Invariance, PTL

\* The archive-first boundary: whatever is parsed is durable, bytes and record.
THEOREM ArchiveFirst == Spec => [](CatalogueBacked /\ ParserBoundary)
<1>1. IInv => CatalogueBacked /\ ParserBoundary
  BY DEF IInv
<1> QED
  BY <1>1, Invariance, PTL

\* No capture identity is ever parsed under two manifests.
THEOREM OneManifestPerIdentity == Spec => []NoRelabelling
<1>1. IInv => NoRelabelling
  BY DEF IInv, ParserBoundary, NoRelabelling
<1> QED
  BY <1>1, Invariance, PTL

----------------------------------------------------------------------------
\* No step replaces or removes what is stored.
LEMMA StepWriteOnce ==
    ASSUME IInv, Next
    PROVE  /\ \A c \in Contents : objects[c] # None => objects'[c] = objects[c]
           /\ \A k \in Keys : catalogue[k] # None => catalogue'[k] = catalogue[k]
<1>1. ASSUME NEW r \in Runs, ContentCreated(r) \/ ContentExists(r) \/ ContentPutFails(r)
      PROVE  \A c \in Contents : objects[c] # None => objects'[c] = objects[c]
  BY <1>1 DEF IInv, TypeOK, ContentCreated, ContentExists, ContentPutFails, PutContent
<1>2. ASSUME NEW r \in Runs, RecordCreated(r) \/ RecordExists(r) \/ RecordPutFails(r)
      PROVE  \A k \in Keys : catalogue[k] # None => catalogue'[k] = catalogue[k]
  BY <1>2 DEF IInv, TypeOK, RecordCreated, RecordExists, RecordPutFails, PutRecord
<1>3. ASSUME NEW r \in Runs, ContentCreated(r) \/ ContentExists(r) \/ ContentPutFails(r)
      PROVE  UNCHANGED catalogue
  BY <1>3 DEF ContentCreated, ContentExists, ContentPutFails
<1>4. ASSUME NEW r \in Runs, RecordCreated(r) \/ RecordExists(r) \/ RecordPutFails(r)
      PROVE  UNCHANGED objects
  BY <1>4 DEF RecordCreated, RecordExists, RecordPutFails
<1>5. ASSUME NEW r \in Runs,
             ReadBackContent(r) \/ ReadBackRecord(r) \/ Stop(r)
                 \/ \E m \in Manifests : Stage(r, m)
      PROVE  UNCHANGED <<objects, catalogue>>
  BY <1>5 DEF ReadBackContent, ReadBackRecord, Stop, Stage
<1>6. ASSUME NEW k \in Keys, NEW c \in Contents, Rehydrate(k, c)
      PROVE  UNCHANGED <<objects, catalogue>>
  BY <1>6 DEF Rehydrate
<1> QED
  BY <1>1, <1>2, <1>3, <1>4, <1>5, <1>6 DEF Next, Advance, Fail

\* A retry keeps the bytes and the record of the attempt that came first.
THEOREM StoredOnce == Spec => WriteOnce
<1>1. IInv /\ [Next]_vars =>
        [/\ \A c \in Contents : objects[c] # None => objects'[c] = objects[c]
         /\ \A k \in Keys : catalogue[k] # None => catalogue'[k] = catalogue[k]]_vars
  BY StepWriteOnce
<1> QED
  BY <1>1, Invariance, PTL DEF Spec, WriteOnce

----------------------------------------------------------------------------
\* The initial states are initial states of immutable evidence.
LEMMA RefineInit == Init => Evidence!Init
<1> SUFFICES ASSUME Init PROVE Evidence!Init
  OBVIOUS
<1>1. IInv
  BY InitIInv
<1>2. Preserved \in SUBSET Contents
  BY DEF Preserved
<1>3. Bound \in [Keys -> Manifests \cup {None}]
  BY <1>1 DEF Bound, IInv, TypeOK, Records
<1>4. \A k \in Keys : Bound[k] # None =>
          Bound[k].key = k /\ Bound[k].content \in Preserved
  BY <1>1, ManifestFields
     DEF Bound, Preserved, IInv, TypeOK, CatalogueBacked, Records
<1>5. parserInputs = {}
  BY DEF Init
<1> QED
  BY <1>2, <1>3, <1>4, <1>5 DEF Evidence!Init, Evidence!Manifests, Manifests

\* A PUT of content preserves that content or changes nothing the abstraction sees.
LEMMA RefinePutContent ==
    ASSUME IInv, NEW c \in Contents, PutContent(c) \/ UNCHANGED objects,
           UNCHANGED <<catalogue, parserInputs>>
    PROVE  Evidence!Next \/ UNCHANGED Evidence!vars
<1>1. Bound' = Bound
  BY DEF Bound
<1>2. CASE objects[c] = None /\ PutContent(c)
  <2>1. Preserved' = Preserved \cup {c}
    BY <1>2, NoneIsNoValue DEF Preserved, Intact, PutContent, IInv, TypeOK
  <2>2. Evidence!Preserve(c)
    BY <1>1, <2>1 DEF Evidence!Preserve
  <2> QED
    BY <2>2 DEF Evidence!Next
<1>3. CASE ~(objects[c] = None /\ PutContent(c))
  <2>1. objects' = objects
    BY <1>3 DEF PutContent, IInv, TypeOK
  <2>2. Preserved' = Preserved
    BY <2>1 DEF Preserved, Intact
  <2> QED
    BY <1>1, <2>2 DEF Evidence!vars
<1> QED
  BY <1>2, <1>3

\* A PUT of a record by a run that verified its bytes binds its manifest.
LEMMA RefinePutRecord ==
    ASSUME IInv, NEW r \in Runs, phase[r] = "verified",
           PutRecord(manifest[r].key, NewRecord(r)) \/ UNCHANGED catalogue,
           UNCHANGED <<objects, parserInputs>>
    PROVE  Evidence!Next \/ UNCHANGED Evidence!vars
<1> DEFINE m == manifest[r]
           rec == NewRecord(r)
<1>1. /\ m \in Manifests /\ m # None /\ m.key \in Keys /\ m.content \in Contents
      /\ rec # None /\ rec.manifest = m
      /\ Intact(m.content)
  BY NewRecordType, ManifestFields DEF IInv, RunEvidence
<1> HIDE DEF rec
<1>2. Preserved' = Preserved
  BY DEF Preserved, Intact
<1>3. CASE catalogue[m.key] = None /\ PutRecord(m.key, rec)
  <2>1. catalogue' = [catalogue EXCEPT ![m.key] = rec]
    BY <1>3 DEF PutRecord, IInv, TypeOK
  <2>2. Bound[m.key] = None
    BY <1>1, <1>3 DEF Bound
  <2>3. Bound' = [Bound EXCEPT ![m.key] = m]
    BY <1>1, <2>1 DEF Bound, IInv, TypeOK
  <2>4. Evidence!Bind(m)
    BY <1>1, <1>2, <2>2, <2>3 DEF Evidence!Bind, Preserved
  <2> QED
    BY <1>1, <2>4 DEF Evidence!Next, Evidence!Manifests, Manifests
<1>4. CASE ~(catalogue[m.key] = None /\ PutRecord(m.key, rec))
  <2>1. catalogue' = catalogue
    BY <1>4 DEF PutRecord, IInv, TypeOK, rec
  <2>2. Bound' = Bound
    BY <2>1 DEF Bound
  <2> QED
    BY <1>2, <2>2 DEF Evidence!vars
<1> QED
  BY <1>3, <1>4

\* Handing a catalogued manifest over intact bytes to the parser exposes it.
LEMMA RefineExpose ==
    ASSUME IInv, NEW m \in Manifests,
           Intact(m.content), catalogue[m.key] # None, catalogue[m.key].manifest = m,
           parserInputs' \in {parserInputs, parserInputs \cup {m}},
           UNCHANGED <<objects, catalogue>>
    PROVE  Evidence!Next \/ UNCHANGED Evidence!vars
<1>1. Preserved' = Preserved /\ Bound' = Bound
  BY DEF Preserved, Bound, Intact
<1>2. CASE parserInputs' = parserInputs \cup {m}
  <2>1. Bound[m.key] = m /\ m.content \in Preserved
    BY ManifestFields DEF Bound, Preserved
  <2>2. Evidence!Expose(m)
    BY <1>1, <1>2, <2>1 DEF Evidence!Expose
  <2> QED
    BY <2>2 DEF Evidence!Next, Evidence!Manifests, Manifests
<1>3. CASE parserInputs' = parserInputs
  BY <1>1, <1>3 DEF Evidence!vars
<1> QED
  BY <1>2, <1>3

\* Every step is a step of immutable evidence, or changes nothing it speaks of.
LEMMA RefineNext == IInv /\ [Next]_vars => [Evidence!Next]_(Evidence!vars)
<1> SUFFICES ASSUME IInv, [Next]_vars
             PROVE  Evidence!Next \/ UNCHANGED Evidence!vars
  OBVIOUS
<1>1. ASSUME UNCHANGED <<objects, catalogue, parserInputs>>
      PROVE  UNCHANGED Evidence!vars
  BY <1>1 DEF Evidence!vars, Preserved, Bound, Intact
<1>2. CASE UNCHANGED vars
  BY <1>1, <1>2 DEF vars
<1>3. ASSUME NEW r \in Runs, ContentCreated(r) \/ ContentExists(r) \/ ContentPutFails(r)
      PROVE  Evidence!Next \/ UNCHANGED Evidence!vars
  <2>1. manifest[r].content \in Contents
    BY <1>3, ManifestFields DEF ContentCreated, ContentExists, ContentPutFails, IInv, TypeOK
  <2> QED
    BY <1>3, <2>1, RefinePutContent DEF ContentCreated, ContentExists, ContentPutFails
<1>4. ASSUME NEW r \in Runs, RecordCreated(r) \/ RecordExists(r) \/ RecordPutFails(r)
      PROVE  Evidence!Next \/ UNCHANGED Evidence!vars
  BY <1>4, RefinePutRecord DEF RecordCreated, RecordExists, RecordPutFails
<1>5. ASSUME NEW r \in Runs, ReadBackRecord(r)
      PROVE  Evidence!Next \/ UNCHANGED Evidence!vars
  <2>1. /\ manifest[r] \in Manifests /\ Intact(manifest[r].content)
        /\ catalogue[manifest[r].key] # None /\ UNCHANGED <<objects, catalogue>>
    BY <1>5 DEF ReadBackRecord, IInv, TypeOK, RunEvidence
  <2>2. CASE RecordAccepted(r)
    <3>1. catalogue[manifest[r].key].manifest = manifest[r]
      BY <2>2 DEF RecordAccepted, NewRecord
    <3>2. parserInputs' = parserInputs \cup {manifest[r]}
      BY <1>5, <2>2 DEF ReadBackRecord
    <3> QED
      BY <2>1, <3>1, <3>2, RefineExpose
  <2>3. CASE ~RecordAccepted(r)
    BY <1>1, <1>5, <2>3 DEF ReadBackRecord
  <2> QED
    BY <2>2, <2>3
<1>6. ASSUME NEW k \in Keys, NEW c \in Contents, Rehydrate(k, c)
      PROVE  Evidence!Next \/ UNCHANGED Evidence!vars
  <2> DEFINE m == catalogue[k].manifest
  <2>1. /\ m \in Manifests /\ m.key = k /\ m.content = c /\ Intact(c)
        /\ catalogue[k] # None /\ parserInputs' = parserInputs \cup {m}
        /\ UNCHANGED <<objects, catalogue>>
    BY <1>6 DEF Rehydrate, IInv, TypeOK, Records
  <2> QED
    BY <2>1, RefineExpose
<1>7. ASSUME NEW r \in Runs,
             ReadBackContent(r) \/ Stop(r) \/ \E m \in Manifests : Stage(r, m)
      PROVE  UNCHANGED <<objects, catalogue, parserInputs>>
  BY <1>7 DEF ReadBackContent, Stop, Stage
<1> QED
  BY <1>1, <1>2, <1>3, <1>4, <1>5, <1>6, <1>7 DEF Next, Advance, Fail

\* The archive implements immutable evidence.
THEOREM Refinement == Spec => ImplementsEvidence
<1>1. Init => Evidence!Init
  BY RefineInit
<1>2. IInv /\ [Next]_vars => [Evidence!Next]_(Evidence!vars)
  BY RefineNext
<1> QED
  BY <1>1, <1>2, Invariance, PTL DEF Spec, ImplementsEvidence, Evidence!Spec
==============================================================================
