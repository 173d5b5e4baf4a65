--------------------------- MODULE CapturePersistence ---------------------------
(***************************************************************************)
(* Relational persistence of archived captures: one transaction per        *)
(* capture registers the reviewed series, re-verifies the archive, binds   *)
(* resource, content and capture, and commits.  Writers are concurrent     *)
(* workflow jobs at READ COMMITTED: every statement sees what has been     *)
(* committed by then, and an INSERT of a key another transaction holds     *)
(* waits for that transaction to end.  persistence/archived_capture.py,    *)
(* persistence/source_series_registration.py, persistence/                 *)
(* capture_manifest.py (ensure_authority, ensure_register, ensure_series), *)
(* acquisition/archive_first.py (_persist_if_configured).                  *)
(***************************************************************************)
CONSTANTS Writers,      \* concurrent jobs with a connection of their own
          Manifests,    \* captures: [id, series, resource, type, content]
          AuthorityOf,  \* the reviewed inventory: authority of a series ...
          RegimeOf,     \* ... and the White List regime it belongs to
          None

Tables == {"authority", "register", "series", "resource", "content", "capture"}
Steps == Tables \cup {"idle", "verify", "commit"}

\* The unique key a capture selects a row of each table by.  There is one
\* register code per authority, whatever the regime of the series.
Key(m, t) == [authority |-> AuthorityOf[m.series], register |-> AuthorityOf[m.series],
              series |-> m.series, resource |-> m.resource,
              content |-> m.content, capture |-> m.id][t]

\* What the row has to say, and says when this capture inserts it.
Value(m, t) == [authority |-> "reviewed", register |-> RegimeOf[m.series],
                series |-> AuthorityOf[m.series], resource |-> m.type,
                content |-> "durable", capture |-> m][t]

Row(m, t) == [table |-> t, key |-> Key(m, t), value |-> Value(m, t)]

\* What a content row can say of its bytes: never stored durably, stored under
\* the digest in the configured store, or stored durably in another location.
ContentRows == {[table |-> "content", key |-> m.content, value |-> v] :
                    m \in Manifests, v \in {"ephemeral", "durable", "elsewhere"}}
Rows == {Row(m, t) : m \in Manifests, t \in Tables} \cup ContentRows

ASSUME NoneIsNoManifest == None \notin Manifests

VARIABLES archived,   \* captures whose bytes and record the store holds intact
          committed,  \* the committed rows
          job,        \* the capture each writer is persisting
          at,         \* the step its transaction has reached
          missed,     \* whether its SELECT at this step found no row
          own,        \* rows it has inserted, updated or locked, uncommitted
          persisted,  \* captures reported as persisted
          refused     \* <<capture, table>>: conflicts that were refused

vars == <<archived, committed, job, at, missed, own, persisted, refused>>

----------------------------------------------------------------------------
\* The rows of the key a writer is at, among the given ones.
Matching(rows, w) ==
    {r \in rows : r.table = at[w] /\ r.key = Key(job[w], at[w])}

\* Another transaction holds the key this one wants.
Blocked(w) == \E v \in Writers \ {w} : Matching(own[v], w) # {}

Archived(c) == \E m \in archived : m.content = c

----------------------------------------------------------------------------
\* Earlier manifest imports left content rows behind, and so did captures
\* archived before in this store or another one.
Init ==
    /\ archived \in SUBSET Manifests
    /\ committed \in SUBSET ContentRows
    /\ \A r, s \in committed : r.key = s.key => r = s
    /\ \A r \in committed : r.value = "durable" => Archived(r.key)
    /\ job = [w \in Writers |-> None]
    /\ at = [w \in Writers |-> "idle"]
    /\ missed = [w \in Writers |-> FALSE]
    /\ own = [w \in Writers |-> {}]
    /\ persisted = {}
    /\ refused = {}

\* EvidenceArchive: a capture's bytes and record become durable.
Archive(m) ==
    /\ archived' = archived \cup {m}
    /\ UNCHANGED <<committed, job, at, missed, own, persisted, refused>>

Begin(w, m) ==
    /\ at[w] = "idle"
    /\ job' = [job EXCEPT ![w] = m]
    /\ at' = [at EXCEPT ![w] = "authority"]
    /\ UNCHANGED <<archived, committed, missed, own, persisted, refused>>

\* The connection is gone, and with it the transaction and its locks.
End(w) ==
    /\ job' = [job EXCEPT ![w] = None]
    /\ at' = [at EXCEPT ![w] = "idle"]
    /\ missed' = [missed EXCEPT ![w] = FALSE]
    /\ own' = [own EXCEPT ![w] = {}]

\* Mutant: a series that is known has its content locked before its resource.
FollowingContentFirst(w) ==
    LET known == \E r \in committed : r.table = "series" /\ r.key = job[w].series
    IN [authority |-> "register", register |-> "series", series |-> "verify",
        verify |-> IF known THEN "content" ELSE "resource",
        content |-> IF known THEN "resource" ELSE "capture",
        resource |-> IF known THEN "capture" ELSE "content",
        capture |-> "commit"][at[w]]

\* The series is registered first, in the transaction of the capture.
Following(w) == [authority |-> "register", register |-> "series",
                 series |-> "verify", verify |-> "resource",
                 resource |-> "content", content |-> "capture",
                 capture |-> "commit"][at[w]]

Proceed(w, rows) ==
    /\ at' = [at EXCEPT ![w] = Following(w)]
    /\ missed' = [missed EXCEPT ![w] = FALSE]
    /\ own' = [own EXCEPT ![w] = @ \cup rows]
    /\ UNCHANGED job

\* Mutant: the receipts of the archive are believed.
VerifyByReceipt(w) ==
    /\ at[w] = "verify"
    /\ Proceed(w, {})
    /\ UNCHANGED <<archived, committed, persisted, refused>>

\* Receipts are not evidence: both durable objects are read again before the
\* capture is bound to anything.
Verify(w) ==
    /\ at[w] = "verify"
    /\ IF job[w] \in archived THEN Proceed(w, {}) ELSE End(w)
    /\ UNCHANGED <<archived, committed, persisted, refused>>

\* Mutant: a durable location elsewhere is replaced.
AgreesRelocating(w, r) == r.value = Value(job[w], at[w]) \/ at[w] = "content"

\* Mutant: a capture that is there already is an error, its own retry included.
AgreesOnce(w, r) ==
    /\ at[w] # "capture"
    /\ r.value = Value(job[w], at[w]) \/ (at[w] = "content" /\ r.value = "ephemeral")

\* An existing row has to say what the capture says.  A content row that is not
\* durable agrees: it is promoted.
Agrees(w, r) ==
    r.value = Value(job[w], at[w]) \/ (at[w] = "content" /\ r.value = "ephemeral")

\* Mutant: a content row is taken as it is, durable or not.
SelectUnpromoted(w) ==
    LET found == Matching(committed, w) IN
    /\ at[w] \in Tables /\ ~missed[w]
    /\ IF found = {}
         THEN /\ missed' = [missed EXCEPT ![w] = TRUE]
              /\ UNCHANGED <<job, at, own, refused>>
         ELSE /\ at[w] = "content" => ~Blocked(w)
              /\ IF \A r \in found : Agrees(w, r)
                   THEN Proceed(w, {}) /\ UNCHANGED refused
                   ELSE /\ refused' = refused \cup {<<job[w], at[w]>>}
                        /\ End(w)
    /\ UNCHANGED <<archived, committed, persisted>>

\* SELECT ... FOR UPDATE in the case of content, whose row is then held until
\* the transaction ends, promoted if it was not durable.
Select(w) ==
    LET found == Matching(committed, w) IN
    /\ at[w] \in Tables /\ ~missed[w]
    /\ IF found = {}
         THEN /\ missed' = [missed EXCEPT ![w] = TRUE]
              /\ UNCHANGED <<job, at, own, refused>>
         ELSE /\ at[w] = "content" => ~Blocked(w)
              /\ IF \A r \in found : Agrees(w, r)
                   THEN /\ Proceed(w, IF at[w] = "content" THEN {Row(job[w], at[w])} ELSE {})
                        /\ UNCHANGED refused
                   ELSE /\ refused' = refused \cup {<<job[w], at[w]>>}
                        /\ End(w)
    /\ UNCHANGED <<archived, committed, persisted>>

\* Mutant: ON CONFLICT DO NOTHING.
InsertDoingNothing(w) ==
    /\ at[w] \in Tables /\ missed[w]
    /\ ~Blocked(w)
    /\ Proceed(w, IF Matching(committed, w) = {} THEN {Row(job[w], at[w])} ELSE {})
    /\ UNCHANGED <<archived, committed, persisted, refused>>

\* INSERT after a SELECT that found nothing: if another transaction committed
\* the key meanwhile, the unique index raises and the transaction rolls back.
Insert(w) ==
    /\ at[w] \in Tables /\ missed[w]
    /\ ~Blocked(w)
    /\ IF Matching(committed, w) = {} THEN Proceed(w, {Row(job[w], at[w])}) ELSE End(w)
    /\ UNCHANGED <<archived, committed, persisted, refused>>

\* Mutant: a promotion adds a row instead of updating the one there is.
PublishAdding(w) == committed' = committed \cup own[w]

Publish(w) ==
    committed' = {r \in committed : \A o \in own[w] :
                      ~(r.table = o.table /\ r.key = o.key)} \cup own[w]

Commit(w) ==
    /\ at[w] = "commit"
    /\ Publish(w)
    /\ persisted' = persisted \cup {job[w]}
    /\ End(w)
    /\ UNCHANGED <<archived, refused>>

\* The acknowledgement is lost: the capture is there, and reported as failed.
CommitUnseen(w) ==
    /\ at[w] = "commit"
    /\ Publish(w)
    /\ End(w)
    /\ UNCHANGED <<archived, persisted, refused>>

\* The job, its connection, or a provider read inside the transaction fails.
Abort(w) ==
    /\ at[w] # "idle"
    /\ End(w)
    /\ UNCHANGED <<archived, committed, persisted, refused>>

Advance(w) == Verify(w) \/ Select(w) \/ Insert(w) \/ Commit(w)

Next ==
    \/ \E m \in Manifests : Archive(m) \/ \E w \in Writers : Begin(w, m)
    \/ \E w \in Writers : Advance(w) \/ CommitUnseen(w) \/ Abort(w)

Spec == Init /\ [][Next]_vars

\* A transaction that ends although the next step of the writer was possible
\* and would not have ended it.
Interrupted(w) == at[w] # "idle" /\ at'[w] = "idle" /\ ~Advance(w)

\* Jobs go on, every capture is taken up again, and failures are not for ever.
FairSpec ==
    /\ Spec
    /\ \A w \in Writers : WF_vars(Advance(w))
    /\ \A m \in Manifests : SF_vars(\E w \in Writers : Begin(w, m))
    /\ <>[][\A w \in Writers : ~Interrupted(w)]_vars
=============================================================================
