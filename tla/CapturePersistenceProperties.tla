---------------------- MODULE CapturePersistenceProperties ----------------------
(***************************************************************************)
(* What must hold of relational persistence, whatever transactions overlap *)
(* and wherever one of them is cut off.                                    *)
(***************************************************************************)
EXTENDS CapturePersistence, Naturals

\* Every variable has its type, a key has one committed row, and a writer holds
\* a capture exactly while it works.
TypeOK ==
    /\ archived \in SUBSET Manifests
    /\ committed \in SUBSET Rows
    /\ \A r, s \in committed : r.table = s.table /\ r.key = s.key => r = s
    /\ job \in [Writers -> Manifests \cup {None}]
    /\ at \in [Writers -> Steps]
    /\ \A w \in Writers : at[w] = "idle" <=> job[w] = None
    /\ missed \in [Writers -> BOOLEAN]
    /\ own \in [Writers -> SUBSET Rows]
    /\ persisted \in SUBSET Manifests
    /\ refused \in SUBSET (Manifests \X Tables)

\* A committed capture is archived and stands on committed rows that say what
\* it says: its series under the register of its regime, its resource, and a
\* content row that is durable.  Half a capture is never visible.
CapturesClosed ==
    \A m \in Manifests : Row(m, "capture") \in committed =>
        m \in archived /\ \A t \in Tables : Row(m, t) \in committed

\* A content row is durable only if the store holds its bytes intact.
DurableIsArchived ==
    \A r \in committed :
        r.table = "content" /\ r.value = "durable" => Archived(r.key)

\* A series is never bound to a register of another regime: a special register
\* of an authority stays apart from its ordinary one.
RegimesSeparate ==
    \A m \in Manifests :
        Row(m, "series") \in committed => Row(m, "register") \in committed

\* A report of persistence is true: the capture it names is committed, under
\* its own manifest.  (The converse fails: an acknowledgement may be lost.)
PersistedIsCommitted ==
    \A m \in persisted : Row(m, "capture") \in committed

\* A committed row never changes or goes, except that a content row without a
\* durable location gains one.
RowsAreKept ==
    [][\A r \in committed :
          \/ r \in committed'
          \/ /\ r.table = "content" /\ r.value = "ephemeral"
             /\ [r EXCEPT !.value = "durable"] \in committed']_vars

\* The order in which a transaction takes its keys.
Rank == [idle |-> 0, authority |-> 1, register |-> 2, series |-> 3, verify |-> 4,
         resource |-> 5, content |-> 6, capture |-> 7, commit |-> 8]

\* A writer past a table holds or has read the row it needs there, of which no
\* other transaction can deprive it before it commits: its content row is its
\* own even when it was only read, and what it holds nobody else holds and
\* nothing committed contradicts.
WriterEvidence ==
    \A w \in Writers :
        /\ Rank[at[w]] > Rank["verify"] => job[w] \in archived
        /\ missed[w] => at[w] \in Tables
        /\ \A t \in Tables : Rank[t] < Rank[at[w]] =>
               Row(job[w], t) \in own[w] \/ (t # "content" /\ Row(job[w], t) \in committed)
        /\ \A r \in own[w] :
               /\ r = Row(job[w], r.table) /\ Rank[r.table] < Rank[at[w]]
               /\ \A s \in committed : s.table = r.table /\ s.key = r.key =>
                      s = r \/ (s.table = "content" /\ s.value = "ephemeral")
               /\ \A v \in Writers \ {w} : \A s \in own[v] :
                      ~(s.table = r.table /\ s.key = r.key)

\* v waits for w to end: it cannot go on, and w holds the key it is at.
Waits(v, w) ==
    /\ v # w /\ at[v] \in Tables
    /\ missed[v] \/ (at[v] = "content" /\ Matching(committed, v) # {})
    /\ Matching(own[w], v) # {}

\* No writers all wait for each other: every transaction takes its keys in the
\* same order, so the database never has to break a deadlock.
NoWaitCycle ==
    \A S \in (SUBSET Writers) \ {{}} : \E v \in S : \A w \in S : ~Waits(v, w)

\* Nothing committed contradicts the capture.
Acceptable(m) ==
    \A r \in committed : \A t \in Tables :
        r.table = t /\ r.key = Key(m, t) =>
            r.value = Value(m, t) \/ (t = "content" /\ r.value = "ephemeral")

\* Retries converge: an archived capture that nothing committed contradicts is
\* committed and reported, whatever attempt was cut off, even after a commit
\* whose acknowledgement was lost, and however often a rival wins a key first.
RetriesPersist ==
    \A m \in Manifests :
        (m \in archived /\ []Acceptable(m)) ~> (m \in persisted)

\* Registration never refuses a reviewed series: it "idempotently ensures the
\* corresponding public authority, White List register and logical
\* SourceSeries exist" (docs/architecture/reviewed-source-series-registration.md).
ReviewedSeriesRegister ==
    \A m \in Manifests : <<m, "register">> \notin refused

----------------------------------------------------------------------------
Captures == {m \in Manifests : Row(m, "capture") \in committed}

Table == INSTANCE CaptureTable WITH captures <- Captures, reported <- persisted

\* However many statements the transactions of a capture take, whichever of
\* them overlap and whatever rows they find, to a reader the captures appear
\* one at a time, whole, and none contradicts another.
ImplementsCaptureTable == Table!Spec
=============================================================================
