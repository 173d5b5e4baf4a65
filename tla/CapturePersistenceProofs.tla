------------------------ MODULE CapturePersistenceProofs ------------------------
(***************************************************************************)
(* Proofs, for every set of writers and captures and every reviewed        *)
(* inventory, of what MCCapturePersistence checks on small instances.      *)
(***************************************************************************)
EXTENDS CapturePersistenceProperties, TLAPS

\* Commitments and the knowledge of running transactions, together inductive.
IInv == /\ TypeOK
        /\ CapturesClosed /\ DurableIsArchived /\ RegimesSeparate
        /\ PersistedIsCommitted
        /\ WriterEvidence

----------------------------------------------------------------------------
\* The steps are numbered in the order in which a transaction takes them.
LEMMA RankOf ==
    ASSUME NEW x \in Steps
    PROVE  \/ x = "idle" /\ Rank[x] = 0
           \/ x = "authority" /\ Rank[x] = 1
           \/ x = "register" /\ Rank[x] = 2
           \/ x = "series" /\ Rank[x] = 3
           \/ x = "verify" /\ Rank[x] = 4
           \/ x = "resource" /\ Rank[x] = 5
           \/ x = "content" /\ Rank[x] = 6
           \/ x = "capture" /\ Rank[x] = 7
           \/ x = "commit" /\ Rank[x] = 8
BY DEF Steps, Tables, Rank

LEMMA FollowingRank ==
    ASSUME NEW w \in Writers, at[w] \in Tables \cup {"verify"}
    PROVE  /\ Following(w) \in Steps
           /\ Following(w) # "idle"
           /\ Rank[Following(w)] = Rank[at[w]] + 1
BY DEF Following, Steps, Tables, Rank

\* What the rows of a capture say, table by table.
LEMMA RowFields ==
    ASSUME NEW m, NEW t
    PROVE  /\ Row(m, t).table = t
           /\ Row(m, t).key = Key(m, t)
           /\ Row(m, t).value = Value(m, t)
BY DEF Row

LEMMA RowValues ==
    ASSUME NEW m
    PROVE  /\ Key(m, "content") = m.content /\ Value(m, "content") = "durable"
           /\ Value(m, "capture") = m
           /\ Key(m, "series") = m.series
           /\ Key(m, "register") = AuthorityOf[m.series]
           /\ Value(m, "register") = RegimeOf[m.series]
BY DEF Key, Value

LEMMA RowShape ==
    ASSUME NEW r \in Rows
    PROVE  /\ r.table \in Tables
           /\ r = [table |-> r.table, key |-> r.key, value |-> r.value]
BY DEF Rows, ContentRows, Row, Tables

\* A row with the table, key and value of a capture's row is that row.
LEMMA RowIdentity ==
    ASSUME NEW r \in Rows, NEW m, r.key = Key(m, r.table), r.value = Value(m, r.table)
    PROVE  r = Row(m, r.table)
BY RowShape DEF Row

LEMMA RowInRows ==
    ASSUME NEW m \in Manifests, NEW t \in Tables
    PROVE  Row(m, t) \in Rows
BY DEF Rows

\* A capture row names its capture; a series row fixes the register.
LEMMA RowInjective ==
    ASSUME NEW m, NEW n
    PROVE  /\ Row(m, "capture") = Row(n, "capture") => m = n
           /\ Row(m, "series") = Row(n, "series") => Row(m, "register") = Row(n, "register")
<1>1. Row(m, "capture") = Row(n, "capture") => m = n
  BY RowFields, RowValues
<1>2. ASSUME Row(m, "series") = Row(n, "series")
      PROVE  Row(m, "register") = Row(n, "register")
  <2>1. Row(m, "series").key = m.series
    BY RowFields, RowValues
  <2>2. Row(n, "series").key = n.series
    BY RowFields, RowValues
  <2>3. m.series = n.series
    BY <1>2, <2>1, <2>2
  <2> QED
    BY <2>3, RowValues DEF Row
<1> QED
  BY <1>1, <1>2

----------------------------------------------------------------------------
\* What a running transaction holds belongs to the capture it persists.
LEMMA OwnRow ==
    ASSUME IInv, NEW w \in Writers, NEW r \in own[w]
    PROVE  /\ r \in Rows /\ r.table \in Tables
           /\ r = Row(job[w], r.table)
           /\ at[w] # "idle" /\ job[w] \in Manifests
<1>1. r \in Rows /\ r.table \in Tables
  BY RowShape DEF IInv, TypeOK
<1>2. r = Row(job[w], r.table) /\ Rank[r.table] < Rank[at[w]]
  BY DEF IInv, WriterEvidence
<1>3. at[w] \in Steps /\ r.table \in Steps
  BY <1>1 DEF IInv, TypeOK, Steps
<1>4. at[w] # "idle"
  BY <1>2, <1>3, RankOf
<1> QED
  BY <1>1, <1>2, <1>4 DEF IInv, TypeOK

\* The initial states satisfy the invariant.
LEMMA InitIInv == Init => IInv
<1> SUFFICES ASSUME Init PROVE IInv
  OBVIOUS
<1>1. \A r \in committed : r \in ContentRows /\ r.table = "content"
  BY DEF Init, ContentRows
<1>2. TypeOK
  BY <1>1 DEF Init, TypeOK, Steps, Rows
<1>3. CapturesClosed /\ RegimesSeparate
  BY <1>1, RowFields DEF CapturesClosed, RegimesSeparate
<1>4. DurableIsArchived /\ PersistedIsCommitted
  BY DEF Init, DurableIsArchived, PersistedIsCommitted
<1>5. WriterEvidence
  <2>1. \A t \in Tables : ~(Rank[t] < Rank["idle"])
    BY RankOf DEF Steps, Tables
  <2>2. ~(Rank["idle"] > Rank["verify"])
    BY RankOf DEF Steps, Tables
  <2>3. \A w \in Writers : at[w] = "idle" /\ ~missed[w] /\ own[w] = {}
    BY DEF Init
  <2> QED
    BY <2>1, <2>2, <2>3 DEF WriterEvidence
<1> QED
  BY <1>2, <1>3, <1>4, <1>5 DEF IInv

----------------------------------------------------------------------------
\* A transaction that ends without committing leaves nothing behind.
LEMMA EndIInv ==
    ASSUME IInv, NEW w \in Writers, End(w),
           UNCHANGED <<archived, committed, persisted>>, refused' \in SUBSET (Manifests \X Tables)
    PROVE  IInv'
<1>1. TypeOK'
  BY DEF IInv, TypeOK, End, Steps
<1>2. CapturesClosed' /\ DurableIsArchived' /\ RegimesSeparate' /\ PersistedIsCommitted'
  BY DEF IInv, CapturesClosed, DurableIsArchived, RegimesSeparate, PersistedIsCommitted,
         Archived
<1>3. WriterEvidence'
  <2>1. \A t \in Tables : ~(Rank[t] < Rank["idle"])
    BY RankOf DEF Steps, Tables
  <2>2. ~(Rank["idle"] > Rank["verify"])
    BY RankOf DEF Steps, Tables
  <2>3. at'[w] = "idle" /\ ~missed'[w] /\ own'[w] = {}
    BY DEF IInv, TypeOK, End
  <2>4. \A v \in Writers \ {w} : /\ at'[v] = at[v] /\ job'[v] = job[v]
                                 /\ missed'[v] = missed[v] /\ own'[v] = own[v]
    BY DEF IInv, TypeOK, End
  <2> QED
    BY <2>1, <2>2, <2>3, <2>4 DEF IInv, WriterEvidence
<1> QED
  BY <1>1, <1>2, <1>3 DEF IInv

\* A SELECT that finds nothing only makes the writer remember that.
LEMMA MissIInv ==
    ASSUME IInv, NEW w \in Writers, at[w] \in Tables,
           missed' = [missed EXCEPT ![w] = TRUE],
           UNCHANGED <<archived, committed, persisted, job, at, own, refused>>
    PROVE  IInv'
<1>1. TypeOK'
  BY DEF IInv, TypeOK
<1>2. CapturesClosed' /\ DurableIsArchived' /\ RegimesSeparate' /\ PersistedIsCommitted'
  BY DEF IInv, CapturesClosed, DurableIsArchived, RegimesSeparate, PersistedIsCommitted,
         Archived
<1>3. WriterEvidence'
  BY DEF IInv, TypeOK, WriterEvidence
<1> QED
  BY <1>1, <1>2, <1>3 DEF IInv

\* What a writer knows when it goes on to its next step, holding new rows: it
\* has found, or made, the row it needs, and nobody else can have its key.
MayProceed(w, rows) ==
    /\ at[w] \in Tables \cup {"verify"}
    /\ at[w] = "verify" => job[w] \in archived /\ rows = {}
    /\ rows \subseteq {Row(job[w], at[w])}
    /\ at[w] \in Tables => \/ Row(job[w], at[w]) \in rows
                           \/ at[w] # "content" /\ Row(job[w], at[w]) \in committed
    /\ rows # {} => ~Blocked(w)
    /\ rows # {} => \A s \in Matching(committed, w) :
                        \/ s = Row(job[w], at[w])
                        \/ s.table = "content" /\ s.value = "ephemeral"

LEMMA ProceedIInv ==
    ASSUME IInv, NEW w \in Writers, NEW rows, MayProceed(w, rows), Proceed(w, rows),
           UNCHANGED <<archived, committed, persisted, refused>>
    PROVE  IInv'
<1> USE DEF MayProceed
<1>1. job[w] \in Manifests /\ at[w] # "idle"
  BY DEF IInv, TypeOK, Tables
<1>2. rows \in SUBSET Rows
  BY <1>1, RowInRows
<1>3. /\ at' = [at EXCEPT ![w] = Following(w)] /\ job' = job
      /\ missed' = [missed EXCEPT ![w] = FALSE]
      /\ own' = [own EXCEPT ![w] = own[w] \cup rows]
  BY DEF Proceed
<1>4. TypeOK'
  BY <1>1, <1>2, <1>3, FollowingRank DEF IInv, TypeOK
<1>5. CapturesClosed' /\ DurableIsArchived' /\ RegimesSeparate' /\ PersistedIsCommitted'
  BY DEF IInv, CapturesClosed, DurableIsArchived, RegimesSeparate, PersistedIsCommitted,
         Archived
<1>6. at'[w] = Following(w) /\ ~missed'[w] /\ own'[w] = own[w] \cup rows
  BY <1>3 DEF IInv, TypeOK
<1>7. \A v \in Writers \ {w} : at'[v] = at[v] /\ missed'[v] = missed[v] /\ own'[v] = own[v]
  BY <1>3 DEF IInv, TypeOK
<1>8. at[w] \in Steps /\ Rank[at'[w]] = Rank[at[w]] + 1
  BY <1>6, FollowingRank DEF IInv, TypeOK
<1>9. \A x \in Steps : /\ Rank[x] \in Nat
                       /\ Rank[x] < Rank[at'[w]] => Rank[x] < Rank[at[w]] \/ x = at[w]
                       /\ Rank[x] < Rank[at[w]] => Rank[x] < Rank[at'[w]]
  BY <1>8, RankOf
<1>10. \A r \in rows : r.table = at[w] /\ r.key = Key(job[w], at[w]) /\ at[w] \in Tables
  BY RowFields
<1>11. \A v \in Writers \ {w} : \A r \in rows, s \in own[v] :
           ~(s.table = r.table /\ s.key = r.key)
  BY <1>10 DEF Blocked, Matching
<1>12. Rank[at'[w]] > Rank["verify"] => job[w] \in archived
  <2>1. Rank[at[w]] > Rank["verify"] \/ at[w] = "verify" \/ ~(Rank[at'[w]] > Rank["verify"])
    BY <1>8, RankOf DEF Steps
  <2> QED
    BY <2>1 DEF IInv, WriterEvidence
<1>13. \A t \in Tables : Rank[t] < Rank[at'[w]] =>
           Row(job[w], t) \in own'[w] \/ (t # "content" /\ Row(job[w], t) \in committed)
  BY <1>6, <1>9 DEF IInv, WriterEvidence, Steps
<1>14. \A r \in own'[w] : r = Row(job[w], r.table) /\ Rank[r.table] < Rank[at'[w]]
  <2> SUFFICES ASSUME NEW r \in own'[w]
               PROVE  r = Row(job[w], r.table) /\ Rank[r.table] < Rank[at'[w]]
    OBVIOUS
  <2>1. CASE r \in own[w]
    BY <2>1, <1>9, OwnRow DEF IInv, WriterEvidence, Steps
  <2>2. CASE r \in rows
    BY <2>2, <1>8, <1>9, <1>10
  <2> QED
    BY <2>1, <2>2, <1>6
<1>15. \A r \in own'[w] : \A s \in committed : s.table = r.table /\ s.key = r.key =>
           s = r \/ (s.table = "content" /\ s.value = "ephemeral")
  BY <1>6, <1>10 DEF IInv, WriterEvidence, Matching
<1>16. \A v \in Writers \ {w} : \A r \in own'[w], s \in own[v] :
           ~(s.table = r.table /\ s.key = r.key)
  BY <1>6, <1>11 DEF IInv, WriterEvidence
<1>17. WriterEvidence'
  <2> SUFFICES ASSUME NEW u \in Writers
               PROVE  /\ Rank[at'[u]] > Rank["verify"] => job[u] \in archived
                      /\ missed'[u] => at'[u] \in Tables
                      /\ \A t \in Tables : Rank[t] < Rank[at'[u]] =>
                             \/ Row(job[u], t) \in own'[u]
                             \/ (t # "content" /\ Row(job[u], t) \in committed)
                      /\ \A r \in own'[u] :
                             /\ r = Row(job[u], r.table) /\ Rank[r.table] < Rank[at'[u]]
                             /\ \A s \in committed : s.table = r.table /\ s.key = r.key =>
                                    s = r \/ (s.table = "content" /\ s.value = "ephemeral")
                             /\ \A v \in Writers \ {u} : \A s \in own'[v] :
                                    ~(s.table = r.table /\ s.key = r.key)
    BY <1>3 DEF WriterEvidence
  <2>1. CASE u = w
    BY <2>1, <1>6, <1>7, <1>12, <1>13, <1>14, <1>15, <1>16
  <2>2. CASE u # w
    <3>1. /\ at'[u] = at[u] /\ missed'[u] = missed[u] /\ own'[u] = own[u]
      BY <2>2, <1>7
    <3>2. \A r \in own[u] : \A v \in Writers \ {u} : \A s \in own'[v] :
              ~(s.table = r.table /\ s.key = r.key)
      BY <2>2, <1>7, <1>16 DEF IInv, WriterEvidence
    <3> QED
      BY <3>1, <3>2 DEF IInv, WriterEvidence
  <2> QED
    BY <2>1, <2>2
<1> QED
  BY <1>4, <1>5, <1>17 DEF IInv

----------------------------------------------------------------------------
\* Committing replaces rows of the keys the writer holds: whatever else was
\* committed stays, and so does what says the same.
LEMMA PublishKeeps ==
    ASSUME IInv, NEW w \in Writers, Publish(w), NEW r \in committed
    PROVE  \/ r \in committed'
           \/ /\ r.table = "content" /\ r.value = "ephemeral"
              /\ [r EXCEPT !.value = "durable"] \in committed'
<1>1. r \in Rows
  BY DEF IInv, TypeOK
<1>2. CASE \A o \in own[w] : ~(r.table = o.table /\ r.key = o.key)
  BY <1>2 DEF Publish
<1>3. CASE \E o \in own[w] : r.table = o.table /\ r.key = o.key
  <2>1. PICK o \in own[w] : r.table = o.table /\ r.key = o.key
    BY <1>3
  <2>2. o \in committed'
    BY DEF Publish
  <2>3. r = o \/ (r.table = "content" /\ r.value = "ephemeral")
    BY <2>1 DEF IInv, WriterEvidence
  <2>4. ASSUME r.table = "content" PROVE [r EXCEPT !.value = "durable"] = o
    <3>1. o \in Rows /\ o = Row(job[w], "content")
      BY <2>1, <2>4, OwnRow
    <3>2. o.value = "durable"
      BY <3>1, RowFields, RowValues
    <3>3. /\ r = [table |-> r.table, key |-> r.key, value |-> r.value]
          /\ o = [table |-> o.table, key |-> o.key, value |-> o.value]
      BY <1>1, <3>1, RowShape
    <3> QED
      BY <2>1, <3>2, <3>3
  <2> QED
    BY <2>2, <2>3, <2>4
<1> QED
  BY <1>2, <1>3

\* The rows of a capture that are committed are still there after a commit.
LEMMA PublishKeepsRow ==
    ASSUME IInv, NEW w \in Writers, Publish(w), NEW m, NEW t, Row(m, t) \in committed
    PROVE  Row(m, t) \in committed'
<1>1. Row(m, t).table = "content" => Row(m, t).value # "ephemeral"
  BY RowFields, RowValues
<1> QED
  BY <1>1, PublishKeeps

\* The transaction that commits makes every row of its capture visible.
LEMMA PublishCloses ==
    ASSUME IInv, NEW w \in Writers, at[w] = "commit", Publish(w)
    PROVE  /\ job[w] \in archived /\ job[w] \in Manifests
           /\ \A t \in Tables : Row(job[w], t) \in committed'
<1>1. job[w] \in Manifests
  BY DEF IInv, TypeOK
<1>2. Rank["commit"] > Rank["verify"] /\ \A t \in Tables : Rank[t] < Rank["commit"]
  BY RankOf DEF Steps, Tables
<1>3. \A t \in Tables : Row(job[w], t) \in own[w] \/ Row(job[w], t) \in committed
  BY <1>2 DEF IInv, WriterEvidence
<1>4. \A t \in Tables : Row(job[w], t) \in committed'
  BY <1>3, PublishKeepsRow DEF Publish
<1> QED
  BY <1>1, <1>2, <1>4 DEF IInv, WriterEvidence

\* A committed row was committed before or belongs to the committing writer.
LEMMA PublishSources ==
    ASSUME IInv, NEW w \in Writers, Publish(w), NEW r \in committed'
    PROVE  r \in committed \/ (r \in own[w] /\ r = Row(job[w], r.table))
BY OwnRow DEF Publish

LEMMA CommitIInv ==
    ASSUME IInv, NEW w \in Writers, at[w] = "commit", Publish(w), End(w),
           persisted' \in {persisted, persisted \cup {job[w]}},
           UNCHANGED <<archived, refused>>
    PROVE  IInv'
<1>1. TypeOK'
  <2>1. committed' \in SUBSET Rows
    BY PublishSources, OwnRow DEF IInv, TypeOK
  <2>2. ASSUME NEW r \in committed', NEW s \in committed', r.table = s.table, r.key = s.key
        PROVE  r = s
    <3>1. CASE r \in own[w] /\ s \in own[w]
      BY <2>2, <3>1, OwnRow
    <3>2. CASE r \in committed /\ s \in committed
      BY <2>2, <3>2 DEF IInv, TypeOK
    <3>3. CASE r \in own[w] /\ s \notin own[w]
      BY <2>2, <3>3 DEF Publish
    <3>4. CASE r \notin own[w] /\ s \in own[w]
      BY <2>2, <3>4 DEF Publish
    <3> QED
      BY <3>1, <3>2, <3>3, <3>4 DEF Publish
  <2>3. persisted' \in SUBSET Manifests
    BY PublishCloses DEF IInv, TypeOK
  <2> QED
    BY <2>1, <2>2, <2>3 DEF IInv, TypeOK, End, Steps
<1>2. CapturesClosed'
  <2> SUFFICES ASSUME NEW m \in Manifests, Row(m, "capture") \in committed'
               PROVE  m \in archived /\ \A t \in Tables : Row(m, t) \in committed'
    BY DEF CapturesClosed
  <2>1. CASE Row(m, "capture") \in committed
    BY <2>1, PublishKeepsRow DEF IInv, CapturesClosed
  <2>2. CASE Row(m, "capture") \notin committed
    <3>1. m = job[w]
      BY <2>2, PublishSources, RowFields, RowInjective
    <3> QED
      BY <3>1, PublishCloses
  <2> QED
    BY <2>1, <2>2
<1>3. DurableIsArchived'
  <2> SUFFICES ASSUME NEW r \in committed', r.table = "content", r.value = "durable"
               PROVE  \E m \in archived : m.content = r.key
    BY DEF DurableIsArchived, Archived
  <2>1. CASE r \in committed
    BY <2>1 DEF IInv, DurableIsArchived, Archived
  <2>2. CASE r \notin committed
    <3>1. r = Row(job[w], "content")
      BY <2>2, PublishSources
    <3> QED
      BY <3>1, PublishCloses, RowFields, RowValues
  <2> QED
    BY <2>1, <2>2
<1>4. RegimesSeparate'
  <2> SUFFICES ASSUME NEW m \in Manifests, Row(m, "series") \in committed'
               PROVE  Row(m, "register") \in committed'
    BY DEF RegimesSeparate
  <2>1. CASE Row(m, "series") \in committed
    BY <2>1, PublishKeepsRow DEF IInv, RegimesSeparate
  <2>2. CASE Row(m, "series") \notin committed
    <3>1. Row(m, "series") = Row(job[w], "series")
      BY <2>2, PublishSources, RowFields
    <3>2. Row(m, "register") = Row(job[w], "register")
      BY <3>1, RowInjective
    <3> QED
      BY <3>2, PublishCloses DEF Tables
  <2> QED
    BY <2>1, <2>2
<1>5. PersistedIsCommitted'
  <2>1. \A m \in persisted : Row(m, "capture") \in committed'
    BY PublishKeepsRow DEF IInv, PersistedIsCommitted
  <2>2. Row(job[w], "capture") \in committed'
    BY PublishCloses DEF Tables
  <2> QED
    BY <2>1, <2>2 DEF PersistedIsCommitted
<1>6. WriterEvidence'
  <2>1. \A t \in Tables : ~(Rank[t] < Rank["idle"])
    BY RankOf DEF Steps, Tables
  <2>2. ~(Rank["idle"] > Rank["verify"])
    BY RankOf DEF Steps, Tables
  <2>3. at'[w] = "idle" /\ ~missed'[w] /\ own'[w] = {}
    BY DEF IInv, TypeOK, End
  <2>4. \A v \in Writers \ {w} : /\ at'[v] = at[v] /\ job'[v] = job[v]
                                 /\ missed'[v] = missed[v] /\ own'[v] = own[v]
    BY DEF IInv, TypeOK, End
  <2>5. \A v \in Writers \ {w} : \A t \in Tables : Rank[t] < Rank[at[v]] =>
            Row(job[v], t) \in own[v] \/ (t # "content" /\ Row(job[v], t) \in committed')
    BY PublishKeepsRow DEF IInv, WriterEvidence
  <2>6. \A v \in Writers \ {w} : \A r \in own[v] : \A s \in committed' :
            s.table = r.table /\ s.key = r.key =>
                s = r \/ (s.table = "content" /\ s.value = "ephemeral")
    BY PublishSources DEF IInv, WriterEvidence
  <2> QED
    BY <2>1, <2>2, <2>3, <2>4, <2>5, <2>6 DEF IInv, WriterEvidence
<1> QED
  BY <1>1, <1>2, <1>3, <1>4, <1>5, <1>6 DEF IInv

----------------------------------------------------------------------------
\* Every action preserves the invariant.
LEMMA ArchiveIInv ==
    ASSUME IInv, NEW m \in Manifests, Archive(m)
    PROVE  IInv'
<1>1. TypeOK'
  BY DEF IInv, TypeOK, Archive
<1>2. CapturesClosed' /\ DurableIsArchived' /\ RegimesSeparate' /\ PersistedIsCommitted'
  BY DEF IInv, Archive, CapturesClosed, DurableIsArchived, RegimesSeparate,
         PersistedIsCommitted, Archived
<1>3. WriterEvidence'
  BY DEF IInv, Archive, WriterEvidence
<1> QED
  BY <1>1, <1>2, <1>3 DEF IInv

LEMMA BeginIInv ==
    ASSUME IInv, NEW w \in Writers, NEW m \in Manifests, Begin(w, m)
    PROVE  IInv'
<1>1. TypeOK'
  BY NoneIsNoManifest DEF IInv, TypeOK, Begin, Steps, Tables
<1>2. CapturesClosed' /\ DurableIsArchived' /\ RegimesSeparate' /\ PersistedIsCommitted'
  BY DEF IInv, Begin, CapturesClosed, DurableIsArchived, RegimesSeparate,
         PersistedIsCommitted, Archived
<1>3. WriterEvidence'
  <2>1. \A t \in Tables : ~(Rank[t] < Rank["authority"])
    BY RankOf DEF Steps, Tables
  <2>2. ~(Rank["authority"] > Rank["verify"])
    BY RankOf DEF Steps, Tables
  <2>3. own[w] = {} /\ at'[w] = "authority"
    BY OwnRow DEF IInv, TypeOK, Begin
  <2>4. \A v \in Writers \ {w} : at'[v] = at[v] /\ job'[v] = job[v]
    BY DEF IInv, TypeOK, Begin
  <2>5. own' = own /\ missed' = missed /\ committed' = committed /\ archived' = archived
    BY DEF Begin
  <2>6. "authority" \in Tables
    BY DEF Tables
  <2> QED
    BY <2>1, <2>2, <2>3, <2>4, <2>5, <2>6 DEF IInv, WriterEvidence
<1> QED
  BY <1>1, <1>2, <1>3 DEF IInv

LEMMA VerifyIInv ==
    ASSUME IInv, NEW w \in Writers, Verify(w)
    PROVE  IInv'
<1>1. CASE job[w] \in archived
  <2>1. MayProceed(w, {}) /\ Proceed(w, {})
    BY <1>1 DEF Verify, Tables, MayProceed
  <2> QED
    BY <2>1, ProceedIInv DEF Verify
<1>2. CASE job[w] \notin archived
  BY <1>2, EndIInv DEF Verify, IInv, TypeOK
<1> QED
  BY <1>1, <1>2

LEMMA SelectIInv ==
    ASSUME IInv, NEW w \in Writers, Select(w)
    PROVE  IInv'
<1> DEFINE found == Matching(committed, w)
           rows == IF at[w] = "content" THEN {Row(job[w], at[w])} ELSE {}
<1>1. at[w] \in Tables /\ job[w] \in Manifests
  BY DEF Select, IInv, TypeOK, Tables
<1>2. CASE found = {}
  BY <1>1, <1>2, MissIInv DEF Select
<1>3. CASE found # {} /\ \A r \in found : Agrees(w, r)
  <2>1. /\ Proceed(w, rows)
        /\ rows # {} => ~Blocked(w)
        /\ UNCHANGED <<archived, committed, persisted, refused>>
    BY <1>3 DEF Select
  <2>2. \A s \in found : s = Row(job[w], at[w]) \/ (s.table = "content" /\ s.value = "ephemeral")
    <3> SUFFICES ASSUME NEW s \in found
                 PROVE  s = Row(job[w], at[w]) \/ (s.table = "content" /\ s.value = "ephemeral")
      OBVIOUS
    <3>1. s \in Rows /\ s \in committed /\ s.table = at[w] /\ s.key = Key(job[w], at[w])
      BY DEF Matching, IInv, TypeOK
    <3>2. s.value = Value(job[w], at[w]) \/ (at[w] = "content" /\ s.value = "ephemeral")
      BY <1>3 DEF Agrees
    <3>3. CASE s.value = Value(job[w], at[w])
      BY <3>1, <3>3, RowIdentity
    <3> QED
      BY <3>1, <3>2, <3>3
  <2>3. at[w] # "content" => Row(job[w], at[w]) \in committed
    BY <1>3, <2>2 DEF Matching
  <2>4. at[w] # "verify"
    BY <1>1 DEF Tables
  <2> HIDE DEF rows, found
  <2>5. /\ rows \subseteq {Row(job[w], at[w])}
        /\ Row(job[w], at[w]) \in rows \/ at[w] # "content"
    BY DEF rows
  <2>6. PICK held : held = rows
    OBVIOUS
  <2>7. Proceed(w, held)
    BY <2>1, <2>6
  <2>8. MayProceed(w, held)
    BY <1>1, <2>1, <2>2, <2>3, <2>4, <2>5, <2>6 DEF MayProceed, found
  <2> QED
    BY <2>1, <2>7, <2>8, ProceedIInv
<1>4. CASE found # {} /\ ~(\A r \in found : Agrees(w, r))
  <2>1. /\ refused' = refused \cup {<<job[w], at[w]>>}
        /\ End(w) /\ UNCHANGED <<archived, committed, persisted>>
    BY <1>4 DEF Select
  <2>2. refused' \in SUBSET (Manifests \X Tables)
    BY <1>1, <2>1 DEF IInv, TypeOK
  <2> QED
    BY <2>1, <2>2, EndIInv
<1> QED
  BY <1>2, <1>3, <1>4

LEMMA InsertIInv ==
    ASSUME IInv, NEW w \in Writers, Insert(w)
    PROVE  IInv'
<1>1. at[w] \in Tables /\ ~Blocked(w) /\ at[w] # "verify"
  BY DEF Insert, Tables
<1>2. CASE Matching(committed, w) = {}
  <2>1. /\ Proceed(w, {Row(job[w], at[w])})
        /\ UNCHANGED <<archived, committed, persisted, refused>>
    BY <1>2 DEF Insert
  <2>2. PICK held : held = {Row(job[w], at[w])}
    OBVIOUS
  <2>3. Proceed(w, held)
    BY <2>1, <2>2
  <2>4. MayProceed(w, held)
    BY <1>1, <1>2, <2>2 DEF MayProceed
  <2> QED
    BY <2>1, <2>3, <2>4, ProceedIInv
<1>3. CASE Matching(committed, w) # {}
  BY <1>3, EndIInv DEF Insert, IInv, TypeOK
<1> QED
  BY <1>2, <1>3

LEMMA NextIInv == IInv /\ [Next]_vars => IInv'
<1> SUFFICES ASSUME IInv, [Next]_vars PROVE IInv'
  OBVIOUS
<1>1. ASSUME NEW m \in Manifests, Archive(m) PROVE IInv'
  BY <1>1, ArchiveIInv
<1>2. ASSUME NEW w \in Writers, NEW m \in Manifests, Begin(w, m) PROVE IInv'
  BY <1>2, BeginIInv
<1>3. ASSUME NEW w \in Writers, Verify(w) PROVE IInv'
  BY <1>3, VerifyIInv
<1>4. ASSUME NEW w \in Writers, Select(w) PROVE IInv'
  BY <1>4, SelectIInv
<1>5. ASSUME NEW w \in Writers, Insert(w) PROVE IInv'
  BY <1>5, InsertIInv
<1>6. ASSUME NEW w \in Writers, Commit(w) \/ CommitUnseen(w) PROVE IInv'
  BY <1>6, CommitIInv DEF Commit, CommitUnseen
<1>7. ASSUME NEW w \in Writers, Abort(w) PROVE IInv'
  BY <1>7, EndIInv DEF Abort, IInv, TypeOK
<1>8. CASE UNCHANGED vars
  <2>1. TypeOK'
    BY <1>8 DEF IInv, TypeOK, vars
  <2>2. CapturesClosed' /\ DurableIsArchived' /\ RegimesSeparate' /\ PersistedIsCommitted'
    BY <1>8 DEF IInv, vars, CapturesClosed, DurableIsArchived, RegimesSeparate,
                PersistedIsCommitted, Archived
  <2>3. WriterEvidence'
    BY <1>8 DEF IInv, vars, WriterEvidence
  <2> QED
    BY <2>1, <2>2, <2>3 DEF IInv
<1> QED
  BY <1>1, <1>2, <1>3, <1>4, <1>5, <1>6, <1>7, <1>8 DEF Next, Advance

----------------------------------------------------------------------------
\* IInv holds in every reachable state.
THEOREM Invariance == Spec => []IInv
<1>1. Init => IInv
  BY InitIInv
<1>2. IInv /\ [Next]_vars => IInv'
  BY NextIInv
<1> QED
  BY <1>1, <1>2, PTL DEF Spec

\* Types, one committed row per key, and jobs exactly while they run.
THEOREM TypeCorrect == Spec => []TypeOK
<1>1. IInv => TypeOK
  BY DEF IInv
<1> QED
  BY <1>1, Invariance, PTL

\* No half-persisted capture is ever visible, and none that is not archived.
THEOREM NoPartialCapture == Spec => []CapturesClosed
<1>1. IInv => CapturesClosed
  BY DEF IInv
<1> QED
  BY <1>1, Invariance, PTL

\* A durable content row is backed by the store; a series stays with the
\* register of its regime.
THEOREM RowsTellTheTruth == Spec => [](DurableIsArchived /\ RegimesSeparate)
<1>1. IInv => DurableIsArchived /\ RegimesSeparate
  BY DEF IInv
<1> QED
  BY <1>1, Invariance, PTL

\* What was reported as persisted is committed.
THEOREM ReportsAreTrue == Spec => []PersistedIsCommitted
<1>1. IInv => PersistedIsCommitted
  BY DEF IInv
<1> QED
  BY <1>1, Invariance, PTL

\* A step that is not a commit leaves the committed rows as they are.
LEMMA StepKeepsRows ==
    ASSUME IInv, [Next]_vars, NEW r \in committed
    PROVE  \/ r \in committed'
           \/ /\ r.table = "content" /\ r.value = "ephemeral"
              /\ [r EXCEPT !.value = "durable"] \in committed'
<1>1. CASE committed' = committed
  BY <1>1
<1>2. ASSUME NEW w \in Writers, Commit(w) \/ CommitUnseen(w)
      PROVE  \/ r \in committed'
             \/ /\ r.table = "content" /\ r.value = "ephemeral"
                /\ [r EXCEPT !.value = "durable"] \in committed'
  BY <1>2, PublishKeeps DEF Commit, CommitUnseen
<1>3. \/ committed' = committed
      \/ \E w \in Writers : Commit(w) \/ CommitUnseen(w)
  BY DEF Next, Advance, Archive, Begin, Verify, Select, Insert, Abort, vars
<1> QED
  BY <1>1, <1>2, <1>3

\* Committed rows never change or go, but for content that becomes durable.
THEOREM RowsKept == Spec => RowsAreKept
<1>1. IInv /\ [Next]_vars =>
        [\A r \in committed :
            \/ r \in committed'
            \/ /\ r.table = "content" /\ r.value = "ephemeral"
               /\ [r EXCEPT !.value = "durable"] \in committed']_vars
  BY StepKeepsRows
<1> QED
  BY <1>1, Invariance, PTL DEF Spec, RowsAreKept

\* Whoever waits has come less far than the writer it waits for.
LEMMA WaitsUp ==
    ASSUME IInv, NEW v \in Writers, NEW w \in Writers, Waits(v, w)
    PROVE  Rank[at[v]] < Rank[at[w]]
<1>1. PICK r \in own[w] : r.table = at[v]
  BY DEF Waits, Matching
<1> QED
  BY <1>1 DEF IInv, WriterEvidence

\* In a set of writers who all wait for each other nobody has come far.
LEMMA WaitersBelow ==
    ASSUME IInv, NEW S \in SUBSET Writers, \A v \in S : \E w \in S : Waits(v, w),
           NEW n \in Nat, \A v \in S : Rank[at[v]] < n + 1
    PROVE  \A v \in S : Rank[at[v]] < n
<1> SUFFICES ASSUME NEW v \in S PROVE Rank[at[v]] < n
  OBVIOUS
<1>1. PICK w \in S : Waits(v, w)
  OBVIOUS
<1>2. Rank[at[v]] \in Nat /\ Rank[at[w]] \in Nat
  BY RankOf DEF IInv, TypeOK
<1> QED
  BY <1>1, <1>2, WaitsUp

\* Transactions never deadlock: whichever of a set of writers has come furthest
\* waits for none of the others.
THEOREM NoDeadlock == Spec => []NoWaitCycle
<1>1. IInv => NoWaitCycle
  <2> SUFFICES ASSUME IInv, NEW S \in (SUBSET Writers) \ {{}},
                      \A v \in S : \E w \in S : Waits(v, w)
               PROVE  FALSE
    BY DEF NoWaitCycle
  <2> DEFINE Below(n) == \A v \in S : Rank[at[v]] < n
  <2>1. ASSUME NEW n \in Nat, Below(n + 1) PROVE Below(n)
    BY <2>1, WaitersBelow
  <2>2. Below(9)
    BY RankOf DEF IInv, TypeOK
  <2> HIDE DEF Below
  <2>3. Below(8) /\ Below(7) /\ Below(6)
    BY <2>1, <2>2
  <2>4. Below(5) /\ Below(4) /\ Below(3)
    BY <2>1, <2>3
  <2>5. Below(2) /\ Below(1) /\ Below(0)
    BY <2>1, <2>4
  <2>6. \A v \in S : Rank[at[v]] < 0
    BY <2>5 DEF Below
  <2> QED
    BY <2>6, RankOf DEF IInv, TypeOK
<1> QED
  BY <1>1, Invariance, PTL

----------------------------------------------------------------------------
\* Captures that are committed stand on the same rows wherever they share a
\* key, so what they say of them is the same.
LEMMA CommittedAreConsistent ==
    ASSUME IInv, NEW m \in Captures, NEW n \in Captures
    PROVE  Table!Consistent(m, n)
<1>1. \A t \in Tables : Row(m, t) \in committed /\ Row(n, t) \in committed
  BY DEF Captures, IInv, CapturesClosed
<1>2. ASSUME NEW t \in Tables, Key(m, t) = Key(n, t) PROVE Value(m, t) = Value(n, t)
  <2>1. Row(m, t) = Row(n, t)
    BY <1>1, <1>2, RowFields DEF IInv, TypeOK
  <2> QED
    BY <2>1, RowFields
<1>3. m.id = n.id => m = n
  BY <1>2 DEF Tables, Key, Value
<1>4. m.resource = n.resource => m.type = n.type
  BY <1>2 DEF Tables, Key, Value
<1>5. AuthorityOf[m.series] = AuthorityOf[n.series] => RegimeOf[m.series] = RegimeOf[n.series]
  BY <1>2 DEF Tables, Key, Value
<1> QED
  BY <1>3, <1>4, <1>5 DEF Table!Consistent

NoContradictions == \A m, n \in Captures : Table!Consistent(m, n)

\* A commit adds the capture of its transaction to the table, and no other.
LEMMA CommitAdds ==
    ASSUME IInv, NEW w \in Writers, at[w] = "commit", Publish(w)
    PROVE  Captures' = Captures \cup {job[w]} /\ job[w] \in Manifests /\ job[w] \in archived
<1>1. /\ job[w] \in archived /\ job[w] \in Manifests
      /\ \A t \in Tables : Row(job[w], t) \in committed'
  BY PublishCloses
<1>2. Captures \cup {job[w]} \subseteq Captures'
  BY <1>1, PublishKeepsRow DEF Captures, Tables
<1>3. ASSUME NEW m \in Manifests, Row(m, "capture") \in committed' PROVE m \in Captures \cup {job[w]}
  <2>1. CASE Row(m, "capture") \in committed
    BY <2>1 DEF Captures
  <2>2. CASE Row(m, "capture") = Row(job[w], "capture")
    BY <2>2, RowInjective
  <2>3. Row(m, "capture").table = "capture"
    BY RowFields
  <2> QED
    BY <1>3, <2>1, <2>2, <2>3, PublishSources
<1> QED
  BY <1>1, <1>2, <1>3 DEF Captures

\* The initial states and the steps are those of the table, seen from there.
LEMMA RefineInit == Init => Table!Init
<1> SUFFICES ASSUME Init PROVE Table!Init
  OBVIOUS
<1>1. \A m \in Manifests : Row(m, "capture") \notin committed
  <2>1. \A r \in committed : r.table = "content"
    BY DEF Init, ContentRows
  <2> QED
    BY <2>1, RowFields
<1> QED
  BY <1>1 DEF Init, Captures, Table!Init

LEMMA RefineCommit ==
    ASSUME IInv, NoContradictions', NEW w \in Writers, Commit(w) \/ CommitUnseen(w)
    PROVE  Table!Next
<1>1. /\ at[w] = "commit" /\ Publish(w) /\ archived' = archived
      /\ persisted' \in {persisted, persisted \cup {job[w]}}
  BY DEF Commit, CommitUnseen
<1>2. Captures' = Captures \cup {job[w]} /\ job[w] \in Manifests /\ job[w] \in archived
  BY <1>1, CommitAdds
<1>3. \A n \in Captures : Table!Consistent(job[w], n)
  BY <1>2 DEF NoContradictions, Table!Consistent
<1>4. Table!Persist(job[w])
  BY <1>1, <1>2, <1>3 DEF Table!Persist
<1> QED
  BY <1>2, <1>4 DEF Table!Next

LEMMA RefineNext == IInv /\ NoContradictions' /\ [Next]_vars => [Table!Next]_(Table!vars)
<1> SUFFICES ASSUME IInv, NoContradictions', [Next]_vars
             PROVE  Table!Next \/ UNCHANGED Table!vars
  OBVIOUS
<1>1. ASSUME UNCHANGED <<archived, committed, persisted>> PROVE UNCHANGED Table!vars
  BY <1>1 DEF Table!vars, Captures
<1>2. ASSUME NEW m \in Manifests, Archive(m) PROVE Table!Next
  <2>1. Table!Archive(m)
    BY <1>2 DEF Archive, Captures, Table!Archive
  <2> QED
    BY <2>1 DEF Table!Next
<1>3. ASSUME NEW w \in Writers, Commit(w) \/ CommitUnseen(w) PROVE Table!Next
  BY <1>3, RefineCommit
<1>4. \/ UNCHANGED <<archived, committed, persisted>>
      \/ \E m \in Manifests : Archive(m)
      \/ \E w \in Writers : Commit(w) \/ CommitUnseen(w)
  BY DEF Next, Advance, Begin, Verify, Select, Insert, Abort, vars
<1> QED
  BY <1>1, <1>2, <1>3, <1>4

\* Persistence implements the table of captures: to a reader its transactions
\* are single steps, and no two captures contradict each other.
THEOREM Refinement == Spec => ImplementsCaptureTable
<1>1. Init => Table!Init
  BY RefineInit
<1>2. IInv => NoContradictions
  BY CommittedAreConsistent DEF NoContradictions
<1>3. IInv /\ NoContradictions' /\ [Next]_vars => [Table!Next]_(Table!vars)
  BY RefineNext
<1> QED
  BY <1>1, <1>2, <1>3, Invariance, PTL DEF Spec, ImplementsCaptureTable, Table!Spec
=============================================================================
