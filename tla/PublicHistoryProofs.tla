-------------------------- MODULE PublicHistoryProofs --------------------------
(***************************************************************************)
(* The ledger of published editions is append-only and keeps what persist  *)
(* jobs reported as preserved, for every number of editions, builds,       *)
(* attempts and disturbances.                                              *)
(***************************************************************************)
EXTENDS PublicHistoryProperties, NaturalLemmas, TLAPS

(***************************************************************************)
(* Merging.                                                                *)
(***************************************************************************)
\* merge_histories loses nothing of either side.
LEMMA MergeKeepsBoth ==
    ASSUME NEW h, NEW g, Consistent(h, g)
    PROVE  Keeps(Merge(h, g), h) /\ Keeps(Merge(h, g), g)
<1> DEFINE m == Merge(h, g)
           both == DOMAIN h.editions \cap DOMAIN g.editions
<1>1. /\ m.editions = [e \in DOMAIN h.editions \cup DOMAIN g.editions |-> Joined(h, g, e)]
      /\ m.checks = h.checks \cup g.checks
      /\ m.comparisons = h.comparisons \cup g.comparisons
    BY DEF Merge
<1>2. /\ DOMAIN m.editions = DOMAIN h.editions \cup DOMAIN g.editions
      /\ \A e \in DOMAIN m.editions : m.editions[e] = Joined(h, g, e)
    BY <1>1
<1>3. ASSUME NEW e \in both
      PROVE  /\ m.editions[e].described = h.editions[e].described
             /\ m.editions[e].described = g.editions[e].described
             /\ h.editions[e].rows \in {None, m.editions[e].rows}
             /\ g.editions[e].rows \in {None, m.editions[e].rows}
    <2> DEFINE x == h.editions[e]
               y == g.editions[e]
    <2>1. m.editions[e] = Enriched(x, y)
        BY <1>2 DEF Joined
    <2>2. Agree(x, y)
        BY DEF Consistent
    <2>3. /\ Enriched(x, y).described = x.described
          /\ Enriched(x, y).rows = IF x.rows = None THEN y.rows ELSE x.rows
        BY DEF Enriched
    <2> HIDE DEF m, x, y
    <2>4. /\ Enriched(x, y).described = y.described
          /\ x.rows \in {None, Enriched(x, y).rows}
          /\ y.rows \in {None, Enriched(x, y).rows}
        BY <2>2, <2>3 DEF Agree
    <2>5. QED
        BY <2>1, <2>3, <2>4 DEF x, y
<1>4. ASSUME NEW e \in DOMAIN h.editions, e \notin DOMAIN g.editions
      PROVE  m.editions[e] = h.editions[e]
    BY <1>2, <1>4 DEF Joined
<1>5. ASSUME NEW e \in DOMAIN g.editions, e \notin DOMAIN h.editions
      PROVE  m.editions[e] = g.editions[e]
    BY <1>2, <1>5 DEF Joined
<1> HIDE DEF m
<1>6. Keeps(m, h)
    BY <1>1, <1>2, <1>3, <1>4 DEF Keeps
<1>7. Keeps(m, g)
    BY <1>1, <1>2, <1>3, <1>5 DEF Keeps
<1>8. QED
    BY <1>6, <1>7 DEF m

LEMMA KeepsIsReflexive == ASSUME NEW h PROVE Keeps(h, h)
BY DEF Keeps

LEMMA KeepsIsTransitive ==
    ASSUME NEW h, NEW g, NEW f, Keeps(h, g), Keeps(g, f)
    PROVE  Keeps(h, f)
<1>1. ASSUME NEW e \in DOMAIN f.editions
      PROVE  /\ e \in DOMAIN h.editions
             /\ h.editions[e].described = f.editions[e].described
             /\ f.editions[e].rows \in {None, h.editions[e].rows}
    BY DEF Keeps
<1>2. f.checks \subseteq h.checks /\ f.comparisons \subseteq h.comparisons
    BY DEF Keeps
<1>3. QED
    BY <1>1, <1>2 DEF Keeps

(***************************************************************************)
(* The inductive invariant.  A commit that is still current was made from  *)
(* the ledger that main has; hence what it pushes only adds to it.         *)
(***************************************************************************)
Merged(j) ==
    /\ Mergeable(ledger, Incoming(j))
    /\ jobs[j].ledger = Merge(ledger, Incoming(j))
Sound(j) ==
    /\ jobs[j].phase = "commit" /\ jobs[j].current => Merged(j)
    /\ jobs[j].phase = "preserved" => Keeps(ledger, Incoming(j))
LedgerIsValid == Valid(ledger)
IInv ==
    /\ LedgerIsValid
    /\ DOMAIN jobs = DOMAIN candidates
    /\ \A j \in DOMAIN jobs : Sound(j)

\* A step that leaves the ledger and the candidates alone, and does not turn
\* a job into a commit or a preserved one, keeps every job sound.
LEMMA QuietStep ==
    ASSUME IInv, UNCHANGED <<ledger, candidates>>,
           DOMAIN jobs' = DOMAIN jobs,
           \A j \in DOMAIN jobs :
               \/ jobs'[j] = jobs[j]
               \/ Sound(j)'
    PROVE  IInv'
<1>1. \A j \in DOMAIN jobs : jobs'[j] = jobs[j] => Sound(j)'
    BY DEF IInv, Sound, Merged, Incoming
<1>2. QED
    BY <1>1 DEF IInv, LedgerIsValid

\* A push of a current commit by one job: other commits become outdated, and
\* what was preserved stays.
LEMMA PushStep ==
    ASSUME IInv, NEW j \in DOMAIN jobs,
           jobs[j].phase = "commit", Accepted(j),
           ledger' = jobs[j].ledger, UNCHANGED candidates,
           NEW job, jobs' = With(Moved, j, job),
           job.phase \in {"preserved", "queued", "exhausted"}
    PROVE  IInv' /\ Keeps(ledger', ledger)
<1>1. Merged(j)
    BY DEF IInv, Sound, Accepted
<1>2. /\ Keeps(ledger', ledger)
      /\ Keeps(ledger', Incoming(j))
      /\ Valid(ledger')
    BY <1>1, MergeKeepsBoth DEF Merged, Mergeable
<1>3. DOMAIN Moved = DOMAIN jobs
    BY DEF Moved
<1>4. DOMAIN jobs' = DOMAIN jobs /\ jobs'[j] = job
    BY <1>3 DEF With
<1>5. \A i \in DOMAIN jobs : i # j => jobs'[i] = Moved[i]
    BY <1>3 DEF With
<1>6. ASSUME NEW i \in DOMAIN jobs, i # j
      PROVE  Sound(i)'
    <2>1. jobs'[i] = IF jobs[i].phase = "commit"
                     THEN Ready(jobs[i], jobs[i].ledger, FALSE) ELSE jobs[i]
        BY <1>5, <1>6 DEF Moved
    <2>2. CASE jobs[i].phase = "commit"
        <3>1. jobs'[i].phase = "commit" /\ jobs'[i].current = FALSE
            BY <2>1, <2>2 DEF Ready
        <3>2. QED
            BY <3>1 DEF Sound
    <2>3. CASE jobs[i].phase # "commit"
        <3>1. jobs'[i] = jobs[i]
            BY <2>1, <2>3
        <3>2. Incoming(i)' = Incoming(i)
            BY DEF Incoming
        <3>3. jobs[i].phase = "preserved" => Keeps(ledger, Incoming(i))
            BY DEF IInv, Sound
        <3>4. jobs[i].phase = "preserved" => Keeps(ledger', Incoming(i))
            BY <3>3, <1>2, KeepsIsTransitive
        <3>5. QED
            BY <3>1, <3>2, <3>4, <2>3 DEF Sound
    <2>4. QED
        BY <2>2, <2>3
<1>7. Sound(j)'
    <2>1. Incoming(j)' = Incoming(j)
        BY DEF Incoming
    <2>2. jobs'[j].phase # "commit"
        BY <1>4
    <2>3. QED
        BY <2>1, <2>2, <1>2 DEF Sound
<1>8. IInv'
    BY <1>2, <1>4, <1>6, <1>7 DEF IInv, LedgerIsValid
<1>9. QED
    BY <1>2, <1>8

LEMMA RetriedIsNotCommitted ==
    ASSUME NEW job PROVE Retried(job).phase \in {"queued", "exhausted"}
BY DEF Retried, Queued

LEMMA InitInv == Init => IInv
<1> SUFFICES ASSUME Init PROVE IInv
    OBVIOUS
<1>1. Valid(ledger)
    BY SeedIsValid DEF Init
<1>2. DOMAIN jobs = DOMAIN candidates /\ \A j \in DOMAIN jobs : FALSE
    BY DEF Init
<1>3. QED
    BY <1>1, <1>2 DEF IInv, LedgerIsValid

LEMMA StepInv ==
    ASSUME IInv, [Next]_vars
    PROVE  IInv' /\ Keeps(ledger', ledger)
<1> USE KeepsIsReflexive
<1>1. CASE UNCHANGED <<ledger, candidates, jobs>>
    BY <1>1, QuietStep
<1>2. CASE FinishBuild
    <2>1. /\ ledger' = ledger /\ builds' = builds
          /\ jobs' = With(jobs, builds, Queued(1))
          /\ candidates' = With(candidates, builds,
                                [history |-> Built, registry |-> build.registry])
        BY <1>2 DEF FinishBuild
    <2>2. /\ DOMAIN jobs' = DOMAIN jobs \cup {builds}
          /\ jobs'[builds] = Queued(1)
        BY <2>1 DEF With
    <2>3. DOMAIN candidates' = DOMAIN candidates \cup {builds}
        BY <2>1 DEF With
    <2>4. ASSUME NEW i \in DOMAIN jobs', i = builds
          PROVE  Sound(i)'
        <3>1. jobs'[i].phase = "queued"
            BY <2>2, <2>4 DEF Queued
        <3>2. QED
            BY <3>1 DEF Sound
    <2>5. ASSUME NEW i \in DOMAIN jobs', i # builds
          PROVE  Sound(i)'
        <3>1. i \in DOMAIN jobs /\ i \in DOMAIN candidates /\ Sound(i)
            BY <2>2, <2>5 DEF IInv
        <3>2. jobs'[i] = jobs[i]
            BY <3>1, <2>1, <2>5 DEF With
        <3>3. candidates'[i] = candidates[i]
            BY <3>1, <2>1, <2>5 DEF With
        <3>4. QED
            BY <3>1, <3>2, <3>3, <2>1 DEF Sound, Merged, Incoming
    <2>6. QED
        BY <2>1, <2>2, <2>3, <2>4, <2>5 DEF IInv, LedgerIsValid
<1>3. ASSUME NEW j \in DOMAIN jobs, Reconcile(j)
      PROVE  IInv' /\ Keeps(ledger', ledger)
    <2> DEFINE job == IF ~Mergeable(ledger, Incoming(j)) THEN [phase |-> "refused"]
                      ELSE IF Merge(ledger, Incoming(j)) = ledger
                           THEN [phase |-> "preserved"]
                           ELSE Ready(jobs[j], Merge(ledger, Incoming(j)), TRUE)
    <2>1. jobs' = With(jobs, j, job) /\ UNCHANGED <<ledger, candidates>>
        BY <1>3 DEF Reconcile
    <2>2. /\ DOMAIN jobs' = DOMAIN jobs
          /\ jobs'[j] = job
          /\ \A i \in DOMAIN jobs : i # j => jobs'[i] = jobs[i]
        <3> HIDE DEF job
        <3>1. QED
            BY <2>1 DEF With
    <2>3. Incoming(j)' = Incoming(j)
        BY <2>1 DEF Incoming
    <2>4. CASE ~Mergeable(ledger, Incoming(j))
        <3>1. jobs'[j].phase = "refused"
            BY <2>2, <2>4
        <3>2. Sound(j)'
            BY <3>1 DEF Sound
        <3>3. QED
            BY <3>2, <2>1, <2>2, QuietStep
    <2>5. CASE Mergeable(ledger, Incoming(j)) /\ Merge(ledger, Incoming(j)) = ledger
        <3>1. jobs'[j].phase = "preserved"
            BY <2>2, <2>5
        <3>2. Keeps(ledger, Incoming(j))
            BY <2>5, MergeKeepsBoth DEF Mergeable
        <3>3. Sound(j)'
            BY <3>1, <3>2, <2>1, <2>3 DEF Sound
        <3>4. QED
            BY <3>3, <2>1, <2>2, QuietStep
    <2>6. CASE Mergeable(ledger, Incoming(j)) /\ Merge(ledger, Incoming(j)) # ledger
        <3>1. jobs'[j] = Ready(jobs[j], Merge(ledger, Incoming(j)), TRUE)
            BY <2>2, <2>6
        <3>2. jobs'[j].phase = "commit" /\ jobs'[j].ledger = Merge(ledger, Incoming(j))
            BY <3>1 DEF Ready
        <3>3. Sound(j)'
            BY <3>2, <2>1, <2>3, <2>6 DEF Sound, Merged
        <3>4. QED
            BY <3>3, <2>1, <2>2, QuietStep
    <2>7. QED
        BY <2>4, <2>5, <2>6
<1>4. ASSUME NEW j \in DOMAIN jobs, Push(j)
      PROVE  IInv' /\ Keeps(ledger', ledger)
    <2>1. /\ jobs[j].phase = "commit" /\ Accepted(j)
          /\ ledger' = jobs[j].ledger /\ UNCHANGED candidates
          /\ jobs' = With(Moved, j, [phase |-> "preserved"])
        BY <1>4 DEF Push
    <2>2. [phase |-> "preserved"].phase \in {"preserved", "queued", "exhausted"}
        OBVIOUS
    <2>3. QED
        BY <2>1, <2>2, PushStep
<1>5. ASSUME NEW j \in DOMAIN jobs, UNCHANGED <<ledger, candidates>>, NEW job,
             jobs' = With(jobs, j, job), job.phase \in {"queued", "exhausted"}
      PROVE  IInv' /\ Keeps(ledger', ledger)
    <2>1. /\ DOMAIN jobs' = DOMAIN jobs
          /\ jobs'[j] = job
          /\ \A i \in DOMAIN jobs : i # j => jobs'[i] = jobs[i]
        BY <1>5 DEF With
    <2>2. Sound(j)'
        BY <2>1, <1>5 DEF Sound
    <2>3. QED
        BY <2>1, <2>2, <1>5, QuietStep
<1>6. ASSUME NEW j \in DOMAIN jobs, PushRejected(j) \/ Rerun(j)
      PROVE  IInv' /\ Keeps(ledger', ledger)
    <2>1. CASE PushRejected(j)
        <3>1. jobs' = With(jobs, j, Retried(jobs[j])) /\ UNCHANGED <<ledger, candidates>>
            BY <2>1 DEF PushRejected
        <3>2. QED
            BY <3>1, <1>5, RetriedIsNotCommitted
    <2>2. CASE Rerun(j)
        <3>1. jobs' = With(jobs, j, Queued(1)) /\ UNCHANGED <<ledger, candidates>>
            BY <2>2 DEF Rerun
        <3>2. Queued(1).phase = "queued"
            BY DEF Queued
        <3>3. QED
            BY <3>1, <3>2, <1>5
    <2>3. QED
        BY <2>1, <2>2, <1>6
<1>7. ASSUME NEW j \in DOMAIN jobs, PushInterrupted(j)
      PROVE  IInv' /\ Keeps(ledger', ledger)
    <2>1. CASE UNCHANGED ledger /\ jobs' = With(jobs, j, Retried(jobs[j]))
        <3>1. UNCHANGED <<ledger, candidates>>
            BY <2>1, <1>7 DEF PushInterrupted
        <3>2. QED
            BY <2>1, <3>1, <1>5, RetriedIsNotCommitted
    <2>2. CASE /\ Accepted(j)
               /\ ledger' = jobs[j].ledger
               /\ jobs' = With(Moved, j, Retried(jobs[j]))
        <3>1. jobs[j].phase = "commit" /\ UNCHANGED candidates
            BY <1>7 DEF PushInterrupted
        <3>2. Retried(jobs[j]).phase \in {"preserved", "queued", "exhausted"}
            BY RetriedIsNotCommitted
        <3>3. QED
            BY <2>2, <3>1, <3>2, PushStep
    <2>3. QED
        BY <2>1, <2>2, <1>7 DEF PushInterrupted
<1>8. ASSUME NEW b \in DOMAIN candidates, Select(b)
      PROVE  IInv' /\ Keeps(ledger', ledger)
    <2>1. jobs' = Moved /\ UNCHANGED <<ledger, candidates>>
        BY <1>8 DEF Select
    <2>2. /\ DOMAIN jobs' = DOMAIN jobs
          /\ \A i \in DOMAIN jobs :
                jobs'[i] = IF jobs[i].phase = "commit"
                           THEN Ready(jobs[i], jobs[i].ledger, FALSE) ELSE jobs[i]
        BY <2>1 DEF Moved
    <2>3. ASSUME NEW i \in DOMAIN jobs
          PROVE  jobs'[i] = jobs[i] \/ Sound(i)'
        <3>1. CASE jobs[i].phase = "commit"
            <4>1. jobs'[i].phase = "commit" /\ jobs'[i].current = FALSE
                BY <2>2, <3>1 DEF Ready
            <4>2. QED
                BY <4>1 DEF Sound
        <3>2. QED
            BY <2>2, <3>1
    <2>4. QED
        BY <2>1, <2>2, <2>3, QuietStep
<1>9. CASE \/ StartBuild \/ FetchHistory \/ FetchRegistry
           \/ BuildRefused \/ BuildStops \/ Deploy \/ UNCHANGED vars
    BY <1>1, <1>9 DEF StartBuild, FetchHistory, FetchRegistry, BuildRefused,
                      BuildStops, Deploy, vars
<1>10. QED
    BY <1>2, <1>3, <1>4, <1>6, <1>7, <1>8, <1>9 DEF Next, Persist

(***************************************************************************)
(* The theorems.                                                           *)
(***************************************************************************)
THEOREM Invariance == Spec => []IInv
<1>1. IInv /\ [Next]_vars => IInv'
    BY StepInv
<1>2. QED
    BY <1>1, InitInv, PTL DEF Spec

\* The ledger on main is valid at all times, because every push stores the
\* validated merge of the very ledger that main has.
THEOREM LedgerStaysValid == Spec => []LedgerIsValid
<1>1. IInv => LedgerIsValid
    BY DEF IInv
<1>2. QED
    BY <1>1, Invariance, PTL

\* What a persist job reported as preserved is in the ledger for good,
\* whatever other jobs, retries and pushes do.
THEOREM PreservedEvidenceSurvives == Spec => []EvidenceSurvives
<1>1. IInv => EvidenceSurvives
    BY DEF IInv, Sound, EvidenceSurvives
<1>2. QED
    BY <1>1, Invariance, PTL

\* No step drops or changes what the ledger records: optimistic pushes never
\* overwrite one another.
THEOREM LedgerOnlyGrows == Spec => LedgerGrows
<1>1. IInv /\ [Next]_vars => [Keeps(ledger', ledger)]_vars
    BY StepInv
<1>2. QED
    BY <1>1, Invariance, PTL DEF Spec, LedgerGrows

(***************************************************************************)
(* The artifact gate.  Every registry anywhere holds fully read reports,   *)
(* at most one per source.                                                 *)
(***************************************************************************)
Horizon == MaxBuilds + CHOOSE n \in Nat : \A c \in Seed.checks : c.at <= n
Past(t) == t \in Nat /\ t <= Horizon
Read(f) ==
    \A s \in DOMAIN f :
        /\ f[s].rows # None /\ f[s].edition \in Editions /\ SourceOf[f[s].edition] = s
        /\ Recorded(f[s]) \in Readings[f[s].edition]
        /\ Past(f[s].checked)
ReleasesRead ==
    /\ selected # None => Read(selected.registry)
    /\ site # None => Read(site.registry)
    /\ \A b \in DOMAIN candidates : Read(candidates[b].registry)
BuildReads ==
    /\ build.phase \in {"history", "registry", "merge"} => Read(build.registry)
    /\ build.phase = "merge" /\ build.previous # None => Read(build.previous)
BuildsCounted == builds \in 0 .. MaxBuilds
RInv == ReleasesRead /\ BuildReads /\ BuildsCounted

\* No check is later than the last build, or than those of the seed.
LEMMA HorizonIsLast ==
    /\ Horizon \in Nat
    /\ \A t \in 0 .. MaxBuilds : Past(t)
    /\ \A c \in Seed.checks : c.at \in Nat => Past(c.at)
<1> DEFINE n == CHOOSE n \in Nat : \A c \in Seed.checks : c.at <= n
           at == [c \in Seed.checks |-> c.at]
<1>1. n \in Nat /\ \A c \in Seed.checks : c.at <= n
    <2>1. at \in [Seed.checks -> Nat]
        BY SeedIsValid DEF IsHistory, Checks
    <2>2. PICK t \in Nat : \A c \in Seed.checks : at[c] <= t
        <3> HIDE DEF at
        <3>1. QED
            BY <2>1, SeedIsFinite, FinitelyManyTimes
    <2>3. QED
        BY <2>2
<1>2. Horizon = MaxBuilds + n
    BY DEF Horizon
<1> HIDE DEF n
<1>3. Horizon \in Nat /\ MaxBuilds <= Horizon /\ n <= Horizon /\ MaxBuilds \in Nat
    BY <1>1, <1>2, BoundsAreNumbers
<1>4. QED
    BY <1>1, <1>3 DEF Past

LEMMA RegistriesAreRead ==
    ASSUME RInv, NEW now \in 0 .. MaxBuilds, NEW f \in Registries(now)
    PROVE  Read(f)
<1>1. PICK covered \in SUBSET Sources :
          /\ DOMAIN f = covered
          /\ \A s \in covered : f[s] \in Reportable(s, now)
    BY DEF Registries
<1>2. ASSUME NEW s \in covered
      PROVE  /\ f[s].rows # None /\ f[s].edition \in Editions /\ SourceOf[f[s].edition] = s
             /\ Recorded(f[s]) \in Readings[f[s].edition]
             /\ Past(f[s].checked)
    <2>1. CASE /\ f[s] \in Observed(s, now)
               /\ [described |-> f[s].described, rows |-> f[s].rows]
                     \in Readings[f[s].edition]
        <3>1. /\ f[s].edition \in Editions /\ SourceOf[f[s].edition] = s
              /\ f[s].checked = now
            BY <2>1 DEF Observed
        <3>2. f[s].rows \in Rows
            BY <2>1, <3>1 DEF Rows
        <3>3. Recorded(f[s]) \in Readings[f[s].edition]
            BY <2>1 DEF Recorded
        <3>4. QED
            BY <3>1, <3>2, <3>3, RowsAreKnown, HorizonIsLast
    <2>2. CASE selected # None /\ s \in DOMAIN selected.registry
               /\ f[s] = selected.registry[s]
        BY <2>2 DEF RInv, ReleasesRead, Read
    <2>3. QED
        BY <1>1, <2>1, <2>2 DEF Reportable
<1>3. QED
    BY <1>1, <1>2 DEF Read

\* An aggregate records each report of a registry as it was read.
LEMMA AggregateRecords ==
    ASSUME NEW f, Read(f), NEW e \in Published(f)
    PROVE  /\ e \in DOMAIN Aggregate(f).editions
           /\ Aggregate(f).editions[e] = Recorded(ReportOf(f, e))
           /\ Recorded(ReportOf(f, e)).rows # None
<1>1. PICK s \in DOMAIN f : e = f[s].edition
    BY DEF Published
<1>2. ReportOf(f, e) = f[s] /\ f[s].rows # None
    BY <1>1 DEF Read, ReportOf
<1>3. Recorded(f[s]).rows = f[s].rows
    BY DEF Recorded
<1>4. Aggregate(f).editions = [x \in Published(f) |-> Recorded(ReportOf(f, x))]
    BY DEF Aggregate
<1>5. QED
    BY <1>2, <1>3, <1>4

\* Merging a fully read record into a history leaves it as it was read.
LEMMA EnrichingARead ==
    ASSUME NEW x, NEW report, report.rows # None, Agree(x, Recorded(report))
    PROVE  Enriched(x, Recorded(report)) = Recorded(report)
<1>1. /\ Recorded(report).described = report.described
      /\ Recorded(report).rows = report.rows
    BY DEF Recorded
<1>2. x.described = report.described /\ (x.rows = None \/ x.rows = report.rows)
    BY <1>1 DEF Agree
<1>3. (IF x.rows = None THEN report.rows ELSE x.rows) = report.rows
    BY <1>2
<1>4. QED
    BY <1>1, <1>2, <1>3 DEF Enriched, Recorded

LEMMA MergingARead ==
    ASSUME NEW h, NEW g, Consistent(h, g), NEW report, report.rows # None,
           NEW e \in DOMAIN g.editions, g.editions[e] = Recorded(report)
    PROVE  /\ e \in DOMAIN Merge(h, g).editions
           /\ Merge(h, g).editions[e] = Recorded(report)
<1>1. /\ DOMAIN Merge(h, g).editions = DOMAIN h.editions \cup DOMAIN g.editions
      /\ Merge(h, g).editions[e] = Joined(h, g, e)
    BY DEF Merge
<1>2. CASE e \in DOMAIN h.editions
    <2>1. Agree(h.editions[e], Recorded(report))
        BY <1>2 DEF Consistent
    <2>2. Joined(h, g, e) = Enriched(h.editions[e], Recorded(report))
        BY <1>2 DEF Joined
    <2>3. QED
        BY <1>1, <2>1, <2>2, EnrichingARead
<1>3. CASE e \notin DOMAIN h.editions
    BY <1>1, <1>3 DEF Joined
<1>4. QED
    BY <1>2, <1>3

LEMMA GateFollows ==
    ASSUME RInv, build.phase = "merge", Buildable
    PROVE  Reconciles(Built, build.registry)
<1> DEFINE registry == build.registry
<1>1. Valid(Built) /\ Consistent(Known, Current)
    BY DEF Buildable, Mergeable, Built
<1>2. Read(registry)
    BY DEF RInv, BuildReads
<1>3. ASSUME NEW e \in Published(registry)
      PROVE  /\ e \in DOMAIN Built.editions
             /\ Built.editions[e] = Recorded(ReportOf(registry, e))
    <2> DEFINE report == ReportOf(registry, e)
    <2>1. /\ e \in DOMAIN Aggregate(registry).editions
          /\ Aggregate(registry).editions[e] = Recorded(report)
          /\ Recorded(report).rows # None
        BY <1>2, AggregateRecords
    <2>2. report.rows # None
        BY <2>1 DEF Recorded
    <2> HIDE DEF report
    <2>3. e \in DOMAIN Current.editions /\ Current.editions[e] = Recorded(report)
        <3>1. CASE build.previous = None
            BY <3>1, <2>1 DEF Current
        <3>2. CASE build.previous # None
            <4> DEFINE m == Merge(Aggregate(build.previous), Aggregate(registry))
            <4>1. Consistent(Aggregate(build.previous), Aggregate(registry))
                BY <3>2 DEF Buildable, Comparable, Mergeable
            <4>2. e \in DOMAIN m.editions /\ m.editions[e] = Recorded(report)
                BY <4>1, <2>1, <2>2, MergingARead
            <4>3. Current = [m EXCEPT !.comparisons = Deltas(build.previous, registry)]
                BY <3>2 DEF Current, Compared
            <4>4. Current.editions = m.editions
                BY <4>3 DEF Merge
            <4>5. QED
                BY <4>2, <4>4
        <3>3. QED
            BY <3>1, <3>2
    <2>4. e \in DOMAIN Built.editions /\ Built.editions[e] = Recorded(report)
        BY <1>1, <2>2, <2>3, MergingARead DEF Built
    <2>5. QED
        BY <2>4 DEF report
<1>4. QED
    BY <1>1, <1>3 DEF Reconciles

LEMMA RInvStep ==
    ASSUME RInv, [Next]_vars
    PROVE  RInv'
<1>1. CASE StartBuild
    <2>1. PICK registry \in Registries(builds + 1) :
              build' = [phase |-> "history", ledger |-> ledger, registry |-> registry]
        BY <1>1 DEF StartBuild
    <2>2. builds + 1 \in 0 .. MaxBuilds /\ builds' = builds + 1
        BY <1>1, BoundsAreNumbers DEF StartBuild, RInv, BuildsCounted
    <2>3. Read(registry)
        BY <2>2, RegistriesAreRead
    <2>4. build'.phase = "history" /\ build'.registry = registry
        BY <2>1
    <2>5. BuildReads' /\ BuildsCounted'
        BY <2>2, <2>3, <2>4 DEF BuildReads, Read, BuildsCounted
    <2>6. QED
        BY <1>1, <2>5 DEF StartBuild, RInv, ReleasesRead
<1>2. CASE FetchHistory
    <2>1. build'.phase = "registry" /\ build'.registry = build.registry
          /\ build.phase = "history"
        BY <1>2 DEF FetchHistory
    <2>2. BuildReads'
        BY <2>1 DEF RInv, BuildReads, Read
    <2>3. QED
        BY <1>2, <2>2 DEF FetchHistory, RInv, BuildsCounted, ReleasesRead
<1>3. CASE FetchRegistry
    <2>1. PICK previous \in {None} \cup (IF site = None THEN {} ELSE {site.registry}) :
              build' = [phase |-> "merge", ledger |-> build.ledger,
                        registry |-> build.registry, history |-> build.history,
                        previous |-> previous]
        BY <1>3 DEF FetchRegistry
    <2>2. build'.registry = build.registry /\ build'.previous = previous
        BY <2>1
    <2>3. previous # None => Read(previous)
        BY DEF RInv, ReleasesRead
    <2>4. Read(build.registry)
        BY <1>3 DEF FetchRegistry, RInv, BuildReads
    <2>5. BuildReads'
        BY <2>2, <2>3, <2>4 DEF BuildReads, Read
    <2>6. QED
        BY <1>3, <2>5 DEF FetchRegistry, RInv, BuildsCounted, ReleasesRead
<1>4. CASE FinishBuild
    <2>1. /\ build' = [phase |-> "idle"]
          /\ candidates' = With(candidates, builds,
                                [history |-> Built, registry |-> build.registry])
          /\ build.phase = "merge"
          /\ selected' = selected /\ site' = site
        BY <1>4 DEF FinishBuild
    <2>2. Read(build.registry)
        BY <2>1 DEF RInv, BuildReads
    <2>3. ASSUME NEW b \in DOMAIN candidates'
          PROVE  \/ candidates'[b].registry = build.registry
                 \/ /\ b \in DOMAIN candidates
                    /\ candidates'[b] = candidates[b]
        BY <2>1 DEF With
    <2>4. ReleasesRead'
        BY <2>1, <2>2, <2>3 DEF RInv, ReleasesRead, Read
    <2>5. BuildReads'
        BY <2>1 DEF BuildReads
    <2>6. QED
        BY <1>4, <2>4, <2>5 DEF FinishBuild, RInv, BuildsCounted
<1>5. CASE BuildRefused \/ BuildStops
    <2>1. build'.phase \in {"idle", "refused"}
        BY <1>5 DEF BuildRefused, BuildStops
    <2>2. BuildReads'
        BY <2>1 DEF BuildReads
    <2>3. QED
        BY <1>5, <2>2 DEF BuildRefused, BuildStops, RInv, BuildsCounted, ReleasesRead
<1>6. CASE \E j \in DOMAIN jobs : Persist(j) \/ PushInterrupted(j) \/ Rerun(j)
    <2>1. UNCHANGED <<selected, site, build, candidates, builds>>
        BY <1>6 DEF Persist, Reconcile, Push, PushRejected, PushInterrupted, Rerun
    <2>2. QED
        BY <2>1 DEF RInv, BuildsCounted, ReleasesRead, BuildReads
<1>7. ASSUME NEW b \in DOMAIN candidates, Select(b)
      PROVE  RInv'
    BY <1>7 DEF Select, RInv, BuildsCounted, ReleasesRead, BuildReads
<1>8. CASE Deploy
    BY <1>8 DEF Deploy, RInv, BuildsCounted, ReleasesRead, BuildReads
<1>9. CASE UNCHANGED vars
    BY <1>9 DEF vars, RInv, BuildsCounted, ReleasesRead, BuildReads
<1>10. QED
    BY <1>1, <1>2, <1>3, <1>4, <1>5, <1>6, <1>7, <1>8, <1>9 DEF Next

LEMMA RegistriesStayRead == Spec => []RInv
<1>1. Init => RInv
    BY BoundsAreNumbers DEF Init, RInv, BuildsCounted, ReleasesRead, BuildReads
<1>2. RInv /\ [Next]_vars => RInv'
    BY RInvStep
<1>3. QED
    BY <1>1, <1>2, PTL DEF Spec

\* The gate of the public artifact never rejects a history that was built:
\* the merge leaves every published edition exactly as it was published.
THEOREM GateAlwaysAgrees == Spec => []GateAgrees
<1>1. RInv => GateAgrees
    BY GateFollows DEF GateAgrees
<1>2. QED
    BY <1>1, RegistriesStayRead, PTL

(***************************************************************************)
(* Every history anywhere is sane: each edition is recorded as it was read *)
(* or as the seed had it, its checks are of editions that it has, and its  *)
(* comparisons are of the rows that it has for their editions.             *)
(***************************************************************************)
Origin(e, x) ==
    /\ e \in Editions /\ x = Recorded(x)
    /\ x \in Readings[e] \/ (e \in DOMAIN Seed.editions /\ x = Seed.editions[e])
ReadFrom(h, g, c) ==
    /\ c.before \in DOMAIN h.editions /\ c.after \in DOMAIN g.editions
    /\ c.rows = <<h.editions[c.before].rows, g.editions[c.after].rows>>
    /\ h.editions[c.before].rows # None /\ g.editions[c.after].rows # None
InOrder(c) ==
    IF c.basis = "capture order" THEN c.before # c.after /\ ~Dated(c.before, c.after)
    ELSE DateOf[c.before] > 0 /\ DateOf[c.before] < DateOf[c.after]
Plain(c) ==
    /\ c = [before |-> c.before, after |-> c.after, basis |-> c.basis, rows |-> c.rows]
    /\ Alike(c.before, c.after) /\ InOrder(c)
    /\ c.basis = "frozen" => c \in Seed.comparisons
SaneComparison(h, c) ==
    /\ Plain(c)
    /\ {c.before, c.after} \subseteq DOMAIN h.editions
    /\ c.basis = "capture order" => \E d \in h.checks : d.edition = c.before
    /\ c.basis # "frozen" => ReadFrom(h, h, c)
SaneEditions(h) == \A e \in DOMAIN h.editions : Origin(e, h.editions[e])
SaneChecks(h) == \A c \in h.checks : c.edition \in DOMAIN h.editions /\ Past(c.at)
SaneComparisons(h) == \A c \in h.comparisons : SaneComparison(h, c)
Sane(h) == SaneEditions(h) /\ SaneChecks(h) /\ SaneComparisons(h)

\* Merging two records of an edition gives one of them.
LEMMA MergedRecord ==
    ASSUME NEW e, NEW x, NEW y, Origin(e, x), Origin(e, y), Agree(x, y)
    PROVE  Origin(e, Enriched(x, y))
<1>1. Enriched(x, y) = [described |-> x.described,
                        rows |-> IF x.rows = None THEN y.rows ELSE x.rows]
    BY DEF Enriched
<1>2. x.described = y.described
    BY DEF Agree
<1>3. x = [described |-> x.described, rows |-> x.rows]
    BY DEF Origin, Recorded
<1>4. y = [described |-> y.described, rows |-> y.rows]
    BY DEF Origin, Recorded
<1>5. Enriched(x, y) = x \/ Enriched(x, y) = y
    BY <1>1, <1>2, <1>3, <1>4
<1>6. QED
    BY <1>5

\* Merging consistent histories keeps every record that was fully read.
LEMMA MergingKeepsSane ==
    ASSUME NEW h, NEW g, Sane(h), Sane(g), Consistent(h, g)
    PROVE  Sane(Merge(h, g))
<1> DEFINE m == Merge(h, g)
<1>1. Keeps(m, h) /\ Keeps(m, g)
    BY MergeKeepsBoth
<1>2. m.checks = h.checks \cup g.checks /\ m.comparisons = h.comparisons \cup g.comparisons
    BY DEF Merge
<1>3. ASSUME NEW e \in DOMAIN m.editions
      PROVE  Origin(e, m.editions[e])
    <2>1. e \in DOMAIN h.editions \cup DOMAIN g.editions /\ m.editions[e] = Joined(h, g, e)
        BY DEF Merge
    <2>2. CASE e \in DOMAIN h.editions \cap DOMAIN g.editions
        <3>1. Agree(h.editions[e], g.editions[e])
            BY <2>2 DEF Consistent
        <3>2. Origin(e, Enriched(h.editions[e], g.editions[e]))
            BY <2>2, <3>1, MergedRecord DEF Sane, SaneEditions
        <3>3. QED
            BY <2>1, <2>2, <3>2 DEF Joined
    <2>3. CASE e \notin DOMAIN h.editions \cap DOMAIN g.editions
        BY <2>1, <2>3 DEF Joined, Sane, SaneEditions
    <2>4. QED
        BY <2>2, <2>3
<1> HIDE DEF m
<1>4. ASSUME NEW x, Sane(x), Keeps(m, x), NEW c \in x.comparisons
      PROVE  SaneComparison(m, c)
    <2>1. SaneComparison(x, c)
        BY <1>4 DEF Sane, SaneComparisons
    <2>2. \A e \in DOMAIN x.editions :
              /\ e \in DOMAIN m.editions
              /\ x.editions[e].rows # None => m.editions[e].rows = x.editions[e].rows
        BY <1>4 DEF Keeps
    <2>3. x.checks \subseteq m.checks
        BY <1>4 DEF Keeps
    <2>4. QED
        BY <2>1, <2>2, <2>3 DEF SaneComparison, ReadFrom
<1>5. ASSUME NEW x, Sane(x), Keeps(m, x), NEW c \in x.checks
      PROVE  c.edition \in DOMAIN m.editions /\ Past(c.at)
    BY <1>5 DEF Sane, SaneChecks, Keeps
<1>6. QED
    BY <1>1, <1>2, <1>3, <1>4, <1>5 DEF Sane, SaneEditions, SaneChecks, SaneComparisons, m

LEMMA EmptyIsSane == Sane(Empty)
BY DEF Empty, Sane, SaneEditions, SaneChecks, SaneComparisons

LEMMA SeedIsSane == Sane(Seed)
<1>1. ASSUME NEW c \in Seed.checks
      PROVE  c.edition \in DOMAIN Seed.editions /\ Past(c.at)
    <2>1. c.at \in Nat
        BY SeedIsValid DEF IsHistory, Checks
    <2>2. QED
        BY <2>1, SeedIsValid, HorizonIsLast DEF Valid
<1>2. ASSUME NEW c \in Seed.comparisons
      PROVE  SaneComparison(Seed, c)
    <2>1. c \in Comparisons
        BY SeedIsValid DEF IsHistory
    <2>2. c = [before |-> c.before, after |-> c.after, basis |-> c.basis, rows |-> c.rows]
        BY <2>1 DEF Comparisons
    <2>3. /\ {c.before, c.after} \subseteq DOMAIN Seed.editions
          /\ Alike(c.before, c.after) /\ Ordered(Seed, c)
        BY SeedIsValid DEF Valid
    <2>4. ASSUME c.basis = "capture order"
          PROVE  /\ c.before # c.after /\ ~Dated(c.before, c.after)
                 /\ \E d \in Seed.checks : d.edition = c.before
        <3>1. ~Dated(c.before, c.after) /\ LastCheckedBefore(Seed, c.before, c.after)
            BY <2>3, <2>4 DEF Ordered
        <3>2. PICK x \in ChecksOf(Seed, c.after) : \A d \in ChecksOf(Seed, c.before) : d.at < x.at
            BY <3>1 DEF LastCheckedBefore
        <3>3. x.at \in Nat
            BY SeedIsValid DEF IsHistory, Checks, ChecksOf
        <3>4. c.before # c.after
            BY <3>2, <3>3
        <3>5. QED
            BY <3>1, <3>4 DEF LastCheckedBefore, ChecksOf
    <2>5. InOrder(c) /\ (c.basis = "capture order" => \E d \in Seed.checks : d.edition = c.before)
        BY <2>3, <2>4 DEF InOrder, Ordered
    <2>6. c.basis # "frozen" => ReadFrom(Seed, Seed, c)
        BY <2>3, SeedIsRead DEF ReadFrom
    <2>7. QED
        BY <2>2, <2>3, <2>5, <2>6 DEF SaneComparison, Plain
<1>3. ASSUME NEW e \in DOMAIN Seed.editions
      PROVE  Origin(e, Seed.editions[e])
    <2>1. e \in Editions /\ Seed.editions[e] \in Readable
        BY SeedIsValid DEF IsHistory
    <2>2. Seed.editions[e] = Recorded(Seed.editions[e])
        BY <2>1 DEF Readable, Recorded
    <2>3. QED
        BY <2>1, <2>2 DEF Origin
<1>4. QED
    BY <1>1, <1>2, <1>3 DEF Sane, SaneEditions, SaneChecks, SaneComparisons

\* What an aggregate has of the report of one source.
LEMMA AggregateHas ==
    ASSUME NEW f, Read(f), NEW s \in DOMAIN f
    PROVE  /\ f[s].edition \in DOMAIN Aggregate(f).editions
           /\ Aggregate(f).editions[f[s].edition] = Recorded(f[s])
           /\ Recorded(f[s]).rows = f[s].rows /\ f[s].rows # None
           /\ [edition |-> f[s].edition, at |-> f[s].checked] \in Aggregate(f).checks
<1>1. f[s].edition \in Published(f)
    BY DEF Published
<1>2. ReportOf(f, f[s].edition) = f[s] /\ f[s].rows # None
    BY DEF Read, ReportOf
<1>3. Recorded(f[s]).rows = f[s].rows
    BY DEF Recorded
<1>4. [edition |-> f[s].edition, at |-> f[s].checked] \in Aggregate(f).checks
    BY DEF Aggregate
<1>5. QED
    BY <1>1, <1>2, <1>3, <1>4, AggregateRecords

LEMMA ChecksOfAggregate ==
    ASSUME NEW f, NEW c
    PROVE  c \in Aggregate(f).checks <=>
               \E s \in DOMAIN f : c = [edition |-> f[s].edition, at |-> f[s].checked]
BY DEF Aggregate

LEMMA AggregateIsSane ==
    ASSUME NEW f, Read(f)
    PROVE  Sane(Aggregate(f))
<1>1. ASSUME NEW c \in Aggregate(f).checks
      PROVE  c.edition \in DOMAIN Aggregate(f).editions /\ Past(c.at)
    <2>1. PICK s \in DOMAIN f : c = [edition |-> f[s].edition, at |-> f[s].checked]
        BY ChecksOfAggregate
    <2>2. c.edition = f[s].edition /\ c.at = f[s].checked
        BY <2>1
    <2>3. QED
        BY <2>2, AggregateHas DEF Read
<1>2. Aggregate(f).comparisons = {}
    BY DEF Aggregate
<1>3. ASSUME NEW e \in DOMAIN Aggregate(f).editions
      PROVE  Origin(e, Aggregate(f).editions[e])
    <2>1. e \in Published(f)
        BY DEF Aggregate
    <2>2. PICK s \in DOMAIN f : e = f[s].edition
        BY <2>1 DEF Published
    <2>3. Aggregate(f).editions[e] = Recorded(f[s])
        BY <2>2, AggregateHas
    <2>4. Recorded(Recorded(f[s])) = Recorded(f[s])
        BY DEF Recorded
    <2>5. Recorded(f[s]) \in Readings[e] /\ e \in Editions
        BY <2>2 DEF Read
    <2>6. QED
        BY <2>3, <2>4, <2>5 DEF Origin
<1>4. QED
    BY <1>1, <1>2, <1>3 DEF Sane, SaneEditions, SaneChecks, SaneComparisons

\* What a build compares: two successive reports of one source.
LEMMA DeltasCompare ==
    ASSUME NEW p, NEW r, Read(p), Read(r), NEW c \in Deltas(p, r)
    PROVE  \E s \in DOMAIN p \cap DOMAIN r :
               /\ c = Comparison(p[s], r[s], c.basis)
               /\ Successive(p[s], r[s])
               /\ \/ /\ c.basis = "source date"
                     /\ DateOf[p[s].edition] > 0
                     /\ DateOf[p[s].edition] < DateOf[r[s].edition]
                  \/ /\ c.basis = "capture order"
                     /\ ~Dated(p[s].edition, r[s].edition)
                     /\ p[s].checked < r[s].checked
<1>1. ASSUME NEW x, NEW y, NEW basis PROVE Comparison(x, y, basis).basis = basis
    BY DEF Comparison
<1> DEFINE Pairs == {<<p[s], r[s]>> : s \in DOMAIN p \cap DOMAIN r}
           ByDate(y) == /\ Successive(y[1], y[2])
                        /\ DateOf[y[1].edition] > 0
                        /\ DateOf[y[1].edition] < DateOf[y[2].edition]
           ByCapture(y) == /\ Successive(y[1], y[2])
                           /\ ~Dated(y[1].edition, y[2].edition)
                           /\ y[1].checked < y[2].checked
<1>2. \/ \E x \in {y \in Pairs : ByDate(y)} : c = Comparison(x[1], x[2], "source date")
      \/ \E x \in {y \in Pairs : ByCapture(y)} : c = Comparison(x[1], x[2], "capture order")
    BY DEF Deltas
<1>3. CASE \E x \in {y \in Pairs : ByDate(y)} : c = Comparison(x[1], x[2], "source date")
    <2>1. PICK x \in Pairs : ByDate(x) /\ c = Comparison(x[1], x[2], "source date")
        BY <1>3
    <2>2. PICK s \in DOMAIN p \cap DOMAIN r : x = <<p[s], r[s]>>
        OBVIOUS
    <2>3. x[1] = p[s] /\ x[2] = r[s]
        BY <2>2
    <2> HIDE DEF Pairs
    <2>4. /\ Successive(x[1], x[2])
          /\ DateOf[x[1].edition] > 0
          /\ DateOf[x[1].edition] < DateOf[x[2].edition]
        BY <2>1
    <2>5. c = Comparison(p[s], r[s], "source date")
        BY <2>1, <2>3
    <2>6. c.basis = "source date"
        BY <1>1, <2>5
    <2>7. QED
        BY <2>3, <2>4, <2>5, <2>6
<1>4. CASE \E x \in {y \in Pairs : ByCapture(y)} : c = Comparison(x[1], x[2], "capture order")
    <2>1. PICK x \in Pairs : ByCapture(x) /\ c = Comparison(x[1], x[2], "capture order")
        BY <1>4
    <2>2. PICK s \in DOMAIN p \cap DOMAIN r : x = <<p[s], r[s]>>
        OBVIOUS
    <2>3. x[1] = p[s] /\ x[2] = r[s]
        BY <2>2
    <2> HIDE DEF Pairs
    <2>4. /\ Successive(x[1], x[2])
          /\ ~Dated(x[1].edition, x[2].edition)
          /\ x[1].checked < x[2].checked
        BY <2>1
    <2>5. c = Comparison(p[s], r[s], "capture order")
        BY <2>1, <2>3
    <2>6. c.basis = "capture order"
        BY <1>1, <2>5
    <2>7. QED
        BY <2>3, <2>4, <2>5, <2>6
<1>5. QED
    BY <1>2, <1>3, <1>4

LEMMA ComparisonHas ==
    ASSUME NEW x, NEW y, NEW basis
    PROVE  \A c : c = Comparison(x, y, basis) =>
               /\ c.before = x.edition /\ c.after = y.edition
               /\ c.rows = <<x.rows, y.rows>>
               /\ c = [before |-> c.before, after |-> c.after, basis |-> c.basis, rows |-> c.rows]
BY DEF Comparison

\* A recorded delta is of the rows of the two aggregates, and the earlier edition
\* was checked.
LEMMA DeltasAreRead ==
    ASSUME NEW p, NEW r, Read(p), Read(r), NEW c \in Deltas(p, r)
    PROVE  /\ Plain(c) /\ c.basis # "frozen"
           /\ ReadFrom(Aggregate(p), Aggregate(r), c)
           /\ \E d \in Aggregate(p).checks : d.edition = c.before
<1>1. PICK s \in DOMAIN p \cap DOMAIN r :
          /\ c = Comparison(p[s], r[s], c.basis)
          /\ Successive(p[s], r[s])
          /\ \/ /\ c.basis = "source date"
                /\ DateOf[p[s].edition] > 0
                /\ DateOf[p[s].edition] < DateOf[r[s].edition]
             \/ /\ c.basis = "capture order"
                /\ ~Dated(p[s].edition, r[s].edition)
                /\ p[s].checked < r[s].checked
    BY DeltasCompare
<1>2. /\ c.before = p[s].edition /\ c.after = r[s].edition
      /\ c.rows = <<p[s].rows, r[s].rows>>
      /\ c = [before |-> c.before, after |-> c.after, basis |-> c.basis, rows |-> c.rows]
    <2>1. PICK basis : c = Comparison(p[s], r[s], basis)
        BY <1>1
    <2>2. QED
        BY <2>1, ComparisonHas
<1>3. Plain(c) /\ c.basis # "frozen"
    <2>1. /\ c.before # c.after /\ Alike(c.before, c.after)
          /\ c.basis # "frozen" /\ InOrder(c)
        BY <1>1, <1>2 DEF InOrder, Successive
    <2>2. QED
        BY <1>2, <2>1 DEF Plain
<1>4. ReadFrom(Aggregate(p), Aggregate(r), c)
    <2>1. /\ p[s].edition \in DOMAIN Aggregate(p).editions
          /\ Aggregate(p).editions[p[s].edition].rows = p[s].rows /\ p[s].rows # None
        BY AggregateHas
    <2>2. /\ r[s].edition \in DOMAIN Aggregate(r).editions
          /\ Aggregate(r).editions[r[s].edition].rows = r[s].rows /\ r[s].rows # None
        BY AggregateHas
    <2>3. QED
        BY <1>2, <2>1, <2>2, Zenon DEF ReadFrom
<1>5. \E d \in Aggregate(p).checks : d.edition = c.before
    <2>1. [edition |-> p[s].edition, at |-> p[s].checked] \in Aggregate(p).checks
        BY AggregateHas
    <2>2. QED
        BY <1>2, <2>1
<1>6. QED
    BY <1>3, <1>4, <1>5

LEMMA ComparedIs ==
    ASSUME NEW p, NEW r
    PROVE  /\ Compared(p, r).editions = Merge(Aggregate(p), Aggregate(r)).editions
           /\ Compared(p, r).checks = Aggregate(p).checks \cup Aggregate(r).checks
           /\ Compared(p, r).comparisons = Deltas(p, r)
<1> DEFINE m == Merge(Aggregate(p), Aggregate(r))
<1>1. m = [editions |-> m.editions,
           checks |-> Aggregate(p).checks \cup Aggregate(r).checks,
           comparisons |-> Aggregate(p).comparisons \cup Aggregate(r).comparisons]
    BY DEF Merge
<1> HIDE DEF m
<1>2. QED
    BY <1>1 DEF Compared, m

LEMMA ComparedIsSane ==
    ASSUME NEW p, NEW r, Read(p), Read(r), Consistent(Aggregate(p), Aggregate(r))
    PROVE  Sane(Compared(p, r))
<1> DEFINE m == Merge(Aggregate(p), Aggregate(r))
           x == Compared(p, r)
<1>1. Sane(m) /\ Keeps(m, Aggregate(p)) /\ Keeps(m, Aggregate(r))
    BY AggregateIsSane, MergingKeepsSane, MergeKeepsBoth
<1>2. m.checks = Aggregate(p).checks \cup Aggregate(r).checks
    BY DEF Merge
<1>3. x.editions = m.editions /\ x.checks = m.checks /\ x.comparisons = Deltas(p, r)
    BY <1>2, ComparedIs
<1> HIDE DEF m, x
<1>4. ASSUME NEW c \in Deltas(p, r)
      PROVE  SaneComparison(x, c)
    <2>1. /\ Plain(c) /\ c.basis # "frozen"
          /\ ReadFrom(Aggregate(p), Aggregate(r), c)
          /\ \E d \in Aggregate(p).checks : d.edition = c.before
        BY DeltasAreRead
    <2>2. /\ c.before \in DOMAIN m.editions
          /\ m.editions[c.before].rows = Aggregate(p).editions[c.before].rows
        BY <1>1, <2>1 DEF ReadFrom, Keeps
    <2>3. /\ c.after \in DOMAIN m.editions
          /\ m.editions[c.after].rows = Aggregate(r).editions[c.after].rows
        BY <1>1, <2>1 DEF ReadFrom, Keeps
    <2>4. ReadFrom(x, x, c)
        BY <1>3, <2>1, <2>2, <2>3 DEF ReadFrom
    <2>5. QED
        BY <1>2, <1>3, <2>1, <2>4 DEF SaneComparison, ReadFrom
<1>5. QED
    BY <1>1, <1>3, <1>4 DEF Sane, SaneEditions, SaneChecks, SaneComparisons, x

(***************************************************************************)
(* What the union of several histories needs in order to be valid: one     *)
(* reading of each edition, and no later check of an edition that captures *)
(* put first.                                                              *)
(***************************************************************************)
Fits(hs, c) ==
    /\ Plain(c)
    /\ \E h \in hs : c.before \in DOMAIN h.editions
    /\ \E h \in hs : c.after \in DOMAIN h.editions
    /\ c.basis = "capture order" => \E h \in hs : \E d \in h.checks : d.edition = c.before
    /\ c.basis # "frozen" => \E h, g \in hs : ReadFrom(h, g, c)
Meeting(hs) ==
    \A h \in hs : SaneChecks(h) /\ \A c \in h.comparisons : Fits(hs, c)
UnionOf(m, hs) ==
    /\ \A h \in hs : DOMAIN h.editions \subseteq DOMAIN m.editions
    /\ \A c : c \in m.checks <=> \E h \in hs : c \in h.checks
    /\ \A c \in m.comparisons : \E h \in hs : c \in h.comparisons

LEMMA LaterThanAll == \A i, j, n \in Nat : i <= j /\ ~(n <= j) => i < n
OBVIOUS

\* Captures still put two editions in order, because the last check of the first
\* is followed by one of the second.
LEMMA UnionKeepsOrder ==
    ASSUME NEW hs, NEW m, Meeting(hs), UnionOf(m, hs), ~Rechecked(hs),
           NEW c \in m.comparisons, c.basis = "capture order"
    PROVE  LastCheckedBefore(m, c.before, c.after)
<1>1. PICK h \in hs : c \in h.comparisons
    BY DEF UnionOf
<1>2. Fits(hs, c)
    BY <1>1 DEF Meeting
<1>3. \A x \in m.checks : x.at \in Nat /\ x.at <= Horizon
    BY DEF UnionOf, Meeting, SaneChecks, Past
<1> DEFINE T == {x.at : x \in ChecksOf(m, c.before)}
<1>4. ChecksOf(m, c.before) # {}
    BY <1>2 DEF Fits, UnionOf, ChecksOf
<1>5. T # {} /\ T \subseteq Nat /\ \A t \in T : t <= Horizon
    BY <1>3, <1>4 DEF ChecksOf
<1>6. PICK t \in T : \A u \in T : u <= t
    <2> HIDE DEF T
    <2>1. QED
        BY <1>5, HorizonIsLast, GreatestNatural
<1>7. PICK d \in ChecksOf(m, c.before) : d.at = t
    OBVIOUS
<1>8. \A x \in ChecksOf(m, c.before) : x.at <= d.at
    BY <1>6, <1>7
<1> HIDE DEF T
<1>9. PICK g \in hs : d \in g.checks
    BY <1>7 DEF UnionOf, ChecksOf
<1>10. d.edition = c.before
    BY DEF ChecksOf
<1>11. PICK k \in hs : \E x \in ChecksOf(k, c.after) : ~(x.at <= d.at)
    BY <1>1, <1>9, <1>10 DEF Rechecked
<1>12. PICK x \in ChecksOf(k, c.after) : ~(x.at <= d.at)
    BY <1>11
<1>13. x \in ChecksOf(m, c.after)
    BY <1>12 DEF ChecksOf, UnionOf
<1>14. ASSUME NEW y \in ChecksOf(m, c.before)
       PROVE  y.at < x.at
    <2>1. y.at \in Nat /\ x.at \in Nat /\ d.at \in Nat
        BY <1>3, <1>13 DEF ChecksOf
    <2>2. y.at <= d.at /\ ~(x.at <= d.at)
        BY <1>8, <1>12
    <2>3. QED
        BY <2>1, <2>2, LaterThanAll
<1>15. QED
    BY <1>4, <1>13, <1>14 DEF LastCheckedBefore

\* One key has one comparison: it is of the seed, or of the one reading of each
\* of its editions.
LEMMA UnionHasOneOfEach ==
    ASSUME NEW hs, NEW m, Meeting(hs), UnionOf(m, hs), ~TwoReadings(hs),
           NEW c \in m.comparisons, NEW d \in m.comparisons, SameKey(c, d)
    PROVE  c = d
<1>1. Fits(hs, c) /\ Fits(hs, d)
    BY DEF UnionOf, Meeting
<1>2. c.before = d.before /\ c.after = d.after /\ c.basis = d.basis
    BY DEF SameKey
<1>3. CASE c.basis = "frozen"
    <2>1. c \in Seed.comparisons /\ d \in Seed.comparisons
        BY <1>1, <1>2, <1>3 DEF Fits, Plain
    <2>2. QED
        BY <2>1, SeedIsValid DEF Valid
<1>4. CASE c.basis # "frozen"
    <2>1. PICK h1 \in hs, g1 \in hs : ReadFrom(h1, g1, c)
        BY <1>1, <1>4 DEF Fits
    <2>2. PICK h2 \in hs, g2 \in hs : ReadFrom(h2, g2, d)
        BY <1>1, <1>2, <1>4 DEF Fits
    <2>3. \A h, g \in hs : \A e \in DOMAIN h.editions \cap DOMAIN g.editions :
              Agree(h.editions[e], g.editions[e])
        BY DEF TwoReadings
    <2>4. h1.editions[c.before].rows = h2.editions[d.before].rows
        BY <1>2, <2>1, <2>2, <2>3 DEF ReadFrom, Agree
    <2>5. g1.editions[c.after].rows = g2.editions[d.after].rows
        BY <1>2, <2>1, <2>2, <2>3 DEF ReadFrom, Agree
    <2>6. c.rows = d.rows
        BY <2>1, <2>2, <2>4, <2>5 DEF ReadFrom
    <2>7. /\ c = [before |-> c.before, after |-> c.after, basis |-> c.basis, rows |-> c.rows]
          /\ d = [before |-> d.before, after |-> d.after, basis |-> d.basis, rows |-> d.rows]
        BY <1>1 DEF Fits, Plain
    <2>8. QED
        BY <1>2, <2>6, <2>7
<1>5. QED
    BY <1>3, <1>4

LEMMA UnionIsValid ==
    ASSUME NEW hs, NEW m, Meeting(hs), UnionOf(m, hs), ~Explained(hs)
    PROVE  Valid(m)
<1>1. ~TwoReadings(hs) /\ ~Rechecked(hs)
    BY DEF Explained
<1>2. ASSUME NEW c \in m.checks
      PROVE  c.edition \in DOMAIN m.editions
    BY DEF UnionOf, Meeting, SaneChecks
<1>3. ASSUME NEW c \in m.comparisons
      PROVE  /\ {c.before, c.after} \subseteq DOMAIN m.editions
             /\ Alike(c.before, c.after)
             /\ Ordered(m, c)
    <2>1. Fits(hs, c)
        BY DEF UnionOf, Meeting
    <2>2. {c.before, c.after} \subseteq DOMAIN m.editions
        BY <2>1 DEF Fits, UnionOf
    <2>3. Alike(c.before, c.after) /\ InOrder(c)
        BY <2>1 DEF Fits, Plain
    <2>4. c.basis = "capture order" => LastCheckedBefore(m, c.before, c.after)
        BY <1>1, UnionKeepsOrder
    <2>5. QED
        BY <2>2, <2>3, <2>4 DEF InOrder, Ordered
<1>4. \A c, d \in m.comparisons : SameKey(c, d) => c = d
    BY <1>1, UnionHasOneOfEach
<1>5. QED
    BY <1>2, <1>3, <1>4 DEF Valid

LEMMA SaneFits ==
    ASSUME NEW hs, NEW h \in hs, Sane(h)
    PROVE  SaneChecks(h) /\ \A c \in h.comparisons : Fits(hs, c)
<1>1. ASSUME NEW c \in h.comparisons
      PROVE  Fits(hs, c)
    <2>1. SaneComparison(h, c)
        BY DEF Sane, SaneComparisons
    <2>2. QED
        BY <2>1 DEF SaneComparison, Fits
<1>2. QED
    BY <1>1 DEF Sane

\* A persist job refuses two histories for such a reason only.
LEMMA PairIsMergeable ==
    ASSUME NEW h, NEW g, Sane(h), Sane(g), ~Explained({h, g})
    PROVE  Mergeable(h, g)
<1> DEFINE hs == {h, g}
           m == Merge(h, g)
<1>1. Meeting(hs)
    BY SaneFits DEF Meeting
<1>2. /\ DOMAIN m.editions = DOMAIN h.editions \cup DOMAIN g.editions
      /\ m.checks = h.checks \cup g.checks
      /\ m.comparisons = h.comparisons \cup g.comparisons
    BY DEF Merge
<1> HIDE DEF m
<1>3. UnionOf(m, hs)
    BY <1>2 DEF UnionOf
<1>4. Valid(m)
    BY <1>1, <1>3, UnionIsValid
<1>5. \A e \in DOMAIN h.editions \cap DOMAIN g.editions : Agree(h.editions[e], g.editions[e])
    BY DEF Explained, TwoReadings
<1>6. \A c \in h.comparisons, d \in g.comparisons : SameKey(c, d) => c = d
    BY <1>2, <1>4 DEF Valid
<1>7. QED
    BY <1>4, <1>5, <1>6 DEF Mergeable, Consistent, m

\* Two releases with one reading of each edition are always comparable: their
\* deltas are ordered by construction.
LEMMA ReleasesAreComparable ==
    ASSUME NEW p, NEW r, Read(p), Read(r),
           ~TwoReadings({Aggregate(p), Aggregate(r)})
    PROVE  Comparable(p, r)
<1> DEFINE a == Aggregate(p)
           b == Aggregate(r)
           m == Merge(a, b)
           x == Compared(p, r)
<1>1. a.comparisons = {} /\ b.comparisons = {}
    BY DEF Aggregate
<1>2. Consistent(a, b)
    BY <1>1 DEF Consistent, TwoReadings
<1>3. Sane(m) /\ Sane(x)
    BY <1>2, AggregateIsSane, MergingKeepsSane, ComparedIsSane
<1>4. m.comparisons = {}
    BY <1>1 DEF Merge
<1>5. x.comparisons = Deltas(p, r) /\ x.checks = a.checks \cup b.checks
    BY ComparedIs
<1> HIDE DEF m, x
<1>6. Valid(m)
    BY <1>3, <1>4 DEF Valid, Sane, SaneChecks
<1>7. ASSUME NEW c \in Deltas(p, r), c.basis = "capture order"
      PROVE  LastCheckedBefore(x, c.before, c.after)
    <2>1. PICK s \in DOMAIN p \cap DOMAIN r :
              /\ c = Comparison(p[s], r[s], c.basis)
              /\ Successive(p[s], r[s])
              /\ p[s].checked < r[s].checked
        BY <1>7, DeltasCompare
    <2>2. PICK basis : c = Comparison(p[s], r[s], basis)
        BY <2>1
    <2>3. c.before = p[s].edition /\ c.after = r[s].edition
        BY <2>2, ComparisonHas
    <2>4. [edition |-> p[s].edition, at |-> p[s].checked] \in ChecksOf(x, c.before)
        BY <1>5, <2>3, AggregateHas DEF ChecksOf
    <2>5. [edition |-> r[s].edition, at |-> r[s].checked] \in ChecksOf(x, c.after)
        BY <1>5, <2>3, AggregateHas DEF ChecksOf
    <2>6. ASSUME NEW d \in ChecksOf(x, c.before)
          PROVE  d.at = p[s].checked
        <3>1. d \in a.checks \/ d \in b.checks
            BY <1>5 DEF ChecksOf
        <3>2. d.edition = p[s].edition
            BY <2>3 DEF ChecksOf
        <3>3. CASE d \in a.checks
            <4>1. PICK t \in DOMAIN p : d = [edition |-> p[t].edition, at |-> p[t].checked]
                BY <3>3, ChecksOfAggregate
            <4>2. p[t].edition = p[s].edition /\ d.at = p[t].checked
                BY <3>2, <4>1
            <4>3. t = s
                BY <4>2 DEF Read
            <4>4. QED
                BY <4>2, <4>3
        <3>4. CASE d \in b.checks
            <4>1. PICK t \in DOMAIN r : d = [edition |-> r[t].edition, at |-> r[t].checked]
                BY <3>4, ChecksOfAggregate
            <4>2. r[t].edition = p[s].edition
                BY <3>2, <4>1
            <4>3. t = s
                BY <4>2 DEF Read
            <4>4. QED
                BY <2>1, <4>2, <4>3 DEF Successive
        <3>5. QED
            BY <3>1, <3>3, <3>4
    <2>7. QED
        BY <2>1, <2>4, <2>5, <2>6 DEF LastCheckedBefore
<1>8. ASSUME NEW c \in Deltas(p, r)
      PROVE  /\ {c.before, c.after} \subseteq DOMAIN x.editions
             /\ Alike(c.before, c.after)
             /\ Ordered(x, c)
    <2>1. SaneComparison(x, c)
        BY <1>3, <1>5 DEF Sane, SaneComparisons
    <2>2. QED
        BY <2>1, <1>7 DEF SaneComparison, Plain, InOrder, Ordered
<1>9. ASSUME NEW c \in Deltas(p, r), NEW d \in Deltas(p, r), SameKey(c, d)
      PROVE  c = d
    <2>1. PICK s \in DOMAIN p \cap DOMAIN r :
              c = Comparison(p[s], r[s], c.basis) /\ Successive(p[s], r[s])
        BY DeltasCompare
    <2>2. PICK t \in DOMAIN p \cap DOMAIN r :
              d = Comparison(p[t], r[t], d.basis) /\ Successive(p[t], r[t])
        BY DeltasCompare
    <2>3. c.before = p[s].edition
        <3>1. PICK basis : c = Comparison(p[s], r[s], basis)
            BY <2>1
        <3>2. QED
            BY <3>1, ComparisonHas
    <2>4. d.before = p[t].edition
        <3>1. PICK basis : d = Comparison(p[t], r[t], basis)
            BY <2>2
        <3>2. QED
            BY <3>1, ComparisonHas
    <2>5. s = t
        <3>1. p[s].edition = p[t].edition
            BY <1>9, <2>3, <2>4 DEF SameKey
        <3>2. QED
            BY <3>1 DEF Read
    <2>6. QED
        BY <1>9, <2>1, <2>2, <2>5, Zenon DEF SameKey
<1>10. Valid(x)
    BY <1>3, <1>5, <1>8, <1>9 DEF Valid, Sane, SaneChecks
<1>11. QED
    BY <1>2, <1>6, <1>10 DEF Comparable, Mergeable, m, x

\* Records of one edition that agree pairwise still do when they are merged.
LEMMA EnrichedAgrees ==
    ASSUME NEW x, NEW y, NEW z, Agree(x, z), Agree(y, z)
    PROVE  Agree(Enriched(x, y), z) /\ Agree(z, Enriched(x, y))
<1>1. /\ Enriched(x, y).described = x.described
      /\ Enriched(x, y).rows = IF x.rows = None THEN y.rows ELSE x.rows
    BY DEF Enriched
<1>2. Enriched(x, y).rows = x.rows \/ Enriched(x, y).rows = y.rows
    BY <1>1
<1>3. QED
    BY <1>1, <1>2 DEF Agree

LEMMA UnionsAgree ==
    ASSUME NEW hs, ~TwoReadings(hs), NEW h \in hs, NEW g \in hs, NEW z,
           NEW e \in DOMAIN h.editions \cup DOMAIN g.editions,
           \A k \in hs : e \in DOMAIN k.editions => Agree(k.editions[e], z)
    PROVE  Agree(Joined(h, g, e), z) /\ Agree(z, Joined(h, g, e))
<1>1. \A x : Agree(x, z) => Agree(z, x)
    BY DEF Agree
<1>2. CASE e \in DOMAIN h.editions \cap DOMAIN g.editions
    <2>1. Agree(h.editions[e], z) /\ Agree(g.editions[e], z)
        BY <1>2
    <2>2. Joined(h, g, e) = Enriched(h.editions[e], g.editions[e])
        BY <1>2 DEF Joined
    <2>3. QED
        BY <2>1, <2>2, EnrichedAgrees
<1>3. CASE e \notin DOMAIN g.editions
    <2>1. Joined(h, g, e) = h.editions[e] /\ Agree(h.editions[e], z)
        BY <1>3 DEF Joined
    <2>2. QED
        BY <2>1, <1>1
<1>4. CASE e \notin DOMAIN h.editions
    <2>1. Joined(h, g, e) = g.editions[e] /\ Agree(g.editions[e], z)
        BY <1>4 DEF Joined
    <2>2. QED
        BY <2>1, <1>1
<1>5. QED
    BY <1>2, <1>3, <1>4

\* The editions of what a build knew and of what it publishes agree.
LEMMA MergesAgree ==
    ASSUME NEW hs, ~TwoReadings(hs),
           NEW h \in hs, NEW g \in hs, NEW k \in hs, NEW l \in hs,
           NEW e \in DOMAIN h.editions \cup DOMAIN g.editions,
           e \in DOMAIN k.editions \cup DOMAIN l.editions
    PROVE  Agree(Joined(h, g, e), Joined(k, l, e))
<1>1. ASSUME NEW x \in hs, e \in DOMAIN x.editions
      PROVE  Agree(x.editions[e], Joined(k, l, e))
    <2>1. \A y \in hs : e \in DOMAIN y.editions => Agree(y.editions[e], x.editions[e])
        BY <1>1 DEF TwoReadings
    <2>2. QED
        BY <2>1, UnionsAgree
<1>2. QED
    BY <1>1, UnionsAgree

\* The histories and releases that meet in a build.
LEMMA BuildsMeet ==
    ASSUME Sane(build.ledger), Sane(build.history), Read(build.registry),
           build.previous # None => Read(build.previous)
    PROVE  Meeting(Met) /\ \A h \in Met : SaneEditions(h)
<1> DEFINE r == build.registry
           p == build.previous
           deltas == [Empty EXCEPT !.comparisons = Deltas(p, r)]
<1>1. Met = {build.ledger, build.history, Aggregate(r)}
            \cup (IF p = None THEN {} ELSE {Aggregate(p), deltas})
    BY DEF Met
<1>2. /\ DOMAIN deltas.editions = {} /\ deltas.checks = {}
      /\ deltas.comparisons = Deltas(p, r)
    BY DEF Empty
<1> HIDE DEF deltas
<1>3. ASSUME NEW h \in {build.ledger, build.history, Aggregate(r)}
      PROVE  SaneEditions(h) /\ SaneChecks(h) /\ \A c \in h.comparisons : Fits(Met, c)
    <2>1. h \in Met
        BY <1>1
    <2>2. Sane(h)
        BY AggregateIsSane
    <2>3. QED
        BY <2>1, <2>2, SaneFits DEF Sane
<1>4. ASSUME p # None
      PROVE  /\ SaneEditions(Aggregate(p)) /\ SaneChecks(Aggregate(p))
             /\ \A c \in Aggregate(p).comparisons : Fits(Met, c)
    <2>1. Aggregate(p) \in Met
        BY <1>1, <1>4
    <2>2. Sane(Aggregate(p))
        BY <1>4, AggregateIsSane
    <2>3. QED
        BY <2>1, <2>2, SaneFits DEF Sane
<1>5. ASSUME p # None, NEW c \in Deltas(p, r)
      PROVE  Fits(Met, c)
    <2>1. /\ Plain(c) /\ c.basis # "frozen"
          /\ ReadFrom(Aggregate(p), Aggregate(r), c)
          /\ \E d \in Aggregate(p).checks : d.edition = c.before
        BY <1>5, DeltasAreRead
    <2>2. Aggregate(p) \in Met /\ Aggregate(r) \in Met
        BY <1>1, <1>5
    <2>3. QED
        BY <2>1, <2>2 DEF Fits, ReadFrom
<1>6. ASSUME p # None
      PROVE  /\ SaneEditions(deltas) /\ SaneChecks(deltas)
             /\ \A c \in deltas.comparisons : Fits(Met, c)
    BY <1>2, <1>5, <1>6 DEF SaneEditions, SaneChecks
<1>7. QED
    BY <1>1, <1>3, <1>4, <1>6 DEF Meeting

\* A build refuses what it read for such a reason only.
LEMMA BuildIsAccepted ==
    ASSUME Sane(build.ledger), Sane(build.history), Read(build.registry),
           build.previous # None => Read(build.previous), ~Explained(Met)
    PROVE  Buildable
<1> DEFINE r == build.registry
           p == build.previous
           deltas == [Empty EXCEPT !.comparisons = Deltas(p, r)]
<1>1. ~TwoReadings(Met)
    BY DEF Explained
<1>2. Aggregate(r) \in Met /\ build.ledger \in Met /\ build.history \in Met
    BY DEF Met
<1>3. ASSUME p # None
      PROVE  Aggregate(p) \in Met /\ deltas \in Met
    BY <1>3 DEF Met
<1>4. ASSUME p # None
      PROVE  Comparable(p, r)
    <2>1. ~TwoReadings({Aggregate(p), Aggregate(r)})
        BY <1>1, <1>2, <1>3, <1>4 DEF TwoReadings
    <2>2. QED
        BY <1>4, <2>1, ReleasesAreComparable
<1>5. /\ DOMAIN deltas.editions = {} /\ deltas.checks = {}
      /\ deltas.comparisons = Deltas(p, r)
    BY DEF Empty
<1>6. Met = {build.ledger, build.history, Aggregate(r)}
            \cup (IF p = None THEN {} ELSE {Aggregate(p), deltas})
    BY DEF Met
<1>7. Meeting(Met)
    BY BuildsMeet
<1>8. /\ DOMAIN Current.editions =
             DOMAIN Aggregate(r).editions
             \cup (IF p = None THEN {} ELSE DOMAIN Aggregate(p).editions)
      /\ Current.checks = Aggregate(r).checks
                          \cup (IF p = None THEN {} ELSE Aggregate(p).checks)
      /\ Current.comparisons = IF p = None THEN {} ELSE Deltas(p, r)
    <2>1. CASE p = None
        <3>1. Aggregate(r).comparisons = {}
            BY DEF Aggregate
        <3>2. QED
            BY <2>1, <3>1 DEF Current
    <2>2. CASE p # None
        <3>1. DOMAIN Merge(Aggregate(p), Aggregate(r)).editions =
                  DOMAIN Aggregate(p).editions \cup DOMAIN Aggregate(r).editions
            BY DEF Merge
        <3>2. QED
            BY <2>2, <3>1, ComparedIs DEF Current
    <2>3. QED
        BY <2>1, <2>2
<1>9. /\ DOMAIN Known.editions = DOMAIN build.ledger.editions \cup DOMAIN build.history.editions
      /\ Known.checks = build.ledger.checks \cup build.history.checks
      /\ Known.comparisons = build.ledger.comparisons \cup build.history.comparisons
      /\ \A e \in DOMAIN Known.editions :
            Known.editions[e] = Joined(build.ledger, build.history, e)
    BY DEF Known, Merge
<1>10. /\ DOMAIN Built.editions = DOMAIN Known.editions \cup DOMAIN Current.editions
       /\ Built.checks = Known.checks \cup Current.checks
       /\ Built.comparisons = Known.comparisons \cup Current.comparisons
    BY DEF Built, Merge
<1> HIDE DEF deltas
<1>11. UnionOf(Built, Met)
    <2>1. \A h \in Met : DOMAIN h.editions \subseteq DOMAIN Built.editions
        BY <1>5, <1>6, <1>8, <1>9, <1>10
    <2>2. \A c : c \in Built.checks <=> \E h \in Met : c \in h.checks
        BY <1>5, <1>6, <1>8, <1>9, <1>10
    <2>3. \A c \in Built.comparisons : \E h \in Met : c \in h.comparisons
        BY <1>5, <1>6, <1>8, <1>9, <1>10
    <2>4. QED
        BY <2>1, <2>2, <2>3 DEF UnionOf
<1>12. Valid(Built)
    BY <1>7, <1>11, UnionIsValid
<1>13. \A c, d \in Built.comparisons : SameKey(c, d) => c = d
    BY <1>12 DEF Valid
<1>14. Consistent(build.ledger, build.history)
    <2>1. \A e \in DOMAIN build.ledger.editions \cap DOMAIN build.history.editions :
              Agree(build.ledger.editions[e], build.history.editions[e])
        BY <1>1, <1>2 DEF TwoReadings
    <2>2. QED
        BY <1>9, <1>10, <1>13, <2>1 DEF Consistent
<1>15. ASSUME NEW e \in DOMAIN Known.editions \cap DOMAIN Current.editions
       PROVE  Agree(Known.editions[e], Current.editions[e])
    <2>1. /\ e \in DOMAIN build.ledger.editions \cup DOMAIN build.history.editions
          /\ Known.editions[e] = Joined(build.ledger, build.history, e)
        BY <1>9
    <2>2. CASE p = None
        <3>1. Current = Aggregate(r)
            BY <2>2 DEF Current
        <3>2. \A h \in Met : e \in DOMAIN h.editions =>
                  Agree(h.editions[e], Current.editions[e])
            BY <1>1, <1>2, <3>1 DEF TwoReadings
        <3>3. QED
            BY <1>1, <1>2, <2>1, <3>2, UnionsAgree
    <2>3. CASE p # None
        <3>1. Current.editions = Merge(Aggregate(p), Aggregate(r)).editions
            BY <2>3, ComparedIs DEF Current
        <3>2. /\ e \in DOMAIN Aggregate(p).editions \cup DOMAIN Aggregate(r).editions
              /\ Current.editions[e] = Joined(Aggregate(p), Aggregate(r), e)
            BY <3>1 DEF Merge
        <3>3. QED
            BY <1>1, <1>2, <1>3, <2>1, <2>3, <3>2, MergesAgree
    <2>4. QED
        BY <2>2, <2>3
<1>16. Mergeable(Known, Current)
    BY <1>10, <1>12, <1>13, <1>15 DEF Mergeable, Consistent, Built
<1>17. QED
    BY <1>4, <1>14, <1>16 DEF Buildable

(***************************************************************************)
(* Histories stay sane: on main, in the candidates, in what is selected or *)
(* deployed, and in what a build has read of them.                         *)
(***************************************************************************)
SaneReleases ==
    /\ \A b \in DOMAIN candidates : Sane(candidates[b].history)
    /\ selected # None => Sane(selected.history)
    /\ site # None => Sane(site.history)
SaneBuild ==
    /\ build.phase \in {"history", "registry", "merge"} => Sane(build.ledger)
    /\ build.phase \in {"registry", "merge"} => Sane(build.history)
HInv == Sane(ledger) /\ SaneReleases /\ SaneBuild

LEMMA BuiltIsSane ==
    ASSUME RInv, HInv, build.phase = "merge", Buildable
    PROVE  Sane(Built)
<1>1. Sane(Known)
    BY MergingKeepsSane DEF HInv, SaneBuild, Buildable, Known
<1>2. Read(build.registry) /\ (build.previous # None => Read(build.previous))
    BY DEF RInv, BuildReads
<1>3. Sane(Current)
    <2>1. CASE build.previous = None
        BY <1>2, <2>1, AggregateIsSane DEF Current
    <2>2. CASE build.previous # None
        <3>1. Consistent(Aggregate(build.previous), Aggregate(build.registry))
            BY <2>2 DEF Buildable, Comparable, Mergeable
        <3>2. QED
            BY <1>2, <2>2, <3>1, ComparedIsSane DEF Current
    <2>3. QED
        BY <2>1, <2>2
<1>4. QED
    BY <1>1, <1>3, MergingKeepsSane DEF Buildable, Mergeable, Built

\* The ledger changes only to the merge of the ledger and a candidate's history.
LEMMA PushedIsSane ==
    ASSUME IInv, HInv, NEW j \in DOMAIN jobs, jobs[j].phase = "commit", Accepted(j)
    PROVE  Sane(jobs[j].ledger)
<1>1. Merged(j) /\ j \in DOMAIN candidates
    BY DEF IInv, Sound, Accepted
<1>2. Sane(Incoming(j)) /\ Sane(ledger)
    BY <1>1 DEF HInv, SaneReleases, Incoming
<1>3. QED
    BY <1>1, <1>2, MergingKeepsSane DEF Merged, Mergeable

LEMMA HInvStep ==
    ASSUME IInv, RInv, HInv, [Next]_vars
    PROVE  HInv'
<1>1. CASE StartBuild
    <2>1. PICK registry \in Registries(builds + 1) :
              build' = [phase |-> "history", ledger |-> ledger, registry |-> registry]
        BY <1>1 DEF StartBuild
    <2>2. build'.phase = "history" /\ build'.ledger = ledger
        BY <2>1
    <2>3. SaneBuild'
        BY <2>2 DEF HInv, SaneBuild, Sane, SaneEditions, SaneChecks, SaneComparisons
    <2>4. QED
        BY <1>1, <2>3 DEF StartBuild, HInv, SaneReleases, Sane
<1>2. CASE FetchHistory
    <2>1. PICK history \in {Empty} \cup (IF site = None THEN {} ELSE {site.history}) :
              build' = [phase |-> "registry", ledger |-> build.ledger,
                        registry |-> build.registry, history |-> history]
        BY <1>2 DEF FetchHistory
    <2>2. build'.phase = "registry" /\ build'.ledger = build.ledger /\ build'.history = history
        BY <2>1
    <2>3. Sane(history) /\ Sane(build.ledger)
        BY <1>2, EmptyIsSane DEF HInv, SaneReleases, SaneBuild, FetchHistory
    <2>4. SaneBuild'
        BY <2>2, <2>3 DEF SaneBuild
    <2>5. QED
        BY <1>2, <2>4 DEF FetchHistory, HInv, SaneReleases
<1>3. CASE FetchRegistry
    <2>1. build'.phase = "merge" /\ build'.ledger = build.ledger
          /\ build'.history = build.history /\ build.phase = "registry"
        BY <1>3 DEF FetchRegistry
    <2>2. SaneBuild'
        BY <2>1 DEF HInv, SaneBuild
    <2>3. QED
        BY <1>3, <2>2 DEF FetchRegistry, HInv, SaneReleases
<1>4. CASE FinishBuild
    <2>1. /\ build' = [phase |-> "idle"]
          /\ candidates' = With(candidates, builds,
                                [history |-> Built, registry |-> build.registry])
          /\ UNCHANGED <<ledger, selected, site>>
        BY <1>4 DEF FinishBuild
    <2>2. Sane(Built)
        BY <1>4, BuiltIsSane DEF FinishBuild
    <2>3. ASSUME NEW b \in DOMAIN candidates'
          PROVE  \/ candidates'[b].history = Built
                 \/ b \in DOMAIN candidates /\ candidates'[b] = candidates[b]
        BY <2>1 DEF With
    <2>4. SaneReleases'
        BY <2>1, <2>2, <2>3 DEF HInv, SaneReleases
    <2>5. SaneBuild'
        BY <2>1 DEF SaneBuild
    <2>6. QED
        BY <2>1, <2>4, <2>5 DEF HInv
<1>5. CASE BuildRefused \/ BuildStops
    <2>1. build'.phase \in {"idle", "refused"}
        BY <1>5 DEF BuildRefused, BuildStops
    <2>2. SaneBuild'
        BY <2>1 DEF SaneBuild
    <2>3. QED
        BY <1>5, <2>2 DEF BuildRefused, BuildStops, HInv, SaneReleases
<1>6. ASSUME NEW j \in DOMAIN jobs, Persist(j) \/ PushInterrupted(j) \/ Rerun(j)
      PROVE  HInv'
    <2>1. UNCHANGED <<selected, site, build, candidates>>
        BY <1>6 DEF Persist, Reconcile, Push, PushRejected, PushInterrupted, Rerun
    <2>2. \/ ledger' = ledger
          \/ jobs[j].phase = "commit" /\ Accepted(j) /\ ledger' = jobs[j].ledger
        BY <1>6 DEF Persist, Reconcile, Push, PushRejected, PushInterrupted, Rerun
    <2>3. Sane(ledger')
        BY <2>2, PushedIsSane DEF HInv
    <2>4. QED
        BY <2>1, <2>3 DEF HInv, SaneReleases, SaneBuild
<1>7. ASSUME NEW b \in DOMAIN candidates, Select(b)
      PROVE  HInv'
    BY <1>7 DEF Select, HInv, SaneReleases, SaneBuild
<1>8. CASE Deploy
    BY <1>8 DEF Deploy, HInv, SaneReleases, SaneBuild
<1>9. CASE UNCHANGED vars
    BY <1>9 DEF vars, HInv, SaneReleases, SaneBuild
<1>10. QED
    BY <1>1, <1>2, <1>3, <1>4, <1>5, <1>6, <1>7, <1>8, <1>9 DEF Next

LEMMA HistoriesStaySane == Spec => []HInv
<1>1. Init => HInv
    BY SeedIsSane DEF Init, HInv, SaneReleases, SaneBuild
<1>2. IInv /\ RInv /\ HInv /\ [Next]_vars => HInv'
    BY HInvStep
<1>3. QED
    BY <1>1, <1>2, Invariance, RegistriesStayRead, PTL DEF Spec

\* Every comparison in the ledger is of the very rows that the ledger keeps for
\* its two editions, whatever histories were merged in whatever order.
THEOREM ComparisonsStayTrue == Spec => []ComparisonsReadTheirEditions
<1>1. HInv => ComparisonsReadTheirEditions
    BY DEF HInv, Sane, SaneComparisons, SaneComparison, ReadFrom, ComparisonsReadTheirEditions
<1>2. QED
    BY <1>1, HistoriesStaySane, PTL

\* A build or a persist job refuses only for one of the two stated reasons.
THEOREM RefusalsHaveReasons == Spec => []RefusalsAreExplained
<1>1. IInv /\ RInv /\ HInv => RefusalsAreExplained
    <2>1. ASSUME RInv, HInv, build.phase = "merge", ~Explained(Met)
          PROVE  Buildable
        BY <2>1, BuildIsAccepted DEF RInv, BuildReads, HInv, SaneBuild
    <2>2. ASSUME IInv, HInv, NEW j \in DOMAIN jobs, ~Explained({ledger, Incoming(j)})
          PROVE  Mergeable(ledger, Incoming(j))
        <3>1. Sane(ledger) /\ Sane(Incoming(j))
            BY <2>2 DEF IInv, HInv, SaneReleases, Incoming
        <3>2. QED
            BY <2>2, <3>1, PairIsMergeable
    <2>3. QED
        BY <2>1, <2>2 DEF RefusalsAreExplained
<1>2. QED
    BY <1>1, Invariance, RegistriesStayRead, HistoriesStaySane, PTL

(***************************************************************************)
(* Sources that are read in one way only.                                  *)
(***************************************************************************)
LEMMA SteadyRecordsAgree ==
    ASSUME Steady, NEW e, NEW x, NEW y, Origin(e, x), Origin(e, y)
    PROVE  Agree(x, y)
<1>1. e \in Editions
    BY DEF Origin
<1>2. PICK z : /\ Readings[e] = {z}
               /\ e \in DOMAIN Seed.editions => Agree(Seed.editions[e], z)
    BY <1>1 DEF Steady
<1>3. z.described = z.described /\ z.rows = z.rows
    OBVIOUS
<1>4. x = z \/ (e \in DOMAIN Seed.editions /\ x = Seed.editions[e])
    BY <1>2 DEF Origin
<1>5. y = z \/ (e \in DOMAIN Seed.editions /\ y = Seed.editions[e])
    BY <1>2 DEF Origin
<1>6. QED
    BY <1>2, <1>4, <1>5 DEF Agree

LEMMA SteadyIsUnexplained ==
    ASSUME Steady, NEW hs, Meeting(hs), \A h \in hs : SaneEditions(h)
    PROVE  ~Explained(hs)
<1>1. ~TwoReadings(hs)
    BY SteadyRecordsAgree DEF TwoReadings, SaneEditions
<1>2. ASSUME NEW h \in hs, NEW c \in h.comparisons
      PROVE  c.basis # "capture order"
    <2>1. Fits(hs, c)
        BY DEF Meeting
    <2>2. c.before \in Editions /\ c.after \in Editions
        BY <2>1 DEF Fits, SaneEditions, Origin
    <2>3. QED
        BY <2>1, <2>2 DEF Fits, Plain, InOrder, Steady
<1>3. ~Rechecked(hs)
    BY <1>2 DEF Rechecked
<1>4. QED
    BY <1>1, <1>3 DEF Explained

LEMMA NothingIsRefusedStep ==
    ASSUME IInv, RInv, HInv, NothingIsRefused, [Next]_vars
    PROVE  NothingIsRefused'
<1> SUFFICES ASSUME Steady PROVE NothingIsRefused'
    BY DEF NothingIsRefused
<1>1. CASE UNCHANGED <<build, jobs>>
    BY <1>1 DEF NothingIsRefused
<1>2. CASE StartBuild \/ FetchHistory \/ FetchRegistry \/ BuildStops
    <2>1. build'.phase # "refused" /\ jobs' = jobs
        BY <1>2 DEF StartBuild, FetchHistory, FetchRegistry, BuildStops
    <2>2. QED
        BY <2>1 DEF NothingIsRefused
<1>3. CASE FinishBuild
    <2>1. jobs' = With(jobs, builds, Queued(1)) /\ build'.phase = "idle"
        BY <1>3 DEF FinishBuild
    <2>2. \A j \in DOMAIN jobs' : jobs'[j] = Queued(1) \/ (j \in DOMAIN jobs /\ jobs'[j] = jobs[j])
        BY <2>1 DEF With
    <2>3. Queued(1).phase = "queued"
        BY DEF Queued
    <2>4. QED
        BY <2>1, <2>2, <2>3 DEF NothingIsRefused
<1>4. CASE BuildRefused
    <2>1. build.phase = "merge" /\ ~Buildable
        BY <1>4 DEF BuildRefused
    <2>2. /\ Sane(build.ledger) /\ Sane(build.history) /\ Read(build.registry)
          /\ build.previous # None => Read(build.previous)
        BY <2>1 DEF RInv, BuildReads, HInv, SaneBuild
    <2>3. ~Explained(Met)
        BY <2>2, BuildsMeet, SteadyIsUnexplained
    <2>4. QED
        BY <2>1, <2>2, <2>3, BuildIsAccepted
<1>5. ASSUME NEW j \in DOMAIN jobs, NEW job, job.phase # "refused",
             jobs' = With(jobs, j, job) \/ jobs' = With(Moved, j, job), build' = build
      PROVE  NothingIsRefused'
    <2>1. /\ DOMAIN Moved = DOMAIN jobs
          /\ \A i \in DOMAIN jobs : Moved[i].phase = jobs[i].phase
        <3>1. \A i \in DOMAIN jobs :
                  Moved[i] = IF jobs[i].phase = "commit"
                             THEN Ready(jobs[i], jobs[i].ledger, FALSE) ELSE jobs[i]
            BY DEF Moved
        <3>2. \A x, h, current : Ready(x, h, current).phase = "commit"
            BY DEF Ready
        <3>3. DOMAIN Moved = DOMAIN jobs
            BY DEF Moved
        <3>4. QED
            BY <3>1, <3>2, <3>3
    <2>2. \A i \in DOMAIN jobs' :
              jobs'[i] = job \/ (i \in DOMAIN jobs /\ jobs'[i].phase = jobs[i].phase)
        BY <1>5, <2>1 DEF With
    <2>3. QED
        BY <1>5, <2>2 DEF NothingIsRefused
<1>6. ASSUME NEW j \in DOMAIN jobs, Reconcile(j)
      PROVE  NothingIsRefused'
    <2>1. j \in DOMAIN candidates
        BY DEF IInv
    <2>2. Sane(ledger) /\ Sane(Incoming(j))
        BY <2>1 DEF HInv, SaneReleases, Incoming
    <2>3. Meeting({ledger, Incoming(j)}) /\ \A h \in {ledger, Incoming(j)} : SaneEditions(h)
        BY <2>2, SaneFits DEF Meeting, Sane
    <2>4. Mergeable(ledger, Incoming(j))
        BY <2>2, <2>3, SteadyIsUnexplained, PairIsMergeable
    <2> DEFINE job == IF Merge(ledger, Incoming(j)) = ledger THEN [phase |-> "preserved"]
                      ELSE Ready(jobs[j], Merge(ledger, Incoming(j)), TRUE)
    <2>5. jobs' = With(jobs, j, job) /\ build' = build
        BY <1>6, <2>4 DEF Reconcile
    <2>6. job.phase # "refused"
        BY DEF Ready
    <2> HIDE DEF job
    <2>7. QED
        BY <1>5, <2>5, <2>6
<1>7. ASSUME NEW j \in DOMAIN jobs, Push(j)
      PROVE  NothingIsRefused'
    BY <1>5, <1>7 DEF Push
<1>8. ASSUME NEW j \in DOMAIN jobs, PushRejected(j) \/ PushInterrupted(j)
      PROVE  NothingIsRefused'
    BY <1>5, <1>8, RetriedIsNotCommitted DEF PushRejected, PushInterrupted
<1>9. ASSUME NEW j \in DOMAIN jobs, Rerun(j)
      PROVE  NothingIsRefused'
    BY <1>5, <1>9 DEF Rerun, Queued
<1>10. ASSUME NEW b \in DOMAIN candidates, Select(b)
       PROVE  NothingIsRefused'
    <2>1. jobs' = Moved /\ build' = build
        BY <1>10 DEF Select
    <2>2. /\ DOMAIN jobs' = DOMAIN jobs
          /\ \A i \in DOMAIN jobs :
                jobs'[i] = IF jobs[i].phase = "commit"
                           THEN Ready(jobs[i], jobs[i].ledger, FALSE) ELSE jobs[i]
        BY <2>1 DEF Moved
    <2>3. \A x, h, current : Ready(x, h, current).phase = "commit"
        BY DEF Ready
    <2>4. QED
        BY <2>1, <2>2, <2>3 DEF NothingIsRefused
<1>11. CASE Deploy \/ UNCHANGED vars
    BY <1>1, <1>11 DEF Deploy, vars
<1>12. QED
    BY <1>2, <1>3, <1>4, <1>6, <1>7, <1>8, <1>9, <1>10, <1>11 DEF Next, Persist

\* Where every edition is read in one way and every date is known, no build and no
\* persist job is ever refused, however they interleave with pushes, selections
\* and deployments.
THEOREM SteadySourcesAreNeverRefused == Spec => []NothingIsRefused
<1>1. Init => NothingIsRefused
    BY DEF Init, NothingIsRefused
<1>2. IInv /\ RInv /\ HInv /\ NothingIsRefused /\ [Next]_vars => NothingIsRefused'
    BY NothingIsRefusedStep
<1>3. QED
    BY <1>1, <1>2, Invariance, RegistriesStayRead, HistoriesStaySane, PTL DEF Spec
=============================================================================
