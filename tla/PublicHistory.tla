------------------------------ MODULE PublicHistory ------------------------------
(***************************************************************************)
(* Publication of the edition history.  A build on main reads the ledger   *)
(* of its checkout and the release approved there, observes the sources,   *)
(* fetches the deployed history and registry if it can, and publishes a    *)
(* candidate whose history is the union of them all.  A job of its own     *)
(* then merges that history into the ledger on main and pushes without     *)
(* force, so that jobs of several builds, and other pushes, race.  A       *)
(* reviewed change selects the candidate that is deployed.                 *)
(* publishing/public_history.py, .github/workflows/persist-public-history, *)
(* public-registry-review and public-pages.                                *)
(***************************************************************************)
EXTENDS EditionHistory, FiniteSets

CONSTANTS Seed,          \* the ledger the repository started with
          MaxBuilds,     \* bound: builds that are started
          MaxAttempts,   \* pushes one persist job tries
          MaxDisturbances    \* bound: pushes that fail for another reason

VARIABLES ledger,        \* data/history/public_history.json on main
          selected,      \* the candidate that main's snapshot manifest names
          site,          \* the release deployed on Pages
          build,         \* the build in progress: one, newer ones cancel it
          candidates,    \* what each successful build released
          jobs,          \* the persist job of each of them
          builds, disturbances
vars == <<ledger, selected, site, build, candidates, jobs, builds, disturbances>>

ASSUME BoundsAreNumbers ==
    MaxBuilds \in Nat /\ MaxAttempts \in Nat \ {0} /\ MaxDisturbances \in Nat
ASSUME SeedIsValid == IsHistory(Seed) /\ Valid(Seed)
\* The comparisons that earlier builds recorded are of the rows that the seed has
\* for their editions.
ASSUME SeedIsRead ==
    \A c \in Seed.comparisons : c.basis # "frozen" =>
        /\ c.rows = <<Seed.editions[c.before].rows, Seed.editions[c.after].rows>>
        /\ Seed.editions[c.before].rows # None /\ Seed.editions[c.after].rows # None
ASSUME SeedIsFinite == IsFiniteSet(Seed.checks)

Builds == 1 .. MaxBuilds
With(f, b, value) == [x \in DOMAIN f \cup {b} |-> IF x = b THEN value ELSE f[x]]

Init ==
    /\ ledger = Seed
    /\ selected = None
    /\ site = None
    /\ build = [phase |-> "idle"]
    /\ candidates = <<>>
    /\ jobs = <<>>
    /\ builds = 0
    /\ disturbances = 0

(***************************************************************************)
(* Building.                                                               *)
(***************************************************************************)
\* A source is observed now, or preserved with the time of its own check.
Observed(s, now) ==
    {[edition |-> e, described |-> r.described, rows |-> r.rows, checked |-> now] :
        e \in {x \in Editions : SourceOf[x] = s}, r \in UNION {Readings[x] : x \in Editions}}

Reportable(s, now) ==
    {r \in Observed(s, now) :
        [described |-> r.described, rows |-> r.rows] \in Readings[r.edition]}
    \cup (IF selected # None /\ s \in DOMAIN selected.registry
          THEN {selected.registry[s]} ELSE {})

\* A release covers some of the sources.
Registries(now) ==
    UNION {{f \in [covered -> UNION {Reportable(s, now) : s \in covered}] :
               \A s \in covered : f[s] \in Reportable(s, now)} :
           covered \in SUBSET Sources \ {{}}}

StartBuild ==
    /\ builds < MaxBuilds
    /\ builds' = builds + 1
    /\ \E registry \in Registries(builds + 1) :
          build' = [phase |-> "history", ledger |-> ledger, registry |-> registry]
    /\ UNCHANGED <<ledger, selected, site, candidates, jobs, disturbances>>

\* The deployed history and registry are fetched one after the other, and
\* each may be unavailable.
FetchHistory ==
    /\ build.phase = "history"
    /\ \E history \in {Empty} \cup (IF site = None THEN {} ELSE {site.history}) :
          build' = [phase |-> "registry", ledger |-> build.ledger,
                    registry |-> build.registry, history |-> history]
    /\ UNCHANGED <<ledger, selected, site, candidates, jobs, builds, disturbances>>

FetchRegistry ==
    /\ build.phase = "registry"
    /\ \E previous \in {None} \cup (IF site = None THEN {} ELSE {site.registry}) :
          build' = [phase |-> "merge", ledger |-> build.ledger,
                    registry |-> build.registry, history |-> build.history,
                    previous |-> previous]
    /\ UNCHANGED <<ledger, selected, site, candidates, jobs, builds, disturbances>>

Current == IF build.previous = None THEN Aggregate(build.registry)
           ELSE Compared(build.previous, build.registry)
Known == Merge(build.ledger, build.history)
Built == Merge(Known, Current)

\* What build_history accepts.
Buildable ==
    /\ build.previous # None => Comparable(build.previous, build.registry)
    /\ Consistent(build.ledger, build.history)
    /\ Mergeable(Known, Current)

Queued(attempt) == [phase |-> "queued", attempt |-> attempt]

\* The candidate is released and its persist job starts.  The artifact gate
\* compares the history with the registry.
FinishBuild ==
    /\ build.phase = "merge"
    /\ Buildable
    /\ Reconciles(Built, build.registry)
    /\ candidates' = With(candidates, builds,
                          [history |-> Built, registry |-> build.registry])
    /\ jobs' = With(jobs, builds, Queued(1))
    /\ build' = [phase |-> "idle"]
    /\ UNCHANGED <<ledger, selected, site, builds, disturbances>>

BuildRefused ==
    /\ build.phase = "merge"
    /\ ~Buildable
    /\ build' = [phase |-> "refused"]
    /\ UNCHANGED <<ledger, selected, site, candidates, jobs, builds, disturbances>>

\* A build fails for another reason, or a newer one cancels it.
BuildStops ==
    /\ build.phase # "idle"
    /\ build' = [phase |-> "idle"]
    /\ UNCHANGED <<ledger, selected, site, candidates, jobs, builds, disturbances>>

(***************************************************************************)
(* Persisting.  An attempt resets to main, merges, commits and pushes; the *)
(* push is accepted only if main has not moved since.                      *)
(***************************************************************************)
Incoming(j) == candidates[j].history
Ready(job, h, current) == [phase |-> "commit", attempt |-> job.attempt,
                           current |-> current, ledger |-> h]
Moved == [j \in DOMAIN jobs |->
             IF jobs[j].phase = "commit" THEN Ready(jobs[j], jobs[j].ledger, FALSE)
             ELSE jobs[j]]

Reconcile(j) ==
    /\ jobs[j].phase = "queued"
    /\ jobs' = With(jobs, j,
          IF ~Mergeable(ledger, Incoming(j)) THEN [phase |-> "refused"]
          ELSE IF Merge(ledger, Incoming(j)) = ledger THEN [phase |-> "preserved"]
          ELSE Ready(jobs[j], Merge(ledger, Incoming(j)), TRUE))
    /\ UNCHANGED <<ledger, selected, site, build, candidates, builds, disturbances>>

\* Mutant: the second attempt is the last.
RetriedOnce(job) == IF job.attempt > 1 THEN [phase |-> "exhausted"]
                    ELSE Queued(job.attempt + 1)
Retried(job) == IF job.attempt = MaxAttempts THEN [phase |-> "exhausted"]
                ELSE Queued(job.attempt + 1)

\* Mutant: git push --force.
AcceptedByForce(j) == TRUE
Accepted(j) == jobs[j].current

Push(j) ==
    /\ jobs[j].phase = "commit"
    /\ Accepted(j)
    /\ ledger' = jobs[j].ledger
    /\ jobs' = With(Moved, j, [phase |-> "preserved"])
    /\ UNCHANGED <<selected, site, build, candidates, builds, disturbances>>

PushRejected(j) ==
    /\ jobs[j].phase = "commit"
    /\ ~Accepted(j)
    /\ jobs' = With(jobs, j, Retried(jobs[j]))
    /\ UNCHANGED <<ledger, selected, site, build, candidates, builds, disturbances>>

\* The push fails in the network, before or after main accepted it.
PushInterrupted(j) ==
    /\ jobs[j].phase = "commit"
    /\ disturbances < MaxDisturbances
    /\ disturbances' = disturbances + 1
    /\ \/ /\ jobs' = With(jobs, j, Retried(jobs[j]))
          /\ UNCHANGED ledger
       \/ /\ Accepted(j)
          /\ ledger' = jobs[j].ledger
          /\ jobs' = With(Moved, j, Retried(jobs[j]))
    /\ UNCHANGED <<selected, site, build, candidates, builds>>

\* A failed job may be run again from the beginning.
Rerun(j) ==
    /\ jobs[j].phase \in {"refused", "exhausted", "preserved"}
    /\ jobs' = With(jobs, j, Queued(1))
    /\ UNCHANGED <<ledger, selected, site, build, candidates, builds, disturbances>>

(***************************************************************************)
(* Deployment, and pushes to main that leave the ledger alone.             *)
(***************************************************************************)
Select(b) ==
    /\ disturbances < MaxDisturbances
    /\ disturbances' = disturbances + 1
    /\ selected' = candidates[b]
    /\ jobs' = Moved
    /\ UNCHANGED <<ledger, site, build, candidates, builds>>

Deploy ==
    /\ selected # None
    /\ site' = selected
    /\ UNCHANGED <<ledger, selected, build, candidates, jobs, builds, disturbances>>

Persist(j) == Reconcile(j) \/ Push(j) \/ PushRejected(j)

Next ==
    \/ StartBuild \/ FetchHistory \/ FetchRegistry
    \/ FinishBuild \/ BuildRefused \/ BuildStops
    \/ \E j \in DOMAIN jobs : Persist(j) \/ PushInterrupted(j) \/ Rerun(j)
    \/ \E b \in DOMAIN candidates : Select(b)
    \/ Deploy

Spec == Init /\ [][Next]_vars

\* The runner of a job that started goes on; nothing obliges a build, a
\* selection, a deployment or a second run to happen.
FairSpec == Spec /\ \A j \in Builds : WF_vars(j \in DOMAIN jobs /\ Persist(j))
=============================================================================
