------------------------- MODULE PublicHistoryProperties -------------------------
(***************************************************************************)
(* What the history of published editions promises.                        *)
(***************************************************************************)
EXTENDS PublicHistory

\* A history keeps everything another one records: editions with unchanged
\* descriptions and observations, checks and comparisons.
Keeps(h, g) ==
    /\ \A e \in DOMAIN g.editions :
          /\ e \in DOMAIN h.editions
          /\ h.editions[e].described = g.editions[e].described
          /\ g.editions[e].rows \in {None, h.editions[e].rows}
    /\ g.checks \subseteq h.checks
    /\ g.comparisons \subseteq h.comparisons

\* The ledger on main only grows, however persist jobs, their retries and
\* other pushes interleave: merge_histories never drops or replaces a
\* record, and a push based on an older main is rejected.
LedgerGrows == [][Keeps(ledger', ledger)]_vars

\* A persist job that ended well has its release's history in the ledger for
\* good, also when its push was accepted unseen and tried again, and when
\* another job pushed between its merge and its push.
EvidenceSurvives ==
    \A j \in DOMAIN jobs :
        jobs[j].phase = "preserved" => Keeps(ledger, Incoming(j))

\* The artifact gate validate_history_registry never rejects a history that
\* build_history accepted, whatever mixture of ledger, deployed history and
\* deployed registry the build happened to read.
GateAgrees ==
    build.phase = "merge" /\ Buildable => Reconciles(Built, build.registry)

\* A comparison that a build recorded, be it one of those in the seed, is of the
\* very observations that the ledger keeps for its two editions.
ComparisonsReadTheirEditions ==
    \A c \in ledger.comparisons : c.basis # "frozen" =>
        c.rows = <<ledger.editions[c.before].rows, ledger.editions[c.after].rows>>

(***************************************************************************)
(* Refusals.                                                               *)
(***************************************************************************)
\* The histories and releases that met in a refused build or persist job.
TwoReadings(hs) ==
    \E h, g \in hs : \E e \in DOMAIN h.editions \cap DOMAIN g.editions :
        ~Agree(h.editions[e], g.editions[e])
Rechecked(hs) ==
    \E h \in hs : \E c \in h.comparisons : \E g \in hs : \E d \in g.checks :
        /\ c.basis = "capture order"
        /\ d.edition = c.before
        /\ \A k \in hs : \A x \in ChecksOf(k, c.after) : x.at <= d.at
Explained(hs) == TwoReadings(hs) \/ Rechecked(hs)

Met == {build.ledger, build.history, Aggregate(build.registry)}
       \cup (IF build.previous = None THEN {}
             ELSE {Aggregate(build.previous),
                   [Empty EXCEPT !.comparisons = Deltas(build.previous, build.registry)]})

\* A release is refused only because one edition was read in two ways, or
\* because the earlier edition of a comparison ordered by captures has been
\* checked again: a stale or missing deployment, the order of persist jobs
\* and partial coverage of the sources never are reasons.
RefusalsAreExplained ==
    /\ build.phase = "merge" /\ ~Buildable => Explained(Met)
    /\ \A j \in DOMAIN jobs :
          jobs[j].phase = "queued" /\ ~Mergeable(ledger, Incoming(j)) =>
              Explained({ledger, Incoming(j)})

\* Every edition has one reading, with which the seed agrees, and different
\* editions that may be compared have different known dates.
Steady ==
    /\ \A e \in Editions :
          /\ \E x \in Readings[e] : Readings[e] = {x}
          /\ e \in DOMAIN Seed.editions =>
                 \A x \in Readings[e] : Agree(Seed.editions[e], x)
    /\ \A b, a \in Editions : Alike(b, a) /\ b # a => Dated(b, a)

\* Where each edition has one reading and every date is known, no build and
\* no persist job is ever refused.
NothingIsRefused ==
    Steady => /\ build.phase # "refused"
              /\ \A j \in DOMAIN jobs : jobs[j].phase # "refused"

\* With fewer competing pushes than attempts, every candidate's history ends
\* up in the ledger.
CandidatesArePreserved ==
    \A b \in Builds :
        (b \in DOMAIN jobs) ~> (b \in DOMAIN jobs /\ jobs[b].phase = "preserved")

\* Repeating an edition is idempotent but keeps the new check
\* (tests/test_public_history.py): a release of editions that the ledger
\* has, read as before, is never refused.
RepeatedEditionsAreAccepted ==
    build.phase = "merge" /\ ~Buildable =>
        \E e \in Published(build.registry) :
            \/ e \notin DOMAIN build.ledger.editions
            \/ ~Agree(build.ledger.editions[e], Recorded(ReportOf(build.registry, e)))
=============================================================================
