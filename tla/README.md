# A TLA+ model of the White List archive

This directory models the archive from the offices' pages to the public
history: how robots find and capture documents, how bytes become evidence,
evidence relational captures, captures private interpretations, what each
parser makes of the document it was written for and of one that is read
differently, how a registry is built or replayed from pinned captures, and how
approved releases become a public history. Most of it is about concurrent jobs,
crashes and lost acknowledgements that meet durable state; the parsers are
sequential, and their hazard is a document that changes under rules written for
one reading of it. TLC checks small instances of every module, and the TLA+
proof system proves, for every value of the constants, nearly all safety properties that
the runs check and the refinements of three abstract specifications.

Paths are relative to the repository; `package/` stands for
`src/white_list_archive/`.

## 1. Inventory

The program is a set of workflow jobs (`.github/workflows/*.yml`) that run
modules of one Python package against four kinds of shared state: an object
store whose only write is a conditional PUT, a PostgreSQL database at READ
COMMITTED, the repository's `main` branch, and the site deployed on Pages.
A workflow has a concurrency group of its own at best, so jobs of different
workflows always overlap, and shards of one matrix do too. Every job may be
cut off at any point by a timeout, a cancellation or a failed request.

| Component | Code | State it keeps | Operations | What makes it correct |
|---|---|---|---|---|
| Archive-first evidence | `package/storage/evidence.py`, `capture_catalogue.py`, `catalogue_recovery.py`, `acquisition/archive_first.py` | objects under their digest; one catalogue record per (source, capture id) | acquire, conditional PUT, full readback, record, read the record back, rehydrate | nothing is parsed before its bytes and its own record are durable; nothing stored is replaced; one identity has one manifest; retries converge |
| Relational captures | `package/persistence/archived_capture.py`, `source_series_registration.py`, `capture_manifest.py` | authority, register, series, resource, content and capture rows | register the reviewed series, verify the archive again, bind, promote content, commit | a visible capture is whole, archived and agrees with the inventory; rows are kept; no deadlock; a retry after a lost commit is accepted |
| Interpretation snapshots | `package/persistence/parse_snapshot.py`, `legacy_cosenza.py`, `acquisition/auto_transform.py` (`transform_one`), `publishing/archive_replay_observations.py` | parse runs, snapshots, labelled links of captures to runs | find one to reuse, parse, lock, select, insert, link, commit, read back | one output per interpretation; links name the bytes that were read; reports are true; an exact retry never fails; no deadlock |
| Public edition history | `package/publishing/public_history.py`, `public_national_build.py`, `public_snapshot.py`, `persist-public-history.yml` | ledger on `main`, candidate releases, selected snapshot, deployed site | build and compare, fetch the previous release, gate, merge and push, select, deploy | the ledger only grows; what a job reported as preserved stays; the gate and the build agree; refusals have a real cause |
| Reviewed-capture transformation | `package/acquisition/auto_transform.py` (`select_reviewed_jobs`, `main`), `transform-reviewed-captures.yml` | operational reports | read the robot-state branch, select changed sources, verify, commit and interpret each, report | an interpretation rests on all members of its source; a change that stays is reported; one failing source does not stop the rest |
| Frozen releases | `package/publishing/frozen_release*.py` | candidate and final manifests | select captures per source, verify against the catalogue, replay through the download seam, check revisions | a replay reads exactly the selected bytes, never the network; a manifest names one revision of everything |
| Prefecture robots | `package/acquisition/prefecture_robots.py`, `prefecture-robots.yml`, `publishing/public_robots.py` | one entry per authority on the robot-state branch: resources, histories of captures, frontier | visit pages and documents within limits, archive, accept or refuse, keep the frontier, report | the entry tells the truth about the archive; nothing that answers is starved |
| Recovery of evidence | `package/storage/archive_inventory.py`, `recovery_*.py`, `release_recovery.py`, `legacy_capture_recovery.py` | inventory reports, packages, migrated captures | denominator, inventory, materialise, migrate | every expected capture has one status; a package is complete or refused; migration is idempotent |
| Database and robot-state recovery | `package/storage/postgres_recovery.py`, `robot_recovery.py` | dumps, restored databases | dump, restore into an empty database, compare | a restore is verified before it is declared usable |
| Legacy manifest import and record persistence | `package/persistence/capture_manifest.py` (`persist_paths`), `parsed_records*.py` | editions, schema versions, source records | import a batch, persist records of a run | re-import is idempotent |
| Public registry build | `package/publishing/public_national_registry.py`, `public_contract.py`, `public_registry.py` | a download cache | prefetch concurrently, check approved digests, parse, project | all gates or no release |
| Public artifact and bundles | `package/publishing/public_artifact.py`, `explorer_*.py`, `actions_verification.py` | files | closed-schema checks, rendering | exact file set, equal CSV and JSON |
| Semantic projection | `package/semantic/*.py` | canonical entities, relationships, versions | project, resolve, canonicalise | re-projection is idempotent; ambiguity is never resolved silently |
| Geocoding | `package/geocoding/*.py` | caches and results per address | cascade of ANNCSU, fallback and Nominatim | one accepted result per address; rate limits; a later provider never overrides an earlier one |
| Monitoring and discovery | `package/acquisition/operations.py`, `reconcile_monitoring.py`, `national_index.py`, `cosenza_*.py` | reports, discovered snapshots | scan pages, reconcile lists | every series is accounted for |
| Parsers | `package/parsers/*.py` (about 28,000 lines) | constants that a review wrote into the code | walk over the rows of one document, refuse, join, complete, group, compare with the review | another reading of the reviewed document yields the reviewed observations or stops; names, dates and text stay with their company |
| Schema, views, seeds | `db/` | constraints | – | the constraints that the transactions meet |

How they interact. `archive_first` calls the evidence store and the catalogue,
hands verified bytes to a callback, and, if a database is configured, persists
the capture in one transaction (`_persist_if_configured`). `transform_one`
rehydrates captures from the catalogue, persists them if they are not bound
yet, looks for a reusable interpretation, parses, and persists the snapshot.
Reconciliation of legacy captures and the replay of a frozen release persist
interpretations through the same function. The public build produces a
registry, merges the history of the ledger, of the deployed site and of its
own comparison, and uploads a candidate; a workflow triggered by its success
appends that history to the ledger; a reviewed change of
`data/publication/public_snapshot.json` selects the candidate that is deployed.

The hard behaviours are those a unit test with one connection and one store
object never meets: SELECT-then-INSERT races on unique keys, row locks and an
advisory lock taken by different callers in different orders, conditional PUTs
that a transport retries after losing the answer, COMMITs and pushes whose
acknowledgement is lost, jobs killed between any two requests, builds that read
a ledger, a deployed history and a deployed registry of three different
moments, records that are validated again, years later, together with evidence
nobody had then, runs of a robot that stop in the middle of a frontier with
documents that never answer, and documents of which a library yields one row or
one cell less than it did at the review. `PROJECT.json` lists each at its line.

## 2. Modules

| Module | Role |
|---|---|
| `ImmutableEvidence` | abstract specification: bytes are preserved once, bound once to an identity, exposed only afterwards |
| `EvidenceArchive` | the archive-first boundary, request by request |
| `EvidenceArchiveProperties`, `EvidenceArchiveProofs`, `MCEvidenceArchive` | its properties, proofs and bounds |
| `CaptureTable` | abstract specification: archived captures that contradict none there are added whole, one at a time |
| `CapturePersistence` (+ `Properties`, `Proofs`, `MC…`) | one transaction per capture, statement by statement |
| `InterpretationTable` | abstract specification: interpretations are added once, with all their links, and linked to further captures later |
| `ParseSnapshots` (+ `Properties`, `Proofs`, `MC…`) | interpretations, statement by statement, by three kinds of callers |
| `EditionHistory` | histories of editions as a data type: aggregate, merge, compare, validate |
| `PublicHistory` (+ `Properties`, `Proofs`, `MC…`) | builds, persist jobs, pushes, selection and deployment over it |
| `ReleaseBuilds` (+ `Properties`, `Proofs`, `MC…`) | frozen releases, their replay, live builds, promotion |
| `PrefectureRobots` | the runs of one robot |
| `ReviewedCaptures` (+ `Properties`, `Proofs`, `MC…`) | the worker that interprets what the robot captured, composed with it |
| `SourceRows` | physical rows, the description of a parser, the walk over a document |
| `SourceParsing` (+ `Properties`, `Proofs`, `MC…`) | repairs, completion, grouping, comparison with the review; reviews and drifts |
| `TableSources`, `PositionedSources`, `CombinedSources`, `WorkbookSources`, `PageSources` | the description of each parser |
| `NaturalLemmas` | lemmas on sets of natural numbers and finite sets that the proofs share |

Definitions whose comment begins with "Mutant" are deliberate mistakes next to
the definition they would replace; each property is broken by at least one of
them, which shows that the runs reach the situation the property is about. No
specification uses them.

### EvidenceArchive

`objects[c]` is what the store holds under the digest of content `c`: nothing,
`c` itself, or conflicting bytes. `catalogue[k]` is the record under a capture
identity. A run stands in one of five phases between the requests of
`archive_payload`: `Stage` freezes a manifest, `ContentCreated`,
`ContentExists` and `ContentPutFails` are the three answers of the conditional
PUT (the last two whether or not it took effect), `ReadBackContent` is the full
GET, `RecordCreated`, `RecordExists`, `RecordPutFails` and `ReadBackRecord`
repeat this for the record, `Stop` is any failure, and `Rehydrate` rebuilds a
capture from the catalogue and an untrusted index. Each request is one action,
so runs interleave between any two of them. SHA-256 is injective.

The abstract specification has three variables and three actions. The mapping
takes as preserved the digests whose object is intact, as bound the manifest of
each record, as exposed the parser's inputs.

### CapturePersistence

`committed` are the committed rows of six tables, each `[table, key, value]`
where the value is what another capture must agree with. A writer holds a
capture (`job`), the table it is at, whether its SELECT found no row
(`missed`), and its uncommitted or locked rows (`own`). `Select` reads at READ
COMMITTED, and for content takes the row lock and promotes a row that was
ephemeral; `Insert` waits for a transaction that holds the key and then fails
if it committed; `Verify` reads both durable objects again; `Commit` and
`CommitUnseen` publish all at once; `Abort` is any failure. The archive appears
as the set of captures that `EvidenceArchive` has made durable, which grows on
its own. The reviewed inventory is two functions, `AuthorityOf` and `RegimeOf`.

`CaptureTable` has the archive, a table of captures and the reports. Its one
action on the table adds an archived capture that agrees with all others on
identity, type of resource and regime of the register. The mapping takes a
capture as in the table when its own row is committed, so a transaction of seven
selects and as many inserts is a stutter up to its commit.

### ParseSnapshots

An interpretation is identified by the labelled bytes, the recipe (parser, code
revision, configuration) and the parser's revision. `transform` attempts go
through `Bind` (each capture is committed in a transaction of its own),
`Find` (reuse without the lock), `Parse`, `Lock`, `Select`, `Insert`, `Link`
(one statement per input), `Commit`, `ReadBack`; `reconcile` skips `Find`;
`persist` (replay and command line) begins at `Parse` and reports at `Commit`.
A parser returns any of `Outputs`, so it need not be deterministic. Parse runs
without a snapshot, left by older record persistence, may be there initially.

`InterpretationTable` has the committed captures, the interpretations and the
links. `Interpret` adds an interpretation whose code has none, with a link for
each of its inputs; `Attach` adds links of other captures; both only links that
are true, and one label for a capture. The mapping takes the runs that have an
output, so a run that older persistence left is not there until it is completed.

### EditionHistory and PublicHistory

An edition stands for its identity (source, date, document digest, parser
signature); a reading is what a build takes from it, with `described` for
names, addresses and counts and `rows` for the fingerprint of the observations.
`Valid`, `Consistent`, `Merge`, `Deltas` and `Reconciles` are
`validate_history`, the conflicts and the union of `merge_histories`,
`compare_releases` and `validate_history_registry`. Counting rows and matching
identifiers (`compare_rows`) is abstracted to the pair of fingerprints that
were compared.

`StartBuild` takes the ledger of its checkout and a report per source, observed
now or preserved from the approved release with its old time; `FetchHistory`
and `FetchRegistry` are two requests between which a deployment may happen, and
each may fail; `FinishBuild` and `BuildRefused` are the two outcomes of
`build_history`; `BuildStops` is cancellation by a newer build, a timeout or
any other failure. The persist job is the shell loop of the workflow:
`Reconcile` resets to `main` and merges, `Push` succeeds only on the `main` it
merged with, `PushRejected` tries again up to `MaxAttempts`, `PushInterrupted`
loses the push or only its answer, `Rerun` starts a job again. `Select` is the
reviewed change of the snapshot manifest, which is also a competing push, and
`Deploy` restores it. Time is the number of the build that observes.

### ReleaseBuilds

`catalogue` are the captures that read back now, `served` what each resource
serves, `head` the revision of main; a job is a record of what its process
holds. `Plan`, `VerifyCandidate`, `Finalise` are `plan_frozen_release_candidate`
and its companions, of which the repository has only tests as callers;
`Choose` is `frozen_release_select` with an operator's own selection; `Commit`
is the review that tracks a manifest. `StartReplay`, `AcquireArchived`,
`ParseNext`, `FinishReplay` are the protected job, which checks out the
revision that the manifest pins and commits the interpretation of each source
before its gates are evaluated. `StartLive`, `Fetch`, `FinishLive` are a build
from the network with preserved editions, `Promote` is the review that approves
it. Two facts the model shows: a candidate planned for a bundle whose members
have equal bytes is always refused later, because planning does not look whether
one capture stands for two members; and a manifest that names another parser
than its revision runs leaves interpretations under the wrong name in the
database, and no candidate.

### PrefectureRobots and ReviewedCaptures

An entry of the branch has, for each URL, the bytes that passed all checks, the
bytes archived, the time of the last check, the set of captures and, for each key,
the last of them (which is all that the code reads of their order). A run
takes the entry that the last run left and goes through its queue in the order
of the two sorts of `run_robot`; a visit is one action, and there is an action
for each of its outcomes (`Accept`, `RejectPage`, `Fail`, `BreakOff` between two
keys or with a receipt lost, `LinksUnread`, `NotModified`). `Report` replaces
the entry, `LoseRun` is a job whose report does not reach the branch. Times are
numbered anew in each report, since only their order matters. The limit of
requests stands for the time budget as well.

The worker takes the last capture of each member from the history, including
captures that were refused, verifies all of them in the archive, commits them
one by one, reuses or interprets, and reports at the end; `Block`, `FailJob` and
`StopWorker` are missing credentials, any exception of a job, and a cancelled
workflow. `todo` are the sources it still has to do, taken in the order of the
configuration, and `left` the members of the first that are not yet committed. One robot and the shard of its authority are modelled: entries of
different authorities never meet.

### SourceRows and SourceParsing

All parsers have one shape: they walk over the rows that a library yields, pass
over titles and headers, join fragments of text to rows, refuse what the review
did not see, repair and complete known rows, group rows into observations, and
compare counts, layouts and faults with constants written at the review. `Plain`
is the description of a parser that does none of the optional things; each of
the 139 descriptions in the five source modules says in which way one parser
differs from it, and names the lines that do it. The descriptions are data, the
semantics is one operator for each step (`Scan`, `Enter`, `RepairsFit`,
`Repaired`, `Completed`, `Groups`, `RowMeasure`, `RecordMeasure`,
`AsRecorded`).

Text that a parser joins to a row is kept in the order in which it was joined. It
joins the row above (`joins` has "tail", or "next" only right below a row that was
taken, "top" only at the top of a page) or the row below ("lead"; where bands end
half-way between two rows, as in Avellino, both). What is published is the row with
its text: `FullName` is the name followed by the joined text, and a name that was cut
off is whole again if the first text is of its own company. `Observation`, and keys
and gates that speak of names or identities, use it.

`Review` parses a document and writes the findings down, as the authors of the
constants did. A drift is one difference between that reading and the next: a row
lost, repeated, exchanged with the next or broken in two, a cell lost or garbled.
The row may be a company, a heading or text. A row that is broken in two keeps the
beginning of its name ("x", as whatever is cut off) and is followed by the rest
(`BreakRow`). A row knows what it means (`meant`), the company a reader of the page
sees, which no parser looks at. `Parse` returns observations or `Refused`.

## 3. Runs

| Run | Bounds | Question |
|---|---|---|
| `evidence_archive` | 2 runs, 2 identities, 2 contents | durability, immutability, refinement and convergence of the archive |
| `capture_persistence` | 2 writers, 3 captures that collide on id, locator, bytes and register, 2 regimes | a capture is whole or absent; rows and durable content are true and stay; `CaptureTable` is implemented, which makes reports true |
| `capture_retries` | 2 writers, the same bytes at two locators in two series | no circle of waits; every acceptable capture is persisted in the end |
| `register_regimes` | 2 writers, 2 series of one authority in two regimes | violated: the documented registration of every reviewed series |
| `parse_snapshots` | 2 jobs, 2 outputs, 2 revisions, all three kinds of callers | one output, true links, justified refusals, durable reports |
| `parse_retries` | 2 jobs, a bundle of two labels captured twice | no circle of waits, every attempt is reported in the end; `InterpretationTable` is implemented, which makes attribution complete |
| `public_history` | 3 builds, 2 editions of one date, 4 readings, 2 attempts, 1 disturbance | preserved evidence, the gate, comparisons, refusals |
| `history_dated` | 2 builds, 3 dated editions of 2 sources, 3 attempts | nothing is refused; every candidate is preserved in the end |
| `history_rechecks` | 3 builds, 2 editions of one date | violated: repeating an edition is idempotent |
| `releases` | 1 job at a time, 4 captures, 3 revisions, 2 selections, one damaged capture, one manifest and one candidate | candidates show what was pinned and approved, on committed interpretations |
| `source_parsing` | 139 parsers, documents of up to 5 rows and 2 companies, 1 drift | another reading yields the reviewed observations, joined text included, or stops; names, dates and text stay with their company |
| `reviewed_captures` | 5 URLs, 4 requests, depth 1, 2 sources that share a resource, 1 replaced document, 1 disturbance besides a document that never answers | the branch tells the truth, interpretations are complete, nothing is starved, changes are reported |

Why the bounds suffice. The races of the first three components are between
two transactions that meet on one key, with any third party having committed
before; two processes with captures that collide in every column reach them
all, and the proofs remove the bound. A circle of waits needs two waiters; that
longer ones do not exist either is proved for captures and for interpretations. The history needs
three builds: one whose release is deployed, one that compares with it, and one
that brings back what the first had. One disturbance is enough for a lost
acknowledgement or a selection; deadlock is not checked in these runs because
builds and disturbances are bounded and may be used up. A release is selected,
reviewed and replayed by one job after the other, and what interferes (merges,
served bytes, damage, other candidates) are actions of their own; three revisions
change the configuration, the parser and both. Deadlock is not checked in
`releases` and `source_parsing`: a candidate may await its review for ever, and a
parser ends.

The rules of a parser look at one row, at the row above, at rows of the same
company or page, and at counts. Two companies in two sections on two pages, one
of them perhaps twice, with the same cells or with another name, identifier, date
or note, and with one row in an unreviewed form wherever the parser has a place
for it, reach every rule; a second drift would let counts cancel out,
which they cannot notice by their nature. For the robot, five URLs with four
requests leave a frontier in every cycle; the document that never answers may
fail at every visit, so the bound on disturbances does not limit it.
`DocumentsAreRevisited` asks for one request more than landing pages, approved
resources and dead documents take (`HasRoom`). That is a condition the code does
not ensure: a failed visit leaves no time of check, so a dead document is found
again by every run and goes before all others, and eight of them with a timeout
of 20 seconds use up the budget of 150 seconds.

`SourceParsingProperties` names the parsers a property does not hold of, because
the code has nothing that would notice.

| Exception | Lists | What goes unnoticed |
|---|---|---|
| `HeadingsUnchecked` | Crotone, Pistoia, Alessandria (listed) | a lost heading moves companies into the section above |
| `SectionsUncounted` | also Macerata, Trapani, Udine, Chieti, Pescara, Milano | a row that changes places with a heading changes its section |
| `SuppliedBlindly` | Bari | names are supplied by page and row, whatever stands there |
| `NamedByFirstRow` | Lodi, Perugia, Pordenone, Trento (listed) | of a company listed under two names the first row gives the name, and nothing compares which row comes first; other parsers take the longest name or the one that the review chose (`NameShown`) |
| `TextUncounted` | 22 lists, among them Barletta, Roma, Avellino, Benevento, Udine, Palermo | joined text is published in names, offices or notes and not counted: it may be lost, repeated or stand elsewhere |
| `FragmentsOnce` | Barletta applicants | the reviewed fragments are compared as a set, so one may come twice |
| `FragmentsUnplaced` | Ferrara, Frosinone, Imperia, Macerata applicants, Siracusa | fragments are counted, but not the row that each belongs to |
| `RestPassedOver` | 29 lists, among them Cagliari, Agrigento, Lecco, Napoli | rows without what makes a company are passed over: when a row breaks in two, the name is published as it was cut off |
| `DatedByOrder` | Barletta (listed) | when the first date is lost, the second becomes the listing date |
| `NamedByDate` | Pistoia applicants | a missing name is read beside the first row of the page that has the same date |

For the lists of `TextUncounted`, and of `FragmentsOnce` and `FragmentsUnplaced`
where they matter, the properties still say that nothing but the joined text differs
(`AsReviewedButForText`). That text is joined to the company it belongs to,
`TextFitsItsRow` says for all drifts but exchanges: a row that changes places with
text is a page whose text belongs elsewhere, which `OrderIsHarmless` is about. That
every exception is needed was checked by leaving it out.

The two violations are findings about the code. `register_regimes`: the
register code of `ensure_register` names the authority only, so the ordinary
and the special series of one authority exclude each other. `history_rechecks`:
`validate_history` checks a comparison that was ordered by captures against the
*latest* checks of both editions, so checking the earlier edition again makes
the ledger's own comparison invalid and the release is neither built nor
preserved.

## 4. Fairness

`EvidenceArchive`, `CapturePersistence` and `ParseSnapshots` assume that a
running job goes on to its next request, that every acquisition, capture or
attempt is taken up again (scheduled workflows repeat the whole reviewed list),
and that interruptions are not for ever. Strong fairness stands where a job
waits for a lock that others release and take again, which the database grants
in turn. `PublicHistory` assumes only that the runner of a persist job goes on;
nothing obliges a build, a selection, a deployment or a rerun to happen. That
every candidate is preserved holds only while there are fewer competing pushes
than attempts, which the bounds of `history_dated` provide; beyond, the code
gives up on purpose. `ReviewedCaptures` assumes that a run of the robot is
started, visits and reports, and that a worker is started and goes on: the first
workflow runs every day, the second every week and after it. No visit is assumed
to succeed, but documents that are not flaky fail only as often as the bound on
disturbances allows.

## 5. Proofs

Each proof module extends the properties module. The argument is the same
throughout: an inductive invariant that joins what is durable with what a
running process knows.

- `EvidenceArchiveProofs`. `IInv` joins `TypeOK`, `CatalogueBacked`,
  `ParserBoundary` and `RunEvidence`: that a run past its readback stands on
  bytes which are there needs that no other run can remove them, and that is
  why `PutContent` and `PutRecord` only ever fill empty keys. `NoRelabelling`
  follows, `WriteOnce` holds step by step, and `Refinement` maps every step to
  a step or a stutter of `ImmutableEvidence`.
- `CapturePersistenceProofs`. The conjunct that matters is `WriterEvidence`: a
  writer past a table holds or has read the row it needs, and nobody can take
  that row away before it commits. Then a commit publishes a closed capture
  (`NoPartialCapture`). `NoDeadlock` uses the rank of the step a writer has
  reached: a writer waits only for one that is further on, so a set of waiters
  has a member with the greatest rank that waits for nobody. `Refinement` maps a
  commit to one step of `CaptureTable`: it adds no capture but its own, and two
  committed captures stand on one row wherever they share a key, so they agree.
- `ParseSnapshotsProofs`. `SessionEvidence` says what a session knows at each
  step; it is split by session, so that a step of one session has to be shown
  harmless to the evidence of another once, from the fact that committed
  snapshots and links stay. `ExactRetriesPass` needs that the lock is held from
  the SELECT to the end of the transaction. For `NoDeadlock` there is no fixed
  rank, because a job that reuses an interpretation takes no lock: whoever waits
  for a link waits for a session that has linked more inputs of the same recipe,
  whose labels have one order. At any time finitely many sessions work, which is
  an invariant of its own, so one of any circle has linked the most and waits for
  nobody in it. A session at its INSERT never waits at all. `Refinement` maps a
  commit to `Interpret` if the session inserted the snapshot, whose links are
  then all its own, and to `Attach` if it found one.
- `PublicHistoryProofs`. `MergeKeepsBoth` says that a consistent merge loses
  nothing of either side, and `Keeps` is transitive. The invariant says that a
  commit based on the current `main` keeps the ledger, and that the commit of a
  job keeps its own release; so an accepted push, seen or not, preserves both.
  `GateAlwaysAgrees` needs a second invariant (`RInv`): every registry that a
  build can read has a fingerprint, so enriching an aggregate with it yields
  exactly what is published. For `ComparisonsStayTrue` and `RefusalsHaveReasons`
  the third invariant, `HInv`, says that whatever history is kept anywhere has
  comparisons of the very rows it keeps, and of checks it knows; a refusal is
  then traced to the edition or the check at fault, also where a comparison is
  invalid only in the union of two histories that are valid each. The last check
  of an edition exists because the checks are finitely many (`NaturalLemmas`).
  `SteadySourcesAreNeverRefused` adds that under `Steady`, a condition on the
  constants only, neither fault can occur.
- `ReleaseBuildsProofs`. The invariant says what a job knows at each step: a
  planned or final manifest holds the configuration of its own revision, a
  replay runs at the revision that its manifest names, a parse has committed and
  accepted each source it has passed, and a live build preserves only what its
  configuration approves. None of it refers to `head`, `served` or what the
  archive holds later, and committed interpretations stay; so nothing that
  happens between the steps of a job can make it false, and a job that finishes
  has what a candidate needs (`Stands`).
- `SourceParsingProofs`. The four theorems are about a reading that differs from
  the review, of documents of any length. The walk over a document is a recursive
  function; `WalkExists` and `WalkSteps` unfold it, by induction on the number of
  rows. Where a parser takes nothing from the row above (`ReadsAlone`), each step
  either adds the row that it met or leaves the rows as they are (`Advanced`), and
  two walks that go over the same rows stay together (`Followed`, again by
  induction), whatever text was joined on the way. So two documents that differ in
  one place yield the same rows but for one lost, one changed, one broken in two or
  two exchanged (`LostRow`, `ChangedRow`, `BrokenRow`, `ExchangedRows`). What a
  parser makes of rows (repairs, completed dates, groups, observations) is then
  followed through: rows that are the same but for joined text give the same
  observations but for that text (`AlikeButForText`), the rows of a parser that
  joins none have none (`ApartFromText`), and a permutation of the rows carries
  groups to groups one to one (`PermutedObservations`). The invariant `DInv` adds to
  `IInv` that the reviewed and the extracted rows differ as the drift says and that
  a result is what the parser makes of them.

  `CountedRowsAreNoticed` (`AcceptedAsReviewed`) is about the parsers whose rows
  stand alone and show in a count (`Countable`) and that either join no text
  (`Apart`) or are excepted for it: 107 of the 139, and 11 more as long as no
  heading is lost or repeated. Of 86 of the 107 it says that everything that is
  published is as reviewed, of the others that all but the joined text is. Broken
  rows are refused by the 64 that have no use for the rest of a row
  (`KnowsNoRest`). `OrderShowsNowhere` (`OrderIsHarmless`) is about those that
  supply nothing by place and whose records show nothing of their first row that is
  not in their key (`Orderless`): 97, of 72 of them with all text, and 9 more as long
  as headings stay in their places. `CellsAreTheirOwn` (`CellLossIsLocal`) is about
  those that take the dates of a row from the row, each from its own cell, and count
  their rows (`OwnCells`): 130. The classes are conditions on the description, so a
  parser that is written within them has the property; which lists are excepted is
  the one condition on its name (`TextCounts`).

  `TextBelongsToItsRow` (`TextFitsItsRow`) needs to know what a page shows: the
  name on a row is that of its company, missing or unreadable, and text below a row
  belongs to it (`Printed`, `TextIsBelow`). A walk over such a page takes rows under
  their own names, and where every row is taken or refused (`Whole`) the last row
  taken is the last row of the page, so text joins its own (`Told`, by induction).
  The invariant `LInv` says what a drift leaves of the page: text is still below
  its row, also where the row broke in two, unless a company's row came or went, which such a parser takes and its
  count notices (`RowUntaken`); a cell that is lost is of the same company. A name
  that the review repaired comes back only to a row with the reviewed cells in the
  reviewed place, which is of that company, unless two such rows changed places
  that look the same; `Tellable` excludes this, and TLC finds no reviewed document
  where it happens. The class (`Fitting`) has 111 of the 139 parsers.

  The attempt to prove `OrderIsHarmless` for every parser showed that it was true of
  some only because no document listed one company under two names; `NameShown`,
  such documents and `NamedByFirstRow` came of it.
- `ReviewedCapturesProofs`. For the robot (`RInv`), a run keeps the captures of
  the branch that it started from (`RunsGoOn`); each of the outcomes of a visit
  is then one of three: what was accepted is archived under all keys, captures
  are named or lost and nothing else changes, or nothing is archived. The second
  half of `StatesTellTheTruth` is a balance: archived captures are lost or named.
  For the worker (`WInv`), the members that are no longer `left` are committed,
  which the robot cannot undo; so what is interpreted rests on all of them.
- `NaturalLemmas` has the least and the greatest number of a set, a bound for
  finitely many numbers, and induction over the naturals. The predicate of an
  induction is given as a set, because theorems of the library that take an
  operator as a parameter cannot be instantiated by the installed provers.

Assumptions are the named ones of the modules. `None` is no value of the other
constants, no drift and no run. Attempts are well formed and keep the label of a
capture under one recipe. Dates are numbers, rows that were read have a
fingerprint; the seed of the ledger is valid, finite, and its comparisons are of
the rows that it has. The captures of an input have comparable times, and a
semantic approval of a single resource leaves its bytes free. What a robot visits
is within the URLs of its catalogue, a URL that gives no answer is one of those
that may fail, and a page in place of a document is no content of one; the keys
of a URL are the sources that name it, and the orders of sources and labels are
complete. The documents of a review are sequences of rows, and parsers tell
records and statuses apart by cells of the row (`DocumentsAreRows`,
`ParsersNameCells`); the pages show each name on a row of its company and text
below the row it belongs to (`DocumentsAreLegible`). TLC evaluates all of them in
the runs.

Only model-checked are the liveness properties and, for the parsers outside the
classes above, the properties of parsers. These join text to the row below it as
well (Palermo, Perugia applicants), take rows with certain faults for text of their
neighbour (Roma, Frosinone, Udine), repair names below headings (Brescia), carry a
company over from the row above (Crotone) or read it elsewhere on the page
(Pistoia applicants), sort rows by their numbers (Napoli), complete dates from
other rows (Brescia, Alessandria), tell dates apart by their order (Barletta),
count records and not rows (Campobasso applicants, Enna), publish joined text and
count it (Crotone, Gorizia and Macerata applicants, Perugia, Trapani, Trento,
Siracusa), or, for the order of
rows, supply names by place or have keys that leave out a cell that the record
shows, which their other measures make up for. Each of these is a rule of its own,
and of some the properties are false, as the exceptions say. The
conjuncts of the inductive invariants (`CatalogueBacked`, `RunEvidence`,
`WriterEvidence`, `RegimesSeparate`, `LinksFit`, `SessionEvidence`) are proved
and belong to no run; so are `NoRelabelling`, which `ParserBoundary` implies,
`PersistedIsCommitted`, which `CaptureTable` implies, and
`InterpretationsAreAttributed`, which `InterpretationTable` implies.

## 6. What is not modelled

- The text of names, addresses and activities, and the formats of dates and
  identifiers: cells are members of small sets, in a known form or not. How the
  PDF, HTML and workbook libraries find rows and cells is any of the drifts. Joined
  text has its company and its order, not its column: a parser that joins only some
  columns of a fragment publishes less than the model shows.
  Digests are injective.
- The counter of mentions in the combined list of Cosenza, which adds up words
  and has no rows, and the registry of parser families, a table of names.
- The legacy manifest importer and older record persistence appear only through
  the rows they leave; their own races are listed as hazards.
- The recovery of evidence, databases and robot state: sequential jobs that an
  operator starts, whose checks compare digests and row counts.
- Semantic projection, geocoding, monitoring, public bundles: transformations of
  strings and files by one process. Schema and seeds appear as the constraints
  that the transactions meet.
- Isolation anomalies beyond READ COMMITTED statements, connection pools and
  the physical order in which the database grants locks.
- Credentials, encryption and retention of the object store, and edits of the
  repository's history.
- For robots: how links and redirects are recognised, the catalogue's
  generation, and several authorities at a time. For workers: quality flags, the
  inspection of quarantined documents and the private report.

## 7. Plan

What would come next, in order of what could go wrong:

1. The manifest importer inside `CapturePersistence`, for the races on schema
   versions, captures without identity and batches.
2. The recovery inventory: denominator, statuses, materialisation and migration
   of legacy captures as operators checked against a reference definition.
3. Canonicalisation and the geocoding cascade as idempotent algorithms.
4. An abstract append-only ledger implemented by `PublicHistory`.
