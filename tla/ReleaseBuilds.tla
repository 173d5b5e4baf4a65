----------------------------- MODULE ReleaseBuilds -----------------------------
(***************************************************************************)
(* How a public registry is built.  A frozen release pins one archived      *)
(* capture per reviewed resource and one revision of everything; a          *)
(* protected job replays it from the archive and persists what each parser  *)
(* returned.  A live build fetches what the sources serve now and may       *)
(* preserve editions that were approved before.                             *)
(* publishing/frozen_release_selection.py, frozen_release_select.py,        *)
(* frozen_release.py, archive_replay_observations.py,                       *)
(* public_national_build.py, public_national_registry.py.                   *)
(*                                                                         *)
(* A resource is a pair <<source, label>>.  A digest is what it identifies: *)
(* a configuration, or the bytes of a capture.                              *)
(***************************************************************************)
EXTENDS Naturals, Sequences, FiniteSets

CONSTANTS Order,       \* the configured sources, in the order of the configuration
          Resources,   \* their resources
          Captures,    \* captures that were archived
          About,       \* capture -> [source, bytes, date, at, locator]
          Bytes,       \* resource -> what it may serve
          Semantics,   \* parser revision -> bytes -> what approval sees of the rows
          Releases,    \* revision -> [config, parser, projector]; 1 is the oldest
          Selections,  \* what operators select: [capture, parser, projector]
          Jobs,
          Limit,       \* bound on the manifests, and on the candidates
          MaxLost,     \* bound on the captures that do not read back at a time
          None

Sources == {Order[i] : i \in DOMAIN Order}
Revisions == DOMAIN Releases
LabelsOf(s) == {r \in Resources : r[1] = s}
ConfigAt(v) == Releases[v].config
Scalar(s) == Cardinality(LabelsOf(s)) = 1

\* Times of captures are comparable: a complete input has a last member.
\* A semantic approval of one resource leaves its bytes free.
ASSUME ReleaseAssumption ==
    /\ Len(Order) \in Nat /\ DOMAIN Order = 1 .. Len(Order)
    /\ 1 \in Revisions
    /\ \A f \in [Resources -> Captures] : \A s \in Sources :
          \E r \in LabelsOf(s) : \A q \in LabelsOf(s) : About[f[q]].at <= About[f[r]].at
    /\ \A v \in Revisions : \A s \in Sources : \A r \in LabelsOf(s) :
          Scalar(s) /\ ConfigAt(v)[s].semantic # None => ConfigAt(v)[s].bytes[r] = None

Preflight == "selection-preflight"

VARIABLES catalogue,        \* captures whose record and bytes read back
          served,           \* what the official locator of each resource serves
          head,             \* the revision of main
          manifests,        \* reviewed release manifests
          job,              \* the work of each job, or None
          interpretations,  \* committed parse snapshots of replays
          candidates,       \* registries that passed every gate and await a review
          approved          \* the candidate of the approved public snapshot, or None

world == <<catalogue, served, head>>
public == <<manifests, candidates, approved>>
vars == <<world, public, job, interpretations>>

Init ==
    /\ catalogue = Captures
    /\ served \in {f \in [Resources -> UNION {Bytes[r] : r \in Resources}] :
                      \A r \in Resources : f[r] \in Bytes[r]}
    /\ head = 1
    /\ manifests = {}
    /\ job = [j \in Jobs |-> None]
    /\ interpretations = {}
    /\ candidates = {}
    /\ approved = None

Goto(j, work) == job' = [job EXCEPT ![j] = work]
Stop(j) == Goto(j, None)
At(j, step) == job[j] # None /\ job[j].step = step

----------------------------------------------------------------------------
(* The world: storage may fail and be restored, sources change, and reviews *)
(* move main.                                                               *)

Damage(c) ==
    /\ Cardinality(Captures \ catalogue) < MaxLost
    /\ catalogue' = catalogue \ {c}
    /\ UNCHANGED <<served, head, public, job, interpretations>>

Restore(c) ==
    /\ catalogue' = catalogue \cup {c}
    /\ UNCHANGED <<served, head, public, job, interpretations>>

Serve(r, b) ==
    /\ served' = [served EXCEPT ![r] = b]
    /\ UNCHANGED <<catalogue, head, public, job, interpretations>>

Merge ==
    /\ head + 1 \in Revisions
    /\ head' = head + 1
    /\ UNCHANGED <<catalogue, served, public, job, interpretations>>

----------------------------------------------------------------------------
(* Selecting a release.                                                     *)

Agree(d, e) == d = None \/ e = None \/ d = e

\* Reviewed bytes are required of raw approvals and bundle members only; the
\* wrapper of a semantic approval may change.
BytesApproved(config, r, b) == config[r[1]].bytes[r] \in {None, b}

Eligible(r, given, config) ==
    {c \in given : /\ About[c].source = r[1]
                   /\ Agree(About[c].date, config[r[1]].date)
                   /\ BytesApproved(config, r, About[c].bytes)}

Latest(cs) == {c \in cs : \A d \in cs : About[d].at <= About[c].at}

\* Captures of one instant with different bytes have no order.
Unambiguous(cs) == cs # {} /\ \A c, d \in Latest(cs) : About[c].bytes = About[d].bytes

\* validate_release_manifest: every and only configured resource, each with a
\* capture of its source that the review does not contradict.  Manifests of
\* version 1 also require the reviewed locator and date of the capture itself.
Valid(m, config) ==
    /\ m.config = config
    /\ \A r \in Resources :
        LET c == About[m.capture[r]] IN
        /\ c.source = r[1]
        /\ IF m.version = 1
             THEN c.locator = config[r[1]].locator[r] /\ c.date = config[r[1]].date
             ELSE Agree(c.date, config[r[1]].date)
        /\ BytesApproved(config, r, c.bytes)

Readable(m) == \A r \in Resources : m.capture[r] \in catalogue

\* Mutant: one capture may stand for several resources.
NotCompared(m) == TRUE

\* One capture stands for one resource.
Distinct(m) == \A r, q \in Resources : m.capture[r] = m.capture[q] => r = q

\* A candidate is planned over the captures that the caller has recovered; a
\* gap yields a report and no manifest.
Plan(j, given) ==
    LET config == ConfigAt(head)
        eligible == [r \in Resources |-> Eligible(r, given, config)]
        m == [version |-> 2, revision |-> head, config |-> config,
              parser |-> [s \in Sources |-> Preflight],
              projector |-> Releases[head].projector,
              capture |-> [r \in Resources |-> CHOOSE c \in Latest(eligible[r]) : TRUE]]
    IN
    /\ job[j] = None
    /\ \A r \in Resources : Unambiguous(eligible[r])
    /\ Valid(m, config)
    /\ Goto(j, [step |-> "planned", manifest |-> m])
    /\ UNCHANGED <<world, public, interpretations>>

VerifyCandidate(j) ==
    /\ At(j, "planned")
    /\ IF Readable(job[j].manifest) THEN Goto(j, [job[j] EXCEPT !.step = "verified"])
                                    ELSE Stop(j)
    /\ UNCHANGED <<world, public, interpretations>>

\* An operator's own selection names its captures and revisions.
Choose(j, selection) ==
    LET m == [version |-> 1, revision |-> head, config |-> ConfigAt(head),
              parser |-> selection.parser, projector |-> selection.projector,
              capture |-> selection.capture]
    IN
    /\ job[j] = None
    /\ Valid(m, ConfigAt(head))
    /\ Readable(m)
    /\ Distinct(m)
    /\ Goto(j, [step |-> "final", manifest |-> m])
    /\ UNCHANGED <<world, public, interpretations>>

----------------------------------------------------------------------------
(* Replaying a release.                                                     *)

SemanticsApproved(config, s, parser, bytes) ==
    config[s].semantic = None
        \/ \A r \in LabelsOf(s) : Semantics[parser][bytes[r]] = config[s].semantic

\* The gates of a source: reviewed bytes, and the reviewed meaning of them.
Gates(config, s, parser, bytes) ==
    /\ \A r \in LabelsOf(s) : BytesApproved(config, r, bytes[r])
    /\ SemanticsApproved(config, s, parser, bytes)

\* When the complete input of the source had been captured.
LatestTime(m, s) == CHOOSE t \in {About[m.capture[r]].at : r \in LabelsOf(s)} :
                      \A r \in LabelsOf(s) : About[m.capture[r]].at <= t

\* What the replay of a manifest at a revision makes of one source.
Replayed(m, v, s) ==
    [bytes |-> [r \in LabelsOf(s) |-> About[m.capture[r]].bytes],
     parser |-> Releases[v].parser[s],
     date |-> ConfigAt(v)[s].date,
     at |-> LatestTime(m, s)]

Replay(m, v) == [s \in Sources |-> Replayed(m, v, s)]
Accepts(config, row, s) == Gates(config, s, row.parser, row.bytes)

\* A candidate is replayed without persistence, and the parser revisions it
\* observed replace the placeholders.
Finalise(j) ==
    LET m == job[j].manifest
        rows == Replay(m, m.revision)
    IN
    /\ At(j, "verified")
    /\ IF /\ Valid(m, ConfigAt(m.revision))
          /\ Readable(m)
          /\ Distinct(m)
          /\ \A s \in Sources : Accepts(m.config, rows[s], s)
         THEN Goto(j, [step |-> "final",
                       manifest |-> [m EXCEPT !.parser = [s \in Sources |-> rows[s].parser]]])
         ELSE Stop(j)
    /\ UNCHANGED <<world, public, interpretations>>

\* The manifest is written to a new file and committed after review.
Commit(j) ==
    /\ At(j, "final")
    /\ Cardinality(manifests) < Limit
    /\ manifests' = manifests \cup {job[j].manifest}
    /\ Stop(j)
    /\ UNCHANGED <<world, candidates, approved, interpretations>>

\* The replay job takes a tracked manifest that pins an ancestor of main and
\* checks that revision out, with its configuration.
StartReplay(j, m) ==
    /\ job[j] = None
    /\ m \in manifests
    /\ m.revision <= head
    /\ Valid(m, ConfigAt(m.revision))
    /\ Goto(j, [step |-> "replay", manifest |-> m, runtime |-> m.revision])
    /\ UNCHANGED <<world, public, interpretations>>

\* Every pinned capture is read back before any parser sees a byte.
AcquireArchived(j) ==
    LET m == job[j].manifest IN
    /\ At(j, "replay")
    /\ IF /\ Readable(m)
          /\ Distinct(m)
          /\ \A r \in Resources : BytesApproved(ConfigAt(job[j].runtime), r,
                                                About[m.capture[r]].bytes)
         THEN Goto(j, [step |-> "parse", manifest |-> m, runtime |-> job[j].runtime, parsed |-> 0])
         ELSE Stop(j)
    /\ UNCHANGED <<world, public, interpretations>>

\* What is persisted carries the revision that the manifest names; made is the
\* revision that ran.
Interpretation(m, v, s) ==
    [source |-> s, code |-> m.revision, configuration |-> m.config[s],
     captures |-> [r \in LabelsOf(s) |-> m.capture[r]],
     parser |-> m.parser[s], made |-> Releases[v].parser[s]]

\* Mutant: a source is persisted once its approval has passed, but for the last.
AllButTheLast(m, v, n) == IF n = Len(Order) THEN {} ELSE {Interpretation(m, v, Order[n])}

Persisted(m, v, n) == {Interpretation(m, v, Order[n])}

\* The interpretation of a source is committed before its gates are evaluated;
\* a refused source leaves those before it, and itself, in the database.
ParseNext(j) ==
    LET m == job[j].manifest
        v == job[j].runtime
        n == job[j].parsed + 1
    IN
    /\ At(j, "parse") /\ n <= Len(Order)
    /\ interpretations' = interpretations \cup Persisted(m, v, n)
    /\ IF Accepts(ConfigAt(v), Replayed(m, v, Order[n]), Order[n])
         THEN Goto(j, [job[j] EXCEPT !.parsed = n])
         ELSE Stop(j)
    /\ UNCHANGED <<world, public>>

\* Mutant: only the code revision of the runtime is compared.
SameCode(m, v) == m.revision = v

\* validate_release_runtime, after restore of the declared parser revisions.
RuntimeMatches(m, v) ==
    /\ m.revision = v
    /\ m.projector = Releases[v].projector
    /\ \A s \in Sources : m.parser[s] = Releases[v].parser[s]

FinishReplay(j) ==
    LET m == job[j].manifest
        v == job[j].runtime
    IN
    /\ At(j, "parse") /\ job[j].parsed = Len(Order)
    /\ Cardinality(candidates) < Limit
    /\ candidates' = IF RuntimeMatches(m, v)
                       THEN candidates \cup {[release |-> m, config |-> ConfigAt(v),
                                              rows |-> Replay(m, v)]}
                       ELSE candidates
    /\ Stop(j)
    /\ UNCHANGED <<world, manifests, approved, interpretations>>

\* A parser or the archive raises; the database keeps what was committed.
ReplayFails(j) ==
    /\ At(j, "replay") \/ At(j, "parse")
    /\ Stop(j)
    /\ UNCHANGED <<world, public, interpretations>>

----------------------------------------------------------------------------
(* Building from what the sources serve.                                    *)

\* Mutant: an approved edition is preserved whatever the configuration says now.
ByDate(config, s, row) == row.date = config[s].date

\* An approved edition that the configuration still approves: identity and bytes
\* of a raw approval, recomputed meaning of a semantic one.
Preservable(config, s, row) ==
    /\ Scalar(s)
    /\ row.date = config[s].date
    /\ config[s].semantic = None =>
          \A r \in LabelsOf(s) : row.bytes[r] = config[s].bytes[r]
    /\ SemanticsApproved(config, s, row.parser, row.bytes)

\* The preserved scopes are chosen and checked before anything is fetched.
StartLive(j, keep) ==
    LET config == ConfigAt(head) IN
    /\ job[j] = None
    /\ keep = {} \/ approved # None
    /\ \A s \in keep : Preservable(config, s, approved.rows[s])
    /\ Goto(j, [step |-> "fetch", runtime |-> head, input |-> <<>>,
                kept |-> [s \in keep |-> approved.rows[s]]])
    /\ UNCHANGED <<world, public, interpretations>>

\* Four workers fetch: what a resource serves is read at its own moment, and
\* a failure is reported after every other fetch.
Fetch(j, r) ==
    /\ At(j, "fetch")
    /\ r \in Resources /\ r[1] \notin DOMAIN job[j].kept
    /\ r \notin DOMAIN job[j].input
    /\ Goto(j, [job[j] EXCEPT !.input = [q \in DOMAIN job[j].input \cup {r} |->
                                           IF q = r THEN served[r] ELSE job[j].input[q]]])
    /\ UNCHANGED <<world, public, interpretations>>

Fetched(input, v, s) ==
    [bytes |-> [r \in LabelsOf(s) |-> input[r]], parser |-> Releases[v].parser[s],
     date |-> ConfigAt(v)[s].date, at |-> "build"]

\* Preserved editions keep everything they had.
LiveRows(kept, input, v) ==
    [s \in Sources |-> IF s \in DOMAIN kept THEN kept[s] ELSE Fetched(input, v, s)]

FinishLive(j) ==
    LET v == job[j].runtime
        kept == job[j].kept
        rows == LiveRows(kept, job[j].input, v)
    IN
    /\ At(j, "fetch")
    /\ \A r \in Resources : r[1] \in DOMAIN kept \/ r \in DOMAIN job[j].input
    /\ Cardinality(candidates) < Limit
    /\ candidates' =
         IF \A s \in Sources \ DOMAIN kept : Accepts(ConfigAt(v), rows[s], s)
           THEN candidates \cup {[release |-> None, config |-> ConfigAt(v), rows |-> rows]}
           ELSE candidates
    /\ Stop(j)
    /\ UNCHANGED <<world, manifests, approved, interpretations>>

LiveFails(j) ==
    /\ At(j, "fetch")
    /\ Stop(j)
    /\ UNCHANGED <<world, public, interpretations>>

\* A live candidate that was reviewed becomes the approved public snapshot.
Promote(c) ==
    /\ c \in candidates /\ c.release = None
    /\ approved' = c
    /\ candidates' = candidates \ {c}
    /\ UNCHANGED <<world, manifests, job, interpretations>>

----------------------------------------------------------------------------
World ==
    \/ \E c \in Captures : Damage(c) \/ Restore(c)
    \/ \E r \in Resources : \E b \in Bytes[r] : Serve(r, b)
    \/ Merge
    \/ \E c \in candidates : Promote(c)

Step(j) ==
    \/ \E given \in SUBSET catalogue : Plan(j, given)
    \/ \E selection \in Selections : Choose(j, selection)
    \/ VerifyCandidate(j) \/ Finalise(j) \/ Commit(j)
    \/ \E m \in manifests : StartReplay(j, m)
    \/ AcquireArchived(j) \/ ParseNext(j) \/ FinishReplay(j) \/ ReplayFails(j)
    \/ \E keep \in SUBSET Sources : StartLive(j, keep)
    \/ \E r \in Resources : Fetch(j, r)
    \/ FinishLive(j) \/ LiveFails(j)

Next == World \/ \E j \in Jobs : Step(j)

Spec == Init /\ [][Next]_vars
=============================================================================
