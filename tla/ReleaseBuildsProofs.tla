-------------------------- MODULE ReleaseBuildsProofs --------------------------
(***************************************************************************)
(* The properties of ReleaseBuildsProperties for any sources, captures,     *)
(* revisions and jobs.  The invariant says what a job knows at each step:   *)
(* what it holds was checked against the configuration of the revision it   *)
(* works at, and neither main nor the archive can change that afterwards.   *)
(***************************************************************************)
EXTENDS ReleaseBuildsProperties, TLAPS

\* A manifest with the configuration of its revision.
Configured(m) ==
    /\ m = [version |-> m.version, revision |-> m.revision, config |-> m.config,
            parser |-> m.parser, projector |-> m.projector, capture |-> m.capture]
    /\ m.config = ConfigAt(m.revision)

Approves(config, s, row) ==
    /\ Gates(config, s, row.parser, row.bytes)
    /\ row.date = config[s].date

InterpretedTo(m, v, n, committed) ==
    \A i \in 1 .. n :
        /\ Interpretation(m, v, Order[i]) \in committed
        /\ Accepts(ConfigAt(v), Replayed(m, v, Order[i]), Order[i])

Planning(w) ==
    w.step \in {"planned", "verified", "final"} =>
        /\ w = [step |-> w.step, manifest |-> w.manifest]
        /\ Configured(w.manifest)
        /\ w.step = "final" => Distinct(w.manifest)

Replaying(w) ==
    w.step \in {"replay", "parse"} =>
        /\ Configured(w.manifest)
        /\ w.runtime = w.manifest.revision

Parsing(w, committed) ==
    w.step = "parse" =>
        /\ w = [step |-> w.step, manifest |-> w.manifest, runtime |-> w.runtime, parsed |-> w.parsed]
        /\ w.parsed \in Nat
        /\ \A r \in Resources : w.manifest.capture[r] \in Captures
        /\ InterpretedTo(w.manifest, w.runtime, w.parsed, committed)

Fetching(w) ==
    w.step = "fetch" =>
        /\ w = [step |-> w.step, runtime |-> w.runtime, input |-> w.input, kept |-> w.kept]
        /\ \A s \in DOMAIN w.kept : Approves(ConfigAt(w.runtime), s, w.kept[s])

\* What a job holds, given what is committed.
Holds(w, committed) == Planning(w) /\ Replaying(w) /\ Parsing(w, committed) /\ Fetching(w)

Pinned(c) ==
    LET m == c.release IN
    /\ c.config = m.config /\ m.config = ConfigAt(m.revision)
    /\ m.projector = Releases[m.revision].projector
    /\ \A s \in Sources :
        /\ c.rows[s].parser = m.parser[s]
        /\ m.parser[s] = Releases[m.revision].parser[s]
        /\ \A r \in LabelsOf(s) :
            /\ c.rows[s].bytes[r] = About[m.capture[r]].bytes
            /\ About[m.capture[r]].at <= c.rows[s].at

Backed(c, committed) ==
    LET m == c.release IN
    \A s \in Sources : \E i \in committed :
        /\ i.source = s /\ i.code = m.revision /\ i.parser = m.parser[s]
        /\ i.captures = [r \in LabelsOf(s) |-> m.capture[r]]
        /\ i.made = i.parser

\* What a candidate shows, given what is committed.
Stands(c, committed) ==
    /\ \A s \in Sources : Approves(c.config, s, c.rows[s])
    /\ c.release # None => Pinned(c) /\ Backed(c, committed)

JobsHold == \A j \in Jobs : job[j] # None => Holds(job[j], interpretations)

IInv ==
    /\ job = [j \in Jobs |-> job[j]]
    /\ catalogue \subseteq Captures
    /\ head \in Revisions
    /\ \A m \in manifests : Configured(m) /\ Distinct(m)
    /\ JobsHold
    /\ \A c \in Shown : Stands(c, interpretations)

----------------------------------------------------------------------------
\* Committed interpretations stay, and so does what rests on them.
LEMMA HoldsStays ==
    ASSUME NEW w, NEW A, NEW B, A \subseteq B, Holds(w, A)
    PROVE  Holds(w, B)
BY DEF Holds, Parsing, InterpretedTo

LEMMA StandsStays ==
    ASSUME NEW c, NEW A, NEW B, A \subseteq B, Stands(c, A)
    PROVE  Stands(c, B)
BY DEF Stands, Backed

\* One job works on: the others hold what they held.
LEMMA JobStep ==
    ASSUME IInv, NEW j \in Jobs, NEW w, Goto(j, w),
           interpretations \subseteq interpretations',
           w # None => Holds(w, interpretations')
    PROVE  job' = [k \in Jobs |-> job'[k]] /\ JobsHold'
<1>1. job' = [k \in Jobs |-> IF k = j THEN w ELSE job[k]]
  BY DEF IInv, Goto
<1>2. ASSUME NEW k \in Jobs, job'[k] # None PROVE Holds(job'[k], interpretations')
  <2>1. CASE k = j
    BY <1>1, <1>2, <2>1
  <2>2. CASE k # j
    <3>1. job'[k] = job[k]
      BY <1>1, <2>2
    <3>2. Holds(job[k], interpretations)
      BY <1>2, <3>1 DEF IInv, JobsHold
    <3>3. Holds(job[k], interpretations')
      BY <3>2, HoldsStays
    <3> QED
      BY <3>1, <3>3
  <2> QED
    BY <2>1, <2>2
<1> QED
  BY <1>1, <1>2 DEF JobsHold

LEMMA NothingHeld ==
    ASSUME NEW w, NEW A, w.step \notin {"planned", "verified", "final", "replay", "parse", "fetch"}
    PROVE  Holds(w, A)
BY DEF Holds, Planning, Replaying, Parsing, Fetching

\* Readers see nothing new.
LEMMA ShownStays ==
    ASSUME IInv, candidates' \subseteq candidates, approved' \in candidates \cup {approved},
           interpretations \subseteq interpretations'
    PROVE  \A c \in Shown' : Stands(c, interpretations')
<1>1. Shown' \subseteq Shown
  BY DEF Shown
<1> QED
  BY <1>1, StandsStays DEF IInv

\* Readers see one more candidate.
LEMMA ShownGrows ==
    ASSUME IInv, NEW c, candidates' \subseteq candidates \cup {c}, approved' = approved,
           interpretations' = interpretations, Stands(c, interpretations)
    PROVE  \A d \in Shown' : Stands(d, interpretations')
BY DEF Shown, IInv

----------------------------------------------------------------------------
\* The members of a complete input are not younger than its time.
LEMMA LatestOf ==
    ASSUME NEW m, NEW s \in Sources, \A r \in Resources : m.capture[r] \in Captures,
           NEW r \in LabelsOf(s)
    PROVE  About[m.capture[r]].at <= LatestTime(m, s)
<1> DEFINE f == [q \in Resources |-> m.capture[q]]
<1>1. f \in [Resources -> Captures]
  OBVIOUS
<1>2. PICK x \in LabelsOf(s) : \A q \in LabelsOf(s) : About[f[q]].at <= About[f[x]].at
  BY <1>1, ReleaseAssumption
<1>3. \A q \in LabelsOf(s) : f[q] = m.capture[q]
  BY DEF LabelsOf
<1>4. \E t \in {About[m.capture[q]].at : q \in LabelsOf(s)} :
        \A q \in LabelsOf(s) : About[m.capture[q]].at <= t
  BY <1>2, <1>3
<1> QED
  BY <1>4 DEF LatestTime

\* A source of an accepted replay shows what the manifest pins.
LEMMA ReplayedRow ==
    ASSUME NEW m, NEW v, NEW s \in Sources
    PROVE  /\ Replay(m, v)[s] = Replayed(m, v, s)
           /\ Replayed(m, v, s).parser = Releases[v].parser[s]
           /\ Replayed(m, v, s).date = ConfigAt(v)[s].date
           /\ Replayed(m, v, s).at = LatestTime(m, s)
           /\ \A r \in LabelsOf(s) : Replayed(m, v, s).bytes[r] = About[m.capture[r]].bytes
BY DEF Replay, Replayed

LEMMA InterpretationFields ==
    ASSUME NEW m, NEW v, NEW s
    PROVE  /\ Interpretation(m, v, s).source = s
           /\ Interpretation(m, v, s).code = m.revision
           /\ Interpretation(m, v, s).parser = m.parser[s]
           /\ Interpretation(m, v, s).captures = [r \in LabelsOf(s) |-> m.capture[r]]
           /\ Interpretation(m, v, s).made = Releases[v].parser[s]
BY DEF Interpretation

LEMMA ReplayStands ==
    ASSUME NEW m, Configured(m), \A r \in Resources : m.capture[r] \in Captures,
           NEW v, v = m.revision, RuntimeMatches(m, v),
           InterpretedTo(m, v, Len(Order), interpretations)
    PROVE  Stands([release |-> m, config |-> ConfigAt(v), rows |-> Replay(m, v)], interpretations)
<1> DEFINE c == [release |-> m, config |-> ConfigAt(v), rows |-> Replay(m, v)]
<1>1. ASSUME NEW s \in Sources
      PROVE  /\ Interpretation(m, v, s) \in interpretations
             /\ Accepts(ConfigAt(v), Replayed(m, v, s), s)
  <2>1. PICK n \in DOMAIN Order : s = Order[n]
    BY DEF Sources
  <2>2. n \in 1 .. Len(Order)
    BY ReleaseAssumption
  <2> QED
    BY <2>1, <2>2 DEF InterpretedTo
<1>2. c.release = m /\ c.config = ConfigAt(v) /\ c.rows = Replay(m, v)
  OBVIOUS
<1>3. ASSUME NEW s \in Sources PROVE Approves(c.config, s, c.rows[s])
  BY <1>1, <1>2, ReplayedRow DEF Approves, Accepts
<1>4. Pinned(c)
  <2>1. c.config = m.config /\ m.config = ConfigAt(m.revision)
    BY <1>2 DEF Configured
  <2>2. m.projector = Releases[m.revision].projector
    BY DEF RuntimeMatches
  <2>3. ASSUME NEW s \in Sources
        PROVE  /\ c.rows[s].parser = m.parser[s]
               /\ m.parser[s] = Releases[m.revision].parser[s]
    BY <1>2, ReplayedRow DEF RuntimeMatches
  <2>4. ASSUME NEW s \in Sources, NEW r \in LabelsOf(s)
        PROVE  /\ c.rows[s].bytes[r] = About[m.capture[r]].bytes
               /\ About[m.capture[r]].at <= c.rows[s].at
    BY <1>2, ReplayedRow, LatestOf
  <2> QED
    BY <1>2, <2>1, <2>2, <2>3, <2>4 DEF Pinned
<1>5. Backed(c, interpretations)
  <2>1. ASSUME NEW s \in Sources
        PROVE  \E i \in interpretations :
                  /\ i.source = s /\ i.code = m.revision /\ i.parser = m.parser[s]
                  /\ i.captures = [r \in LabelsOf(s) |-> m.capture[r]]
                  /\ i.made = i.parser
    BY <1>1, InterpretationFields DEF RuntimeMatches
  <2> QED
    BY <1>2, <2>1 DEF Backed
<1> QED
  BY <1>2, <1>3, <1>4, <1>5 DEF Stands

----------------------------------------------------------------------------
\* A preserved edition is approved by the configuration it is preserved under.
LEMMA PreservedIsApproved ==
    ASSUME NEW v \in Revisions, NEW s \in Sources, NEW row, Preservable(ConfigAt(v), s, row)
    PROVE  Approves(ConfigAt(v), s, row)
<1>1. ASSUME NEW r \in LabelsOf(s)
      PROVE  BytesApproved(ConfigAt(v), r, row.bytes[r])
  <2>1. r[1] = s
    BY DEF LabelsOf
  <2>2. ConfigAt(v)[s].bytes[r] \in {None, row.bytes[r]}
    <3>1. CASE ConfigAt(v)[s].semantic = None
      BY <3>1 DEF Preservable
    <3>2. CASE ConfigAt(v)[s].semantic # None
      BY <3>2, ReleaseAssumption DEF Preservable
    <3> QED
      BY <3>1, <3>2
  <2> QED
    BY <2>1, <2>2 DEF BytesApproved
<1> QED
  BY <1>1 DEF Approves, Gates, Preservable

\* What a job learns without touching anything shared.
LEMMA PrivateStep ==
    ASSUME IInv, NEW j \in Jobs, NEW w, Goto(j, w),
           UNCHANGED <<world, public, interpretations>>,
           w # None => Holds(w, interpretations)
    PROVE  IInv'
<1>1. catalogue' = catalogue /\ head' = head /\ manifests' = manifests
      /\ candidates' = candidates /\ approved' = approved /\ interpretations' = interpretations
  BY DEF world, public
<1>2. job' = [k \in Jobs |-> job'[k]] /\ JobsHold'
  BY <1>1, JobStep
<1>3. \A c \in Shown' : Stands(c, interpretations')
  BY <1>1, ShownStays
<1> QED
  BY <1>1, <1>2, <1>3 DEF IInv

\* The world moves, the jobs and the database do not.
LEMMA WorldStep ==
    ASSUME IInv, catalogue' \subseteq Captures, head' \in Revisions, manifests' = manifests,
           candidates' \subseteq candidates, approved' \in candidates \cup {approved},
           job' = job, interpretations' = interpretations
    PROVE  IInv'
<1>1. \A c \in Shown' : Stands(c, interpretations')
  BY ShownStays
<1>2. JobsHold'
  BY DEF IInv, JobsHold
<1> QED
  BY <1>1, <1>2 DEF IInv

\* A job of the invariant at a step holds what the invariant says.
LEMMA AtStep ==
    ASSUME IInv, NEW j \in Jobs, NEW step, At(j, step)
    PROVE  Holds(job[j], interpretations) /\ job[j].step = step
BY DEF IInv, JobsHold, At

LEMMA WorldInv == ASSUME IInv, World PROVE IInv'
<1>1. CASE \E c \in Captures : Damage(c) \/ Restore(c)
  <2>1. PICK c \in Captures : Damage(c) \/ Restore(c)
    BY <1>1
  <2>2. catalogue' \subseteq Captures
    BY <2>1 DEF Damage, Restore, IInv
  <2> QED
    BY <2>1, <2>2, WorldStep DEF Damage, Restore, public, IInv
<1>2. CASE \E r \in Resources : \E b \in Bytes[r] : Serve(r, b)
  BY <1>2, WorldStep DEF Serve, public, IInv
<1>3. CASE Merge
  BY <1>3, WorldStep DEF Merge, public, IInv
<1>4. CASE \E c \in candidates : Promote(c)
  BY <1>4, WorldStep DEF Promote, world, IInv
<1> QED
  BY <1>1, <1>2, <1>3, <1>4 DEF World

----------------------------------------------------------------------------
\* Selection: a job holds a manifest with the configuration of its revision.
LEMMA Selected ==
    ASSUME NEW m, Configured(m), NEW step \in {"planned", "verified", "final"},
           step = "final" => Distinct(m), NEW A
    PROVE  Holds([step |-> step, manifest |-> m], A)
BY DEF Holds, Planning, Replaying, Parsing, Fetching

LEMMA PlanInv ==
    ASSUME IInv, NEW j \in Jobs, NEW given, Plan(j, given)
    PROVE  IInv'
<1> DEFINE config == ConfigAt(head)
           eligible == [r \in Resources |-> Eligible(r, given, config)]
           m == [version |-> 2, revision |-> head, config |-> config,
                 parser |-> [s \in Sources |-> Preflight],
                 projector |-> Releases[head].projector,
                 capture |-> [r \in Resources |-> CHOOSE c \in Latest(eligible[r]) : TRUE]]
           w == [step |-> "planned", manifest |-> m]
<1>1. Goto(j, w) /\ UNCHANGED <<world, public, interpretations>>
  BY DEF Plan
<1>2. Configured(m)
  BY DEF Configured
<1>3. Holds(w, interpretations)
  <2> HIDE DEF m
  <2> QED
    BY <1>2, Selected
<1> HIDE DEF w
<1> QED
  BY <1>1, <1>3, PrivateStep

LEMMA ChooseInv ==
    ASSUME IInv, NEW j \in Jobs, NEW selection, Choose(j, selection)
    PROVE  IInv'
<1> DEFINE m == [version |-> 1, revision |-> head, config |-> ConfigAt(head),
                 parser |-> selection.parser, projector |-> selection.projector,
                 capture |-> selection.capture]
           w == [step |-> "final", manifest |-> m]
<1>1. Goto(j, w) /\ Distinct(m) /\ UNCHANGED <<world, public, interpretations>>
  BY DEF Choose
<1>2. Configured(m)
  BY DEF Configured
<1>3. Holds(w, interpretations)
  <2> HIDE DEF m
  <2> QED
    BY <1>1, <1>2, Selected
<1> HIDE DEF w
<1> QED
  BY <1>1, <1>3, PrivateStep

\* A job that ends, or goes nowhere, holds nothing new.
LEMMA StopInv ==
    ASSUME IInv, NEW j \in Jobs, Stop(j), UNCHANGED <<world, public, interpretations>>
    PROVE  IInv'
BY PrivateStep DEF Stop

LEMMA VerifyInv ==
    ASSUME IInv, NEW j \in Jobs, VerifyCandidate(j)
    PROVE  IInv'
<1> DEFINE m == job[j].manifest
           w == [step |-> "verified", manifest |-> m]
<1>1. Holds(job[j], interpretations) /\ job[j].step = "planned"
  BY AtStep DEF VerifyCandidate
<1>2. Configured(m) /\ job[j] = [step |-> job[j].step, manifest |-> m]
  BY <1>1 DEF Holds, Planning
<1>3. [job[j] EXCEPT !.step = "verified"] = w
  BY <1>2
<1>4. Holds(w, interpretations)
  BY <1>2, Selected
<1>5. CASE Goto(j, w)
  <2> HIDE DEF w
  <2> QED
    BY <1>4, <1>5, PrivateStep DEF VerifyCandidate
<1>6. CASE Stop(j)
  BY <1>6, StopInv DEF VerifyCandidate
<1> QED
  BY <1>3, <1>5, <1>6 DEF VerifyCandidate

LEMMA FinaliseInv ==
    ASSUME IInv, NEW j \in Jobs, Finalise(j)
    PROVE  IInv'
<1> DEFINE m == job[j].manifest
           parsers == [s \in Sources |-> Replay(m, m.revision)[s].parser]
           final == [m EXCEPT !.parser = parsers]
           w == [step |-> "final", manifest |-> final]
<1>1. Holds(job[j], interpretations) /\ job[j].step = "verified"
  BY AtStep DEF Finalise
<1>2. Configured(m)
  BY <1>1 DEF Holds, Planning
<1>3. CASE Stop(j)
  BY <1>3, StopInv DEF Finalise
<1>4. CASE Distinct(m) /\ Goto(j, w)
  <2> HIDE DEF parsers
  <2>1. final = [version |-> m.version, revision |-> m.revision, config |-> m.config,
                 parser |-> parsers, projector |-> m.projector, capture |-> m.capture]
    BY <1>2 DEF Configured
  <2>2. Configured(final)
    BY <1>2, <2>1 DEF Configured
  <2>3. Distinct(final)
    BY <1>4, <2>1 DEF Distinct
  <2> HIDE DEF final
  <2>4. Holds(w, interpretations)
    BY <2>2, <2>3, Selected
  <2> HIDE DEF w
  <2> QED
    BY <1>4, <2>4, PrivateStep DEF Finalise
<1> QED
  BY <1>3, <1>4 DEF Finalise

LEMMA CommitInv ==
    ASSUME IInv, NEW j \in Jobs, Commit(j)
    PROVE  IInv'
<1>1. Holds(job[j], interpretations) /\ job[j].step = "final"
  BY AtStep DEF Commit
<1>2. Configured(job[j].manifest) /\ Distinct(job[j].manifest)
  BY <1>1 DEF Holds, Planning
<1>3. \A m \in manifests' : Configured(m) /\ Distinct(m)
  BY <1>2 DEF Commit, IInv
<1>4. job' = [k \in Jobs |-> job'[k]] /\ JobsHold'
  BY JobStep DEF Commit, Stop
<1>5. \A c \in Shown' : Stands(c, interpretations')
  BY ShownStays DEF Commit
<1> QED
  BY <1>3, <1>4, <1>5 DEF IInv, Commit, world

----------------------------------------------------------------------------
\* Replay: a job holds a manifest and the revision it names.
LEMMA StartReplayInv ==
    ASSUME IInv, NEW j \in Jobs, NEW m \in manifests, StartReplay(j, m)
    PROVE  IInv'
<1> DEFINE w == [step |-> "replay", manifest |-> m, runtime |-> m.revision]
<1>1. Holds(w, interpretations)
  <2>1. Configured(m)
    BY DEF IInv
  <2> QED
    BY <2>1 DEF Holds, Planning, Replaying, Parsing, Fetching
<1>2. Goto(j, w) /\ UNCHANGED <<world, public, interpretations>>
  BY DEF StartReplay
<1> HIDE DEF w
<1> QED
  BY <1>1, <1>2, PrivateStep

LEMMA AcquireInv ==
    ASSUME IInv, NEW j \in Jobs, AcquireArchived(j)
    PROVE  IInv'
<1> DEFINE m == job[j].manifest
           w == [step |-> "parse", manifest |-> m, runtime |-> job[j].runtime, parsed |-> 0]
<1>1. Holds(job[j], interpretations) /\ job[j].step = "replay"
  BY AtStep DEF AcquireArchived
<1>2. Configured(m) /\ job[j].runtime = m.revision
  BY <1>1 DEF Holds, Replaying
<1>3. CASE Stop(j)
  BY <1>3, StopInv DEF AcquireArchived
<1>4. CASE Readable(m) /\ Goto(j, w)
  <2>1. \A r \in Resources : m.capture[r] \in Captures
    BY <1>4 DEF Readable, IInv
  <2>2. InterpretedTo(m, job[j].runtime, 0, interpretations)
    BY DEF InterpretedTo
  <2>3. Holds(w, interpretations)
    BY <1>2, <2>1, <2>2 DEF Holds, Planning, Replaying, Parsing, Fetching
  <2> HIDE DEF w
  <2> QED
    BY <1>4, <2>3, PrivateStep DEF AcquireArchived
<1> QED
  BY <1>3, <1>4 DEF AcquireArchived

LEMMA ParseInv ==
    ASSUME IInv, NEW j \in Jobs, ParseNext(j)
    PROVE  IInv'
<1> DEFINE m == job[j].manifest
           v == job[j].runtime
           n == job[j].parsed + 1
           w == [step |-> "parse", manifest |-> m, runtime |-> v, parsed |-> n]
<1>1. Holds(job[j], interpretations) /\ job[j].step = "parse"
  BY AtStep DEF ParseNext
<1>2. /\ Configured(m) /\ v = m.revision
      /\ job[j] = [step |-> job[j].step, manifest |-> m, runtime |-> v, parsed |-> job[j].parsed]
      /\ job[j].parsed \in Nat
      /\ \A r \in Resources : m.capture[r] \in Captures
      /\ InterpretedTo(m, v, job[j].parsed, interpretations)
  BY <1>1 DEF Holds, Replaying, Parsing
<1>3. interpretations \subseteq interpretations' /\ Interpretation(m, v, Order[n]) \in interpretations'
  BY DEF ParseNext, Persisted
<1>4. \A c \in Shown' : Stands(c, interpretations')
  BY <1>3, ShownStays DEF ParseNext, public
<1>5. job' = [k \in Jobs |-> job'[k]] /\ JobsHold'
  <2>1. CASE Stop(j)
    BY <1>3, <2>1, JobStep DEF Stop
  <2>2. CASE /\ Accepts(ConfigAt(v), Replayed(m, v, Order[n]), Order[n])
             /\ Goto(j, [job[j] EXCEPT !.parsed = n])
    <3>1. [job[j] EXCEPT !.parsed = n] = w
      BY <1>1, <1>2
    <3>2. InterpretedTo(m, v, n, interpretations')
      BY <1>2, <1>3, <2>2 DEF InterpretedTo
    <3>3. Holds(w, interpretations')
      BY <1>2, <3>2 DEF Holds, Planning, Replaying, Parsing, Fetching
    <3>4. Goto(j, w)
      BY <2>2, <3>1
    <3> HIDE DEF w
    <3> QED
      BY <1>3, <3>3, <3>4, JobStep
  <2> QED
    BY <2>1, <2>2 DEF ParseNext
<1> QED
  BY <1>4, <1>5 DEF IInv, ParseNext, world, public

\* Two jobs' candidates may arrive in any order: each rests on its own job.
LEMMA CandidateInv ==
    ASSUME IInv, NEW j \in Jobs, NEW c, candidates' \subseteq candidates \cup {c}, Stop(j),
           Stands(c, interpretations) \/ candidates' = candidates,
           UNCHANGED <<world, manifests, approved, interpretations>>
    PROVE  IInv'
<1>1. \A d \in Shown' : Stands(d, interpretations')
  <2>1. CASE Stands(c, interpretations)
    BY <2>1, ShownGrows
  <2>2. CASE candidates' = candidates
    BY <2>2, ShownStays
  <2> QED
    BY <2>1, <2>2
<1>2. job' = [k \in Jobs |-> job'[k]] /\ JobsHold'
  BY JobStep DEF Stop
<1> QED
  BY <1>1, <1>2 DEF IInv, world

LEMMA FinishReplayInv ==
    ASSUME IInv, NEW j \in Jobs, FinishReplay(j)
    PROVE  IInv'
<1> DEFINE m == job[j].manifest
           v == job[j].runtime
           c == [release |-> m, config |-> ConfigAt(v), rows |-> Replay(m, v)]
<1>1. Holds(job[j], interpretations) /\ job[j].step = "parse"
  BY AtStep DEF FinishReplay
<1>2. /\ Configured(m) /\ v = m.revision
      /\ \A r \in Resources : m.capture[r] \in Captures
      /\ InterpretedTo(m, v, Len(Order), interpretations)
  BY <1>1 DEF Holds, Replaying, Parsing, FinishReplay
<1>3. CASE RuntimeMatches(m, v)
  <2>1. Stands(c, interpretations)
    BY <1>2, <1>3, ReplayStands
  <2>2. candidates' = candidates \cup {c}
    BY <1>3 DEF FinishReplay
  <2> HIDE DEF c
  <2> QED
    BY <2>1, <2>2, CandidateInv DEF FinishReplay
<1>4. CASE ~RuntimeMatches(m, v)
  BY <1>4, CandidateInv DEF FinishReplay
<1> QED
  BY <1>3, <1>4

----------------------------------------------------------------------------
\* Live builds: what is preserved is approved before anything is fetched, what
\* is fetched when it is complete.
LEMMA StartLiveInv ==
    ASSUME IInv, NEW j \in Jobs, NEW keep \in SUBSET Sources, StartLive(j, keep)
    PROVE  IInv'
<1> DEFINE kept == [s \in keep |-> approved.rows[s]]
           w == [step |-> "fetch", runtime |-> head, input |-> <<>>, kept |-> kept]
<1>1. \A s \in DOMAIN kept : Approves(ConfigAt(head), s, kept[s])
  BY PreservedIsApproved DEF StartLive, IInv
<1>2. Goto(j, w) /\ UNCHANGED <<world, public, interpretations>>
  BY DEF StartLive
<1>3. Holds(w, interpretations)
  <2> HIDE DEF kept
  <2> QED
    BY <1>1 DEF Holds, Planning, Replaying, Parsing, Fetching
<1> HIDE DEF w
<1> QED
  BY <1>2, <1>3, PrivateStep

LEMMA FetchInv ==
    ASSUME IInv, NEW j \in Jobs, NEW r, Fetch(j, r)
    PROVE  IInv'
<1> DEFINE input == [q \in DOMAIN job[j].input \cup {r} |->
                       IF q = r THEN served[r] ELSE job[j].input[q]]
<1> HIDE DEF input
<1> DEFINE w == [step |-> "fetch", runtime |-> job[j].runtime, input |-> input,
                 kept |-> job[j].kept]
<1>1. Holds(job[j], interpretations) /\ job[j].step = "fetch"
  BY AtStep DEF Fetch
<1>2. /\ job[j] = [step |-> job[j].step, runtime |-> job[j].runtime, input |-> job[j].input,
                   kept |-> job[j].kept]
      /\ \A s \in DOMAIN job[j].kept : Approves(ConfigAt(job[j].runtime), s, job[j].kept[s])
  BY <1>1 DEF Holds, Fetching
<1>3. [job[j] EXCEPT !.input = input] = w
  BY <1>1, <1>2
<1>4. Goto(j, w) /\ UNCHANGED <<world, public, interpretations>>
  BY <1>3 DEF Fetch, input
<1>5. Holds(w, interpretations)
  BY <1>2 DEF Holds, Planning, Replaying, Parsing, Fetching
<1> HIDE DEF w
<1> QED
  BY <1>4, <1>5, PrivateStep

LEMMA FinishLiveInv ==
    ASSUME IInv, NEW j \in Jobs, FinishLive(j)
    PROVE  IInv'
<1> DEFINE v == job[j].runtime
           kept == job[j].kept
           rows == LiveRows(kept, job[j].input, v)
           c == [release |-> None, config |-> ConfigAt(v), rows |-> rows]
           Passes == \A s \in Sources \ DOMAIN kept : Accepts(ConfigAt(v), rows[s], s)
<1>1. Holds(job[j], interpretations) /\ job[j].step = "fetch"
  BY AtStep DEF FinishLive
<1>2. \A s \in DOMAIN kept : Approves(ConfigAt(v), s, kept[s])
  BY <1>1 DEF Holds, Fetching
<1>3. CASE Passes
  <2>1. ASSUME NEW s \in Sources PROVE Approves(ConfigAt(v), s, rows[s])
    <3>1. CASE s \in DOMAIN kept
      <4>1. rows[s] = kept[s]
        BY <3>1 DEF LiveRows
      <4> QED
        BY <1>2, <3>1, <4>1
    <3>2. CASE s \notin DOMAIN kept
      <4>1. rows[s].date = ConfigAt(v)[s].date
        BY <3>2 DEF LiveRows, Fetched
      <4>2. Accepts(ConfigAt(v), rows[s], s)
        BY <1>3, <3>2
      <4> QED
        BY <4>1, <4>2 DEF Approves, Accepts
    <3> QED
      BY <3>1, <3>2
  <2>2. candidates' = candidates \cup {c}
    BY <1>3 DEF FinishLive
  <2>3. Stands(c, interpretations)
    <3> HIDE DEF rows
    <3> QED
      BY <2>1 DEF Stands
  <2> HIDE DEF c
  <2> QED
    BY <2>2, <2>3, CandidateInv DEF FinishLive
<1>4. CASE ~Passes
  BY <1>4, CandidateInv DEF FinishLive
<1> QED
  BY <1>3, <1>4

----------------------------------------------------------------------------
LEMMA StepInv == ASSUME IInv, NEW j \in Jobs, Step(j) PROVE IInv'
<1>1. CASE \E given \in SUBSET catalogue : Plan(j, given)
  BY <1>1, PlanInv
<1>2. CASE \E selection \in Selections : Choose(j, selection)
  BY <1>2, ChooseInv
<1>3. CASE VerifyCandidate(j) \/ Finalise(j) \/ Commit(j)
  BY <1>3, VerifyInv, FinaliseInv, CommitInv
<1>4. CASE \E m \in manifests : StartReplay(j, m)
  BY <1>4, StartReplayInv
<1>5. CASE AcquireArchived(j) \/ ParseNext(j) \/ FinishReplay(j)
  BY <1>5, AcquireInv, ParseInv, FinishReplayInv
<1>6. CASE ReplayFails(j) \/ LiveFails(j)
  BY <1>6, StopInv DEF ReplayFails, LiveFails
<1>7. CASE \E keep \in SUBSET Sources : StartLive(j, keep)
  BY <1>7, StartLiveInv
<1>8. CASE (\E r \in Resources : Fetch(j, r)) \/ FinishLive(j)
  BY <1>8, FetchInv, FinishLiveInv
<1> QED
  BY <1>1, <1>2, <1>3, <1>4, <1>5, <1>6, <1>7, <1>8 DEF Step

LEMMA InitInv == Init => IInv
<1> SUFFICES ASSUME Init PROVE IInv
  OBVIOUS
<1>1. head \in Revisions
  BY ReleaseAssumption DEF Init
<1>2. JobsHold
  BY DEF Init, JobsHold
<1>3. Shown = {}
  BY DEF Init, Shown
<1> QED
  BY <1>1, <1>2, <1>3 DEF Init, IInv

LEMMA NextInv == IInv /\ [Next]_vars => IInv'
<1> SUFFICES ASSUME IInv, [Next]_vars PROVE IInv'
  OBVIOUS
<1>1. CASE Next
  BY <1>1, WorldInv, StepInv DEF Next
<1>2. CASE UNCHANGED vars
  BY <1>2, WorldStep DEF vars, world, public, IInv
<1> QED
  BY <1>1, <1>2

\* What a job and a candidate know stays true, whatever the world does.
THEOREM JobsKnow == Spec => []IInv
BY InitInv, NextInv, PTL DEF Spec

\* A replayed candidate shows what its release pins, for any number of
\* revisions, captures and concurrent jobs.
THEOREM ReplaysArePinned == Spec => []CandidatesArePinned
<1>1. IInv => CandidatesArePinned
  BY DEF IInv, Stands, Pinned, CandidatesArePinned
<1> QED
  BY <1>1, JobsKnow, PTL

\* Nothing is shown that the configuration it was made under does not approve,
\* preserved editions included.
THEOREM OnlyApprovedIsShown == Spec => []CandidatesAreApproved
<1>1. IInv => CandidatesAreApproved
  BY DEF IInv, Stands, Approves, CandidatesAreApproved
<1> QED
  BY <1>1, JobsKnow, PTL

\* No committed manifest pins one capture twice.
THEOREM CapturesAreNotShared == Spec => []OneCapturePerResource
<1>1. IInv => OneCapturePerResource
  BY DEF IInv, Distinct, OneCapturePerResource
<1> QED
  BY <1>1, JobsKnow, PTL

\* A replayed candidate has its interpretations in the database, under the
\* parsers that made them.
THEOREM ReplaysArePersisted == Spec => []PersistedBeforeAccepted
<1>1. IInv => PersistedBeforeAccepted
  BY DEF IInv, Stands, Backed, PersistedBeforeAccepted
<1> QED
  BY <1>1, JobsKnow, PTL
=============================================================================
