-------------------------- MODULE ParseSnapshotsProofs --------------------------
(***************************************************************************)
(* Proofs, for every set of sessions, attempts and outputs, of what        *)
(* MCParseSnapshots checks on small instances.                             *)
(***************************************************************************)
EXTENDS ParseSnapshotsProperties, NaturalLemmas

\* What is committed.
Ledger == /\ OneOutputPerInterpretation
          /\ LinksFit
          /\ InterpretationsAreAttributed
          /\ ReportsStand
          /\ RefusalsJustified

\* What is committed and what running sessions know of it, together inductive.
IInv == TypeOK /\ Ledger /\ SessionEvidence

----------------------------------------------------------------------------
\* The inputs of an attempt.
LEMMA AttemptShape ==
    ASSUME NEW a \in Attempts
    PROVE  /\ a.inputs \in Seq(Captures)
           /\ Len(a.inputs) \in Nat /\ Len(a.inputs) # 0
           /\ Labels(a) = 1 .. Len(a.inputs)
           /\ \A i \in Labels(a) : a.inputs[i] \in Captures
           /\ a # None
BY AttemptsAreWellFormed, NoneIsNothing DEF Labels

LEMMA CodeFields ==
    ASSUME NEW a
    PROVE  /\ Code(a).contents = Contents(a.inputs)
           /\ Code(a).recipe = a.recipe
           /\ Code(a).revision = a.revision
           /\ DOMAIN Contents(a.inputs) = Labels(a)
           /\ \A i \in Labels(a) : Contents(a.inputs)[i] = ContentOf[a.inputs[i]]
BY DEF Code, Contents, Labels

LEMMA RunShape ==
    ASSUME NEW r \in Runs
    PROVE  /\ r = [code |-> r.code, output |-> r.output]
           /\ \E b \in Attempts : r.code = Code(b)
           /\ r # None
           /\ r.output \in Outputs \cup {None}
BY NoneIsNothing DEF Runs

\* A link of an attempt's input that has the key of another attempt's link of
\* the same recipe is that link: a locator has one label.
LEMMA LinkIdentity ==
    ASSUME NEW a \in Attempts, NEW b \in Attempts, NEW r \in Runs,
           NEW i \in Labels(a), NEW l,
           a.recipe = r.code.recipe, b.recipe = l.code.recipe,
           l = [capture |-> l.capture, code |-> l.code, label |-> l.label],
           l.label \in Labels(b), b.inputs[l.label] = l.capture,
           SameKey(l, LinkOf(a, r, i))
    PROVE  l = LinkOf(a, r, i)
<1>1. l.capture = a.inputs[i] /\ l.code = r.code
  BY DEF SameKey, LinkOf
<1>2. l.label = i
  BY <1>1, LabelsAreStable
<1> QED
  BY <1>1, <1>2 DEF LinkOf

LEMMA LinkShape ==
    ASSUME NEW l \in Links
    PROVE  l = [capture |-> l.capture, code |-> l.code, label |-> l.label]
BY DEF Links

\* A link of an attempt to a run that interprets it has its type and fits.
LEMMA LinkFits ==
    ASSUME NEW a \in Attempts, NEW r \in Runs, Interprets(r, a), NEW i \in Labels(a)
    PROVE  /\ LinkOf(a, r, i) \in Links
           /\ LinkOf(a, r, i).capture = a.inputs[i]
           /\ LinkOf(a, r, i).code = r.code /\ LinkOf(a, r, i).label = i
           /\ i \in DOMAIN r.code.contents
           /\ ContentOf[a.inputs[i]] = r.code.contents[i]
<1>1. LinkOf(a, r, i).capture = a.inputs[i] /\ LinkOf(a, r, i).code = r.code
      /\ LinkOf(a, r, i).label = i
  BY DEF LinkOf
<1>2. \E b \in Attempts : r.code = Code(b)
  BY RunShape
<1>3. LinkOf(a, r, i) \in Links
  BY <1>2 DEF Links, LinkOf
<1>4. i \in DOMAIN r.code.contents /\ ContentOf[a.inputs[i]] = r.code.contents[i]
  BY CodeFields DEF Interprets
<1> QED
  BY <1>1, <1>3, <1>4

\* The run that a parser's output makes interprets the attempt.
LEMMA ParsedRun ==
    ASSUME NEW a \in Attempts, NEW o \in Outputs
    PROVE  LET r == [code |-> Code(a), output |-> o]
           IN  r \in Runs /\ Interprets(r, a) /\ r.code = Code(a)
<1> DEFINE r == [code |-> Code(a), output |-> o]
<1>1. r \in Runs
  BY DEF Runs
<1>2. r.output = o /\ o # None /\ r.code = Code(a)
  BY NoneIsNothing
<1>3. Interprets(r, a)
  BY <1>2, CodeFields DEF Interprets
<1> QED
  BY <1>1, <1>2, <1>3

----------------------------------------------------------------------------
\* The initial states satisfy the invariant.
LEMMA InitIInv == Init => IInv
<1> SUFFICES ASSUME Init PROVE IInv
  OBVIOUS
<1>1. runs \in SUBSET Runs /\ \A r \in runs : r.output = None
  BY DEF Init, Runs
<1>2. TypeOK
  BY <1>1, NoneIsNothing DEF Init, TypeOK, Steps
<1>3. OneOutputPerInterpretation
  BY <1>1, RunShape DEF OneOutputPerInterpretation
<1>4. LinksFit /\ InterpretationsAreAttributed /\ ReportsStand /\ RefusalsJustified
  BY <1>1 DEF Init, LinksFit, InterpretationsAreAttributed, ReportsStand, RefusalsJustified
<1>5. SessionEvidence
  BY DEF Init, SessionEvidence, Evidence, Linked, Holds
<1> QED
  BY <1>2, <1>3, <1>4, <1>5 DEF IInv, Ledger

----------------------------------------------------------------------------
\* A step of another session leaves this one as it is.
Same(t) == /\ job'[t] = job[t] /\ at'[t] = at[t] /\ done'[t] = done[t]
           /\ run'[t] = run[t] /\ locked'[t] = locked[t]
           /\ fresh'[t] = fresh[t] /\ drawn'[t] = drawn[t]

\* What a session knows survives what others commit, except a new snapshot of
\* the run it has locked.
LEMMA EvidenceKept ==
    ASSUME NEW t \in Sessions, Evidence(t), Same(t),
           bound \subseteq bound', links \subseteq links',
           \A r \in runs : r.output # None => r \in runs',
           locked[t] => \A r \in runs' : r.code = run[t].code => r \in runs
    PROVE  Evidence(t)'
<1>1. Linked(t)' = Linked(t)
  BY DEF Linked, Same
<1>2. /\ run'[t] = None <=> at'[t] \in {"idle", "bind", "find", "parse"}
      /\ run'[t] # None => Interprets(run'[t], job'[t])
      /\ at'[t] = "find" => job'[t].by = "transform"
      /\ at'[t] = "bind" => \A i \in 1 .. done'[t] : job'[t].inputs[i] \in bound'
      /\ at'[t] = "find" \/ run'[t] # None =>
             \A i \in Labels(job'[t]) : job'[t].inputs[i] \in bound'
  BY DEF Evidence, Same
<1>3. at'[t] \in {"link", "commit", "read"} => fresh'[t] \/ run'[t] \in runs'
  BY DEF Evidence, Same, Interprets
<1>4. at'[t] = "insert" \/ fresh'[t] =>
          \A r \in runs' : r.code = run'[t].code => r.output = None
  BY DEF Evidence, Same
<1>5. \A i \in Linked(t)' : LinkOf(job'[t], run'[t], i) \in links' \cup drawn'[t]
  BY <1>1 DEF Evidence, Same
<1>6. /\ at'[t] \in {"bind", "link"} => done'[t] < Len(job'[t].inputs)
      /\ at'[t] \notin {"bind", "link"} => done'[t] = 0
      /\ at'[t] \in {"select", "insert"} => locked'[t]
      /\ locked'[t] => at'[t] \in {"select", "insert", "link", "commit"}
      /\ at'[t] = "lock" \/ locked'[t] => run'[t].code = Code(job'[t])
      /\ fresh'[t] => locked'[t] /\ at'[t] \in {"link", "commit"}
      /\ drawn'[t] # {} => at'[t] \in {"link", "commit"}
  BY DEF Evidence, Same
<1>7. \A l \in drawn'[t] : \E i \in Linked(t)' : l = LinkOf(job'[t], run'[t], i)
  BY <1>1 DEF Evidence, Same
<1> QED
  BY <1>2, <1>3, <1>4, <1>5, <1>6, <1>7 DEF Evidence

\* Reports and refusals stay true while nothing that is committed goes.
LEMMA HistoryKept ==
    ASSUME IInv, links \subseteq links', \A r \in runs : r.output # None => r \in runs'
    PROVE  /\ reported' = reported => ReportsStand'
           /\ refused' = refused => RefusalsJustified'
<1>1. ASSUME reported' = reported PROVE ReportsStand'
  BY <1>1 DEF IInv, Ledger, ReportsStand, Interprets
<1>2. ASSUME refused' = refused PROVE RefusalsJustified'
  BY <1>2 DEF IInv, Ledger, RefusalsJustified, Reusable
<1> QED
  BY <1>1, <1>2

\* A step of one session that commits nothing but captures.
Private(s) == /\ UNCHANGED <<runs, links>>
              /\ bound \subseteq bound'
              /\ \A t \in Sessions \ {s} : Same(t)
              /\ locked'[s] => \A t \in Sessions \ {s} : ~Holds(t, run'[s].code)

LEMMA PrivateStep ==
    ASSUME IInv, NEW s \in Sessions, Private(s),
           TypeOK', Evidence(s)', ReportsStand', RefusalsJustified'
    PROVE  IInv'
<1>1. OneOutputPerInterpretation' /\ LinksFit' /\ InterpretationsAreAttributed'
  BY DEF IInv, Ledger, Private, OneOutputPerInterpretation, LinksFit,
         InterpretationsAreAttributed
<1>2. \A t \in Sessions : Evidence(t)'
  BY EvidenceKept DEF IInv, SessionEvidence, Private
<1>3. ASSUME NEW u \in Sessions, NEW t \in Sessions, locked'[u], Holds(t, run[u].code)'
      PROVE  u = t
  BY <1>3 DEF IInv, SessionEvidence, Private, Same, Holds
<1> QED
  BY <1>1, <1>2, <1>3 DEF IInv, Ledger, SessionEvidence, Holds

\* A session that ends knows nothing and holds nothing.
LEMMA EndEvidence ==
    ASSUME IInv, NEW s \in Sessions, End(s)
    PROVE  /\ Evidence(s)' /\ ~locked'[s]
           /\ \A t \in Sessions \ {s} : Same(t)
           /\ job' \in [Sessions -> Attempts \cup {None}] /\ at' \in [Sessions -> Steps]
           /\ \A t \in Sessions : at'[t] = "idle" <=> job'[t] = None
           /\ done' \in [Sessions -> Nat] /\ run' \in [Sessions -> Runs \cup {None}]
           /\ locked' \in [Sessions -> BOOLEAN] /\ fresh' \in [Sessions -> BOOLEAN]
           /\ drawn' \in [Sessions -> SUBSET Links]
<1>1. /\ job' = [job EXCEPT ![s] = None] /\ at' = [at EXCEPT ![s] = "idle"]
      /\ done' = [done EXCEPT ![s] = 0] /\ run' = [run EXCEPT ![s] = None]
      /\ locked' = [locked EXCEPT ![s] = FALSE] /\ fresh' = [fresh EXCEPT ![s] = FALSE]
      /\ drawn' = [drawn EXCEPT ![s] = {}]
  BY DEF End, Goto
<1>2. /\ job'[s] = None /\ at'[s] = "idle" /\ done'[s] = 0 /\ run'[s] = None
      /\ ~locked'[s] /\ ~fresh'[s] /\ drawn'[s] = {}
  BY <1>1 DEF IInv, TypeOK
<1>3. Evidence(s)'
  BY <1>2 DEF Evidence, Linked
<1>4. \A t \in Sessions \ {s} : Same(t)
  BY <1>1 DEF IInv, TypeOK, Same
<1>5. /\ job' \in [Sessions -> Attempts \cup {None}] /\ at' \in [Sessions -> Steps]
      /\ \A t \in Sessions : at'[t] = "idle" <=> job'[t] = None
      /\ done' \in [Sessions -> Nat] /\ run' \in [Sessions -> Runs \cup {None}]
      /\ locked' \in [Sessions -> BOOLEAN] /\ fresh' \in [Sessions -> BOOLEAN]
      /\ drawn' \in [Sessions -> SUBSET Links]
  BY <1>1 DEF IInv, TypeOK, Steps
<1> QED
  BY <1>2, <1>3, <1>4, <1>5

\* An attempt that ends without committing leaves nothing behind.
LEMMA EndStep ==
    ASSUME IInv, NEW s \in Sessions, End(s), UNCHANGED <<bound, runs, links>>,
           reported' \in SUBSET [attempt : Attempts, run : Runs],
           refused' \in SUBSET [attempt : Attempts, output : Outputs \cup {None}],
           ReportsStand', RefusalsJustified'
    PROVE  IInv'
<1>1. TypeOK'
  BY EndEvidence DEF IInv, TypeOK
<1>2. Private(s)
  BY EndEvidence DEF Private
<1> QED
  BY <1>1, <1>2, EndEvidence, PrivateStep

----------------------------------------------------------------------------
\* Steps that commit nothing.
LEMMA GotoFacts ==
    ASSUME IInv, NEW s \in Sessions, NEW x \in Steps, Goto(s, x)
    PROVE  /\ at' \in [Sessions -> Steps] /\ done' \in [Sessions -> Nat]
           /\ at'[s] = x /\ done'[s] = 0
           /\ \A t \in Sessions \ {s} : at'[t] = at[t] /\ done'[t] = done[t]
BY DEF IInv, TypeOK, Goto

LEMMA StartStep ==
    ASSUME IInv, NEW s \in Sessions, NEW a \in Attempts, Start(s, a)
    PROVE  IInv'
<1>1. TypeOK'
  BY AttemptShape DEF IInv, TypeOK, Start, Steps
<1>2. /\ job'[s] = a /\ at'[s] \in {"parse", "bind"} /\ done'[s] = 0 /\ run'[s] = None
      /\ ~locked'[s] /\ ~fresh'[s] /\ drawn'[s] = {}
  BY DEF IInv, TypeOK, SessionEvidence, Evidence, Start
<1>3. Evidence(s)'
  BY <1>2, AttemptShape DEF Evidence, Linked
<1>4. Private(s)
  BY <1>2 DEF IInv, TypeOK, Start, Private, Same
<1>5. ReportsStand' /\ RefusalsJustified'
  BY HistoryKept DEF Start
<1> QED
  BY <1>1, <1>3, <1>4, <1>5, PrivateStep

LEMMA BindStep ==
    ASSUME IInv, NEW s \in Sessions, Bind(s)
    PROVE  IInv'
<1>1. job[s] \in Attempts /\ done[s] \in Nat /\ done[s] < Len(job[s].inputs)
      /\ run[s] = None /\ ~locked[s] /\ ~fresh[s] /\ drawn[s] = {}
  BY DEF IInv, TypeOK, SessionEvidence, Evidence, Bind
<1>2. job[s].inputs[done[s] + 1] \in Captures
  BY <1>1, AttemptShape
<1>3. bound' \in SUBSET Captures /\ bound \subseteq bound'
  BY <1>2 DEF IInv, TypeOK, Bind
<1>4. /\ at' \in [Sessions -> Steps] /\ done' \in [Sessions -> Nat]
      /\ \A t \in Sessions \ {s} : at'[t] = at[t] /\ done'[t] = done[t]
      /\ \/ at'[s] = "bind" /\ done'[s] < Len(job[s].inputs)
         \/ at'[s] \in {"find", "parse"} /\ done'[s] = 0
  <2>1. CASE done[s] + 1 < Len(job[s].inputs)
    BY <1>1, <2>1 DEF IInv, TypeOK, Bind
  <2>2. CASE ~(done[s] + 1 < Len(job[s].inputs))
    <3>1. PICK x \in {"find", "parse"} : Goto(s, x)
      BY <2>2 DEF Bind
    <3> QED
      BY <3>1, GotoFacts DEF Steps
  <2> QED
    BY <2>1, <2>2
<1>5. TypeOK'
  BY <1>1, <1>3, <1>4, AttemptShape DEF IInv, TypeOK, Bind
<1>6. Evidence(s)'
  <2>1. job'[s] = job[s] /\ run'[s] = None /\ ~locked'[s] /\ ~fresh'[s] /\ drawn'[s] = {}
    BY <1>1 DEF Bind
  <2>2. \A i \in 1 .. done[s] + 1 : job[s].inputs[i] \in bound'
    BY <1>1, <1>3 DEF Bind, IInv, SessionEvidence, Evidence
  <2>3. /\ at'[s] = "find" => job[s].by = "transform"
        /\ at'[s] = "bind" => done'[s] = done[s] + 1
        /\ at'[s] # "bind" => done[s] + 1 = Len(job[s].inputs)
    BY <1>1, AttemptShape DEF IInv, TypeOK, Bind, Goto
  <2>4. \A i \in Labels(job[s]) : at'[s] = "find" => job[s].inputs[i] \in bound'
    BY <1>1, <2>2, <2>3, AttemptShape
  <2> QED
    BY <1>1, <1>4, <2>1, <2>2, <2>3, <2>4 DEF Evidence, Linked
<1>7. Private(s)
  BY <1>1, <1>3, <1>4 DEF Bind, Private, Same
<1>8. ReportsStand' /\ RefusalsJustified'
  BY HistoryKept DEF Bind
<1> QED
  BY <1>5, <1>6, <1>7, <1>8, PrivateStep

LEMMA FindStep ==
    ASSUME IInv, NEW s \in Sessions, Find(s)
    PROVE  IInv'
<1> DEFINE matches == Reusable(job[s])
<1>1. job[s] \in Attempts /\ at[s] = "find" /\ run[s] = None /\ done[s] = 0
      /\ ~locked[s] /\ ~fresh[s] /\ drawn[s] = {}
  BY DEF IInv, TypeOK, SessionEvidence, Evidence, Find
<1>2. CASE /\ matches = {}
           /\ Goto(s, "parse")
           /\ UNCHANGED <<job, run, locked, fresh, drawn, refused>>
  <2>1. TypeOK'
    BY <1>1, <1>2 DEF IInv, TypeOK, Find, Goto, Steps
  <2>2. at'[s] = "parse" /\ done'[s] = 0
    BY <1>2 DEF IInv, TypeOK, Goto
  <2>3. Evidence(s)'
    BY <1>1, <1>2, <2>2 DEF Evidence, Linked
  <2>4. Private(s)
    BY <1>1, <1>2 DEF IInv, TypeOK, Find, Goto, Private, Same
  <2>5. ReportsStand' /\ RefusalsJustified'
    BY <1>2, HistoryKept DEF Find
  <2> QED
    BY <2>1, <2>3, <2>4, <2>5, PrivateStep
<1>3. ASSUME NEW r \in matches,
             run' = [run EXCEPT ![s] = r],
             Goto(s, "link"),
             UNCHANGED <<job, locked, fresh, drawn, refused>>
      PROVE  IInv'
  <2>1. r \in runs /\ r \in Runs /\ r.output # None
        /\ r.code.contents = Contents(job[s].inputs) /\ r.code.recipe = job[s].recipe
    BY DEF Reusable, IInv, TypeOK
  <2>2. TypeOK'
    BY <1>1, <1>3, <2>1 DEF IInv, TypeOK, Find, Goto, Steps
  <2>3. /\ at'[s] = "link" /\ done'[s] = 0 /\ run'[s] = r /\ job'[s] = job[s]
        /\ ~locked'[s] /\ ~fresh'[s] /\ drawn'[s] = {} /\ runs' = runs /\ bound' = bound
    BY <1>1, <1>3 DEF IInv, TypeOK, Goto, Find
  <2>4. job[s].by = "transform" /\ \A i \in Labels(job[s]) : job[s].inputs[i] \in bound
    BY <1>1 DEF IInv, SessionEvidence, Evidence
  <2>5. Interprets(r, job[s])
    BY <2>1, <2>4 DEF Interprets
  <2>7. Evidence(s)'
    BY <1>1, <2>1, <2>3, <2>4, <2>5, RunShape, AttemptShape DEF Evidence, Linked
  <2>8. Private(s)
    BY <1>1, <1>3 DEF IInv, TypeOK, Find, Goto, Private, Same
  <2>9. ReportsStand' /\ RefusalsJustified'
    BY <1>3, HistoryKept DEF Find
  <2> QED
    BY <2>2, <2>7, <2>8, <2>9, PrivateStep
<1>4. ASSUME \E q, r \in matches : q # r, Refuse(s, None)
      PROVE  IInv'
  <2>1. refused' = refused \cup {[attempt |-> job[s], output |-> None]} /\ End(s)
    BY <1>4 DEF Refuse
  <2>2. RefusalsJustified'
    BY <1>4, <2>1 DEF IInv, Ledger, RefusalsJustified, Reusable, Find
  <2>3. ReportsStand'
    BY HistoryKept DEF Find
  <2> QED
    BY <1>1, <2>1, <2>2, <2>3, EndStep DEF IInv, TypeOK, Find
<1> QED
  BY <1>2, <1>3, <1>4 DEF Find

LEMMA ParseStep ==
    ASSUME IInv, NEW s \in Sessions, Parse(s)
    PROVE  IInv'
<1>1. job[s] \in Attempts /\ at[s] = "parse" /\ run[s] = None /\ done[s] = 0
      /\ ~locked[s] /\ ~fresh[s] /\ drawn[s] = {}
  BY DEF IInv, TypeOK, SessionEvidence, Evidence, Parse
<1>2. ReportsStand' /\ RefusalsJustified'
  BY HistoryKept DEF Parse
<1>3. CASE \A i \in Labels(job[s]) : job[s].inputs[i] \in bound
  <2>1. PICK o \in Outputs : run' = [run EXCEPT ![s] = [code |-> Code(job[s]), output |-> o]]
    BY <1>3 DEF Parse
  <2> DEFINE r == [code |-> Code(job[s]), output |-> o]
  <2>2. r \in Runs /\ Interprets(r, job[s]) /\ r.code = Code(job[s])
    BY <1>1, ParsedRun
  <2>3. Goto(s, "lock") /\ UNCHANGED <<bound, runs, links, job, locked, fresh, drawn,
                                      reported, refused>>
    BY <1>3 DEF Parse
  <2>4. /\ at' \in [Sessions -> Steps] /\ done' \in [Sessions -> Nat]
        /\ at'[s] = "lock" /\ done'[s] = 0
        /\ \A t \in Sessions \ {s} : at'[t] = at[t] /\ done'[t] = done[t]
    BY <2>3, GotoFacts DEF Steps
  <2>5. /\ run' \in [Sessions -> Runs \cup {None}] /\ run'[s] = r
        /\ \A t \in Sessions \ {s} : run'[t] = run[t]
    BY <2>1, <2>2 DEF IInv, TypeOK
  <2>6. TypeOK'
    BY <1>1, <2>3, <2>4, <2>5, AttemptShape DEF IInv, TypeOK
  <2>7. Evidence(s)'
    BY <1>1, <1>3, <2>2, <2>3, <2>4, <2>5, RunShape DEF Evidence, Linked
  <2>8. Private(s)
    BY <1>1, <2>3, <2>4, <2>5 DEF Private, Same
  <2> QED
    BY <1>2, <2>6, <2>7, <2>8, PrivateStep
<1>4. CASE ~\A i \in Labels(job[s]) : job[s].inputs[i] \in bound
  BY <1>2, <1>4, EndStep DEF IInv, TypeOK, Parse
<1> QED
  BY <1>3, <1>4

\* A session with a run that goes on within its transaction.
LEMMA RunFacts ==
    ASSUME IInv, NEW s \in Sessions, run[s] # None
    PROVE  /\ job[s] \in Attempts /\ run[s] \in Runs /\ Interprets(run[s], job[s])
           /\ run[s].output \in Outputs /\ at[s] # "idle"
           /\ \A i \in Labels(job[s]) : job[s].inputs[i] \in bound
<1>1. run[s] \in Runs /\ Interprets(run[s], job[s])
      /\ at[s] # "idle" /\ \A i \in Labels(job[s]) : job[s].inputs[i] \in bound
  BY DEF IInv, TypeOK, SessionEvidence, Evidence
<1>2. job[s] \in Attempts
  BY <1>1 DEF IInv, TypeOK
<1>3. run[s].output \in Outputs
  BY <1>1, RunShape DEF Interprets
<1> QED
  BY <1>1, <1>2, <1>3

LEMMA LockStep ==
    ASSUME IInv, NEW s \in Sessions, Lock(s)
    PROVE  IInv'
<1>1. /\ at[s] = "lock" /\ run[s] # None /\ done[s] = 0 /\ ~locked[s] /\ ~fresh[s]
      /\ drawn[s] = {} /\ run[s].code = Code(job[s])
  BY DEF IInv, TypeOK, SessionEvidence, Evidence, Lock
<1>2. /\ at' \in [Sessions -> Steps] /\ done' \in [Sessions -> Nat]
      /\ at'[s] = "select" /\ done'[s] = 0
      /\ \A t \in Sessions \ {s} : at'[t] = at[t] /\ done'[t] = done[t]
  BY GotoFacts DEF Lock, Steps
<1>3. /\ locked' \in [Sessions -> BOOLEAN] /\ locked'[s]
      /\ \A t \in Sessions \ {s} : locked'[t] = locked[t]
  BY DEF IInv, TypeOK, Lock
<1>4. TypeOK'
  BY <1>1, <1>2, <1>3, RunFacts DEF IInv, TypeOK, Lock
<1>5. Evidence(s)'
  BY <1>1, <1>2, <1>3, RunFacts DEF Evidence, Linked, Lock
<1>6. Private(s)
  BY <1>2, <1>3 DEF Private, Same, Lock, Holds
<1>7. ReportsStand' /\ RefusalsJustified'
  BY HistoryKept DEF Lock
<1> QED
  BY <1>4, <1>5, <1>6, <1>7, PrivateStep

\* A snapshot with the code of a run and its output is that run.
LEMMA SnapshotIdentity ==
    ASSUME NEW q \in Runs, NEW r \in Runs, q.code = r.code, q # r
    PROVE  q.output # r.output
BY RunShape

LEMMA SelectStep ==
    ASSUME IInv, NEW s \in Sessions, Select(s)
    PROVE  IInv'
<1> DEFINE found == {r \in runs : r.code = run[s].code /\ r.output # None}
<1>1. /\ at[s] = "select" /\ run[s] # None /\ done[s] = 0 /\ locked[s] /\ ~fresh[s]
      /\ drawn[s] = {} /\ run[s].code = Code(job[s])
  BY DEF IInv, TypeOK, SessionEvidence, Evidence, Select
<1>2. CASE \A r \in found : r = run[s]
  <2>1. PICK x \in {"insert", "link"} : Goto(s, x) /\ (x = "insert" <=> found = {})
    BY <1>2 DEF Select
  <2>2. /\ at' \in [Sessions -> Steps] /\ done' \in [Sessions -> Nat]
        /\ at'[s] = x /\ done'[s] = 0
        /\ \A t \in Sessions \ {s} : at'[t] = at[t] /\ done'[t] = done[t]
    BY <2>1, GotoFacts DEF Steps
  <2>3. UNCHANGED <<bound, runs, links, job, run, locked, fresh, drawn, reported, refused>>
    BY <1>2 DEF Select
  <2>4. TypeOK'
    BY <1>1, <2>2, <2>3, RunFacts DEF IInv, TypeOK
  <2>5. x = "link" => run[s] \in runs
    BY <1>2, <2>1
  <2>6. x = "insert" => \A r \in runs : r.code = run[s].code => r.output = None
    BY <2>1
  <2>7. Len(job[s].inputs) \in Nat /\ 0 < Len(job[s].inputs)
    BY <1>1, RunFacts, AttemptShape
  <2>8. Evidence(s)'
    BY <1>1, <2>1, <2>2, <2>3, <2>5, <2>6, <2>7, RunFacts DEF Evidence, Linked
  <2>9. Private(s)
    BY <1>1, <2>2, <2>3 DEF IInv, SessionEvidence, Private, Same, Holds
  <2>10. ReportsStand' /\ RefusalsJustified'
    BY <2>3, HistoryKept
  <2> QED
    BY <2>4, <2>8, <2>9, <2>10, PrivateStep
<1>3. CASE ~\A r \in found : r = run[s]
  <2>1. Refuse(s, run[s].output) /\ UNCHANGED <<bound, runs, links, reported>>
    BY <1>3 DEF Select
  <2>2. refused' = refused \cup {[attempt |-> job[s], output |-> run[s].output]} /\ End(s)
    BY <2>1 DEF Refuse
  <2>3. PICK r \in runs : r.code = run[s].code /\ r.output # None /\ r # run[s]
    BY <1>3
  <2>4. r.code = Code(job[s]) /\ r.output \notin {None, run[s].output}
    BY <1>1, <2>3, RunFacts, SnapshotIdentity DEF IInv, TypeOK
  <2>5. RefusalsJustified'
    BY <2>1, <2>2, <2>4 DEF IInv, Ledger, RefusalsJustified, Reusable
  <2>6. ReportsStand'
    BY <2>1, HistoryKept
  <2> QED
    BY <1>1, <2>1, <2>2, <2>5, <2>6, RunFacts, EndStep DEF IInv, TypeOK
<1> QED
  BY <1>2, <1>3

LEMMA InsertStep ==
    ASSUME IInv, NEW s \in Sessions, Insert(s)
    PROVE  IInv'
<1>1. /\ at[s] = "insert" /\ run[s] # None /\ done[s] = 0 /\ locked[s] /\ ~fresh[s]
      /\ drawn[s] = {} /\ run[s].code = Code(job[s])
      /\ \A r \in runs : r.code = run[s].code => r.output = None
  BY DEF IInv, TypeOK, SessionEvidence, Evidence, Insert
<1>2. /\ fresh' = [fresh EXCEPT ![s] = TRUE] /\ Goto(s, "link")
      /\ UNCHANGED <<bound, runs, links, job, run, locked, drawn, reported, refused>>
  BY <1>1 DEF Insert
<1>3. /\ at' \in [Sessions -> Steps] /\ done' \in [Sessions -> Nat]
      /\ at'[s] = "link" /\ done'[s] = 0
      /\ \A t \in Sessions \ {s} : at'[t] = at[t] /\ done'[t] = done[t]
  BY <1>2, GotoFacts DEF Steps
<1>4. /\ fresh' \in [Sessions -> BOOLEAN] /\ fresh'[s]
      /\ \A t \in Sessions \ {s} : fresh'[t] = fresh[t]
  BY <1>2 DEF IInv, TypeOK
<1>5. TypeOK'
  BY <1>1, <1>2, <1>3, <1>4, RunFacts DEF IInv, TypeOK
<1>6. Len(job[s].inputs) \in Nat /\ 0 < Len(job[s].inputs)
  BY <1>1, RunFacts, AttemptShape
<1>7. Evidence(s)'
  BY <1>1, <1>2, <1>3, <1>4, <1>6, RunFacts DEF Evidence, Linked
<1>8. Private(s)
  BY <1>1, <1>2, <1>3, <1>4 DEF IInv, SessionEvidence, Private, Same, Holds
<1>9. ReportsStand' /\ RefusalsJustified'
  BY <1>2, HistoryKept
<1> QED
  BY <1>5, <1>7, <1>8, <1>9, PrivateStep

\* A link with the key of the next one is the next one.
LEMMA NextLinkFacts ==
    ASSUME IInv, NEW s \in Sessions, at[s] = "link"
    PROVE  /\ Position(s) \in Labels(job[s])
           /\ NextLink(s) = LinkOf(job[s], run[s], Position(s))
           /\ NextLink(s) \in Links
           /\ ContentOf[NextLink(s).capture] = run[s].code.contents[NextLink(s).label]
           /\ (\E l \in links : SameKey(l, NextLink(s))) => NextLink(s) \in links
<1>1. run[s] # None /\ done[s] \in Nat /\ done[s] < Len(job[s].inputs)
  BY DEF IInv, TypeOK, SessionEvidence, Evidence
<1>2. Position(s) \in Labels(job[s])
  BY <1>1, RunFacts, AttemptShape DEF Position
<1>3. NextLink(s) = LinkOf(job[s], run[s], Position(s))
  BY DEF NextLink, LinkOf
<1>4. /\ NextLink(s) \in Links
      /\ ContentOf[NextLink(s).capture] = run[s].code.contents[NextLink(s).label]
  BY <1>1, <1>2, <1>3, RunFacts, LinkFits
<1>5. ASSUME NEW l \in links, SameKey(l, NextLink(s)) PROVE l = NextLink(s)
  <2>1. l = [capture |-> l.capture, code |-> l.code, label |-> l.label]
    BY LinkShape DEF IInv, TypeOK
  <2>2. PICK b \in Attempts : b.recipe = l.code.recipe /\ l.label \in Labels(b)
                               /\ b.inputs[l.label] = l.capture
    BY DEF IInv, Ledger, LinksFit
  <2>3. job[s].recipe = run[s].code.recipe
    BY <1>1, RunFacts DEF Interprets
  <2> QED
    BY <1>1, <1>2, <1>3, <1>5, <2>1, <2>2, <2>3, RunFacts, LinkIdentity
<1> QED
  BY <1>2, <1>3, <1>4, <1>5

LEMMA LinkStep ==
    ASSUME IInv, NEW s \in Sessions, Link(s)
    PROVE  IInv'
<1> DEFINE next == NextLink(s)
<1>1. /\ at[s] = "link" /\ run[s] # None /\ done[s] \in Nat
      /\ done[s] < Len(job[s].inputs)
  BY DEF IInv, TypeOK, SessionEvidence, Evidence, Link
<1>2. /\ drawn' = [drawn EXCEPT ![s] = IF \E l \in links : SameKey(l, next)
                                      THEN @ ELSE @ \cup {next}]
      /\ IF done[s] + 1 < Len(job[s].inputs)
           THEN done' = [done EXCEPT ![s] = @ + 1] /\ UNCHANGED at
           ELSE Goto(s, "commit")
      /\ UNCHANGED <<bound, runs, links, job, run, locked, fresh, reported, refused>>
  BY <1>1, NextLinkFacts DEF Link
<1>3. /\ drawn' \in [Sessions -> SUBSET Links]
      /\ \A t \in Sessions \ {s} : drawn'[t] = drawn[t]
      /\ drawn[s] \subseteq drawn'[s] /\ drawn'[s] \subseteq drawn[s] \cup {next}
      /\ next \in links \cup drawn'[s]
  BY <1>1, <1>2, NextLinkFacts DEF IInv, TypeOK
<1>4. /\ at' \in [Sessions -> Steps] /\ done' \in [Sessions -> Nat]
      /\ \A t \in Sessions \ {s} : at'[t] = at[t] /\ done'[t] = done[t]
      /\ \/ at'[s] = "link" /\ done'[s] = done[s] + 1 /\ done'[s] < Len(job[s].inputs)
         \/ at'[s] = "commit" /\ done'[s] = 0 /\ done[s] + 1 = Len(job[s].inputs)
  <2>1. CASE done[s] + 1 < Len(job[s].inputs)
    <3>1. done' = [done EXCEPT ![s] = done[s] + 1] /\ at' = at
      BY <1>2, <2>1
    <3>2. done \in [Sessions -> Nat] /\ at \in [Sessions -> Steps]
      BY DEF IInv, TypeOK
    <3>3. done'[s] = done[s] + 1 /\ done[s] + 1 \in Nat
      BY <1>1, <3>1, <3>2
    <3> QED
      BY <1>1, <2>1, <3>1, <3>2, <3>3
  <2>2. CASE ~(done[s] + 1 < Len(job[s].inputs))
    <3>1. Goto(s, "commit")
      BY <1>2, <2>2
    <3>2. done[s] + 1 = Len(job[s].inputs)
      BY <1>1, <2>2, RunFacts, AttemptShape
    <3> QED
      BY <3>1, <3>2, GotoFacts DEF Steps
  <2> QED
    BY <2>1, <2>2
<1>5. TypeOK'
  BY <1>1, <1>2, <1>3, <1>4, RunFacts DEF IInv, TypeOK
<1>6. \A i \in 1 .. done[s] + 1 : LinkOf(job[s], run[s], i) \in links \cup drawn'[s]
  <2>1. \A i \in 1 .. done[s] : LinkOf(job[s], run[s], i) \in links \cup drawn[s]
    BY <1>1 DEF IInv, SessionEvidence, Evidence, Linked
  <2>2. LinkOf(job[s], run[s], done[s] + 1) \in links \cup drawn'[s]
    BY <1>1, <1>3, NextLinkFacts DEF Position
  <2> QED
    BY <1>1, <1>3, <2>1, <2>2
<1>7. \A l \in drawn'[s] : \E i \in 1 .. done[s] + 1 : l = LinkOf(job[s], run[s], i)
  <2>1. \A l \in drawn[s] : \E i \in 1 .. done[s] : l = LinkOf(job[s], run[s], i)
    BY <1>1 DEF IInv, SessionEvidence, Evidence, Linked
  <2>2. next = LinkOf(job[s], run[s], done[s] + 1)
    BY <1>1, NextLinkFacts DEF Position
  <2> HIDE DEF next
  <2>3. 1 .. done[s] \subseteq 1 .. done[s] + 1 /\ done[s] + 1 \in 1 .. done[s] + 1
    BY <1>1
  <2> QED
    BY <1>3, <2>1, <2>2, <2>3
<1>8. Linked(s)' = 1 .. done[s] + 1
  BY <1>1, <1>2, <1>4, RunFacts, AttemptShape DEF Linked
<1>9. Evidence(s)'
  <2>1. Evidence(s)
    BY DEF IInv, SessionEvidence
  <2> QED
    BY <1>1, <1>2, <1>4, <1>6, <1>7, <1>8, <2>1 DEF Evidence
<1>10. Private(s)
  BY <1>2, <1>3, <1>4 DEF IInv, SessionEvidence, Private, Same, Holds
<1>11. ReportsStand' /\ RefusalsJustified'
  BY <1>2, HistoryKept
<1> QED
  BY <1>5, <1>9, <1>10, <1>11, PrivateStep

----------------------------------------------------------------------------
\* A commit adds a run that interprets its attempt, all of its links, and
\* nothing else; what has been committed stays.
LEMMA PublishFacts ==
    ASSUME IInv, NEW s \in Sessions, at[s] = "commit", Publish(s), bound' = bound
    PROVE  /\ runs' \in SUBSET Runs /\ links' \in SUBSET Links
           /\ links \subseteq links' /\ run[s] \in runs'
           /\ \A r \in runs : r.output # None => r \in runs'
           /\ \A r \in runs' : r \in runs \/ (fresh[s] /\ r = run[s])
           /\ \A i \in Labels(job[s]) : LinkOf(job[s], run[s], i) \in links'
           /\ OneOutputPerInterpretation' /\ LinksFit' /\ InterpretationsAreAttributed'
<1>1. /\ run[s] # None
      /\ fresh[s] \/ run[s] \in runs
      /\ fresh[s] => \A r \in runs : r.code = run[s].code => r.output = None
      /\ \A l \in drawn[s] : \E i \in Labels(job[s]) : l = LinkOf(job[s], run[s], i)
      /\ \A i \in Labels(job[s]) : LinkOf(job[s], run[s], i) \in links \cup drawn[s]
  BY DEF IInv, SessionEvidence, Evidence, Linked
<1>2. links' = links \cup drawn[s]
      /\ runs' = IF fresh[s] THEN {r \in runs : r.code # run[s].code} \cup {run[s]} ELSE runs
  BY DEF Publish
<1>3. /\ runs' \in SUBSET Runs /\ links' \in SUBSET Links
      /\ links \subseteq links' /\ run[s] \in runs'
      /\ \A r \in runs : r.output # None => r \in runs'
      /\ \A r \in runs' : r \in runs \/ (fresh[s] /\ r = run[s])
      /\ \A i \in Labels(job[s]) : LinkOf(job[s], run[s], i) \in links'
  BY <1>1, <1>2, RunFacts DEF IInv, TypeOK
<1>4. OneOutputPerInterpretation'
  BY <1>2 DEF IInv, Ledger, OneOutputPerInterpretation
<1>5. LinksFit'
  <2> SUFFICES ASSUME NEW l \in links'
               PROVE  /\ l.label \in DOMAIN l.code.contents
                      /\ ContentOf[l.capture] = l.code.contents[l.label]
                      /\ \E r \in runs' : r.code = l.code /\ r.output # None
                      /\ \E a \in Attempts : /\ a.recipe = l.code.recipe
                                           /\ l.label \in Labels(a)
                                           /\ a.inputs[l.label] = l.capture
    BY DEF LinksFit
  <2>1. CASE l \in links
    BY <1>3, <2>1 DEF IInv, Ledger, LinksFit
  <2>2. CASE l \in drawn[s]
    <3>1. PICK i \in Labels(job[s]) : l = LinkOf(job[s], run[s], i)
      BY <1>1, <2>2
    <3>2. /\ l.capture = job[s].inputs[i] /\ l.code = run[s].code /\ l.label = i
          /\ i \in DOMAIN run[s].code.contents
          /\ ContentOf[job[s].inputs[i]] = run[s].code.contents[i]
      BY <1>1, <3>1, RunFacts, LinkFits
    <3>3. job[s] \in Attempts /\ job[s].recipe = run[s].code.recipe /\ run[s].output # None
      BY <1>1, RunFacts DEF Interprets
    <3> QED
      BY <1>3, <3>2, <3>3
  <2> QED
    BY <1>2, <2>1, <2>2
<1>6. InterpretationsAreAttributed'
  <2> SUFFICES ASSUME NEW r \in runs', r.output # None, NEW i \in DOMAIN r.code.contents
               PROVE  \E l \in links' : l.code = r.code /\ l.label = i /\ l.capture \in bound'
    BY DEF InterpretationsAreAttributed
  <2>1. CASE r \in runs
    BY <1>3, <2>1 DEF IInv, Ledger, InterpretationsAreAttributed
  <2>2. CASE r = run[s]
    <3>1. i \in Labels(job[s])
      BY <1>1, <2>2, RunFacts, CodeFields DEF Interprets
    <3>2. /\ LinkOf(job[s], r, i).code = r.code /\ LinkOf(job[s], r, i).label = i
          /\ LinkOf(job[s], r, i).capture = job[s].inputs[i]
      BY DEF LinkOf
    <3> QED
      BY <1>1, <1>3, <2>2, <3>1, <3>2, RunFacts
  <2> QED
    BY <1>3, <2>1, <2>2
<1> QED
  BY <1>3, <1>4, <1>5, <1>6

LEMMA PublishStep ==
    ASSUME IInv, NEW s \in Sessions, at[s] = "commit", Publish(s), UNCHANGED <<bound, refused>>,
           TypeOK', Evidence(s)', ~locked'[s], \A t \in Sessions \ {s} : Same(t),
           reported' = reported \/ Report(s)
    PROVE  IInv'
<1>1. /\ links \subseteq links' /\ run[s] \in runs'
      /\ \A r \in runs : r.output # None => r \in runs'
      /\ \A r \in runs' : r \in runs \/ (fresh[s] /\ r = run[s])
      /\ \A i \in Labels(job[s]) : LinkOf(job[s], run[s], i) \in links'
      /\ OneOutputPerInterpretation' /\ LinksFit' /\ InterpretationsAreAttributed'
  BY PublishFacts
<1>2. run[s] # None /\ (fresh[s] => locked[s])
  BY DEF IInv, SessionEvidence, Evidence
<1>3. ASSUME NEW t \in Sessions \ {s} PROVE Evidence(t)'
  <2>1. locked[t] => \A r \in runs' : r.code = run[t].code => r \in runs
    BY <1>1, <1>2 DEF IInv, SessionEvidence, Holds
  <2> QED
    BY <1>1, <2>1, EvidenceKept DEF IInv, SessionEvidence
<1>4. ASSUME NEW u \in Sessions, NEW t \in Sessions, locked'[u], Holds(t, run[u].code)'
      PROVE  u = t
  BY <1>4 DEF IInv, SessionEvidence, Same, Holds
<1>5. ReportsStand'
  <2>1. CASE reported' = reported
    BY <1>1, <2>1, HistoryKept
  <2>2. CASE Report(s)
    <3>1. \A p \in reported :
              /\ p.run \in runs' /\ Interprets(p.run, p.attempt)
              /\ \A i \in Labels(p.attempt) : LinkOf(p.attempt, p.run, i) \in links'
      BY <1>1 DEF IInv, Ledger, ReportsStand, Interprets
    <3> QED
      BY <1>1, <1>2, <2>2, <3>1, RunFacts DEF Report, ReportsStand
  <2> QED
    BY <2>1, <2>2
<1>6. RefusalsJustified'
  BY <1>1, HistoryKept
<1>7. SessionEvidence'
  BY <1>3, <1>4 DEF SessionEvidence, Holds
<1> QED
  BY <1>1, <1>5, <1>6, <1>7 DEF IInv, Ledger

LEMMA CommitUnseenStep ==
    ASSUME IInv, NEW s \in Sessions, CommitUnseen(s)
    PROVE  IInv'
<1>1. runs' \in SUBSET Runs /\ links' \in SUBSET Links
  BY PublishFacts DEF CommitUnseen
<1>2. TypeOK'
  BY <1>1, EndEvidence DEF IInv, TypeOK, CommitUnseen
<1> QED
  BY <1>2, EndEvidence, PublishStep DEF CommitUnseen

LEMMA CommitStep ==
    ASSUME IInv, NEW s \in Sessions, Commit(s)
    PROVE  IInv'
<1>1. at[s] = "commit" /\ Publish(s) /\ UNCHANGED <<bound, refused>>
  BY DEF Commit
<1>2. /\ runs' \in SUBSET Runs /\ links' \in SUBSET Links /\ run[s] \in runs'
      /\ \A i \in Labels(job[s]) : LinkOf(job[s], run[s], i) \in links'
  BY <1>1, PublishFacts
<1>3. run[s] # None
  BY <1>1 DEF IInv, SessionEvidence, Evidence
<1>4. CASE job[s].by = "persist"
  <2>1. Report(s) /\ End(s)
    BY <1>4 DEF Commit
  <2>2. reported' \in SUBSET [attempt : Attempts, run : Runs]
    BY <1>3, <2>1, RunFacts DEF IInv, TypeOK, Report
  <2>3. TypeOK'
    BY <1>1, <1>2, <2>1, <2>2, EndEvidence DEF IInv, TypeOK
  <2> QED
    BY <1>1, <2>1, <2>3, EndEvidence, PublishStep
<1>5. CASE job[s].by # "persist"
  <2>1. /\ Goto(s, "read")
        /\ locked' = [locked EXCEPT ![s] = FALSE]
        /\ fresh' = [fresh EXCEPT ![s] = FALSE]
        /\ drawn' = [drawn EXCEPT ![s] = {}]
        /\ UNCHANGED <<job, run, reported>>
    BY <1>5 DEF Commit
  <2>2. /\ at' \in [Sessions -> Steps] /\ done' \in [Sessions -> Nat]
        /\ at'[s] = "read" /\ done'[s] = 0
        /\ \A t \in Sessions \ {s} : at'[t] = at[t] /\ done'[t] = done[t]
    BY <2>1, GotoFacts DEF Steps
  <2>3. TypeOK'
    BY <1>1, <1>2, <1>3, <2>1, <2>2, RunFacts DEF IInv, TypeOK
  <2>4. ~locked'[s] /\ ~fresh'[s] /\ drawn'[s] = {}
    BY <2>1 DEF IInv, TypeOK
  <2>5. Evidence(s)'
    BY <1>1, <1>2, <1>3, <2>1, <2>2, <2>4, RunFacts DEF Evidence, Linked
  <2>6. \A t \in Sessions \ {s} : Same(t)
    BY <2>1, <2>2 DEF IInv, TypeOK, Same
  <2> QED
    BY <1>1, <2>1, <2>3, <2>4, <2>5, <2>6, PublishStep
<1> QED
  BY <1>4, <1>5

LEMMA ReadBackStep ==
    ASSUME IInv, NEW s \in Sessions, ReadBack(s)
    PROVE  IInv'
<1>1. /\ at[s] = "read" /\ run[s] # None /\ run[s] \in runs
      /\ \A i \in Labels(job[s]) : LinkOf(job[s], run[s], i) \in links
  BY DEF IInv, TypeOK, SessionEvidence, Evidence, Linked, ReadBack
<1>2. Report(s) /\ End(s) /\ UNCHANGED <<bound, runs, links, refused>>
  BY <1>1 DEF ReadBack
<1>3. reported' \in SUBSET [attempt : Attempts, run : Runs]
  BY <1>1, <1>2, RunFacts DEF IInv, TypeOK, Report
<1>4. ReportsStand'
  BY <1>1, <1>2, RunFacts DEF IInv, Ledger, ReportsStand, Report, Interprets
<1>5. RefusalsJustified'
  BY <1>2, HistoryKept
<1> QED
  BY <1>2, <1>3, <1>4, <1>5, EndStep DEF IInv, TypeOK

LEMMA AbortStep ==
    ASSUME IInv, NEW s \in Sessions, Abort(s)
    PROVE  IInv'
<1>1. ReportsStand' /\ RefusalsJustified'
  BY HistoryKept DEF Abort
<1> QED
  BY <1>1, EndStep DEF IInv, TypeOK, Abort

----------------------------------------------------------------------------
\* Every step preserves the invariant.
LEMMA NextIInv == IInv /\ [Next]_vars => IInv'
<1> SUFFICES ASSUME IInv, [Next]_vars PROVE IInv'
  OBVIOUS
<1>1. CASE UNCHANGED vars
  <2>1. \A t \in Sessions : Same(t)
    BY <1>1 DEF vars, session, Same
  <2>2. TypeOK'
    BY <1>1 DEF IInv, TypeOK, vars, session
  <2>3. OneOutputPerInterpretation' /\ LinksFit' /\ InterpretationsAreAttributed'
    BY <1>1 DEF IInv, Ledger, vars, OneOutputPerInterpretation, LinksFit,
                InterpretationsAreAttributed
  <2>4. ReportsStand' /\ RefusalsJustified'
    BY <1>1, HistoryKept DEF vars
  <2>5. \A t \in Sessions : Evidence(t)'
    BY <1>1, <2>1, EvidenceKept DEF IInv, SessionEvidence, vars
  <2>6. \A s, t \in Sessions : (locked[s] /\ Holds(t, run[s].code))' => s = t
    BY <1>1 DEF IInv, SessionEvidence, vars, session, Holds
  <2> QED
    BY <2>2, <2>3, <2>4, <2>5, <2>6 DEF IInv, Ledger, SessionEvidence
<1>2. ASSUME NEW s \in Sessions, NEW a \in Attempts, Start(s, a) PROVE IInv'
  BY <1>2, StartStep
<1>3. ASSUME NEW s \in Sessions, Advance(s) PROVE IInv'
  BY <1>3, BindStep, FindStep, ParseStep, LockStep, SelectStep, InsertStep, LinkStep,
     CommitStep, ReadBackStep DEF Advance
<1>4. ASSUME NEW s \in Sessions, CommitUnseen(s) \/ Abort(s) PROVE IInv'
  BY <1>4, CommitUnseenStep, AbortStep
<1> QED
  BY <1>1, <1>2, <1>3, <1>4 DEF Next

\* The inductive invariant holds of every behaviour.
THEOREM Invariance == Spec => []IInv
BY InitIInv, NextIInv, PTL DEF Spec

\* Every variable keeps its type, and a session has an attempt while it works.
THEOREM TypeCorrect == Spec => []TypeOK
<1>1. IInv => TypeOK
  BY DEF IInv
<1> QED
  BY <1>1, Invariance, PTL

\* One interpretation has one committed output, and its links tell the truth.
THEOREM OneInterpretation == Spec => [](OneOutputPerInterpretation /\ LinksFit)
<1>1. IInv => OneOutputPerInterpretation /\ LinksFit
  BY DEF IInv, Ledger
<1> QED
  BY <1>1, Invariance, PTL

\* A run, its output and the links of its inputs become visible together.
THEOREM NoOrphanInterpretation == Spec => []InterpretationsAreAttributed
<1>1. IInv => InterpretationsAreAttributed
  BY DEF IInv, Ledger
<1> QED
  BY <1>1, Invariance, PTL

\* Reports are true: the run they name is committed, with every link.
THEOREM ReportsAreTrue == Spec => []ReportsStand
<1>1. IInv => ReportsStand
  BY DEF IInv, Ledger
<1> QED
  BY <1>1, Invariance, PTL

\* An exact retry is never refused: a refusal names a committed contradiction.
THEOREM ExactRetriesPass == Spec => []RefusalsJustified
<1>1. IInv => RefusalsJustified
  BY DEF IInv, Ledger
<1> QED
  BY <1>1, Invariance, PTL

\* A session past a step knows what it needs and cannot lose it.
THEOREM EvidenceHolds == Spec => []SessionEvidence
<1>1. IInv => SessionEvidence
  BY DEF IInv
<1> QED
  BY <1>1, Invariance, PTL

\* Committed snapshots and links never change or go.
LEMMA PublishKeeps ==
    ASSUME IInv, NEW s \in Sessions, at[s] = "commit", Publish(s)
    PROVE  KeepsInterpretations
<1>1. run[s] # None /\ (fresh[s] => \A r \in runs : r.code = run[s].code => r.output = None)
  BY DEF IInv, SessionEvidence, Evidence
<1>2. run[s].output # None
  BY <1>1, RunFacts DEF Interprets
<1>3. links \subseteq links'
  BY DEF Publish
<1>4. CASE fresh[s]
  <2>1. runs' = {r \in runs : r.code # run[s].code} \cup {run[s]}
    BY <1>4 DEF Publish
  <2>2. ASSUME NEW r \in runs, r \notin runs'
        PROVE  r.output = None /\ \E q \in runs' : q.code = r.code /\ q.output # None
    <3>1. r.code = run[s].code /\ run[s] \in runs'
      BY <2>1, <2>2
    <3> QED
      BY <1>1, <1>2, <1>4, <3>1
  <2> QED
    BY <1>3, <2>2 DEF KeepsInterpretations
<1>5. CASE ~fresh[s]
  BY <1>3, <1>5 DEF Publish, KeepsInterpretations
<1> QED
  BY <1>4, <1>5

LEMMA NextKeeps ==
    ASSUME IInv, Next
    PROVE  KeepsInterpretations
<1>1. ASSUME UNCHANGED <<runs, links>> PROVE KeepsInterpretations
  BY <1>1 DEF KeepsInterpretations
<1>2. PICK s \in Sessions : (\E a \in Attempts : Start(s, a)) \/ Advance(s)
                            \/ CommitUnseen(s) \/ Abort(s)
  BY DEF Next
<1>3. CASE Commit(s) \/ CommitUnseen(s)
  BY <1>3, PublishKeeps DEF Commit, CommitUnseen
<1>4. CASE (\E a \in Attempts : Start(s, a)) \/ Abort(s)
  BY <1>1, <1>4 DEF Start, Abort
<1>5. CASE Bind(s) \/ Find(s) \/ Parse(s) \/ Lock(s)
  BY <1>1, <1>5 DEF Bind, Find, Parse, Lock
<1>6. CASE Select(s) \/ Insert(s) \/ Link(s) \/ ReadBack(s)
  BY <1>1, <1>6 DEF Select, Insert, Link, ReadBack
<1> QED
  BY <1>2, <1>3, <1>4, <1>5, <1>6 DEF Advance

\* Only a run without a snapshot ever changes, by gaining one.
THEOREM InterpretationsKept == Spec => InterpretationsAreKept
<1>1. IInv /\ [Next]_vars => [KeepsInterpretations]_vars
  BY NextKeeps
<1> QED
  BY <1>1, Invariance, PTL DEF Spec, InterpretationsAreKept

----------------------------------------------------------------------------
\* Circles of waits.  At any time finitely many sessions work, so the one that
\* has linked the most inputs, of those that wait for a link, waits for nobody
\* in the circle.
Working == {s \in Sessions : at[s] # "idle"}
FewWork == IsFiniteSet(Working)

LEMMA OneMovesAtATime ==
    ASSUME IInv, NEW s \in Sessions,
           (\E a \in Attempts : Start(s, a)) \/ Advance(s) \/ CommitUnseen(s) \/ Abort(s)
    PROVE  \A t \in Sessions \ {s} : at'[t] = at[t]
<1>1. at \in [Sessions -> Steps]
  BY DEF IInv, TypeOK
<1>2. ASSUME NEW x, at' = [at EXCEPT ![s] = x] PROVE \A t \in Sessions \ {s} : at'[t] = at[t]
  BY <1>1, <1>2
<1>3. ASSUME at' = at PROVE \A t \in Sessions \ {s} : at'[t] = at[t]
  BY <1>3
<1>4. ASSUME NEW a \in Attempts, Start(s, a) PROVE \A t \in Sessions \ {s} : at'[t] = at[t]
  BY <1>2, <1>4 DEF Start
<1>5. CASE Bind(s) \/ Find(s) \/ Parse(s)
  BY <1>2, <1>3, <1>5 DEF Bind, Find, Parse, Goto, Refuse, End
<1>6. CASE Lock(s) \/ Select(s) \/ Insert(s)
  BY <1>2, <1>6 DEF Lock, Select, Insert, Goto, Refuse, End
<1>7. CASE Link(s) \/ Commit(s) \/ ReadBack(s)
  BY <1>2, <1>3, <1>7 DEF Link, Commit, ReadBack, Goto, End
<1>8. CASE CommitUnseen(s) \/ Abort(s)
  BY <1>2, <1>8 DEF CommitUnseen, Abort, Goto, End
<1> QED
  BY <1>4, <1>5, <1>6, <1>7, <1>8 DEF Advance

LEMMA FewGoOnWorking == IInv /\ FewWork /\ [Next]_vars => FewWork'
<1> SUFFICES ASSUME IInv, IsFiniteSet(Working), [Next]_vars PROVE IsFiniteSet(Working')
  BY DEF FewWork
<1>1. CASE UNCHANGED vars
  BY <1>1 DEF vars, session, Working
<1>2. CASE Next
  <2>1. PICK s \in Sessions : (\E a \in Attempts : Start(s, a)) \/ Advance(s)
                              \/ CommitUnseen(s) \/ Abort(s)
    BY <1>2 DEF Next
  <2>2. Working' \subseteq Working \cup {s}
    BY <2>1, OneMovesAtATime DEF Working
  <2>3. IsFiniteSet(Working \cup {s})
    BY FS_AddElement
  <2> QED
    BY <2>2, <2>3, FS_Subset
<1> QED
  BY <1>1, <1>2

\* A session waits for one that is further: the lock is awaited from a session
\* past it, and a link from one that has linked more inputs.
LEMMA WaitsForSomeoneFurther ==
    ASSUME IInv, NEW v \in Sessions, NEW w \in Sessions, Waits(v, w)
    PROVE  \/ at[v] = "lock" /\ at[w] \in {"select", "insert", "link", "commit"}
           \/ at[v] = "link" /\ at[w] = "commit"
           \/ at[v] = "link" /\ at[w] = "link" /\ done[v] < done[w]
<1>1. CASE at[v] = "lock" /\ Holds(w, run[v].code)
  BY <1>1 DEF Holds, IInv, SessionEvidence, Evidence
<1>2. CASE at[v] = "insert" /\ fresh[w] /\ run[w].code = run[v].code
  <2>1. locked[v] /\ locked[w]
    BY <1>2 DEF IInv, SessionEvidence, Evidence
  <2>2. v = w
    BY <1>2, <2>1 DEF IInv, SessionEvidence, Holds
  <2> QED
    BY <2>2 DEF Waits
<1>3. ASSUME at[v] = "link", NEW l \in drawn[w], SameKey(l, NextLink(v))
      PROVE  \/ at[w] = "commit"
             \/ at[w] = "link" /\ done[v] < done[w]
  <2>1. at[w] \in {"link", "commit"} /\ run[v] # None /\ run[w] # None
    BY <1>3 DEF IInv, SessionEvidence, Evidence
  <2>2. PICK i \in Linked(w) : l = LinkOf(job[w], run[w], i)
    BY DEF IInv, SessionEvidence, Evidence
  <2>3. job[w].inputs[i] = job[v].inputs[done[v] + 1] /\ run[w].code = run[v].code
    BY <1>3, <2>2 DEF SameKey, LinkOf, NextLink, Position
  <2>4. /\ job[v] \in Attempts /\ job[w] \in Attempts
        /\ job[v].recipe = job[w].recipe
    BY <2>1, <2>3, RunFacts DEF Interprets
  <2>5. done[v] + 1 \in Labels(job[v])
    BY <1>3, NextLinkFacts DEF Position
  <2>6. ASSUME at[w] = "link" PROVE done[v] < done[w]
    <3>1. i \in 1 .. done[w] /\ done[w] \in Nat /\ done[w] < Len(job[w].inputs)
      BY <2>2, <2>6 DEF Linked, IInv, TypeOK, SessionEvidence, Evidence
    <3>2. i \in Labels(job[w])
      BY <2>4, <3>1, AttemptShape
    <3>3. i = done[v] + 1
      BY <2>3, <2>4, <2>5, <3>2, LabelsAreStable
    <3>4. done[v] \in Nat
      BY DEF IInv, TypeOK
    <3> QED
      BY <3>1, <3>3, <3>4
  <2> QED
    BY <1>3, <2>1, <2>6
<1> QED
  BY <1>1, <1>2, <1>3 DEF Waits

LEMMA NoCircle ==
    ASSUME IInv, IsFiniteSet(Working)
    PROVE  NoWaitCycle
<1> SUFFICES ASSUME NEW S \in SUBSET Sessions, S # {}
             PROVE  \E v \in S : \A w \in S : ~Waits(v, w)
  BY DEF NoWaitCycle
<1>1. CASE \E v \in S : at[v] \notin {"lock", "link"}
  BY <1>1, WaitsForSomeoneFurther
<1>2. CASE \A v \in S : at[v] = "lock"
  BY <1>2, WaitsForSomeoneFurther
<1>3. CASE /\ \A v \in S : at[v] \in {"lock", "link"}
           /\ \E v \in S : at[v] = "link"
  <2> DEFINE L == {v \in S : at[v] = "link"}
             T == {done[v] : v \in L}
  <2>1. T \subseteq Nat /\ T # {}
    BY <1>3 DEF IInv, TypeOK
  <2>2. IsFiniteSet(L)
    <3>1. L \subseteq Working
      BY DEF Working
    <3> QED
      BY <3>1, FS_Subset
  <2>3. PICK n \in Nat : \A v \in L : done[v] <= n
    <3>1. [v \in L |-> done[v]] \in [L -> Nat]
      BY DEF IInv, TypeOK
    <3> HIDE DEF L
    <3>2. PICK n \in Nat : \A v \in L : [u \in L |-> done[u]][v] <= n
      BY <2>2, <3>1, FinitelyManyTimes
    <3> QED
      BY <3>2
  <2>4. \A x \in T : x <= n
    BY <2>3
  <2>5. PICK x \in T : \A y \in T : y <= x
    <3> HIDE DEF T
    <3> QED
      BY <2>1, <2>4, GreatestNatural
  <2>6. PICK v \in L : x = done[v]
    OBVIOUS
  <2>7. ASSUME NEW w \in S, Waits(v, w) PROVE FALSE
    <3>1. at[w] = "link" /\ done[v] < done[w]
      BY <1>3, <2>7, WaitsForSomeoneFurther
    <3>2. done[w] <= done[v]
      BY <2>5, <2>6, <3>1
    <3>3. done[v] \in Nat /\ done[w] \in Nat
      BY DEF IInv, TypeOK
    <3> QED
      BY <3>1, <3>2, <3>3
  <2> QED
    BY <2>7
<1> QED
  BY <1>1, <1>2, <1>3

\* Jobs never wait for each other in a circle, however many there are and
\* whichever captures they share.
THEOREM NoDeadlock == Spec => []NoWaitCycle
<1>1. Init => FewWork
  BY FS_EmptySet DEF Init, Working, FewWork
<1>2. Spec => [](FewWork)
  BY <1>1, Invariance, FewGoOnWorking, PTL DEF Spec
<1>3. IInv /\ FewWork => NoWaitCycle
  BY NoCircle DEF FewWork
<1> QED
  BY <1>2, <1>3, Invariance, PTL

----------------------------------------------------------------------------
\* The refinement.  A locator has one label, so a capture is linked to an
\* interpretation once.
OneLabelEach == Table!Unambiguous(links)

LEMMA LabelsAreUnique ==
    ASSUME IInv
    PROVE  OneLabelEach
<1> SUFFICES ASSUME NEW k \in links, NEW l \in links, k.capture = l.capture, k.code = l.code
             PROVE  k = l
  BY DEF OneLabelEach, Table!Unambiguous
<1>1. PICK a \in Attempts : /\ a.recipe = k.code.recipe /\ k.label \in Labels(a)
                            /\ a.inputs[k.label] = k.capture
  BY DEF IInv, Ledger, LinksFit
<1>2. PICK b \in Attempts : /\ b.recipe = l.code.recipe /\ l.label \in Labels(b)
                            /\ b.inputs[l.label] = l.capture
  BY DEF IInv, Ledger, LinksFit
<1>3. k.label = l.label
  BY <1>1, <1>2, LabelsAreStable
<1>4. /\ k = [capture |-> k.capture, code |-> k.code, label |-> k.label]
      /\ l = [capture |-> l.capture, code |-> l.code, label |-> l.label]
  BY LinkShape DEF IInv, TypeOK
<1> QED
  BY <1>3, <1>4

\* What a transaction that is about to commit adds fits its run.
LEMMA DrawnLinksFit ==
    ASSUME IInv, NEW s \in Sessions, at[s] = "commit"
    PROVE  drawn[s] \in SUBSET Table!Fitting(run[s])
<1> SUFFICES ASSUME NEW l \in drawn[s] PROVE l \in Table!Fitting(run[s])
  OBVIOUS
<1>1. run[s] # None
  BY DEF IInv, SessionEvidence, Evidence
<1>2. PICK i \in Labels(job[s]) : l = LinkOf(job[s], run[s], i)
  BY DEF IInv, SessionEvidence, Evidence, Linked
<1>3. /\ l.capture = job[s].inputs[i] /\ l.code = run[s].code /\ l.label = i
      /\ i \in DOMAIN run[s].code.contents /\ l.capture \in bound
      /\ ContentOf[l.capture] = run[s].code.contents[i]
  BY <1>1, <1>2, RunFacts, LinkFits
<1>4. l = [capture |-> l.capture, code |-> l.code, label |-> l.label]
  BY LinkShape DEF IInv, TypeOK
<1>5. l \in [capture : bound, code : {run[s].code}, label : DOMAIN run[s].code.contents]
  BY <1>3, <1>4
<1> QED
  BY <1>3, <1>5 DEF Table!Fitting

LEMMA RefineCommit ==
    ASSUME IInv, OneLabelEach', NEW s \in Sessions, at[s] = "commit", Publish(s), bound' = bound
    PROVE  Table!Next
<1>1. /\ run[s] # None
      /\ fresh[s] \/ run[s] \in runs
      /\ fresh[s] => \A r \in runs : r.code = run[s].code => r.output = None
      /\ \A i \in Labels(job[s]) : LinkOf(job[s], run[s], i) \in links \cup drawn[s]
  BY DEF IInv, SessionEvidence, Evidence, Linked
<1>2. run[s] \in Complete(Runs) /\ DOMAIN run[s].code.contents = Labels(job[s])
  BY <1>1, RunFacts, CodeFields DEF Complete, Interprets
<1>3. Table!Add(drawn[s])
  BY DEF Publish, OneLabelEach, Table!Add, Table!Unambiguous
<1>4. CASE fresh[s]
  <2>1. Complete(runs)' = Complete(runs) \cup {run[s]}
    BY <1>1, <1>2, <1>4 DEF Publish, Complete
  <2>2. \A q \in Complete(runs) : q.code # run[s].code
    BY <1>1, <1>4 DEF Complete
  <2>3. ASSUME NEW i \in DOMAIN run[s].code.contents
        PROVE  \E l \in drawn[s] : l.label = i
    <3>1. LinkOf(job[s], run[s], i) \in links \cup drawn[s]
      BY <1>1, <1>2
    <3>2. LinkOf(job[s], run[s], i).code = run[s].code /\ LinkOf(job[s], run[s], i).label = i
      BY DEF LinkOf
    <3>3. LinkOf(job[s], run[s], i) \notin links
      BY <1>1, <1>4, <3>2 DEF IInv, Ledger, LinksFit
    <3> QED
      BY <3>1, <3>2, <3>3
  <2>4. Table!Interpret(run[s])
    BY <1>3, <2>1, <2>2, <2>3, DrawnLinksFit DEF Table!Interpret
  <2> QED
    BY <1>2, <2>4 DEF Table!Next
<1>5. CASE ~fresh[s]
  <2>1. Complete(runs)' = Complete(runs) /\ run[s] \in Complete(runs)
    BY <1>1, <1>2, <1>5 DEF Publish, Complete
  <2>2. Table!Attach(run[s])
    BY <1>3, <2>1, DrawnLinksFit DEF Table!Attach
  <2> QED
    BY <1>2, <2>2 DEF Table!Next
<1> QED
  BY <1>4, <1>5

LEMMA RefineBind ==
    ASSUME IInv, NEW s \in Sessions, Bind(s)
    PROVE  Table!Next
<1> DEFINE c == job[s].inputs[done[s] + 1]
<1>1. job[s] \in Attempts /\ done[s] \in Nat /\ done[s] < Len(job[s].inputs)
  BY DEF IInv, TypeOK, SessionEvidence, Evidence, Bind
<1>2. c \in Table!Captures
  BY <1>1, AttemptShape DEF Captures, Table!Captures
<1>3. Table!Bind(c)
  BY DEF Bind, Complete, Table!Bind
<1> QED
  BY <1>2, <1>3 DEF Table!Next

LEMMA RefineNext == IInv /\ OneLabelEach' /\ [Next]_vars => [Table!Next]_(Table!vars)
<1> SUFFICES ASSUME IInv, OneLabelEach', [Next]_vars
             PROVE  Table!Next \/ UNCHANGED Table!vars
  OBVIOUS
<1>1. ASSUME UNCHANGED <<bound, runs, links>> PROVE UNCHANGED Table!vars
  BY <1>1 DEF Table!vars, Complete
<1>2. CASE UNCHANGED vars
  BY <1>1, <1>2 DEF vars
<1>3. CASE Next
  <2>1. PICK s \in Sessions : (\E a \in Attempts : Start(s, a)) \/ Advance(s)
                              \/ CommitUnseen(s) \/ Abort(s)
    BY <1>3 DEF Next
  <2>2. CASE Commit(s) \/ CommitUnseen(s)
    BY <2>2, RefineCommit DEF Commit, CommitUnseen
  <2>3. CASE Bind(s)
    BY <2>3, RefineBind
  <2>4. CASE (\E a \in Attempts : Start(s, a)) \/ Abort(s)
    BY <1>1, <2>4 DEF Start, Abort
  <2>5. CASE Find(s) \/ Parse(s) \/ Lock(s)
    BY <1>1, <2>5 DEF Find, Parse, Lock
  <2>6. CASE Select(s) \/ Insert(s) \/ Link(s) \/ ReadBack(s)
    BY <1>1, <2>6 DEF Select, Insert, Link, ReadBack
  <2> QED
    BY <2>1, <2>2, <2>3, <2>4, <2>5, <2>6 DEF Advance
<1> QED
  BY <1>2, <1>3

LEMMA RefineInit == Init => Table!Init
BY DEF Init, Table!Init, Captures, Table!Captures, Complete

\* Transactions that overlap implement a table to which interpretations are
\* added once, whole, and linked to captures under one label each.
THEOREM Refinement == Spec => ImplementsInterpretationTable
<1>1. Init => Table!Init
  BY RefineInit
<1>2. IInv => OneLabelEach
  BY LabelsAreUnique
<1>3. IInv /\ OneLabelEach' /\ [Next]_vars => [Table!Next]_(Table!vars)
  BY RefineNext
<1> QED
  BY <1>1, <1>2, <1>3, Invariance, PTL
  DEF Spec, ImplementsInterpretationTable, Table!Spec
=============================================================================
