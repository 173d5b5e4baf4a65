------------------------ MODULE ParseSnapshotsProperties ------------------------
(***************************************************************************)
(* What must hold of private interpretations, whatever jobs overlap and    *)
(* wherever one of them is cut off.                                        *)
(***************************************************************************)
EXTENDS ParseSnapshots

\* Every variable has its type, and a session has an attempt while it works.
TypeOK ==
    /\ bound \in SUBSET Captures
    /\ runs \in SUBSET Runs
    /\ links \in SUBSET Links
    /\ job \in [Sessions -> Attempts \cup {None}]
    /\ at \in [Sessions -> Steps]
    /\ \A s \in Sessions : at[s] = "idle" <=> job[s] = None
    /\ done \in [Sessions -> Nat]
    /\ run \in [Sessions -> Runs \cup {None}]
    /\ locked \in [Sessions -> BOOLEAN]
    /\ fresh \in [Sessions -> BOOLEAN]
    /\ drawn \in [Sessions -> SUBSET Links]
    /\ reported \in SUBSET [attempt : Attempts, run : Runs]
    /\ refused \in SUBSET [attempt : Attempts, output : Outputs \cup {None}]

\* One interpretation has one output: two jobs that parse the same bytes by
\* the same code at the same time never leave two runs behind, and a run that
\* older persistence left without an output is completed, not doubled.
OneOutputPerInterpretation ==
    \A q, r \in runs : q.code = r.code => q = r

\* A link says the truth: the capture supplied exactly the bytes that the run
\* read under that label, and the run has an output.
LinksFit ==
    \A l \in links :
        /\ l.label \in DOMAIN l.code.contents
        /\ ContentOf[l.capture] = l.code.contents[l.label]
        /\ \E r \in runs : r.code = l.code /\ r.output # None
        /\ \E a \in Attempts : /\ a.recipe = l.code.recipe /\ l.label \in Labels(a)
                             /\ a.inputs[l.label] = l.capture

\* No interpretation is visible before a committed capture is linked to each of
\* its inputs: the run, its output and its links appear together.
InterpretationsAreAttributed ==
    \A r \in runs : r.output # None =>
        \A i \in DOMAIN r.code.contents :
            \E l \in links : l.code = r.code /\ l.label = i /\ l.capture \in bound

\* The run is an interpretation of the attempt's bytes by its recipe.
Interprets(r, a) ==
    /\ r.output # None
    /\ r.code.contents = Contents(a.inputs) /\ r.code.recipe = a.recipe
    /\ r.code.revision # a.revision => a.by = "transform"

LinkOf(a, r, i) == [capture |-> a.inputs[i], code |-> r.code, label |-> i]

\* A report is true: the run it names is committed with the output it reports,
\* over the bytes and the recipe of the attempt, and every capture of the
\* attempt is linked to it under its own label.  Only the transformer may
\* report an interpretation by another revision of the parser.
ReportsStand ==
    \A p \in reported :
        /\ p.run \in runs /\ Interprets(p.run, p.attempt)
        /\ \A i \in Labels(p.attempt) : LinkOf(p.attempt, p.run, i) \in links

\* A refusal is deserved: the interpretation is committed with another output,
\* or the attempt matches two interpretations.  An exact retry never fails for
\* losing a race ("Repeated and concurrent persistence of the exact same
\* interpretation is idempotent", docs/architecture/
\* parse-observation-snapshots.md).
RefusalsJustified ==
    \A f \in refused :
        \/ \E r \in runs : r.code = Code(f.attempt) /\ r.output \notin {None, f.output}
        \/ f.output = None /\ \E q, r \in Reusable(f.attempt) : q # r

\* The links and the snapshots there are stay.
KeepsInterpretations ==
    /\ links \subseteq links'
    /\ \A r \in runs :
           \/ r \in runs'
           \/ r.output = None /\ \E q \in runs' : q.code = r.code /\ q.output # None

\* A snapshot or a link that was committed never changes or goes; only a run
\* without a snapshot gains one.
InterpretationsAreKept == [][KeepsInterpretations]_vars

\* The inputs of the job that a link has been seen or inserted for.
Linked(s) == IF at[s] = "link" THEN 1 .. done[s]
             ELSE IF at[s] \in {"commit", "read"} THEN Labels(job[s]) ELSE {}

\* What a session has to know at its step.
Evidence(s) ==
    /\ run[s] = None <=> at[s] \in {"idle", "bind", "find", "parse"}
    /\ run[s] # None => Interprets(run[s], job[s])
    /\ at[s] = "find" => job[s].by = "transform"
    /\ at[s] = "bind" => \A i \in 1 .. done[s] : job[s].inputs[i] \in bound
    /\ at[s] = "find" \/ run[s] # None =>
           \A i \in Labels(job[s]) : job[s].inputs[i] \in bound
    /\ at[s] \in {"bind", "link"} => done[s] < Len(job[s].inputs)
    /\ at[s] \notin {"bind", "link"} => done[s] = 0
    /\ at[s] \in {"select", "insert"} => locked[s]
    /\ locked[s] => at[s] \in {"select", "insert", "link", "commit"}
    /\ at[s] = "lock" \/ locked[s] => run[s].code = Code(job[s])
    /\ fresh[s] => locked[s] /\ at[s] \in {"link", "commit"}
    /\ at[s] \in {"link", "commit", "read"} => fresh[s] \/ run[s] \in runs
    /\ at[s] = "insert" \/ fresh[s] =>
           \A r \in runs : r.code = run[s].code => r.output = None
    /\ drawn[s] # {} => at[s] \in {"link", "commit"}
    /\ \A l \in drawn[s] : \E i \in Linked(s) : l = LinkOf(job[s], run[s], i)
    /\ \A i \in Linked(s) : LinkOf(job[s], run[s], i) \in links \cup drawn[s]

\* A session past a step knows what it needs, and no other session can deprive
\* it of that before it commits: under the lock nobody else adds a snapshot of
\* the run it is about to insert, the captures of its run are committed, and
\* each input it is through with is linked already or by itself.
SessionEvidence ==
    /\ \A s \in Sessions : Evidence(s)
    /\ \A s, t \in Sessions : locked[s] /\ Holds(t, run[s].code) => s = t

\* v waits for w to end.
Waits(v, w) ==
    /\ v # w
    /\ \/ at[v] = "lock" /\ Holds(w, run[v].code)
       \/ at[v] = "insert" /\ fresh[w] /\ run[w].code = run[v].code
       \/ at[v] = "link" /\ \E l \in drawn[w] : SameKey(l, NextLink(v))

\* Jobs never wait for each other in a circle, although a job that reuses an
\* interpretation links captures without the lock that a job that has parsed
\* it again holds while it links the same captures.
NoWaitCycle ==
    \A S \in (SUBSET Sessions) \ {{}} : \E v \in S : \A w \in S : ~Waits(v, w)

\* Retries converge: an attempt whose captures are committed, by a parser that
\* always returns the same output for it, is reported in the end, whatever
\* attempt is cut off and whoever else interprets the same bytes.
AttemptsAreReported ==
    \A a \in Attempts :
        (\A i \in Labels(a) : a.inputs[i] \in bound) ~> (\E p \in reported : p.attempt = a)

----------------------------------------------------------------------------
Complete(rs) == {r \in rs : r.output # None}

Table == INSTANCE InterpretationTable
           WITH Snapshots <- Complete(Runs), interpretations <- Complete(runs)

\* However many statements a transaction takes, and whichever of them overlap,
\* a reader sees each interpretation appear once and with all its links, and
\* further captures linked to it under one label each.
ImplementsInterpretationTable == Table!Spec
=============================================================================
