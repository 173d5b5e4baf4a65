----------------------------- MODULE ParseSnapshots -----------------------------
(***************************************************************************)
(* Private interpretations of archived captures.  A parse run is identified *)
(* by the labelled bytes it read, by the recipe (parser, code revision,    *)
(* configuration) and by the parser's revision; it has one immutable       *)
(* output, and every capture that supplied the bytes is linked to it.      *)
(* Sessions are workflow jobs that overlap on one database at READ         *)
(* COMMITTED: the transformer of new captures, which first looks for an    *)
(* interpretation to reuse; the reconciliation of legacy captures; and the *)
(* callers that only persist, which are the replay of a frozen release and *)
(* the snapshot command.  persistence/parse_snapshot.py,                   *)
(* acquisition/auto_transform.py (transform_one,                           *)
(* _reuse_existing_snapshot), persistence/legacy_cosenza.py,               *)
(* publishing/archive_replay_observations.py.                              *)
(***************************************************************************)
EXTENDS Naturals, Sequences

CONSTANTS Sessions,   \* concurrent jobs with connections of their own
          Attempts,   \* [by, inputs, recipe, revision]; a capture per label
          ContentOf,  \* the bytes a capture is bound to
          Outputs,    \* what a parser may return: records and diagnostics
          None

Captures == DOMAIN ContentOf
Contents(inputs) == [i \in DOMAIN inputs |-> ContentOf[inputs[i]]]

\* The interpretation an attempt is about.  Labels are positions.
Code(a) == [contents |-> Contents(a.inputs), recipe |-> a.recipe,
            revision |-> a.revision]
Labels(a) == DOMAIN a.inputs

\* A run without an output is one that older parse persistence left behind.
Runs == [code : {Code(a) : a \in Attempts}, output : Outputs \cup {None}]
Links == {[capture |-> a.inputs[i], code |-> Code(b), label |-> i] :
              a \in Attempts, b \in Attempts, i \in UNION {Labels(c) : c \in Attempts}}

ASSUME NoneIsNothing == None \notin Attempts \cup Outputs \cup Runs
ASSUME AttemptsAreWellFormed ==
    \A a \in Attempts :
        /\ a.by \in {"transform", "reconcile", "persist"}
        /\ a.inputs \in Seq(Captures) /\ a.inputs # <<>>
        /\ \A i, j \in Labels(a) : a.inputs[i] = a.inputs[j] => i = j

\* A capture is of one locator, and the configuration gives a locator one label.
ASSUME LabelsAreStable ==
    \A a, b \in Attempts : \A i \in Labels(a), j \in Labels(b) :
        a.inputs[i] = b.inputs[j] /\ a.recipe = b.recipe => i = j

VARIABLES bound,     \* captures committed with durable bytes
          runs,      \* committed parse runs with their snapshots
          links,     \* committed links of captures to runs
          job,       \* the attempt a session is making
          at,        \* its step
          done,      \* inputs of the job that its step is through with
          run,       \* the run it has parsed, or found to reuse
          locked,    \* whether it holds the advisory lock of the run's code
          fresh,     \* whether its transaction has inserted the snapshot
          drawn,     \* the links its transaction has inserted
          reported,  \* [attempt, run]: interpretations reported as verified
          refused    \* [attempt, output]: conflicts that were refused

session == <<job, at, done, run, locked, fresh, drawn>>
vars == <<bound, runs, links, session, reported, refused>>

Steps == {"idle", "bind", "find", "parse", "lock", "select", "insert", "link",
          "commit", "read"}

----------------------------------------------------------------------------
\* Captures and parse runs without snapshots may be there before.
Init ==
    /\ bound \in SUBSET Captures
    /\ runs \in SUBSET [code : {Code(a) : a \in {b \in Attempts : Len(b.inputs) = 1}},
                        output : {None}]
    /\ links = {}
    /\ job = [s \in Sessions |-> None]
    /\ at = [s \in Sessions |-> "idle"]
    /\ done = [s \in Sessions |-> 0]
    /\ run = [s \in Sessions |-> None]
    /\ locked = [s \in Sessions |-> FALSE]
    /\ fresh = [s \in Sessions |-> FALSE]
    /\ drawn = [s \in Sessions |-> {}]
    /\ reported = {}
    /\ refused = {}

Start(s, a) ==
    /\ at[s] = "idle"
    /\ job' = [job EXCEPT ![s] = a]
    /\ at' = [at EXCEPT ![s] = IF a.by = "persist" THEN "parse" ELSE "bind"]
    /\ UNCHANGED <<bound, runs, links, done, run, locked, fresh, drawn, reported, refused>>

Goto(s, step) ==
    /\ at' = [at EXCEPT ![s] = step]
    /\ done' = [done EXCEPT ![s] = 0]

\* Mutant: the job is not forgotten.
EndKeepingJob(s) ==
    /\ Goto(s, "idle")
    /\ UNCHANGED job
    /\ run' = [run EXCEPT ![s] = None]
    /\ locked' = [locked EXCEPT ![s] = FALSE]
    /\ fresh' = [fresh EXCEPT ![s] = FALSE]
    /\ drawn' = [drawn EXCEPT ![s] = {}]

\* The connection is gone, and with it the transaction and its locks.
End(s) ==
    /\ Goto(s, "idle")
    /\ job' = [job EXCEPT ![s] = None]
    /\ run' = [run EXCEPT ![s] = None]
    /\ locked' = [locked EXCEPT ![s] = FALSE]
    /\ fresh' = [fresh EXCEPT ![s] = FALSE]
    /\ drawn' = [drawn EXCEPT ![s] = {}]

Refuse(s, output) ==
    /\ refused' = refused \cup {[attempt |-> job[s], output |-> output]}
    /\ End(s)

\* One capture of the job is persisted in a transaction of its own
\* (CapturePersistence) and read back.
Bind(s) ==
    /\ at[s] = "bind"
    /\ bound' = bound \cup {job[s].inputs[done[s] + 1]}
    /\ IF done[s] + 1 < Len(job[s].inputs)
         THEN done' = [done EXCEPT ![s] = @ + 1] /\ UNCHANGED at
         ELSE Goto(s, IF job[s].by = "transform" THEN "find" ELSE "parse")
    /\ UNCHANGED <<runs, links, job, run, locked, fresh, drawn, reported, refused>>

\* Mutant: the bytes alone decide.
ReusableByBytes(a) ==
    {r \in runs : r.output # None /\ r.code.contents = Contents(a.inputs)}

\* A committed snapshot over the job's complete labelled bytes under its
\* recipe, whatever revision the parser had.
Reusable(a) ==
    {r \in runs : /\ r.output # None
                  /\ r.code.contents = Contents(a.inputs)
                  /\ r.code.recipe = a.recipe}

\* _reuse_existing_snapshot: the transaction takes no lock on the run's code.
Find(s) ==
    LET matches == Reusable(job[s]) IN
    /\ at[s] = "find"
    /\ \/ /\ matches = {}
          /\ Goto(s, "parse")
          /\ UNCHANGED <<job, run, locked, fresh, drawn, refused>>
       \/ \E r \in matches :
              /\ matches = {r}
              /\ run' = [run EXCEPT ![s] = r]
              /\ Goto(s, "link")
              /\ UNCHANGED <<job, locked, fresh, drawn, refused>>
       \/ /\ \E q, r \in matches : q # r
          /\ Refuse(s, None)
    /\ UNCHANGED <<bound, runs, links, reported>>

\* The parser returns, and persist_parse_snapshot resolves the captures: each
\* has to be committed and bound to durable bytes.
Parse(s) ==
    /\ at[s] = "parse"
    /\ IF \A i \in Labels(job[s]) : job[s].inputs[i] \in bound
         THEN /\ \E output \in Outputs :
                     run' = [run EXCEPT ![s] = [code |-> Code(job[s]), output |-> output]]
              /\ Goto(s, "lock")
              /\ UNCHANGED <<job, locked, fresh, drawn>>
         ELSE End(s)
    /\ UNCHANGED <<bound, runs, links, reported, refused>>

Holds(s, code) == locked[s] /\ run[s].code = code

\* Mutant: nobody is waited for.
LockShared(s) ==
    /\ at[s] = "lock"
    /\ locked' = [locked EXCEPT ![s] = TRUE]
    /\ Goto(s, "select")
    /\ UNCHANGED <<bound, runs, links, job, run, fresh, drawn, reported, refused>>

\* pg_advisory_xact_lock on the identity of the interpretation.
Lock(s) ==
    /\ at[s] = "lock"
    /\ \A t \in Sessions \ {s} : ~Holds(t, run[s].code)
    /\ locked' = [locked EXCEPT ![s] = TRUE]
    /\ Goto(s, "select")
    /\ UNCHANGED <<bound, runs, links, job, run, fresh, drawn, reported, refused>>

\* Mutant: another output replaces the one there is.
SelectReplacing(s) ==
    LET found == {r \in runs : r.code = run[s].code /\ r.output # None} IN
    /\ at[s] = "select"
    /\ Goto(s, IF found = {} THEN "insert" ELSE "link")
    /\ fresh' = [fresh EXCEPT ![s] = found # {}]
    /\ UNCHANGED <<bound, runs, links, job, run, locked, drawn, reported, refused>>

\* The row is read again under the lock.  A snapshot that is there already has
\* to be the output the parser returned.
Select(s) ==
    LET found == {r \in runs : r.code = run[s].code /\ r.output # None} IN
    /\ at[s] = "select"
    /\ IF \A r \in found : r = run[s]
         THEN /\ Goto(s, IF found = {} THEN "insert" ELSE "link")
              /\ UNCHANGED <<job, run, locked, fresh, drawn, refused>>
         ELSE Refuse(s, run[s].output)
    /\ UNCHANGED <<bound, runs, links, reported>>

\* INSERT after a SELECT that found no snapshot: the unique indexes raise if
\* one has been committed meanwhile.
Insert(s) ==
    /\ at[s] = "insert"
    /\ \A t \in Sessions \ {s} : ~(fresh[t] /\ run[t].code = run[s].code)
    /\ IF \E r \in runs : r.code = run[s].code /\ r.output # None
         THEN Refuse(s, run[s].output)
         ELSE /\ fresh' = [fresh EXCEPT ![s] = TRUE]
              /\ Goto(s, "link")
              /\ UNCHANGED <<job, run, locked, drawn, refused>>
    /\ UNCHANGED <<bound, runs, links, reported>>

\* Mutant: a job that reuses an interpretation begins at the other end.
PositionByCaller(s) ==
    IF job[s].by = "transform" THEN Len(job[s].inputs) - done[s] ELSE done[s] + 1

\* Inputs are linked in the order of their labels.
Position(s) == done[s] + 1

NextLink(s) == [capture |-> job[s].inputs[Position(s)], code |-> run[s].code,
                label |-> Position(s)]

\* A capture is linked to a run once, under one label.
SameKey(l, k) == l.capture = k.capture /\ l.code = k.code

LinkHeld(s) == \E t \in Sessions \ {s} : \E l \in drawn[t] : SameKey(l, NextLink(s))

\* Mutant: only the primary input is linked.
LinkPrimary(s) ==
    /\ at[s] = "link"
    /\ ~LinkHeld(s)
    /\ drawn' = [drawn EXCEPT ![s] = IF \E l \in links : SameKey(l, NextLink(s))
                                      THEN @ ELSE @ \cup {NextLink(s)}]
    /\ Goto(s, "commit")
    /\ UNCHANGED <<bound, runs, links, job, run, locked, fresh, reported, refused>>

\* Mutant: a link that is there already is an error.
LinkOnce(s) ==
    /\ at[s] = "link"
    /\ ~LinkHeld(s)
    /\ IF ~\E l \in links : SameKey(l, NextLink(s))
         THEN /\ drawn' = [drawn EXCEPT ![s] = @ \cup {NextLink(s)}]
              /\ IF done[s] + 1 < Len(job[s].inputs)
                   THEN done' = [done EXCEPT ![s] = @ + 1] /\ UNCHANGED at
                   ELSE Goto(s, "commit")
              /\ UNCHANGED <<job, run, locked, fresh>>
         ELSE End(s)
    /\ UNCHANGED <<bound, runs, links, reported, refused>>

\* INSERT ... ON CONFLICT DO NOTHING, behind a trigger that compares the bytes
\* of the capture with those of the labelled input.
Link(s) ==
    /\ at[s] = "link"
    /\ ~LinkHeld(s)
    /\ IF ContentOf[NextLink(s).capture] = run[s].code.contents[NextLink(s).label]
         THEN /\ drawn' = [drawn EXCEPT ![s] =
                     IF \E l \in links : SameKey(l, NextLink(s)) THEN @
                                                                 ELSE @ \cup {NextLink(s)}]
              /\ IF done[s] + 1 < Len(job[s].inputs)
                   THEN done' = [done EXCEPT ![s] = @ + 1] /\ UNCHANGED at
                   ELSE Goto(s, "commit")
              /\ UNCHANGED <<job, run, locked, fresh>>
         ELSE End(s)
    /\ UNCHANGED <<bound, runs, links, reported, refused>>

Report(s) == reported' = reported \cup {[attempt |-> job[s], run |-> run[s]]}

\* Mutant: a run without a snapshot is not recognised.
PublishAdding(s) ==
    /\ runs' = IF fresh[s] THEN runs \cup {run[s]} ELSE runs
    /\ links' = links \cup drawn[s]

\* A snapshot joins the run that is there without one, if any.
Publish(s) ==
    /\ runs' = IF fresh[s] THEN {r \in runs : r.code # run[s].code} \cup {run[s]} ELSE runs
    /\ links' = links \cup drawn[s]

\* A caller that only persists reports what it committed; the other jobs read
\* it back first.
Commit(s) ==
    /\ at[s] = "commit"
    /\ Publish(s)
    /\ IF job[s].by = "persist"
         THEN Report(s) /\ End(s)
         ELSE /\ Goto(s, "read")
              /\ locked' = [locked EXCEPT ![s] = FALSE]
              /\ fresh' = [fresh EXCEPT ![s] = FALSE]
              /\ drawn' = [drawn EXCEPT ![s] = {}]
              /\ UNCHANGED <<job, run, reported>>
    /\ UNCHANGED <<bound, refused>>

\* The acknowledgement is lost.
CommitUnseen(s) ==
    /\ at[s] = "commit"
    /\ Publish(s)
    /\ End(s)
    /\ UNCHANGED <<bound, reported, refused>>

\* The committed snapshot is read on a connection of its own and rehashed.
ReadBack(s) ==
    /\ at[s] = "read"
    /\ IF run[s] \in runs THEN Report(s) ELSE UNCHANGED reported
    /\ End(s)
    /\ UNCHANGED <<bound, runs, links, refused>>

\* The job, its connection, or the parser fails.
Abort(s) ==
    /\ at[s] # "idle"
    /\ End(s)
    /\ UNCHANGED <<bound, runs, links, reported, refused>>

Advance(s) ==
    \/ Bind(s) \/ Find(s) \/ Parse(s)
    \/ Lock(s) \/ Select(s) \/ Insert(s)
    \/ Link(s) \/ Commit(s) \/ ReadBack(s)

Next == \E s \in Sessions :
    \/ \E a \in Attempts : Start(s, a)
    \/ Advance(s) \/ CommitUnseen(s) \/ Abort(s)

Spec == Init /\ [][Next]_vars

\* A job that ends although its next step would not have ended it.
Interrupted(s) == at[s] # "idle" /\ at'[s] = "idle" /\ ~Advance(s)

\* Jobs go on, locks are granted in turn, every attempt is made again, and
\* failures are not for ever.
FairSpec ==
    /\ Spec
    /\ \A s \in Sessions : SF_vars(Advance(s))
    /\ \A a \in Attempts : SF_vars(\E s \in Sessions : Start(s, a))
    /\ <>[][\A s \in Sessions : ~Interrupted(s)]_vars
=============================================================================
