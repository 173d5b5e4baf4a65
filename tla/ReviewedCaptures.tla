---------------------------- MODULE ReviewedCaptures ----------------------------
(***************************************************************************)
(* Reviewed sources whose bytes have changed are interpreted in private.    *)
(* A worker reads the robot-state branch, whatever the robot does meanwhile,*)
(* takes the last capture of each resource of a source, commits the captures*)
(* one by one, parses them all, and reports.  The sources of one authority  *)
(* belong to one shard, and its workers do not overlap.                     *)
(* acquisition/auto_transform.py, workflows/transform-reviewed-captures.yml.*)
(***************************************************************************)
EXTENDS PrefectureRobots

CONSTANTS
    SourceOrder,     \* the reviewed sources, in the order of the configuration
    LabelOrder,      \* the labels of resources, in their order
    UrlOf,           \* source -> label -> URL, as they were reviewed
    ApprovedBytes,   \* source -> label -> contents that the review approved
    EditionBound,    \* sources whose parser needs a review for every edition
    Unreadable       \* contents that no parser accepts

VARIABLES worker,            \* the worker under way, or None
          committed,         \* captures in the database
          interpretations,   \* snapshots in the database
          report             \* source -> its outcome in the last report, or None

vars == <<site, state, run, catalogue, lost, disturbances, worker, committed, interpretations, report>>
transform == <<worker, committed, interpretations, report>>

Sources == DOMAIN UrlOf
LabelsOf(s) == DOMAIN UrlOf[s]

ASSUME TransformAssumption ==
    /\ \A s \in Sources, u \in Urls :
          s \in ToSet(KeysAt[u]) <=> \E l \in LabelsOf(s) : UrlOf[s][l] = u
    /\ SourceOrder \in Seq(Sources) /\ LabelOrder \in Seq(ToSet(LabelOrder))
    /\ DOMAIN ApprovedBytes = Sources /\ ToSet(SourceOrder) = Sources
    /\ \A s \in Sources : LabelsOf(s) \subseteq ToSet(LabelOrder)
    /\ None # {}

----------------------------------------------------------------------------
(* Selection.                                                               *)

\* Mutant: an earlier capture of a source, and not the last.
EarlierCapture(u, s) ==
    LET r == state.resources[u]
        earlier == {c.bytes : c \in {x \in r.history : x.key = s}} \ {r.latest[s]}
    IN IF earlier = {} THEN r.latest[s] ELSE CHOOSE b \in earlier : TRUE

\* Rejected answers are captures, too.
LastCapture(u, s) == state.resources[u].latest[s]

Inputs(s) == [l \in LabelsOf(s) |-> LastCapture(UrlOf[s][l], s)]

\* A source with a resource that has no capture of its own is deferred.
Complete(s) == \A l \in LabelsOf(s) : Inputs(s)[l] # None

Changed(s) == Complete(s) /\ Inputs(s) # ApprovedBytes[s]

Job(s) == [source |-> s, inputs |-> Inputs(s)]

Jobs == {s \in Sources : Changed(s)}

\* The first of some sources or labels, in their order.
FirstOf(order, S) ==
    order[CHOOSE n \in DOMAIN order : order[n] \in S /\ \A m \in 1 .. n - 1 : order[m] \notin S]

Capture(job, l) == [url |-> UrlOf[job.source][l], key |-> job.source, bytes |-> job.inputs[l]]

Outcome(job, status) == [inputs |-> job.inputs, status |-> status]

NoOutcomes == [s \in Sources |-> None]

StartWorker ==
    /\ worker = None
    /\ worker' = [todo |-> Jobs, inputs |-> [s \in Sources |-> Inputs(s)],
                  left |-> None, done |-> NoOutcomes]
    /\ UNCHANGED <<committed, interpretations, report>> /\ UNCHANGED robot

\* The worker has no database or no archive: every job is reported as blocked.
Block ==
    /\ worker = None /\ Disturb /\ Jobs # {}
    /\ report' = [s \in Sources |-> IF s \in Jobs THEN Outcome(Job(s), "blocked") ELSE None]
    /\ UNCHANGED <<site, state, run, catalogue, lost, worker, committed, interpretations>>

----------------------------------------------------------------------------
(* One job after the other: every member is read back from the archive,     *)
(* then each is committed in a transaction of its own, in the order of the  *)
(* labels, then the source is parsed.                                       *)

InJob == worker # None /\ worker.todo # {}
SourceNow == FirstOf(SourceOrder, worker.todo)
JobNow == [source |-> SourceNow, inputs |-> worker.inputs[SourceNow]]

EndJob(status) ==
    worker' = [todo |-> worker.todo \ {SourceNow}, inputs |-> worker.inputs, left |-> None,
               done |-> [worker.done EXCEPT ![SourceNow] = Outcome(JobNow, status)]]

IsArchived(l) == Capture(JobNow, l) \in catalogue

Verify ==
    /\ InJob /\ worker.left = None
    /\ IF \A l \in LabelsOf(SourceNow) : IsArchived(l)
         THEN worker' = [worker EXCEPT !.left = LabelsOf(SourceNow)]
         ELSE EndJob("quarantined")
    /\ UNCHANGED <<committed, interpretations, report>> /\ UNCHANGED robot

Commit ==
    /\ InJob /\ worker.left \notin {None, {}}
    /\ committed' = committed \cup {Capture(JobNow, FirstOf(LabelOrder, worker.left))}
    /\ worker' = [worker EXCEPT !.left = @ \ {FirstOf(LabelOrder, @)}]
    /\ UNCHANGED <<interpretations, report>> /\ UNCHANGED robot

\* Mutant: members that are not committed yet do not keep a source from the parser.
OneCommitted == InJob /\ worker.left # None

AllCommitted == InJob /\ worker.left = {}

\* Stored interpretations of the same bytes are taken before the parser.
Reuse ==
    /\ AllCommitted /\ JobNow \in interpretations
    /\ EndJob("reused")
    /\ UNCHANGED <<committed, interpretations, report>> /\ UNCHANGED robot

Parses(job) ==
    /\ job.source \notin EditionBound
    /\ \A l \in LabelsOf(job.source) : job.inputs[l] \notin Unreadable

Interpret ==
    /\ AllCommitted /\ JobNow \notin interpretations /\ Parses(JobNow)
    /\ interpretations' = interpretations \cup {JobNow}
    /\ EndJob("interpreted")
    /\ UNCHANGED <<committed, report>> /\ UNCHANGED robot

Quarantine ==
    /\ AllCommitted /\ JobNow \notin interpretations /\ ~Parses(JobNow)
    /\ EndJob("quarantined")
    /\ UNCHANGED <<committed, interpretations, report>> /\ UNCHANGED robot

\* Any step of a job fails: the job is quarantined, what it committed stays.
FailJob ==
    /\ InJob /\ Disturb
    /\ EndJob("quarantined")
    /\ UNCHANGED <<site, state, run, catalogue, lost, committed, interpretations, report>>

EndWorker ==
    /\ worker # None /\ worker.todo = {}
    /\ report' = worker.done
    /\ worker' = None
    /\ UNCHANGED <<committed, interpretations>> /\ UNCHANGED robot

StopWorker ==
    /\ worker # None /\ Disturb
    /\ worker' = None
    /\ UNCHANGED <<site, state, run, catalogue, lost, committed, interpretations, report>>

WorkerStep == Verify \/ Commit \/ Reuse \/ Interpret \/ Quarantine \/ EndWorker

----------------------------------------------------------------------------
InitAll ==
    /\ Init
    /\ worker = None /\ committed = {} /\ interpretations = {}
    /\ report = NoOutcomes

Next ==
    \/ RobotNext /\ UNCHANGED transform
    \/ StartWorker \/ Block \/ WorkerStep \/ FailJob \/ StopWorker

\* Workers are started every week and after runs of the robots.
Spec ==
    /\ InitAll /\ [][Next]_vars
    /\ WF_robot(RobotStep)
    /\ WF_transform(StartWorker \/ WorkerStep)
=============================================================================
