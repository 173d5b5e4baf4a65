--------------------------- MODULE PrefectureRobots ---------------------------
(***************************************************************************)
(* The robot of one authority.  A run visits the pages and documents of the *)
(* authority within a limit of requests, archives what it reads, and writes *)
(* a report that becomes the entry of the authority on the robot-state      *)
(* branch, from which the next run starts.  Robots of other authorities     *)
(* have entries of their own.                                               *)
(* acquisition/prefecture_robots.py, workflows/prefecture-robots.yml.       *)
(***************************************************************************)
EXTENDS Naturals, SequencesExt

CONSTANTS
    Landing,          \* the landing pages in the catalogue of the robot
    KeysAt,           \* URL -> the source keys approved for it, in their order
    Links,            \* page -> the URLs it links to; what has no links is a document
    ReverseUrls,      \* all URLs, in the reverse of their order
    MaxDepth, MaxRequests,
    Editions,         \* URL -> the contents that it serves, one after the other; None: no answer
    Flaky,            \* URLs that may fail at any visit
    Legacy,           \* approved URLs that were captured before captures had a history
    Html, Discovery, None,
    MaxDisturbances   \* bound on every other fault

VARIABLES site,          \* URL -> the number of the edition that it serves now
          state,         \* the entry of the authority on the branch
          run,           \* the run under way, or None
          catalogue,     \* verified captures in the archive
          lost,          \* captures that no report names: their run or receipt was lost
          disturbances

robot == <<site, state, run, catalogue, lost, disturbances>>

Urls == DOMAIN Editions
Documents == Urls \ DOMAIN Links
Approved == {u \in Urls : KeysAt[u] # <<>>}
Current == Landing \cup Approved
Keys == {Discovery} \cup UNION {ToSet(KeysAt[u]) : u \in DOMAIN KeysAt}

ASSUME RobotAssumption ==
    /\ Landing \subseteq DOMAIN Links /\ DOMAIN Links \subseteq Urls
    /\ DOMAIN KeysAt = Urls /\ ToSet(ReverseUrls) = Urls
    /\ MaxDepth \in Nat /\ MaxRequests \in Nat /\ Flaky \subseteq Urls /\ Legacy \subseteq Approved
    /\ \A u \in DOMAIN Links : Links[u] \subseteq Urls
    /\ \A u \in Urls :
          /\ Editions[u] \in Seq(ToSet(Editions[u])) /\ Len(Editions[u]) > 0
          /\ None \in ToSet(Editions[u]) => u \in Flaky
          /\ Html \notin ToSet(Editions[u])   \* what stands in place of a document
          /\ KeysAt[u] \in Seq(ToSet(KeysAt[u]))
    /\ ReverseUrls \in Seq(Urls)
    /\ None \notin Keys /\ None # Html

Served(u) == Editions[u][site[u]]

\* What is captured without a source is kept under the key of the discovery.
CaptureKeys(u) == IF u \in Approved THEN KeysAt[u] ELSE <<Discovery>>

----------------------------------------------------------------------------
(* What is known of a URL: the bytes that passed all checks last, the bytes *)
(* archived last, the time of the last check (0 is never), the captures and *)
(* the last of them under each key.                                         *)

Unknown == [sha |-> None, archived |-> None, checked |-> 0,
            history |-> {}, latest |-> [k \in Keys |-> None]]

RecordedUnder(keys, b) == {[key |-> k, bytes |-> b] : k \in keys}

Recorded(r, keys, b) ==
    [r EXCEPT !.history = @ \cup RecordedUnder(keys, b),
              !.latest = [k \in Keys |-> IF k \in keys THEN b ELSE @[k]]]

CapturesOf(u, history) == {[url |-> u, key |-> c.key, bytes |-> c.bytes] : c \in history}

CapturesIn(resources) == UNION {CapturesOf(u, resources[u].history) : u \in Urls}

Contents == {Html, None} \cup UNION {ToSet(Editions[u]) : u \in Urls}
Resources ==
    [sha : Contents, archived : Contents, checked : Nat,
     history : SUBSET [key : Keys \cup {None}, bytes : Contents], latest : [Keys -> Contents]]
Items == [url : Urls, depth : Nat, role : {"landing", "source", "candidate"}]
States == [resources : [Urls -> Resources], pending : SUBSET Items, cycle : Nat]
Runs == [resources : [Urls -> Resources], queue : SUBSET Items, seen : SUBSET Urls,
         at : Nat, continuing : BOOLEAN, cycle : Nat]

ASSUME NoneIsNoRun == None \notin Runs

\* The entry before the first run.  Captures without a history have no time and
\* are kept under no key.
FirstReport ==
    [resources |-> [u \in Urls |->
        IF u \in Legacy
          THEN LET b == Editions[u][1]
               IN [sha |-> b, archived |-> b, checked |-> 1,
                   history |-> {[key |-> None, bytes |-> b]}, latest |-> Unknown.latest]
          ELSE Unknown],
     pending |-> {}, cycle |-> 0]

----------------------------------------------------------------------------
(* Only the order of times matters: they are numbered anew in each report.  *)

TimesOf(report) ==
    ({report.resources[u].checked : u \in Urls} \cup {report.cycle}) \ {0}
NumberOf(t, report) == Cardinality({x \in TimesOf(report) : x <= t})
Renumbered(report) ==
    LET Checked(u) == report.resources[u].checked
    IN [report EXCEPT !.cycle = NumberOf(@, report),
                      !.resources = [u \in Urls |->
                          [report.resources[u] EXCEPT !.checked = NumberOf(Checked(u), report)]]]
Now == Cardinality(TimesOf(state)) + 1

----------------------------------------------------------------------------
(* The queue of a run.                                                      *)

Item(u, depth, role) == [url |-> u, depth |-> depth, role |-> role]

InitialQueue ==
    {Item(u, 0, "landing") : u \in Landing} \cup {Item(u, 0, "source") : u \in Approved}
        \cup state.pending

\* A run that goes on where the last one stopped leaves out what was checked
\* in the same cycle, but never a landing page or an approved resource.
NeedsVisit(u) ==
    LET before == run.resources[u] IN
    \/ u \in Current \/ ~run.continuing
    \/ before.checked < run.cycle \/ before.archived # before.sha

Open == IF run = None THEN {}
        ELSE {i \in run.queue : i.url \notin run.seen /\ NeedsVisit(i.url)}

Class(i) == CASE i.url \in Landing -> 0
              [] i.url \in Approved -> 1
              [] i.role = "landing" -> 2
              [] OTHER -> 3

\* Landing pages, approved resources, pages, documents; of these the ones that
\* were checked least recently; of these by the reverse order of URLs.
Place == [u \in Urls |-> CHOOSE n \in DOMAIN ReverseUrls : ReverseUrls[n] = u]
Before(i, j) ==
    LET Checked(k) == run.resources[k.url].checked
    IN \/ Class(i) < Class(j)
       \/ /\ Class(i) = Class(j)
          /\ \/ Checked(i) < Checked(j)
             \/ Checked(i) = Checked(j) /\ Place[i.url] < Place[j.url]

\* One item, or several of one URL.
First(open) == {i \in open : \A j \in open : ~Before(j, i)}

Working == run # None /\ Cardinality(run.seen) < MaxRequests /\ Open # {}

\* Mutant: nothing is kept for the next run.
FrontierLost(queue) == {}

\* What is left for the next run, each URL at the least depth it was found at.
Frontier(queue) ==
    {i \in queue : \A j \in queue : j.url = i.url => i.depth <= j.depth}

----------------------------------------------------------------------------
Init ==
    /\ site = [u \in Urls |-> 1]
    /\ state = FirstReport
    /\ run = None
    /\ catalogue = CapturesIn(state.resources)
    /\ lost = {}
    /\ disturbances = 0

Disturb == disturbances < MaxDisturbances /\ disturbances' = disturbances + 1

\* An office replaces a document.
Replace(u) ==
    /\ site[u] < Len(Editions[u])
    /\ site' = [site EXCEPT ![u] = @ + 1]
    /\ UNCHANGED <<state, run, catalogue, lost, disturbances>>

StartRun ==
    LET continuing == state.pending # {} IN
    /\ run = None
    /\ run' = [resources |-> state.resources, queue |-> InitialQueue, seen |-> {}, at |-> Now,
               continuing |-> continuing,
               cycle |-> IF continuing THEN state.cycle ELSE Now]
    /\ UNCHANGED <<site, state, catalogue, lost, disturbances>>

(***************************************************************************)
(* A visit: a download, its archiving under every key, the check of what    *)
(* came, and the links of a page.  The archive is asked before the answer   *)
(* is accepted, and each success counts at once.                            *)
(***************************************************************************)
Visited(i, resource, found) ==
    run' = [run EXCEPT !.seen = @ \cup {i.url}, !.resources[i.url] = resource,
                       !.queue = @ \cup found]

Archived(u, keys, b) == catalogue' = catalogue \cup CapturesOf(u, RecordedUnder(keys, b))

\* Of sources and documents every answer is a capture, of pages a new one.
Captured(i, b) ==
    IF i.url \in Approved \/ i.role = "candidate" \/ run.resources[i.url].archived # b
      THEN ToSet(CaptureKeys(i.url)) ELSE {}

Accepted(i, b) ==
    [Recorded(run.resources[i.url], Captured(i, b), b)
        EXCEPT !.sha = b, !.archived = b, !.checked = run.at]

LinksFrom(i) ==
    IF i.url \in Documents THEN {}
    ELSE {Item(u, i.depth, "candidate") : u \in Links[i.url] \cap Documents}
         \cup {Item(u, i.depth + 1, "landing") :
                  u \in {v \in Links[i.url] \ Documents : i.depth < MaxDepth}}

Accept(i) ==
    LET b == Served(i.url) IN
    /\ b # None
    /\ Visited(i, Accepted(i, b), LinksFrom(i))
    /\ Archived(i.url, Captured(i, b), b)
    /\ UNCHANGED <<site, state, lost, disturbances>>

\* Mutant: a page in place of a document is refused after it became the state.
RejectedAsAccepted(i, keys, b) ==
    [Recorded(run.resources[i.url], keys, b) EXCEPT !.sha = b, !.archived = b, !.checked = run.at]

\* What is kept of an answer that is refused after it was archived under keys.
Rejected(i, keys, b) == Recorded(run.resources[i.url], keys, b)

\* A document answers with a page: it is archived, and then refused.
RejectPage(i) ==
    /\ i.url \in Documents /\ Disturb
    /\ Visited(i, Rejected(i, ToSet(CaptureKeys(i.url)), Html), {})
    /\ Archived(i.url, ToSet(CaptureKeys(i.url)), Html)
    /\ UNCHANGED <<site, state, lost>>

Fail(i) ==
    /\ IF i.url \in Flaky THEN UNCHANGED disturbances ELSE Disturb
    /\ Visited(i, run.resources[i.url], {})
    /\ UNCHANGED <<site, state, catalogue, lost>>

\* The archive acknowledges the bytes under the first n keys only, and may have
\* taken them under the next one, too.
BreakOff(i, n, taken) ==
    LET b == Served(i.url)
        Under(first, last) == {CaptureKeys(i.url)[k] : k \in first .. last}
    IN /\ Disturb
       /\ b # None /\ Captured(i, b) # {} /\ n < Len(CaptureKeys(i.url))
       /\ Visited(i, Rejected(i, Under(1, n), b), {})
       /\ Archived(i.url, Under(1, taken), b)
       /\ lost' = lost \cup CapturesOf(i.url, RecordedUnder(Under(n + 1, taken), b))
       /\ UNCHANGED <<site, state>>

\* The links of a page cannot be read: the page itself was accepted before.
LinksUnread(i) ==
    LET b == Served(i.url) IN
    /\ Disturb /\ i.url \notin Documents /\ b # None
    /\ Visited(i, Accepted(i, b), {})
    /\ Archived(i.url, Captured(i, b), b)
    /\ UNCHANGED <<site, state, lost>>

\* A page that answers "not modified" although it was asked without condition:
\* nothing is read, and so no link is found.
NotModified(i) ==
    LET before == run.resources[i.url] IN
    /\ Disturb
    /\ i.url \notin Approved /\ i.role = "landing"
    /\ before.sha # None /\ before.archived = before.sha
    /\ Visited(i, [before EXCEPT !.checked = run.at], {})
    /\ UNCHANGED <<site, state, catalogue, lost>>

Visit ==
    /\ Working
    /\ \E i \in First(Open) :
          \/ Accept(i) \/ RejectPage(i) \/ Fail(i) \/ LinksUnread(i) \/ NotModified(i)
          \/ \E n \in 0 .. Len(CaptureKeys(i.url)) : \E taken \in {n, n + 1} : BreakOff(i, n, taken)

----------------------------------------------------------------------------
\* The report of a run takes the place of the entry; runs do not overlap.
Report ==
    LET pending == Frontier(Open) IN
    /\ run # None /\ ~Working
    /\ state' = Renumbered([resources |-> run.resources, pending |-> pending,
                            cycle |-> IF pending = {} THEN 0 ELSE run.cycle])
    /\ run' = None
    /\ UNCHANGED <<site, catalogue, lost, disturbances>>

\* The job is stopped, or its report does not reach the branch.
LoseRun ==
    /\ run # None /\ Disturb
    /\ run' = None
    /\ lost' = lost \cup (CapturesIn(run.resources) \ CapturesIn(state.resources))
    /\ UNCHANGED <<site, state, catalogue>>

RobotNext ==
    \/ \E u \in Urls : Replace(u)
    \/ StartRun \/ Visit \/ Report \/ LoseRun

\* A run is started every day and goes on until it is stopped.
RobotStep == StartRun \/ Visit \/ Report
============================================================================
