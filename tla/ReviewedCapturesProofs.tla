------------------------- MODULE ReviewedCapturesProofs -------------------------
(***************************************************************************)
(* The robot-state branch tells the truth, and interpretations are complete: *)
(* for all pages, documents, sources and labels, for every order of the      *)
(* steps of robot and worker, and however many of them are disturbed.        *)
(***************************************************************************)
EXTENDS ReviewedCapturesProperties, NaturalLemmas

Robot == <<site, state, run, catalogue, lost>>

Typed ==
    /\ site \in [Urls -> Nat] /\ \A u \in Urls : site[u] \in DOMAIN Editions[u]
    /\ state \in States
    /\ run # None => run \in Runs

\* Beyond the truth: a run keeps the captures of the branch it started from.
RunsGoOn == run # None => CapturesIn(state.resources) \subseteq CapturesIn(run.resources)

RInv == Typed /\ RunsGoOn /\ StatesTellTheTruth

----------------------------------------------------------------------------
(* Contents, keys and captures.                                             *)

LEMMA EditionsAreContents ==
    ASSUME NEW u \in Urls, NEW n \in DOMAIN Editions[u]
    PROVE  /\ Editions[u][n] \in Contents
           /\ Editions[u][n] # Html
<1>1. Editions[u][n] \in ToSet(Editions[u])
  BY DEF ToSet
<1> QED
  BY <1>1, RobotAssumption DEF Contents

LEMMA MarkersAreContents == None \in Contents /\ Html \in Contents /\ None # Html
<1>1. None \in Contents /\ Html \in Contents
  BY DEF Contents
<1>2. None # Html
  BY RobotAssumption
<1> QED
  BY <1>1, <1>2

LEMMA CaptureKeysAreKeys ==
    ASSUME NEW u \in Urls
    PROVE  /\ ToSet(CaptureKeys(u)) \subseteq Keys
           /\ \A n \in 1 .. Len(CaptureKeys(u)) : CaptureKeys(u)[n] \in ToSet(CaptureKeys(u))
           /\ Len(CaptureKeys(u)) \in Nat
<1>1. CASE u \in Approved
  <2>1. CaptureKeys(u) = KeysAt[u]
    BY <1>1 DEF CaptureKeys
  <2>2. KeysAt[u] \in Seq(ToSet(KeysAt[u])) /\ u \in DOMAIN KeysAt
    BY RobotAssumption
  <2>3. ToSet(KeysAt[u]) \subseteq Keys
    BY <2>2 DEF Keys
  <2>4. DOMAIN KeysAt[u] = 1 .. Len(KeysAt[u]) /\ Len(KeysAt[u]) \in Nat
    BY <2>2
  <2> QED
    BY <2>1, <2>3, <2>4 DEF ToSet
<1>2. CASE u \notin Approved
  <2>1. CaptureKeys(u) = <<Discovery>>
    BY <1>2 DEF CaptureKeys
  <2>2. ToSet(<<Discovery>>) = {Discovery}
    BY DEF ToSet
  <2>3. Len(<<Discovery>>) = 1 /\ <<Discovery>>[1] = Discovery
    OBVIOUS
  <2> QED
    BY <2>1, <2>2, <2>3 DEF Keys
<1> QED
  BY <1>1, <1>2

LEMMA CapturesAdd ==
    ASSUME NEW u, NEW h, NEW g
    PROVE  CapturesOf(u, h \cup g) = CapturesOf(u, h) \cup CapturesOf(u, g)
BY DEF CapturesOf

LEMMA KeysAdd ==
    ASSUME NEW keys, NEW more, NEW b
    PROVE  RecordedUnder(keys \cup more, b) = RecordedUnder(keys, b) \cup RecordedUnder(more, b)
BY DEF RecordedUnder

LEMMA NoKeysNoCaptures ==
    ASSUME NEW u, NEW b
    PROVE  RecordedUnder({}, b) = {} /\ CapturesOf(u, {}) = {}
BY DEF CapturesOf, RecordedUnder

LEMMA CapturesUnderKeys ==
    ASSUME NEW u, NEW keys, NEW b, NEW k \in keys
    PROVE  [url |-> u, key |-> k, bytes |-> b] \in CapturesOf(u, RecordedUnder(keys, b))
<1> DEFINE c == [key |-> k, bytes |-> b]
<1>1. c \in RecordedUnder(keys, b) /\ c.key = k /\ c.bytes = b
  BY DEF RecordedUnder
<1> HIDE DEF c
<1> QED
  BY <1>1 DEF CapturesOf

\* What a record of new captures changes.
LEMMA RecordedIsResource ==
    ASSUME NEW r \in Resources, NEW keys \in SUBSET Keys, NEW b \in Contents
    PROVE  /\ Recorded(r, keys, b) \in Resources
           /\ Recorded(r, keys, b).sha = r.sha
           /\ Recorded(r, keys, b).archived = r.archived
           /\ Recorded(r, keys, b).history = r.history \cup RecordedUnder(keys, b)
<1> DEFINE latest == [k \in Keys |-> IF k \in keys THEN b ELSE r.latest[k]]
<1>1. latest \in [Keys -> Contents]
  BY DEF Resources
<1>2. RecordedUnder(keys, b) \subseteq [key : Keys \cup {None}, bytes : Contents]
  BY DEF RecordedUnder
<1> HIDE DEF latest
<1>3. Recorded(r, keys, b) = [sha |-> r.sha, archived |-> r.archived, checked |-> r.checked,
                              history |-> r.history \cup RecordedUnder(keys, b), latest |-> latest]
  <2>1. r = [sha |-> r.sha, archived |-> r.archived, checked |-> r.checked,
             history |-> r.history, latest |-> r.latest]
    BY DEF Resources
  <2>2. PICK a, b1, c, d, e : r = [sha |-> a, archived |-> b1, checked |-> c,
                                   history |-> d, latest |-> e]
    BY <2>1
  <2> DEFINE history == r.history \cup RecordedUnder(keys, b)
  <2>3. Recorded(r, keys, b) = [[r EXCEPT !.history = history] EXCEPT !.latest = latest]
    BY Zenon DEF Recorded, latest
  <2> HIDE DEF history
  <2> HIDE DEF latest
  <2>4. PICK s : s = [r EXCEPT !.history = history]
    OBVIOUS
  <2>5. s = [sha |-> a, archived |-> b1, checked |-> c, history |-> history, latest |-> e]
    BY <2>2, <2>4
  <2>6. [s EXCEPT !.latest = latest]
           = [sha |-> a, archived |-> b1, checked |-> c, history |-> history, latest |-> latest]
    BY <2>5
  <2>7. Recorded(r, keys, b)
           = [sha |-> a, archived |-> b1, checked |-> c, history |-> history, latest |-> latest]
    BY <2>3, <2>4, <2>6, Zenon
  <2>8. r.sha = a /\ r.archived = b1 /\ r.checked = c
    BY <2>2
  <2> QED
    BY <2>7, <2>8 DEF history
<1> QED
  BY <1>1, <1>2, <1>3 DEF Resources

\* More captures in the history of one URL.
LEMMA CapturesGrow ==
    ASSUME NEW resources \in [Urls -> Resources], NEW u \in Urls, NEW r \in Resources, NEW more,
           r.history = resources[u].history \cup more
    PROVE  CapturesIn([resources EXCEPT ![u] = r]) = CapturesIn(resources) \cup CapturesOf(u, more)
<1> DEFINE now == [resources EXCEPT ![u] = r]
<1>1. now[u] = r /\ \A v \in Urls : v # u => now[v] = resources[v]
  OBVIOUS
<1>2. CapturesOf(u, now[u].history) = CapturesOf(u, resources[u].history) \cup CapturesOf(u, more)
  BY <1>1, CapturesAdd
<1>3. \A v \in Urls : v # u => CapturesOf(v, now[v].history) = CapturesOf(v, resources[v].history)
  BY <1>1
<1> HIDE DEF now
<1>4. ASSUME NEW c \in CapturesIn(now)
      PROVE  c \in CapturesIn(resources) \cup CapturesOf(u, more)
  <2>1. PICK v \in Urls : c \in CapturesOf(v, now[v].history)
    BY <1>4 DEF CapturesIn
  <2> QED
    BY <2>1, <1>2, <1>3 DEF CapturesIn
<1>5. ASSUME NEW c \in CapturesIn(resources)
      PROVE  c \in CapturesIn(now)
  <2>1. PICK v \in Urls : c \in CapturesOf(v, resources[v].history)
    BY <1>5 DEF CapturesIn
  <2>2. c \in CapturesOf(v, now[v].history)
    BY <2>1, <1>2, <1>3
  <2> QED
    BY <2>2 DEF CapturesIn
<1>6. CapturesOf(u, more) \subseteq CapturesIn(now)
  BY <1>2 DEF CapturesIn
<1> QED
  BY <1>4, <1>5, <1>6 DEF now

\* What is true stays true when more is captured.
LEMMA TruthStays ==
    ASSUME NEW u, NEW r, NEW s, NEW archive, NEW larger, Truthful(u, r, archive),
           archive \subseteq larger,
           s.sha = r.sha, s.archived = r.archived, r.history \subseteq s.history
    PROVE  Truthful(u, s, larger)
BY DEF Truthful

\* What is known are the branch and a run under way.
LEMMA KnownNow ==
    StatesTellTheTruth <=>
        /\ \A u \in Urls : Truthful(u, state.resources[u], catalogue)
        /\ run # None => \A u \in Urls : Truthful(u, run.resources[u], catalogue)
        /\ catalogue = lost \cup CapturesIn(state.resources)
                            \cup (IF run = None THEN {} ELSE CapturesIn(run.resources))
BY DEF StatesTellTheTruth, Known

----------------------------------------------------------------------------
(* Times.                                                                   *)

LEMMA UrlsAreFinite == IsFiniteSet(Urls)
<1>1. ReverseUrls \in Seq(Urls) /\ ToSet(ReverseUrls) = Urls
  BY RobotAssumption
<1>2. DOMAIN ReverseUrls = 1 .. Len(ReverseUrls) /\ Len(ReverseUrls) \in Nat
  BY <1>1
<1>3. IsFiniteSet(1 .. Len(ReverseUrls))
  BY <1>2, FS_Interval
<1>4. IsFiniteSet({ReverseUrls[n] : n \in 1 .. Len(ReverseUrls)})
  BY <1>3, ImagesAreFinite
<1> QED
  BY <1>1, <1>2, <1>4 DEF ToSet

LEMMA TimesAreFinite == ASSUME NEW r PROVE IsFiniteSet(TimesOf(r))
<1> DEFINE checks == {r.resources[u].checked : u \in Urls}
<1>1. IsFiniteSet(checks)
  <2> DEFINE f == [u \in Urls |-> r.resources[u].checked]
  <2>1. checks = {f[u] : u \in Urls}
    OBVIOUS
  <2> HIDE DEF f, checks
  <2> QED
    BY <2>1, UrlsAreFinite, ImagesAreFinite
<1>2. IsFiniteSet(checks \cup {r.cycle})
  BY <1>1, FS_Singleton, FS_Union
<1>3. TimesOf(r) \subseteq checks \cup {r.cycle}
  BY DEF TimesOf
<1> HIDE DEF checks
<1> QED
  BY <1>2, <1>3, FS_Subset

LEMMA NowIsTime == Now \in Nat
<1>1. Cardinality(TimesOf(state)) \in Nat
  BY TimesAreFinite, FS_CardinalityType
<1> QED
  BY <1>1 DEF Now

\* New numbers for the times of a report change nothing else.
LEMMA RenumberedIsReport ==
    ASSUME NEW r \in States
    PROVE  /\ Renumbered(r) \in States
           /\ \A u \in Urls : /\ Renumbered(r).resources[u].sha = r.resources[u].sha
                               /\ Renumbered(r).resources[u].archived = r.resources[u].archived
                               /\ Renumbered(r).resources[u].history = r.resources[u].history
           /\ CapturesIn(Renumbered(r).resources) = CapturesIn(r.resources)
<1> DEFINE resources == [u \in Urls |-> [r.resources[u] EXCEPT !.checked = NumberOf(@, r)]]
<1>1. \A t : NumberOf(t, r) \in Nat
  <2>1. ASSUME NEW t PROVE NumberOf(t, r) \in Nat
    <3>1. {x \in TimesOf(r) : x <= t} \subseteq TimesOf(r)
      OBVIOUS
    <3>2. IsFiniteSet({x \in TimesOf(r) : x <= t})
      BY <3>1, TimesAreFinite, FS_Subset
    <3> QED
      BY <3>2, FS_CardinalityType DEF NumberOf
  <2> QED
    BY <2>1
<1>2. Renumbered(r) = [[r EXCEPT !.cycle = NumberOf(r.cycle, r)] EXCEPT !.resources = resources]
  BY Zenon DEF Renumbered
<1>3. ASSUME NEW u \in Urls
      PROVE  /\ resources[u] \in Resources
             /\ resources[u].sha = r.resources[u].sha
             /\ resources[u].archived = r.resources[u].archived
             /\ resources[u].history = r.resources[u].history
  <2>1. r.resources[u] \in Resources
    BY DEF States
  <2>2. PICK n \in Nat : n = NumberOf(r.resources[u].checked, r)
    BY <1>1
  <2>3. PICK x \in Resources : x = r.resources[u]
    BY <2>1
  <2>4. resources[u] = [x EXCEPT !.checked = n]
    BY <2>2, <2>3
  <2> HIDE DEF resources
  <2>5. [x EXCEPT !.checked = n] \in Resources
    BY DEF Resources
  <2>6. LET y == [x EXCEPT !.checked = n]
        IN y.sha = x.sha /\ y.archived = x.archived /\ y.history = x.history
    BY DEF Resources
  <2> QED
    BY <2>3, <2>4, <2>5, <2>6
<1>4. resources \in [Urls -> Resources]
  BY <1>3
<1> HIDE DEF resources
<1>5. Renumbered(r) \in States /\ Renumbered(r).resources = resources
  <2>1. PICK n \in Nat : n = NumberOf(r.cycle, r)
    BY <1>1
  <2>2. PICK s : s = [r EXCEPT !.cycle = n]
    OBVIOUS
  <2>3. s \in States
    BY <2>2 DEF States
  <2>4. [s EXCEPT !.resources = resources] \in States
    BY <2>3, <1>4 DEF States
  <2>5. [s EXCEPT !.resources = resources].resources = resources
    BY <2>3 DEF States
  <2>6. Renumbered(r) = [s EXCEPT !.resources = resources]
    BY <1>2, <2>1, <2>2, Zenon
  <2> QED
    BY <2>4, <2>5, <2>6
<1>6. CapturesIn(resources) = CapturesIn(r.resources)
  <2>1. \A u \in Urls : CapturesOf(u, resources[u].history) = CapturesOf(u, r.resources[u].history)
    BY <1>3
  <2> QED
    BY <2>1 DEF CapturesIn
<1> QED
  BY <1>3, <1>5, <1>6

----------------------------------------------------------------------------
(* The steps of the robot.                                                  *)

LEMMA RobotStarts ==
    ASSUME Init
    PROVE  RInv
<1>1. /\ site = [u \in Urls |-> 1] /\ state = FirstReport /\ run = None
      /\ catalogue = CapturesIn(state.resources) /\ lost = {}
  BY DEF Init
<1>2. ASSUME NEW u \in Urls
      PROVE  1 \in DOMAIN Editions[u]
  <2>1. Editions[u] \in Seq(ToSet(Editions[u])) /\ Len(Editions[u]) > 0
    BY RobotAssumption
  <2> QED
    BY <2>1
<1>3. Unknown \in Resources
  <2>1. [k \in Keys |-> None] \in [Keys -> Contents]
    BY MarkersAreContents
  <2> QED
    BY <2>1, MarkersAreContents DEF Unknown, Resources
<1>4. ASSUME NEW u \in Urls
      PROVE  /\ FirstReport.resources[u] \in Resources
             /\ Truthful(u, FirstReport.resources[u], catalogue)
  <2>1. CASE u \notin Legacy
    <3>1. FirstReport.resources[u] = Unknown
      BY <2>1 DEF FirstReport
    <3>2. Truthful(u, Unknown, catalogue)
      BY MarkersAreContents DEF Truthful, Unknown
    <3> QED
      BY <3>1, <3>2, <1>3
  <2>2. CASE u \in Legacy
    <3> DEFINE b == Editions[u][1]
               r == [sha |-> b, archived |-> b, checked |-> 1,
                     history |-> {[key |-> None, bytes |-> b]}, latest |-> Unknown.latest]
    <3>1. FirstReport.resources[u] = r
      BY <2>2 DEF FirstReport
    <3>2. b \in Contents /\ b # Html
      BY <1>2, EditionsAreContents
    <3>3. Unknown.latest \in [Keys -> Contents]
      BY <1>3 DEF Resources
    <3> HIDE DEF b
    <3>4. r \in Resources
      BY <3>2, <3>3 DEF Resources
    <3>5. Truthful(u, r, catalogue)
      BY <3>2 DEF Truthful
    <3> HIDE DEF r
    <3> QED
      BY <3>1, <3>4, <3>5
  <2> QED
    BY <2>1, <2>2
<1>5. FirstReport \in States
  <2>1. FirstReport.resources \in [Urls -> Resources]
    <3>1. FirstReport.resources = [u \in Urls |-> FirstReport.resources[u]]
      BY DEF FirstReport
    <3> QED
      BY <1>4, <3>1
  <2>2. FirstReport = [resources |-> FirstReport.resources, pending |-> {}, cycle |-> 0]
    BY DEF FirstReport
  <2> QED
    BY <2>1, <2>2 DEF States
<1>6. Typed
  BY <1>1, <1>2, <1>5 DEF Typed
<1>7. StatesTellTheTruth
  BY <1>1, <1>4, KnownNow
<1> QED
  BY <1>1, <1>6, <1>7 DEF RInv, RunsGoOn

LEMMA ReplaceKeeps ==
    ASSUME RInv, NEW u \in Urls, Replace(u)
    PROVE  RInv'
<1>1. /\ site[u] < Len(Editions[u]) /\ site' = [site EXCEPT ![u] = site[u] + 1]
      /\ UNCHANGED <<state, run, catalogue, lost>>
  BY DEF Replace
<1>2. site' \in [Urls -> Nat] /\ \A v \in Urls : site'[v] \in DOMAIN Editions[v]
  <2>1. Editions[u] \in Seq(ToSet(Editions[u]))
    BY RobotAssumption
  <2>2. site[u] \in Nat /\ site[u] \in DOMAIN Editions[u]
    BY DEF RInv, Typed
  <2>3. site[u] + 1 \in DOMAIN Editions[u]
    BY <1>1, <2>1, <2>2
  <2> QED
    BY <1>1, <2>2, <2>3 DEF RInv, Typed
<1>3. Typed'
  BY <1>1, <1>2 DEF RInv, Typed
<1>4. StatesTellTheTruth' /\ RunsGoOn'
  BY <1>1 DEF RInv, RunsGoOn, StatesTellTheTruth, Known
<1> QED
  BY <1>3, <1>4 DEF RInv

LEMMA StartRunKeeps ==
    ASSUME RInv, StartRun
    PROVE  RInv'
<1> DEFINE start == [resources |-> state.resources, queue |-> InitialQueue, seen |-> {}, at |-> Now,
                     continuing |-> state.pending # {},
                     cycle |-> IF state.pending # {} THEN state.cycle ELSE Now]
<1>1. run = None /\ run' = start /\ UNCHANGED <<site, state, catalogue, lost>>
  BY DEF StartRun
<1>2. InitialQueue \subseteq Items
  <2>1. Landing \subseteq Urls /\ Approved \subseteq Urls
    BY RobotAssumption DEF Approved
  <2>2. state.pending \subseteq Items
    BY DEF RInv, Typed, States
  <2> QED
    BY <2>1, <2>2 DEF InitialQueue, Item, Items
<1>3. start \in Runs
  BY <1>2, NowIsTime DEF Runs, RInv, Typed, States
<1>4. start.resources = state.resources
  OBVIOUS
<1> HIDE DEF start
<1>5. Typed'
  BY <1>1, <1>3 DEF RInv, Typed
<1>6. /\ \A u \in Urls : Truthful(u, state.resources[u], catalogue)
      /\ catalogue = lost \cup CapturesIn(state.resources)
  BY <1>1, KnownNow DEF RInv
<1>7. Known' = {state.resources}
  BY <1>1, <1>4 DEF Known
<1>8. StatesTellTheTruth'
  BY <1>1, <1>6, <1>7 DEF StatesTellTheTruth
<1>9. RunsGoOn'
  BY <1>1, <1>4 DEF RunsGoOn
<1> QED
  BY <1>5, <1>8, <1>9 DEF RInv

LEMMA LoseRunKeeps ==
    ASSUME RInv, LoseRun
    PROVE  RInv'
<1>1. /\ run # None /\ run' = None
      /\ lost' = lost \cup (CapturesIn(run.resources) \ CapturesIn(state.resources))
      /\ UNCHANGED <<site, state, catalogue>>
  BY DEF LoseRun
<1>2. /\ \A u \in Urls : Truthful(u, state.resources[u], catalogue)
      /\ catalogue = lost \cup CapturesIn(state.resources) \cup CapturesIn(run.resources)
  BY <1>1, KnownNow DEF RInv
<1>3. Known' = {state.resources}
  BY <1>1 DEF Known
<1>4. catalogue = lost' \cup CapturesIn(state.resources)
  BY <1>1, <1>2
<1>5. StatesTellTheTruth'
  BY <1>1, <1>2, <1>3, <1>4 DEF StatesTellTheTruth
<1>6. Typed' /\ RunsGoOn'
  BY <1>1 DEF RInv, Typed, RunsGoOn
<1> QED
  BY <1>5, <1>6 DEF RInv

LEMMA ReportKeeps ==
    ASSUME RInv, Report
    PROVE  RInv'
<1>1. /\ run # None /\ run' = None
      /\ UNCHANGED <<site, catalogue, lost>>
  BY DEF Report
<1> DEFINE pending == Frontier(Open)
           report0 == [resources |-> run.resources, pending |-> pending,
                       cycle |-> IF pending = {} THEN 0 ELSE run.cycle]
<1>2. state' = Renumbered(report0)
  BY DEF Report
<1>3. pending \subseteq Items
  BY <1>1 DEF RInv, Typed, Runs, Frontier, Open
<1>4. report0.resources = run.resources
  OBVIOUS
<1>5. report0 \in States
  <2> HIDE DEF pending
  <2> QED
    BY <1>1, <1>3 DEF RInv, Typed, Runs, States
<1> HIDE DEF report0, pending
<1>6. state' \in States
  BY <1>2, <1>5, RenumberedIsReport
<1>7. CapturesIn(state'.resources) = CapturesIn(run.resources)
  BY <1>2, <1>4, <1>5, RenumberedIsReport
<1>8. \A u \in Urls : /\ state'.resources[u].sha = run.resources[u].sha
                      /\ state'.resources[u].archived = run.resources[u].archived
                      /\ state'.resources[u].history = run.resources[u].history
  BY <1>2, <1>4, <1>5, RenumberedIsReport
<1>9. /\ \A u \in Urls : Truthful(u, run.resources[u], catalogue)
      /\ catalogue = lost \cup CapturesIn(state.resources) \cup CapturesIn(run.resources)
  BY <1>1, KnownNow DEF RInv
<1>10. \A u \in Urls : Truthful(u, state'.resources[u], catalogue)
  BY <1>8, <1>9, TruthStays
<1>11. catalogue = lost \cup CapturesIn(state'.resources)
  BY <1>1, <1>7, <1>9 DEF RInv, RunsGoOn
<1>12. Known' = {state'.resources}
  BY <1>1 DEF Known
<1>13. StatesTellTheTruth'
  BY <1>1, <1>10, <1>11, <1>12 DEF StatesTellTheTruth
<1>14. Typed' /\ RunsGoOn'
  BY <1>1, <1>6 DEF RInv, Typed, RunsGoOn
<1> QED
  BY <1>13, <1>14 DEF RInv

----------------------------------------------------------------------------
(* Visits.                                                                  *)

\* What was asked is archived under some keys; the run names some of these
\* captures, and the rest are lost.
LEMMA VisitKeeps ==
    ASSUME RInv, run # None, NEW i \in run.queue, NEW r \in Resources, NEW found \in SUBSET Items,
           NEW named, NEW rest, NEW b,
           Visited(i, r, found), Archived(i.url, named \cup rest, b),
           r.history = run.resources[i.url].history \cup RecordedUnder(named, b),
           lost' = lost \cup CapturesOf(i.url, RecordedUnder(rest, b)),
           Truthful(i.url, r, catalogue'),
           UNCHANGED <<site, state>>
    PROVE  RInv'
<1> DEFINE u == i.url
           resources == [run.resources EXCEPT ![u] = r]
           more == RecordedUnder(named, b)
<1>1. run \in Runs
  BY DEF RInv, Typed
<1>2. u \in Urls /\ run.resources \in [Urls -> Resources]
  BY <1>1 DEF Runs, Items
<1>3. run' \in Runs /\ run'.resources = resources
  <2> DEFINE seen == run.seen \cup {u}
             queue == run.queue \cup found
  <2>1. seen \subseteq Urls /\ queue \subseteq Items /\ resources \in [Urls -> Resources]
    BY <1>1, <1>2 DEF Runs
  <2>2. run' = [[[run EXCEPT !.seen = seen] EXCEPT !.resources = resources] EXCEPT !.queue = queue]
    BY DEF Visited
  <2> HIDE DEF seen, queue, resources
  <2>3. PICK x : x = [run EXCEPT !.seen = seen]
    OBVIOUS
  <2>4. x \in Runs
    BY <1>1, <2>1, <2>3 DEF Runs
  <2>5. PICK y : y = [x EXCEPT !.resources = resources]
    OBVIOUS
  <2>6. y \in Runs /\ y.resources = resources
    BY <2>1, <2>4, <2>5 DEF Runs
  <2>7. [y EXCEPT !.queue = queue] \in Runs /\ [y EXCEPT !.queue = queue].resources = resources
    BY <2>1, <2>6 DEF Runs
  <2> QED
    BY <2>2, <2>3, <2>5, <2>7, Zenon
<1>4. CapturesIn(resources) = CapturesIn(run.resources) \cup CapturesOf(u, more)
  BY <1>2, CapturesGrow
<1>5. run' # None
  BY <1>3, NoneIsNoRun
<1>6. CapturesOf(u, RecordedUnder(named \cup rest, b))
          = CapturesOf(u, more) \cup CapturesOf(u, RecordedUnder(rest, b))
  BY KeysAdd, CapturesAdd
<1>7. /\ \A v \in Urls : Truthful(v, state.resources[v], catalogue)
      /\ \A v \in Urls : Truthful(v, run.resources[v], catalogue)
      /\ catalogue = lost \cup CapturesIn(state.resources) \cup CapturesIn(run.resources)
  BY KnownNow DEF RInv
<1>8. catalogue' = catalogue \cup CapturesOf(u, RecordedUnder(named \cup rest, b))
  BY DEF Archived
<1>9. catalogue' = lost' \cup CapturesIn(state.resources) \cup CapturesIn(resources)
  <2> HIDE DEF resources, u, more
  <2> QED
    BY <1>4, <1>6, <1>7, <1>8 DEF u
<1>10. \A v \in Urls : Truthful(v, state.resources[v], catalogue')
  BY <1>7, <1>8, TruthStays
<1>11. \A v \in Urls : Truthful(v, resources[v], catalogue')
  <2>1. ASSUME NEW v \in Urls, v # u PROVE Truthful(v, resources[v], catalogue')
    <3>1. resources[v] = run.resources[v]
      BY <1>2, <2>1
    <3> QED
      BY <1>7, <1>8, <3>1, TruthStays
  <2>2. resources[u] = r
    BY <1>2
  <2> QED
    BY <2>1, <2>2
<1> HIDE DEF resources, u, more
<1>12. Known' = {state.resources, resources}
  BY <1>3, <1>5 DEF Known
<1>13. StatesTellTheTruth'
  BY <1>9, <1>10, <1>11, <1>12 DEF StatesTellTheTruth
<1>14. RunsGoOn'
  BY <1>3, <1>4 DEF RInv, RunsGoOn
<1>15. Typed'
  BY <1>3 DEF RInv, Typed
<1> QED
  BY <1>13, <1>14, <1>15 DEF RInv

\* What is served is content, and no page in place of a document.
LEMMA ServedIsContent ==
    ASSUME Typed, NEW u \in Urls
    PROVE  Served(u) \in Contents /\ Served(u) # Html
BY EditionsAreContents DEF Typed, Served

\* What is taken from the queue.
LEMMA QueueItems ==
    ASSUME Typed, run # None, NEW i \in run.queue
    PROVE  /\ i.url \in Urls /\ i.depth \in Nat
           /\ run.resources[i.url] \in Resources
           /\ run.at \in Nat
BY DEF Typed, Runs, Items

LEMMA LinksAreItems ==
    ASSUME NEW i, i.url \in Urls, i.depth \in Nat
    PROVE  LinksFrom(i) \subseteq Items
<1>1. CASE i.url \in Documents
  BY <1>1 DEF LinksFrom
<1>2. CASE i.url \notin Documents
  <2>1. Links[i.url] \subseteq Urls
    BY <1>2, RobotAssumption DEF Documents
  <2>2. \A u \in Urls : Item(u, i.depth, "candidate") \in Items /\ Item(u, i.depth + 1, "landing") \in Items
    BY DEF Item, Items
  <2> QED
    BY <1>2, <2>1, <2>2 DEF LinksFrom
<1> QED
  BY <1>1, <1>2

\* A download that is accepted: what it says is archived, now or before.
LEMMA AcceptedKeeps ==
    ASSUME RInv, run # None, NEW i \in run.queue, NEW found \in SUBSET Items,
           Served(i.url) # None,
           Visited(i, Accepted(i, Served(i.url)), found),
           Archived(i.url, Captured(i, Served(i.url)), Served(i.url)),
           UNCHANGED <<site, state, lost>>
    PROVE  RInv'
<1> DEFINE u == i.url
           b == Served(u)
           keys == Captured(i, b)
           before == run.resources[u]
           new == Recorded(before, keys, b)
<1>1. u \in Urls /\ before \in Resources /\ run.at \in Nat
  BY QueueItems DEF RInv
<1>2. b \in Contents /\ b # Html
  BY <1>1, ServedIsContent DEF RInv
<1>3. keys \subseteq Keys
  BY <1>1, CaptureKeysAreKeys DEF Captured
<1>4. Accepted(i, b) = [new EXCEPT !.sha = b, !.archived = b, !.checked = run.at]
  BY DEF Accepted
<1>5. Truthful(u, before, catalogue)
  BY <1>1, KnownNow DEF RInv
<1>6. catalogue' = catalogue \cup CapturesOf(u, RecordedUnder(keys, b))
  BY DEF Archived
<1>7. keys = ToSet(CaptureKeys(u)) \/ (keys = {} /\ before.archived = b)
  BY DEF Captured
<1>8. /\ Visited(i, Accepted(i, b), found)
      /\ Archived(i.url, keys \cup {}, b)
  OBVIOUS
<1> HIDE DEF new, keys, before, b, u
<1>9. new \in Resources /\ new.history = before.history \cup RecordedUnder(keys, b)
  BY <1>1, <1>2, <1>3, RecordedIsResource DEF new
<1>10. PICK r : r = Accepted(i, b)
  OBVIOUS
<1>11. /\ r \in Resources /\ r.sha = b /\ r.archived = b
       /\ r.history = before.history \cup RecordedUnder(keys, b)
  <2>1. PICK n \in Nat : n = run.at
    BY <1>1
  <2>2. r = [new EXCEPT !.sha = b, !.archived = b, !.checked = n]
    BY <1>4, <1>10, <2>1
  <2>3. new \in Resources
    BY <1>9
  <2>4. b \in Contents
    BY <1>2
  <2>5. PICK x : x = [new EXCEPT !.sha = b]
    OBVIOUS
  <2>6. x \in Resources /\ x.sha = b /\ x.history = new.history
    BY <2>3, <2>4, <2>5 DEF Resources
  <2>7. PICK y : y = [x EXCEPT !.archived = b]
    OBVIOUS
  <2>8. y \in Resources /\ y.sha = b /\ y.archived = b /\ y.history = new.history
    BY <2>4, <2>6, <2>7 DEF Resources
  <2>9. PICK z : z = [y EXCEPT !.checked = n]
    OBVIOUS
  <2>10. z \in Resources /\ z.sha = b /\ z.archived = b /\ z.history = new.history
    BY <2>1, <2>8, <2>9 DEF Resources
  <2>11. z = r
    BY <2>2, <2>5, <2>7, <2>9, Zenon
  <2> QED
    BY <1>9, <2>10, <2>11, Zenon
<1>12. Truthful(u, r, catalogue')
  <2>1. CASE keys = ToSet(CaptureKeys(u))
    <3>1. \A k \in ToSet(CaptureKeys(u)) : [url |-> u, key |-> k, bytes |-> b] \in catalogue'
      BY <1>6, <2>1, CapturesUnderKeys
    <3> QED
      BY <1>2, <1>11, <3>1 DEF Truthful
  <2>2. CASE before.archived = b
    <3>1. before.sha = b
      BY <1>5, <2>2 DEF Truthful
    <3> QED
      BY <1>5, <1>6, <1>11, <2>2, <3>1, TruthStays
  <2> QED
    BY <1>7, <2>1, <2>2
<1>13. lost' = lost \cup CapturesOf(u, RecordedUnder({}, b))
  BY NoKeysNoCaptures
<1>14. Visited(i, r, found)
  BY <1>8, <1>10
<1> QED
  BY <1>8, <1>11, <1>12, <1>13, <1>14, VisitKeeps DEF u, before

\* An answer that is refused: captures are named or lost, and nothing else.
LEMMA RejectedKeeps ==
    ASSUME RInv, run # None, NEW i \in run.queue, NEW b \in Contents,
           NEW named \in SUBSET Keys, NEW rest,
           Visited(i, Rejected(i, named, b), {}), Archived(i.url, named \cup rest, b),
           lost' = lost \cup CapturesOf(i.url, RecordedUnder(rest, b)),
           UNCHANGED <<site, state>>
    PROVE  RInv'
<1> DEFINE u == i.url
           before == run.resources[u]
<1>1. u \in Urls /\ before \in Resources
  BY QueueItems DEF RInv
<1>2. PICK r : r = Rejected(i, named, b)
  OBVIOUS
<1>3. /\ r \in Resources /\ r.sha = before.sha /\ r.archived = before.archived
      /\ r.history = before.history \cup RecordedUnder(named, b)
  <2>1. r = Recorded(before, named, b)
    BY <1>2 DEF Rejected
  <2> HIDE DEF before
  <2> QED
    BY <1>1, <2>1, RecordedIsResource
<1>4. Truthful(u, before, catalogue)
  BY <1>1, KnownNow DEF RInv
<1>5. catalogue \subseteq catalogue'
  BY DEF Archived
<1> HIDE DEF before
<1>6. Truthful(u, r, catalogue')
  BY <1>3, <1>4, <1>5, TruthStays
<1>7. Visited(i, r, {})
  BY <1>2
<1> QED
  BY <1>3, <1>6, <1>7, VisitKeeps DEF before

\* A visit that archives nothing and keeps what was accepted.
LEMMA UnansweredKeeps ==
    ASSUME RInv, run # None, NEW i \in run.queue, NEW r \in Resources,
           r.sha = run.resources[i.url].sha, r.archived = run.resources[i.url].archived,
           r.history = run.resources[i.url].history,
           Visited(i, r, {}), UNCHANGED <<site, state, catalogue, lost>>
    PROVE  RInv'
<1>1. i.url \in Urls
  BY QueueItems DEF RInv
<1>2. Truthful(i.url, run.resources[i.url], catalogue)
  BY <1>1, KnownNow DEF RInv
<1>3. Truthful(i.url, r, catalogue')
  BY <1>2, TruthStays
<1>4. /\ RecordedUnder({}, None) = {} /\ CapturesOf(i.url, {}) = {}
  BY NoKeysNoCaptures
<1>5. Archived(i.url, {} \cup {}, None)
  BY <1>4 DEF Archived
<1>6. r.history = run.resources[i.url].history \cup RecordedUnder({}, None)
  BY <1>4
<1>7. lost' = lost \cup CapturesOf(i.url, RecordedUnder({}, None))
  BY <1>4
<1> QED
  BY <1>3, <1>5, <1>6, <1>7, VisitKeeps

LEMMA FailKeeps ==
    ASSUME RInv, run # None, NEW i \in run.queue, Fail(i)
    PROVE  RInv'
<1>1. run.resources[i.url] \in Resources
  BY QueueItems DEF RInv
<1>2. Visited(i, run.resources[i.url], {}) /\ UNCHANGED <<site, state, catalogue, lost>>
  BY DEF Fail
<1> QED
  BY <1>1, <1>2, UnansweredKeeps

LEMMA NotModifiedKeeps ==
    ASSUME RInv, run # None, NEW i \in run.queue, NotModified(i)
    PROVE  RInv'
<1>1. PICK before \in Resources : before = run.resources[i.url]
  BY QueueItems DEF RInv
<1>2. PICK n \in Nat : n = run.at
  BY QueueItems DEF RInv
<1>3. PICK r : r = [before EXCEPT !.checked = n]
  OBVIOUS
<1>4. /\ r \in Resources /\ r.sha = before.sha /\ r.archived = before.archived
      /\ r.history = before.history
  BY <1>3 DEF Resources
<1>5. Visited(i, r, {}) /\ UNCHANGED <<site, state, catalogue, lost>>
  BY <1>1, <1>2, <1>3 DEF NotModified
<1> QED
  BY <1>1, <1>4, <1>5, UnansweredKeeps

LEMMA BreakOffKeeps ==
    ASSUME RInv, run # None, NEW i \in run.queue,
           NEW n \in 0 .. Len(CaptureKeys(i.url)), NEW taken \in {n, n + 1}, BreakOff(i, n, taken)
    PROVE  RInv'
<1> DEFINE b == Served(i.url)
           Under(first, last) == {CaptureKeys(i.url)[k] : k \in first .. last}
<1>1. /\ n < Len(CaptureKeys(i.url))
      /\ Visited(i, Rejected(i, Under(1, n), b), {})
      /\ Archived(i.url, Under(1, taken), b)
      /\ lost' = lost \cup CapturesOf(i.url, RecordedUnder(Under(n + 1, taken), b))
      /\ UNCHANGED <<site, state>>
  BY DEF BreakOff
<1>2. i.url \in Urls
  BY QueueItems DEF RInv
<1>3. b \in Contents
  BY <1>2, ServedIsContent DEF RInv
<1>4. Len(CaptureKeys(i.url)) \in Nat /\ n \in Nat
  BY <1>2, CaptureKeysAreKeys
<1>5. Under(1, n) \subseteq Keys
  <2>1. \A k \in 1 .. n : k \in 1 .. Len(CaptureKeys(i.url))
    BY <1>1, <1>4
  <2> QED
    BY <1>2, <2>1, CaptureKeysAreKeys
<1>6. Under(1, taken) = Under(1, n) \cup Under(n + 1, taken)
  <2>1. \A k : k \in 1 .. taken <=> k \in 1 .. n \/ k \in (n + 1) .. taken
    BY <1>4
  <2> QED
    BY <2>1
<1>7. PICK named, rest : named = Under(1, n) /\ rest = Under(n + 1, taken)
  OBVIOUS
<1>8. /\ Visited(i, Rejected(i, named, b), {}) /\ Archived(i.url, named \cup rest, b)
      /\ lost' = lost \cup CapturesOf(i.url, RecordedUnder(rest, b))
      /\ named \in SUBSET Keys
  <2> HIDE DEF Under, b
  <2> QED
    BY <1>1, <1>5, <1>6, <1>7
<1> HIDE DEF b
<1> QED
  BY <1>1, <1>3, <1>8, RejectedKeeps

LEMMA RejectPageKeeps ==
    ASSUME RInv, run # None, NEW i \in run.queue, RejectPage(i)
    PROVE  RInv'
<1> DEFINE keys == ToSet(CaptureKeys(i.url))
<1>1. /\ Visited(i, Rejected(i, keys, Html), {}) /\ Archived(i.url, keys \cup {}, Html)
      /\ UNCHANGED <<site, state, lost>>
  BY DEF RejectPage
<1>2. keys \in SUBSET Keys
  BY QueueItems, CaptureKeysAreKeys DEF RInv
<1>3. lost' = lost \cup CapturesOf(i.url, RecordedUnder({}, Html))
  BY <1>1, NoKeysNoCaptures
<1> HIDE DEF keys
<1> QED
  BY <1>1, <1>2, <1>3, MarkersAreContents, RejectedKeeps

LEMMA VisitsKeep ==
    ASSUME RInv, Visit
    PROVE  RInv'
<1>1. run # None
  BY DEF Visit, Working
<1>2. PICK i \in First(Open) :
          \/ Accept(i) \/ RejectPage(i) \/ Fail(i) \/ LinksUnread(i) \/ NotModified(i)
          \/ \E n \in 0 .. Len(CaptureKeys(i.url)) : \E taken \in {n, n + 1} : BreakOff(i, n, taken)
  BY DEF Visit
<1>3. i \in run.queue
  BY <1>1, <1>2 DEF First, Open
<1>4. CASE Accept(i)
  <2>1. LinksFrom(i) \in SUBSET Items
    BY <1>1, <1>3, QueueItems, LinksAreItems DEF RInv
  <2>2. /\ Served(i.url) # None /\ Visited(i, Accepted(i, Served(i.url)), LinksFrom(i))
        /\ Archived(i.url, Captured(i, Served(i.url)), Served(i.url))
        /\ UNCHANGED <<site, state, lost>>
    BY <1>4 DEF Accept
  <2> QED
    BY <1>1, <1>3, <2>1, <2>2, AcceptedKeeps
<1>5. CASE LinksUnread(i)
  <2>1. /\ Served(i.url) # None /\ Visited(i, Accepted(i, Served(i.url)), {})
        /\ Archived(i.url, Captured(i, Served(i.url)), Served(i.url))
        /\ UNCHANGED <<site, state, lost>>
    BY <1>5 DEF LinksUnread
  <2> QED
    BY <1>1, <1>3, <2>1, AcceptedKeeps
<1> QED
  BY <1>1, <1>2, <1>3, <1>4, <1>5, RejectPageKeeps, FailKeeps, NotModifiedKeeps, BreakOffKeeps

LEMMA RobotKeeps ==
    ASSUME RInv, RobotNext
    PROVE  RInv'
BY ReplaceKeeps, StartRunKeeps, VisitsKeep, ReportKeeps, LoseRunKeeps DEF RobotNext

\* Nothing leaves the archive.
LEMMA ArchiveGrows ==
    ASSUME RobotNext
    PROVE  catalogue \subseteq catalogue'
<1>1. ASSUME Visit PROVE catalogue \subseteq catalogue'
  <2>1. PICK i \in First(Open) :
          \/ Accept(i) \/ RejectPage(i) \/ Fail(i) \/ LinksUnread(i) \/ NotModified(i)
          \/ \E n \in 0 .. Len(CaptureKeys(i.url)) : \E taken \in {n, n + 1} : BreakOff(i, n, taken)
    BY <1>1 DEF Visit
  <2>2. \A keys, b : Archived(i.url, keys, b) => catalogue \subseteq catalogue'
    BY DEF Archived
  <2>3. (Accept(i) \/ LinksUnread(i)) => catalogue \subseteq catalogue'
    BY <2>2 DEF Accept, LinksUnread
  <2>4. (Fail(i) \/ NotModified(i)) => catalogue \subseteq catalogue'
    BY DEF Fail, NotModified
  <2>5. RejectPage(i) => catalogue \subseteq catalogue'
    BY <2>2 DEF RejectPage
  <2>6. ASSUME NEW n, NEW taken, BreakOff(i, n, taken) PROVE catalogue \subseteq catalogue'
    BY <2>2, <2>6 DEF BreakOff
  <2> QED
    BY <2>1, <2>3, <2>4, <2>5, <2>6
<1> QED
  BY <1>1 DEF RobotNext, Replace, StartRun, Report, LoseRun

----------------------------------------------------------------------------
(* The worker.                                                              *)

\* The job of a worker, and what it has done of it.
JobOf(w) == LET s == FirstOf(SourceOrder, w.todo) IN [source |-> s, inputs |-> w.inputs[s]]

Sound(w, done, archive) ==
    /\ w = [todo |-> w.todo, inputs |-> w.inputs, left |-> w.left, done |-> w.done]
    /\ w.todo \subseteq Sources
    /\ \A s \in w.todo : w.inputs[s] # ApprovedBytes[s]
    /\ w.todo # {} /\ w.left # None =>
          /\ w.left \subseteq LabelsOf(JobOf(w).source)
          /\ \A l \in LabelsOf(JobOf(w).source) :
                /\ Capture(JobOf(w), l) \in archive
                /\ l \notin w.left => Capture(JobOf(w), l) \in done

WInv ==
    /\ InterpretationsAreComplete
    /\ worker # None => Sound(worker, committed, catalogue)

LEMMA FirstIsOneOf ==
    ASSUME NEW T, NEW order \in Seq(T), NEW S, S \subseteq ToSet(order), S # {}
    PROVE  FirstOf(order, S) \in S
<1> DEFINE P == {n \in DOMAIN order : order[n] \in S}
<1>1. DOMAIN order = 1 .. Len(order) /\ Len(order) \in Nat
  OBVIOUS
<1>2. P \subseteq Nat
  BY <1>1
<1>3. P # {}
  BY DEF ToSet
<1> HIDE DEF P
<1>4. PICK n \in P : \A m \in P : n <= m
  BY <1>2, <1>3, LeastNatural
<1>5. n \in DOMAIN order /\ order[n] \in S /\ n \in Nat
  BY <1>2 DEF P
<1>6. ASSUME NEW m \in 1 .. n - 1, order[m] \in S PROVE FALSE
  <2>1. m \in Nat /\ m < n
    BY <1>5
  <2>2. m \in DOMAIN order
    BY <1>1, <1>5
  <2>3. m \in P
    BY <1>6, <2>2 DEF P
  <2> QED
    BY <1>4, <1>5, <2>1, <2>3
<1>7. \E k \in DOMAIN order : order[k] \in S /\ \A m \in 1 .. k - 1 : order[m] \notin S
  BY <1>5, <1>6
<1> QED
  BY <1>7 DEF FirstOf

\* The job is one of those that are left to do.
LEMMA JobIsToDo ==
    ASSUME WInv, InJob
    PROVE  /\ SourceNow \in worker.todo /\ SourceNow \in Sources
           /\ JobNow = JobOf(worker)
           /\ JobNow.source = SourceNow
           /\ JobNow.inputs # ApprovedBytes[SourceNow]
<1>1. worker # None /\ worker.todo # {} /\ worker.todo \subseteq Sources
  BY DEF InJob, WInv, Sound
<1>2. SourceOrder \in Seq(Sources) /\ ToSet(SourceOrder) = Sources
  BY TransformAssumption
<1>3. SourceNow \in worker.todo
  BY <1>1, <1>2, FirstIsOneOf DEF SourceNow
<1>4. JobNow = JobOf(worker)
  BY DEF JobNow, JobOf, SourceNow
<1>5. JobNow.source = SourceNow /\ JobNow.inputs = worker.inputs[SourceNow]
  BY DEF JobNow
<1> QED
  BY <1>1, <1>3, <1>4, <1>5 DEF WInv, Sound

\* What is complete stays complete when more is captured and committed.
LEMMA CompletenessStays ==
    ASSUME WInv, committed' = committed, interpretations' = interpretations,
           catalogue \subseteq catalogue'
    PROVE  InterpretationsAreComplete'
BY DEF WInv, InterpretationsAreComplete

LEMMA SoundnessStays ==
    ASSUME NEW w, NEW done, NEW archive, NEW more, NEW larger, Sound(w, done, archive),
           done \subseteq more, archive \subseteq larger
    PROVE  Sound(w, more, larger)
BY DEF Sound

\* The end of a job leaves fewer jobs, none of them begun.
LEMMA EndedJobIsSound ==
    ASSUME WInv, InJob, NEW status, EndJob(status), NEW done, NEW archive
    PROVE  Sound(worker', done, archive)
<1>1. worker # None /\ Sound(worker, committed, catalogue)
  BY DEF WInv, InJob
<1> DEFINE todo == worker.todo \ {SourceNow}
           outcomes == [worker.done EXCEPT ![SourceNow] = Outcome(JobNow, status)]
<1>2. worker' = [todo |-> todo, inputs |-> worker.inputs, left |-> None, done |-> outcomes]
  BY DEF EndJob
<1>3. todo \subseteq worker.todo
  OBVIOUS
<1> HIDE DEF todo, outcomes
<1> QED
  BY <1>1, <1>2, <1>3 DEF Sound

LEMMA StartWorkerSound ==
    ASSUME WInv, StartWorker
    PROVE  WInv'
<1>1. /\ worker' = [todo |-> Jobs, inputs |-> [s \in Sources |-> Inputs(s)],
                   left |-> None, done |-> NoOutcomes]
      /\ UNCHANGED <<committed, interpretations, catalogue>>
  BY DEF StartWorker, robot
<1>2. InterpretationsAreComplete'
  BY <1>1, CompletenessStays
<1>3. Sound(worker', committed', catalogue')
  <2> DEFINE inputs == [s \in Sources |-> Inputs(s)]
  <2>1. \A s \in Jobs : s \in Sources /\ inputs[s] # ApprovedBytes[s]
    BY DEF Jobs, Changed
  <2> HIDE DEF inputs
  <2>2. worker' = [todo |-> Jobs, inputs |-> inputs, left |-> None, done |-> NoOutcomes]
    BY <1>1 DEF inputs
  <2> QED
    BY <2>1, <2>2 DEF Sound
<1> QED
  BY <1>2, <1>3 DEF WInv

LEMMA VerifySound ==
    ASSUME WInv, Verify
    PROVE  WInv'
<1>1. InJob /\ UNCHANGED <<committed, interpretations, catalogue>>
  BY DEF Verify, robot
<1>2. InterpretationsAreComplete'
  BY <1>1, CompletenessStays
<1>3. Sound(worker', committed', catalogue')
  <2>1. CASE EndJob("quarantined")
    BY <1>1, <2>1, EndedJobIsSound
  <2>2. CASE /\ \A l \in LabelsOf(SourceNow) : IsArchived(l)
             /\ worker' = [worker EXCEPT !.left = LabelsOf(SourceNow)]
    <3>1. Sound(worker, committed, catalogue) /\ worker # None
      BY <1>1 DEF WInv, InJob
    <3>2. JobNow = JobOf(worker) /\ JobNow.source = SourceNow
      BY <1>1, JobIsToDo
    <3>3. worker' = [todo |-> worker.todo, inputs |-> worker.inputs,
                     left |-> LabelsOf(SourceNow), done |-> worker.done]
      <4>1. PICK todo, inputs, left, done :
                worker = [todo |-> todo, inputs |-> inputs, left |-> left, done |-> done]
        BY <3>1 DEF Sound
      <4> QED
        BY <2>2, <4>1
    <3>4. JobOf(worker') = JobOf(worker)
      BY <3>3 DEF JobOf
    <3>5. worker'.todo = worker.todo /\ worker'.inputs = worker.inputs
          /\ worker'.left = LabelsOf(SourceNow) /\ worker'.done = worker.done
      BY <3>3
    <3>6. \A l \in LabelsOf(SourceNow) : Capture(JobNow, l) \in catalogue'
      BY <1>1, <2>2 DEF IsArchived
    <3> QED
      BY <3>1, <3>2, <3>3, <3>4, <3>5, <3>6 DEF Sound
  <2> QED
    BY <2>1, <2>2 DEF Verify
<1> QED
  BY <1>2, <1>3 DEF WInv

LEMMA CommitSound ==
    ASSUME WInv, Commit
    PROVE  WInv'
<1> DEFINE label == FirstOf(LabelOrder, worker.left)
           c == Capture(JobNow, label)
<1>1. /\ InJob /\ worker.left # None /\ worker.left # {}
      /\ committed' = committed \cup {c}
      /\ worker' = [worker EXCEPT !.left = worker.left \ {label}]
      /\ UNCHANGED <<interpretations, catalogue>>
  BY DEF Commit, robot
<1>2. worker # None /\ worker.todo # {} /\ Sound(worker, committed, catalogue)
  BY <1>1 DEF WInv, InJob
<1>3. JobNow = JobOf(worker) /\ JobNow.source = SourceNow /\ SourceNow \in Sources
  BY <1>1, JobIsToDo
<1>4. /\ worker.left \subseteq LabelsOf(SourceNow)
      /\ \A l \in LabelsOf(SourceNow) :
            /\ Capture(JobNow, l) \in catalogue
            /\ l \notin worker.left => Capture(JobNow, l) \in committed
  BY <1>1, <1>2, <1>3 DEF Sound
<1>5. label \in worker.left
  <2>1. LabelOrder \in Seq(ToSet(LabelOrder)) /\ LabelsOf(SourceNow) \subseteq ToSet(LabelOrder)
    BY <1>3, TransformAssumption
  <2>2. worker.left \subseteq ToSet(LabelOrder)
    BY <1>4, <2>1
  <2> QED
    BY <1>1, <2>1, <2>2, FirstIsOneOf
<1>6. c \in catalogue
  BY <1>4, <1>5
<1> HIDE DEF label
<1>7. InterpretationsAreComplete'
  <2>1. committed' \subseteq catalogue'
    BY <1>1, <1>6 DEF WInv, InterpretationsAreComplete
  <2>2. \A i \in interpretations' :
            /\ \A l \in LabelsOf(i.source) : Capture(i, l) \in committed'
            /\ i.inputs # ApprovedBytes[i.source]
    BY <1>1 DEF WInv, InterpretationsAreComplete
  <2> QED
    BY <2>1, <2>2 DEF InterpretationsAreComplete
<1>8. worker' = [todo |-> worker.todo, inputs |-> worker.inputs,
                 left |-> worker.left \ {label}, done |-> worker.done]
  <2>1. PICK left : left = worker.left \ {label}
    OBVIOUS
  <2>2. PICK todo, inputs, before, done :
            worker = [todo |-> todo, inputs |-> inputs, left |-> before, done |-> done]
    BY <1>2 DEF Sound
  <2>3. worker' = [worker EXCEPT !.left = left]
    BY <1>1, <2>1
  <2>4. worker' = [todo |-> todo, inputs |-> inputs, left |-> left, done |-> done]
    BY <2>2, <2>3
  <2>5. worker.todo = todo /\ worker.inputs = inputs /\ worker.done = done
    BY <2>2
  <2> QED
    BY <2>1, <2>4, <2>5
<1>9. JobOf(worker') = JobOf(worker)
  BY <1>8 DEF JobOf
<1>10. /\ worker'.todo = worker.todo /\ worker'.inputs = worker.inputs
       /\ worker'.left = worker.left \ {label} /\ worker'.done = worker.done
  BY <1>8
<1>11. \A l \in LabelsOf(SourceNow) :
            /\ Capture(JobNow, l) \in catalogue'
            /\ l \notin worker'.left => Capture(JobNow, l) \in committed'
  BY <1>1, <1>4, <1>10
<1> HIDE DEF c
<1>12. Sound(worker', committed', catalogue')
  BY <1>2, <1>3, <1>4, <1>8, <1>9, <1>10, <1>11 DEF Sound
<1> QED
  BY <1>7, <1>12 DEF WInv

LEMMA InterpretSound ==
    ASSUME WInv, Interpret
    PROVE  WInv'
<1>1. /\ InJob /\ worker.left = {} /\ EndJob("interpreted")
      /\ interpretations' = interpretations \cup {JobNow}
      /\ UNCHANGED <<committed, catalogue>>
  BY DEF Interpret, AllCommitted, robot
<1>2. worker # None /\ worker.todo # {} /\ Sound(worker, committed, catalogue)
  BY <1>1 DEF WInv, InJob
<1>3. /\ JobNow = JobOf(worker) /\ JobNow.source = SourceNow
      /\ JobNow.inputs # ApprovedBytes[SourceNow]
  BY <1>1, JobIsToDo
<1>4. worker.left # None
  BY <1>1, TransformAssumption
<1>5. \A l \in LabelsOf(JobNow.source) : Capture(JobNow, l) \in committed
  BY <1>1, <1>2, <1>3, <1>4 DEF Sound
<1>6. InterpretationsAreComplete'
  <2>1. committed' \subseteq catalogue'
    BY <1>1 DEF WInv, InterpretationsAreComplete
  <2>2. ASSUME NEW i \in interpretations'
        PROVE  /\ \A l \in LabelsOf(i.source) : Capture(i, l) \in committed'
               /\ i.inputs # ApprovedBytes[i.source]
    <3>1. CASE i = JobNow
      BY <1>1, <1>3, <1>5, <3>1
    <3>2. CASE i \in interpretations
      BY <1>1, <3>2 DEF WInv, InterpretationsAreComplete
    <3> QED
      BY <1>1, <3>1, <3>2
  <2> QED
    BY <2>1, <2>2 DEF InterpretationsAreComplete
<1>7. Sound(worker', committed', catalogue')
  BY <1>1, EndedJobIsSound
<1> QED
  BY <1>6, <1>7 DEF WInv

\* Jobs that end without a new interpretation.
LEMMA EndedSound ==
    ASSUME WInv, Reuse \/ Quarantine \/ FailJob
    PROVE  WInv'
<1>1. PICK status : EndJob(status)
  BY DEF Reuse, Quarantine, FailJob
<1>2. InJob /\ UNCHANGED <<committed, interpretations, catalogue>>
  BY DEF Reuse, Quarantine, FailJob, AllCommitted, robot
<1>3. InterpretationsAreComplete'
  BY <1>2, CompletenessStays
<1>4. Sound(worker', committed', catalogue')
  BY <1>1, <1>2, EndedJobIsSound
<1> QED
  BY <1>3, <1>4 DEF WInv

\* A worker that ends, stops or does not start.
LEMMA NoWorkerSound ==
    ASSUME WInv, EndWorker \/ StopWorker \/ Block
    PROVE  WInv'
<1>1. UNCHANGED <<committed, interpretations, catalogue>>
  BY DEF EndWorker, StopWorker, Block, robot
<1>2. InterpretationsAreComplete'
  BY <1>1, CompletenessStays
<1>3. worker' = None
  BY DEF EndWorker, StopWorker, Block
<1> QED
  BY <1>2, <1>3 DEF WInv

\* The robot only adds to the archive.
LEMMA RobotSound ==
    ASSUME WInv, catalogue \subseteq catalogue', UNCHANGED transform
    PROVE  WInv'
<1>1. UNCHANGED <<worker, committed, interpretations>>
  BY DEF transform
<1>2. InterpretationsAreComplete'
  BY <1>1, CompletenessStays
<1>3. worker' # None => Sound(worker', committed', catalogue')
  BY <1>1, SoundnessStays DEF WInv
<1> QED
  BY <1>2, <1>3 DEF WInv

----------------------------------------------------------------------------
\* A step of the worker leaves all to the robot that it knows.
LEMMA WorkerLeavesRobot ==
    ASSUME StartWorker \/ Block \/ WorkerStep \/ FailJob \/ StopWorker
    PROVE  UNCHANGED <<site, state, run, catalogue, lost>>
BY DEF StartWorker, Block, WorkerStep, Verify, Commit, Reuse, Interpret, Quarantine, EndWorker,
       FailJob, StopWorker, robot

LEMMA RobotUnchanged ==
    ASSUME RInv, UNCHANGED <<site, state, run, catalogue, lost>>
    PROVE  RInv'
BY DEF RInv, Typed, RunsGoOn, StatesTellTheTruth, Known

LEMMA StepsKeep ==
    ASSUME RInv, [Next]_vars
    PROVE  RInv'
<1>1. CASE RobotNext
  BY <1>1, RobotKeeps
<1>2. CASE StartWorker \/ Block \/ WorkerStep \/ FailJob \/ StopWorker
  BY <1>2, WorkerLeavesRobot, RobotUnchanged
<1>3. CASE UNCHANGED vars
  BY <1>3, RobotUnchanged DEF vars
<1> QED
  BY <1>1, <1>2, <1>3 DEF Next

LEMMA StepsAreSound ==
    ASSUME WInv, [Next]_vars
    PROVE  WInv'
<1>1. CASE RobotNext /\ UNCHANGED transform
  BY <1>1, ArchiveGrows, RobotSound
<1>2. CASE WorkerStep
  BY <1>2, VerifySound, CommitSound, InterpretSound, EndedSound, NoWorkerSound DEF WorkerStep
<1>3. CASE StartWorker \/ Block \/ FailJob \/ StopWorker
  BY <1>3, StartWorkerSound, EndedSound, NoWorkerSound
<1>4. CASE UNCHANGED vars
  BY <1>4, RobotSound DEF vars, transform
<1> QED
  BY <1>1, <1>2, <1>3, <1>4 DEF Next

\* The robot-state branch and a run under way tell the truth, for every office,
\* every limit of requests and whatever is lost, refused or half archived.
THEOREM BranchTellsTheTruth == Spec => []StatesTellTheTruth
<1>1. InitAll => RInv
  BY RobotStarts DEF InitAll
<1>2. RInv /\ [Next]_vars => RInv'
  BY StepsKeep
<1>3. RInv => StatesTellTheTruth
  BY DEF RInv
<1> QED
  BY <1>1, <1>2, <1>3, PTL DEF Spec

\* What is interpreted is archived and committed, resource by resource, for all
\* sources, whatever the robot does meanwhile and wherever the worker stops.
THEOREM InterpretationsRestOnAll == Spec => []InterpretationsAreComplete
<1>1. InitAll => WInv
  <2>1. ASSUME InitAll PROVE WInv
    BY <2>1 DEF InitAll, WInv, InterpretationsAreComplete
  <2> QED
    BY <2>1
<1>2. WInv /\ [Next]_vars => WInv'
  BY StepsAreSound
<1>3. WInv => InterpretationsAreComplete
  BY DEF WInv
<1> QED
  BY <1>1, <1>2, <1>3, PTL DEF Spec
=============================================================================
