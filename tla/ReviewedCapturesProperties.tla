----------------------- MODULE ReviewedCapturesProperties -----------------------
(***************************************************************************)
(* What the robots and the transformation of their captures promise.        *)
(***************************************************************************)
EXTENDS ReviewedCaptures

Known == {state.resources} \cup (IF run = None THEN {} ELSE {run.resources})

\* What is kept of a URL is true of the captures of an archive.
Truthful(u, r, archive) ==
    /\ r.sha = r.archived
    /\ u \in Documents => r.sha # Html
    /\ r.sha # None =>
          \/ \A k \in ToSet(CaptureKeys(u)) : [url |-> u, key |-> k, bytes |-> r.sha] \in archive
          \/ [key |-> None, bytes |-> r.sha] \in r.history

\* The robot-state branch and a run under way tell the truth.  The bytes that
\* were accepted for a URL are archived under each of its keys, and are no page
\* in place of a document, however often the URL failed, was half archived or
\* answered with a page meanwhile.  Every capture of the branch can be read back
\* from the archive, and the branch has every capture of the archive but those
\* of the run under way and of runs whose report was lost.
StatesTellTheTruth ==
    /\ \A resources \in Known : \A u \in Urls : Truthful(u, resources[u], catalogue)
    /\ catalogue = lost \cup UNION {CapturesIn(resources) : resources \in Known}

\* An interpretation rests on every resource of its source, each captured under
\* the key of that very source, archived and committed to the database, and not
\* on the approved edition; also when members were captured by different runs,
\* when one was refused, and when an earlier attempt stopped between two members.
InterpretationsAreComplete ==
    /\ committed \subseteq catalogue
    /\ \A i \in interpretations :
          /\ \A l \in LabelsOf(i.source) : Capture(i, l) \in committed
          /\ i.inputs # ApprovedBytes[i.source]

\* The requests of a run suffice for landing pages and approved resources, for
\* the documents that never answer, and for one more.
HasRoom == Cardinality(Current \cup Flaky) < MaxRequests

Linked == Landing \cup UNION {Links[u] : u \in DOMAIN Links}

CheckedLast(u) ==
    state.resources[u].checked # 0 /\ \A t \in TimesOf(state) : t <= state.resources[u].checked

\* Documents are not starved: what answers is checked again and again, although
\* each run has too few requests for all and begins with the documents that
\* never answered.  Without room for those, none of the others is reached.
DocumentsAreRevisited ==
    HasRoom => \A u \in Linked \cup Current :
                   u \notin Flaky => []<>CheckedLast(u)

Serving(s) == [l \in LabelsOf(s) |-> Served(UrlOf[s][l])]

\* A change that stays is reported: from the page of the office over capture,
\* branch, selection and database to the report of the transformation, whatever
\* was lost, broken off or stopped before.  (A change that does not stay may
\* never be: only the last captures are selected.)
ChangesAreReported ==
    \A s \in Sources : \A v \in {x \in [LabelsOf(s) -> UNION {ToSet(Editions[u]) : u \in Urls}] :
                                    \A l \in LabelsOf(s) : x[l] \in ToSet(Editions[UrlOf[s][l]])} :
        v # ApprovedBytes[s] =>
            (<>[](Serving(s) = v) => <>(report[s] # None /\ report[s].inputs = v))
=============================================================================
