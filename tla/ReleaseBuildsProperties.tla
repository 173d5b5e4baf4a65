------------------------ MODULE ReleaseBuildsProperties ------------------------
(***************************************************************************)
(* What a reader of a candidate registry may rely on.                      *)
(***************************************************************************)
EXTENDS ReleaseBuilds

\* What readers see: the candidates and the approved registry.
Shown == candidates \cup ({approved} \ {None})

\* A candidate replayed from a release shows exactly what the release pins,
\* whatever main, the sources and the archive became between selection, review
\* and replay: the bytes and the capture times of the pinned captures, made by
\* the parsers, projector, code and configuration the release names.
CandidatesArePinned ==
    \A c \in Shown : c.release # None =>
        LET m == c.release IN
        /\ c.config = m.config /\ m.config = ConfigAt(m.revision)
        /\ m.projector = Releases[m.revision].projector
        /\ \A s \in Sources :
            /\ c.rows[s].parser = m.parser[s]
            /\ m.parser[s] = Releases[m.revision].parser[s]
            /\ \A r \in LabelsOf(s) :
                /\ c.rows[s].bytes[r] = About[m.capture[r]].bytes
                /\ About[m.capture[r]].at <= c.rows[s].at

\* No candidate holds a source that its own configuration does not approve:
\* not a live one whose resources changed while they were being fetched, not
\* one that kept an edition approved under an earlier configuration, not one
\* replayed with a parser that now reads the pinned bytes in another way.
CandidatesAreApproved ==
    \A c \in Shown, s \in Sources :
        /\ Gates(c.config, s, c.rows[s].parser, c.rows[s].bytes)
        /\ c.rows[s].date = c.config[s].date

\* A reviewed manifest never lets one capture stand for two resources, also
\* when a planned candidate found the same bytes under both: planning does not
\* look, so the replay before review has to refuse it.
OneCapturePerResource ==
    \A m \in manifests : \A r, q \in Resources : m.capture[r] = m.capture[q] => r = q

\* An accepted replay rests on committed interpretations of exactly its captures,
\* and those it rests on name the parser that made them.  A release that names
\* another parser than it runs leaves mislabelled interpretations behind, and
\* no candidate.
PersistedBeforeAccepted ==
    \A c \in Shown : c.release # None =>
        LET m == c.release IN
        \A s \in Sources : \E i \in interpretations :
            /\ i.source = s /\ i.code = m.revision /\ i.parser = m.parser[s]
            /\ i.captures = [r \in LabelsOf(s) |-> m.capture[r]]
            /\ i.made = i.parser
=============================================================================
