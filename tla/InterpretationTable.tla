--------------------------- MODULE InterpretationTable ---------------------------
(***************************************************************************)
(* What private interpretations promise their readers: an interpretation of *)
(* some bytes by some code is added once, together with links that         *)
(* attribute each labelled input to a capture with those bytes; further    *)
(* captures may be linked to it later; nothing is ever changed.            *)
(***************************************************************************)
CONSTANTS ContentOf,  \* the bytes a capture is bound to
          Snapshots   \* interpretations: [code, output], by [contents, ...] code

VARIABLES bound,            \* captures committed with durable bytes
          interpretations,  \* the interpretations that can be read
          links             \* [capture, code, label]

vars == <<bound, interpretations, links>>

Captures == DOMAIN ContentOf

\* The links that would be true of an interpretation.
Fitting(r) ==
    {l \in [capture : bound, code : {r.code}, label : DOMAIN r.code.contents] :
        ContentOf[l.capture] = r.code.contents[l.label]}

\* A capture is linked to an interpretation under one label.
Unambiguous(ls) ==
    \A k, l \in ls : k.capture = l.capture /\ k.code = l.code => k = l

Add(new) ==
    /\ Unambiguous(links \cup new)
    /\ links' = links \cup new

Init ==
    /\ bound \in SUBSET Captures
    /\ interpretations = {}
    /\ links = {}

Bind(c) ==
    /\ bound' = bound \cup {c}
    /\ UNCHANGED <<interpretations, links>>

\* The only output of its code, attributed completely.
Interpret(r) ==
    /\ \A q \in interpretations : q.code # r.code
    /\ interpretations' = interpretations \cup {r}
    /\ \E new \in SUBSET Fitting(r) :
           /\ \A i \in DOMAIN r.code.contents : \E l \in new : l.label = i
           /\ Add(new)
    /\ UNCHANGED bound

\* Other captures of the same bytes.
Attach(r) ==
    /\ r \in interpretations
    /\ UNCHANGED <<bound, interpretations>>
    /\ \E new \in SUBSET Fitting(r) : Add(new)

Next ==
    \/ \E c \in Captures : Bind(c)
    \/ \E r \in Snapshots : Interpret(r) \/ Attach(r)

Spec == Init /\ [][Next]_vars
=============================================================================
