-------------------------- MODULE ImmutableEvidence --------------------------
(***************************************************************************)
(* What the evidence archive promises its readers: original bytes are      *)
(* preserved once and for all, an acquisition is bound once to bytes that  *)
(* are already preserved, and a parser sees a manifest only after both.    *)
(***************************************************************************)
CONSTANTS Keys,        \* identities of acquisitions: a source and a capture id
          Contents,    \* distinct sequences of source bytes
          Provenance,  \* what else a manifest says: locators, times, MIME type
          None

VARIABLES preserved,   \* the contents that can be read back intact
          bound,       \* the manifest recorded for each acquisition, or None
          exposed      \* the manifests handed to a parser

vars == <<preserved, bound, exposed>>

Manifests == [key : Keys, content : Contents, provenance : Provenance]

Init ==
    /\ preserved \in SUBSET Contents
    /\ bound \in [Keys -> Manifests \cup {None}]
    /\ \A k \in Keys : bound[k] # None =>
          /\ bound[k].key = k
          /\ bound[k].content \in preserved
    /\ exposed = {}

Preserve(c) ==
    /\ preserved' = preserved \cup {c}
    /\ UNCHANGED <<bound, exposed>>

Bind(m) ==
    /\ m.content \in preserved
    /\ bound[m.key] = None
    /\ bound' = [bound EXCEPT ![m.key] = m]
    /\ UNCHANGED <<preserved, exposed>>

Expose(m) ==
    /\ m.content \in preserved
    /\ bound[m.key] = m
    /\ exposed' = exposed \cup {m}
    /\ UNCHANGED <<preserved, bound>>

Next ==
    \/ \E c \in Contents : Preserve(c)
    \/ \E m \in Manifests : Bind(m) \/ Expose(m)

Spec == Init /\ [][Next]_vars
=============================================================================
