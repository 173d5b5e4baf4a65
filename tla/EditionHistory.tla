----------------------------- MODULE EditionHistory -----------------------------
(***************************************************************************)
(* The aggregate history of published editions as a data type: what a      *)
(* release contributes to it, how histories are merged, which deltas       *)
(* between releases are recorded and what makes a history valid.           *)
(* publishing/public_history.py.                                           *)
(*                                                                         *)
(* An edition stands for its identity: source (authority, register,        *)
(* population, source key), reference date, document digest and parser     *)
(* signature.  What is read from it is a reading: "described" are the      *)
(* names, addresses and counts, which never change once recorded, and      *)
(* "rows" is the fingerprint of the observations, None in an aggregate     *)
(* that was frozen before fingerprints existed.                            *)
(***************************************************************************)
EXTENDS Integers

CONSTANTS Editions,
          SourceOf,    \* the scope of an edition
          DateOf,      \* its reference date, 0 when unknown or incomplete
          ParserOf,    \* its parser signature
          Readings,    \* what builds may read from an edition
          None

Sources == {SourceOf[e] : e \in Editions}
Described == {r.described : r \in UNION {Readings[e] : e \in Editions}}
Rows == {r.rows : r \in UNION {Readings[e] : e \in Editions}}
Bases == {"source date", "capture order", "frozen"}

ASSUME DatesAreNumbers == DateOf \in [Editions -> Nat]
ASSUME RowsAreKnown == None \notin Rows

\* An approved release: one report per source, with its time of checking.
Reports == [edition : Editions, described : Described, rows : Rows, checked : Nat]

\* Editions by identity, checks, and comparisons of two editions' rows.
Readable == [described : Described, rows : Rows \cup {None}]
Checks == [edition : Editions, at : Nat]
Comparisons == [before : Editions, after : Editions, basis : Bases,
                rows : (Rows \cup {None}) \X (Rows \cup {None})]
IsHistory(h) ==
    /\ DOMAIN h = {"editions", "checks", "comparisons"}
    /\ DOMAIN h.editions \subseteq Editions
    /\ \A e \in DOMAIN h.editions : h.editions[e] \in Readable
    /\ h.checks \subseteq Checks
    /\ h.comparisons \subseteq Comparisons

Empty == [editions |-> [e \in {} |-> None], checks |-> {}, comparisons |-> {}]

(***************************************************************************)
(* Validity.  A comparison needs one scope and one parser revision.  Known *)
(* distinct dates order two editions; otherwise only their latest checks   *)
(* do, and those must be strictly ordered.                                 *)
(***************************************************************************)
Alike(b, a) == SourceOf[b] = SourceOf[a] /\ ParserOf[b] = ParserOf[a]
Dated(b, a) == DateOf[b] > 0 /\ DateOf[a] > 0 /\ DateOf[b] # DateOf[a]

ChecksOf(h, e) == {c \in h.checks : c.edition = e}
\* Mutant: every check of the earlier edition precedes every check of the later.
EarliestCheckedBefore(h, b, a) ==
    /\ ChecksOf(h, b) # {} /\ ChecksOf(h, a) # {}
    /\ \A c \in ChecksOf(h, a), d \in ChecksOf(h, b) : d.at < c.at
LastCheckedBefore(h, b, a) ==
    /\ ChecksOf(h, b) # {}
    /\ \E c \in ChecksOf(h, a) : \A d \in ChecksOf(h, b) : d.at < c.at

Ordered(h, c) ==
    IF c.basis = "capture order"
    THEN ~Dated(c.before, c.after) /\ LastCheckedBefore(h, c.before, c.after)
    ELSE DateOf[c.before] > 0 /\ DateOf[c.before] < DateOf[c.after]

SameKey(c, d) == c.before = d.before /\ c.after = d.after /\ c.basis = d.basis

Valid(h) ==
    /\ \A c \in h.checks : c.edition \in DOMAIN h.editions
    /\ \A c \in h.comparisons :
          /\ {c.before, c.after} \subseteq DOMAIN h.editions
          /\ Alike(c.before, c.after)
          /\ Ordered(h, c)
    /\ \A c, d \in h.comparisons : SameKey(c, d) => c = d

(***************************************************************************)
(* Merging.  The fingerprint of a frozen aggregate may be supplied once;   *)
(* every other difference between two records of an edition is a conflict. *)
(***************************************************************************)
\* Mutant: the fingerprint of a later reading is not compared.
AgreeOnCounts(x, y) == x.described = y.described
Agree(x, y) ==
    /\ x.described = y.described
    /\ x.rows = None \/ y.rows = None \/ x.rows = y.rows
Enriched(x, y) == [described |-> x.described,
                   rows |-> IF x.rows = None THEN y.rows ELSE x.rows]

Joined(h, g, e) ==
    IF e \in DOMAIN h.editions \cap DOMAIN g.editions
    THEN Enriched(h.editions[e], g.editions[e])
    ELSE IF e \in DOMAIN h.editions THEN h.editions[e] ELSE g.editions[e]

Merge(h, g) ==
    [editions |-> [e \in DOMAIN h.editions \cup DOMAIN g.editions |-> Joined(h, g, e)],
     checks |-> h.checks \cup g.checks,
     comparisons |-> h.comparisons \cup g.comparisons]

\* Mutant: a known edition is not compared with the incoming one.
ConsistentUnread(h, g) ==
    \A c \in h.comparisons, d \in g.comparisons : SameKey(c, d) => c = d
\* Mutant: also a missing fingerprint is a conflict.
ConsistentVerbatim(h, g) ==
    /\ \A e \in DOMAIN h.editions \cap DOMAIN g.editions : h.editions[e] = g.editions[e]
    /\ \A c \in h.comparisons, d \in g.comparisons : SameKey(c, d) => c = d
Consistent(h, g) ==
    /\ \A e \in DOMAIN h.editions \cap DOMAIN g.editions :
          Agree(h.editions[e], g.editions[e])
    /\ \A c \in h.comparisons, d \in g.comparisons : SameKey(c, d) => c = d

\* What merge_histories accepts: only the union as a whole is validated.
Mergeable(h, g) == Consistent(h, g) /\ Valid(Merge(h, g))

(***************************************************************************)
(* Releases.  With one report per source, a source of the previous release *)
(* offers at most one edition to compare with.                             *)
(***************************************************************************)
Published(registry) == {registry[s].edition : s \in DOMAIN registry}
ReportOf(registry, e) == registry[SourceOf[e]]
Recorded(report) == [described |-> report.described, rows |-> report.rows]

Aggregate(registry) ==
    [editions |-> [e \in Published(registry) |-> Recorded(ReportOf(registry, e))],
     checks |-> {[edition |-> registry[s].edition, at |-> registry[s].checked] :
                     s \in DOMAIN registry},
     comparisons |-> {}]

Comparison(p, r, basis) == [before |-> p.edition, after |-> r.edition,
                            basis |-> basis, rows |-> <<p.rows, r.rows>>]

Successive(p, r) == p.edition # r.edition /\ Alike(p.edition, r.edition)

Deltas(previous, registry) ==
    LET Pairs == {<<previous[s], registry[s]>> :
                      s \in DOMAIN previous \cap DOMAIN registry}
    IN  {Comparison(x[1], x[2], "source date") : x \in {y \in Pairs :
            /\ Successive(y[1], y[2])
            /\ DateOf[y[1].edition] > 0
            /\ DateOf[y[1].edition] < DateOf[y[2].edition]}}
        \cup
        {Comparison(x[1], x[2], "capture order") : x \in {y \in Pairs :
            /\ Successive(y[1], y[2])
            /\ ~Dated(y[1].edition, y[2].edition)
            /\ y[1].checked < y[2].checked}}

Compared(previous, registry) ==
    [Merge(Aggregate(previous), Aggregate(registry))
        EXCEPT !.comparisons = Deltas(previous, registry)]
Comparable(previous, registry) ==
    /\ Mergeable(Aggregate(previous), Aggregate(registry))
    /\ Valid(Compared(previous, registry))

\* Every published edition is in the history, exactly as published.  The code
\* compares counts and fingerprint; the rest merge_histories compared before.
Reconciles(h, registry) ==
    /\ Valid(h)
    /\ \A e \in Published(registry) :
          /\ e \in DOMAIN h.editions
          /\ h.editions[e] = Recorded(ReportOf(registry, e))
=============================================================================
