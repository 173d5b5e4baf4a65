---------------------------- MODULE MCReleaseBuilds ----------------------------
(***************************************************************************)
(* Two sources: one approved by meaning, and a bundle of two members that    *)
(* may have equal bytes.  The second revision changes the configuration, a   *)
(* parser that then reads the same bytes in another way, or both.           *)
(***************************************************************************)
EXTENDS ReleaseBuildsProperties

CONSTANTS alone, bundle, p, q, meaning, other, old, new, page, one, two, three, four

MCOrder == <<alone, bundle>>
MCResources == {<<alone, "primary">>, <<bundle, "x">>, <<bundle, "y">>}

MCBytes == [r \in MCResources |-> IF r = <<bundle, "y">> THEN {p} ELSE {p, q}]

Capture(s, b, t, d) == [source |-> s, bytes |-> b, date |-> d, at |-> t, locator |-> page]
MCAbout == [c \in Captures |->
              CASE c = one -> Capture(alone, q, 1, None)
                [] c = two -> Capture(bundle, p, 1, 1)
                [] c = three -> Capture(bundle, p, 2, 1)
                [] c = four -> Capture(bundle, q, 1, 1)]

\* The old parser makes the approved rows of either bytes, the new one of p only.
MCSemantics == [v \in {old, new} |-> [b \in {p, q} |->
                  IF v = new /\ b = q THEN other ELSE meaning]]

Config(date, y) ==
    [s \in {alone, bundle} |->
       [semantic |-> IF s = alone THEN meaning ELSE None,
        date |-> IF s = alone THEN date ELSE 1,
        bytes |-> [r \in MCResources |-> IF r[1] = alone THEN None
                                         ELSE IF r[2] = "y" THEN y ELSE p],
        locator |-> [r \in MCResources |-> page]]]
Release(config, v) == [config |-> config, projector |-> old,
                       parser |-> [s \in {alone, bundle} |-> IF s = alone THEN v ELSE old]]
MCReleases == <<Release(Config(None, p), old), Release(Config(None, p), new),
                Release(Config(1, q), old)>>

\* The same captures, with the parser of the first and of the second revision.
MCSelections ==
    {[capture |-> [r \in MCResources |-> IF r[1] = alone THEN one
                                         ELSE IF r[2] = "x" THEN two ELSE three],
      parser |-> [s \in {alone, bundle} |-> IF s = alone THEN v ELSE old],
      projector |-> old] : v \in {old, new}}
=============================================================================
