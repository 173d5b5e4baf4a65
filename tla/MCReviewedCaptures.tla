--------------------------- MODULE MCReviewedCaptures ---------------------------
(***************************************************************************)
(* A landing page, itself a resource of a source, links to a page and to a  *)
(* document that never answers; the page links to one that does.  Two       *)
(* sources share a resource; the parser of one needs a review for every     *)
(* edition, the other has the landing page, too.  Four requests do not      *)
(* suffice for five URLs.                                                   *)
(***************************************************************************)
EXTENDS ReviewedCapturesProperties

CONSTANTS landing, page, first, dead, alive,   \* URLs
          single, pair,                        \* sources
          old, new, text                       \* contents

MCLanding == {landing}
MCEditions == [u \in {landing, page, first, dead, alive} |->
                 CASE u = first -> <<old, new>>
                   [] u = dead -> <<None>>
                   [] u = alive -> <<old>>
                   [] OTHER -> <<text>>]
MCKeysAt == [u \in DOMAIN MCEditions |->
               CASE u = first -> <<pair, single>> [] u = landing -> <<pair>> [] OTHER -> <<>>]
MCLinks == [u \in {landing, page} |-> IF u = landing THEN {page, dead} ELSE {alive}]
MCReverseUrls == <<page, landing, first, dead, alive>>

MCSourceOrder == <<single, pair>>
MCLabelOrder == <<"primary", "x", "y">>
MCUrlOf == [s \in {single, pair} |->
              IF s = single THEN [l \in {"primary"} |-> first]
              ELSE [l \in {"x", "y"} |-> IF l = "x" THEN first ELSE landing]]
MCApprovedBytes == [s \in {single, pair} |->
                      [l \in DOMAIN MCUrlOf[s] |-> IF l = "y" THEN text ELSE old]]
=============================================================================
