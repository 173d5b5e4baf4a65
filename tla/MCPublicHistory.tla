----------------------------- MODULE MCPublicHistory -----------------------------
(***************************************************************************)
(* Bounds for the public history.  One source has editions of the same     *)
(* date, of which one may be read in several ways; in the dated regime every   *)
(* edition has its own date and one reading.                               *)
(***************************************************************************)
EXTENDS PublicHistoryProperties

CONSTANTS first, second, third, ordinary, special, parser,
          described, moved, rows1, rows2, rows3

Reading(d, r) == [described |-> d, rows |-> r]

MCSourceOf == [e \in {first, second} |-> ordinary]
MCTwoSources == [e \in {first, second, third} |-> IF e = third THEN special ELSE ordinary]
MCParser == [e \in {first, second} |-> parser]
MCParsers == [e \in {first, second, third} |-> parser]
MCSameDate == [e \in {first, second} |-> 1]
MCDated == [e \in {first, second, third} |-> IF e = second THEN 2 ELSE 1]

MCReadings == [e \in {first, second} |->
                 IF e = first THEN {Reading(described, rows1)}
                 ELSE {Reading(described, rows2), Reading(moved, rows2),
                       Reading(described, rows3)}]
MCSteady == [e \in {first, second} |->
               IF e = first THEN {Reading(described, rows1)} ELSE {Reading(described, rows2)}]
MCSteadyTwo == [e \in {first, second, third} |->
                  IF e = first THEN {Reading(described, rows1)} ELSE {Reading(described, rows2)}]

\* The seed ledger holds an edition frozen before fingerprints existed.
MCSeed == [editions |-> [e \in {first} |-> [described |-> described, rows |-> None]],
           checks |-> {[edition |-> first, at |-> 0]}, comparisons |-> {}]
=============================================================================
