----------------------------- MODULE MCPortfolio -----------------------------
(* The same symbol at two venues, both traded; an order for a may land at b. *)
EXTENDS Portfolio
CONSTANTS a, b, v1, v2

MCVenueOf == [k \in {a, b} |-> IF k = a THEN v1 ELSE v2]
MCInstruments == <<a, b>>
MCElsewhere == [k \in {a, b} |-> IF k = a THEN {b} ELSE {}]
MCCash == [v \in {v1, v2} |-> 100]
MCResults == {-30, 0}
=============================================================================
