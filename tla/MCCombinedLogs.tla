--------------------------- MODULE MCCombinedLogs ---------------------------
(* Instances of CombinedLogs for TLC. *)
EXTENDS CombinedLogs

CONSTANTS phone, site, SITE, ads, r1, r2

(* A domain whose spelling differs from its key, and the same with a tag. *)
Plain == [device |-> phone, domain |-> SITE, tag |-> None, action |-> "Allow"]
Tagged == [device |-> phone, domain |-> site, tag |-> ads, action |-> "Allow"]

MCAccesses == {Plain, Tagged}

(* Up to the names of requests and accesses: of one session, or of two. *)
MCMixes == {[r \in Requests |-> Plain],
            [r \in Requests |-> IF r = r1 THEN Plain ELSE Tagged]}

MCLower == [d \in {site, SITE} |-> IF d = SITE THEN site ELSE d]

(* The clocks are set back by 1 at time 1. *)
MCOffset == [t \in 0..MaxNow |-> IF t < 1 THEN 1 ELSE 0]
=============================================================================
