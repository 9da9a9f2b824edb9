----------------------------- MODULE MCAccessLog -----------------------------
(* Instances of AccessLog for TLC. *)
EXTENDS AccessLog

CONSTANTS phone, site, SITE, ads

(* A domain in two spellings, with and without a tag. *)
MCAccesses ==
  {[device |-> phone, domain |-> site, tag |-> None, action |-> "Allow"],
   [device |-> phone, domain |-> SITE, tag |-> None, action |-> "Allow"],
   [device |-> phone, domain |-> site, tag |-> ads, action |-> "Allow"]}

MCLower == [d \in {site, SITE} |-> IF d = SITE THEN site ELSE d]
=============================================================================
