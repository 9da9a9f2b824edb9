--------------------------- MODULE PublishedTable ---------------------------
(***************************************************************************)
(* What the rest of the program may rely on about one table of the policy  *)
(* database and the in-memory caches made from it, without saying how the  *)
(* caches are filled: the table goes through numbered versions, and each   *)
(* process judges requests by one of them, beginning with the newest and   *)
(* never going back to an older one.  PolicyStore implements this once for *)
(* "rules" and once for "domain_tags".                                     *)
(***************************************************************************)
EXTENDS Naturals

CONSTANT Procs      \* the processes that hold a cache of the table

VARIABLES
  latest,           \* the number of versions the table has had
  view              \* view[p]: the version p judges by, 0 when it has none

Init ==
  /\ latest = 1
  /\ view = [p \in Procs |-> 0]

(* A statement that changes the table commits. *)
Commit ==
  /\ latest' = latest + 1
  /\ UNCHANGED view

(* A process that starts, for the first time or again, judges by the newest. *)
Start(p) ==
  /\ view[p] = 0
  /\ view' = [view EXCEPT ![p] = latest]
  /\ UNCHANGED latest

(* A process goes on to a version that is not older. *)
Publish(p) ==
  /\ view[p] > 0
  /\ view' \in {[view EXCEPT ![p] = v] : v \in view[p]..latest}
  /\ UNCHANGED latest

(* A process ends: its cache is gone, the table is not. *)
Stop(p) ==
  /\ view' = [view EXCEPT ![p] = 0]
  /\ UNCHANGED latest

Next == Commit \/ \E p \in Procs : Start(p) \/ Publish(p) \/ Stop(p)

Spec == Init /\ [][Next]_<<latest, view>>
=============================================================================
