---------------------------- MODULE SessionLedger ----------------------------
(***************************************************************************)
(* What the access log promises about the requests it is told of, without  *)
(* sweeps, timeouts or locks: requests are counted in groups, a group is   *)
(* written to the log as one row or dropped as a whole, and what is in a   *)
(* row stays there.  No request is ever counted in two groups or rows.     *)
(* AccessLog implements this module.                                       *)
(***************************************************************************)
EXTENDS Sequences

CONSTANT Requests

VARIABLES
  open,      \* the groups that may still grow or are on their way to the log
  rows,      \* the log: one group per row, in the order written
  dropped    \* requests whose group was dropped, or whose row was deleted

Members(groups) == UNION groups
InRows == UNION {rows[i] : i \in DOMAIN rows}

Init ==
  /\ open = {}
  /\ rows = <<>>
  /\ dropped = {}

(* A request that was never counted joins an open group or starts one. *)
Count(r) ==
  /\ r \notin Members(open) \cup InRows \cup dropped
  /\ \/ open' = open \cup {{r}}
     \/ \E g \in open : open' = (open \ {g}) \cup {g \cup {r}}
  /\ UNCHANGED <<rows, dropped>>

Write(g) ==
  /\ open' = open \ {g}
  /\ rows' = Append(rows, g)
  /\ UNCHANGED dropped

Drop(gs) ==
  /\ open' = open \ gs
  /\ dropped' = dropped \cup Members(gs)
  /\ UNCHANGED rows

(* The log is emptied together with some of the open groups. *)
Clear(gs) ==
  /\ open' = open \ gs
  /\ rows' = <<>>
  /\ dropped' = dropped \cup Members(gs) \cup InRows

Next ==
  \/ \E r \in Requests : Count(r)
  \/ \E g \in open : Write(g)
  \/ \E gs \in SUBSET open : Drop(gs) \/ Clear(gs)

Spec == Init /\ [][Next]_<<open, rows, dropped>>
=============================================================================
