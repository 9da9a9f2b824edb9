---------------------------- MODULE MCPolicyStore ----------------------------
(* Instances of PolicyStore for TLC. *)
EXTENDS PolicyStore

CONSTANTS serve, manage, tui, api, cli   \* processes and threads, by name

(* Two rules of equal priority, so that their order in the listing is open;
   one has a name DeleteRulesByName can match. *)
MCRuleData ==
  {[priority |-> 10, name |-> "limit"], [priority |-> 10, name |-> None]}

(* One rule, for the instance with two processes and failures. *)
OneRule == {[priority |-> 10, name |-> "limit"]}

(* `serve --manage --api-listen`: TUI and API change the same Policy. *)
OneProcess == [m \in {tui, api} |-> serve]

(* `serve --manage` and, on the same database file, `manage`. *)
TwoProcesses == [m \in {tui, cli} |-> IF m = cli THEN manage ELSE serve]
=============================================================================
