---------------------------- MODULE ProxyRequest ----------------------------
(***************************************************************************)
(* handle_request (src/src/proxy.rs) next to the changes of the policy.    *)
(*                                                                         *)
(* A request is judged on a worker thread of the process `serve` while the *)
(* TUI and the API change the same Policy.  It reads the caches three      *)
(* times, each time under a lock it drops again: evaluate copies the tag   *)
(* of the domain from tag_cache, then walks rules_cache, and when the      *)
(* client's address is known get_tag reads tag_cache once more for the     *)
(* access log.  Reloads may come between any two of these reads.           *)
(*                                                                         *)
(* The module adds the requests to PolicyStore, of which every process is  *)
(* here a run of `serve`, and judges them with PolicyEval.                 *)
(***************************************************************************)
EXTENDS PolicyStore

CONSTANTS
  Requests,    \* requests the proxy may get, each at most once
  Asked,       \* Asked[r]: [domain, client, path] of request r
  Server,      \* Server[r]: the process r is sent to
  Matching, Invalid   \* as in PolicyEval

ASSUME ServerAssumption == Server \in [Requests -> Procs]

(* The column priority is an INTEGER, action one of two. *)
ASSUME RuleAssumption ==
  /\ \A data \in RuleData : data.priority \in Int /\ data.action \in {"Allow", "Block"}
  /\ None \notin {"Allow", "Block"}

Eval == INSTANCE PolicyEval

VARIABLES
  stage,       \* stage[r]: "new", "reading" (one cache read), "judged",
               \* "answered" or "gone" (the process ended first)
  copy,        \* copy[r][t]: what evaluate read of cache t
  decision,    \* decision[r]: the action evaluate returned
  logged,      \* logged[r]: the tag and action given to record_access
  \* History variables, read by no guard.
  seen,        \* seen[r][t]: the version of t that r was judged by
  floor,       \* floor[r][t]: the last change of t acknowledged before r
  acked,       \* acked[p][t]: the last change of t that p acknowledged
  context      \* context[v]: the last change of rules acknowledged by the
               \* writer's process when version v of the tags was committed

requests == <<stage, copy, decision, logged, seen, floor>>
allVars == <<vars, requests, acked, context>>

NoChange == [t \in Tables |-> 0]

-----------------------------------------------------------------------------
ProxyInit ==
  /\ Init
  /\ stage = [r \in Requests |-> "new"]
  /\ copy = [r \in Requests |-> [t \in Tables |-> None]]
  /\ decision = [r \in Requests |-> None]
  /\ logged = [r \in Requests |-> None]
  /\ seen = [r \in Requests |-> NoChange]
  /\ floor = [r \in Requests |-> NoChange]
  /\ acked = [p \in Procs |-> NoChange]
  /\ context = <<0>>

-----------------------------------------------------------------------------
TagIn(p, r) == Eval!TagOf(cache[p]["tags"], Asked[r].domain)

(* Mutant: the rules are read first. *)
ReadOrder_RulesFirst == <<"rules", "tags">>

(* evaluate copies the tag of the domain, drops that lock and walks the rules
   under another. *)
ReadOrder == <<"tags", "rules">>

ReadCache(r) ==
  LET p == Server[r]
      t == ReadOrder[IF stage[r] = "new" THEN 1 ELSE 2]
      list == cache[p]["rules"]
      read == IF t = "tags" THEN TagIn(p, r) ELSE [i \in DOMAIN list |-> list[i].data] IN
  /\ stage[r] \in {"new", "reading"}
  /\ proc[p] = "up"
  /\ stage' = [stage EXCEPT ![r] = IF @ = "new" THEN "reading" ELSE "judged"]
  /\ copy' = [copy EXCEPT ![r][t] = read]
  /\ decision' = IF stage[r] = "new" THEN decision
                 ELSE [decision EXCEPT ![r] =
                         Eval!FirstMatch(copy'[r]["rules"], copy'[r]["tags"], Asked[r])]
  /\ seen' = [seen EXCEPT ![r][t] = cacheVer[p][t]]
  /\ floor' = IF stage[r] = "new" THEN [floor EXCEPT ![r] = acked[p]] ELSE floor
  /\ UNCHANGED <<vars, logged, acked, context>>

(* Mutant: get_tag is asked for the host name. *)
Answer_HostTag(r) ==
  /\ stage[r] = "judged"
  /\ stage' = [stage EXCEPT ![r] = "answered"]
  /\ logged' = [logged EXCEPT ![r] = [tag |-> None, action |-> decision[r]]]
  /\ UNCHANGED <<vars, copy, decision, seen, floor, acked, context>>

(* get_tag and record_access, then the answer: the block page, or what the
   upstream server says.  A request without a client address is not logged. *)
Answer(r) ==
  /\ stage[r] = "judged"
  /\ stage' = [stage EXCEPT ![r] = "answered"]
  /\ logged' =
       IF Asked[r].client = None THEN logged
       ELSE [logged EXCEPT ![r] =
               [tag |-> TagIn(Server[r], r), action |-> decision[r]]]
  /\ UNCHANGED <<vars, copy, decision, seen, floor, acked, context>>

-----------------------------------------------------------------------------
(* A change commits; the tags remember what it may rely on. *)
Change(m) ==
  /\ Mutate(m)
  /\ context' = IF Len(history'["tags"]) > Len(history["tags"])
                THEN Append(context, acked[Home[m]]["rules"]) ELSE context
  /\ UNCHANGED <<requests, acked>>

(* The call returns Ok: the change is acknowledged. *)
Acknowledge(m) ==
  /\ ReloadSwap(m)
  /\ acked' = [acked EXCEPT ![Home[m]][table[m]] = IF wrote[m] > @ THEN wrote[m] ELSE @]
  /\ UNCHANGED <<requests, context>>

Other(m) ==
  /\ ReloadRead(m) \/ ReloadFails(m)
  /\ UNCHANGED <<requests, acked, context>>

Start(p) ==
  /\ Boot(p)
  /\ UNCHANGED <<requests, acked, context>>

(* The process takes its requests with it. *)
End(p) ==
  /\ Crash(p)
  /\ stage' = [r \in Requests |->
                 IF Server[r] = p /\ stage[r] \in {"reading", "judged"} THEN "gone"
                 ELSE stage[r]]
  /\ UNCHANGED <<copy, decision, logged, seen, floor, acked, context>>

Handle(r) == ReadCache(r) \/ Answer(r)

Done == Finished /\ UNCHANGED <<requests, acked, context>>

ProxyNext ==
  \/ \E r \in Requests : Handle(r)
  \/ \E m \in Mutators : Change(m) \/ Acknowledge(m) \/ Other(m)
  \/ \E p \in Procs : Start(p) \/ End(p)
  \/ Done

ProxySpec == ProxyInit /\ [][ProxyNext]_allVars

-----------------------------------------------------------------------------
(* Properties. *)

(* Types of the variables that ProxyRequest adds. *)
ProxyTypeOK ==
  /\ stage \in [Requests -> {"new", "reading", "judged", "answered", "gone"}]
  /\ decision \in [Requests -> {"Allow", "Block", None}]
  /\ \A r \in Requests : stage[r] \in {"judged", "answered"} => decision[r] # None
  /\ \A r \in Requests, t \in Tables : seen[r][t] \in 0..Latest(t)
  /\ \A p \in Procs, t \in Tables : acked[p][t] \in 0..Latest(t)
  /\ Len(context) = Latest("tags")

(* The answer is what the committed policy says: of the rules of ONE committed
   version that apply, given the tag of ONE committed version of the tags, one
   of least priority number decides (policy.rs:278-335 on what 107-151 cached). *)
DecidedByPolicy ==
  \A r \in Requests :
    stage[r] \in {"judged", "answered"} =>
      LET tag == Eval!TagOf(history["tags"][seen[r]["tags"]].rows, Asked[r].domain)
          hits == {rule \in history["rules"][seen[r]["rules"]].rows :
                     Eval!Applies(rule.data, Asked[r], tag)} IN
      IF hits = {} THEN decision[r] = "Allow"
      ELSE \E rule \in hits :
             /\ decision[r] = rule.data.action
             /\ \A other \in hits : rule.data.priority <= other.data.priority

(* What evaluate read for r is the tag of its domain in version v of the tags,
   or every rule of version v of the rules in an order by priority. *)
HasTagOf(r, v) ==
  copy[r]["tags"] = Eval!TagOf(history["tags"][v].rows, Asked[r].domain)
HasRulesOf(r, v) ==
  \E list \in Listings(history["rules"][v].rows) :
    copy[r]["rules"] = [i \in DOMAIN list |-> list[i].data]

(* A change that was acknowledged before a request came in is obeyed when the
   request is judged, also after a restart: the rules and the tag it is judged
   by are those of that version or of a later one (policy.rs:175: the call
   returns only after the reload).  A reload that skips rows it could not read
   acknowledges a change it may have missed, so this and the next property are
   about runs without that failure. *)
AcknowledgedObeyed ==
  \A r \in Requests :
    stage[r] \in {"judged", "answered"} =>
      /\ \E v \in 1..Latest("tags") : v >= floor[r]["tags"] /\ HasTagOf(r, v)
      /\ \E v \in 1..Latest("rules") : v >= floor[r]["rules"] /\ HasRulesOf(r, v)

(* A request that already sees a change of the tags also sees every change of
   the rules acknowledged before that one was made: whoever blocks a tag and
   then puts a domain under it never gets the domain judged without the block.
   It depends on evaluate reading the tag before the rules
   (policy.rs:280-285). *)
TagsNeverAhead ==
  \A r \in Requests :
    LET v == seen[r]["tags"] IN
    stage[r] \in {"judged", "answered"} =>
      /\ HasTagOf(r, v)
      /\ history["tags"][v].by # None /\ Home[history["tags"][v].by] = Server[r] =>
           \E w \in 1..Latest("rules") : w >= context[v] /\ HasRulesOf(r, w)

(* A request is logged under another tag than the one it was judged by only if
   the tags changed in between (proxy.rs:119 and 124 read tag_cache twice). *)
LoggedAsJudged ==
  \A r \in Requests :
    stage[r] = "answered" /\ Asked[r].client # None =>
      \/ logged[r] = [tag |-> copy[r]["tags"], action |-> decision[r]]
      \/ Latest("tags") > seen[r]["tags"]
=============================================================================
