--------------------------- MODULE PolicyJudgement ---------------------------
(***************************************************************************)
(* PolicyEval run on its inputs: one state per list of rules, tag map and  *)
(* request, and one step that judges the request.                          *)
(***************************************************************************)
EXTENDS PolicyEval

CONSTANTS
  Rows,        \* rules a table may hold
  MaxRules,    \* bound: rules in the list
  Domains,     \* host names of requests
  Subdomains,  \* labels a host name may be prefixed with
  Clients,     \* client addresses
  Paths,       \* paths of requests
  TagMaps      \* contents of the tag cache: label -> tag or None

ASSUME BoundAssumption == MaxRules \in Nat

(* A name has at least one label; a label may be empty. *)
Names == Seq(Seq(STRING)) \ {<<>>}

ASSUME RowAssumption ==
  \A row \in Rows :
    row.priority \in Int /\ (row.domain # None => row.domain \in Names)

ASSUME NameAssumption == Domains \subseteq Names /\ Subdomains \subseteq Seq(STRING)

VARIABLES
  rules,     \* the rules a reload left in the cache
  tags,      \* the tag cache
  request,   \* [domain, client, path]
  decision   \* "Allow" or "Block", None before the request is judged

vars == <<rules, tags, request, decision>>

(* SELECT ... ORDER BY priority ASC *)
Listings(rows) ==
  {list \in SetToSeqs(rows) :
     \A i, j \in DOMAIN list : i < j => list[i].priority <= list[j].priority}

Init ==
  /\ \E rows \in SUBSET Rows :
       IsFiniteSet(rows) /\ Cardinality(rows) <= MaxRules /\ rules \in Listings(rows)
  /\ tags \in TagMaps
  /\ request \in [domain : Domains, client : Clients \cup {None}, path : Paths]
  /\ decision = None

Judge ==
  /\ decision = None
  /\ decision' = Evaluate(rules, tags, request)
  /\ UNCHANGED <<rules, tags, request>>

Spec == Init /\ [][Judge]_vars

-----------------------------------------------------------------------------
(* Properties. *)

(* A rule that names a tag or an address is out of the question for a request
   that has none. *)
Candidates ==
  LET tag == TagOf(tags, request.domain)
      stated(rule) ==
        {c \in {"client", "tag", "domain", "path"} : rule[c] # None} IN
  {rule \in {rules[i] : i \in DOMAIN rules} :
     \A c \in stated(rule) :
       CASE c = "client" -> ClientMatches(rule, request.client)
         [] c = "tag" -> tag # None /\ TagMatches(rule, tag)
         [] c = "domain" -> DomainMatches(rule, request.domain)
         [] c = "path" -> PathMatches(rule, request.path)}

(* Among the rules that apply, one of least priority number decides, and only
   equal priorities leave room: the decision does not depend on the order in
   which SQLite lists the rest (policy.rs:109-112 with 287-334). *)
LeastPriorityDecides ==
  decision # None =>
    IF Candidates = {} THEN decision = "Allow"
    ELSE \E rule \in Candidates :
           /\ decision = rule.action
           /\ \A other \in Candidates : rule.priority <= other.priority

(* policy.rs:316: a rule for a domain covers its subdomains, at any depth, and
   so does the tag of a domain, once the domain has three labels or more. *)
SubdomainsCovered ==
  \A label \in Subdomains :
    LET sub == <<label>> \o request.domain IN
    /\ \A i \in DOMAIN rules :
         DomainMatches(rules[i], request.domain) => DomainMatches(rules[i], sub)
    /\ Len(request.domain) >= 3 => TagOf(tags, sub) = TagOf(tags, request.domain)

(* policy.rs:291, "Remove port if present": nothing but a port is removed, so a
   rule for the very address of the client passes the check. *)
OwnAddressMatches ==
  \A i \in DOMAIN rules :
    rules[i].client # None /\ rules[i].client = request.client =>
      ClientMatches(rules[i], request.client)

(* policy.rs:329, "If we reach here, all rule conditions matched!": a request
   is blocked by a rule only if it also matches the rule's path pattern. *)
AllConditionsMatched ==
  decision = "Block" =>
    \E i \in DOMAIN rules :
      /\ rules[i].action = "Block"
      /\ rules[i].path # None => <<rules[i].path, request.path>> \in Matching
=============================================================================
