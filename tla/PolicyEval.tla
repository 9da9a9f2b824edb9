----------------------------- MODULE PolicyEval -----------------------------
(***************************************************************************)
(* How a request is judged by a list of rules and a tag map (Policy::      *)
(* evaluate and extract_sld of src/src/policy.rs), as functions of their   *)
(* arguments.  Which list and which map a request sees is the business of  *)
(* PolicyStore.                                                            *)
(*                                                                         *)
(* A host name is the sequence of its labels, a label a sequence of        *)
(* letters; an address is the sequence of its colon-separated parts, so an *)
(* IPv4 address has one.  A rule has a priority, an action and up to four  *)
(* conditions, None where it has none: client, tag, domain and path.       *)
(***************************************************************************)
EXTENDS Integers, SequencesExt

CONSTANTS
  Matching,    \* pairs <<pattern, path>>: the regex matches the path
  Invalid,     \* patterns that Regex::new rejects
  None         \* Option::None

-----------------------------------------------------------------------------
(* The host name as a string. *)
Text(domain) ==
  FlattenSeq([i \in DOMAIN domain |->
    IF i = 1 THEN domain[i] ELSE <<".">> \o domain[i]])

(* extract_sld: co.jp and the like, guessed from the lengths, count as one. *)
ExtractSld(domain) ==
  LET n == Len(domain) IN
  IF n >= 3 /\ Len(domain[n - 1]) <= 3 /\ Len(domain[n]) = 2 THEN domain[n - 2]
  ELSE IF n >= 2 THEN domain[n - 1]
  ELSE domain[1]

(* ip.split(':').next() *)
IpOnly(address) == <<address[1]>>

TagOf(tags, domain) ==
  LET sld == ExtractSld(domain) IN
  IF sld \in DOMAIN tags THEN tags[sld] ELSE None

ClientMatches(rule, client) ==
  rule.client # None => client # None /\ IpOnly(client) = rule.client

TagMatches(rule, tag) ==
  rule.tag # None => tag = rule.tag

(* Mutant: the domain has to be the rule's own. *)
DomainMatches_Exact(rule, domain) ==
  rule.domain # None => rule.domain = domain

(* str::ends_with *)
DomainMatches(rule, domain) ==
  rule.domain # None => IsSuffix(Text(rule.domain), Text(domain))

(* A pattern that does not compile leaves compiled_regex empty. *)
PathMatches(rule, path) ==
  rule.path # None /\ rule.path \notin Invalid => <<rule.path, path>> \in Matching

Applies(rule, request, tag) ==
  /\ ClientMatches(rule, request.client)
  /\ TagMatches(rule, tag)
  /\ DomainMatches(rule, request.domain)
  /\ PathMatches(rule, request.path)

(* Mutant: the loop keeps the last match. *)
FirstMatch_Last(rules, tag, request) ==
  LET hits == {i \in DOMAIN rules : Applies(rules[i], request, tag)} IN
  IF hits = {} THEN "Allow"
  ELSE rules[CHOOSE i \in hits : \A j \in hits : i >= j].action

(* Mutant: no rule, no answer. *)
FirstMatch_NoDefault(rules, tag, request) ==
  LET hits == {i \in DOMAIN rules : Applies(rules[i], request, tag)} IN
  IF hits = {} THEN None
  ELSE rules[CHOOSE i \in hits : \A j \in hits : i <= j].action

(* The first rule that applies decides; the default is to allow. *)
FirstMatch(rules, tag, request) ==
  LET hits == {i \in DOMAIN rules : Applies(rules[i], request, tag)} IN
  IF hits = {} THEN "Allow"
  ELSE rules[CHOOSE i \in hits : \A j \in hits : i <= j].action

(* evaluate, when nothing changes between its two reads. *)
Evaluate(rules, tags, request) ==
  FirstMatch(rules, TagOf(tags, request.domain), request)
=============================================================================
