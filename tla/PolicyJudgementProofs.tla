----------------------- MODULE PolicyJudgementProofs -----------------------
(***************************************************************************)
(* Proofs about PolicyJudgement, for every table of rules, tag map and     *)
(* request, and for host names of any length.                              *)
(***************************************************************************)
EXTENDS PolicyJudgement, SetInduction, SequenceTheorems

(* The first rule that applies decides. *)
LEMMA FirstMatchFacts ==
  ASSUME NEW list, DOMAIN list \subseteq Nat, NEW tag, NEW req
  PROVE  \/ /\ \A i \in DOMAIN list : ~ Applies(list[i], req, tag)
            /\ FirstMatch(list, tag, req) = "Allow"
         \/ \E i \in DOMAIN list :
              /\ Applies(list[i], req, tag)
              /\ \A j \in DOMAIN list : Applies(list[j], req, tag) => i <= j
              /\ FirstMatch(list, tag, req) = list[i].action
  <1> DEFINE hits == {i \in DOMAIN list : Applies(list[i], req, tag)}
             first == CHOOSE i \in hits : \A j \in hits : i <= j
  <1>1. FirstMatch(list, tag, req) = IF hits = {} THEN "Allow" ELSE list[first].action
    BY DEF FirstMatch
  <1>2. CASE hits = {}
    BY <1>1, <1>2
  <1>3. CASE hits # {}
    <2>1. first \in hits /\ \A j \in hits : first <= j
      <3>1. hits \in SUBSET Nat
        OBVIOUS
      <3> HIDE DEF hits
      <3>2. \E i \in hits : \A j \in hits : i <= j
        BY <1>3, <3>1, LeastNatural
      <3> QED
        BY <3>2
    <2> HIDE DEF first
    <2> QED
      BY <1>1, <1>3, <2>1
  <1> QED
    BY <1>2, <1>3

(* A listing is sorted by priority. *)
LEMMA ListingFacts ==
  ASSUME NEW rows \in SUBSET Rows, IsFiniteSet(rows), NEW list \in Listings(rows)
  PROVE  /\ DOMAIN list \subseteq Nat
         /\ \A i \in DOMAIN list : list[i] \in Rows
         /\ \A i, j \in DOMAIN list : i <= j => list[i].priority <= list[j].priority
  <1>1. list \in [1..Cardinality(rows) -> rows] /\ Cardinality(rows) \in Nat
    BY FS_CardinalityType DEF Listings, SetToSeqs
  <1>2. \A i, j \in DOMAIN list : i < j => list[i].priority <= list[j].priority
    BY DEF Listings
  <1>3. ASSUME NEW i \in DOMAIN list, NEW j \in DOMAIN list, i <= j
        PROVE  list[i].priority <= list[j].priority
    <2>1. i \in Nat /\ j \in Nat /\ list[i] \in Rows /\ list[i].priority \in Int
      BY <1>1, RowAssumption
    <2>2. CASE i = j
      BY <2>1, <2>2
    <2>3. CASE i < j
      BY <1>2, <2>3
    <2> QED
      BY <1>3, <2>1, <2>2, <2>3
  <1> QED
    BY <1>1, <1>3

(* The candidates are the rules that pass all four checks of the loop: None
   for a tag or an address never equals what a rule asks for. *)
LEMMA CandidateApplies ==
  ASSUME NEW rule
  PROVE  rule \in Candidates <=>
           /\ \E i \in DOMAIN rules : rule = rules[i]
           /\ Applies(rule, request, TagOf(tags, request.domain))
  <1> DEFINE tag == TagOf(tags, request.domain)
             stated == {c \in {"client", "tag", "domain", "path"} : rule[c] # None}
             Holds(c) ==
               CASE c = "client" -> ClientMatches(rule, request.client)
                 [] c = "tag" -> tag # None /\ TagMatches(rule, tag)
                 [] c = "domain" -> DomainMatches(rule, request.domain)
                 [] c = "path" -> PathMatches(rule, request.path)
  <1>1. rule \in Candidates <=>
          (\E i \in DOMAIN rules : rule = rules[i]) /\ \A c \in stated : Holds(c)
    BY Zenon DEF Candidates
  <1>2. (\A c \in stated : Holds(c)) <=>
          /\ rule["client"] # None => ClientMatches(rule, request.client)
          /\ rule["tag"] # None => tag # None /\ TagMatches(rule, tag)
          /\ rule["domain"] # None => DomainMatches(rule, request.domain)
          /\ rule["path"] # None => PathMatches(rule, request.path)
    <2> HIDE DEF tag
    <2> QED
      OBVIOUS
  <1>3. /\ rule["client"] = rule.client /\ rule["tag"] = rule.tag
        /\ rule["domain"] = rule.domain /\ rule["path"] = rule.path
    OBVIOUS
  <1>4. /\ rule.client = None => ClientMatches(rule, request.client)
        /\ rule.tag = None => TagMatches(rule, tag)
        /\ rule.tag # None /\ TagMatches(rule, tag) => tag # None
        /\ rule.domain = None => DomainMatches(rule, request.domain)
        /\ rule.path = None => PathMatches(rule, request.path)
    <2> HIDE DEF tag
    <2> QED
      BY DEF ClientMatches, TagMatches, DomainMatches, PathMatches
  <1> HIDE DEF Holds, tag, stated
  <1>5. Applies(rule, request, tag) <=>
          /\ ClientMatches(rule, request.client) /\ TagMatches(rule, tag)
          /\ DomainMatches(rule, request.domain) /\ PathMatches(rule, request.path)
    BY DEF Applies
  <1>6. (\A c \in stated : Holds(c)) <=> Applies(rule, request, tag)
    BY <1>2, <1>3, <1>4, <1>5
  <1> QED
    BY <1>1, <1>6 DEF tag

(* The rules are some listing of a finite table, and the decision is the one
   the code computes from them. *)
JudgeIInv ==
  /\ \E rows \in SUBSET Rows : IsFiniteSet(rows) /\ rules \in Listings(rows)
  /\ request.domain \in Domains
  /\ decision # None => decision = Evaluate(rules, tags, request)

(* Nothing but the decision changes. *)
LEMMA JudgeInvariant == Spec => []JudgeIInv
  <1>1. Init => JudgeIInv
    BY DEF Init, JudgeIInv
  <1>2. JudgeIInv /\ [Judge]_vars => JudgeIInv'
    <2> SUFFICES ASSUME JudgeIInv, [Judge]_vars PROVE JudgeIInv'
      OBVIOUS
    <2>1. UNCHANGED <<rules, tags, request>>
      BY DEF Judge, vars
    <2>2. decision' = decision \/ decision' = Evaluate(rules, tags, request)
      BY DEF Judge, vars
    <2>3. Evaluate(rules, tags, request)' = Evaluate(rules, tags, request)
      BY <2>1
    <2>4. \E rows \in SUBSET Rows : IsFiniteSet(rows) /\ rules' \in Listings(rows)
      BY <2>1 DEF JudgeIInv
    <2> QED
      BY <2>1, <2>2, <2>3, <2>4 DEF JudgeIInv
  <1> QED
    BY <1>1, <1>2, PTL DEF Spec

(* The action is that of a rule with the least priority among those whose
   every stated condition holds, and Allow when there is none: the first hit
   in the listing ordered by priority is such a rule, in whatever order
   SQLite lists rules of equal priority (policy.rs, evaluate). *)
THEOREM LeastPriority == Spec => []LeastPriorityDecides
  <1>1. ASSUME JudgeIInv, decision # None
        PROVE  IF Candidates = {} THEN decision = "Allow"
               ELSE \E rule \in Candidates :
                      /\ decision = rule.action
                      /\ \A other \in Candidates : rule.priority <= other.priority
    <2> DEFINE tag == TagOf(tags, request.domain)
    <2>1. decision = FirstMatch(rules, tag, request)
      BY <1>1 DEF JudgeIInv, Evaluate
    <2>2. /\ DOMAIN rules \subseteq Nat
          /\ \A i, j \in DOMAIN rules : i <= j => rules[i].priority <= rules[j].priority
      BY <1>1, ListingFacts DEF JudgeIInv
    <2>3. \A rule : rule \in Candidates <=>
                      (\E i \in DOMAIN rules : rule = rules[i]) /\ Applies(rule, request, tag)
      BY CandidateApplies
    <2> HIDE DEF tag
    <2>4. CASE /\ \A i \in DOMAIN rules : ~ Applies(rules[i], request, tag)
               /\ decision = "Allow"
      <3>1. Candidates = {}
        BY <2>3, <2>4
      <3> QED
        BY <2>4, <3>1
    <2>5. ASSUME NEW i \in DOMAIN rules, Applies(rules[i], request, tag),
                 \A j \in DOMAIN rules : Applies(rules[j], request, tag) => i <= j,
                 decision = rules[i].action
          PROVE  /\ rules[i] \in Candidates
                 /\ \A other \in Candidates : rules[i].priority <= other.priority
      BY <2>2, <2>3, <2>5
    <2> QED
      BY <2>1, <2>2, <2>4, <2>5, FirstMatchFacts
  <1>2. JudgeIInv => LeastPriorityDecides
    BY <1>1 DEF LeastPriorityDecides
  <1> QED
    BY <1>2, JudgeInvariant, PTL

-----------------------------------------------------------------------------
(* Subdomains. *)

(* One step of the recursion by which FlattenSeq joins the parts of a text. *)
Step(seqs, f, i) == IF i = 1 THEN seqs[i] ELSE f[i - 1] \o seqs[i]

(* The recursion of FlattenSeq has a solution for every length. *)
LEMMA FlattenExists ==
  ASSUME NEW seqs, NEW n \in Nat
  PROVE  \E f : f = [i \in 1..n |-> Step(seqs, f, i)]
  <1> DEFINE D == {k \in Nat : \E f : f = [i \in 1..k |-> Step(seqs, f, i)]}
  <1>1. 0 \in D
    <2>1. [i \in 1..0 |-> 0] = [i \in 1..0 |-> Step(seqs, [j \in 1..0 |-> 0], i)]
      OBVIOUS
    <2> QED
      BY <2>1
  <1>2. ASSUME NEW k \in Nat, k \in D PROVE k + 1 \in D
    <2>1. PICK f : f = [i \in 1..k |-> Step(seqs, f, i)]
      BY <1>2
    <2> DEFINE g == [i \in 1..(k + 1) |-> IF i \in 1..k THEN f[i] ELSE Step(seqs, f, i)]
    <2>2. ASSUME NEW i \in 1..(k + 1) PROVE g[i] = Step(seqs, g, i)
      <3>1. i # 1 => i - 1 \in 1..k /\ g[i - 1] = f[i - 1]
        OBVIOUS
      <3>2. g[i] = Step(seqs, f, i)
        <4>1. CASE i \in 1..k
          <5>1. f[i] = Step(seqs, f, i)
            BY <2>1, <4>1
          <5> QED
            BY <4>1, <5>1
        <4>2. CASE i \notin 1..k
          BY <4>2
        <4> QED
          BY <4>1, <4>2
      <3> HIDE DEF g
      <3> QED
        BY <3>1, <3>2 DEF Step
    <2>3. g = [i \in 1..(k + 1) |-> g[i]]
      OBVIOUS
    <2> HIDE DEF g
    <2>4. g = [i \in 1..(k + 1) |-> Step(seqs, g, i)]
      BY <2>2, <2>3
    <2> QED
      BY <2>4
  <1>3. Nat \subseteq D
    <2> HIDE DEF D
    <2> QED
      BY <1>1, <1>2, NatInSet
  <1> QED
    BY <1>3

(* FlattenSeq is the last value of that recursion. *)
LEMMA FlattenFacts ==
  ASSUME NEW seqs, Len(seqs) \in Nat \ {0}
  PROVE  \E f : /\ FlattenSeq(seqs) = f[Len(seqs)]
               /\ \A i \in 1..Len(seqs) : f[i] = Step(seqs, f, i)
  <1> DEFINE flatten == CHOOSE f : f = [i \in 1..Len(seqs) |-> Step(seqs, f, i)]
  <1>1. flatten = [i \in 1..Len(seqs) |-> Step(seqs, flatten, i)]
    BY FlattenExists
  <1>2. FlattenSeq(seqs) = flatten[Len(seqs)]
    BY DEF FlattenSeq, Step
  <1> HIDE DEF flatten
  <1>3. \A i \in 1..Len(seqs) : flatten[i] = Step(seqs, flatten, i)
    BY <1>1
  <1> QED
    BY <1>2, <1>3

(* The characters of names and of the texts joined from them. *)
Char == STRING \cup {"."}
CharNames == Seq(Seq(Char)) \ {<<>>}

(* A name of strings is a name of characters. *)
LEMMA NamesOfChars ==
  /\ Seq(STRING) \subseteq Seq(Char)
  /\ Names \subseteq CharNames
  <1>1. Seq(STRING) \subseteq Seq(Char)
    BY SeqMonotonic DEF Char
  <1>2. Seq(Seq(STRING)) \subseteq Seq(Seq(Char))
    BY <1>1, SeqMonotonic
  <1> QED
    BY <1>1, <1>2 DEF Names, CharNames

(* How three texts are joined does not matter. *)
LEMMA Associative ==
  \A s, t, u \in Seq(Char) : (s \o t) \o u = s \o (t \o u)
  BY ConcatAssociative

(* The text that is a dot. *)
LEMMA Dot == <<".">> \in Seq(Char)
  BY DEF Char

(* The labels with the dot before each but the first. *)
Dotted(domain) == [i \in DOMAIN domain |-> IF i = 1 THEN domain[i] ELSE <<".">> \o domain[i]]

(* f[i] is the text of the first i labels. *)
Spells(domain, f) ==
  /\ f[1] = domain[1]
  /\ \A i \in 2..Len(domain) : f[i] = f[i - 1] \o (<<".">> \o domain[i])
  /\ \A i \in 1..Len(domain) : f[i] \in Seq(Char)

(* The text of a name is spelled label by label. *)
LEMMA TextFacts ==
  ASSUME NEW domain \in CharNames
  PROVE  \E f : Text(domain) = f[Len(domain)] /\ Spells(domain, f)
  <1> DEFINE n == Len(domain)
  <1>1. n \in Nat \ {0} /\ DOMAIN domain = 1..n /\ \A i \in 1..n : domain[i] \in Seq(Char)
    BY EmptySeq, LenProperties, ElementOfSeq DEF CharNames
  <1>2. \A i \in 1..n : Dotted(domain)[i] = IF i = 1 THEN domain[i] ELSE <<".">> \o domain[i]
    BY <1>1 DEF Dotted
  <1>3. <<".">> \in Seq(Char)
    BY Dot
  <1>4. Dotted(domain) \in Seq(Seq(Char)) /\ Len(Dotted(domain)) = n
    <2>1. \A i \in 1..n : Dotted(domain)[i] \in Seq(Char)
      <3>1. \A s \in Seq(Char) : <<".">> \o s \in Seq(Char)
        BY <1>3, ConcatProperties
      <3> QED
        BY <1>1, <1>2, <3>1
    <2>2. Dotted(domain) \in [1..n -> Seq(Char)]
      BY <1>1, <2>1 DEF Dotted
    <2>3. Dotted(domain) \in Seq(Seq(Char))
      BY <1>1, <2>2, SeqDef
    <2>4. Len(Dotted(domain)) \in Nat /\ 1..Len(Dotted(domain)) = 1..n
      BY <2>2, <2>3, LenProperties
    <2> QED
      BY <1>1, <2>3, <2>4
  <1>5. PICK f : /\ FlattenSeq(Dotted(domain)) = f[n]
                 /\ \A i \in 1..n : f[i] = Step(Dotted(domain), f, i)
    BY <1>1, <1>4, FlattenFacts
  <1>6. Text(domain) = f[n]
    BY <1>5 DEF Text, Dotted
  <1>7. f[1] = domain[1] /\ \A i \in 2..n : f[i] = f[i - 1] \o (<<".">> \o domain[i])
    <2>1. f[1] = domain[1]
      BY <1>1, <1>2, <1>5 DEF Step
    <2>2. ASSUME NEW i \in 2..n PROVE f[i] = f[i - 1] \o (<<".">> \o domain[i])
      <3>1. i \in 1..n /\ i # 1
        BY <1>1
      <3>2. f[i] = f[i - 1] \o Dotted(domain)[i]
        BY <1>5, <3>1 DEF Step
      <3> QED
        BY <1>2, <3>1, <3>2
    <2> QED
      BY <2>1, <2>2
  <1>8. \A i \in 1..n : f[i] \in Seq(Char)
    <2> DEFINE D == {k \in Nat : k \in 1..n => f[k] \in Seq(Char)}
    <2>1. 0 \in D
      OBVIOUS
    <2>2. ASSUME NEW k \in Nat, k \in D PROVE k + 1 \in D
      <3> SUFFICES ASSUME k + 1 \in 1..n PROVE f[k + 1] \in Seq(Char)
        OBVIOUS
      <3>1. CASE k = 0
        BY <1>1, <1>7, <3>1
      <3>2. CASE k # 0
        <4>1. f[k] \in Seq(Char) /\ domain[k + 1] \in Seq(Char) /\ k + 1 \in 2..n
              /\ (k + 1) - 1 = k
          BY <1>1, <2>2, <3>2
        <4>2. f[k + 1] = f[k] \o (<<".">> \o domain[k + 1])
          BY <1>7, <4>1
        <4>3. <<".">> \o domain[k + 1] \in Seq(Char)
          BY <1>3, <4>1, ConcatProperties
        <4> QED
          BY <4>1, <4>2, <4>3, ConcatProperties
      <3> QED
        BY <3>1, <3>2
    <2>3. Nat \subseteq D
      <3> HIDE DEF D
      <3> QED
        BY <2>1, <2>2, NatInSet
    <2> QED
      BY <1>1, <2>3
  <1> QED
    BY <1>6, <1>7, <1>8 DEF Spells

(* The text of a subdomain ends with a dot and the text of the domain. *)
LEMMA SubdomainText ==
  ASSUME NEW domain \in CharNames, NEW label \in Seq(Char)
  PROVE  /\ <<label>> \o domain \in CharNames
         /\ Text(<<label>> \o domain) = (label \o <<".">>) \o Text(domain)
         /\ Text(domain) \in Seq(Char)
  <1> DEFINE n == Len(domain)
             sub == <<label>> \o domain
             prefix == label \o <<".">>
  <1>1. n \in Nat \ {0} /\ domain \in Seq(Seq(Char))
        /\ \A i \in 1..n : domain[i] \in Seq(Char)
    BY EmptySeq, LenProperties, ElementOfSeq DEF CharNames
  <1>2. <<".">> \in Seq(Char) /\ prefix \in Seq(Char)
    <2>1. <<".">> \in Seq(Char)
      BY Dot
    <2> QED
      BY <2>1, ConcatProperties
  <1>3. sub \in Seq(Seq(Char)) /\ Len(sub) = n + 1 /\ sub[1] = label
        /\ \A i \in 1..n : sub[i + 1] = domain[i]
    <2>1. <<label>> \in Seq(Seq(Char)) /\ Len(<<label>>) = 1 /\ <<label>>[1] = label
      OBVIOUS
    <2>2. /\ sub \in Seq(Seq(Char)) /\ Len(sub) = Len(<<label>>) + n
          /\ \A i \in 1..(Len(<<label>>) + n) :
               sub[i] = IF i <= Len(<<label>>) THEN <<label>>[i] ELSE domain[i - Len(<<label>>)]
      BY <1>1, <2>1, ConcatProperties
    <2> HIDE DEF sub
    <2>3. ASSUME NEW i \in 1..n PROVE sub[i + 1] = domain[i]
      <3>1. i + 1 \in 1..(1 + n) /\ ~ (i + 1 <= 1) /\ (i + 1) - 1 = i
        BY <1>1
      <3> QED
        BY <2>1, <2>2, <3>1
    <2> QED
      BY <1>1, <2>1, <2>2, <2>3
  <1>4. sub \in CharNames
    <2> HIDE DEF sub
    <2> QED
      BY <1>1, <1>3, EmptySeq DEF CharNames
  <1> HIDE DEF sub, prefix
  <1>5. PICK f : Text(domain) = f[n] /\ Spells(domain, f)
    BY TextFacts
  <1>6. PICK g : Text(sub) = g[Len(sub)] /\ Spells(sub, g)
    BY <1>4, TextFacts
  <1> DEFINE D == {k \in Nat : k \in 1..n => g[k + 1] = prefix \o f[k]}
  <1>7. 0 \in D
    OBVIOUS
  <1>8. ASSUME NEW k \in Nat, k \in D PROVE k + 1 \in D
    <2> SUFFICES ASSUME k + 1 \in 1..n PROVE g[(k + 1) + 1] = prefix \o f[k + 1]
      OBVIOUS
    <2>1. /\ (k + 1) + 1 \in 2..Len(sub) /\ ((k + 1) + 1) - 1 = k + 1
          /\ sub[(k + 1) + 1] = domain[k + 1] /\ domain[k + 1] \in Seq(Char)
          /\ f[k + 1] \in Seq(Char)
      BY <1>1, <1>3, <1>5 DEF Spells
    <2>2. g[(k + 1) + 1] = g[k + 1] \o (<<".">> \o domain[k + 1])
      BY <1>6, <2>1 DEF Spells
    <2>3. CASE k = 0
      <3>1. g[k + 1] = label /\ f[k + 1] = domain[k + 1]
        BY <1>3, <1>5, <1>6, <2>3 DEF Spells
      <3>2. label \o (<<".">> \o domain[k + 1]) = (label \o <<".">>) \o domain[k + 1]
        BY Dot, <2>1, Associative
      <3> QED
        BY <2>2, <3>1, <3>2 DEF prefix
    <2>4. CASE k # 0
      <3>1. g[k + 1] = prefix \o f[k] /\ f[k] \in Seq(Char)
        BY <1>1, <1>5, <1>8, <2>4 DEF Spells
      <3>2. k + 1 \in 2..n /\ (k + 1) - 1 = k
        BY <1>1, <2>4
      <3>3. f[k + 1] = f[k] \o (<<".">> \o domain[k + 1])
        BY <1>5, <3>2 DEF Spells
      <3>4. <<".">> \o domain[k + 1] \in Seq(Char)
        BY <1>2, <2>1, ConcatProperties
      <3>5. (prefix \o f[k]) \o (<<".">> \o domain[k + 1]) =
              prefix \o (f[k] \o (<<".">> \o domain[k + 1]))
        <4> DEFINE more == <<".">> \o domain[k + 1]
                   text == f[k]
        <4>1. prefix \in Seq(Char) /\ text \in Seq(Char) /\ more \in Seq(Char)
          BY <1>2, <3>1, <3>4
        <4> HIDE DEF more, text
        <4>2. (prefix \o text) \o more = prefix \o (text \o more)
          BY <4>1, Associative
        <4> QED
          BY <4>2 DEF more, text
      <3> QED
        BY <2>2, <3>1, <3>3, <3>5
    <2> QED
      BY <2>3, <2>4
  <1>9. Nat \subseteq D
    <2> HIDE DEF D
    <2> QED
      BY <1>7, <1>8, NatInSet
  <1>10. n \in 1..n /\ g[n + 1] = prefix \o f[n] /\ f[n] \in Seq(Char)
    BY <1>1, <1>5, <1>9, SMTT(30) DEF Spells
  <1>11. Text(sub) = prefix \o Text(domain) /\ Text(domain) \in Seq(Char)
    BY <1>3, <1>5, <1>6, <1>10
  <1> QED
    BY <1>4, <1>11 DEF sub, prefix

(* A text read backwards. *)
LEMMA ReverseFacts ==
  ASSUME NEW S, NEW v \in Seq(S)
  PROVE  /\ Reverse(v) \in Seq(S) /\ Len(Reverse(v)) = Len(v)
         /\ \A i \in 1..Len(v) : Reverse(v)[i] = v[(Len(v) - i) + 1]
  <1>1. Len(v) \in Nat /\ \A i \in 1..Len(v) : v[(Len(v) - i) + 1] \in S
    BY LenProperties, ElementOfSeq
  <1>2. Reverse(v) \in [1..Len(v) -> S]
        /\ \A i \in 1..Len(v) : Reverse(v)[i] = v[(Len(v) - i) + 1]
    BY <1>1 DEF Reverse
  <1>3. Reverse(v) \in Seq(S)
    BY <1>1, <1>2, SeqDef
  <1>4. Len(Reverse(v)) \in Nat /\ 1..Len(Reverse(v)) = 1..Len(v)
    BY <1>2, <1>3, LenProperties
  <1> QED
    BY <1>1, <1>2, <1>3, <1>4

(* What ends a text ends a longer one. *)
LEMMA SuffixGrows ==
  ASSUME NEW S, NEW s \in Seq(S), NEW t \in Seq(S), NEW u \in Seq(S), IsSuffix(s, t)
  PROVE  IsSuffix(s, u \o t)
  <1>1. Len(s) \in Nat /\ Len(t) \in Nat /\ Len(u) \in Nat
    BY LenProperties
  <1>3. /\ u \o t \in Seq(S) /\ Len(u \o t) = Len(u) + Len(t)
        /\ \A i \in 1..Len(t) : (u \o t)[Len(u) + i] = t[i]
    <2>1. /\ u \o t \in Seq(S) /\ Len(u \o t) = Len(u) + Len(t)
          /\ \A i \in 1..(Len(u) + Len(t)) :
               (u \o t)[i] = IF i <= Len(u) THEN u[i] ELSE t[i - Len(u)]
      BY ConcatProperties
    <2>2. ASSUME NEW i \in 1..Len(t) PROVE (u \o t)[Len(u) + i] = t[i]
      <3>1. Len(u) + i \in 1..(Len(u) + Len(t)) /\ ~ (Len(u) + i <= Len(u))
            /\ (Len(u) + i) - Len(u) = i
        BY <1>1
      <3> QED
        BY <2>1, <3>1
    <2> QED
      BY <2>1, <2>2
  <1>2. /\ \A v \in Seq(S) : Reverse(v) \in Seq(S) /\ Len(Reverse(v)) = Len(v)
        /\ \A v \in Seq(S) : \A i \in 1..Len(v) : Reverse(v)[i] = v[(Len(v) - i) + 1]
    BY ReverseFacts
  <1> DEFINE n == Len(s)
             S1 == SubSeq(Reverse(s), 1, n)
             T1 == SubSeq(Reverse(t), 1, n)
             U1 == SubSeq(Reverse(u \o t), 1, n)
  <1>4. n <= Len(t) /\ S1 = T1
    BY <1>2 DEF IsSuffix, IsPrefix
  <1>5. \A i \in 1..n : Reverse(u \o t)[i] = Reverse(t)[i]
    <2> SUFFICES ASSUME NEW i \in 1..n PROVE Reverse(u \o t)[i] = Reverse(t)[i]
      OBVIOUS
    <2>1. /\ i \in 1..Len(t) /\ i \in 1..(Len(u) + Len(t)) /\ (Len(t) - i) + 1 \in 1..Len(t)
          /\ ((Len(u) + Len(t)) - i) + 1 = Len(u) + ((Len(t) - i) + 1)
      BY <1>1, <1>4
    <2>2. Reverse(u \o t)[i] = (u \o t)[((Len(u) + Len(t)) - i) + 1]
      <3> DEFINE w == u \o t
      <3>1. w \in Seq(S) /\ Len(w) = Len(u) + Len(t)
        BY <1>3
      <3> HIDE DEF w
      <3>2. Reverse(w)[i] = w[(Len(w) - i) + 1]
        BY <1>2, <2>1, <3>1
      <3>3. Reverse(w)[i] = w[((Len(u) + Len(t)) - i) + 1]
        BY <3>1, <3>2
      <3> QED
        BY <3>3 DEF w
    <2>3. Reverse(t)[i] = t[(Len(t) - i) + 1]
      BY <1>2, <2>1
    <2> QED
      BY <1>3, <2>1, <2>2, <2>3
  <1>6. T1 = U1
    <2>1. \A i \in 1..n : Reverse(t)[i] \in S /\ Reverse(u \o t)[i] \in S
      <3>1. \A i \in 1..n : i \in 1..Len(Reverse(t))
        BY <1>1, <1>2, <1>4
      <3>2. \A i \in 1..n : Reverse(t)[i] \in S
        BY <1>2, <3>1, ElementOfSeq
      <3> QED
        BY <1>5, <3>2
    <2>2. /\ T1 \in Seq(S) /\ Len(T1) = IF 1 <= n THEN n - 1 + 1 ELSE 0
          /\ \A i \in 1..(n - 1 + 1) : T1[i] = Reverse(t)[1 + i - 1]
      BY <1>1, <2>1, SubSeqProperties
    <2>3. /\ U1 \in Seq(S) /\ Len(U1) = IF 1 <= n THEN n - 1 + 1 ELSE 0
          /\ \A i \in 1..(n - 1 + 1) : U1[i] = Reverse(u \o t)[1 + i - 1]
      BY <1>1, <2>1, SubSeqProperties
    <2> HIDE DEF T1, U1
    <2>4. Len(T1) = n /\ Len(U1) = n /\ \A i \in 1..n : T1[i] = U1[i]
      BY <1>1, <1>5, <2>2, <2>3
    <2> QED
      BY <2>2, <2>3, <2>4, SeqEqual
  <1>7. Len(Reverse(s)) <= Len(Reverse(u \o t))
    <2>1. Len(Reverse(s)) = Len(s)
      BY <1>2
    <2>2. Len(Reverse(u \o t)) = Len(u) + Len(t)
      BY <1>2, <1>3
    <2> QED
      BY <1>1, <1>4, <2>1, <2>2
  <1>8. Len(Reverse(s)) = n
    BY <1>2
  <1>9. SubSeq(Reverse(s), 1, Len(Reverse(s))) = SubSeq(Reverse(u \o t), 1, Len(Reverse(s)))
    BY <1>4, <1>6, <1>8
  <1> QED
    BY <1>7, <1>9 DEF IsSuffix, IsPrefix

(* Beyond three labels a further one is not looked at. *)
LEMMA SubdomainTag ==
  ASSUME NEW domain \in CharNames, NEW label \in Seq(Char), Len(domain) >= 3
  PROVE  ExtractSld(<<label>> \o domain) = ExtractSld(domain)
  <1> DEFINE n == Len(domain)
             sub == <<label>> \o domain
  <1>1. n \in Nat /\ domain \in Seq(Seq(Char))
    BY LenProperties DEF CharNames
  <1>2. <<label>> \in Seq(Seq(Char)) /\ Len(<<label>>) = 1
    OBVIOUS
  <1>3. /\ Len(sub) = n + 1
        /\ \A i \in 1..(n + 1) : i > 1 => sub[i] = domain[i - 1]
    <2>1. /\ Len(sub) = Len(<<label>>) + n
          /\ \A i \in 1..(Len(<<label>>) + n) :
               sub[i] = IF i <= Len(<<label>>) THEN <<label>>[i] ELSE domain[i - Len(<<label>>)]
      BY <1>1, <1>2, ConcatProperties
    <2> HIDE DEF sub
    <2> QED
      BY <1>1, <1>2, <2>1
  <1> HIDE DEF sub
  <1>4. sub[n + 1] = domain[n] /\ sub[n] = domain[n - 1] /\ sub[n - 1] = domain[n - 2]
    <2>1. n \in 1..(n + 1) /\ n + 1 \in 1..(n + 1) /\ n - 1 \in 1..(n + 1)
      BY <1>1
    <2>2. sub[n + 1] = domain[(n + 1) - 1] /\ sub[n] = domain[n - 1] /\ sub[n - 1] = domain[(n - 1) - 1]
      BY <1>1, <1>3, <2>1, SMTT(30)
    <2>3. (n + 1) - 1 = n /\ (n - 1) - 1 = n - 2
      BY <1>1
    <2> QED
      BY <2>2, <2>3
  <1>5. (n + 1) - 1 = n /\ (n + 1) - 2 = n - 1 /\ n + 1 >= 3 /\ n >= 2 /\ n + 1 >= 2
    BY <1>1
  <1>6. ExtractSld(sub) =
          IF Len(sub[n]) <= 3 /\ Len(sub[n + 1]) = 2 THEN sub[n - 1] ELSE sub[n]
    BY <1>3, <1>5 DEF ExtractSld
  <1>7. ExtractSld(domain) =
          IF Len(domain[n - 1]) <= 3 /\ Len(domain[n]) = 2 THEN domain[n - 2] ELSE domain[n - 1]
    BY <1>5 DEF ExtractSld
  <1> QED
    BY <1>4, <1>6, <1>7 DEF sub

(* A rule for a domain covers every subdomain of it, however long the names,
   and from three labels on a subdomain carries the tag of its domain
   (policy.rs, the ends_with of the rule's domain and extract_sld). *)
THEOREM CoversSubdomains == Spec => []SubdomainsCovered
  <1>1. ASSUME JudgeIInv, NEW label \in Subdomains
        PROVE  LET sub == <<label>> \o request.domain IN
               /\ \A i \in DOMAIN rules :
                    DomainMatches(rules[i], request.domain) => DomainMatches(rules[i], sub)
               /\ Len(request.domain) >= 3 => TagOf(tags, sub) = TagOf(tags, request.domain)
    <2> DEFINE sub == <<label>> \o request.domain
    <2>1. request.domain \in CharNames /\ label \in Seq(Char)
      BY <1>1, NameAssumption, NamesOfChars DEF JudgeIInv
    <2>2. \A i \in DOMAIN rules : rules[i] \in Rows
      BY <1>1, ListingFacts DEF JudgeIInv
    <2>3. /\ Text(sub) = (label \o <<".">>) \o Text(request.domain)
          /\ Text(request.domain) \in Seq(Char)
      BY <2>1, SubdomainText
    <2>4. label \o <<".">> \in Seq(Char)
      <3>1. <<".">> \in Seq(Char)
        BY Dot
      <3> QED
        BY <2>1, <3>1, ConcatProperties
    <2>5. Len(request.domain) >= 3 => TagOf(tags, sub) = TagOf(tags, request.domain)
      BY <2>1, SubdomainTag DEF TagOf
    <2> HIDE DEF sub
    <2>6. ASSUME NEW i \in DOMAIN rules, DomainMatches(rules[i], request.domain)
          PROVE  DomainMatches(rules[i], sub)
      <3> SUFFICES ASSUME rules[i].domain # None
                   PROVE  IsSuffix(Text(rules[i].domain), Text(sub))
        BY DEF DomainMatches
      <3>1. rules[i].domain \in CharNames /\ IsSuffix(Text(rules[i].domain), Text(request.domain))
        BY <2>2, <2>6, RowAssumption, NamesOfChars DEF DomainMatches
      <3>2. Text(rules[i].domain) \in Seq(Char)
        BY <2>1, <3>1, SubdomainText
      <3> QED
        BY <2>3, <2>4, <3>1, <3>2, SuffixGrows
    <2> QED
      BY <2>5, <2>6 DEF sub
  <1>2. JudgeIInv => SubdomainsCovered
    BY <1>1 DEF SubdomainsCovered
  <1> QED
    BY <1>2, JudgeInvariant, PTL
=============================================================================
