------------------------- MODULE ProxyRequestProofs -------------------------
(***************************************************************************)
(* Proofs about ProxyRequest, for every set of processes, threads and      *)
(* requests, every rule and tag and every bound.                           *)
(*                                                                         *)
(* A step of ProxyRequest is a step of PolicyStore or leaves its variables *)
(* alone, so IInv of PolicyStoreProofs holds.  ProxyIInv adds what links a *)
(* request to it: a process that acknowledged a change judges by a cache   *)
(* that has it (Acks), who changes the tags has acknowledged the changes   *)
(* of the rules it relies on (Contexts), and a request reads no older      *)
(* version than its process had when it came in (InHand).                  *)
(***************************************************************************)
EXTENDS ProxyRequest, PolicyStoreProofs, SetInduction

(* What is acknowledged is in the cache, and a thread that holds the mutex has
   read its own change. *)
Acks ==
  /\ acked \in [Procs -> [Tables -> Nat]]
  /\ \A p \in Procs, t \in Tables :
       /\ acked[p][t] <= Latest(t)
       /\ cacheVer[p][t] >= 1 => acked[p][t] <= cacheVer[p][t]
  /\ \A m \in Mutators : pc[m] = "swap" => wrote[m] <= loadedVer[m]

(* Nobody wrote the first version of a table; a writer of tags has
   acknowledged at least the changes it may rely on. *)
Contexts ==
  /\ context \in Seq(Nat) /\ Len(context) = Latest("tags")
  /\ \A t \in Tables : history[t][1].by = None
  /\ \A v \in 2..Latest("tags") : context[v] <= acked[Home[history["tags"][v].by]]["rules"]

(* What a request at each stage has read. *)
Reads ==
  /\ stage \in [Requests -> {"new", "reading", "judged", "answered", "gone"}]
  /\ DOMAIN copy = Requests /\ \A r \in Requests : DOMAIN copy[r] = Tables
  /\ decision \in [Requests -> {"Allow", "Block", None}]
  /\ DOMAIN logged = Requests
  /\ seen \in [Requests -> [Tables -> Nat]]
  /\ floor \in [Requests -> [Tables -> Nat]]
  /\ \A r \in Requests, t \in Tables : seen[r][t] <= Latest(t)

InHand(r) ==
  /\ stage[r] \in {"reading", "judged"} =>
       /\ proc[Server[r]] = "up"
       /\ 1 <= seen[r]["tags"] /\ seen[r]["tags"] <= cacheVer[Server[r]]["tags"]
  /\ stage[r] = "reading" =>
       /\ floor[r]["rules"] <= acked[Server[r]]["rules"]
       /\ floor[r]["tags"] <= seen[r]["tags"]
  /\ stage[r] \in {"judged", "answered"} =>
       /\ decision[r] # None
       /\ \A t \in Tables : 1 <= seen[r][t] /\ floor[r][t] <= seen[r][t]

(* The versions of the rules are finite sets of rules. *)
FiniteRules ==
  \A v \in 1..Latest("rules") :
    history["rules"][v].rows \subseteq Rule /\ IsFiniteSet(history["rules"][v].rows)

(* The versions behind TagsNeverAhead, of one request. *)
NeverAhead(r) ==
  LET v == seen[r]["tags"] IN
  stage[r] \in {"judged", "answered"} /\ history["tags"][v].by # None =>
    (Home[history["tags"][v].by] = Server[r] => seen[r]["rules"] >= context[v])

ProxyIInv ==
  /\ Acks
  /\ Contexts
  /\ Reads
  /\ \A r \in Requests : InHand(r) /\ NeverAhead(r)
  /\ FiniteRules

-----------------------------------------------------------------------------
LEMMA ProxySteps ==
  ASSUME [ProxyNext]_allVars
  PROVE  [Next]_vars
  BY DEF ProxyNext, allVars, Handle, ReadCache, Answer, Change, Acknowledge, Other, Start,
         End, Done, Next, Reload

(* The policy store goes on as if nobody asked it. *)
THEOREM ProxyImplementsStore == ProxySpec => Spec
  <1>1. ProxyInit => Init
    BY DEF ProxyInit
  <1> QED
    BY <1>1, ProxySteps, PTL DEF ProxySpec, Spec

LEMMA InitProxyIInv == ProxyInit => ProxyIInv
  <1> SUFFICES ASSUME ProxyInit PROVE ProxyIInv
    OBVIOUS
  <1>1. \A t \in Tables : Latest(t) = 1 /\ history[t][1] = [rows |-> Empty(t), by |-> None]
    BY DEF ProxyInit, Init, Latest
  <1>2. "tags" \in Tables /\ "rules" \in Tables
    BY DEF Tables
  <1>3. /\ Latest("tags") = 1 /\ Latest("rules") = 1 /\ history["rules"][1].rows = {}
        /\ \A t \in Tables : history[t][1].by = None
    <2>1. Latest("tags") = 1 /\ Latest("rules") = 1
      BY <1>1, <1>2
    <2>2. history["rules"][1] = [rows |-> Empty("rules"), by |-> None]
      BY <1>1, <1>2
    <2>3. history["rules"][1].rows = {}
      BY <2>2 DEF Empty
    <2>4. ASSUME NEW t \in Tables PROVE history[t][1].by = None
      <3>1. history[t][1] = [rows |-> Empty(t), by |-> None]
        BY <1>1
      <3> QED
        BY <3>1
    <2> QED
      BY <2>1, <2>3, <2>4
  <1>4. Acks
    BY <1>1 DEF ProxyInit, Init, Acks, NoChange, NoVersions
  <1>5. Contexts
    <2>1. context = <<0>>
      BY DEF ProxyInit
    <2>2. context \in Seq(Nat) /\ Len(context) = 1
      BY <2>1
    <2> QED
      BY <1>3, <2>2 DEF Contexts
  <1>6. Reads
    <2>1. /\ stage \in [Requests -> {"new", "reading", "judged", "answered", "gone"}]
          /\ decision \in [Requests -> {"Allow", "Block", None}]
      BY DEF ProxyInit
    <2>2. /\ DOMAIN copy = Requests /\ \A r \in Requests : DOMAIN copy[r] = Tables
          /\ DOMAIN logged = Requests
      BY DEF ProxyInit
    <2>3. seen \in [Requests -> [Tables -> Nat]] /\ floor \in [Requests -> [Tables -> Nat]]
      BY DEF ProxyInit, NoChange
    <2>4. \A r \in Requests, t \in Tables : seen[r][t] <= Latest(t)
      <3>1. \A r \in Requests, t \in Tables : seen[r][t] = 0
        BY DEF ProxyInit, NoChange
      <3> SUFFICES ASSUME NEW r \in Requests, NEW t \in Tables PROVE seen[r][t] <= Latest(t)
        OBVIOUS
      <3>2. seen[r][t] = 0 /\ Latest(t) = 1
        BY <1>1, <3>1
      <3> QED
        BY <3>2
    <2> QED
      BY <2>1, <2>2, <2>3, <2>4 DEF Reads
  <1>7. \A r \in Requests : InHand(r) /\ NeverAhead(r)
    BY DEF ProxyInit, InHand, NeverAhead
  <1>8. FiniteRules
    <2>1. \A v \in 1..Latest("rules") : v = 1
      BY <1>3
    <2> QED
      BY <1>3, <2>1, FS_EmptySet DEF FiniteRules
  <1> QED
    BY <1>4, <1>5, <1>6, <1>7, <1>8 DEF ProxyIInv

-----------------------------------------------------------------------------
(* Steps of the policy store. *)

LEMMA StoreFacts ==
  ASSUME IInv
  PROVE  /\ Shape /\ "rules" \in Tables /\ "tags" \in Tables
         /\ \A t \in Tables : Latest(t) \in Nat /\ Latest(t) = Len(history[t]) /\ Latest(t) >= 1
         /\ \A p \in Procs, t \in Tables : cacheVer[p][t] \in 0..Latest(t)
         /\ \A p \in Procs : proc[p] = "up" => \A t \in Tables : cacheVer[p][t] >= 1
         /\ \A m \in Mutators : loadedVer[m] \in Nat /\ wrote[m] \in Nat /\ Home[m] \in Procs
  BY HomeAssumption DEF IInv, Shape, Versions, Filled, Latest, Tables

(* Committed versions stay; a cache that is filled and stays so gets no older. *)
LEMMA StoreSteps ==
  ASSUME IInv, IInv', [Next]_vars
  PROVE  /\ \A t \in Tables : /\ Latest(t)' \in Nat /\ Latest(t) <= Latest(t)'
                              /\ \A v \in 1..Latest(t) : history'[t][v] = history[t][v]
         /\ \A p \in Procs, t \in Tables :
              proc[p] = "up" /\ proc'[p] = "up" => cacheVer[p][t] <= cacheVer'[p][t]
  <1>1. /\ \A t \in Tables : Latest(t) \in Nat /\ Latest(t) = Len(history[t])
        /\ \A t \in Tables : Latest(t)' \in Nat /\ Latest(t)' = Len(history'[t])
        /\ Shape
    BY DEF IInv, Shape, Latest
  <1>2. ASSUME NEW t \in Tables
        PROVE  Latest(t) <= Latest(t)' /\ \A v \in 1..Latest(t) : history'[t][v] = history[t][v]
    <2>1. ASSUME NEW m \in Mutators, Mutate(m)
          PROVE  Latest(t) <= Latest(t)' /\ \A v \in 1..Latest(t) : history'[t][v] = history[t][v]
      <3>1. PICK u \in Tables : \E rows \in Content(u) : Commit(m, u, rows)
        BY <2>1, MutateCommits DEF IInv
      <3>2. PICK rows \in Content(u) : Commit(m, u, rows)
        BY <3>1
      <3>3. /\ Len(history'[t]) = IF t = u THEN Latest(t) + 1 ELSE Latest(t)
            /\ \A v \in 1..Latest(t) : history'[t][v] = history[t][v]
        BY <1>1, <3>2, CommitHistory
      <3> QED
        BY <1>1, <3>3
    <2>2. CASE history' = history
      BY <1>1, <2>2
    <2> QED
      BY <2>1, <2>2
      DEF Next, Reload, ReloadRead, ReloadSwap, ReloadFails, Boot, LoadRules, LoadTags, Fill,
          Crash, Finished, vars, store
  <1>3. ASSUME NEW p \in Procs, NEW t \in Tables, proc[p] = "up", proc'[p] = "up"
        PROVE  cacheVer[p][t] <= cacheVer'[p][t]
    <2>1. /\ cacheVer[p][t] \in Nat /\ cacheVer'[p][t] \in Nat
          /\ \A v \in Nat : v >= cacheVer'[p][t] => v >= cacheVer'[p][t]
      BY <1>1 DEF IInv, Shape
    <2>2. Published(t)
      BY StepPublishes
    <2>3. cacheVer'[p][t] = View(t)'[p] /\ cacheVer[p][t] = View(t)[p] /\ p \in DOMAIN View(t)
      BY DEF View
    <2>4. cacheVer'[p][t] # 0
      BY <1>3, <2>1 DEF IInv, Filled
    <2>5. CASE View(t)' = View(t)
      BY <2>1, <2>3, <2>5
    <2>6. ASSUME NEW q \in Procs, View(t)' = [View(t) EXCEPT ![q] = 0]
          PROVE  cacheVer[p][t] <= cacheVer'[p][t]
      BY <2>1, <2>3, <2>4, <2>6
    <2>7. ASSUME NEW q \in Procs, NEW v \in View(t)[q]..Len(history[t]),
                 View(t)' = [View(t) EXCEPT ![q] = v]
          PROVE  cacheVer[p][t] <= cacheVer'[p][t]
      BY <1>1, <2>1, <2>3, <2>7
    <2> QED
      BY <2>2, <2>5, <2>6, <2>7 DEF Published
  <1> QED
    BY <1>1, <1>2, <1>3

(* A commit leaves a finite table finite. *)
LEMMA CommittedFinite ==
  ASSUME IInv, IInv', [Next]_vars, FiniteRules
  PROVE  FiniteRules'
  <1>1. /\ Latest("rules") \in Nat /\ Latest("rules")' \in Nat
        /\ Latest("rules") >= 1 /\ Latest("rules")' >= 1 /\ Latest("rules") <= Latest("rules")'
        /\ \A v \in 1..Latest("rules") : history'["rules"][v] = history["rules"][v]
        /\ history["rules"][Latest("rules")].rows = db["rules"]
        /\ history'["rules"][Latest("rules")'].rows = db'["rules"]
    BY StoreFacts, StoreSteps DEF IInv, Versions
  <1>2. IsFiniteSet(db["rules"]) /\ DOMAIN db = Tables /\ "rules" \in Tables
    <2>1. Latest("rules") \in 1..Latest("rules")
      BY <1>1
    <2>2. IsFiniteSet(history["rules"][Latest("rules")].rows)
      BY <2>1 DEF FiniteRules
    <2> QED
      BY <1>1, <2>2, StoreFacts DEF Shape
  <1>3. ASSUME NEW m \in Mutators, Mutate(m) PROVE IsFiniteSet(db'["rules"])
    <2>1. ASSUME NEW data \in RuleData, InsertRule(m, data) PROVE IsFiniteSet(db'["rules"])
      <3>1. db'["rules"] = db["rules"] \cup {[id |-> nextId, data |-> data]}
        BY <1>2, <2>1 DEF InsertRule, Commit
      <3> QED
        BY <1>2, <3>1, FS_AddElement
    <2>2. ASSUME NEW id \in Ids, NEW data \in RuleData, UpdateRule(m, id, data)
          PROVE  IsFiniteSet(db'["rules"])
      <3> DEFINE f == [r \in db["rules"] |-> IF r.id = id THEN [id |-> id, data |-> data] ELSE r]
      <3>1. db'["rules"] = {f[r] : r \in db["rules"]}
        BY <1>2, <2>2 DEF UpdateRule, Commit
      <3>2. f \in Surjection(db["rules"], db'["rules"])
        BY <3>1 DEF Surjection
      <3> HIDE DEF f
      <3> QED
        BY <1>2, <3>2, FS_Surjection
    <2>3. ASSUME NEW id \in Ids, DeleteRule(m, id) PROVE db'["rules"] \subseteq db["rules"]
      BY <1>2, <2>3 DEF DeleteRule, Commit
    <2>4. ASSUME NEW names \in SUBSET Names, DeleteRulesByName(m, names)
          PROVE  db'["rules"] \subseteq db["rules"]
      BY <1>2, <2>4 DEF DeleteRulesByName, Commit
    <2>5. ASSUME NEW sld \in Slds, NEW tag \in Tags, AddDomainTag(m, sld, tag)
          PROVE  db'["rules"] = db["rules"]
      BY <1>2, <2>5 DEF AddDomainTag, Commit
    <2>6. ASSUME NEW sld \in Slds, DeleteDomainTag(m, sld) PROVE db'["rules"] = db["rules"]
      BY <1>2, <2>6 DEF DeleteDomainTag, Commit
    <2> QED
      BY <1>2, <1>3, <2>1, <2>2, <2>3, <2>4, <2>5, <2>6, FS_Subset DEF Mutate
  <1>4. IsFiniteSet(db'["rules"])
    BY <1>2, <1>3
    DEF Next, Reload, ReloadRead, ReloadSwap, ReloadFails, Boot, LoadRules, LoadTags, Fill,
        Crash, Finished, vars, store
  <1>5. Latest("rules")' = Len(history'["rules"]) /\ Latest("rules") = Len(history["rules"])
    BY DEF Latest
  <1>6. Latest("rules")' <= Latest("rules") + 1
    <2>1. ASSUME NEW m \in Mutators, Mutate(m) PROVE Latest("rules")' <= Latest("rules") + 1
      <3>1. PICK u \in Tables : \E rows \in Content(u) : Commit(m, u, rows)
        BY <2>1, MutateCommits DEF IInv
      <3>2. PICK rows \in Content(u) : Commit(m, u, rows)
        BY <3>1
      <3>3. Len(history'["rules"]) = IF "rules" = u THEN Latest("rules") + 1 ELSE Latest("rules")
        BY <3>2, StoreFacts, CommitHistory
      <3> QED
        BY <1>1, <1>5, <3>3
    <2>2. CASE history' = history
      BY <1>1, <2>2 DEF Latest
    <2> QED
      BY <2>1, <2>2
      DEF Next, Reload, ReloadRead, ReloadSwap, ReloadFails, Boot, LoadRules, LoadTags, Fill,
          Crash, Finished, vars, store
  <1> SUFFICES ASSUME NEW v \in 1..Latest("rules")'
               PROVE  /\ history'["rules"][v].rows \subseteq Rule
                      /\ IsFiniteSet(history'["rules"][v].rows)
    BY DEF FiniteRules
  <1>7. v \in 1..Latest("rules") \/ v = Latest("rules")'
    BY <1>1, <1>6
  <1>8. db'["rules"] \subseteq Rule
    BY <1>2 DEF IInv, Shape, Content
  <1> QED
    BY <1>1, <1>4, <1>7, <1>8 DEF FiniteRules

-----------------------------------------------------------------------------
(* Acknowledged changes. *)

(* A step that acknowledges nothing. *)
LEMMA AcksStep ==
  ASSUME IInv, IInv', [Next]_vars, Acks, acked' = acked,
         \A m \in Mutators : pc'[m] = "swap" => wrote'[m] <= loadedVer'[m],
         \A p \in Procs, t \in Tables :
           cacheVer'[p][t] \in {0, cacheVer[p][t], Latest(t)}
  PROVE  Acks'
  <1>1. \A t \in Tables : Latest(t) \in Nat /\ Latest(t)' \in Nat /\ Latest(t) <= Latest(t)'
    BY StoreSteps, StoreFacts
  <1>2. \A p \in Procs, t \in Tables :
          acked[p][t] \in Nat /\ cacheVer[p][t] \in Nat /\ cacheVer'[p][t] \in Nat
    BY DEF Acks, IInv, Shape
  <1>3. ASSUME NEW p \in Procs, NEW t \in Tables
        PROVE  /\ acked[p][t] <= Latest(t)'
               /\ cacheVer'[p][t] >= 1 => acked[p][t] <= cacheVer'[p][t]
    <2>1. acked[p][t] <= Latest(t) /\ (cacheVer[p][t] >= 1 => acked[p][t] <= cacheVer[p][t])
      BY DEF Acks
    <2>2. cacheVer'[p][t] = 0 \/ cacheVer'[p][t] = cacheVer[p][t] \/ cacheVer'[p][t] = Latest(t)
      OBVIOUS
    <2> QED
      BY <1>1, <1>2, <2>1, <2>2
  <1> QED
    BY <1>3 DEF Acks

LEMMA ReturnFacts ==
  ASSUME NEW ms, Return(ms)
  PROVE  \A m \in Mutators :
           IF m \in ms THEN pc'[m] = "idle"
           ELSE pc'[m] = pc[m] /\ wrote'[m] = wrote[m] /\ loadedVer'[m] = loadedVer[m]
  BY DEF Return

LEMMA AcknowledgeKeepsAcks ==
  ASSUME IInv, IInv', [Next]_vars, Acks, NEW m \in Mutators, Acknowledge(m)
  PROVE  Acks' /\ \A p \in Procs, t \in Tables : acked[p][t] <= acked'[p][t]
  <1> DEFINE p == Home[m]
             u == table[m]
             new == IF wrote[m] > acked[p][u] THEN wrote[m] ELSE acked[p][u]
  <1>1. /\ pc[m] = "swap" /\ history' = history
        /\ cacheVer' = [cacheVer EXCEPT ![p][u] = loadedVer[m]]
        /\ acked' = [acked EXCEPT ![p][u] = new]
        /\ Return({m})
    BY DEF Acknowledge, ReloadSwap, store
  <1>2. /\ p \in Procs /\ u \in Tables
        /\ cacheVer[p][u] <= loadedVer[m] /\ loadedVer[m] \in Nat /\ loadedVer[m] <= Latest(u)
        /\ wrote[m] <= loadedVer[m] /\ wrote[m] \in Nat /\ wrote[m] <= Latest(u)
        /\ cacheVer[p][u] \in Nat /\ cacheVer[p][u] >= 1
        /\ acked[p][u] \in Nat /\ acked[p][u] <= cacheVer[p][u]
    <2>1. p \in Procs /\ u \in Tables /\ wrote[m] \in Nat /\ loadedVer[m] \in Nat
      BY <1>1, HomeAssumption DEF IInv, InCall, Shape
    <2>2. /\ proc[p] = "up" /\ wrote[m] \in 1..Latest(u) /\ loadedVer[m] <= Latest(u)
          /\ cacheVer[p][u] <= loadedVer[m]
      BY <1>1 DEF IInv, InCall, Reading
    <2>3. cacheVer[p][u] \in Nat /\ cacheVer[p][u] >= 1
      BY <2>1, <2>2 DEF IInv, Shape, Filled
    <2>4. acked[p][u] \in Nat /\ acked[p][u] <= cacheVer[p][u] /\ wrote[m] <= loadedVer[m]
      BY <1>1, <2>1, <2>3 DEF Acks
    <2> QED
      BY <2>1, <2>2, <2>3, <2>4
  <1>3. new \in Nat /\ acked[p][u] <= new /\ new <= loadedVer[m] /\ new <= Latest(u)
    <2>1. Latest(u) \in Nat
      BY <1>2, StoreFacts
    <2>2. \/ new = wrote[m] /\ wrote[m] > acked[p][u]
          \/ new = acked[p][u] /\ ~ (wrote[m] > acked[p][u])
      OBVIOUS
    <2> HIDE DEF new, p, u
    <2> QED
      BY <1>2, <2>1, <2>2
  <1> HIDE DEF new
  <1>4. /\ acked \in [Procs -> [Tables -> Nat]] /\ cacheVer \in [Procs -> [Tables -> Nat]]
        /\ \A t \in Tables : Latest(t)' = Latest(t)
    BY <1>1 DEF Acks, IInv, Shape, Latest
  <1>5. /\ acked' \in [Procs -> [Tables -> Nat]]
        /\ \A q \in Procs, t \in Tables :
             /\ acked'[q][t] = IF q = p /\ t = u THEN new ELSE acked[q][t]
             /\ cacheVer'[q][t] = IF q = p /\ t = u THEN loadedVer[m] ELSE cacheVer[q][t]
    BY <1>1, <1>2, <1>3, <1>4
  <1>6. \A n \in Mutators : pc'[n] = "swap" => wrote'[n] <= loadedVer'[n]
    BY <1>1, ReturnFacts DEF Acks
  <1>7. ASSUME NEW q \in Procs, NEW t \in Tables
        PROVE  /\ acked[q][t] <= acked'[q][t] /\ acked'[q][t] <= Latest(t)'
               /\ cacheVer'[q][t] >= 1 => acked'[q][t] <= cacheVer'[q][t]
    <2>1. CASE q = p /\ t = u
      BY <1>2, <1>3, <1>4, <1>5, <2>1
    <2>2. CASE ~ (q = p /\ t = u)
      BY <1>4, <1>5, <2>2 DEF Acks
    <2> QED
      BY <2>1, <2>2
  <1> QED
    BY <1>5, <1>6, <1>7 DEF Acks

LEMMA AcksKept ==
  ASSUME IInv, IInv', Acks, [ProxyNext]_allVars
  PROVE  Acks' /\ \A p \in Procs, t \in Tables : acked[p][t] <= acked'[p][t]
  <1>0. [Next]_vars
    BY ProxySteps
  <1>1. /\ acked \in [Procs -> [Tables -> Nat]] /\ cacheVer \in [Procs -> [Tables -> Nat]]
        /\ \A m \in Mutators : wrote[m] \in Nat /\ loadedVer[m] \in Nat
    BY DEF Acks, IInv, Shape
  <1>2. acked' = acked => \A p \in Procs, t \in Tables : acked[p][t] <= acked'[p][t]
    BY <1>1
  <1>3. ASSUME NEW m \in Mutators, Change(m) PROVE Acks'
    <2>1. acked' = acked /\ Mutate(m)
      BY <1>3 DEF Change
    <2>2. PICK t \in Tables : \E rows \in Content(t) : Commit(m, t, rows)
      BY <2>1, MutateCommits DEF IInv
    <2>3. /\ loadedVer' = loadedVer /\ cacheVer' = cacheVer
          /\ \A n \in Mutators : pc'[n] = "swap" => pc[n] = "swap" /\ n # m
          /\ \A n \in Mutators \ {m} : wrote'[n] = wrote[n]
      BY <2>2 DEF Commit, views, IInv, Shape
    <2>4. \A n \in Mutators : pc'[n] = "swap" => wrote'[n] <= loadedVer'[n]
      BY <2>3 DEF Acks
    <2> QED
      BY <1>0, <2>1, <2>3, <2>4, AcksStep
  <1>4. ASSUME NEW m \in Mutators, ReloadRead(m), acked' = acked PROVE Acks'
    <2>1. /\ table[m] \in Tables /\ wrote[m] \in 1..Latest(table[m])
          /\ pc' = [pc EXCEPT ![m] = "swap"] /\ wrote' = wrote
          /\ loadedVer' = [loadedVer EXCEPT ![m] = Latest(table[m])] /\ cacheVer' = cacheVer
      BY <1>4 DEF ReloadRead, IInv, InCall, views
    <2>2. ASSUME NEW n \in Mutators, pc'[n] = "swap" PROVE wrote'[n] <= loadedVer'[n]
      <3>1. CASE n = m
        BY <2>1, <3>1, StoreFacts DEF IInv, Shape
      <3>2. CASE n # m
        BY <2>1, <2>2, <3>2 DEF IInv, Shape, Acks
      <3> QED
        BY <3>1, <3>2
    <2> QED
      BY <1>0, <1>4, <2>1, <2>2, AcksStep
  <1>5. ASSUME NEW m \in Mutators, ReloadFails(m), acked' = acked PROVE Acks'
    <2>1. Return({m}) /\ cacheVer' = cacheVer
      BY <1>5 DEF ReloadFails, views
    <2>2. \A n \in Mutators : pc'[n] = "swap" => wrote'[n] <= loadedVer'[n]
      BY <2>1, ReturnFacts DEF Acks
    <2> QED
      BY <1>0, <1>5, <2>1, <2>2, AcksStep
  <1>6. ASSUME NEW p \in Procs, Start(p) PROVE Acks'
    <2>1. PICK t \in Tables : /\ cacheVer' = [cacheVer EXCEPT ![p][t] = Latest(t)]
                              /\ UNCHANGED <<calls, acked>>
      BY <1>6 DEF Start, Boot, LoadRules, LoadTags, Fill, Tables
    <2>2. \A q \in Procs, u \in Tables : cacheVer'[q][u] \in {0, cacheVer[q][u], Latest(u)}
      BY <1>1, <2>1
    <2>3. \A n \in Mutators : pc'[n] = "swap" => wrote'[n] <= loadedVer'[n]
      BY <2>1 DEF Acks, calls
    <2> QED
      BY <1>0, <2>1, <2>2, <2>3, AcksStep
  <1>7. ASSUME NEW p \in Procs, End(p) PROVE Acks'
    <2>1. /\ cacheVer' = [cacheVer EXCEPT ![p] = NoVersions] /\ acked' = acked
          /\ Return({m \in Mutators : Home[m] = p})
      BY <1>7 DEF End, Crash
    <2>2. \A q \in Procs, u \in Tables : cacheVer'[q][u] \in {0, cacheVer[q][u], Latest(u)}
      BY <1>1, <2>1 DEF NoVersions
    <2>3. \A n \in Mutators : pc'[n] = "swap" => wrote'[n] <= loadedVer'[n]
      BY <2>1, ReturnFacts DEF Acks
    <2> QED
      BY <1>0, <2>1, <2>2, <2>3, AcksStep
  <1>8. ASSUME UNCHANGED vars, acked' = acked PROVE Acks'
    <2>1. cacheVer' = cacheVer /\ UNCHANGED <<pc, wrote, loadedVer>>
      BY <1>8 DEF vars, views, calls
    <2> QED
      BY <1>0, <1>8, <2>1, AcksStep DEF Acks
  <1>9. \/ \E m \in Mutators : \/ Change(m) \/ Acknowledge(m)
                               \/ acked' = acked /\ (ReloadRead(m) \/ ReloadFails(m))
        \/ \E p \in Procs : Start(p) \/ End(p)
        \/ UNCHANGED vars /\ acked' = acked
    BY DEF ProxyNext, Handle, ReadCache, Answer, Other, Done, Finished, allVars
  <1>10. (\E m \in Mutators : Acknowledge(m)) \/ acked' = acked
    BY DEF ProxyNext, Handle, ReadCache, Answer, Other, Done, Change, Start, End, allVars
  <1> QED
    BY <1>0, <1>2, <1>3, <1>4, <1>5, <1>6, <1>7, <1>8, <1>9, <1>10, AcknowledgeKeepsAcks

LEMMA ContextsKept ==
  ASSUME IInv, IInv', Acks, Acks', Contexts, [ProxyNext]_allVars
  PROVE  Contexts' /\ \A v \in 1..Latest("tags") : context'[v] = context[v]
  <1>0. [Next]_vars
    BY ProxySteps
  <1>1. /\ \A t \in Tables : /\ Latest(t) \in Nat /\ Latest(t)' \in Nat /\ Latest(t) >= 1
                             /\ Latest(t) = Len(history[t]) /\ Latest(t)' = Len(history'[t])
        /\ \A t \in Tables : \A v \in 1..Latest(t) : history'[t][v] = history[t][v]
        /\ "tags" \in Tables /\ "rules" \in Tables
    BY <1>0, StoreFacts, StoreSteps DEF Latest
  <1>2. /\ \A t \in Tables : history'[t][1].by = None
        /\ context \in Seq(Nat) /\ Len(context) = Latest("tags")
        /\ DOMAIN context = 1..Latest("tags")
    BY <1>1 DEF Contexts
  <1>3. \A p \in Procs : /\ acked[p]["rules"] \in Nat /\ acked'[p]["rules"] \in Nat
                         /\ acked[p]["rules"] <= acked'[p]["rules"]
    BY <1>1, AcksKept DEF Acks
  <1>4. ASSUME NEW v \in 2..Latest("tags")
        PROVE  /\ context[v] \in Nat
               /\ context[v] <= acked'[Home[history'["tags"][v].by]]["rules"]
    <2>1. context[v] \in Nat /\ v \in 1..Latest("tags")
      BY <1>1, <1>2
    <2>2. history["tags"][v].by \in Mutators /\ history'["tags"][v] = history["tags"][v]
      BY <1>1, <2>1 DEF IInv, Versions
    <2>3. Home[history["tags"][v].by] \in Procs
      BY <2>2, HomeAssumption
    <2>4. context[v] <= acked[Home[history["tags"][v].by]]["rules"]
      BY DEF Contexts
    <2> QED
      BY <1>3, <2>1, <2>2, <2>3, <2>4
  <1>5. CASE context' = context /\ Latest("tags")' = Latest("tags")
    BY <1>2, <1>4, <1>5 DEF Contexts
  <1>6. ASSUME NEW m \in Mutators, Change(m), Latest("tags")' # Latest("tags")
        PROVE  Contexts' /\ \A v \in 1..Latest("tags") : context'[v] = context[v]
    <2>1. PICK t \in Tables : \E rows \in Content(t) : Commit(m, t, rows)
      BY <1>6, MutateCommits DEF IInv, Change
    <2>2. PICK rows \in Content(t) : Commit(m, t, rows)
      BY <2>1
    <2>3. /\ Len(history'["tags"]) = IF "tags" = t THEN Latest("tags") + 1 ELSE Latest("tags")
          /\ history'[t][Latest(t) + 1] = [rows |-> rows, by |-> m]
      BY <1>1, <2>2, StoreFacts, CommitHistory
    <2>4. t = "tags" /\ Latest("tags")' = Latest("tags") + 1
      BY <1>1, <1>6, <2>3
    <2>5. history'["tags"][Latest("tags") + 1].by = m
      BY <2>3, <2>4
    <2> DEFINE mine == acked[Home[m]]["rules"]
    <2>6. context' = Append(context, mine) /\ acked' = acked
      BY <1>1, <1>6, <2>4 DEF Change
    <2>7. Home[m] \in Procs /\ mine \in Nat
      BY <1>3, HomeAssumption
    <2>8. /\ context' \in Seq(Nat) /\ Len(context') = Latest("tags")'
          /\ \A v \in 1..Latest("tags") : context'[v] = context[v]
          /\ context'[Latest("tags") + 1] = mine
      <3> HIDE DEF mine
      <3> QED
        BY <1>2, <2>4, <2>6, <2>7
    <2>9. ASSUME NEW v \in 2..Latest("tags")'
          PROVE  context'[v] <= acked'[Home[history'["tags"][v].by]]["rules"]
      <3>1. CASE v \in 2..Latest("tags")
        BY <1>1, <1>4, <2>8, <3>1
      <3>2. CASE v = Latest("tags") + 1
        BY <2>5, <2>6, <2>7, <2>8, <3>2
      <3> QED
        BY <1>1, <2>4, <3>1, <3>2
    <2> QED
      BY <1>2, <2>8, <2>9 DEF Contexts
  <1>7. ASSUME NEW m \in Mutators, Change(m), Latest("tags")' = Latest("tags")
        PROVE  context' = context
    BY <1>1, <1>7 DEF Change
  <1>8. (\E m \in Mutators : Change(m)) \/ (context' = context /\ history' = history)
    BY DEF ProxyNext, Handle, ReadCache, Answer, Other, Done, Start, End, Acknowledge,
           ReloadRead, ReloadSwap, ReloadFails, Boot, LoadRules, LoadTags, Fill, Crash,
           Finished, allVars, vars, store
  <1>9. history' = history => Latest("tags")' = Latest("tags")
    BY DEF Latest
  <1> QED
    BY <1>5, <1>6, <1>7, <1>8, <1>9

-----------------------------------------------------------------------------
(* What a request reads and what is made of it. *)

(* The first rule that applies exists whenever any does. *)
LEMMA FirstMatchFacts ==
  ASSUME NEW list, DOMAIN list \subseteq Nat, NEW tag, NEW request
  PROVE  \/ /\ \A i \in DOMAIN list : ~ Eval!Applies(list[i], request, tag)
            /\ Eval!FirstMatch(list, tag, request) = "Allow"
         \/ \E i \in DOMAIN list :
              /\ Eval!Applies(list[i], request, tag)
              /\ \A j \in DOMAIN list : Eval!Applies(list[j], request, tag) => i <= j
              /\ Eval!FirstMatch(list, tag, request) = list[i].action
  <1> DEFINE hits == {i \in DOMAIN list : Eval!Applies(list[i], request, tag)}
             first == CHOOSE i \in hits : \A j \in hits : i <= j
  <1>1. Eval!FirstMatch(list, tag, request) =
          IF hits = {} THEN "Allow" ELSE list[first].action
    BY DEF Eval!FirstMatch
  <1>2. CASE hits = {}
    BY <1>1, <1>2
  <1>3. CASE hits # {}
    <2>1. first \in hits /\ \A j \in hits : first <= j
      <3>1. hits \in SUBSET Nat
        OBVIOUS
      <3> HIDE DEF hits
      <3>2. \E i \in hits : \A j \in hits : i <= j
        BY <1>3, <3>1, LeastNatural
      <3> QED
        BY <3>2
    <2> HIDE DEF first
    <2> QED
      BY <1>1, <1>3, <2>1
  <1> QED
    BY <1>2, <1>3

(* A reading of the rules lists rows of the version it was read from. *)
LEMMA RuleLoadFacts ==
  ASSUME NEW rows, IsFiniteSet(rows), NEW list \in RuleLoads(rows)
  PROVE  /\ DOMAIN list \subseteq Nat
         /\ \A i \in DOMAIN list : list[i] \in rows
  <1>1. Cardinality(rows) \in Nat
    BY FS_CardinalityType
  <1>2. ASSUME NEW full \in Listings(rows)
        PROVE  full \in Seq(rows) /\ Len(full) = Cardinality(rows) /\ DOMAIN full = 1..Len(full)
    <2>1. full \in [1..Cardinality(rows) -> rows]
      BY DEF Listings
    <2> QED
      BY <1>1, <2>1
  <1>3. CASE list \in Listings(rows)
    BY <1>1, <1>2, <1>3
  <1>4. ASSUME NEW full \in Listings(rows), NEW n \in 0..Len(full), list = SubSeq(full, 1, n)
        PROVE  /\ DOMAIN list \subseteq Nat
               /\ \A i \in DOMAIN list : list[i] \in rows
    <2>1. /\ full \in Seq(rows) /\ Len(full) \in Nat /\ DOMAIN full = 1..Len(full)
          /\ n \in Nat /\ n <= Len(full)
      BY <1>1, <1>2
    <2>2. /\ DOMAIN list = 1..n
          /\ \A i \in 1..n : list[i] = full[i] /\ full[i] \in rows
      BY <1>4, <2>1
    <2> QED
      BY <2>1, <2>2
  <1> QED
    BY <1>3, <1>4 DEF RuleLoads

(* What a request finds in the caches of a process that is up. *)
LEMMA CacheFacts ==
  ASSUME IInv, ProxyIInv, NEW p \in Procs, proc[p] = "up"
  PROVE  LET list == cache[p]["rules"]
             rows == history["rules"][cacheVer[p]["rules"]].rows
             tags == history["tags"][cacheVer[p]["tags"]].rows IN
         /\ cacheVer[p]["rules"] \in 1..Latest("rules")
         /\ cacheVer[p]["tags"] \in 1..Latest("tags")
         /\ rows \subseteq Rule /\ IsFiniteSet(rows)
         /\ list \in RuleLoads(rows)
         /\ cache[p]["tags"] \in TagLoads(tags)
         /\ DOMAIN list \subseteq Nat
         /\ \A i \in DOMAIN list : list[i] \in rows /\ list[i].data \in RuleData
  <1> DEFINE list == cache[p]["rules"]
             rows == history["rules"][cacheVer[p]["rules"]].rows
             tags == history["tags"][cacheVer[p]["tags"]].rows
  <1>1. "rules" \in Tables /\ "tags" \in Tables /\ "rules" # "tags"
    BY DEF Tables
  <1>2. \A t \in Tables : cacheVer[p][t] \in 1..Latest(t)
    BY StoreFacts
  <1>3. list \in RuleLoads(rows) /\ cache[p]["tags"] \in TagLoads(tags)
    <2>1. \A t \in Tables : cache[p][t] \in Loads(t, history[t][cacheVer[p][t]].rows)
      BY <1>2, StoreFacts DEF IInv, CacheIsSnapshot
    <2> QED
      BY <1>1, <2>1 DEF Loads
  <1>4. IsFiniteSet(rows)
    BY <1>1, <1>2 DEF ProxyIInv, FiniteRules
  <1>5. rows \subseteq Rule
    BY <1>1, <1>2 DEF ProxyIInv, FiniteRules
  <1>6. DOMAIN list \subseteq Nat /\ \A i \in DOMAIN list : list[i] \in rows
    <2> HIDE DEF list, rows
    <2> QED
      BY <1>3, <1>4, RuleLoadFacts
  <1> QED
    BY <1>1, <1>2, <1>3, <1>4, <1>5, <1>6 DEF Rule

-----------------------------------------------------------------------------
(* A request reads the tag first, and the rules next. *)

(* Its first read. *)
ReadTag(r) ==
  /\ stage[r] = "new" /\ proc[Server[r]] = "up"
  /\ stage' = [stage EXCEPT ![r] = "reading"]
  /\ copy' = [copy EXCEPT ![r]["tags"] = TagIn(Server[r], r)]
  /\ decision' = decision
  /\ seen' = [seen EXCEPT ![r]["tags"] = cacheVer[Server[r]]["tags"]]
  /\ floor' = [floor EXCEPT ![r] = acked[Server[r]]]
  /\ UNCHANGED <<vars, logged, acked, context>>

(* Its second, and the judgement. *)
ReadRules(r) ==
  LET list == cache[Server[r]]["rules"]
      data == [i \in DOMAIN list |-> list[i].data] IN
  /\ stage[r] = "reading" /\ proc[Server[r]] = "up"
  /\ stage' = [stage EXCEPT ![r] = "judged"]
  /\ copy' = [copy EXCEPT ![r]["rules"] = data]
  /\ decision' = [decision EXCEPT ![r] = Eval!FirstMatch(data, copy[r]["tags"], Asked[r])]
  /\ seen' = [seen EXCEPT ![r]["rules"] = cacheVer[Server[r]]["rules"]]
  /\ floor' = floor
  /\ UNCHANGED <<vars, logged, acked, context>>

LEMMA ReadCacheSteps ==
  ASSUME Reads, NEW r \in Requests, ReadCache(r)
  PROVE  ReadTag(r) \/ ReadRules(r)
  <1>1. ReadOrder[1] = "tags" /\ ReadOrder[2] = "rules" /\ "rules" # "tags"
    BY DEF ReadOrder
  <1>2. CASE stage[r] = "new"
    BY <1>1, <1>2 DEF ReadCache, ReadTag, Reads
  <1>3. CASE stage[r] = "reading"
    <2> DEFINE list == cache[Server[r]]["rules"]
               data == [i \in DOMAIN list |-> list[i].data]
    <2>1. /\ proc[Server[r]] = "up"
          /\ stage' = [stage EXCEPT ![r] = "judged"]
          /\ copy' = [copy EXCEPT ![r]["rules"] = data]
          /\ decision' = [decision EXCEPT ![r] =
                           Eval!FirstMatch(copy'[r]["rules"], copy'[r]["tags"], Asked[r])]
          /\ seen' = [seen EXCEPT ![r]["rules"] = cacheVer[Server[r]]["rules"]]
          /\ floor' = floor
          /\ UNCHANGED <<vars, logged, acked, context>>
      BY <1>1, <1>3 DEF ReadCache
    <2>2. copy'[r]["rules"] = data /\ copy'[r]["tags"] = copy[r]["tags"]
      <3> HIDE DEF data
      <3> QED
        BY <2>1 DEF Reads, Tables
    <2> QED
      BY <1>3, <2>1, <2>2 DEF ReadRules
  <1> QED
    BY <1>2, <1>3 DEF ReadCache

(* A step that reads nothing for r: r waits, is answered or ends with its
   process. *)
ReadsNothing(r) ==
  /\ seen'[r] = seen[r] /\ floor'[r] = floor[r] /\ decision'[r] = decision[r]
  /\ \/ stage'[r] = stage[r] /\ (stage[r] \in {"reading", "judged"} => proc'[Server[r]] = "up")
     \/ stage[r] = "judged" /\ stage'[r] = "answered"
     \/ stage'[r] = "gone"

LEMMA WaitingKept ==
  ASSUME IInv, IInv', ProxyIInv, Acks', [ProxyNext]_allVars, NEW r \in Requests, ReadsNothing(r)
  PROVE  InHand(r)' /\ NeverAhead(r)' /\ \A t \in Tables : seen'[r][t] <= Latest(t)'
  <1> DEFINE p == Server[r]
  <1>0. p \in Procs /\ "tags" \in Tables /\ "rules" \in Tables
    BY ServerAssumption DEF Tables
  <1>1. /\ \A t \in Tables : /\ Latest(t) \in Nat /\ Latest(t)' \in Nat /\ Latest(t) <= Latest(t)'
                             /\ \A v \in 1..Latest(t) : history'[t][v] = history[t][v]
                             /\ seen[r][t] \in Nat /\ seen[r][t] <= Latest(t)
                             /\ floor[r][t] \in Nat
                             /\ acked[p][t] \in Nat /\ acked'[p][t] \in Nat
                             /\ acked[p][t] <= acked'[p][t]
                             /\ cacheVer[p][t] \in Nat /\ cacheVer'[p][t] \in Nat
                             /\ proc[p] = "up" /\ proc'[p] = "up" => cacheVer[p][t] <= cacheVer'[p][t]
        /\ \A v \in 1..Latest("tags") : context'[v] = context[v]
    <2>1. [Next]_vars
      BY ProxySteps
    <2>2. \A t \in Tables : /\ Latest(t) \in Nat /\ Latest(t)' \in Nat /\ Latest(t) <= Latest(t)'
                            /\ \A v \in 1..Latest(t) : history'[t][v] = history[t][v]
      BY <2>1, StoreFacts, StoreSteps
    <2>3. \A t \in Tables : /\ seen[r][t] \in Nat /\ seen[r][t] <= Latest(t)
                            /\ floor[r][t] \in Nat
      BY DEF ProxyIInv, Reads
    <2>4. \A t \in Tables : /\ acked[p][t] \in Nat /\ acked'[p][t] \in Nat
                            /\ acked[p][t] <= acked'[p][t]
      BY <1>0, AcksKept DEF ProxyIInv, Acks
    <2>5. \A t \in Tables : cacheVer[p][t] \in Nat /\ cacheVer'[p][t] \in Nat
      BY <1>0 DEF IInv, Shape
    <2>6. \A t \in Tables :
            proc[p] = "up" /\ proc'[p] = "up" => cacheVer[p][t] <= cacheVer'[p][t]
      BY <1>0, <2>1, StoreSteps
    <2>7. \A v \in 1..Latest("tags") : context'[v] = context[v]
      BY ContextsKept DEF ProxyIInv
    <2> HIDE DEF p
    <2> QED
      BY <2>2, <2>3, <2>4, <2>5, <2>6, <2>7
  <1>2. \A t \in Tables : seen'[r][t] <= Latest(t)'
    BY <1>1 DEF ReadsNothing
  <1>3. InHand(r)
    BY DEF ProxyIInv
  <1>4. InHand(r)'
    <2>1. CASE stage'[r] = stage[r]
      BY <1>0, <1>1, <1>3, <2>1 DEF InHand, ReadsNothing
    <2>2. CASE stage[r] = "judged" /\ stage'[r] = "answered"
      BY <1>0, <1>1, <1>3, <2>2 DEF InHand, ReadsNothing
    <2>3. CASE stage'[r] = "gone"
      BY <2>3 DEF InHand
    <2> QED
      BY <2>1, <2>2, <2>3 DEF ReadsNothing
  <1>5. NeverAhead(r)'
    <2> SUFFICES ASSUME stage'[r] \in {"judged", "answered"}
                 PROVE  NeverAhead(r)'
      BY DEF NeverAhead
    <2>1. stage[r] \in {"judged", "answered"}
      BY DEF ReadsNothing
    <2>2. seen'[r] = seen[r] /\ seen[r]["tags"] \in 1..Latest("tags")
      BY <1>0, <1>1, <1>3, <2>1 DEF InHand, ReadsNothing
    <2>3. NeverAhead(r)
      BY DEF ProxyIInv
    <2> QED
      BY <1>0, <1>1, <2>1, <2>2, <2>3 DEF NeverAhead
  <1> QED
    BY <1>2, <1>4, <1>5

LEMMA ReadTagFacts ==
  ASSUME IInv, ProxyIInv, NEW r \in Requests, ReadTag(r)
  PROVE  /\ Reads' /\ InHand(r)' /\ NeverAhead(r)'
         /\ \A q \in Requests \ {r} : ReadsNothing(q)
  <1> DEFINE p == Server[r]
  <1>1. p \in Procs /\ "tags" \in Tables /\ "rules" \in Tables /\ proc[p] = "up"
    BY ServerAssumption DEF ReadTag, Tables
  <1>2. /\ history' = history /\ proc' = proc /\ cacheVer' = cacheVer
        /\ acked' = acked /\ logged' = logged /\ decision' = decision
    BY DEF ReadTag, vars, store, views
  <1>3. \A t \in Tables : /\ cacheVer[p][t] \in Nat /\ cacheVer[p][t] >= 1
                          /\ cacheVer[p][t] <= Latest(t) /\ Latest(t)' = Latest(t)
                          /\ acked[p][t] \in Nat /\ acked[p][t] <= cacheVer[p][t]
    BY <1>1, <1>2, StoreFacts DEF Latest, ProxyIInv, Acks
  <1>4. /\ stage'[r] = "reading" /\ floor'[r] = acked[p] /\ seen'[r]["tags"] = cacheVer[p]["tags"]
        /\ \A t \in Tables \ {"tags"} : seen'[r][t] = seen[r][t]
        /\ \A q \in Requests \ {r} :
             stage'[q] = stage[q] /\ seen'[q] = seen[q] /\ floor'[q] = floor[q]
    BY <1>1 DEF ReadTag, ProxyIInv, Reads
  <1>5. Reads'
    <2>1. /\ stage' \in [Requests -> {"new", "reading", "judged", "answered", "gone"}]
          /\ DOMAIN copy' = Requests /\ \A q \in Requests : DOMAIN copy'[q] = Tables
          /\ decision' \in [Requests -> {"Allow", "Block", None}] /\ DOMAIN logged' = Requests
      BY <1>2 DEF ReadTag, ProxyIInv, Reads
    <2>2. seen' \in [Requests -> [Tables -> Nat]] /\ floor' \in [Requests -> [Tables -> Nat]]
      <3>1. acked[p] \in [Tables -> Nat] /\ cacheVer[p]["tags"] \in Nat
        BY <1>1, <1>3 DEF ProxyIInv, Acks
      <3> QED
        BY <1>1, <3>1 DEF ReadTag, ProxyIInv, Reads
    <2>3. \A q \in Requests, t \in Tables : seen'[q][t] <= Latest(t)'
      BY <1>3, <1>4 DEF ProxyIInv, Reads
    <2> QED
      BY <2>1, <2>2, <2>3 DEF Reads
  <1>6. InHand(r)'
    BY <1>1, <1>2, <1>3, <1>4 DEF InHand
  <1>7. NeverAhead(r)'
    BY <1>4 DEF NeverAhead
  <1>8. ASSUME NEW q \in Requests \ {r} PROVE ReadsNothing(q)
    BY <1>2, <1>4 DEF ReadsNothing, ProxyIInv, InHand
  <1> QED
    BY <1>5, <1>6, <1>7, <1>8

LEMMA ReadRulesFacts ==
  ASSUME IInv, ProxyIInv, NEW r \in Requests, ReadRules(r)
  PROVE  /\ Reads' /\ InHand(r)' /\ NeverAhead(r)'
         /\ \A q \in Requests \ {r} : ReadsNothing(q)
  <1> DEFINE p == Server[r]
             list == cache[p]["rules"]
             data == [i \in DOMAIN list |-> list[i].data]
             judgement == Eval!FirstMatch(data, copy[r]["tags"], Asked[r])
  <1>1. p \in Procs /\ "tags" \in Tables /\ "rules" \in Tables /\ proc[p] = "up"
    BY ServerAssumption DEF ReadRules, Tables
  <1>2. /\ history' = history /\ proc' = proc /\ cacheVer' = cacheVer
        /\ acked' = acked /\ logged' = logged /\ context' = context /\ floor' = floor
    BY DEF ReadRules, vars, store, views
  <1>3. \A t \in Tables : /\ cacheVer[p][t] \in Nat /\ cacheVer[p][t] >= 1
                          /\ cacheVer[p][t] <= Latest(t) /\ Latest(t)' = Latest(t)
                          /\ acked[p][t] \in Nat /\ acked[p][t] <= cacheVer[p][t]
    BY <1>1, <1>2, StoreFacts DEF Latest, ProxyIInv, Acks
  <1>4. judgement \in {"Allow", "Block"}
    <2>1. DOMAIN list \subseteq Nat /\ \A i \in DOMAIN list : list[i].data \in RuleData
      BY <1>1, CacheFacts
    <2>2. DOMAIN data \subseteq Nat /\ \A i \in DOMAIN data : data[i] \in RuleData
      BY <2>1
    <2> HIDE DEF data
    <2> QED
      BY <2>2, FirstMatchFacts, RuleAssumption
  <1>5. /\ stage[r] = "reading" /\ stage'[r] = "judged" /\ decision'[r] = judgement
        /\ seen'[r]["rules"] = cacheVer[p]["rules"] /\ seen'[r]["tags"] = seen[r]["tags"]
        /\ \A q \in Requests \ {r} :
             stage'[q] = stage[q] /\ seen'[q] = seen[q] /\ decision'[q] = decision[q]
    <2> HIDE DEF judgement
    <2> QED
      BY <1>1 DEF ReadRules, ProxyIInv, Reads, judgement
  <1>6. Reads'
    <2>1. /\ stage' \in [Requests -> {"new", "reading", "judged", "answered", "gone"}]
          /\ DOMAIN copy' = Requests /\ \A q \in Requests : DOMAIN copy'[q] = Tables
          /\ DOMAIN logged' = Requests
      BY <1>2 DEF ReadRules, ProxyIInv, Reads
    <2>2. decision' \in [Requests -> {"Allow", "Block", None}]
      <3>1. decision' = [decision EXCEPT ![r] = judgement]
        BY DEF ReadRules
      <3> HIDE DEF judgement
      <3> QED
        BY <1>4, <3>1 DEF ProxyIInv, Reads
    <2>3. seen' \in [Requests -> [Tables -> Nat]] /\ floor' \in [Requests -> [Tables -> Nat]]
      BY <1>1, <1>2, <1>3 DEF ReadRules, ProxyIInv, Reads
    <2>4. \A q \in Requests, t \in Tables : seen'[q][t] <= Latest(t)'
      BY <1>3, <1>5 DEF ProxyIInv, Reads, Tables
    <2> QED
      BY <2>1, <2>2, <2>3, <2>4 DEF Reads
  <1> HIDE DEF judgement
  <1>7. /\ seen[r]["tags"] \in 1..Latest("tags") /\ floor[r]["rules"] \in Nat
        /\ floor[r]["rules"] <= acked[p]["rules"] /\ floor[r]["tags"] <= seen[r]["tags"]
        /\ seen[r]["tags"] <= cacheVer[p]["tags"]
    BY <1>1, <1>3, <1>5, StoreFacts DEF ProxyIInv, InHand, Reads
  <1>8. InHand(r)'
    <2>1. decision'[r] # None
      BY <1>4, <1>5, RuleAssumption
    <2>2. floor[r]["rules"] <= cacheVer[p]["rules"]
      BY <1>1, <1>3, <1>7
    <2>3. \A t \in Tables : 1 <= seen'[r][t] /\ floor'[r][t] <= seen'[r][t]
      BY <1>1, <1>2, <1>3, <1>5, <1>7, <2>2 DEF Tables
    <2> QED
      BY <1>1, <1>2, <1>3, <1>5, <1>7, <2>1, <2>3 DEF InHand
  <1>9. NeverAhead(r)'
    <2> DEFINE v == seen[r]["tags"]
    <2> SUFFICES ASSUME history["tags"][v].by # None, Home[history["tags"][v].by] = p
                 PROVE  cacheVer[p]["rules"] >= context[v]
      BY <1>2, <1>5 DEF NeverAhead
    <2>1. v \in 2..Latest("tags")
      BY <1>1, <1>7, StoreFacts DEF ProxyIInv, Contexts
    <2>2. context[v] <= acked[p]["rules"] /\ context[v] \in Nat
      BY <1>7, <2>1, SMTT(30) DEF ProxyIInv, Contexts
    <2> QED
      BY <1>1, <1>3, <2>2
  <1>10. ASSUME NEW q \in Requests \ {r} PROVE ReadsNothing(q)
    BY <1>2, <1>5 DEF ReadsNothing, ProxyIInv, InHand
  <1> QED
    BY <1>6, <1>8, <1>9, <1>10

(* Every other step reads nothing. *)
LEMMA OtherSteps ==
  ASSUME IInv, ProxyIInv, [ProxyNext]_allVars
  PROVE  \/ \E r \in Requests : ReadTag(r) \/ ReadRules(r)
         \/ /\ \A r \in Requests : ReadsNothing(r)
            /\ UNCHANGED <<copy, seen, floor, decision>> /\ DOMAIN logged' = Requests
            /\ stage' \in [Requests -> {"new", "reading", "judged", "answered", "gone"}]
  <1> DEFINE Kept == /\ \A r \in Requests : ReadsNothing(r)
                     /\ UNCHANGED <<copy, seen, floor, decision>> /\ DOMAIN logged' = Requests
                     /\ stage' \in [Requests -> {"new", "reading", "judged", "answered", "gone"}]
  <1>1. /\ Reads
        /\ \A r \in Requests : stage[r] \in {"reading", "judged"} => proc[Server[r]] = "up"
    BY DEF ProxyIInv, InHand
  <1>2. ASSUME NEW r \in Requests, Answer(r) PROVE Kept
    <2>1. /\ stage[r] = "judged" /\ stage' = [stage EXCEPT ![r] = "answered"]
          /\ proc' = proc /\ UNCHANGED <<copy, seen, floor, decision>>
      BY <1>2 DEF Answer, vars, views
    <2>2. DOMAIN logged' = Requests
      BY <1>1, <1>2 DEF Answer, Reads
    <2> QED
      BY <1>1, <2>1, <2>2 DEF Reads, ReadsNothing
  <1>3. ASSUME UNCHANGED requests, \A r \in Requests : proc[Server[r]] = "up" => proc'[Server[r]] = "up"
        PROVE  Kept
    BY <1>1, <1>3 DEF Reads, ReadsNothing, requests
  <1>4. ASSUME NEW p \in Procs, End(p) PROVE Kept
    <2>1. /\ proc' = [proc EXCEPT ![p] = "down"]
          /\ stage' = [r \in Requests |->
                         IF Server[r] = p /\ stage[r] \in {"reading", "judged"} THEN "gone"
                         ELSE stage[r]]
          /\ UNCHANGED <<copy, decision, logged, seen, floor>>
      BY <1>4 DEF End, Crash
    <2>2. \A r \in Requests : Server[r] # p => proc'[Server[r]] = proc[Server[r]]
      BY <2>1, ServerAssumption DEF IInv, Shape
    <2> QED
      BY <1>1, <2>1, <2>2 DEF Reads, ReadsNothing
  <1>5. ASSUME NEW p \in Procs, Start(p) PROVE Kept
    <2>1. /\ UNCHANGED requests
          /\ \E to \in {"loading", "up"} : proc' = [proc EXCEPT ![p] = to] /\ proc[p] # "up"
      BY <1>5 DEF Start, Boot, LoadRules, LoadTags, Fill
    <2> QED
      BY <1>3, <2>1, ServerAssumption DEF IInv, Shape
  <1>6. ASSUME UNCHANGED <<requests, proc>> PROVE Kept
    BY <1>3, <1>6
  <1>7. ASSUME NEW m \in Mutators, Change(m) \/ Acknowledge(m) \/ Other(m) PROVE Kept
    <2>1. CASE Change(m)
      <3>1. UNCHANGED requests /\ \E t \in Tables, rows \in Content("rules") \cup Content("tags") : Commit(m, t, rows)
        BY <2>1, MutateCommits DEF Change, IInv, Tables
      <3> QED
        BY <1>6, <3>1 DEF Commit, views
    <2>2. CASE Acknowledge(m) \/ Other(m)
      BY <1>6, <2>2 DEF Acknowledge, Other, ReloadSwap, ReloadRead, ReloadFails, views
    <2> QED
      BY <1>7, <2>1, <2>2
  <1>8. ASSUME Done \/ UNCHANGED allVars PROVE Kept
    BY <1>6, <1>8 DEF Done, Finished, allVars, vars, views
  <1> HIDE DEF Kept
  <1>9. (\E r \in Requests : ReadTag(r) \/ ReadRules(r)) \/ Kept
    <2>1. ASSUME NEW r \in Requests, ReadCache(r) PROVE ReadTag(r) \/ ReadRules(r)
      BY <1>1, <2>1, ReadCacheSteps
    <2>2. \/ \E r \in Requests : ReadCache(r) \/ Answer(r)
          \/ \E m \in Mutators : Change(m) \/ Acknowledge(m) \/ Other(m)
          \/ \E p \in Procs : Start(p) \/ End(p)
          \/ Done \/ UNCHANGED allVars
      BY DEF ProxyNext, Handle
    <2> QED
      BY <1>2, <1>4, <1>5, <1>7, <1>8, <2>1, <2>2
  <1> QED
    BY <1>9 DEF Kept

LEMMA ProxyNextKeeps ==
  ASSUME IInv, IInv', ProxyIInv, [ProxyNext]_allVars
  PROVE  ProxyIInv'
  <1>1. Acks' /\ Contexts' /\ FiniteRules'
    BY AcksKept, ContextsKept, CommittedFinite, ProxySteps DEF ProxyIInv
  <1>2. ASSUME NEW r \in Requests, ReadTag(r) \/ ReadRules(r)
        PROVE  Reads' /\ \A q \in Requests : InHand(q)' /\ NeverAhead(q)'
    <2>1. /\ Reads' /\ InHand(r)' /\ NeverAhead(r)'
          /\ \A q \in Requests \ {r} : ReadsNothing(q)
      BY <1>2, ReadTagFacts, ReadRulesFacts
    <2>2. \A q \in Requests \ {r} : InHand(q)' /\ NeverAhead(q)'
      BY <1>1, <2>1, WaitingKept
    <2> QED
      BY <2>1, <2>2
  <1>3. ASSUME /\ \A r \in Requests : ReadsNothing(r)
               /\ UNCHANGED <<copy, seen, floor, decision>> /\ DOMAIN logged' = Requests
               /\ stage' \in [Requests -> {"new", "reading", "judged", "answered", "gone"}]
        PROVE  Reads' /\ \A q \in Requests : InHand(q)' /\ NeverAhead(q)'
    <2>1. \A q \in Requests : /\ InHand(q)' /\ NeverAhead(q)'
                              /\ \A t \in Tables : seen'[q][t] <= Latest(t)'
      BY <1>1, <1>3, WaitingKept
    <2> QED
      BY <1>3, <2>1 DEF Reads, ProxyIInv
  <1>4. Reads' /\ \A q \in Requests : InHand(q)' /\ NeverAhead(q)'
    BY <1>2, <1>3, OtherSteps
  <1> QED
    BY <1>1, <1>4 DEF ProxyIInv

LEMMA ProxyInductive == ProxySpec => [](IInv /\ ProxyIInv)
  <1>1. ProxySpec => []IInv
    BY ProxyImplementsStore, Inductive, PTL
  <1>2. IInv /\ IInv' /\ ProxyIInv /\ [ProxyNext]_allVars => ProxyIInv'
    BY ProxyNextKeeps
  <1> QED
    BY <1>1, <1>2, InitProxyIInv, PTL DEF ProxySpec

(* The types of ProxyRequest: a judged request has an action, no request has
   seen and no process acknowledged a version that does not exist. *)
THEOREM ProxyTypeCorrect == ProxySpec => []ProxyTypeOK
  <1>1. IInv /\ ProxyIInv => ProxyTypeOK
    <2> SUFFICES ASSUME IInv, ProxyIInv PROVE ProxyTypeOK
      OBVIOUS
    <2>1. \A t \in Tables : Latest(t) \in Nat
      BY StoreFacts
    <2>2. \A r \in Requests, t \in Tables : seen[r][t] \in 0..Latest(t)
      BY <2>1 DEF ProxyIInv, Reads
    <2>3. \A p \in Procs, t \in Tables : acked[p][t] \in 0..Latest(t)
      BY <2>1 DEF ProxyIInv, Acks
    <2> QED
      BY <2>2, <2>3 DEF ProxyTypeOK, ProxyIInv, Reads, InHand, Contexts
  <1> QED
    BY <1>1, ProxyInductive, PTL

-----------------------------------------------------------------------------
(* The judgement and the log, when every row of a table can be read. *)

(* What request r was judged by and logged with, as far as it has come. *)
Right(r) ==
  LET tags == history["tags"][seen[r]["tags"]].rows
      tag == Eval!TagOf(tags, Asked[r].domain)
      hits == {rule \in history["rules"][seen[r]["rules"]].rows :
                 Eval!Applies(rule.data, Asked[r], tag)} IN
  /\ stage[r] \in {"reading", "judged", "answered"} => copy[r]["tags"] = tag
  /\ stage[r] \in {"judged", "answered"} =>
       IF hits = {} THEN decision[r] = "Allow"
       ELSE \E rule \in hits :
              /\ decision[r] = rule.data.action
              /\ \A other \in hits : rule.data.priority <= other.data.priority
  /\ stage[r] = "answered" /\ Asked[r].client # None =>
       \/ logged[r] = [tag |-> copy[r]["tags"], action |-> decision[r]]
       \/ Latest("tags") > seen[r]["tags"]

(* Of a listing ordered by priority, the first match has the least one. *)
LEMMA ListingDecides ==
  ASSUME NEW rows \in SUBSET Rule, IsFiniteSet(rows), NEW list \in Listings(rows),
         NEW tag, NEW request,
         NEW data, DOMAIN data = DOMAIN list, \A i \in DOMAIN list : data[i] = list[i].data,
         NEW hits, \A rule : rule \in hits <=> rule \in rows /\ Eval!Applies(rule.data, request, tag)
  PROVE  LET action == Eval!FirstMatch(data, tag, request) IN
         IF hits = {} THEN action = "Allow"
         ELSE \E rule \in hits :
                /\ action = rule.data.action
                /\ \A other \in hits : rule.data.priority <= other.data.priority
  <1> DEFINE action == Eval!FirstMatch(data, tag, request)
  <1>1. /\ DOMAIN list \subseteq Nat
        /\ \A i \in DOMAIN list : list[i] \in rows
        /\ \A rule \in rows : \E i \in DOMAIN list : rule = list[i]
        /\ \A i, j \in DOMAIN list :
             i < j => list[i].data.priority <= list[j].data.priority
    BY FS_CardinalityType DEF Listings
  <1>2. DOMAIN data \subseteq Nat /\ DOMAIN data = DOMAIN list
        /\ \A i \in DOMAIN list : data[i] = list[i].data
    BY <1>1
  <1>3. CASE /\ \A i \in DOMAIN data : ~ Eval!Applies(data[i], request, tag)
             /\ action = "Allow"
    <2>1. hits = {}
      BY <1>1, <1>2, <1>3
    <2> QED
      BY <1>3, <2>1
  <1>4. ASSUME NEW i \in DOMAIN data, Eval!Applies(data[i], request, tag),
               \A j \in DOMAIN data : Eval!Applies(data[j], request, tag) => i <= j,
               action = data[i].action
        PROVE  /\ list[i] \in hits /\ action = list[i].data.action
               /\ \A other \in hits : list[i].data.priority <= other.data.priority
    <2>1. list[i] \in hits /\ action = list[i].data.action
      BY <1>1, <1>2, <1>4
    <2>2. ASSUME NEW other \in hits PROVE list[i].data.priority <= other.data.priority
      <3>1. PICK j \in DOMAIN list : other = list[j]
        BY <1>1
      <3>2. i <= j
        BY <1>2, <1>4, <3>1
      <3>3. i \in Nat /\ j \in Nat /\ list[i].data.priority \in Int
        BY <1>1, <1>2, RuleAssumption DEF Rule
      <3>4. CASE i = j
        BY <3>1, <3>3, <3>4
      <3>5. CASE i < j
        BY <1>1, <1>2, <3>1, <3>5
      <3> QED
        BY <3>2, <3>3, <3>4, <3>5
    <2> QED
      BY <2>1, <2>2
  <1>5. hits = {} => action = "Allow"
    BY <1>2, <1>3, <1>4, FirstMatchFacts
  <1>6. ASSUME hits # {}
        PROVE  \E rule \in hits :
                 /\ action = rule.data.action
                 /\ \A other \in hits : rule.data.priority <= other.data.priority
    <2>1. ~ \A i \in DOMAIN data : ~ Eval!Applies(data[i], request, tag)
      BY <1>1, <1>2, <1>6
    <2>2. PICK i \in DOMAIN data :
            /\ Eval!Applies(data[i], request, tag)
            /\ \A j \in DOMAIN data : Eval!Applies(data[j], request, tag) => i <= j
            /\ action = data[i].action
      BY <1>2, <2>1, FirstMatchFacts
    <2> QED
      BY <1>4, <2>2
  <1> QED
    BY <1>5, <1>6

LEMMA RightKept ==
  ASSUME "step" \notin Faults, IInv, IInv', ProxyIInv, ProxyIInv', [ProxyNext]_allVars,
         NEW r \in Requests, Right(r)
  PROVE  Right(r)'
  <1> DEFINE p == Server[r]
  <1>0. p \in Procs /\ "tags" \in Tables /\ "rules" \in Tables /\ "rules" # "tags"
    BY ServerAssumption DEF Tables
  <1>1. /\ \A t \in Tables : /\ Latest(t) \in Nat /\ Latest(t)' \in Nat /\ Latest(t) <= Latest(t)'
                             /\ \A v \in 1..Latest(t) : history'[t][v] = history[t][v]
                             /\ seen[r][t] \in Nat /\ seen[r][t] <= Latest(t)
    BY StoreFacts, StoreSteps, ProxySteps DEF ProxyIInv, Reads
  <1>2. ASSUME proc[p] = "up"
        PROVE  /\ cache[p]["tags"] = history["tags"][cacheVer[p]["tags"]].rows
               /\ cache[p]["rules"] \in Listings(history["rules"][cacheVer[p]["rules"]].rows)
    BY <1>0, <1>2, CacheFacts DEF TagLoads, RuleLoads
  <1>3. /\ stage[r] \in {"reading", "judged", "answered"} => seen[r]["tags"] \in 1..Latest("tags")
        /\ stage[r] \in {"judged", "answered"} => seen[r]["rules"] \in 1..Latest("rules")
    BY <1>0, <1>1 DEF ProxyIInv, InHand
  <1>4. ASSUME ReadTag(r) PROVE Right(r)'
    <2>1. /\ stage' = [stage EXCEPT ![r] = "reading"] /\ proc[p] = "up"
          /\ copy' = [copy EXCEPT ![r]["tags"] = TagIn(p, r)]
          /\ seen' = [seen EXCEPT ![r]["tags"] = cacheVer[p]["tags"]] /\ history' = history
      BY <1>4 DEF ReadTag, vars, store
    <2>2. /\ stage'[r] = "reading" /\ copy'[r]["tags"] = TagIn(p, r)
          /\ seen'[r]["tags"] = cacheVer[p]["tags"]
      BY <1>0, <2>1 DEF ProxyIInv, Reads
    <2> QED
      BY <1>2, <2>1, <2>2 DEF Right, TagIn
  <1>5. ASSUME ReadRules(r) PROVE Right(r)'
    <2> DEFINE list == cache[p]["rules"]
               data == [i \in DOMAIN list |-> list[i].data]
               judgement == Eval!FirstMatch(data, copy[r]["tags"], Asked[r])
               rows == history["rules"][cacheVer[p]["rules"]].rows
    <2>1. /\ stage[r] = "reading" /\ proc[p] = "up" /\ history' = history
          /\ stage' = [stage EXCEPT ![r] = "judged"]
          /\ copy' = [copy EXCEPT ![r]["rules"] = data]
          /\ decision' = [decision EXCEPT ![r] = judgement]
          /\ seen' = [seen EXCEPT ![r]["rules"] = cacheVer[p]["rules"]]
      BY <1>5 DEF ReadRules, vars, store
    <2>2. /\ stage'[r] = "judged" /\ decision'[r] = judgement
          /\ copy'[r]["tags"] = copy[r]["tags"] /\ seen'[r]["tags"] = seen[r]["tags"]
          /\ seen'[r]["rules"] = cacheVer[p]["rules"]
      <3> HIDE DEF judgement, data
      <3> QED
        BY <1>0, <2>1 DEF ProxyIInv, Reads
    <2>3. copy[r]["tags"] = Eval!TagOf(history["tags"][seen[r]["tags"]].rows, Asked[r].domain)
      BY <2>1 DEF Right
    <2>4. rows \subseteq Rule /\ IsFiniteSet(rows) /\ list \in Listings(rows)
      BY <1>0, <1>2, <2>1, CacheFacts
    <2> DEFINE hits == {rule \in rows : Eval!Applies(rule.data, Asked[r], copy[r]["tags"])}
    <2>5. IF hits = {} THEN judgement = "Allow"
          ELSE \E rule \in hits :
                 /\ judgement = rule.data.action
                 /\ \A other \in hits : rule.data.priority <= other.data.priority
      <3>1. /\ DOMAIN data = DOMAIN list /\ \A i \in DOMAIN list : data[i] = list[i].data
            /\ \A rule : rule \in hits
                         <=> rule \in rows /\ Eval!Applies(rule.data, Asked[r], copy[r]["tags"])
            /\ judgement = Eval!FirstMatch(data, copy[r]["tags"], Asked[r])
        OBVIOUS
      <3> HIDE DEF rows, list, data, hits, judgement
      <3> QED
        BY <2>4, <3>1, ListingDecides
    <2>6. /\ history'["tags"][seen'[r]["tags"]].rows = history["tags"][seen[r]["tags"]].rows
          /\ history'["rules"][seen'[r]["rules"]].rows = rows
      BY <2>1, <2>2
    <2> DEFINE tag == Eval!TagOf(history'["tags"][seen'[r]["tags"]].rows, Asked[r].domain)
               found == {rule \in history'["rules"][seen'[r]["rules"]].rows :
                           Eval!Applies(rule.data, Asked[r], tag)}
    <2>7. tag = copy[r]["tags"]
      BY <2>3, <2>6
    <2>8. found = hits
      <3> HIDE DEF tag, rows
      <3> QED
        BY <2>6, <2>7
    <2>9. Right(r)' <=>
            /\ stage'[r] \in {"reading", "judged", "answered"} => copy'[r]["tags"] = tag
            /\ stage'[r] \in {"judged", "answered"} =>
                 IF found = {} THEN decision'[r] = "Allow"
                 ELSE \E rule \in found :
                        /\ decision'[r] = rule.data.action
                        /\ \A other \in found : rule.data.priority <= other.data.priority
            /\ stage'[r] = "answered" /\ Asked[r].client # None =>
                 \/ logged'[r] = [tag |-> copy'[r]["tags"], action |-> decision'[r]]
                 \/ Latest("tags")' > seen'[r]["tags"]
      BY DEF Right
    <2> HIDE DEF judgement, hits, found, rows, tag
    <2> QED
      BY <2>2, <2>5, <2>7, <2>8, <2>9
  <1>6. ASSUME /\ seen'[r] = seen[r] /\ copy'[r] = copy[r] /\ decision'[r] = decision[r]
               /\ stage'[r] \in {stage[r], "gone"} \/ stage[r] = "judged"
               /\ stage'[r] \in {stage[r], "gone", "answered"}
               /\ stage'[r] = "answered" =>
                    Answer(r) \/ (stage[r] = "answered" /\ logged'[r] = logged[r])
        PROVE  Right(r)'
    <2>1. CASE stage'[r] = "gone" \/ stage'[r] = "new"
      BY <2>1 DEF Right
    <2>2. CASE stage'[r] = stage[r] /\ stage[r] \in {"reading", "judged", "answered"}
      <3>1. /\ seen[r]["tags"] \in 1..Latest("tags")
            /\ history'["tags"][seen'[r]["tags"]] = history["tags"][seen[r]["tags"]]
            /\ Latest("tags") \in Nat /\ Latest("tags")' \in Nat /\ Latest("tags") <= Latest("tags")'
        BY <1>0, <1>1, <1>3, <1>6, <2>2
      <3>2. stage[r] \in {"judged", "answered"} =>
              history'["rules"][seen'[r]["rules"]] = history["rules"][seen[r]["rules"]]
        BY <1>0, <1>1, <1>3, <1>6
      <3>3. stage[r] = "answered" => logged'[r] = logged[r]
        BY <1>6, <2>2 DEF Answer
      <3>4. CASE stage[r] = "reading"
        BY <1>6, <2>2, <3>1, <3>4 DEF Right
      <3>5. CASE stage[r] = "judged"
        BY <1>6, <2>2, <3>1, <3>2, <3>5 DEF Right
      <3>6. CASE stage[r] = "answered"
        <4>1. CASE Latest("tags") > seen[r]["tags"]
          <5>1. Latest("tags")' > seen'[r]["tags"]
            BY <1>6, <3>1, <4>1
          <5> QED
            BY <1>6, <2>2, <3>1, <3>2, <3>6, <5>1 DEF Right
        <4>2. CASE ~ (Latest("tags") > seen[r]["tags"])
          <5>1. Asked[r].client # None =>
                  logged'[r] = [tag |-> copy'[r]["tags"], action |-> decision'[r]]
            BY <1>6, <3>3, <3>6, <4>2 DEF Right
          <5> QED
            BY <1>6, <2>2, <3>1, <3>2, <3>6, <5>1 DEF Right
        <4> QED
          BY <4>1, <4>2
      <3> QED
        BY <2>2, <3>4, <3>5, <3>6
    <2>3. CASE Answer(r)
      <3>1. /\ stage[r] = "judged" /\ stage'[r] = "answered" /\ proc[p] = "up"
            /\ history' = history /\ Latest("tags")' = Latest("tags")
            /\ Asked[r].client # None => logged'[r] = [tag |-> TagIn(p, r), action |-> decision[r]]
        BY <2>3 DEF Answer, ProxyIInv, InHand, Reads, vars, store, Latest
      <3>2. seen[r]["tags"] <= cacheVer[p]["tags"] /\ cacheVer[p]["tags"] \in 1..Latest("tags")
        BY <1>0, <3>1, StoreFacts DEF ProxyIInv, InHand
      <3>3. CASE Latest("tags") > seen[r]["tags"]
        BY <1>6, <3>1, <3>3 DEF Right
      <3>4. CASE ~ (Latest("tags") > seen[r]["tags"])
        <4>1. cacheVer[p]["tags"] = seen[r]["tags"]
          BY <1>0, <1>1, <3>2, <3>4
        <4>2. TagIn(p, r) = copy[r]["tags"]
          BY <1>2, <3>1, <4>1 DEF Right, TagIn
        <4> QED
          BY <1>6, <3>1, <4>2 DEF Right
      <3> QED
        BY <3>3, <3>4
    <2> QED
      BY <1>6, <2>1, <2>2, <2>3 DEF ProxyIInv, Reads
  <1>7. ASSUME NEW q \in Requests \ {r}, ReadTag(q) \/ ReadRules(q) PROVE Right(r)'
    <2>1. /\ seen'[r] = seen[r] /\ copy'[r] = copy[r] /\ decision'[r] = decision[r]
          /\ stage'[r] = stage[r] /\ logged' = logged
      BY <1>7 DEF ReadTag, ReadRules, ProxyIInv, Reads
    <2> QED
      BY <1>6, <2>1
  <1>8. ASSUME ReadsNothing(r), copy' = copy PROVE Right(r)'
    <2>1. stage'[r] = "answered" =>
            Answer(r) \/ (stage[r] = "answered" /\ logged'[r] = logged[r])
      <3>1. ASSUME NEW q \in Requests, Answer(q), q # r
            PROVE  stage'[r] = stage[r] /\ logged'[r] = logged[r]
        BY <3>1 DEF Answer
      <3>2. ASSUME NEW q \in Requests, ReadCache(q), stage'[r] = "answered"
            PROVE  stage'[r] = stage[r] /\ logged'[r] = logged[r]
        BY <3>2, SMTT(30) DEF ReadCache, ProxyIInv, Reads
      <3>3. ASSUME UNCHANGED requests PROVE stage'[r] = stage[r] /\ logged'[r] = logged[r]
        BY <3>3 DEF requests
      <3>4. ASSUME NEW q \in Procs, End(q), stage'[r] = "answered"
            PROVE  stage'[r] = stage[r] /\ logged'[r] = logged[r]
        BY <3>4 DEF End
      <3>5. \/ \E q \in Requests : ReadCache(q) \/ Answer(q)
            \/ UNCHANGED requests
            \/ \E q \in Procs : End(q)
        BY DEF ProxyNext, Handle, Change, Acknowledge, Other, Start, Done, allVars
      <3>6. CASE \E q \in Requests : ReadCache(q) \/ Answer(q)
        BY <3>1, <3>2, <3>6
      <3> QED
        BY <3>3, <3>4, <3>5, <3>6
    <2> QED
      BY <1>6, <1>8, <2>1 DEF ReadsNothing
  <1> QED
    BY <1>4, <1>5, <1>7, <1>8, OtherSteps

(* A judged request has walked every rule of the version it has seen. *)
Whole(r) == stage[r] \in {"judged", "answered"} => HasRulesOf(r, seen[r]["rules"])

LEMMA WholeKept ==
  ASSUME "step" \notin Faults, IInv, IInv', ProxyIInv, ProxyIInv', [ProxyNext]_allVars,
         NEW r \in Requests, Whole(r)
  PROVE  Whole(r)'
  <1> DEFINE p == Server[r]
  <1>0. p \in Procs /\ "rules" \in Tables /\ "tags" \in Tables /\ "rules" # "tags"
    BY ServerAssumption DEF Tables
  <1>1. ASSUME ReadTag(r) PROVE Whole(r)'
    <2>1. stage'[r] = "reading"
      BY <1>1 DEF ReadTag, ProxyIInv, Reads
    <2> QED
      BY <2>1 DEF Whole
  <1>2. ASSUME ReadRules(r) PROVE Whole(r)'
    <2> DEFINE list == cache[p]["rules"]
               data == [i \in DOMAIN list |-> list[i].data]
    <2>1. /\ proc[p] = "up" /\ history' = history
          /\ copy' = [copy EXCEPT ![r]["rules"] = data]
          /\ seen' = [seen EXCEPT ![r]["rules"] = cacheVer[p]["rules"]]
      BY <1>2 DEF ReadRules, vars, store
    <2>2. list \in Listings(history["rules"][cacheVer[p]["rules"]].rows)
      BY <1>0, <2>1, CacheFacts DEF RuleLoads
    <2>3. copy'[r]["rules"] = data /\ seen'[r]["rules"] = cacheVer[p]["rules"]
      <3> HIDE DEF data
      <3> QED
        BY <1>0, <2>1 DEF ProxyIInv, Reads
    <2>4. list \in Listings(history'["rules"][seen'[r]["rules"]].rows)
      BY <2>1, <2>2, <2>3
    <2> QED
      BY <2>3, <2>4 DEF Whole, HasRulesOf
  <1>3. ASSUME seen'[r] = seen[r], copy'[r] = copy[r],
               stage'[r] \in {"judged", "answered"} => stage[r] \in {"judged", "answered"}
        PROVE  Whole(r)'
    <2> SUFFICES ASSUME stage'[r] \in {"judged", "answered"} PROVE Whole(r)'
      BY DEF Whole
    <2>1. HasRulesOf(r, seen[r]["rules"])
      BY <1>3 DEF Whole
    <2>2. seen[r]["rules"] \in 1..Latest("rules")
      BY <1>0, <1>3, StoreFacts DEF ProxyIInv, InHand, Reads
    <2>3. history'["rules"][seen'[r]["rules"]] = history["rules"][seen[r]["rules"]]
      <3>1. \A v \in 1..Latest("rules") : history'["rules"][v] = history["rules"][v]
        BY <1>0, StoreSteps, ProxySteps
      <3> QED
        BY <1>3, <2>2, <3>1
    <2> QED
      BY <1>3, <2>1, <2>3 DEF Whole, HasRulesOf
  <1>4. ASSUME NEW q \in Requests \ {r}, ReadTag(q) \/ ReadRules(q) PROVE Whole(r)'
    <2>1. seen'[r] = seen[r] /\ copy'[r] = copy[r] /\ stage'[r] = stage[r]
      BY <1>4 DEF ReadTag, ReadRules, ProxyIInv, Reads
    <2> QED
      BY <1>3, <2>1
  <1>5. ASSUME ReadsNothing(r), copy' = copy PROVE Whole(r)'
    BY <1>3, <1>5 DEF ReadsNothing
  <1> QED
    BY <1>1, <1>2, <1>4, <1>5, OtherSteps

LEMMA RightInductive ==
  ASSUME "step" \notin Faults
  PROVE  ProxySpec => [](\A r \in Requests : Right(r) /\ Whole(r))
  <1>1. ProxyInit => \A r \in Requests : Right(r) /\ Whole(r)
    BY DEF ProxyInit, Right, Whole
  <1>2. /\ IInv /\ ProxyIInv /\ IInv' /\ ProxyIInv' /\ [ProxyNext]_allVars
        /\ \A r \in Requests : Right(r) /\ Whole(r)
        => (\A r \in Requests : Right(r) /\ Whole(r))'
    BY RightKept, WholeKept
  <1> QED
    BY <1>1, <1>2, ProxyInductive, PTL DEF ProxySpec

(* While no step of a reload's SELECT fails, a request is judged as ONE
   committed version of the rules and ONE of the tags say. *)
THEOREM Decided ==
  ASSUME "step" \notin Faults
  PROVE  ProxySpec => []DecidedByPolicy
  <1>1. (\A r \in Requests : Right(r) /\ Whole(r)) => DecidedByPolicy
    BY DEF Right, DecidedByPolicy
  <1> QED
    BY <1>1, RightInductive, PTL

(* Under the same condition it is logged under the tag it was judged by,
   unless the tags changed meanwhile. *)
THEOREM Logged ==
  ASSUME "step" \notin Faults
  PROVE  ProxySpec => []LoggedAsJudged
  <1>1. (\A r \in Requests : Right(r) /\ Whole(r)) => LoggedAsJudged
    BY DEF Right, LoggedAsJudged
  <1> QED
    BY <1>1, RightInductive, PTL

(* What a judged request has read, by versions, and how they compare. *)
LEMMA VersionsRead ==
  ASSUME IInv, ProxyIInv, NEW r \in Requests, Right(r), Whole(r),
         stage[r] \in {"judged", "answered"}
  PROVE  \A t \in Tables : /\ seen[r][t] \in 1..Latest(t) /\ seen[r][t] >= floor[r][t]
                           /\ t = "tags" => HasTagOf(r, seen[r][t])
                           /\ t = "rules" => HasRulesOf(r, seen[r][t])
  <1>1. \A t \in Tables : seen[r][t] \in 1..Latest(t) /\ seen[r][t] >= floor[r][t]
    BY StoreFacts DEF ProxyIInv, InHand, Reads
  <1>2. HasTagOf(r, seen[r]["tags"])
    BY DEF Right, HasTagOf
  <1>3. HasRulesOf(r, seen[r]["rules"])
    BY DEF Whole
  <1> QED
    BY <1>1, <1>2, <1>3

(* While every row of a reload is read: what was acknowledged before a request
   came in is in the rules and the tag it is judged by, whatever reloads,
   restarts and other failures come between its reads. *)
THEOREM Obeyed ==
  ASSUME "step" \notin Faults
  PROVE  ProxySpec => []AcknowledgedObeyed
  <1>1. IInv /\ ProxyIInv /\ (\A r \in Requests : Right(r) /\ Whole(r)) => AcknowledgedObeyed
    BY VersionsRead DEF AcknowledgedObeyed, Tables
  <1> QED
    BY <1>1, ProxyInductive, RightInductive, PTL

(* Under the same condition no request is judged by a tag without the rules
   that were acknowledged before that tag was set. *)
THEOREM RulesKeepUp ==
  ASSUME "step" \notin Faults
  PROVE  ProxySpec => []TagsNeverAhead
  <1>1. ASSUME IInv, ProxyIInv, \A r \in Requests : Right(r) /\ Whole(r),
               NEW r \in Requests, stage[r] \in {"judged", "answered"}
        PROVE  LET v == seen[r]["tags"] IN
               /\ HasTagOf(r, v)
               /\ history["tags"][v].by # None /\ Home[history["tags"][v].by] = Server[r] =>
                    \E w \in 1..Latest("rules") : w >= context[v] /\ HasRulesOf(r, w)
    <2>1. /\ HasTagOf(r, seen[r]["tags"]) /\ HasRulesOf(r, seen[r]["rules"])
          /\ seen[r]["rules"] \in 1..Latest("rules")
      BY <1>1, VersionsRead DEF Tables
    <2>2. NeverAhead(r)
      BY <1>1 DEF ProxyIInv
    <2> QED
      BY <1>1, <2>1, <2>2 DEF NeverAhead
  <1>2. IInv /\ ProxyIInv /\ (\A r \in Requests : Right(r) /\ Whole(r)) => TagsNeverAhead
    BY <1>1 DEF TagsNeverAhead
  <1> QED
    BY <1>2, ProxyInductive, RightInductive, PTL
=============================================================================
