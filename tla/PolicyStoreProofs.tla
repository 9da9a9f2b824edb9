-------------------------- MODULE PolicyStoreProofs --------------------------
(***************************************************************************)
(* Proofs about PolicyStore, for every set of processes and threads, every *)
(* rule and tag, every combination of failures and every bound.            *)
(*                                                                         *)
(* None of the properties is inductive: what keeps a reload from            *)
(* overwriting a newer cache is that its process cannot commit between the *)
(* read and the replacement.  IInv says so for every thread in that window *)
(* (Reading), and that there is at most one per process (OneReader).       *)
(***************************************************************************)
EXTENDS PolicyStore, TLAPS

(* Every entry of a history. *)
Entry == [rows : (SUBSET Rule) \cup TagMap, by : Mutators \cup {None}]

(* Domains and ranges; no relation between variables. *)
Shape ==
  /\ DOMAIN db = Tables /\ \A t \in Tables : db[t] \in Content(t)
  /\ nextId \in Nat
  /\ history \in [Tables -> Seq(Entry)]
  /\ proc \in [Procs -> {"down", "loading", "up"}]
  /\ DOMAIN cache = Procs /\ \A p \in Procs : DOMAIN cache[p] = Tables
  /\ cacheVer \in [Procs -> [Tables -> Nat]]
  /\ pc \in [Mutators -> {"idle", "reload", "swap"}]
  /\ table \in [Mutators -> Tables \cup {None}]
  /\ DOMAIN loaded = Mutators
  /\ loadedVer \in [Mutators -> Nat]
  /\ wrote \in [Mutators -> Nat]
  /\ failed \in [Tables -> SUBSET Nat]

(* The last version of a table is its content; threads wrote the others. *)
Versions ==
  \A t \in Tables :
    /\ Latest(t) >= 1
    /\ history[t][Latest(t)].rows = db[t]
    /\ \A v \in 2..Latest(t) : history[t][v].by \in Mutators
    /\ failed[t] \subseteq 1..Latest(t)

(* A process has filled the caches its state says it has. *)
Filled ==
  \A p \in Procs :
    /\ \A t \in Tables : cacheVer[p][t] <= Latest(t)
    /\ proc[p] = "up" => \A t \in Tables : cacheVer[p][t] >= 1
    /\ proc[p] = "loading" => cacheVer[p]["tags"] = 0 /\ cacheVer[p]["rules"] >= 1
    /\ proc[p] = "down" => \A t \in Tables : cacheVer[p][t] = 0

(* What a thread inside a call knows. *)
InCall(m) ==
  IF pc[m] = "idle" THEN loadedVer[m] = 0 /\ wrote[m] = 0
  ELSE /\ proc[Home[m]] = "up"
       /\ table[m] \in Tables
       /\ wrote[m] \in 1..Latest(table[m])
       /\ loadedVer[m] <= Latest(table[m])

(* A thread between read and replacement: its cache is no newer than what it
   read, and its own process has committed nothing since. *)
Reading(m) ==
  pc[m] = "swap" =>
    LET p == Home[m]
        t == table[m] IN
    /\ loadedVer[m] >= 1
    /\ cacheVer[p][t] <= loadedVer[m]
    /\ loaded[m] \in Loads(t, history[t][loadedVer[m]].rows)
    /\ \A v \in (loadedVer[m] + 1)..Latest(t) : Home[history[t][v].by] # p

OneReader ==
  \A m, n \in Mutators :
    Home[m] = Home[n] /\ pc[m] = "swap" /\ pc[n] = "swap" => m = n

(* NoChangeLost, for every cache that is filled. *)
Covered(p, t) ==
  cacheVer[p][t] >= 1 =>
    \A v \in (cacheVer[p][t] + 1)..Latest(t) :
      LET writer == history[t][v].by IN
      Home[writer] = p =>
        \/ v \in failed[t]
        \/ pc[writer] # "idle" /\ table[writer] = t /\ wrote[writer] = v

IInv ==
  /\ Shape
  /\ IdsAreKeys(db["rules"], nextId)
  /\ Versions
  /\ Filled
  /\ \A m \in Mutators : InCall(m) /\ Reading(m)
  /\ OneReader
  /\ CacheIsSnapshot
  /\ \A p \in Procs, t \in Tables : Covered(p, t)

-----------------------------------------------------------------------------
(* The table contents a history starts with. *)
LEMMA EmptyContent ==
  /\ \A t \in Tables : Empty(t) \in Content(t)
  /\ \A t \in Tables : Content(t) \subseteq (SUBSET Rule) \cup TagMap
  BY DEF Tables, Empty, Content, TagMap

LEMMA InitIInv == Init => IInv
  <1> SUFFICES ASSUME Init PROVE IInv
    OBVIOUS
  <1>1. \A t \in Tables : Latest(t) = 1 /\ history[t][1] = [rows |-> Empty(t), by |-> None]
    BY DEF Init, Latest
  <1>2. Shape
    <2>1. \A t \in Tables : [rows |-> Empty(t), by |-> None] \in Entry
      BY EmptyContent DEF Entry
    <2>2. history \in [Tables -> Seq(Entry)]
      BY <2>1 DEF Init
    <2>3. DOMAIN db = Tables /\ \A t \in Tables : db[t] \in Content(t)
      BY EmptyContent DEF Init
    <2>4. DOMAIN cache = Procs /\ \A p \in Procs : DOMAIN cache[p] = Tables
      BY DEF Init, EmptyCache
    <2> QED
      BY <2>2, <2>3, <2>4 DEF Init, Shape, NoVersions
  <1>3. Versions
    BY <1>1 DEF Init, Versions
  <1>4. Filled
    BY <1>1 DEF Init, Filled, NoVersions, Tables
  <1>5. (\A m \in Mutators : InCall(m) /\ Reading(m)) /\ OneReader
    BY DEF Init, InCall, Reading, OneReader
  <1>7. IdsAreKeys(db["rules"], nextId)
    BY DEF Init, IdsAreKeys, Tables, Empty
  <1>6. CacheIsSnapshot /\ \A p \in Procs, t \in Tables : Covered(p, t)
    BY DEF Init, CacheIsSnapshot, Covered, NoVersions
  <1> QED
    BY <1>2, <1>3, <1>4, <1>5, <1>6, <1>7 DEF IInv

-----------------------------------------------------------------------------
(* Every change is a Commit of a legal content that keeps ids unique. *)
LEMMA MutateCommits ==
  ASSUME Shape, IdsAreKeys(db["rules"], nextId), NEW m \in Mutators, Mutate(m)
  PROVE  \E t \in Tables : \E rows \in Content(t) :
           /\ Commit(m, t, rows)
           /\ nextId' \in Nat
           /\ IdsAreKeys(IF t = "rules" THEN rows ELSE db["rules"], nextId')
  <1> DEFINE Goal(t, rows) ==
        /\ t \in Tables /\ rows \in Content(t)
        /\ Commit(m, t, rows)
        /\ nextId' \in Nat
        /\ IdsAreKeys(IF t = "rules" THEN rows ELSE db["rules"], nextId')
  <1> SUFFICES \E t, rows : Goal(t, rows)
    OBVIOUS
  <1>0. db["rules"] \in SUBSET Rule /\ db["tags"] \in TagMap /\ nextId \in Nat
    BY DEF Shape, Content, Tables
  <1>1. ASSUME NEW data \in RuleData, InsertRule(m, data) PROVE \E t, rows : Goal(t, rows)
    <2> DEFINE new == db["rules"] \cup {[id |-> nextId, data |-> data]}
    <2>1. new \in SUBSET Rule
      BY <1>0 DEF Rule
    <2>2. IdsAreKeys(new, nextId + 1)
      BY <1>0 DEF IdsAreKeys, Rule
    <2> QED
      BY <1>0, <1>1, <2>1, <2>2 DEF InsertRule, Content, Tables
  <1>2. ASSUME NEW id \in Ids, NEW data \in RuleData, UpdateRule(m, id, data)
        PROVE  \E t, rows : Goal(t, rows)
    <2> DEFINE new == {IF r.id = id THEN [id |-> id, data |-> data] ELSE r : r \in db["rules"]}
    <2>1. new \in SUBSET Rule
      BY <1>0, BoundAssumption DEF Rule, Ids
    <2>2. IdsAreKeys(new, nextId)
      BY <1>0 DEF IdsAreKeys, Rule
    <2> QED
      BY <1>0, <1>2, <2>1, <2>2 DEF UpdateRule, Content, Tables
  <1>3. ASSUME NEW rows, rows \subseteq db["rules"], Commit(m, "rules", rows), UNCHANGED nextId
        PROVE  \E t, r : Goal(t, r)
    <2>1. rows \in SUBSET Rule /\ IdsAreKeys(rows, nextId)
      BY <1>0, <1>3 DEF IdsAreKeys
    <2> QED
      BY <1>0, <1>3, <2>1 DEF Content, Tables
  <1>4. ASSUME NEW sld \in Slds, NEW tag \in Tags \cup {None},
               Commit(m, "tags", [db["tags"] EXCEPT ![sld] = tag]), UNCHANGED nextId
        PROVE  \E t, rows : Goal(t, rows)
    <2>1. [db["tags"] EXCEPT ![sld] = tag] \in TagMap
      BY <1>0 DEF TagMap
    <2> QED
      BY <1>0, <1>4, <2>1 DEF Content, Tables
  <1> HIDE DEF Goal
  <1>5. ASSUME NEW id \in Ids, DeleteRule(m, id) PROVE \E t, rows : Goal(t, rows)
    BY <1>3, <1>5 DEF DeleteRule
  <1>6. ASSUME NEW names \in SUBSET Names, DeleteRulesByName(m, names)
        PROVE  \E t, rows : Goal(t, rows)
    BY <1>3, <1>6 DEF DeleteRulesByName
  <1>7. ASSUME NEW sld \in Slds, NEW tag \in Tags, AddDomainTag(m, sld, tag)
        PROVE  \E t, rows : Goal(t, rows)
    BY <1>4, <1>7 DEF AddDomainTag
  <1>8. ASSUME NEW sld \in Slds, DeleteDomainTag(m, sld) PROVE \E t, rows : Goal(t, rows)
    BY <1>4, <1>8 DEF DeleteDomainTag
  <1> QED
    BY <1>1, <1>2, <1>5, <1>6, <1>7, <1>8 DEF Mutate

(* A commit adds one version and keeps the others. *)
LEMMA CommitHistory ==
  ASSUME Shape, NEW m \in Mutators, NEW t \in Tables, NEW rows \in Content(t),
         Commit(m, t, rows)
  PROVE  /\ history' \in [Tables -> Seq(Entry)]
         /\ \A u \in Tables : Latest(u) \in Nat
         /\ \A u \in Tables : Len(history'[u]) = IF u = t THEN Latest(u) + 1 ELSE Latest(u)
         /\ \A u \in Tables : \A v \in 1..Latest(u) : history'[u][v] = history[u][v]
         /\ history'[t][Latest(t) + 1] = [rows |-> rows, by |-> m]
  <1> DEFINE e == [rows |-> rows, by |-> m]
  <1>1. e \in Entry
    BY EmptyContent DEF Entry
  <1>2. history \in [Tables -> Seq(Entry)]
    BY DEF Shape
  <1>3. history' = [history EXCEPT ![t] = Append(@, e)]
    BY DEF Commit
  <1> QED
    BY <1>1, <1>2, <1>3 DEF Latest

LEMMA CommitKeepsIInv ==
  ASSUME IInv, NEW m \in Mutators, NEW t \in Tables, NEW rows \in Content(t),
         Commit(m, t, rows), nextId' \in Nat,
         IdsAreKeys(IF t = "rules" THEN rows ELSE db["rules"], nextId')
  PROVE  IInv'
  <1>0. /\ history' \in [Tables -> Seq(Entry)]
        /\ \A u \in Tables : Latest(u) \in Nat
        /\ \A u \in Tables : Len(history'[u]) = IF u = t THEN Latest(u) + 1 ELSE Latest(u)
        /\ \A u \in Tables : \A v \in 1..Latest(u) : history'[u][v] = history[u][v]
        /\ history'[t][Latest(t) + 1] = [rows |-> rows, by |-> m]
    BY CommitHistory DEF IInv
  <1>1. Shape'
    BY <1>0 DEF IInv, Shape, Commit, views
  <1>2. IdsAreKeys(db["rules"], nextId)'
    BY DEF IInv, Shape, Commit, Tables, IdsAreKeys
  <1>3. Versions'
    <2> SUFFICES ASSUME NEW u \in Tables
                 PROVE  /\ Len(history'[u]) >= 1
                        /\ history'[u][Len(history'[u])].rows = db'[u]
                        /\ \A v \in 2..Len(history'[u]) : history'[u][v].by \in Mutators
                        /\ failed'[u] \subseteq 1..Len(history'[u])
      BY DEF Versions, Latest
    <2>1. /\ Latest(u) >= 1
          /\ history[u][Latest(u)].rows = db[u]
          /\ \A v \in 2..Latest(u) : history[u][v].by \in Mutators
          /\ failed[u] \subseteq 1..Latest(u)
      BY DEF IInv, Versions
    <2>2. db'[u] = IF u = t THEN rows ELSE db[u]
      BY DEF IInv, Shape, Commit
    <2>3. failed' = failed
      BY DEF Commit
    <2>4. CASE u = t
      BY <1>0, <2>1, <2>2, <2>3, <2>4
    <2>5. CASE u # t
      <3>1. Len(history'[u]) = Latest(u) /\ Latest(u) \in 1..Latest(u)
        BY <1>0, <2>1, <2>5
      <3>2. \A v \in 1..Latest(u) : history'[u][v] = history[u][v]
        BY <1>0
      <3> QED
        BY <2>1, <2>2, <2>3, <2>5, <3>1, <3>2
    <2> QED
      BY <2>4, <2>5
  <1>4. Filled'
    BY <1>0 DEF IInv, Filled, Shape, Commit, views, Latest
  <1>5. ASSUME NEW n \in Mutators PROVE InCall(n)' /\ Reading(n)'
    <2>1. InCall(n) /\ Reading(n) /\ InCall(m)
      BY DEF IInv
    <2>2. /\ pc[m] = "idle" /\ proc[Home[m]] = "up" /\ ConnFree(Home[m])
          /\ pc' = [pc EXCEPT ![m] = "reload"] /\ table' = [table EXCEPT ![m] = t]
          /\ wrote' = [wrote EXCEPT ![m] = Latest(t) + 1]
          /\ loaded' = loaded /\ loadedVer' = loadedVer
          /\ proc' = proc /\ cacheVer' = cacheVer /\ cache' = cache
      BY DEF Commit, views
    <2>3. /\ pc \in [Mutators -> {"idle", "reload", "swap"}]
          /\ table \in [Mutators -> Tables \cup {None}]
          /\ wrote \in [Mutators -> Nat] /\ loadedVer \in [Mutators -> Nat]
          /\ cacheVer \in [Procs -> [Tables -> Nat]]
      BY DEF IInv, Shape
    <2>4. CASE n = m
      <3>1. pc'[n] = "reload" /\ table'[n] = t /\ wrote'[n] = Latest(t) + 1 /\ loadedVer'[n] = 0
        BY <2>1, <2>2, <2>3, <2>4 DEF InCall
      <3> QED
        BY <1>0, <2>2, <3>1, <2>4 DEF InCall, Reading, Latest
    <2>5. CASE n # m
      <3>1. pc'[n] = pc[n] /\ table'[n] = table[n] /\ wrote'[n] = wrote[n]
        BY <2>2, <2>3, <2>5
      <3>2. InCall(n)'
        BY <1>0, <2>1, <2>2, <2>3, <3>1 DEF InCall, Latest
      <3>3. ASSUME pc[n] = "swap" PROVE Reading(n)'
        <4>1. Home[n] # Home[m]
          BY <2>2, <3>3 DEF ConnFree
        <4>2. /\ table[n] \in Tables
              /\ loadedVer[n] \in 1..Latest(table[n])
          BY <1>0, <2>1, <2>3, <3>3 DEF InCall, Reading
        <4>3. history'[table[n]][loadedVer[n]] = history[table[n]][loadedVer[n]]
          BY <1>0, <4>2
        <4>4. ASSUME NEW v \in (loadedVer[n] + 1)..Len(history'[table[n]])
              PROVE  Home[history'[table[n]][v].by] # Home[n]
          <5>1. CASE v \in 1..Latest(table[n])
            <6>1. history'[table[n]][v] = history[table[n]][v]
              BY <1>0, <4>2, <5>1
            <6>2. v \in (loadedVer[n] + 1)..Latest(table[n])
              BY <1>0, <4>2, <4>4, <5>1
            <6> QED
              BY <2>1, <3>3, <6>1, <6>2 DEF Reading
          <5>2. CASE v \notin 1..Latest(table[n])
            BY <1>0, <4>1, <4>2, <4>4, <5>2
          <5> QED
            BY <5>1, <5>2
        <4> QED
          BY <2>1, <2>2, <3>1, <3>3, <4>2, <4>3, <4>4 DEF Reading, Latest
      <3> QED
        BY <3>1, <3>2, <3>3 DEF Reading
    <2> QED
      BY <2>4, <2>5
  <1>6. OneReader'
    BY DEF IInv, Shape, OneReader, Commit
  <1>7. CacheIsSnapshot'
    <2> SUFFICES ASSUME NEW p \in Procs, NEW u \in Tables, cacheVer[p][u] > 0
                 PROVE  cache[p][u] \in Loads(u, history'[u][cacheVer[p][u]].rows)
      BY DEF CacheIsSnapshot, Commit, views
    <2>1. cacheVer[p][u] \in 1..Latest(u)
      BY <1>0 DEF IInv, Filled, Shape
    <2> QED
      BY <1>0, <2>1 DEF IInv, CacheIsSnapshot
  <1>8. ASSUME NEW p \in Procs, NEW u \in Tables PROVE Covered(p, u)'
    <2>1. /\ pc[m] = "idle" /\ pc'[m] = "reload" /\ table'[m] = t /\ wrote'[m] = Latest(t) + 1
          /\ \A n \in Mutators \ {m} :
               pc'[n] = pc[n] /\ table'[n] = table[n] /\ wrote'[n] = wrote[n]
          /\ failed' = failed /\ cacheVer' = cacheVer
      BY DEF IInv, Shape, Commit, views
    <2> SUFFICES ASSUME cacheVer[p][u] >= 1,
                        NEW v \in (cacheVer[p][u] + 1)..Len(history'[u]),
                        Home[history'[u][v].by] = p
                 PROVE  \/ v \in failed[u]
                        \/ /\ pc'[history'[u][v].by] # "idle"
                           /\ table'[history'[u][v].by] = u
                           /\ wrote'[history'[u][v].by] = v
      BY <2>1 DEF Covered, Latest
    <2>2. cacheVer[p][u] \in Nat
      BY DEF IInv, Shape
    <2>3. CASE v \in 1..Latest(u)
      <3>1. history'[u][v] = history[u][v] /\ history[u][v].by \in Mutators
        BY <1>0, <2>2, <2>3 DEF IInv, Versions
      <3> QED
        BY <2>1, <2>2, <2>3, <3>1 DEF IInv, Covered
    <2>4. CASE v \notin 1..Latest(u)
      BY <1>0, <2>1, <2>2, <2>4
    <2> QED
      BY <2>3, <2>4
  <1> QED
    BY <1>1, <1>2, <1>3, <1>4, <1>5, <1>6, <1>7, <1>8 DEF IInv

(* While the tables stay as they are, so does what is said of them alone. *)
LEMMA StoreUnchanged ==
  ASSUME IInv, UNCHANGED store
  PROVE  /\ db' = db /\ nextId' = nextId /\ history' = history
         /\ \A u \in Tables : Latest(u) \in Nat /\ Latest(u) = Len(history[u])
         /\ IdsAreKeys(db["rules"], nextId)'
  BY DEF store, IInv, Shape, Latest, IdsAreKeys

LEMMA ReloadReadKeepsIInv ==
  ASSUME IInv, NEW m \in Mutators, ReloadRead(m)
  PROVE  IInv'
  <1>1. /\ db' = db /\ nextId' = nextId /\ history' = history
        /\ \A u \in Tables : Latest(u) \in Nat /\ Latest(u) = Len(history[u])
        /\ IdsAreKeys(db["rules"], nextId)'
    BY StoreUnchanged DEF ReloadRead
  <1>2. /\ pc[m] = "reload" /\ pc' = [pc EXCEPT ![m] = "swap"]
        /\ loadedVer' = [loadedVer EXCEPT ![m] = Latest(table[m])]
        /\ table' = table /\ wrote' = wrote /\ proc' = proc /\ cache' = cache
        /\ cacheVer' = cacheVer /\ failed' = failed /\ ConnFree(Home[m])
    BY DEF ReloadRead, views
  <1>3. /\ InCall(m) /\ table[m] \in Tables
        /\ Shape
    BY <1>2 DEF IInv, InCall
  <1>4. PICK rows \in Loads(table[m], db[table[m]]) : loaded' = [loaded EXCEPT ![m] = rows]
    BY DEF ReloadRead
  <1>5. Shape'
    BY <1>1, <1>2, <1>3, <1>4 DEF Shape
  <1>6. Versions' /\ Filled'
    BY <1>1, <1>2 DEF IInv, Versions, Filled, Latest
  <1>7. ASSUME NEW n \in Mutators PROVE InCall(n)' /\ Reading(n)'
    <2>1. InCall(n) /\ Reading(n)
      BY DEF IInv
    <2>2. CASE n # m
      BY <1>1, <1>2, <1>3, <1>4, <2>1, <2>2 DEF InCall, Reading, Shape, Latest
    <2>3. CASE n = m
      <3>1. /\ pc'[m] = "swap" /\ loadedVer'[m] = Latest(table[m]) /\ loaded'[m] = rows
        BY <1>2, <1>3, <1>4 DEF Shape
      <3>2. /\ Latest(table[m]) >= 1
            /\ history[table[m]][Latest(table[m])].rows = db[table[m]]
        BY <1>3 DEF IInv, Versions
      <3>3. Home[m] \in Procs /\ cacheVer[Home[m]][table[m]] <= Latest(table[m])
        BY <1>3, HomeAssumption DEF IInv, Filled
      <3>4. InCall(m)'
        BY <1>1, <1>2, <1>3, <2>1, <3>1 DEF InCall, Latest
      <3>5. Reading(m)'
        BY <1>1, <1>2, <1>3, <1>4, <3>1, <3>2, <3>3 DEF Reading, Latest
      <3> QED
        BY <2>3, <3>4, <3>5
    <2> QED
      BY <2>2, <2>3
  <1>8. OneReader'
    BY <1>2, <1>3 DEF IInv, Shape, OneReader, ConnFree
  <1>9. CacheIsSnapshot' /\ \A p \in Procs, t \in Tables : Covered(p, t)'
    BY <1>1, <1>2, <1>3 DEF IInv, Shape, CacheIsSnapshot, Covered, Latest
  <1> QED
    BY <1>1, <1>5, <1>6, <1>7, <1>8, <1>9 DEF IInv

LEMMA ReloadSwapKeepsIInv ==
  ASSUME IInv, NEW m \in Mutators, ReloadSwap(m)
  PROVE  IInv'
  <1> DEFINE p == Home[m]
             t == table[m]
  <1>1. /\ db' = db /\ nextId' = nextId /\ history' = history
        /\ \A u \in Tables : Latest(u) \in Nat /\ Latest(u) = Len(history[u])
        /\ IdsAreKeys(db["rules"], nextId)'
    BY StoreUnchanged DEF ReloadSwap
  <1>2. /\ pc[m] = "swap" /\ proc' = proc /\ failed' = failed
        /\ cache' = [cache EXCEPT ![p][t] = loaded[m]]
        /\ cacheVer' = [cacheVer EXCEPT ![p][t] = loadedVer[m]]
    BY DEF ReloadSwap
  <1>3. /\ Shape /\ Reading(m) /\ p \in Procs /\ t \in Tables /\ proc[p] = "up"
        /\ loadedVer[m] \in 1..Latest(t)
    BY <1>1, <1>2, HomeAssumption DEF IInv, InCall, Reading, Shape
  <1>4. /\ pc'[m] = "idle" /\ loadedVer'[m] = 0 /\ wrote'[m] = 0
        /\ \A n \in Mutators \ {m} :
             /\ pc'[n] = pc[n] /\ table'[n] = table[n] /\ loaded'[n] = loaded[n]
             /\ loadedVer'[n] = loadedVer[n] /\ wrote'[n] = wrote[n]
    BY DEF ReloadSwap, Return
  <1>5. /\ cache'[p][t] = loaded[m] /\ cacheVer'[p][t] = loadedVer[m]
        /\ \A q \in Procs, u \in Tables :
             <<q, u>> # <<p, t>> => /\ cache'[q][u] = cache[q][u]
                                   /\ cacheVer'[q][u] = cacheVer[q][u]
    BY <1>2, <1>3 DEF Shape
  <1>6. Shape'
    <2>1. cacheVer' \in [Procs -> [Tables -> Nat]]
      BY <1>1, <1>2, <1>3 DEF Shape
    <2>2. DOMAIN cache' = Procs /\ \A q \in Procs : DOMAIN cache'[q] = Tables
      BY <1>2, <1>3 DEF Shape
    <2> QED
      BY <1>1, <1>2, <1>3, <2>1, <2>2 DEF Shape, ReloadSwap, Return
  <1>7. Versions' /\ Filled'
    BY <1>1, <1>2, <1>3, <1>5 DEF IInv, Versions, Filled, Latest
  <1>8. ASSUME NEW n \in Mutators PROVE InCall(n)' /\ Reading(n)'
    <2>1. CASE n = m
      BY <1>4, <2>1 DEF InCall, Reading
    <2>2. CASE n # m
      <3>1. InCall(n) /\ Reading(n)
        BY DEF IInv
      <3>2. pc[n] = "swap" => Home[n] # p
        BY <1>2, <2>2 DEF IInv, OneReader
      <3>3. pc[n] = "swap" =>
              cacheVer'[Home[n]][table[n]] = cacheVer[Home[n]][table[n]]
        BY <1>5, <3>1, <3>2, HomeAssumption DEF InCall
      <3> QED
        BY <1>1, <1>2, <1>4, <2>2, <3>1, <3>3 DEF InCall, Reading, Latest
    <2> QED
      BY <2>1, <2>2
  <1>9. OneReader'
    BY <1>4 DEF IInv, OneReader
  <1>10. CacheIsSnapshot'
    BY <1>1, <1>2, <1>3, <1>5 DEF IInv, CacheIsSnapshot, Reading
  <1>11. ASSUME NEW q \in Procs, NEW u \in Tables PROVE Covered(q, u)'
    <2>1. CASE q = p /\ u = t
      BY <1>1, <1>2, <1>3, <1>5, <2>1 DEF Covered, Reading, Latest
    <2>2. CASE ~(q = p /\ u = t)
      <3>1. cacheVer'[q][u] = cacheVer[q][u] /\ Covered(q, u)
        BY <1>5, <2>2 DEF IInv
      <3>2. cacheVer[q][u] \in Nat
        BY <1>3 DEF Shape
      <3> SUFFICES ASSUME cacheVer[q][u] >= 1,
                          NEW v \in (cacheVer[q][u] + 1)..Latest(u),
                          Home[history[u][v].by] = q
                   PROVE  \/ v \in failed[u]
                          \/ /\ pc'[history[u][v].by] # "idle"
                             /\ table'[history[u][v].by] = u
                             /\ wrote'[history[u][v].by] = v
        BY <1>1, <1>2, <3>1 DEF Covered, Latest
      <3>3. history[u][v].by \in Mutators
        BY <1>1, <3>2 DEF IInv, Versions
      <3>4. \/ v \in failed[u]
            \/ /\ pc[history[u][v].by] # "idle"
               /\ table[history[u][v].by] = u
               /\ wrote[history[u][v].by] = v
        BY <3>1 DEF Covered
      <3> QED
        BY <1>4, <2>2, <3>3, <3>4
    <2> QED
      BY <2>1, <2>2
  <1> QED
    BY <1>1, <1>6, <1>7, <1>8, <1>9, <1>10, <1>11 DEF IInv

LEMMA ReloadFailsKeepsIInv ==
  ASSUME IInv, NEW m \in Mutators, ReloadFails(m)
  PROVE  IInv'
  <1>1. /\ db' = db /\ nextId' = nextId /\ history' = history
        /\ \A u \in Tables : Latest(u) \in Nat /\ Latest(u) = Len(history[u])
        /\ IdsAreKeys(db["rules"], nextId)'
    BY StoreUnchanged DEF ReloadFails
  <1>2. /\ pc[m] = "reload" /\ proc' = proc /\ cache' = cache /\ cacheVer' = cacheVer
        /\ failed' = [failed EXCEPT ![table[m]] = @ \cup {wrote[m]}]
    BY DEF ReloadFails, views
  <1>3. Shape /\ table[m] \in Tables /\ wrote[m] \in 1..Latest(table[m])
    BY <1>2 DEF IInv, InCall
  <1>4. /\ pc'[m] = "idle" /\ loadedVer'[m] = 0 /\ wrote'[m] = 0
        /\ \A n \in Mutators \ {m} :
             /\ pc'[n] = pc[n] /\ table'[n] = table[n] /\ loaded'[n] = loaded[n]
             /\ loadedVer'[n] = loadedVer[n] /\ wrote'[n] = wrote[n]
    BY DEF ReloadFails, Return
  <1>5. Shape'
    BY <1>1, <1>2, <1>3 DEF Shape, ReloadFails, Return
  <1>6. Versions' /\ Filled'
    BY <1>1, <1>2, <1>3 DEF IInv, Versions, Filled, Latest, Shape
  <1>7. ASSUME NEW n \in Mutators PROVE InCall(n)' /\ Reading(n)'
    BY <1>1, <1>2, <1>4 DEF IInv, InCall, Reading, Latest
  <1>8. OneReader'
    BY <1>4 DEF IInv, OneReader
  <1>9. CacheIsSnapshot'
    BY <1>1, <1>2 DEF IInv, CacheIsSnapshot
  <1>10. ASSUME NEW q \in Procs, NEW u \in Tables PROVE Covered(q, u)'
    <2>1. Covered(q, u) /\ cacheVer[q][u] \in Nat
      BY <1>3 DEF IInv, Shape
    <2> SUFFICES ASSUME cacheVer[q][u] >= 1,
                        NEW v \in (cacheVer[q][u] + 1)..Latest(u),
                        Home[history[u][v].by] = q
                 PROVE  \/ v \in failed'[u]
                        \/ /\ pc'[history[u][v].by] # "idle"
                           /\ table'[history[u][v].by] = u
                           /\ wrote'[history[u][v].by] = v
      BY <1>1, <1>2, <2>1 DEF Covered, Latest
    <2>2. history[u][v].by \in Mutators
      BY <1>1, <2>1 DEF IInv, Versions
    <2>3. \/ v \in failed[u]
          \/ /\ pc[history[u][v].by] # "idle"
             /\ table[history[u][v].by] = u
             /\ wrote[history[u][v].by] = v
      BY <2>1 DEF Covered
    <2> QED
      BY <1>2, <1>3, <1>4, <2>2, <2>3 DEF Shape
  <1> QED
    BY <1>1, <1>5, <1>6, <1>7, <1>8, <1>9, <1>10 DEF IInv

(* Policy::new: while a process is not up, none of its threads is in a call,
   so what it has read is covered until its threads start. *)
LEMMA FillKeepsIInv ==
  ASSUME IInv, NEW p \in Procs, LoadRules(p) \/ LoadTags(p)
  PROVE  IInv'
  <1>1. PICK t \in Tables, from \in {"down", "loading"}, to \in {"loading", "up"} :
          /\ Fill(p, t, from, to)
          /\ t = "rules" => from = "down" /\ to = "loading"
          /\ t = "tags" => from = "loading" /\ to = "up"
    BY DEF LoadRules, LoadTags, Tables
  <1>2. /\ db' = db /\ nextId' = nextId /\ history' = history
        /\ \A u \in Tables : Latest(u) \in Nat /\ Latest(u) = Len(history[u])
        /\ IdsAreKeys(db["rules"], nextId)'
    BY <1>1, StoreUnchanged DEF Fill
  <1>3. PICK rows \in Loads(t, db[t]) : cache' = [cache EXCEPT ![p][t] = rows]
    BY <1>1 DEF Fill
  <1>4. /\ proc[p] = from /\ proc' = [proc EXCEPT ![p] = to] /\ Shape
        /\ cacheVer' = [cacheVer EXCEPT ![p][t] = Latest(t)]
        /\ pc' = pc /\ table' = table /\ loaded' = loaded /\ loadedVer' = loadedVer
        /\ wrote' = wrote /\ failed' = failed
    BY <1>1 DEF Fill, calls, IInv
  <1>5. /\ cache'[p][t] = rows /\ cacheVer'[p][t] = Latest(t) /\ proc'[p] = to
        /\ \A q \in Procs \ {p} : proc'[q] = proc[q]
        /\ \A q \in Procs, u \in Tables :
             <<q, u>> # <<p, t>> => /\ cache'[q][u] = cache[q][u]
                                   /\ cacheVer'[q][u] = cacheVer[q][u]
    BY <1>3, <1>4 DEF Shape
  <1>6. Shape'
    <2>1. cacheVer' \in [Procs -> [Tables -> Nat]]
      BY <1>2, <1>4 DEF Shape
    <2>2. DOMAIN cache' = Procs /\ \A q \in Procs : DOMAIN cache'[q] = Tables
      BY <1>3, <1>4 DEF Shape
    <2> QED
      BY <1>2, <1>4, <2>1, <2>2 DEF Shape
  <1>7. Versions'
    BY <1>2, <1>4 DEF IInv, Versions, Latest
  <1>8. Filled'
    <2>1. Latest(t) >= 1
      BY DEF IInv, Versions
    <2> SUFFICES ASSUME NEW q \in Procs
                 PROVE  /\ \A u \in Tables : cacheVer'[q][u] <= Latest(u)
                        /\ proc'[q] = "up" => \A u \in Tables : cacheVer'[q][u] >= 1
                        /\ proc'[q] = "loading" =>
                             cacheVer'[q]["tags"] = 0 /\ cacheVer'[q]["rules"] >= 1
                        /\ proc'[q] = "down" => \A u \in Tables : cacheVer'[q][u] = 0
      BY <1>2 DEF Filled, Latest
    <2>2. CASE q # p
      <3>1. proc'[q] = proc[q] /\ \A u \in Tables : cacheVer'[q][u] = cacheVer[q][u]
        BY <1>5, <2>2
      <3> QED
        BY <3>1 DEF IInv, Filled, Tables
    <2>3. CASE q = p
      BY <1>1, <1>2, <1>4, <1>5, <2>1, <2>3 DEF IInv, Filled, Tables
    <2> QED
      BY <2>2, <2>3
  <1>9. ASSUME NEW n \in Mutators PROVE InCall(n)' /\ Reading(n)'
    <2>1. InCall(n) /\ Reading(n) /\ Home[n] \in Procs
      BY HomeAssumption DEF IInv
    <2>2. pc[n] # "idle" => Home[n] # p
      BY <1>1, <1>4, <2>1 DEF InCall
    <2> QED
      BY <1>2, <1>4, <1>5, <2>1, <2>2 DEF InCall, Reading, Latest
  <1>10. OneReader'
    BY <1>4 DEF IInv, OneReader
  <1>11. CacheIsSnapshot'
    BY <1>2, <1>3, <1>5 DEF IInv, CacheIsSnapshot, Versions, Latest
  <1>12. ASSUME NEW q \in Procs, NEW u \in Tables PROVE Covered(q, u)'
    <2>1. CASE q = p /\ u = t
      BY <1>2, <1>5, <2>1 DEF Covered, Latest
    <2>2. CASE ~(q = p /\ u = t)
      BY <1>2, <1>4, <1>5, <2>2 DEF IInv, Covered, Latest
    <2> QED
      BY <2>1, <2>2
  <1> QED
    BY <1>2, <1>6, <1>7, <1>8, <1>9, <1>10, <1>11, <1>12 DEF IInv

LEMMA CrashKeepsIInv ==
  ASSUME IInv, NEW p \in Procs, Crash(p)
  PROVE  IInv'
  <1>1. /\ db' = db /\ nextId' = nextId /\ history' = history
        /\ \A u \in Tables : Latest(u) \in Nat /\ Latest(u) = Len(history[u])
        /\ IdsAreKeys(db["rules"], nextId)'
    BY StoreUnchanged DEF Crash
  <1>2. /\ proc' = [proc EXCEPT ![p] = "down"] /\ failed' = failed /\ Shape
        /\ cache' = [cache EXCEPT ![p] = EmptyCache]
        /\ cacheVer' = [cacheVer EXCEPT ![p] = NoVersions]
    BY DEF Crash, IInv
  <1>3. /\ proc'[p] = "down" /\ \A t \in Tables : cacheVer'[p][t] = 0
        /\ \A q \in Procs \ {p} : /\ proc'[q] = proc[q] /\ cache'[q] = cache[q]
                                  /\ cacheVer'[q] = cacheVer[q]
    BY <1>2 DEF Shape, NoVersions
  <1>4. \A n \in Mutators :
          IF Home[n] = p THEN pc'[n] = "idle" /\ loadedVer'[n] = 0 /\ wrote'[n] = 0
          ELSE /\ pc'[n] = pc[n] /\ table'[n] = table[n] /\ loaded'[n] = loaded[n]
               /\ loadedVer'[n] = loadedVer[n] /\ wrote'[n] = wrote[n]
    BY DEF Crash, Return
  <1>5. Shape'
    BY <1>1, <1>2 DEF Shape, Crash, Return, EmptyCache, NoVersions
  <1>6. Versions' /\ Filled'
    BY <1>1, <1>2, <1>3 DEF IInv, Versions, Filled, Latest, Tables
  <1>7. ASSUME NEW n \in Mutators PROVE InCall(n)' /\ Reading(n)'
    BY <1>1, <1>3, <1>4, HomeAssumption DEF IInv, InCall, Reading, Latest
  <1>8. OneReader'
    BY <1>4 DEF IInv, OneReader
  <1>9. CacheIsSnapshot'
    BY <1>1, <1>3 DEF IInv, CacheIsSnapshot
  <1>10. ASSUME NEW q \in Procs, NEW u \in Tables PROVE Covered(q, u)'
    <2>1. CASE q = p
      BY <1>3, <2>1 DEF Covered
    <2>2. CASE q # p
      <3>1. Covered(q, u) /\ cacheVer[q][u] \in Nat /\ cacheVer'[q] = cacheVer[q]
        BY <1>2, <1>3, <2>2 DEF IInv, Shape
      <3>2. ASSUME NEW v \in (cacheVer[q][u] + 1)..Latest(u), cacheVer[q][u] >= 1
            PROVE  history[u][v].by \in Mutators
        BY <1>1, <3>1, <3>2 DEF IInv, Versions
      <3> QED
        BY <1>1, <1>2, <1>4, <2>2, <3>1, <3>2 DEF Covered, Latest
    <2> QED
      BY <2>1, <2>2
  <1> QED
    BY <1>1, <1>5, <1>6, <1>7, <1>8, <1>9, <1>10 DEF IInv

LEMMA StutterKeepsIInv ==
  ASSUME IInv, UNCHANGED vars
  PROVE  IInv'
  BY DEF vars, store, calls, views, IInv, Shape, IdsAreKeys, Versions, Filled, InCall,
         Reading, OneReader, CacheIsSnapshot, Covered, Latest

LEMMA NextKeepsIInv == IInv /\ [Next]_vars => IInv'
  <1> SUFFICES ASSUME IInv, [Next]_vars PROVE IInv'
    OBVIOUS
  <1>1. ASSUME NEW m \in Mutators, Mutate(m) PROVE IInv'
    <2>1. PICK t \in Tables : \E rows \in Content(t) :
            /\ Commit(m, t, rows)
            /\ nextId' \in Nat
            /\ IdsAreKeys(IF t = "rules" THEN rows ELSE db["rules"], nextId')
      BY <1>1, MutateCommits DEF IInv
    <2> QED
      BY <2>1, CommitKeepsIInv
  <1>2. ASSUME NEW m \in Mutators, Reload(m) PROVE IInv'
    BY <1>2, ReloadReadKeepsIInv, ReloadSwapKeepsIInv, ReloadFailsKeepsIInv DEF Reload
  <1>3. ASSUME NEW p \in Procs, Boot(p) PROVE IInv'
    BY <1>3, FillKeepsIInv DEF Boot
  <1>4. ASSUME NEW p \in Procs, Crash(p) PROVE IInv'
    BY <1>4, CrashKeepsIInv
  <1>5. CASE UNCHANGED vars
    BY <1>5, StutterKeepsIInv
  <1> QED
    BY <1>1, <1>2, <1>3, <1>4, <1>5 DEF Next, Finished

-----------------------------------------------------------------------------
LEMMA Inductive == Spec => []IInv
  BY InitIInv, NextKeepsIInv, PTL DEF Spec

(* The types of PolicyStore, among them that rule ids are unique. *)
THEOREM TypeCorrect == Spec => []TypeOK
  <1>1. IInv => TypeOK
    <2> SUFFICES ASSUME IInv PROVE TypeOK
      OBVIOUS
    <2>1. \A m \in Mutators : InCall(m) /\ loadedVer[m] \in Nat /\ wrote[m] \in Nat
      BY DEF IInv, Shape
    <2>2. \A t \in Tables : Latest(t) \in Nat
      BY DEF IInv, Shape, Latest
    <2>3. \A p \in Procs, t \in Tables : cacheVer[p][t] \in 0..Latest(t)
      BY <2>2 DEF IInv, Shape, Filled
    <2> QED
      BY <2>1, <2>2, <2>3 DEF IInv, Shape, Versions, TypeOK, InCall
  <1> QED
    BY <1>1, Inductive, PTL

(* A cache holds one reading of one committed version of its table. *)
THEOREM Snapshot == Spec => []CacheIsSnapshot
  <1>1. IInv => CacheIsSnapshot
    BY DEF IInv
  <1> QED
    BY <1>1, Inductive, PTL

(* No change of a process is missing from the cache it judges by once the
   call that made it has returned without an error. *)
THEOREM NoLostChange == Spec => []NoChangeLost
  <1>1. IInv => NoChangeLost
    BY DEF IInv, Filled, Covered, NoChangeLost
  <1> QED
    BY <1>1, Inductive, PTL

-----------------------------------------------------------------------------
(* PolicyStore implements PublishedTable, once for each table. *)

View(t) == [p \in Procs |-> cacheVer[p][t]]

(* Commit, Start, Publish, Stop or a stutter. *)
Published(t) ==
  \/ Len(history'[t]) = Len(history[t]) + 1 /\ View(t)' = View(t)
  \/ /\ Len(history'[t]) = Len(history[t])
     /\ \/ View(t)' = View(t)
        \/ \E p \in Procs :
             \/ View(t)' = [View(t) EXCEPT ![p] = 0]
             \/ /\ View(t)[p] = 0
                /\ View(t)' = [View(t) EXCEPT ![p] = Len(history[t])]
             \/ /\ View(t)[p] > 0
                /\ \E v \in View(t)[p]..Len(history[t]) : View(t)' = [View(t) EXCEPT ![p] = v]

LEMMA StepPublishes ==
  ASSUME IInv, [Next]_vars, NEW t \in Tables
  PROVE  Published(t)
  <1>0. /\ Shape /\ \A u \in Tables : Latest(u) \in Nat /\ Latest(u) = Len(history[u])
        /\ \A p \in Procs : cacheVer[p][t] \in 0..Latest(t)
    BY DEF IInv, Shape, Filled, Latest
  <1>1. ASSUME NEW m \in Mutators, Mutate(m) PROVE Published(t)
    <2>1. PICK u \in Tables : \E rows \in Content(u) : Commit(m, u, rows)
      BY <1>1, MutateCommits DEF IInv
    <2>2. PICK rows \in Content(u) : Commit(m, u, rows)
      BY <2>1
    <2>3. cacheVer' = cacheVer
      BY <2>2 DEF Commit, views
    <2>4. Len(history'[t]) = IF t = u THEN Latest(t) + 1 ELSE Latest(t)
      BY <1>0, <2>2, CommitHistory
    <2> QED
      BY <1>0, <2>3, <2>4 DEF Published, View
  <1>2. ASSUME NEW m \in Mutators, ReloadSwap(m) PROVE Published(t)
    <2>1. /\ history' = history /\ Home[m] \in Procs /\ table[m] \in Tables
          /\ cacheVer' = [cacheVer EXCEPT ![Home[m]][table[m]] = loadedVer[m]]
          /\ loadedVer[m] \in cacheVer[Home[m]][table[m]]..Latest(table[m])
      BY <1>0, <1>2, HomeAssumption DEF ReloadSwap, store, IInv, InCall, Reading, Shape
    <2>2. CASE table[m] = t
      <3>1. View(t)' = [View(t) EXCEPT ![Home[m]] = loadedVer[m]]
        BY <1>0, <2>1, <2>2 DEF View, Shape
      <3>2. loadedVer[m] \in View(t)[Home[m]]..Len(history[t])
        BY <1>0, <2>1, <2>2 DEF View
      <3>3. proc[Home[m]] = "up"
        BY <1>2 DEF ReloadSwap, IInv, InCall
      <3>4. View(t)[Home[m]] > 0
        BY <1>0, <2>1, <3>3 DEF View, IInv, Filled
      <3> QED
        BY <2>1, <3>1, <3>2, <3>4 DEF Published
    <2>3. CASE table[m] # t
      <3>1. View(t)' = View(t)
        BY <1>0, <2>1, <2>3 DEF View, Shape
      <3> QED
        BY <2>1, <3>1 DEF Published
    <2> QED
      BY <2>2, <2>3
  <1>3. ASSUME NEW p \in Procs, Boot(p) PROVE Published(t)
    <2>1. PICK u \in Tables :
            /\ history' = history /\ cacheVer' = [cacheVer EXCEPT ![p][u] = Latest(u)]
            /\ cacheVer[p][u] = 0
      BY <1>3 DEF Boot, LoadRules, LoadTags, Fill, store, Tables, IInv, Filled
    <2>2. CASE u = t
      <3>1. View(t)' = [View(t) EXCEPT ![p] = Latest(t)]
        BY <1>0, <2>1, <2>2 DEF View, Shape
      <3>2. View(t)[p] = 0 /\ Latest(t) = Len(history[t])
        BY <1>0, <2>1, <2>2 DEF View
      <3> QED
        BY <2>1, <3>1, <3>2 DEF Published
    <2>3. CASE u # t
      <3>1. View(t)' = View(t)
        BY <1>0, <2>1, <2>3 DEF View, Shape
      <3> QED
        BY <2>1, <3>1 DEF Published
    <2> QED
      BY <2>2, <2>3
  <1>4. ASSUME NEW p \in Procs, Crash(p) PROVE Published(t)
    <2>1. history' = history /\ cacheVer' = [cacheVer EXCEPT ![p] = NoVersions]
      BY <1>4 DEF Crash, store
    <2>2. View(t)' = [View(t) EXCEPT ![p] = 0]
      BY <1>0, <2>1 DEF View, Shape, NoVersions
    <2> QED
      BY <2>1, <2>2 DEF Published
  <1>5. CASE history' = history /\ cacheVer' = cacheVer
    BY <1>5 DEF Published, View
  <1> QED
    BY <1>1, <1>2, <1>3, <1>4, <1>5
    DEF Next, Reload, ReloadRead, ReloadFails, Finished, vars, store, views

(* Each process begins with the newest version of the rules, after a crash as
   well, and never goes back to an older one, whatever its threads and other
   processes do. *)
THEOREM RulesImplement == Spec => RulesPublished
  <1>1. Init => RulesTable!Init
    BY DEF Init, RulesTable!Init, Latest, Tables, NoVersions
  <1>2. IInv /\ [Next]_vars => [RulesTable!Next]_<<Latest("rules"), View("rules")>>
    <2> SUFFICES ASSUME IInv, [Next]_vars
                 PROVE  [RulesTable!Next]_<<Latest("rules"), View("rules")>>
      OBVIOUS
    <2>1. Published("rules")
      BY StepPublishes DEF Tables
    <2> QED
      BY <2>1
      DEF Published, View, Latest, RulesTable!Next, RulesTable!Commit, RulesTable!Publish,
          RulesTable!Start, RulesTable!Stop
  <1> QED
    BY <1>1, <1>2, Inductive, PTL DEF Spec, RulesPublished, RulesTable!Spec, View

(* The same for the domain tags. *)
THEOREM TagsImplement == Spec => TagsPublished
  <1>1. Init => TagsTable!Init
    BY DEF Init, TagsTable!Init, Latest, Tables, NoVersions
  <1>2. IInv /\ [Next]_vars => [TagsTable!Next]_<<Latest("tags"), View("tags")>>
    <2> SUFFICES ASSUME IInv, [Next]_vars
                 PROVE  [TagsTable!Next]_<<Latest("tags"), View("tags")>>
      OBVIOUS
    <2>1. Published("tags")
      BY StepPublishes DEF Tables
    <2> QED
      BY <2>1
      DEF Published, View, Latest, TagsTable!Next, TagsTable!Commit, TagsTable!Publish,
          TagsTable!Start, TagsTable!Stop
  <1> QED
    BY <1>1, <1>2, Inductive, PTL DEF Spec, TagsPublished, TagsTable!Spec, View
=============================================================================
