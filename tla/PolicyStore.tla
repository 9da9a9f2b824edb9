----------------------------- MODULE PolicyStore -----------------------------
(***************************************************************************)
(* The policy database and the caches requests are judged by               *)
(* (src/src/policy.rs).                                                    *)
(*                                                                         *)
(* A Policy holds one SQLite connection behind a mutex and two caches,     *)
(* rules_cache and tag_cache, behind read-write locks.  Every change takes *)
(* the mutex, runs one statement and drops the mutex; it then takes the    *)
(* mutex AGAIN to read the whole table and, still holding it, replaces the *)
(* cache.  Other threads run between the two critical sections, and other  *)
(* processes (`serve` and `manage` may be started on the same file) commit *)
(* at any time.  A critical section that only reads or only replaces a     *)
(* cache is one step.                                                      *)
(***************************************************************************)
EXTENDS Integers, Sequences, FiniteSets

CONSTANTS
  Procs,       \* operating-system processes that opened the database
  Mutators,    \* threads that change the policy: the TUI, an API worker
  Home,        \* Home[m]: the process thread m belongs to
  RuleData,    \* values of RuleData; only .priority and .name matter here
  Slds, Tags,  \* second-level domains and tag names
  None,        \* Option::None
  Faults,      \* which failures may happen, of "prepare", "step", "crash"
  MaxCommits   \* bound: versions a table may have

ASSUME HomeAssumption == Home \in [Mutators -> Procs]
ASSUME TagsAssumption == None \notin Tags
ASSUME BoundAssumption == MaxCommits \in Nat

Tables == {"rules", "tags"}

VARIABLES
  db,        \* db[t]: the rows on disk
  nextId,    \* the next AUTOINCREMENT id of table rules
  proc,      \* proc[p]: "down", "loading" (inside Policy::new) or "up"
  cache,     \* cache[p][t]: what p's cache of table t holds
  pc,        \* pc[m]: "idle", "reload" (committed, mutex dropped) or
             \* "swap" (holds the mutex, rows read, cache not yet replaced)
  table,     \* table[m]: the table the call of m changed
  loaded,    \* loaded[m]: the rows m read in its reload
  \* History variables, read by no guard except the bound.
  history,   \* history[t]: every committed version of table t, and by whom
  cacheVer,  \* cacheVer[p][t]: the version cache[p][t] was read from
  loadedVer, \* loadedVer[m]: the version loaded[m] was read from
  wrote,     \* wrote[m]: the version the call of m committed
  failed     \* failed[t]: versions whose writer got an error from its reload

store == <<db, nextId, history>>
calls == <<pc, table, loaded, loadedVer, wrote>>
views == <<proc, cache, cacheVer>>
vars == <<store, calls, views, failed>>

-----------------------------------------------------------------------------
(* Contents of the tables and what a reload makes of them.                 *)

(* A row of table rules. *)
Rule == [id : Nat, data : RuleData]

(* domain_tags has one row per sld (UNIQUE): a partial map. *)
TagMap == [Slds -> Tags \cup {None}]

Content(t) == IF t = "rules" THEN SUBSET Rule ELSE TagMap

(* AUTOINCREMENT: ids below "next" were handed out, each to one row. *)
IdsAreKeys(rows, next) ==
  \A r, s \in rows : r.id < next /\ (r.id = s.id => r = s)

Empty(t) == IF t = "rules" THEN {} ELSE [s \in Slds |-> None]

(* The lists SELECT ... ORDER BY priority ASC may return: equal priorities
   come in an order SQL leaves open. *)
Listings(rows) ==
  {list \in [1..Cardinality(rows) -> rows] :
     /\ {list[i] : i \in DOMAIN list} = rows
     /\ \A i, j \in DOMAIN list :
          i < j => list[i].data.priority <= list[j].data.priority}

(* Rows whose read fails are skipped and the reload still succeeds.  A failed
   step ends the iteration, so a prefix of the listing is left. *)
RuleLoads(rows) ==
  IF "step" \in Faults
  THEN UNION {{SubSeq(list, 1, n) : n \in 0..Len(list)} : list \in Listings(rows)}
  ELSE Listings(rows)

(* filter_map(|r| r.ok()): the rows before the failing step are kept. *)
TagLoads(map) ==
  IF "step" \in Faults
  THEN {[s \in Slds |-> IF s \in kept THEN map[s] ELSE None] : kept \in SUBSET Slds}
  ELSE {map}

Loads(t, rows) == IF t = "rules" THEN RuleLoads(rows) ELSE TagLoads(rows)

(* The caches of a process before Policy::new has filled them. *)
EmptyCache == [t \in Tables |-> IF t = "rules" THEN <<>> ELSE Empty("tags")]
NoVersions == [t \in Tables |-> 0]

(* Mutant: the guard is dropped before the cache is replaced. *)
ConnFree_Dropped(p) == TRUE

(* The connection mutex of p is held only across a reload. *)
ConnFree(p) == \A m \in Mutators : Home[m] = p => pc[m] # "swap"

Latest(t) == Len(history[t])

-----------------------------------------------------------------------------
Init ==
  /\ db = [t \in Tables |-> Empty(t)]
  /\ nextId = 1
  /\ history = [t \in Tables |-> <<[rows |-> Empty(t), by |-> None]>>]
  /\ proc = [p \in Procs |-> "down"]
  /\ cache = [p \in Procs |-> EmptyCache]
  /\ cacheVer = [p \in Procs |-> NoVersions]
  /\ pc = [m \in Mutators |-> "idle"]
  /\ table = [m \in Mutators |-> None]
  /\ loaded = [m \in Mutators |-> <<>>]
  /\ loadedVer = [m \in Mutators |-> 0]
  /\ wrote = [m \in Mutators |-> 0]
  /\ failed = [t \in Tables |-> {}]

-----------------------------------------------------------------------------
(* First critical section of every change: lock, one statement, drop.  When
   the statement fails the call returns its error and nothing changed. *)
Commit(m, t, rows) ==
  /\ pc[m] = "idle"
  /\ proc[Home[m]] = "up"
  /\ ConnFree(Home[m])
  /\ Latest(t) < MaxCommits
  /\ db' = [db EXCEPT ![t] = rows]
  /\ history' = [history EXCEPT ![t] = Append(@, [rows |-> rows, by |-> m])]
  /\ pc' = [pc EXCEPT ![m] = "reload"]
  /\ table' = [table EXCEPT ![m] = t]
  /\ wrote' = [wrote EXCEPT ![m] = Latest(t) + 1]
  /\ UNCHANGED <<loaded, loadedVer, views, failed>>

(* Mutant: a rowid table without AUTOINCREMENT that reuses an id. *)
InsertRule_ReusesId(m, data) ==
  /\ Commit(m, "rules", db["rules"] \cup {[id |-> nextId, data |-> data]})
  /\ UNCHANGED nextId

InsertRule(m, data) ==
  /\ Commit(m, "rules", db["rules"] \cup {[id |-> nextId, data |-> data]})
  /\ nextId' = nextId + 1

(* An id that is no longer there updates no row and is not an error. *)
UpdateRule(m, id, data) ==
  /\ Commit(m, "rules",
       {IF r.id = id THEN [id |-> id, data |-> data] ELSE r : r \in db["rules"]})
  /\ UNCHANGED nextId

DeleteRule(m, id) ==
  /\ Commit(m, "rules", {r \in db["rules"] : r.id # id})
  /\ UNCHANGED nextId

(* DELETE ... WHERE name LIKE pattern: "names" is the set of names the
   pattern matches; a NULL name matches no pattern. *)
DeleteRulesByName(m, names) ==
  /\ Commit(m, "rules", {r \in db["rules"] : r.data.name \notin names})
  /\ UNCHANGED nextId

(* INSERT ... ON CONFLICT(sld) DO UPDATE. *)
AddDomainTag(m, sld, tag) ==
  /\ Commit(m, "tags", [db["tags"] EXCEPT ![sld] = tag])
  /\ UNCHANGED nextId

(* Mutant: ends with reload_cache instead of reload_tag_cache. *)
DeleteDomainTag_WrongReload(m, sld) ==
  /\ pc[m] = "idle"
  /\ proc[Home[m]] = "up"
  /\ ConnFree(Home[m])
  /\ Latest("tags") < MaxCommits
  /\ db' = [db EXCEPT !["tags"] = [@ EXCEPT ![sld] = None]]
  /\ history' = [history EXCEPT !["tags"] = Append(@, [rows |-> db'["tags"], by |-> m])]
  /\ pc' = [pc EXCEPT ![m] = "reload"]
  /\ table' = [table EXCEPT ![m] = "rules"]
  /\ wrote' = [wrote EXCEPT ![m] = Latest("rules")]
  /\ UNCHANGED <<nextId, loaded, loadedVer, views, failed>>

DeleteDomainTag(m, sld) ==
  /\ Commit(m, "tags", [db["tags"] EXCEPT ![sld] = None])
  /\ UNCHANGED nextId

-----------------------------------------------------------------------------
(* The calls of the threads in ms are over, their local variables gone. *)
Return(ms) ==
  /\ pc' = [m \in Mutators |-> IF m \in ms THEN "idle" ELSE pc[m]]
  /\ table' = [m \in Mutators |-> IF m \in ms THEN None ELSE table[m]]
  /\ loaded' = [m \in Mutators |-> IF m \in ms THEN <<>> ELSE loaded[m]]
  /\ loadedVer' = [m \in Mutators |-> IF m \in ms THEN 0 ELSE loadedVer[m]]
  /\ wrote' = [m \in Mutators |-> IF m \in ms THEN 0 ELSE wrote[m]]

(* Second critical section: reload_cache or reload_tag_cache. *)

(* Takes the mutex and reads every row. *)
ReloadRead(m) ==
  /\ pc[m] = "reload"
  /\ ConnFree(Home[m])
  /\ \E rows \in Loads(table[m], db[table[m]]) :
       loaded' = [loaded EXCEPT ![m] = rows]
  /\ loadedVer' = [loadedVer EXCEPT ![m] = Latest(table[m])]
  /\ pc' = [pc EXCEPT ![m] = "swap"]
  /\ UNCHANGED <<table, wrote, store, views, failed>>

(* Mutant: the reload returns without storing what it read. *)
ReloadSwap_NotStored(m) ==
  /\ pc[m] = "swap"
  /\ Return({m})
  /\ UNCHANGED <<store, views, failed>>

(* Mutant: the rows read are merged into the tag cache (`extend`). *)
ReloadSwap_Merges(m) ==
  /\ pc[m] = "swap"
  /\ cache' = [cache EXCEPT ![Home[m]][table[m]] =
                 IF table[m] = "rules" THEN loaded[m]
                 ELSE [s \in Slds |-> IF loaded[m][s] = None THEN @[s] ELSE loaded[m][s]]]
  /\ cacheVer' = [cacheVer EXCEPT ![Home[m]][table[m]] = loadedVer[m]]
  /\ Return({m})
  /\ UNCHANGED <<store, proc, failed>>

(* `*cache = rules`, then both guards are dropped and the call returns Ok. *)
ReloadSwap(m) ==
  /\ pc[m] = "swap"
  /\ cache' = [cache EXCEPT ![Home[m]][table[m]] = loaded[m]]
  /\ cacheVer' = [cacheVer EXCEPT ![Home[m]][table[m]] = loadedVer[m]]
  /\ Return({m})
  /\ UNCHANGED <<store, proc, failed>>

(* conn.prepare fails: `?` returns the error although the change is on disk. *)
ReloadFails(m) ==
  /\ "prepare" \in Faults
  /\ pc[m] = "reload"
  /\ ConnFree(Home[m])
  /\ Return({m})
  /\ failed' = [failed EXCEPT ![table[m]] = @ \cup {wrote[m]}]
  /\ UNCHANGED <<store, views>>

-----------------------------------------------------------------------------
(* Policy::new: reload_cache, then reload_tag_cache, before any other thread
   of the process knows the Policy. *)
Fill(p, t, from, to) ==
  /\ proc[p] = from
  /\ proc' = [proc EXCEPT ![p] = to]
  /\ \E rows \in Loads(t, db[t]) : cache' = [cache EXCEPT ![p][t] = rows]
  /\ cacheVer' = [cacheVer EXCEPT ![p][t] = Latest(t)]
  /\ UNCHANGED <<store, calls, failed>>

(* Mutants: Policy::new without the one reload or the other. *)
LoadRules_Skipped(p) ==
  /\ proc[p] = "down"
  /\ proc' = [proc EXCEPT ![p] = "loading"]
  /\ UNCHANGED <<store, calls, cache, cacheVer, failed>>
LoadTags_Skipped(p) ==
  /\ proc[p] = "loading"
  /\ proc' = [proc EXCEPT ![p] = "up"]
  /\ UNCHANGED <<store, calls, cache, cacheVer, failed>>

LoadRules(p) == Fill(p, "rules", "down", "loading")
LoadTags(p) == Fill(p, "tags", "loading", "up")

(* The process ends at any point: memory is gone, the database is not. *)
Crash(p) ==
  /\ "crash" \in Faults
  /\ proc[p] # "down"
  /\ proc' = [proc EXCEPT ![p] = "down"]
  /\ cache' = [cache EXCEPT ![p] = EmptyCache]
  /\ cacheVer' = [cacheVer EXCEPT ![p] = NoVersions]
  /\ Return({m \in Mutators : Home[m] = p})
  /\ UNCHANGED <<store, failed>>

-----------------------------------------------------------------------------
Ids == 1..MaxCommits
Names == {d.name : d \in RuleData} \ {None}

Mutate(m) ==
  \/ \E data \in RuleData : InsertRule(m, data)
  \/ \E id \in Ids, data \in RuleData : UpdateRule(m, id, data)
  \/ \E id \in Ids : DeleteRule(m, id)
  \/ \E names \in SUBSET Names : DeleteRulesByName(m, names)
  \/ \E sld \in Slds, tag \in Tags : AddDomainTag(m, sld, tag)
  \/ \E sld \in Slds : DeleteDomainTag(m, sld)

Reload(m) == ReloadRead(m) \/ ReloadSwap(m) \/ ReloadFails(m)

Boot(p) == LoadRules(p) \/ LoadTags(p)

(* Every thread is idle and the bound allows no further change. *)
Finished ==
  /\ \A m \in Mutators : pc[m] = "idle"
  /\ \A t \in Tables : Latest(t) = MaxCommits
  /\ \A p \in Procs : proc[p] = "up"
  /\ UNCHANGED vars

Next ==
  \/ \E m \in Mutators : Mutate(m) \/ Reload(m)
  \/ \E p \in Procs : Boot(p) \/ Crash(p)
  \/ Finished

Spec == Init /\ [][Next]_vars

(* A thread that called a change keeps running, and a started process gets
   through Policy::new.  Nobody is obliged to make a change. *)
Fairness ==
  /\ \A m \in Mutators : WF_vars(Reload(m))
  /\ \A p \in Procs : WF_vars(Boot(p))

FairSpec == Spec /\ Fairness

-----------------------------------------------------------------------------
(* Properties. *)

(* Types of the variables; the primary key of rules is one and was handed out
   by AUTOINCREMENT; no version exceeds the number of commits. *)
TypeOK ==
  /\ DOMAIN db = Tables
  /\ \A t \in Tables : db[t] \in Content(t)
  /\ nextId \in Nat
  /\ IdsAreKeys(db["rules"], nextId)
  /\ proc \in [Procs -> {"down", "loading", "up"}]
  /\ pc \in [Mutators -> {"idle", "reload", "swap"}]
  /\ table \in [Mutators -> Tables \cup {None}]
  /\ \A m \in Mutators :
       IF pc[m] = "idle" THEN loadedVer[m] = 0 /\ wrote[m] = 0
       ELSE table[m] \in Tables /\ {loadedVer[m], wrote[m]} \subseteq 0..Latest(table[m])
  /\ \A p \in Procs, t \in Tables : cacheVer[p][t] \in 0..Latest(t)
  /\ \A t \in Tables : failed[t] \subseteq 1..Latest(t)

(* A cache never mixes two versions of its table: it holds one reading of one
   committed version, whatever commits and reloads run at the same time
   (policy.rs:149, the whole cache is replaced under the write lock). *)
CacheIsSnapshot ==
  \A p \in Procs, t \in Tables :
    cacheVer[p][t] > 0 =>
      cache[p][t] \in Loads(t, history[t][cacheVer[p][t]].rows)

(* No change is lost to a race of two reloads: a version that a process wrote
   and does not judge by is either still on its way (its writer has not
   returned) or its reload returned an error.  This is what the mutex held
   across read and replace in reload_cache (policy.rs:108-150) is for. *)
NoChangeLost ==
  \A p \in Procs, t \in Tables :
    proc[p] = "up" =>
      \A v \in (cacheVer[p][t] + 1)..Latest(t) :
        LET writer == history[t][v].by IN
        Home[writer] = p =>
          \/ v \in failed[t]
          \/ pc[writer] # "idle" /\ table[writer] = t /\ wrote[writer] = v

(* Each table with its caches is a PublishedTable: a process begins with the
   newest version of its rules and tags, after a crash as well, never goes back
   to an older one, and never judges by one that was not committed
   (policy.rs:101-102, 108-150). *)
RulesTable == INSTANCE PublishedTable
  WITH latest <- Latest("rules"), view <- [p \in Procs |-> cacheVer[p]["rules"]]
TagsTable == INSTANCE PublishedTable
  WITH latest <- Latest("tags"), view <- [p \in Procs |-> cacheVer[p]["tags"]]
RulesPublished == RulesTable!Spec
TagsPublished == TagsTable!Spec

(* What p's cache of t holds is the whole of one version of t from v on. *)
HasVersion(p, t, v) ==
  \E w \in v..Latest(t) :
    LET rows == history[t][w].rows IN
    cache[p][t] \in IF t = "rules" THEN Listings(rows) ELSE {rows}

(* A committed change takes effect in the process that made it: its cache comes
   to hold every row of that version or of a later one, unless the process ends
   or the call returns an error (policy.rs:174-175).  The reload also returns
   Ok when the reading of a row fails (143-147, 235), and then promises nothing:
   the property is checked without that failure. *)
CommitTakesEffect ==
  \A m \in Mutators, t \in Tables, v \in 2..MaxCommits :
    (pc[m] = "reload" /\ table[m] = t /\ wrote[m] = v)
      ~> \/ HasVersion(Home[m], t, v)
         \/ proc[Home[m]] # "up"
         \/ v \in failed[t]

(* api.rs:86, "Failed to add rule": a change that was answered with an error
   left the table as it was. *)
ErrorMeansUnchanged ==
  \A t \in Tables : \A v \in failed[t] :
    history[t][v].rows = history[t][v - 1].rows
=============================================================================
