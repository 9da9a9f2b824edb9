# Verification of kintate-proxy

kintate-proxy is an HTTP(S) filtering proxy: it judges every request by rules
and tags kept in SQLite, logs what it let through or blocked as sessions, and is
administered by a terminal user interface (TUI) and an HTTP API. The TLA+ modules
here model the parts that hold state together: the policy database and its
caches, the judgement of requests, the access log with its sweeping tasks and
its listing, the TUI, the API and the start and end of the process. TLC checks
them on small instances; TLAPS proves every safety property that the passing runs
check, those about what requests are judged by where no row of a reload fails, for all
values of the constants. Liveness stays with TLC.

Paths such as `policy.rs:149` are relative to `src/src/`.

## 1. The system

| Component | State | Operations | Module |
|---|---|---|---|
| Policy store (`policy.rs`) | tables `rules`, `domain_tags`; `rules_cache`, `tag_cache`; a mutex around the connection | `new`, `insert_rule`, `update_rule`, `delete_rule`, `delete_rules_by_name`, `add_domain_tag`, `delete_domain_tag`, `reload_cache`, `reload_tag_cache` | `PolicyStore` |
| Policy evaluation (`policy.rs`) | none | `evaluate`, `extract_sld`, `get_tag` | `PolicyEval`, `PolicyJudgement` |
| Request handling (`proxy.rs`) | per request, on its worker thread | `handle_request` | `ProxyRequest` |
| Access log (`log.rs`) | `active_sessions` behind a lock; table `access_logs` behind a mutex | `record_access`, `sweep_sessions`, `clear_access_logs`, `get_combined_logs` | `AccessLog`, `CombinedLogs` |
| Start, shutdown, sweeping tasks (`main.rs`, `proxy.rs`) | where `main` stands, the TUI's thread, the API's task, a shutdown channel, two timers | `main`, `PolicyProxy::serve`; limits task (30 s), gc task (60 s) | `Serve`; the tasks in `AccessLog` |
| TUI (`tui_app.rs`) | tab, selections, dialog, form, copies of the tables | `run` and its keys | `Tui` |
| Usage limits (`limit.rs`) | table `limit_rules` | `add_limit`, `delete_limit`, `get_all_limits` | `Tui` (table Limits) |
| HTTP API (`api.rs`) | `AppState` behind one tokio mutex | handlers for rules, tags, logs | `Api`; their changes in `PolicyStore`, as "others" in `Tui`; their listing in `CombinedLogs` |
| API authentication (`auth.rs`, `token.rs`) | table of tokens | `auth_middleware`, `verify`, `generate` | `Api` |
| Search history, error log (`handlers.rs`, `TuiLogger`) | two lists of at most 100 entries | push, cut, clear | `Serve` |
| Block page (`block.html`) | none | | not modelled |

How they interact:

- A `Policy` is cloned into the proxy, the TUI and the API; the clones share one
  connection and both caches. `serve --manage --api-listen` has the TUI on a
  blocking thread, the API and the requests on the runtime's workers. `manage`
  may be started next to it on the same file: two connections, two pairs of
  caches, one database.
- A change takes the mutex for its statement, drops it, and takes it again for
  the reload, which holds it until the cache is replaced.
- A request reads the tag cache, the rules cache and, for the log, the tag cache
  again, each under a lock of its own, then calls `record_access`.
- `record_access` reads the clock, then locks the map. A sweep reads the clock,
  locks the map, moves expired sessions into a local list, unlocks, locks the
  connection and inserts them one by one.
- The listing of the API copies the map, unlocks it, and reads the table under the
  connection mutex; sessions move from one to the other in between.
- `main` spawns the TUI before it has parsed the API's address or bound the port.
  The TUI's thread tells `main` to stop over a oneshot channel; every `?` of `main`
  returns without telling the TUI. Dropping the runtime drops async tasks where
  they await and waits for threads.
- An API request locks `AppState` twice: the middleware to clone the token
  manager, the handler for its whole work. Only `get_limits` (`api.rs:70`), which is
  empty, answers without the second lock.
- The TUI reads tables through the policy and the limit manager and keeps the
  rows it shows until the next refresh.

What is hard here: the gap between commit and reload; two threads whose reloads
overtake each other; failures in the middle (a statement that commits before the
reload fails, rows that are skipped, a batch that is half inserted); requests
that read two caches that change in between; a listing put together from two
places between which sessions move; a mutex that is not reentrant, taken by
middleware and handler; a start that fails halfway with the TUI already on its
thread; a clock that is read outside the
lock; two tasks with different timeouts over the same map; processes that end at
any point; a screen whose rows are older than the tables its keys act on. The
list, line by line, is under `hazards` in `PROJECT.json`.

What makes each component correct:

- *Policy store*: a cache is one reading of one committed version, never goes
  back to an older one, and catches up with every change of its own process.
- *Evaluation*: a rule of least priority number among those that apply decides.
- *Request handling*: decisions are those of committed versions, obey every
  acknowledged change, and never combine a newer tag with older rules than the
  tag's author knew.
- *Access log*: every request is counted exactly once or its session is dropped
  with an error; a sweep never cuts a session that is in use; nothing stays in
  memory for good.
- *Listing*: what was in the map or the table when it began is in it, unless it is full
  or a row could not be read; a session listed twice is the copy of the row it became.
- *Process*: it serves until it is told to stop, and ends when the TUI has quit or
  failed.
- *API*: a token decides, whenever it was generated; nobody waits for good.
- *TUI*: a deletion removes the highlighted row, an edit changes the rule that was
  opened, the screen catches up.

## 2. Modules

    PublishedTable          what a table with caches promises
      ^ implemented by
    PolicyStore ----------- MCPolicyStore, PolicyStoreProofs
      ^ extended by
    ProxyRequest ---------- MCProxyRequest, ProxyRequestProofs   (INSTANCE PolicyEval)
    PolicyEval
      ^ extended by
    PolicyJudgement ------- MCPolicyJudgement, PolicyJudgementProofs
    SessionLedger           what the access log promises
      ^ implemented by
    AccessLog ------------- MCAccessLog, AccessLogProofs
      ^ extended by
    CombinedLogs ---------- MCCombinedLogs, CombinedLogsProofs
    Tui ------------------- MCTui, TuiProofs
    Api
      ^ extended by
    Serve ----------------- MCServe, ServeProofs
    SetInduction            lemmas on finite sets and natural numbers

### PolicyStore

`db`, `nextId` are the database; `cache[p]` the caches of process `p`; `pc[m]`
where thread `m` stands in a change: `"idle"`, `"reload"` (committed, mutex dropped)
or `"swap"` (mutex held, rows read, cache not yet replaced). The connection mutex
is not a variable: it is held across steps only in `"swap"`, so `ConnFree(p)`
says it is free.

| Action | Code |
|---|---|
| `InsertRule`, `UpdateRule`, `DeleteRule`, `DeleteRulesByName`, `AddDomainTag`, `DeleteDomainTag` | the first critical section of the method of that name |
| `ReloadRead`, `ReloadSwap` | `reload_cache` and `reload_tag_cache` up to and from the replacement |
| `ReloadFails` | `prepare` fails and `?` returns its error |
| `LoadRules`, `LoadTags` | `Policy::new` |
| `Crash` | the process ends at any point |

`RuleLoads` and `TagLoads` give what one reading of a table may return: any order
among equal priorities, and, with the fault `"step"`, a part of the rows, since
rows that fail are skipped (`filter_map(|r| r.ok())`, `if let Ok`) and the reload
returns `Ok`. A version that is in a cache may therefore lack rows there, and what is
said of versions is no more than that: `CommitTakesEffect`, `AcknowledgedObeyed` and
`TagsNeverAhead` compare the contents of caches and of what a request read, and are
checked and proved without that fault. The histories
(`history`, `cacheVer`, `loadedVer`, `wrote`, `failed`) number the versions of each
table; no guard reads them but the bound. `delete_rules_by_name` is a public method
that the program itself does not call; it is modelled with the rest.

`PublishedTable` is what others may rely on: a process that starts has the newest
version (`Start`), from then on never an older one (`Publish`), until it ends (`Stop`).

### ProxyRequest

Extends `PolicyStore` with requests. `ReadCache` is one read of a cache inside
`evaluate`, in the order `ReadOrder`; `Answer` is `get_tag`, `record_access` and the
response. `End` is a crash of the process with its requests. The walk over
`rules_cache` is one step: its read lock is held throughout.

### PolicyEval and PolicyJudgement

`PolicyEval` has the operators: `ExtractSld` for `extract_sld`, `Applies` for the
body of the loop, `FirstMatch` for the loop. Host names are sequences of labels
and labels sequences of letters, because `ends_with` and the lengths of labels
matter; an address is the sequence of its parts between colons. Regular
expressions are a relation `Matching` between patterns and paths, with a set
`Invalid` of patterns that do not compile. A host of one label is its own second-level
domain. `PolicyJudgement` runs them on every input: one initial state per list of
rules, tag map and request, one step that judges.

### AccessLog

`active` is `active_sessions`, `saved` the table, `batch[s]` the sessions a sweep took
out and has not inserted yet. `Stamp` and `Record` are the two halves of
`record_access`; `Wake`, `Drain`, `SaveOne`, `SaveFails` are `sweep_sessions`, called by
the tasks `"limits"` (ends with the first error, `unwrap` at `main.rs:279`) and `"gc"`
(logs it and goes on). `Clear` is `clear_access_logs`, a public method nothing in the
program calls at present; the run that includes it shows what it would do. `Exit`
lets running tasks get to their next await, as the runtime does, and `Crash` does
not. A session keeps the set of its requests instead of their number. A name that
is both a tag and a domain shares one session key, as in the code.

### CombinedLogs

Extends `AccessLog` with the one reader there can be, since `get_logs` holds `AppState`.
`CopyActive` is the first block of `get_combined_logs`, `ReadRows` the rest. A listing
changes no state, so it is no variable: `RowsRead(n)` has the sets of rows that
`get_access_logs` may return if it reads the table now, and `Listings(n, rows)` the
listings that `get_combined_logs(n)` makes of one of them; the invariants speak of each.
With `"row_error"` the reading may end at any row, since a row that fails is dropped
and the rest returned as `Ok` (`log.rs:203`). `RowsRead` orders by the text of a local time,
that is by instant plus `Offset`; `Listings` then orders by instant, and its sort is
stable. Ties are open.

Two things a listing does that no property excuses or forbids. Across a change of the
offset the cut by text keeps older rows and loses newer ones (`log.rs:166`). And what a
sweep has taken out of the map and not inserted yet is in neither place, so a
listing misses it; `NothingOverlooked` speaks of what was in the map or the table when
the map was copied.
`Exit` waits for a reader, whose handler does not await after its lock; `Crash` does not.

### Api

`stage[r]` is where a request stands. In the stages of `Awaiting` its task is suspended
and can be dropped (`Drop`: the client has gone, or the runtime ends); in those of
`Busy` a worker thread is inside a synchronous call. `line` is the tokio mutex of
`AppState`: its holder, then the waiters in their order.

| Action | Code |
|---|---|
| `Arrive` | the header is read; without a bearer token the answer is 401 |
| `CloneManager` | `state.lock().await.token_manager.clone()`, the guard dropped with the statement |
| `Verify`, `VerifyFails` | `TokenManager::verify`; an error counts as a wrong token |
| `Extract` | `Path` and `Json`, which may wait for the body or reject it; `get_limits`, which then answers |
| `Enter`, `Finish` | `state.lock().await` of the handler and the rest of it |
| `Generate` | `TokenManager::generate`, by the command `generate-token` |

What a handler does to the policy between `Enter` and `Finish` is in `PolicyStore`.

### Serve

Extends `Api` with the process around it. `main` is where `main()` stands; `tui` and `api`
are the blocking thread and the task it spawned; `holders` says who has an `Arc` of
the shutdown sender: the receiver is ready when something was sent and also when
nobody holds the sender any more (`Told`). `Open`, `SpawnTui`, `SpawnApi`, `Bind` are the
steps of `main` up to `select!`, each with its `?`; `Stop` leaves `select!`; `End` is the
drop of the runtime. `StartTui` includes the case that the runtime is shut down
before a thread took the TUI up. `errors` and `searches` hold numbers instead of
texts, counted since the list was last cleared.

A TUI that panics tells nobody (`PanicTui`): the process goes on serving without it, so
`QuitEndsProcess` is about a TUI that was quit or failed with an error. `End` is the
behaviour of tokio's runtime, taken as it is: it drops tasks where they await and waits
for threads. That no handler is cut between its statement and its reload follows from
that alone, and is assumed, not shown.

### Tui

One turn of `run()` is: draw, read a key, handle it, then end or refresh. The model
has the state when a key is awaited (`phase = "event"`) and after it (`"tail"`);
`NextTurn` is the end of a turn with the drawing of the next. The widget of the active
tab adjusts its selection while it is drawn (`Clamp`, the behaviour of ratatui's
`Table`). `screen` remembers which row was highlighted then.

Rows are a key and a value; for rules the value stands for all five fields of the
form. `Submitted` has the three uses of `submit_form`: a rule is updated by the id that
was opened, a tag or limit is stored under whatever stands in the form's key field,
which takes input although its label says "(Read-only)". An edit also overwrites the
rule's `path_pattern` and `client_ip`, which the form does not show, with `None`
(`tui_app.rs:525-526`); a rule has one value here, so this is left out. A list whose
reading fails is shown as far as it was read, or empty (`Unread`). `NotPressed` is an event
that is no press of a key, after which the loop starts anew without looking at
`should_quit` or the clock. `Fail` is `?` in `run()`; at `tui_app.rs:219` and `241` it skips the
restoration of the terminal, which is no state of the model. `OtherPut` and `OtherDelete` are the API or,
for tags and limits, another process. A call of the policy is one step here: that
its own change is in the cache when it returns is what `PolicyStore` is about.

## 3. Runs

| Run | Configuration | Shows | States, time |
|---|---|---|---|
| `policy_store_serve` | one process, TUI and API, two rules of equal priority, 3 versions per table, failing reloads | snapshots, no lost change, both refinements, every change takes effect | 128 000 states, 60 s |
| `policy_store_faults` | two processes on one file, failing rows, crashes | the same safety across processes and restarts | 541 000 states, 50 s |
| `proxy_request` | one process, one administrator, one request, failing reloads, crashes | decisions, acknowledged changes, tags never ahead, log | 1 310 000 states, 55 s |
| `combined_logs` | two requests, both sweeps, failing inserts and reads, clear, exit, crash and restart, one reader, listings of one and two entries | counting, pauses, durations, refinement, everything saved; what a listing overlooks and doubles | 409 000 states, 60 s |
| `serve` | with and without TUI and API, every failure of the start, two API calls, one token, lists of two entries | stops only when told, ends when the TUI has quit or failed, tokens decide, nobody waits for good, the newest entries kept | 201 000 states, 60 s |
| `policy_eval_rules` | lists of up to 3 of 6 rules, 6 hosts, 9 tag maps | priority order, subdomains | 30 000 states, 3 s |
| `tui` | one rule and one tag at the start, one change by others and one more by anyone, failing reads and changes | deletion, edit, catching up | 615 000 states, 130 s |

Five further runs find a disagreement between the code and what it says, see
section 5.

Bounds and why they are enough:

- *Versions* (`MaxCommits = 3`): the empty table and two changes of each table. A
  race of reloads needs two writers and two versions, an overtaken cache one of
  each; the version a cache holds, the one being read and the latest can all
  differ. Two writers are enough for one to overtake the other.
- *Time* (`MaxStamp = 2`, `MaxNow = 5`): timeouts of 1 and 2 s stand for 30 or 60 minutes and 5
  minutes; only their order and their relation to the pauses matter. Within 5 s
  a session can expire under the shorter timeout only, under both, and be
  followed by another of the same key. `MaxStall = 1` is how long a request may
  wait for the map's lock after reading the clock.
- *Requests*: two, so that one finds, or just misses, the session of the other, and
  two sessions can be in one batch. They are of one session or of two (`Mixes`); the
  domain is spelt otherwise than its key, and comes with and without a tag.
- *Listings*: one and two entries, so that a listing can be cut, and filled up by a
  session that is in it twice. The clocks are set back by 1 at time 1, so the order
  by text differs from that by instant.
- *Process*: two calls are enough for one to hold the mutex, or a place in its line,
  while the other comes, goes or is dropped; one token, generated before, during or
  after a call. Lists of two entries (`Cap`) and up to three free events (`MaxEvents`),
  and more from failures, fill and cut a list.
- *Rules*: six rules use every condition, equal priorities included; lists of
  three leave one rule to win, one to lose to it and one that does not apply.
- *TUI*: a row can be added, changed or removed by others at any key of a dialog
  or form; two rules of equal priority may change places with any refresh.

Deadlock is checked except where the system may stop: `tui` (the user quits, or an
error ends `run()`) and the judgement runs, which end when the request is judged.
`PolicyStore` has `Finished`, which says that all bounds are used up and all is idle;
in `AccessLog` the tasks can always wake up; in `Serve`, `Done` is the end of the process.

Fairness:

- `PolicyStore`: a thread inside a change keeps running and a started process gets
  through `Policy::new` (weak fairness: operating-system threads and mutexes that
  are held only across one reload). Nobody has to make a change, and no process
  has to survive.
- `AccessLog`: requests that read the clock get the lock, both tasks run as long as
  they live (tokio's timers), and time passes.
- `Serve`: `main`, the TUI's thread outside `run()` and worker threads inside a
  synchronous call go on, a waiter whose turn has come gets the mutex, and the
  runtime drops what awaits once `main` has returned. Nobody has to quit the TUI, and
  no client has to send its body.
- `Tui`: the loop goes on without keys, because `poll` has a timeout (weak fairness),
  and the five seconds since the last refresh pass however many turns the
  keyboard causes, so the refresh, possible at the end of every turn, is taken
  again and again (strong fairness). Events that are no presses, after which the loop
  skips the refresh, come with presses and do not go on for good without one. Nobody
  has to press a key.

## 4. Proofs

`PolicyStoreProofs`, for any processes, threads, rules, tags, failures and bound:

- `TypeCorrect`, `Snapshot`, `NoLostChange`: `TypeOK`, `CacheIsSnapshot` and `NoChangeLost` are
  invariants.
- `RulesImplement`, `TagsImplement`: each table with its caches implements
  `PublishedTable`; a process starts with the newest version and never goes back.

They rest on `HomeAssumption` (each thread belongs to a process) and `TagsAssumption`
(None is not a tag). `NoChangeLost` is not inductive: a reload that was read before
the latest commit could overwrite a newer cache. `IInv` adds what the mutex gives:
at most one thread of a process is between read and replacement (`OneReader`), and
for that thread (`Reading`) the cache is no newer than what it read, what it read is
a reading of the version it names, and its own process has committed nothing since.
`Shape`, `IdsAreKeys`, `Versions`, `Filled` and `InCall` say what the variables hold, and `Covered`
is `NoChangeLost` for every filled cache, also before the process is up. There is one
lemma per action; all six changes go through `MutateCommits`, since each is a `Commit`
with some rows. The refinements follow from `IInv` and the fact that a replacement
stores a version that is not older.

`AccessLogProofs`, for any requests, timeouts, failures and bounds (`TimeAssumption`):

- `TypeCorrect`, `NeverForgotten` (`Accounted`), `NeverTwice` (`CountedOnce`), `PauseBetween`
  (`IdleBetweenSessions`), `DurationAlmostRight` (`DurationBounded`).

`IInv` adds to the checked invariants: `Owned`, that the requests of a session were
recorded and are of its key; `Timely`, that no time read lies in the future, no
request waits longer than `MaxStall`, and whatever was taken out of the map (`Frozen`: in
a batch or in the table) has by now been idle for longer than the shorter timeout;
`Apart`, that two frozen sessions of one key are separated by a pause, and a frozen
one lies before the active one. A session that is started or touched later gets a
time at most `MaxStall` old, and so, by `Timely`, one well after every frozen session of
its key: that keeps `Apart`. `Timely` itself holds because the check of `last_access` and
the removal happen under one lock.

`LedgerImplemented` adds that the log implements `SessionLedger`: a recorded request
is counted, a sweep moves, drops or saves sessions without changing what they count,
and only `Clear` clears. `Record` and `Drain` take the most room, since a session that
grows or moves has to be found again among the members of the others.

`CombinedLogsProofs`, for any lengths of listings and any course of the local time
(`ListingAssumption`: the clock's offset is an integer at every time):

- `CombinedImplementsLog`: a listing disturbs nothing, `CombinedSpec => Spec`; hence
  `LogKeptWhileRead`, all of the above while the logs are read.
- `ListingComplete` (`NothingOverlooked`), also where the reading of the table ends early,
  and `DoublesOnlySwept` (`DoublesAreSwept`).

What has to be carried from the copying of the map to the `SELECT` is `CopyKept`:
whatever became of a copied session, it lies within one session of the log, of the same
key, or was lost with an error or a clear; and what was due at the copying is in the
copy, in the table, or lost. `Bounded` makes listings finite, so that "the newest n" exist.

`ProxyRequestProofs`, for any requests, rules and bounds (`ServerAssumption`, and
`RuleAssumption`: a priority is an integer, an action one of two):

- `ProxyImplementsStore`: `ProxySpec` implements `PolicyStore`'s `Spec`, so its theorems hold
  in the proxy, and `IInv` can be used.
- `ProxyTypeCorrect` (`ProxyTypeOK`).
- `Obeyed` (`AcknowledgedObeyed`), `RulesKeepUp` (`TagsNeverAhead`), `Decided`
  (`DecidedByPolicy`) and `Logged` (`LoggedAsJudged`), if `"step"` is not among the
  faults. With it a cache may hold a part of its version (`ReloadRead`), so a request
  need not be judged as the version says; that is what the code does, and the run
  `proxy_request` leaves the fault out too.

`ProxyIInv` links requests to the store: what a process acknowledged is in its cache,
once that is filled (`Acks`, which needs that a thread inside the mutex has read its own
change); the writer of a version of the tags had acknowledged the rules it may rely
on (`Contexts`); a request has read no version newer than the cache and none older than
its process had acknowledged when it came in (`InHand`). `TagsNeverAhead` is part of it:
the rules are read after the tag, and a cache never goes back.

`PolicyJudgementProofs`, for any finite table, tag map and request, and for host names
of any length (`RowAssumption`, `NameAssumption`: priorities are integers, names are
nonempty sequences of labels):

- `LeastPriority` (`LeastPriorityDecides`): the first match in a listing ordered by
  priority has the least priority of all that apply, whatever the order of equals.
- `CoversSubdomains` (`SubdomainsCovered`): the text of `label.domain` ends with a dot
  and the text of `domain`, so a suffix of one is a suffix of the other; `extract_sld`
  looks at no more than the last three labels.

`ServeProofs`, for any calls, tokens and lengths of lists (`NoneAssumption`,
`CapAssumption`):

- `ApiTypeCorrect` (`ApiTypeOK`), `OnlyTokensDecide` (`TokensDecide`), `NewestEntries`
  (`ListsKept`), `ToldToStop` (`StopsOnlyWhenTold`).

`Lined` ties the line of the mutex to the stages: it has every request that waits or
holds, once, and a handler stands at its head. The step that needs work is `Drop`, which
takes a request out of the middle. `Entitlement` is `TokensDecide` for every stage on
the way to a handler. `ListsInv` says outright what the lists hold after n entries.
`ProcessInv` is what the shutdown channel rests on: while the proxy serves, `main` holds a
sender, so nothing but a message of a finished TUI wakes the receiver.

`TuiProofs`, for any names, values and tables at the start (`ValueAssumption`,
`NormalAssumption`, `NoneAssumption`, `StoredAssumption`: a value is a number, None is not a
key, the tables are finite):

- `TuiTypeCorrect` (`TypeOK`), `DeletesHighlighted` (`OnlyHighlightedDeleted`),
  `EditsOpened` (`OnlyOpenedRuleEdited`).

`TuiIInv` has to know that a listing of the rows exists and has exactly them
(`SortedExists`, `ListFacts`), what an open form may hold (`DialogInv`), and `ScreenInv`:
while a key is awaited, the row under the selection is the one that was drawn. A
selection is an index, so this holds only because `refresh_data` runs at the end of a
turn and the next one begins with a drawing; a refresh between drawing and key would
break it. What `OnlyHighlightedDeleted` does not say: the dialog does not remember the
row it was opened on, so a refresh between 'd' and 'y' can put another row under the
selection, and 'y' deletes that one, which is then the one on the screen.

Every invariant named above was checked by TLC on the run's instance before it was
proved. The assumptions are checked by TLC with every run.

Induction: the library's induction rules take an operator as a parameter, which no
installed prover can instantiate. Where induction is needed, `SetInduction` has it in
first-order form: a set of natural numbers that contains 0 and successors contains all
(`NatInSet`), a family of sets that contains the empty set and is closed under adding one
element contains every finite one (`FiniteInSet`), both from the definitions of `Nat` and
of finite sets. The set or family is defined by the statement to be proved. That is
enough for the recursive function behind `FlattenSeq` (the text of a host name), for
rows of greatest or least value, and for the existence of sorted listings.

Only model-checked: liveness, that is `CommitTakesEffect`, `EverySessionSaved`,
`ScreenCatchesUp`, `QuitEndsProcess` and `WaitsEnd`. The prover has no `ENABLED`, so it cannot
use fairness. The five disagreements of section 5 are counterexamples of TLC and need no
proof.

## 5. Where code and words disagree

| Run | Property | What TLC finds |
|---|---|---|
| `policy_store_prepare_fault` | `ErrorMeansUnchanged` | A change whose reload fails is answered "Failed to add rule" (`api.rs:86`) but is in the database and comes into force later. |
| `access_log_long_timeout` | `IdleTimeoutHonoured` | `--session-timeout` (`main.rs:47`) above 300 s has no effect: the proxy's own sweep uses 5 minutes. |
| `access_log_exit` | `SavedBeforeExit` | "Ensure all active sessions are saved to DB before exiting" (`tui_app.rs:268`) stands above code that is commented out; quitting drops them. |
| `policy_eval_ipv6` | `OwnAddressMatches` | "Remove port if present" (`policy.rs:291`) cuts an IPv6 address to its first group. |
| `policy_eval_bad_pattern` | `AllConditionsMatched` | A path pattern that does not compile makes its rule apply to every path. |

## 6. Not modelled, and why

- Enforcement of limits: commented out in `limit.rs` and `main.rs`.
- `extract_domain` and `extract_path`: parsing of URLs; host and path are inputs.
- Upstream requests, certificates, the block page, routes and status codes, the
  layout of the screen: no state that other parts depend on.
- A wall clock that is set back: the model's clock moves forward only, while
  `Local::now()` need not.
- Which query of an address the search history records, and its decoding.
- The commands `manage`, `list`, `generate-token` and `verify-token` as processes of their
  own: `manage` is a process of `PolicyStore` and the loop of `Tui`, `generate-token` the
  action `GenerateToken`; the others read once and end. `logs` prints nothing: its call
  is commented out.
- A task that panics with a lock held: no code under a lock of these modules does
  anything that panics, except by running out of memory.

## 7. Plan

Done, in this order: `PublishedTable`, `PolicyStore`, its proofs, `SessionLedger`,
`AccessLog`, its proofs, `PolicyEval` with `PolicyJudgement`, `ProxyRequest`, `Tui`,
`CombinedLogs`, `Api` with `Serve`.

All safety properties of the passing runs now have their theorems:
`CombinedLogsProofs`, `ProxyRequestProofs`, `PolicyJudgementProofs`, `ServeProofs` and
`TuiProofs` with `SetInduction`, and the refinement of `SessionLedger`.

To come:

1. Theorems that say more than the runs do: that what `PublishedTable` and
   `SessionLedger` promise is itself enough for the properties stated of the detailed
   modules; what `Decided` becomes when rows fail (the decision is that of a
   part of a committed version); `OnlyHighlightedDeleted` under a `Refreshed` that may
   reorder every list.
2. The parts of the liveness properties that are safety: that a thread inside a
   change, or a waiter at the head of the line, has a step to take.
3. `Tui`: the forms' read-only fields and the dialog that clears the access log,
   as runs that compare label and effect.
