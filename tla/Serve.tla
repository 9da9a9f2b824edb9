-------------------------------- MODULE Serve --------------------------------
(***************************************************************************)
(* The life of `kintate-proxy serve` (src/src/main.rs, proxy.rs): start,   *)
(* TUI, API, shutdown, and the two lists they share with the requests.     *)
(*                                                                         *)
(* main spawns the TUI on a blocking thread before it has parsed the API's *)
(* address or bound the proxy's port, and any `?` returns from it.  The    *)
(* TUI tells main to stop over a oneshot channel when run() has returned.  *)
(* When main has returned, the runtime drops every task where it awaits    *)
(* and waits for what is running on a thread, the TUI included.            *)
(***************************************************************************)
EXTENDS Api

CONSTANTS
  Cap,         \* the 100 entries a list is cut to
  MaxEvents,   \* bound: entries logged by the sweeps, searches recorded
  Events       \* which of "open_error", "bind_error", "api_bind_error",
               \* "listener_ends", "tui_error", "tui_panic" happen

ASSUME CapAssumption == Cap \in Nat /\ MaxEvents \in Nat

VARIABLES
  opt,         \* [manage, api]: --manage; --api-listen "none", "good", "bad"
  main,        \* "opening", "opened", "tui_spawned", "api_spawned",
               \* "serving", "returned" or "over"
  tui,         \* "none", "queued", "running", "quit" or "failed" (run() has
               \* returned), "finished" (main was told) or "panicked"
  holders,     \* who holds an Arc of the channel's sender
  sent,        \* () was sent
  listening,   \* the proxy's accept loop runs
  api,         \* "none", "starting", "up" or "down"
  errors,      \* error_logs, oldest first
  searches,    \* search_history, newest first
  \* Histories: entries added to the lists since they were last cleared.
  logged, typed

process == <<main, tui, holders, sent, listening, api>>
lists == <<errors, searches, logged, typed>>
serveVars == <<opt, process, lists, apiVars>>

-----------------------------------------------------------------------------
ServeInit ==
  /\ ApiInit
  /\ opt \in [manage : BOOLEAN, api : {"none", "good", "bad"}]
  /\ main = "opening"
  /\ tui = "none"
  /\ holders = {}
  /\ sent = FALSE
  /\ listening = FALSE
  /\ api = "none"
  /\ errors = <<>> /\ searches = <<>>
  /\ logged = 0 /\ typed = 0

(* Mutant: the list is popped at its end. *)
Pushed_Pop(list, entry) ==
  IF Len(list) = Cap THEN list ELSE Append(list, entry)

(* TuiLogger::on_event: push, and remove(0) above 100 entries. *)
Pushed(list, entry) ==
  LET longer == Append(list, entry) IN
  IF Len(longer) > Cap THEN Tail(longer) ELSE longer

(* An entry is named by its number since the list was cleared. *)
Log ==
  /\ logged' = logged + 1
  /\ errors' = Pushed(errors, logged + 1)
  /\ UNCHANGED <<searches, typed>>

(* GoogleSearchHandler: insert(0), and truncate above 100 entries. *)
Prepended(list, entry) ==
  LET longer == <<entry>> \o list IN
  IF Len(longer) > Cap THEN SubSeq(longer, 1, Cap) ELSE longer

(* The locals of main, the receiver among them, are gone. *)
Return ==
  /\ main' = "returned"
  /\ holders' = holders \ {"main"}
  /\ listening' = FALSE

-----------------------------------------------------------------------------
(* Databases, certificate and the proxy's address. *)
Open ==
  /\ main = "opening"
  /\ \/ main' = "opened" /\ holders' = {"main"} /\ UNCHANGED listening
     \/ "open_error" \in Events /\ Return
  /\ UNCHANGED <<opt, tui, sent, api, lists, apiVars>>

(* Mutant: the sender itself moves into the TUI's closure. *)
SpawnTui_Moves ==
  /\ main = "opened"
  /\ main' = "tui_spawned"
  /\ tui' = IF opt.manage THEN "queued" ELSE "none"
  /\ holders' = IF opt.manage THEN {"tui"} ELSE holders
  /\ UNCHANGED <<opt, sent, listening, api, lists, apiVars>>

SpawnTui ==
  /\ main = "opened"
  /\ main' = "tui_spawned"
  /\ tui' = IF opt.manage THEN "queued" ELSE "none"
  /\ holders' = IF opt.manage THEN holders \cup {"tui"} ELSE holders
  /\ UNCHANGED <<opt, sent, listening, api, lists, apiVars>>

(* An address that does not parse returns with the TUI running already. *)
SpawnApi ==
  /\ main = "tui_spawned"
  /\ \/ opt.api # "bad" /\ main' = "api_spawned" /\ UNCHANGED <<holders, listening>>
     \/ opt.api = "bad" /\ Return
  /\ api' = IF opt.api = "good" THEN "starting" ELSE api
  /\ UNCHANGED <<opt, tui, sent, lists, apiVars>>

Bind ==
  /\ main = "api_spawned"
  /\ \/ main' = "serving" /\ listening' = TRUE /\ UNCHANGED holders
     \/ "bind_error" \in Events /\ Return
  /\ UNCHANGED <<opt, tui, sent, api, lists, apiVars>>

ListenerEnds ==
  /\ "listener_ends" \in Events
  /\ main = "serving"
  /\ listening' = FALSE
  /\ UNCHANGED <<opt, main, tui, holders, sent, api, lists, apiVars>>

(* A receiver is ready when something was sent, and also when no sender is
   left; select! asks for no more. *)
Told == sent \/ holders = {}

Stop ==
  /\ main = "serving"
  /\ ~ listening \/ Told
  /\ Return
  /\ UNCHANGED <<opt, tui, sent, api, lists, apiVars>>

(* The runtime is gone: the API's task is dropped with the others. *)
End ==
  /\ main = "returned"
  /\ tui \in {"none", "finished", "panicked"}
  /\ \A r \in Calls : stage[r] \in {"new"} \cup Ended
  /\ main' = "over"
  /\ UNCHANGED <<opt, tui, holders, sent, listening, api, lists, apiVars>>

-----------------------------------------------------------------------------
(* The blocking pool starts the TUI, or drops it when the runtime shuts down
   before any thread took it up. *)
StartTui ==
  /\ tui = "queued"
  /\ \/ tui' = "running" /\ UNCHANGED holders
     \/ main = "returned" /\ tui' = "finished" /\ holders' = holders \ {"tui"}
  /\ UNCHANGED <<opt, main, sent, listening, api, lists, apiVars>>

Quit ==
  /\ tui = "running"
  /\ tui' = "quit"
  /\ UNCHANGED <<opt, main, holders, sent, listening, api, lists, apiVars>>

(* run() returns an error, which is logged. *)
FailTui ==
  /\ "tui_error" \in Events
  /\ tui = "running"
  /\ tui' = "failed"
  /\ Log
  /\ UNCHANGED <<opt, main, holders, sent, listening, api, apiVars>>

(* Nobody joins the TUI's thread: a panic sends nothing. *)
PanicTui ==
  /\ "tui_panic" \in Events
  /\ tui = "running"
  /\ tui' = "panicked"
  /\ holders' = holders \ {"tui"}
  /\ UNCHANGED <<opt, main, sent, listening, api, lists, apiVars>>

(* Mutant: the signal is sent only when run() returned Ok. *)
Tell_WhenOk ==
  /\ tui \in {"quit", "failed"}
  /\ tui' = "finished"
  /\ holders' = holders \ {"tui"}
  /\ sent' = (tui = "quit")
  /\ UNCHANGED <<opt, main, listening, api, lists, apiVars>>

(* The channel is told, in vain if main has returned, and the closure ends. *)
Tell ==
  /\ tui \in {"quit", "failed"}
  /\ tui' = "finished"
  /\ holders' = holders \ {"tui"}
  /\ sent' = TRUE
  /\ UNCHANGED <<opt, main, listening, api, lists, apiVars>>

Clear ==
  /\ tui = "running"
  /\ \/ errors' = <<>> /\ logged' = 0 /\ UNCHANGED <<searches, typed>>
     \/ searches' = <<>> /\ typed' = 0 /\ UNCHANGED <<errors, logged>>
  /\ UNCHANGED <<opt, process, apiVars>>

-----------------------------------------------------------------------------
(* serve_api binds its port; its error is logged and the proxy goes on. *)
StartApi ==
  /\ api = "starting"
  /\ \/ main \notin {"returned", "over"} /\ api' = "up" /\ UNCHANGED lists
     \/ "api_bind_error" \in Events /\ api' = "down" /\ Log
     \/ main = "returned" /\ api' = "down" /\ UNCHANGED lists
  /\ UNCHANGED <<opt, main, tui, holders, sent, listening, apiVars>>

Alive == main # "over"

Receive(r) ==
  /\ api = "up"
  /\ main \notin {"returned", "over"}
  /\ Arrive(r)
  /\ UNCHANGED <<opt, process, lists>>

Step(r) ==
  /\ Alive
  /\ CloneManager(r) \/ Verify(r) \/ VerifyFails(r) \/ Extract(r) \/ Enter(r) \/ Finish(r, "ok")
  /\ UNCHANGED <<opt, process, lists>>

HandlerFails(r) ==
  /\ "handler" \in ApiFaults
  /\ Finish(r, "error")
  /\ Log
  /\ UNCHANGED <<opt, process>>

Disconnect(r) ==
  /\ Alive
  /\ Drop(r)
  /\ UNCHANGED <<opt, process, lists>>

GenerateToken(t) ==
  /\ Generate(t)
  /\ UNCHANGED <<opt, process, lists>>

(* A proxied request whose address has a search in it; other requests add
   nothing.  A connection outlives the accept loop until the runtime ends. *)
Search ==
  /\ main \in {"serving", "returned"}
  /\ typed < MaxEvents
  /\ typed' = typed + 1
  /\ searches' = Prepended(searches, typed + 1)
  /\ UNCHANGED <<opt, process, errors, logged, apiVars>>

(* A sweep fails, or a library logs an error. *)
Complain ==
  /\ Alive
  /\ logged < MaxEvents
  /\ Log
  /\ UNCHANGED <<opt, process, apiVars>>

(* The process has ended; only tokens may still be made. *)
Done ==
  /\ main = "over"
  /\ UNCHANGED serveVars

-----------------------------------------------------------------------------
MainNext == Open \/ SpawnTui \/ SpawnApi \/ Bind \/ Stop \/ End

ServeNext ==
  \/ MainNext \/ ListenerEnds
  \/ StartTui \/ Quit \/ FailTui \/ PanicTui \/ Tell \/ Clear
  \/ StartApi
  \/ \E r \in Calls : Receive(r) \/ Step(r) \/ HandlerFails(r) \/ Disconnect(r)
  \/ \E t \in Tokens : GenerateToken(t)
  \/ Search \/ Complain
  \/ Done

(* Threads and tasks that are not waiting for a user or a client go on, and
   the runtime drops what awaits when main has returned. *)
ServeFairness ==
  /\ WF_serveVars(MainNext)
  /\ WF_serveVars(StartTui \/ Tell)
  /\ WF_serveVars(StartApi)
  /\ \A r \in Calls : WF_serveVars(Alive /\ Advance(r) /\ UNCHANGED <<opt, process, lists>>)
  /\ \A r \in Calls : WF_serveVars(main = "returned" /\ Disconnect(r))

ServeSpec == ServeInit /\ [][ServeNext]_serveVars /\ ServeFairness

-----------------------------------------------------------------------------
(* Properties. *)

(* The proxy stops serving only when its listener has ended or a TUI that was
   started has ended by itself: not for want of a TUI, and not because it
   panicked (main.rs:225 keeps a sender; proxy.rs:83). *)
StopsOnlyWhenTold ==
  [][main = "serving" /\ main' # "serving" =>
       ~ listening \/ (opt.manage /\ tui = "finished")]_serveVars

(* Whoever quits the TUI, or loses it to an error, gets the shell back: the
   process ends, whatever start-up or requests were in progress. *)
QuitEndsProcess == tui \in {"quit", "failed"} ~> main = "over"

(* The error log holds the newest entries since it was last cleared, in order,
   and the search history likewise, newest first. *)
Newest(n) == IF n < Cap THEN n ELSE Cap

ListsKept ==
  /\ errors = [i \in 1..Newest(logged) |-> logged - Newest(logged) + i]
  /\ searches = [i \in 1..Newest(typed) |-> typed + 1 - i]
=============================================================================
