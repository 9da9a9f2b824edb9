------------------------------ MODULE AccessLog ------------------------------
(***************************************************************************)
(* The access log (src/src/log.rs) and the two tasks that sweep it.        *)
(*                                                                         *)
(* Every proxied request is counted in a session kept in memory, one per   *)
(* device, name and action.  Two tasks move sessions that have been idle   *)
(* to the access_logs table: the limits task of main.rs every 30 s with    *)
(* the configured timeout, and the task PolicyProxy::serve starts every    *)
(* 60 s with a timeout of 5 minutes.  Requests run on the worker threads   *)
(* of the runtime, next to each other and to the sweeps.                   *)
(*                                                                         *)
(* Time is counted in whole seconds, as num_seconds() does.                *)
(***************************************************************************)
EXTENDS Integers, Sequences, FiniteSets, Functions

CONSTANTS
  Requests,        \* requests, each recorded at most once
  Accesses,        \* what is recorded of one: [device, domain, tag, action]
  Lower,           \* Lower[d]: the lower-case form of domain d
  SessionTimeout,  \* --session-timeout, the limits task's argument
  GcTimeout,       \* the 5 * 60 of PolicyProxy::serve
  Events,          \* which of "save_error", "crash", "exit", "clear" happen,
                   \* and in CombinedLogs "row_error"
  MaxStall,        \* bound: age of a request's time stamp when it is recorded
  MaxStamp,        \* bound: requests arrive up to this time
  MaxNow,          \* bound: the clock stops here
  None             \* Option::None

ASSUME TimeAssumption ==
  {SessionTimeout, GcTimeout, MaxStall, MaxStamp, MaxNow} \subseteq Nat

Sweepers == {"limits", "gc"}

Timeout(s) == IF s = "limits" THEN SessionTimeout ELSE GcTimeout

MinTimeout == IF SessionTimeout < GcTimeout THEN SessionTimeout ELSE GcTimeout

VARIABLES
  now,      \* Local::now(), in seconds
  up,       \* the process runs
  state,    \* state[r]: "ready", "stamped" (time read, map not yet locked),
            \* "recorded", or "gone" (the process ended first)
  at,       \* at[r]: the time read for r
  access,   \* access[r]: what is recorded of r
  active,   \* active_sessions: session key -> session
  phase,    \* phase[s]: "asleep", "stamped" (time read), "drained" (sessions
            \* taken out), "saving" (holds the connection) or "dead"
  stamp,    \* stamp[s]: the time sweep s read
  batch,    \* batch[s]: expired_sessions still to be inserted
  saved,    \* table access_logs
  lost      \* history: recorded requests that no session or row counts

requests == <<state, at, access>>
sweeps == <<phase, stamp, batch>>
vars == <<now, up, requests, active, sweeps, saved, lost>>

-----------------------------------------------------------------------------
(* The key is device|name|action; neither an address nor an action contains
   the separator, so it is a triple.  The name is the tag, if there is one. *)
KeyOf(a) == <<a.device, IF a.tag # None THEN a.tag ELSE Lower[a.domain], a.action>>

Keys == {KeyOf(a) : a \in Accesses}

(* device_ip, target_domain and action of a session are those of its key;
   request_count is the number of its reqs. *)
Session ==
  [key : Keys, tag : {a.tag : a \in Accesses}, first : Nat, last : Nat,
   reqs : SUBSET Requests]

Members(sessions) == UNION {b.reqs : b \in sessions}

Batches == UNION {batch[s] : s \in Sweepers}

-----------------------------------------------------------------------------
Init ==
  /\ now = 0
  /\ up = TRUE
  /\ state = [r \in Requests |-> "ready"]
  /\ at = [r \in Requests |-> 0]
  /\ access \in [Requests -> Accesses]
  /\ active = [k \in {} |-> k]
  /\ phase = [s \in Sweepers |-> "asleep"]
  /\ stamp = [s \in Sweepers |-> 0]
  /\ batch = [s \in Sweepers |-> {}]
  /\ saved = <<>>
  /\ lost = {}

-----------------------------------------------------------------------------
(* record_access: the time is read before the map is locked. *)
Stamp(r) ==
  /\ up
  /\ state[r] = "ready"
  /\ now <= MaxStamp
  /\ state' = [state EXCEPT ![r] = "stamped"]
  /\ at' = [at EXCEPT ![r] = now]
  /\ UNCHANGED <<now, up, access, active, sweeps, saved, lost>>

(* Mutant: target_domain and the key keep the domain's spelling apart. *)
NewSession_RawDomain(r) ==
  [key |-> <<access[r].device, access[r].domain, access[r].action>>,
   tag |-> access[r].tag, first |-> at[r], last |-> at[r], reqs |-> {r}]

NewSession(r) ==
  [key |-> KeyOf(access[r]), tag |-> access[r].tag,
   first |-> at[r], last |-> at[r], reqs |-> {r}]

(* Mutants: the count starts again; the wrong end of the span is moved. *)
Touch_Restarts(session, r) ==
  [session EXCEPT !.last = at[r], !.reqs = {r}]
Touch_MovesFirst(session, r) ==
  [session EXCEPT !.first = at[r], !.reqs = @ \cup {r}]

(* An existing session keeps its tag and first_access. *)
Touch(session, r) ==
  [session EXCEPT !.last = at[r], !.reqs = @ \cup {r}]

Record(r) ==
  /\ up
  /\ state[r] = "stamped"
  /\ state' = [state EXCEPT ![r] = "recorded"]
  /\ LET key == KeyOf(access[r]) IN
     active' = [k \in DOMAIN active \cup {key} |->
                 IF k # key THEN active[k]
                 ELSE IF k \in DOMAIN active THEN Touch(active[k], r)
                 ELSE NewSession(r)]
  /\ UNCHANGED <<now, up, at, access, sweeps, saved, lost>>

-----------------------------------------------------------------------------
(* A task's sleep ends and sweep_sessions reads the time. *)
Wake(s) ==
  /\ up
  /\ phase[s] = "asleep"
  /\ phase' = [phase EXCEPT ![s] = "stamped"]
  /\ stamp' = [stamp EXCEPT ![s] = now]
  /\ UNCHANGED <<now, up, requests, active, batch, saved, lost>>

(* Mutant: the comparison is turned round. *)
Expired_Recent(s) == {k \in DOMAIN active : stamp[s] - active[k].last <= Timeout(s)}

Expired(s) == {k \in DOMAIN active : stamp[s] - active[k].last > Timeout(s)}

(* Mutants: the map is emptied (`drain`); the sessions are only copied. *)
Drain_All(s) ==
  /\ phase[s] = "stamped"
  /\ active' = [k \in {} |-> k]
  /\ batch' = [batch EXCEPT ![s] = {active[k] : k \in Expired(s)}]
  /\ phase' = [phase EXCEPT ![s] = IF Expired(s) = {} THEN "asleep" ELSE "drained"]
  /\ UNCHANGED <<now, up, requests, stamp, saved, lost>>
Drain_Copies(s) ==
  /\ phase[s] = "stamped"
  /\ batch' = [batch EXCEPT ![s] = {active[k] : k \in Expired(s)}]
  /\ phase' = [phase EXCEPT ![s] = IF Expired(s) = {} THEN "asleep" ELSE "drained"]
  /\ UNCHANGED <<now, up, requests, active, stamp, saved, lost>>

(* With the map locked, the expired sessions are taken out of it. *)
Drain(s) ==
  /\ phase[s] = "stamped"
  /\ active' = [k \in DOMAIN active \ Expired(s) |-> active[k]]
  /\ batch' = [batch EXCEPT ![s] = {active[k] : k \in Expired(s)}]
  /\ phase' = [phase EXCEPT ![s] = IF Expired(s) = {} THEN "asleep" ELSE "drained"]
  /\ UNCHANGED <<now, up, requests, stamp, saved, lost>>

(* The connection mutex is held from the first insert to the last. *)
HasConn(s) ==
  /\ phase[s] \in {"drained", "saving"}
  /\ \A t \in Sweepers \ {s} : phase[t] # "saving"

(* One INSERT, committed by itself; the map's order decides which is next. *)
SaveOne(s) ==
  /\ HasConn(s)
  /\ \E b \in batch[s] :
       /\ saved' = Append(saved, b)
       /\ batch' = [batch EXCEPT ![s] = @ \ {b}]
       /\ phase' = [phase EXCEPT ![s] = IF batch[s] = {b} THEN "asleep" ELSE "saving"]
  /\ UNCHANGED <<now, up, requests, active, stamp, lost>>

(* Mutant: the error is unwrapped while the connection is locked, and the task
   that dies takes the connection with it. *)
SaveFails_Poisons(s) ==
  /\ "save_error" \in Events
  /\ HasConn(s)
  /\ lost' = lost \cup Members(batch[s])
  /\ batch' = [batch EXCEPT ![s] = {}]
  /\ phase' = [phase EXCEPT ![s] = "saving"]
  /\ UNCHANGED <<now, up, requests, active, stamp, saved>>

(* An INSERT fails: `?` leaves the loop and drops the rest of the batch.  The
   limits task unwraps the error and ends; the other logs it and goes on. *)
SaveFails(s) ==
  /\ "save_error" \in Events
  /\ HasConn(s)
  /\ lost' = lost \cup Members(batch[s])
  /\ batch' = [batch EXCEPT ![s] = {}]
  /\ phase' = [phase EXCEPT ![s] = IF s = "limits" THEN "dead" ELSE "asleep"]
  /\ UNCHANGED <<now, up, requests, active, stamp, saved>>

(* clear_access_logs: DELETE, then clear() on the map, all under the
   connection mutex, so no INSERT comes between the two. *)
Clear ==
  /\ "clear" \in Events
  /\ up
  /\ \A s \in Sweepers : phase[s] # "saving"
  /\ saved' = <<>>
  /\ active' = [k \in {} |-> k]
  /\ lost' = lost \cup Members(Range(saved) \cup Range(active))
  /\ UNCHANGED <<now, up, requests, sweeps>>

-----------------------------------------------------------------------------
(* The process ends; only the database is left. *)
Stop ==
  /\ up
  /\ up' = FALSE
  /\ state' = [r \in Requests |-> IF state[r] = "stamped" THEN "gone" ELSE state[r]]
  /\ active' = [k \in {} |-> k]
  /\ batch' = [s \in Sweepers |-> {}]
  /\ phase' = [s \in Sweepers |-> "asleep"]
  /\ lost' = lost \cup Members(Range(active) \cup Batches)
  /\ UNCHANGED <<now, at, access, stamp, saved>>

(* The TUI quits or the listener ends: main returns, and the runtime lets
   every task run to its next await, which no sweep or record contains. *)
Exit ==
  /\ "exit" \in Events
  /\ \A s \in Sweepers : phase[s] \in {"asleep", "dead"}
  /\ \A r \in Requests : state[r] # "stamped"
  /\ Stop

Crash == "crash" \in Events /\ Stop

Restart ==
  /\ ~up
  /\ up' = TRUE
  /\ UNCHANGED <<now, requests, active, sweeps, saved, lost>>

(* Bounds: the clock stops at MaxNow, and no request waits longer than
   MaxStall for the map's lock, which is held only for in-memory work. *)
Tick ==
  /\ now < MaxNow
  /\ \A r \in Requests : state[r] = "stamped" => now - at[r] < MaxStall
  /\ now' = now + 1
  /\ UNCHANGED <<up, requests, active, sweeps, saved, lost>>

-----------------------------------------------------------------------------
Request(r) == Stamp(r) \/ Record(r)
Sweep(s) == Wake(s) \/ Drain(s) \/ SaveOne(s) \/ SaveFails(s)

Next ==
  \/ \E r \in Requests : Request(r)
  \/ \E s \in Sweepers : Sweep(s)
  \/ Clear
  \/ Exit \/ Crash \/ Restart
  \/ Tick

Spec == Init /\ [][Next]_vars

(* A request that read the time gets the lock, the sweeping tasks run as long
   as they live, and time passes.  Nobody has to send a request. *)
Fairness ==
  /\ \A r \in Requests : WF_vars(Record(r))
  /\ \A s \in Sweepers : WF_vars(Wake(s) \/ Drain(s) \/ SaveOne(s))
  /\ WF_vars(Tick)

-----------------------------------------------------------------------------
(* Properties. *)

Sessions == Range(active) \cup Batches \cup Range(saved)

(* Types of the variables, and what a phase says of the batch. *)
TypeOK ==
  /\ now \in Nat /\ up \in BOOLEAN
  /\ state \in [Requests -> {"ready", "stamped", "recorded", "gone"}]
  /\ at \in [Requests -> Nat]
  /\ access \in [Requests -> Accesses]
  /\ DOMAIN active \subseteq Keys
  /\ \A k \in DOMAIN active : active[k] \in Session /\ active[k].key = k
  /\ phase \in [Sweepers -> {"asleep", "stamped", "drained", "saving", "dead"}]
  /\ stamp \in [Sweepers -> Nat]
  /\ batch \in [Sweepers -> SUBSET Session]
  /\ \A s \in Sweepers : phase[s] \in {"drained", "saving"} <=> batch[s] # {}
  /\ saved \in Seq(Session)
  /\ lost \subseteq Requests

(* Every recorded request is counted, in a session of its own device, name and
   action, until an error, an exit or a clear drops that session: no
   interleaving of record_access with the sweeps makes one disappear. *)
Accounted ==
  \A r \in Requests :
    state[r] = "recorded" =>
      \/ r \in lost
      \/ \E b \in Sessions : r \in b.reqs /\ b.key = KeyOf(access[r])

(* No request is counted twice: not by two sessions, not in memory and in the
   table, not in two rows, and not after its session was dropped. *)
CountedOnce ==
  /\ \A a, b \in Sessions : a # b => a.reqs \cap b.reqs = {}
  /\ \A b \in Sessions : b.reqs \cap lost = {}
  /\ \A i, j \in DOMAIN saved : i # j => saved[i] # saved[j]
  /\ \A s, t \in Sweepers : s # t => batch[s] \cap batch[t] = {}
  /\ Range(active) \cap Batches = {}
  /\ (Range(active) \cup Batches) \cap Range(saved) = {}

(* Two sessions of the same device, name and action are separated by a pause
   that is longer than the shorter of the two timeouts, up to the time a
   request may wait for the lock: a sweep never cuts a session in two that
   was in use (log.rs:112, the check and the removal under one lock). *)
Before(a, b) == b.first - a.last > MinTimeout - MaxStall

IdleBetweenSessions ==
  \A a, b \in Sessions : a # b /\ a.key = b.key => Before(a, b) \/ Before(b, a)

(* last_access never lies before first_access by more than a request may wait
   for the lock, so a session's duration is right up to that. *)
DurationBounded ==
  \A b \in Sessions : b.first - b.last <= MaxStall

(* The log counts requests as SessionLedger does. *)
Groups(sessions) == {b.reqs : b \in sessions}
Ledger == INSTANCE SessionLedger
  WITH open <- Groups(Range(active) \cup Batches),
       rows <- [i \in DOMAIN saved |-> saved[i].reqs],
       dropped <- lost
LedgerKept == Ledger!Spec

(* Every recorded request gets into the table or is lost with an error or the
   process; it does not stay in memory for good, even after the limits task
   has died of an error (main.rs:279). *)
EverySessionSaved ==
  \A r \in Requests :
    (state[r] = "recorded") ~> (r \in lost \cup Members(Range(saved)))

(* main.rs:47, "Idle timeout for session aggregation in seconds": what a sweep
   takes out has been idle for longer than the configured timeout. *)
IdleTimeoutHonoured ==
  \A s \in Sweepers : \A b \in batch[s] : stamp[s] - b.last > SessionTimeout

(* tui_app.rs:268, "Ensure all active sessions are saved to DB before
   exiting": an exit loses no session. *)
SavedBeforeExit == ~up => lost = {}
=============================================================================
