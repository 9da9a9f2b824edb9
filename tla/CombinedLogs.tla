---------------------------- MODULE CombinedLogs ----------------------------
(***************************************************************************)
(* The listing of the access log (get_combined_logs in src/src/log.rs)     *)
(* next to requests and sweeps.                                            *)
(*                                                                         *)
(* GET /api/logs copies the sessions in memory under the map's lock, drops *)
(* that lock, reads the newest rows under the connection mutex, and        *)
(* returns the newest of both.  Sessions move from memory to the table in  *)
(* between.  AppState is locked throughout, so there is one reader.        *)
(***************************************************************************)
EXTENDS AccessLog, FiniteSetsExt

CONSTANTS
  Offset,      \* Offset[t]: what the local time at t is ahead of UTC
  Limits,      \* the listing lengths asked for, `limit: usize`
  Mixes        \* bound: the values of access to begin with

ASSUME ListingAssumption ==
  /\ Offset \in [0..MaxNow -> Int]
  /\ Limits \subseteq Nat

VARIABLES
  reader,      \* "idle" or "copied" (map copied, table not yet read)
  copy,        \* the sessions copied
  due          \* history: requests that were in the map or in the table
               \* when the map was copied

reading == <<reader, copy, due>>
combinedVars == <<vars, reading>>

-----------------------------------------------------------------------------
CombinedInit ==
  /\ Init /\ access \in Mixes
  /\ reader = "idle"
  /\ copy = {}
  /\ due = {}

CopyActive ==
  /\ up
  /\ reader = "idle"
  /\ reader' = "copied"
  /\ copy' = Range(active)
  /\ due' = Members(Range(active) \cup Range(saved))
  /\ UNCHANGED vars

(* The ways to take the n first of S in the order `precedes`, ties being open. *)
Firsts(S, n, precedes) ==
  {T \in kSubset(IF n < Cardinality(S) THEN n ELSE Cardinality(S), S) :
     \A x \in T, y \in S \ T : <<y, x>> \notin precedes}

LocalTime(b) == b.last + Offset[b.last]

(* get_access_logs: the text of a time is that of the local time, and only
   after it the offset.  A row that cannot be read ends the reading, and what
   was read before is returned as Ok. *)
RowsRead(n) ==
  LET rows == Range(saved)
      later == {p \in rows \X rows : LocalTime(p[1]) > LocalTime(p[2])} IN
  UNION {Firsts(rows, k, later) : k \in IF "row_error" \in Events THEN 0..n ELSE {n}}

Entries(status, sessions) == {[status |-> status, session |-> b] : b \in sessions}

(* Mutant: of each device, name and action only one entry is kept. *)
Combined_OnePerKey(rows) ==
  Entries("Active", copy)
    \cup Entries("Persistent", {b \in rows : \A a \in copy : a.key # b.key})

Combined(rows) == Entries("Active", copy) \cup Entries("Persistent", rows)

(* The sort is stable, and the sessions of the map come first. *)
Newer(d, e) ==
  \/ d.session.last > e.session.last
  \/ d.session.last = e.session.last /\ d.status = "Active" /\ e.status = "Persistent"

(* What get_combined_logs(n) may return when `rows` are read from the table. *)
Listings(n, rows) ==
  LET all == Combined(rows) IN
  Firsts(all, n, {p \in all \X all : Newer(p[1], p[2])})

TableReadable == reader = "copied" /\ \A s \in Sweepers : phase[s] # "saving"

Forget ==
  /\ reader' = "idle"
  /\ copy' = {}
  /\ due' = {}

(* One of Listings(n, rows), rows \in RowsRead(n), is returned, or the error of
   the statement. *)
ReadRows ==
  /\ TableReadable
  /\ Forget
  /\ UNCHANGED vars

-----------------------------------------------------------------------------
(* The handler has no await after its lock, so an orderly exit lets it end. *)
CombinedNext ==
  \/ CopyActive \/ ReadRows
  \/ /\ \/ \E r \in Requests : Request(r)
        \/ \E s \in Sweepers : Sweep(s)
        \/ Clear \/ Restart \/ Tick
        \/ Exit /\ reader = "idle"
     /\ UNCHANGED reading
  \/ Crash /\ Forget

CombinedSpec == CombinedInit /\ [][CombinedNext]_combinedVars /\ Fairness

-----------------------------------------------------------------------------
(* Properties. *)

Listed(list) == UNION {e.session.reqs : e \in list}

(* A request that was in the map or the table when the reading began is in the
   listing, unless its session was dropped meanwhile, the listing is full, or
   it is in a row that the reading of the table left out: a session that moves
   from the map to the table between the two reads is never missed.  Only what
   a sweep had in hand before may be (log.rs:219 and 230: the map is read
   first). *)
NothingOverlooked ==
  TableReadable =>
    \A n \in Limits : \A rows \in RowsRead(n) : \A list \in Listings(n, rows) :
      \/ due \subseteq Listed(list) \cup lost \cup Members(Range(saved) \ rows)
      \/ Cardinality(list) = n

(* If two entries of a listing count the same request, they are the copy of a
   session and the row it became since; the row lacks nothing of the copy. *)
DoublesAreSwept ==
  TableReadable =>
    \A n \in Limits : \A rows \in RowsRead(n) : \A list \in Listings(n, rows) :
      \A d, e \in list :
        d # e /\ d.session.reqs \cap e.session.reqs # {} =>
          /\ d.session.key = e.session.key
          /\ {d.status, e.status} = {"Active", "Persistent"}
          /\ d.status = "Active" => d.session.reqs \subseteq e.session.reqs
=============================================================================
