------------------------- MODULE CombinedLogsProofs -------------------------
(***************************************************************************)
(* Proofs about CombinedLogs, for every set of requests, every timeout,    *)
(* every bound, every listing length and every course of the local time.   *)
(*                                                                         *)
(* A step of CombinedLogs is a step of AccessLog or leaves its variables   *)
(* alone, so the theorems of AccessLogProofs hold of it.  What a listing   *)
(* shows rests on CopyKept: a session copied from the map is, until the    *)
(* table is read, counted by the session it has become, and what was       *)
(* due at the copying is in the copy, in the table or lost.                *)
(***************************************************************************)
EXTENDS CombinedLogs, AccessLogProofs, SetInduction

CopyKept ==
  /\ \A b \in copy : b.reqs # {} /\ \A r \in b.reqs : state[r] = "recorded"
  /\ \A a, b \in copy : a # b => a.reqs \cap b.reqs = {}
  /\ \A b \in copy, c \in Sessions :
       b.reqs \cap c.reqs # {} => b.key = c.key /\ b.reqs \subseteq c.reqs
  /\ reader = "copied" => due \subseteq Members(copy \cup Range(saved)) \cup lost

(* The copy and the map are finite, and no session is from later than MaxNow. *)
Bounded ==
  /\ copy \subseteq Session /\ IsFiniteSet(copy)
  /\ IsFiniteSet(DOMAIN active)
  /\ now <= MaxNow
  /\ \A b \in copy \cup Sessions : b.last <= MaxNow

CombinedIInv == CopyKept /\ Bounded

-----------------------------------------------------------------------------
(* A step of the log: rows stay or are lost, recorded requests stay recorded,
   and a session is an old one, or an old one that counts one request more,
   or a new one of a request that was not recorded before. *)

LogAction ==
  \/ \E r \in Requests : Request(r)
  \/ \E s \in Sweepers : Sweep(s)
  \/ Clear \/ Restart \/ Tick \/ Exit \/ Crash

GrewFrom(c, r) ==
  /\ state[r] = "stamped"
  /\ c.last = at[r]
  /\ \/ c.reqs = {r}
     \/ \E b \in Sessions : c.key = b.key /\ c.reqs = b.reqs \cup {r}

LEMMA LogSteps ==
  ASSUME IInv, LogAction
  PROVE  /\ lost \subseteq lost'
         /\ \A b \in Range(saved) : b \in Range(saved)' \/ b.reqs \subseteq lost'
         /\ \A r \in Requests : state[r] = "recorded" => state'[r] = "recorded"
         /\ \A c \in Sessions' : c \in Sessions \/ \E r \in Requests : GrewFrom(c, r)
         /\ now' = now \/ (now' = now + 1 /\ now < MaxNow)
         /\ DOMAIN active' \subseteq DOMAIN active
            \/ \E k : DOMAIN active' = DOMAIN active \cup {k}
  <1>1. ASSUME NEW r \in Requests, Record(r)
        PROVE  \A c \in Sessions' : c \in Sessions \/ GrewFrom(c, r)
    <2> DEFINE k == KeyOf(access[r])
               new == IF k \in DOMAIN active THEN Touch(active[k], r) ELSE NewSession(r)
    <2>1. /\ state[r] = "stamped" /\ batch' = batch /\ saved' = saved
          /\ DOMAIN active' = DOMAIN active \cup {k} /\ active'[k] = new
          /\ \A j \in DOMAIN active \ {k} : active'[j] = active[j]
      BY <1>1 DEF Record, sweeps
    <2>2. \A c \in Sessions' : c \in Sessions \/ c = new
      BY <2>1 DEF Sessions, Range, Batches
    <2>3. new.last = at[r]
      BY DEF IInv, TypeOK, Touch, NewSession, Session
    <2>4. CASE k \notin DOMAIN active
      BY <2>1, <2>2, <2>3, <2>4 DEF GrewFrom, NewSession
    <2>5. CASE k \in DOMAIN active
      <3>1. active[k] \in Sessions
        BY <2>5 DEF Sessions, Range
      <3>2. new.key = active[k].key /\ new.reqs = active[k].reqs \cup {r}
        BY <2>5 DEF IInv, TypeOK, Touch, Session
      <3> QED
        BY <2>1, <2>2, <2>3, <3>1, <3>2 DEF GrewFrom
    <2> QED
      BY <2>4, <2>5
  <1>2. ASSUME NEW r \in Requests, Record(r)
        PROVE  /\ lost' = lost /\ saved' = saved /\ now' = now
               /\ \A q \in Requests : state[q] = "recorded" => state'[q] = "recorded"
               /\ DOMAIN active' = DOMAIN active \cup {KeyOf(access[r])}
    BY <1>2 DEF Record, sweeps, IInv, TypeOK
  <1>3. ASSUME NEW r \in Requests, Stamp(r)
        PROVE  /\ UNCHANGED <<now, active, batch, saved, lost>>
               /\ \A q \in Requests : state[q] = "recorded" => state'[q] = "recorded"
    BY <1>3 DEF Stamp, sweeps, IInv, TypeOK
  <1>4. ASSUME NEW s \in Sweepers, Wake(s)
        PROVE  UNCHANGED <<now, requests, active, batch, saved, lost>>
    BY <1>4 DEF Wake
  <1>5. ASSUME NEW s \in Sweepers, Drain(s)
        PROVE  /\ UNCHANGED <<now, requests, saved, lost>>
               /\ DOMAIN active' \subseteq DOMAIN active
               /\ Sessions' \subseteq Sessions
    <2>1. UNCHANGED <<now, requests, saved, lost>> /\ DOMAIN active' \subseteq DOMAIN active
      BY <1>5 DEF Drain
    <2>2. Open' = Open /\ Range(saved)' = Range(saved)
      BY <1>5, DrainCountsNothing DEF Range
    <2> QED
      BY <2>1, <2>2 DEF Open, Sessions
  <1>6. ASSUME NEW s \in Sweepers, SaveOne(s)
        PROVE  /\ UNCHANGED <<now, requests, active, lost>>
               /\ Range(saved) \subseteq Range(saved)'
               /\ Sessions' \subseteq Sessions
    <2>1. PICK b \in batch[s] :
            saved' = Append(saved, b) /\ batch' = [batch EXCEPT ![s] = @ \ {b}]
      BY <1>6 DEF SaveOne
    <2>2. UNCHANGED <<now, requests, active, lost>>
      BY <1>6 DEF SaveOne
    <2>3. b \in Session /\ saved \in Seq(Session) /\ b \in Batches
      BY DEF IInv, TypeOK, Batches
    <2>4. \A c : c \in Range(saved)' <=> c \in Range(saved) \/ c = b
      BY <2>1, <2>3 DEF Range
    <2>5. Batches' \subseteq Batches
      BY <2>1 DEF Batches, IInv, TypeOK
    <2>6. Range(active)' = Range(active)
      BY <2>2 DEF Range
    <2> QED
      BY <2>2, <2>3, <2>4, <2>5, <2>6 DEF Sessions
  <1>7. ASSUME NEW s \in Sweepers, SaveFails(s)
        PROVE  /\ UNCHANGED <<now, requests, active, saved>> /\ lost \subseteq lost'
               /\ Sessions' \subseteq Sessions
    <2>1. /\ UNCHANGED <<now, requests, active, saved>> /\ lost \subseteq lost'
          /\ batch' = [batch EXCEPT ![s] = {}]
      BY <1>7 DEF SaveFails
    <2>2. Batches' \subseteq Batches
      BY <2>1 DEF Batches, IInv, TypeOK
    <2> QED
      BY <2>1, <2>2 DEF Sessions, Range
  <1>8. ASSUME Clear
        PROVE  /\ UNCHANGED <<now, requests>> /\ lost \subseteq lost'
               /\ \A b \in Range(saved) : b.reqs \subseteq lost'
               /\ DOMAIN active' \subseteq DOMAIN active
               /\ Sessions' \subseteq Sessions
    <2>1. /\ UNCHANGED <<now, requests, batch>> /\ saved' = <<>> /\ DOMAIN active' = {}
          /\ lost' = lost \cup Members(Range(saved) \cup Range(active))
      BY <1>8 DEF Clear, sweeps
    <2> QED
      BY <2>1 DEF Sessions, Range, Members, Batches
  <1>9. ASSUME Stop
        PROVE  /\ UNCHANGED <<now, saved>> /\ lost \subseteq lost'
               /\ \A q \in Requests : state[q] = "recorded" => state'[q] = "recorded"
               /\ DOMAIN active' \subseteq DOMAIN active
               /\ Sessions' \subseteq Sessions
    <2>1. /\ UNCHANGED <<now, saved>> /\ lost \subseteq lost' /\ DOMAIN active' = {}
          /\ batch' = [s \in Sweepers |-> {}]
          /\ \A q \in Requests : state[q] = "recorded" => state'[q] = "recorded"
      BY <1>9 DEF Stop
    <2> QED
      BY <2>1 DEF Sessions, Range, Batches
  <1>10. ASSUME UNCHANGED <<active, batch, saved>> PROVE Sessions' = Sessions
    BY <1>10 DEF Sessions, Range, Batches
  <1>11. ASSUME UNCHANGED saved PROVE Range(saved)' = Range(saved)
    BY <1>11 DEF Range
  <1>12. CASE \E r \in Requests : Record(r)
    BY <1>1, <1>2, <1>11, <1>12
  <1>13. CASE \E r \in Requests : Stamp(r)
    BY <1>3, <1>10, <1>11, <1>13
  <1>14. CASE \E s \in Sweepers : Sweep(s)
    BY <1>4, <1>5, <1>6, <1>7, <1>10, <1>11, <1>14 DEF Sweep, requests
  <1>15. CASE Clear
    BY <1>8, <1>15 DEF requests
  <1>16. CASE Exit \/ Crash
    BY <1>9, <1>11, <1>16 DEF Exit, Crash
  <1>17. CASE Restart
    BY <1>10, <1>11, <1>17 DEF Restart, requests, sweeps
  <1>18. CASE Tick
    BY <1>10, <1>11, <1>18 DEF Tick, requests, sweeps
  <1> QED
    BY <1>12, <1>13, <1>14, <1>15, <1>16, <1>17, <1>18 DEF LogAction, Request
-----------------------------------------------------------------------------
(* AccessLog inside CombinedLogs. *)

LEMMA CombinedSteps ==
  ASSUME CombinedNext
  PROVE  \/ CopyActive \/ ReadRows
         \/ LogAction /\ (UNCHANGED reading \/ Forget)
  BY DEF CombinedNext, LogAction

LEMMA LogActionNext == LogAction <=> Next
  BY DEF LogAction, Next

(* The access log goes on as if nobody read it. *)
THEOREM CombinedImplementsLog == CombinedSpec => Spec
  <1>1. CombinedInit => Init
    BY DEF CombinedInit
  <1>2. [CombinedNext]_combinedVars => [Next]_vars
    BY CombinedSteps, LogActionNext DEF combinedVars, CopyActive, ReadRows
  <1> QED
    BY <1>1, <1>2, PTL DEF CombinedSpec, Spec

(* So what is proved of the log holds while it is read: its types, that every
   request is counted exactly once, and what its sessions stand for. *)
THEOREM LogKeptWhileRead ==
  CombinedSpec =>
    /\ [](TypeOK /\ Accounted /\ CountedOnce /\ IdleBetweenSessions /\ DurationBounded)
    /\ LedgerKept
  BY CombinedImplementsLog, TypeCorrect, NeverForgotten, NeverTwice, PauseBetween,
     DurationAlmostRight, LedgerImplemented, PTL

-----------------------------------------------------------------------------
(* Finiteness. *)

LEMMA RangeFinite ==
  ASSUME NEW f, IsFiniteSet(DOMAIN f)
  PROVE  IsFiniteSet(Range(f))
  <1> DEFINE g == [x \in DOMAIN f |-> f[x]]
  <1>1. g \in Surjection(DOMAIN f, Range(f))
    BY DEF Surjection, Range
  <1> HIDE DEF g
  <1> QED
    BY <1>1, FS_Surjection

(* The map stays finite and no session is from the future. *)
LEMMA LogBounded ==
  ASSUME IInv, Bounded, LogAction
  PROVE  /\ IsFiniteSet(DOMAIN active') /\ now' <= MaxNow
         /\ \A c \in Sessions' : c.last <= MaxNow
  <1>1. /\ \A c \in Sessions' : c \in Sessions \/ \E r \in Requests : GrewFrom(c, r)
        /\ now' = now \/ (now' = now + 1 /\ now < MaxNow)
        /\ DOMAIN active' \subseteq DOMAIN active
           \/ \E k : DOMAIN active' = DOMAIN active \cup {k}
    BY LogSteps
  <1>2. now' <= MaxNow
    BY <1>1, TimeAssumption DEF Bounded, IInv, TypeOK
  <1>3. ASSUME NEW r \in Requests, NEW c, GrewFrom(c, r) PROVE c.last <= MaxNow
    BY <1>3, TimeAssumption DEF GrewFrom, Bounded, IInv, TypeOK, Timely
  <1>4. IsFiniteSet(DOMAIN active')
    BY <1>1, FS_Subset, FS_AddElement DEF Bounded
  <1> QED
    BY <1>1, <1>2, <1>3, <1>4 DEF Bounded

(* While a copy waits for the table, the log goes on: no session loses a
   request it had when it was copied. *)
LEMMA CopyKeptStep ==
  ASSUME IInv, IInv', CombinedIInv, LogAction, UNCHANGED reading
  PROVE  CombinedIInv'
  <1> USE DEF reading, CombinedIInv
  <1>1. /\ lost \subseteq lost'
        /\ \A b \in Range(saved) : b \in Range(saved)' \/ b.reqs \subseteq lost'
        /\ \A r \in Requests : state[r] = "recorded" => state'[r] = "recorded"
        /\ \A c \in Sessions' : c \in Sessions \/ \E r \in Requests : GrewFrom(c, r)
        /\ now' = now \/ (now' = now + 1 /\ now < MaxNow)
        /\ DOMAIN active' \subseteq DOMAIN active
           \/ \E k : DOMAIN active' = DOMAIN active \cup {k}
    BY LogSteps
  <1>2. \A b \in copy : b.reqs \subseteq Requests
    BY DEF Bounded, Session
  <1>3. \A b \in copy : b.reqs # {} /\ \A r \in b.reqs : state'[r] = "recorded"
    BY <1>1, <1>2 DEF CopyKept
  <1>4. ASSUME NEW b \in copy, NEW c \in Sessions', b.reqs \cap c.reqs # {}
        PROVE  b.key = c.key /\ b.reqs \subseteq c.reqs
    <2>1. CASE c \in Sessions
      BY <1>4, <2>1 DEF CopyKept
    <2>2. ASSUME NEW r \in Requests, GrewFrom(c, r)
          PROVE  b.key = c.key /\ b.reqs \subseteq c.reqs
      <3>1. r \notin b.reqs
        BY <2>2 DEF GrewFrom, CopyKept
      <3>2. PICK a \in Sessions : c.key = a.key /\ c.reqs = a.reqs \cup {r}
        BY <1>4, <2>2, <3>1 DEF GrewFrom
      <3>3. b.reqs \cap a.reqs # {}
        BY <1>4, <3>1, <3>2
      <3> QED
        BY <3>2, <3>3 DEF CopyKept
    <2> QED
      BY <1>1, <2>1, <2>2
  <1>5. ASSUME reader = "copied"
        PROVE  due \subseteq Members(copy \cup Range(saved)') \cup lost'
    <2> SUFFICES ASSUME NEW r \in due
                 PROVE  r \in Members(copy \cup Range(saved)') \cup lost'
      OBVIOUS
    <2>1. CASE r \in lost
      BY <1>1, <2>1
    <2>2. ASSUME NEW b \in copy \cup Range(saved), r \in b.reqs
          PROVE  r \in Members(copy \cup Range(saved)') \cup lost'
      BY <1>1, <2>2, MemberFact
    <2> QED
      BY <1>5, <2>1, <2>2, MemberFact DEF CopyKept
  <1>6. CopyKept'
    BY <1>3, <1>4, <1>5 DEF CopyKept, Members
  <1>7. Bounded'
    BY LogBounded DEF Bounded
  <1> QED
    BY <1>6, <1>7

(* Nothing is copied or due after the reading. *)
LEMMA ForgetStep ==
  ASSUME IInv, IInv', CombinedIInv, Forget, LogAction \/ UNCHANGED vars
  PROVE  CombinedIInv'
  <1>1. copy' = {} /\ reader' = "idle"
    BY DEF Forget
  <1>2. CopyKept'
    BY <1>1 DEF CopyKept
  <1>3. /\ IsFiniteSet(DOMAIN active)' /\ now' <= MaxNow
        /\ \A c \in Sessions' : c.last <= MaxNow
    <2>1. CASE UNCHANGED vars
      BY <2>1 DEF CombinedIInv, Bounded, vars, sweeps, Sessions, Range, Batches
    <2>2. CASE LogAction
      BY <2>2, LogBounded DEF CombinedIInv
    <2> QED
      BY <2>1, <2>2
  <1>4. Bounded'
    BY <1>1, <1>3, FS_EmptySet DEF Bounded
  <1> QED
    BY <1>2, <1>4 DEF CombinedIInv

LEMMA CopyActiveStep ==
  ASSUME IInv, CombinedIInv, CopyActive
  PROVE  CombinedIInv'
  <1>1. /\ copy' = Range(active) /\ due' = Members(Range(active) \cup Range(saved))
        /\ UNCHANGED vars
    BY DEF CopyActive
  <1>2. Sessions' = Sessions /\ Range(saved)' = Range(saved) /\ copy' \subseteq Sessions
    BY <1>1 DEF vars, sweeps, Sessions, Range, Batches
  <1>3. copy' \subseteq Session /\ IsFiniteSet(copy')
    BY <1>1, <1>2, RangeFinite, SessionFacts DEF IInv, CombinedIInv, Bounded
  <1>4. Bounded'
    BY <1>1, <1>2, <1>3 DEF CombinedIInv, Bounded, vars
  <1>5. CopyKept'
    BY <1>1, <1>2 DEF CopyKept, IInv, Owned, CountedOnce, vars, requests, Members
  <1> QED
    BY <1>4, <1>5 DEF CombinedIInv

LEMMA InitCombinedIInv == CombinedInit => CombinedIInv
  <1> SUFFICES ASSUME CombinedInit PROVE CombinedIInv
    OBVIOUS
  <1>1. Sessions = {} /\ DOMAIN active = {} /\ copy = {} /\ reader = "idle" /\ now = 0
    BY DEF CombinedInit, Init, Sessions, Range, Batches
  <1> QED
    BY <1>1, FS_EmptySet, TimeAssumption DEF CombinedIInv, CopyKept, Bounded

LEMMA CombinedInductive == CombinedSpec => [](IInv /\ CombinedIInv)
  <1>1. IInv /\ IInv' /\ CombinedIInv /\ [CombinedNext]_combinedVars => CombinedIInv'
    <2> SUFFICES ASSUME IInv, IInv', CombinedIInv, [CombinedNext]_combinedVars
                 PROVE  CombinedIInv'
      OBVIOUS
    <2>1. CASE CopyActive
      BY <2>1, CopyActiveStep
    <2>2. CASE ReadRows
      BY <2>2, ForgetStep DEF ReadRows
    <2>3. CASE LogAction /\ UNCHANGED reading
      BY <2>3, CopyKeptStep
    <2>4. CASE LogAction /\ Forget
      BY <2>4, ForgetStep
    <2>5. CASE UNCHANGED combinedVars
      BY <2>5 DEF combinedVars, vars, requests, sweeps, reading, CombinedIInv,
                  CopyKept, Bounded, Sessions, Range, Batches
    <2> QED
      BY <2>1, <2>2, <2>3, <2>4, <2>5, CombinedSteps
  <1>2. CombinedSpec => []IInv
    BY CombinedImplementsLog, Inductive, PTL
  <1> QED
    BY <1>1, <1>2, InitCombinedIInv, PTL DEF CombinedSpec

-----------------------------------------------------------------------------
(* What a listing is made of. *)

(* Of a finite set, Firsts takes at most n, all of it unless it takes n, and
   leaves out nothing that precedes something taken. *)
LEMMA FirstsFacts ==
  ASSUME NEW S, IsFiniteSet(S), NEW n \in Nat, NEW precedes,
         NEW T \in Firsts(S, n, precedes)
  PROVE  /\ T \subseteq S /\ IsFiniteSet(T)
         /\ Cardinality(T) \in Nat /\ Cardinality(T) <= n
         /\ Cardinality(S) >= n => Cardinality(T) = n
         /\ T = S \/ Cardinality(T) = n
         /\ \A x \in T, y \in S \ T : <<y, x>> \notin precedes
  <1>1. /\ T \subseteq S /\ Cardinality(T) = IF n < Cardinality(S) THEN n ELSE Cardinality(S)
        /\ \A x \in T, y \in S \ T : <<y, x>> \notin precedes
    BY DEF Firsts, kSubset
  <1>2. IsFiniteSet(T) /\ Cardinality(S) \in Nat
    BY <1>1, FS_Subset, FS_CardinalityType
  <1>3. CASE n < Cardinality(S)
    BY <1>1, <1>2, <1>3
  <1>4. CASE ~ (n < Cardinality(S))
    <2>1. Cardinality(T) = Cardinality(S)
      BY <1>1, <1>4
    <2>2. T = S
      BY <1>1, <2>1, FS_Subset
    <2> QED
      BY <1>1, <1>2, <1>4, <2>1, <2>2
  <1> QED
    BY <1>3, <1>4

(* There is an entry for each session. *)
LEMMA EntriesFacts ==
  ASSUME NEW S, IsFiniteSet(S), NEW status
  PROVE  /\ IsFiniteSet(Entries(status, S))
         /\ Cardinality(Entries(status, S)) = Cardinality(S)
  <1> DEFINE f == [b \in S |-> [status |-> status, session |-> b]]
  <1>1. f \in Bijection(S, Entries(status, S))
    <2>1. \A b \in S : f[b] \in Entries(status, S) /\ f[b].session = b
      BY DEF Entries
    <2>2. \A e \in Entries(status, S) : e.session \in S /\ f[e.session] = e
      BY DEF Entries
    <2>3. f \in [S -> Entries(status, S)]
      BY <2>1
    <2> HIDE DEF f
    <2> QED
      BY <2>1, <2>2, <2>3 DEF Bijection, Injection, Surjection, IsInjective
  <1> HIDE DEF f
  <1> QED
    BY <1>1, FS_Bijection DEF ExistsBijection

(* The rows read for a listing, its entries, and the entries it is cut from. *)
LEMMA ListingFacts ==
  ASSUME IInv, CombinedIInv, NEW n \in Limits, NEW rows \in RowsRead(n),
         NEW list \in Listings(n, rows)
  PROVE  /\ rows \subseteq Range(saved)
         /\ list \subseteq Combined(rows)
         /\ list = Combined(rows) \/ Cardinality(list) = n
  <1>1. n \in Nat /\ \A k \in 0..n : k \in Nat
    BY ListingAssumption
  <1>2. IsFiniteSet(Range(saved))
    BY RangeFinite, SessionFacts, FS_Interval DEF IInv
  <1> DEFINE later == {p \in Range(saved) \X Range(saved) : LocalTime(p[1]) > LocalTime(p[2])}
  <1>3. PICK k \in 0..n : rows \in Firsts(Range(saved), k, later)
    BY <1>1 DEF RowsRead
  <1>4. rows \subseteq Range(saved) /\ IsFiniteSet(rows)
    <2> HIDE DEF later
    <2> QED
      BY <1>1, <1>2, <1>3, FirstsFacts
  <1>5. IsFiniteSet(Entries("Active", copy)) /\ IsFiniteSet(Entries("Persistent", rows))
    BY <1>4, EntriesFacts DEF CombinedIInv, Bounded
  <1>6. IsFiniteSet(Combined(rows))
    BY <1>5, FS_Union DEF Combined
  <1> DEFINE newer == {p \in Combined(rows) \X Combined(rows) : Newer(p[1], p[2])}
  <1>7. list \in Firsts(Combined(rows), n, newer)
    BY DEF Listings
  <1>8. list \subseteq Combined(rows) /\ (list = Combined(rows) \/ Cardinality(list) = n)
    <2> HIDE DEF newer
    <2> QED
      BY <1>1, <1>6, <1>7, FirstsFacts
  <1> QED
    BY <1>4, <1>8

LEMMA EntryFacts ==
  ASSUME NEW rows, NEW e
  PROVE  e \in Combined(rows) <=>
           \/ \E b \in copy : e = [status |-> "Active", session |-> b]
           \/ \E b \in rows : e = [status |-> "Persistent", session |-> b]
  BY DEF Combined, Entries

(* No listing overlooks what was due when its reading began, save what is in
   rows that the reading of the table left out. *)
THEOREM ListingComplete == CombinedSpec => []NothingOverlooked
  <1>1. IInv /\ CombinedIInv => NothingOverlooked
    <2> SUFFICES ASSUME IInv, CombinedIInv, TableReadable,
                        NEW n \in Limits, NEW rows \in RowsRead(n),
                        NEW list \in Listings(n, rows), Cardinality(list) # n,
                        NEW r \in due, r \notin lost, r \notin Members(Range(saved) \ rows)
                 PROVE  r \in Listed(list)
      BY DEF NothingOverlooked
    <2>1. list = Combined(rows)
      BY ListingFacts
    <2>2. PICK b \in copy \cup Range(saved) : r \in b.reqs
      BY MemberFact DEF CombinedIInv, CopyKept, TableReadable
    <2>3. b \in copy \cup rows
      BY <2>2, MemberFact
    <2>4. \E e \in list : e.session = b
      <3>1. CASE b \in copy
        <4> DEFINE e == [status |-> "Active", session |-> b]
        <4>1. e \in Combined(rows)
          BY <3>1, EntryFacts
        <4> QED
          BY <2>1, <4>1
      <3>2. CASE b \in rows
        <4> DEFINE e == [status |-> "Persistent", session |-> b]
        <4>1. e \in Combined(rows)
          BY <3>2, EntryFacts
        <4> QED
          BY <2>1, <4>1
      <3> QED
        BY <2>3, <3>1, <3>2
    <2> QED
      BY <2>2, <2>4 DEF Listed
  <1> QED
    BY <1>1, CombinedInductive, PTL

(* Entries that count the same request are a copy and the row it became. *)
THEOREM DoublesOnlySwept == CombinedSpec => []DoublesAreSwept
  <1>1. IInv /\ CombinedIInv => DoublesAreSwept
    <2> SUFFICES ASSUME IInv, CombinedIInv, NEW n \in Limits, NEW rows \in RowsRead(n),
                        NEW list \in Listings(n, rows), NEW d \in list, NEW e \in list, d # e,
                        d.session.reqs \cap e.session.reqs # {}
                 PROVE  /\ d.session.key = e.session.key
                        /\ {d.status, e.status} = {"Active", "Persistent"}
                        /\ d.status = "Active" => d.session.reqs \subseteq e.session.reqs
      BY DEF DoublesAreSwept
    <2>1. rows \subseteq Range(saved) /\ list \subseteq Combined(rows)
      BY ListingFacts
    <2>2. rows \subseteq Sessions
      BY <2>1 DEF Sessions
    <2>3. \A x \in list :
            \/ x.status = "Active" /\ x.session \in copy
               /\ x = [status |-> "Active", session |-> x.session]
            \/ x.status = "Persistent" /\ x.session \in Sessions
               /\ x = [status |-> "Persistent", session |-> x.session]
      BY <2>1, <2>2, EntryFacts
    <2>4. \A a, b \in copy : a # b => a.reqs \cap b.reqs = {}
      BY DEF CombinedIInv, CopyKept
    <2>5. \A a, b \in Sessions : a # b => a.reqs \cap b.reqs = {}
      BY DEF IInv, CountedOnce
    <2>6. \A b \in copy, c \in Sessions :
            b.reqs \cap c.reqs # {} => b.key = c.key /\ b.reqs \subseteq c.reqs
      BY DEF CombinedIInv, CopyKept
    <2>7. CASE d.status = e.status
      <3>1. d.session # e.session
        BY <2>3, <2>7
      <3> QED
        BY <2>3, <2>4, <2>5, <2>7, <3>1
    <2>8. CASE d.status = "Active" /\ e.status = "Persistent"
      BY <2>3, <2>6, <2>8
    <2>9. CASE d.status = "Persistent" /\ e.status = "Active"
      BY <2>3, <2>6, <2>9
    <2> QED
      BY <2>3, <2>7, <2>8, <2>9
  <1> QED
    BY <1>1, CombinedInductive, PTL
=============================================================================
