--------------------------- MODULE AccessLogProofs ---------------------------
(***************************************************************************)
(* Proofs about AccessLog, for every set of requests, every timeout, every *)
(* bound and every combination of errors, crashes, exits and clears.       *)
(*                                                                         *)
(* CountedOnce and Accounted become inductive with Owned: a session counts *)
(* at least one request, and only recorded ones of its own key.            *)
(* IdleBetweenSessions needs the clock: what a sweep took out is older     *)
(* than the timeout for ever after (Timely), and it came before the        *)
(* session of the same key that is active now (Apart).                     *)
(*                                                                         *)
(* The log implements the ledger of SessionLedger step by step: the last   *)
(* part of the module.                                                     *)
(***************************************************************************)
EXTENDS AccessLog, SequenceTheorems, TLAPS

Frozen == Batches \cup Range(saved)

(* Sessions count recorded requests of their own key, at least one each. *)
Owned ==
  /\ \A b \in Sessions :
       /\ b.reqs # {}
       /\ \A r \in b.reqs : state[r] = "recorded" /\ KeyOf(access[r]) = b.key
  /\ \A r \in lost : state[r] = "recorded"

(* No time read lies in the future, no request waits longer than MaxStall, and
   what was taken out of the map has been idle for longer than a timeout. *)
Timely ==
  /\ \A s \in Sweepers : stamp[s] <= now
  /\ \A r \in Requests : state[r] = "stamped" => at[r] <= now /\ now - at[r] <= MaxStall
  /\ \A k \in DOMAIN active : active[k].first <= now
  /\ \A b \in Frozen : now - b.last > MinTimeout

(* IdleBetweenSessions, told apart by whether a session may still grow. *)
Apart ==
  /\ \A a, b \in Frozen : a # b /\ a.key = b.key => Before(a, b) \/ Before(b, a)
  /\ \A a \in Frozen, k \in DOMAIN active : a.key = k => Before(a, active[k])

IInv ==
  /\ TypeOK
  /\ Owned
  /\ Accounted
  /\ CountedOnce
  /\ Timely
  /\ Apart
  /\ DurationBounded

-----------------------------------------------------------------------------
(* The constants and the operators on sessions. *)

LEMMA TimeFacts ==
  /\ MaxStall \in Nat /\ MinTimeout \in Nat
  /\ \A s \in Sweepers : Timeout(s) \in Nat /\ MinTimeout <= Timeout(s)
  BY TimeAssumption DEF MinTimeout, Timeout, Sweepers

LEMMA InSessions ==
  /\ \A b : b \in Sessions <=> b \in Range(active) \/ b \in Frozen
  /\ \A b : b \in Frozen <=> b \in Batches \/ b \in Range(saved)
  /\ \A b : b \in Batches <=> \E s \in Sweepers : b \in batch[s]
  /\ \A b : b \in Range(active) <=> \E k \in DOMAIN active : b = active[k]
  /\ \A b : b \in Range(saved) <=> \E i \in DOMAIN saved : b = saved[i]
  BY DEF Sessions, Frozen, Batches, Range

LEMMA MemberFact ==
  ASSUME NEW S, NEW r
  PROVE  r \in Members(S) <=> \E b \in S : r \in b.reqs
  BY DEF Members

(* Fields of any session, and the key of an active one. *)
LEMMA SessionFacts ==
  ASSUME TypeOK
  PROVE  /\ \A b \in Sessions : /\ b \in Session /\ b.first \in Nat /\ b.last \in Nat
                               /\ b.reqs \subseteq Requests
         /\ \A k \in DOMAIN active : active[k].key = k /\ active[k] \in Session
         /\ \A s \in Sweepers : batch[s] \subseteq Session
         /\ DOMAIN saved = 1..Len(saved) /\ Len(saved) \in Nat
         /\ \A i \in DOMAIN saved : saved[i] \in Session
  <1>1. \A i \in DOMAIN saved : saved[i] \in Session
    BY DEF TypeOK
  <1>2. ASSUME NEW b \in Sessions PROVE b \in Session
    <2>1. CASE b \in Range(active)
      BY <2>1 DEF TypeOK, Range
    <2>2. CASE b \in Batches
      BY <2>2 DEF TypeOK, Batches
    <2>3. CASE b \in Range(saved)
      BY <1>1, <2>3 DEF Range
    <2> QED
      BY <2>1, <2>2, <2>3, InSessions
  <1> QED
    BY <1>1, <1>2 DEF TypeOK, Session

(* Two active sessions are the same as soon as their keys are. *)
LEMMA ActiveKeys ==
  ASSUME TypeOK, NEW a \in Range(active), NEW b \in Range(active), a.key = b.key
  PROVE  a = b
  BY DEF TypeOK, Range

LEMMA InitIInv == Init => IInv
  <1> SUFFICES ASSUME Init PROVE IInv
    OBVIOUS
  <1>1. /\ Range(active) = {} /\ Range(saved) = {} /\ Batches = {} /\ lost = {}
        /\ DOMAIN active = {} /\ DOMAIN saved = {} /\ saved = <<>>
    BY DEF Init, Range, Batches
  <1>2. Sessions = {} /\ Frozen = {}
    BY <1>1 DEF Sessions, Frozen
  <1>3. TypeOK
    BY <1>1 DEF Init, TypeOK
  <1>4. Owned /\ Accounted /\ CountedOnce
    BY <1>1, <1>2 DEF Init, Owned, Accounted, CountedOnce
  <1>5. Timely /\ Apart /\ DurationBounded
    BY <1>1, <1>2 DEF Init, Timely, Apart, DurationBounded
  <1> QED
    BY <1>3, <1>4, <1>5 DEF IInv

-----------------------------------------------------------------------------
(* The clock and the requests that have not been counted yet. *)

LEMMA SameSessions ==
  ASSUME active' = active, batch' = batch, saved' = saved
  PROVE  Sessions' = Sessions /\ Frozen' = Frozen
  BY DEF Sessions, Frozen, Batches, Range

LEMMA StampKeepsIInv ==
  ASSUME IInv, NEW r \in Requests, Stamp(r)
  PROVE  IInv'
  <1>1. /\ state[r] = "ready" /\ state' = [state EXCEPT ![r] = "stamped"]
        /\ at' = [at EXCEPT ![r] = now] /\ now' = now /\ up' = up /\ access' = access
        /\ active' = active /\ phase' = phase /\ stamp' = stamp /\ batch' = batch
        /\ saved' = saved /\ lost' = lost
    BY DEF Stamp, sweeps
  <1>2. Sessions' = Sessions /\ Frozen' = Frozen /\ Batches' = Batches
    BY <1>1, SameSessions DEF Batches
  <1>3. TypeOK'
    BY <1>1 DEF IInv, TypeOK
  <1>4. /\ state'[r] = "stamped" /\ at'[r] = now
        /\ \A q \in Requests \ {r} : state'[q] = state[q] /\ at'[q] = at[q]
    BY <1>1 DEF IInv, TypeOK
  <1>5. Owned'
    BY <1>1, <1>2, <1>4, SessionFacts DEF IInv, Owned, KeyOf, TypeOK
  <1>6. Accounted'
    BY <1>1, <1>2, <1>4 DEF IInv, Accounted, KeyOf
  <1>7. CountedOnce'
    BY <1>1, <1>2 DEF IInv, CountedOnce, Range
  <1>8. Timely'
    BY <1>1, <1>2, <1>4, TimeFacts DEF IInv, Timely, TypeOK
  <1>9. Apart' /\ DurationBounded'
    BY <1>1, <1>2 DEF IInv, Apart, DurationBounded, Before
  <1> QED
    BY <1>3, <1>5, <1>6, <1>7, <1>8, <1>9 DEF IInv

(* Waking up reads the clock; a tick moves it; a restart only starts tasks. *)
LEMMA ClockKeepsIInv ==
  ASSUME IInv, Tick \/ Restart \/ (\E s \in Sweepers : Wake(s)) \/ UNCHANGED vars
  PROVE  IInv'
  <1>1. /\ UNCHANGED <<state, at, access, active, batch, saved, lost>>
        /\ up' \in BOOLEAN
        /\ \/ now' = now
           \/ now' = now + 1 /\ \A r \in Requests : state[r] = "stamped" => now - at[r] < MaxStall
        /\ \/ phase' = phase /\ stamp' = stamp
           \/ \E s \in Sweepers : /\ phase[s] = "asleep" /\ now' = now
                                  /\ phase' = [phase EXCEPT ![s] = "stamped"]
                                  /\ stamp' = [stamp EXCEPT ![s] = now]
    BY DEF Tick, Restart, Wake, vars, requests, sweeps, IInv, TypeOK
  <1>2. Sessions' = Sessions /\ Frozen' = Frozen /\ Batches' = Batches
    BY <1>1, SameSessions DEF Batches
  <1>3. TypeOK'
    <2>1. now' \in Nat
      BY <1>1 DEF IInv, TypeOK
    <2>2. /\ phase' \in [Sweepers -> {"asleep", "stamped", "drained", "saving", "dead"}]
          /\ stamp' \in [Sweepers -> Nat]
          /\ \A s \in Sweepers : phase'[s] \in {"drained", "saving"} <=> batch[s] # {}
      <3>1. CASE phase' = phase /\ stamp' = stamp
        BY <1>1, <3>1 DEF IInv, TypeOK
      <3>2. CASE \E s \in Sweepers : /\ phase[s] = "asleep" /\ now' = now
                                     /\ phase' = [phase EXCEPT ![s] = "stamped"]
                                     /\ stamp' = [stamp EXCEPT ![s] = now]
        <4>1. PICK s \in Sweepers : /\ phase[s] = "asleep"
                                   /\ phase' = [phase EXCEPT ![s] = "stamped"]
                                   /\ stamp' = [stamp EXCEPT ![s] = now]
          BY <3>2
        <4>2. /\ phase' \in [Sweepers -> {"asleep", "stamped", "drained", "saving", "dead"}]
              /\ stamp' \in [Sweepers -> Nat]
          BY <4>1 DEF IInv, TypeOK
        <4>3. \A t \in Sweepers : phase'[t] = IF t = s THEN "stamped" ELSE phase[t]
          BY <4>1 DEF IInv, TypeOK
        <4>4. batch' = batch /\ \A t \in Sweepers : phase[t] \in {"drained", "saving"} <=> batch[t] # {}
          BY <1>1 DEF IInv, TypeOK
        <4> QED
          BY <4>1, <4>2, <4>3, <4>4
      <3> QED
        BY <1>1, <3>1, <3>2
    <2> QED
      BY <1>1, <2>1, <2>2 DEF IInv, TypeOK
  <1>4. Owned' /\ Accounted'
    BY <1>1, <1>2 DEF IInv, Owned, Accounted, KeyOf
  <1>5. CountedOnce'
    BY <1>1, <1>2 DEF IInv, CountedOnce, Range
  <1>6. Timely'
    <2>1. /\ now \in Nat /\ at \in [Requests -> Nat] /\ stamp \in [Sweepers -> Nat]
          /\ \A b \in Frozen : b.last \in Nat
          /\ \A k \in DOMAIN active : active[k].first \in Nat
      BY SessionFacts, InSessions DEF IInv, TypeOK, Session
    <2> QED
      BY <1>1, <1>2, <2>1, TimeFacts DEF IInv, Timely
  <1>7. Apart' /\ DurationBounded'
    BY <1>1, <1>2 DEF IInv, Apart, DurationBounded, Before
  <1> QED
    BY <1>3, <1>4, <1>5, <1>6, <1>7 DEF IInv

-----------------------------------------------------------------------------
(* Recording a request. *)

LEMMA RecordKeepsIInv ==
  ASSUME IInv, NEW r \in Requests, Record(r)
  PROVE  IInv'
  <1> DEFINE k == KeyOf(access[r])
             new == IF k \in DOMAIN active THEN Touch(active[k], r) ELSE NewSession(r)
  <1>1. /\ state[r] = "stamped" /\ state' = [state EXCEPT ![r] = "recorded"]
        /\ now' = now /\ up' = up /\ at' = at /\ access' = access /\ phase' = phase
        /\ stamp' = stamp /\ batch' = batch /\ saved' = saved /\ lost' = lost
    BY DEF Record, sweeps
  <1>2. /\ DOMAIN active' = DOMAIN active \cup {k} /\ active'[k] = new
        /\ \A j \in DOMAIN active \ {k} : active'[j] = active[j]
    BY DEF Record
  <1>3. /\ k \in Keys /\ access[r].tag \in {a.tag : a \in Accesses} /\ at[r] \in Nat
        /\ k \in DOMAIN active => active[k] \in Session /\ active[k].key = k
    BY DEF IInv, TypeOK, Keys
  <1>4. /\ new \in Session /\ new.key = k /\ new.last = at[r]
        /\ new.first = IF k \in DOMAIN active THEN active[k].first ELSE at[r]
        /\ new.reqs = IF k \in DOMAIN active THEN active[k].reqs \cup {r} ELSE {r}
    BY <1>3 DEF Touch, NewSession, Session
  <1>5. Batches' = Batches /\ Range(saved)' = Range(saved) /\ Frozen' = Frozen
    BY <1>1 DEF Batches, Range, Frozen
  <1>6. \A b : b \in Range(active)' <=> b = new \/ \E j \in DOMAIN active \ {k} : b = active[j]
    BY <1>2 DEF Range
  <1>7. \A b : b \in Sessions' <=>
              b = new \/ b \in Frozen \/ \E j \in DOMAIN active \ {k} : b = active[j]
    BY <1>5, <1>6 DEF Sessions, Frozen
  <1>8. /\ state'[r] = "recorded" /\ \A q \in Requests \ {r} : state'[q] = state[q]
        /\ r \notin lost /\ \A b \in Sessions : r \notin b.reqs
    BY <1>1 DEF IInv, TypeOK, Owned
  (* A session that stays is not the one that was replaced. *)
  <1>9. /\ \A b \in Frozen : b \in Sessions
        /\ \A j \in DOMAIN active : active[j] \in Sessions /\ active[j] \in Range(active)
                                  /\ active[j].key = j
        /\ \A j \in DOMAIN active, b \in Frozen : active[j] # b
    <2>1. Range(active) \cap Frozen = {}
      BY DEF IInv, CountedOnce, Frozen
    <2> QED
      BY <2>1, InSessions DEF IInv, TypeOK
  <1>10. TypeOK'
    <2>1. DOMAIN active' \subseteq Keys
      BY <1>2, <1>3 DEF IInv, TypeOK
    <2>2. \A j \in DOMAIN active' : active'[j] \in Session /\ active'[j].key = j
      BY <1>2, <1>4 DEF IInv, TypeOK
    <2> QED
      BY <1>1, <2>1, <2>2 DEF IInv, TypeOK
  <1>11. Owned'
    <2>1. ASSUME NEW b \in Sessions'
          PROVE  b.reqs # {} /\ \A q \in b.reqs : state'[q] = "recorded" /\ KeyOf(access[q]) = b.key
      <3>1. CASE b = new
        BY <1>4, <1>8, <1>9, <3>1, SessionFacts DEF IInv, Owned
      <3>2. CASE b \in Sessions
        BY <1>8, <3>2, SessionFacts DEF IInv, Owned
      <3> QED
        BY <1>7, <1>9, <2>1, <3>1, <3>2
    <2>2. \A q \in lost : state'[q] = "recorded"
      BY <1>8 DEF IInv, TypeOK, Owned
    <2> QED
      BY <1>1, <2>1, <2>2 DEF Owned, KeyOf
  <1>12. Accounted'
    <2> SUFFICES ASSUME NEW q \in Requests, state'[q] = "recorded"
                 PROVE  \/ q \in lost
                        \/ \E b \in Sessions' : q \in b.reqs /\ b.key = KeyOf(access[q])
      BY <1>1 DEF Accounted, KeyOf
    <2>1. CASE q = r
      BY <1>4, <1>7, <2>1
    <2>2. CASE q # r
      <3>1. \/ q \in lost
            \/ \E b \in Sessions : q \in b.reqs /\ b.key = KeyOf(access[q])
        BY <1>8, <2>2 DEF IInv, Accounted
      <3>2. ASSUME NEW b \in Sessions, q \in b.reqs, b.key = KeyOf(access[q])
            PROVE  \E c \in Sessions' : q \in c.reqs /\ c.key = KeyOf(access[q])
        <4>1. CASE k \in DOMAIN active /\ b = active[k]
          BY <1>3, <1>4, <1>7, <3>2, <4>1
        <4>2. CASE ~(k \in DOMAIN active /\ b = active[k])
          BY <1>7, <3>2, <4>2, InSessions
        <4> QED
          BY <4>1, <4>2
      <3> QED
        BY <3>1, <3>2
    <2> QED
      BY <2>1, <2>2
  <1>13. CountedOnce'
    <2>1. ASSUME NEW b \in Sessions', b # new
          PROVE  b \in Sessions /\ b.reqs \cap new.reqs = {}
      <3>1. b \in Sessions /\ (k \in DOMAIN active => b # active[k])
        BY <1>7, <1>9, <2>1
      <3>2. r \notin b.reqs
        BY <1>8, <3>1
      <3>3. k \in DOMAIN active => b.reqs \cap active[k].reqs = {}
        BY <1>9, <3>1 DEF IInv, CountedOnce
      <3> QED
        BY <1>4, <3>1, <3>2, <3>3
    <2>2. \A a, b \in Sessions' : a # b => a.reqs \cap b.reqs = {}
      BY <2>1 DEF IInv, CountedOnce
    <2>3. new.reqs \cap lost = {}
      <3>1. k \in DOMAIN active => active[k].reqs \cap lost = {}
        BY <1>9 DEF IInv, CountedOnce
      <3> QED
        BY <1>4, <1>8, <3>1
    <2>4. \A b \in Sessions' : b.reqs \cap lost = {}
      BY <2>1, <2>3 DEF IInv, CountedOnce
    <2>5. new \notin Frozen
      BY <1>4, <1>8, <1>9
    <2>6. Range(active)' \cap Frozen = {}
      BY <1>6, <1>9, <2>5
    <2> QED
      BY <1>1, <1>5, <2>2, <2>4, <2>6 DEF IInv, CountedOnce, Frozen
  <1>14. at[r] <= now /\ now - at[r] <= MaxStall /\ now \in Nat /\ at[r] \in Nat
    BY <1>1 DEF IInv, Timely, TypeOK
  <1>15. Timely'
    <2>1. \A j \in DOMAIN active' : active'[j].first <= now
      BY <1>2, <1>4, <1>14 DEF IInv, Timely
    <2>2. \A q \in Requests : state'[q] = "stamped" => at[q] <= now /\ now - at[q] <= MaxStall
      BY <1>8 DEF IInv, Timely
    <2> QED
      BY <1>1, <1>5, <2>1, <2>2 DEF IInv, Timely
  <1>16. Apart'
    <2>1. ASSUME NEW a \in Frozen, NEW j \in DOMAIN active', a.key = j
          PROVE  Before(a, active'[j])
      <3>1. CASE j \in DOMAIN active
        <4>1. active'[j].first = active[j].first
          BY <1>2, <1>4, <3>1
        <4> QED
          BY <2>1, <3>1, <4>1 DEF IInv, Apart, Before
      <3>2. CASE j \notin DOMAIN active
        <4>1. active'[j].first = at[r]
          BY <1>2, <1>4, <3>2
        <4>2. now - a.last > MinTimeout /\ a.last \in Nat
          BY <1>9, SessionFacts DEF IInv, Timely
        <4> QED
          BY <1>14, <4>1, <4>2, TimeFacts DEF Before
      <3> QED
        BY <3>1, <3>2
    <2> QED
      BY <1>5, <2>1 DEF IInv, Apart, Before
  <1>17. DurationBounded'
    <2>1. new.first - new.last <= MaxStall
      <3>1. k \in DOMAIN active => active[k].first <= now /\ active[k].first \in Nat
        BY <1>3 DEF IInv, Timely, Session
      <3> QED
        BY <1>4, <1>14, <3>1, TimeFacts
    <2> QED
      BY <1>7, <1>9, <2>1 DEF IInv, DurationBounded
  <1> QED
    BY <1>10, <1>11, <1>12, <1>13, <1>15, <1>16, <1>17 DEF IInv

-----------------------------------------------------------------------------
(* The other actions create no session: they move some from one place to the
   next, or drop them. *)

(* No session is in two places. *)
Placed ==
  /\ \A i, j \in DOMAIN saved : i # j => saved[i] # saved[j]
  /\ \A s, t \in Sweepers : s # t => batch[s] \cap batch[t] = {}
  /\ Range(active) \cap Batches = {}
  /\ (Range(active) \cup Batches) \cap Range(saved) = {}

LEMMA MovesKeepIInv ==
  ASSUME IInv, TypeOK', Placed',
         now' = now, at' = at, access' = access, stamp' = stamp,
         \A r \in Requests :
           state'[r] # state[r] => state[r] = "stamped" /\ state'[r] = "gone",
         Sessions' \subseteq Sessions,
         lost' = lost \cup Members(Sessions \ Sessions'),
         \A k \in DOMAIN active' : k \in DOMAIN active /\ active'[k] = active[k],
         \A b \in Frozen' \ Frozen : /\ b \in Range(active) /\ now - b.last > MinTimeout
                                    /\ b.key \notin DOMAIN active'
  PROVE  IInv'
  <1>1. \A b \in Sessions : \A r \in b.reqs :
          r \in Requests /\ state[r] = "recorded" /\ state'[r] = "recorded"
                        /\ KeyOf(access[r]) = b.key
    BY SessionFacts DEF IInv, Owned
  <1>2. \A r : r \in lost' <=> r \in lost \/ \E b \in Sessions \ Sessions' : r \in b.reqs
    BY MemberFact
  <1>3. \A r \in lost' : r \in Requests /\ state'[r] = "recorded"
    <2> SUFFICES ASSUME NEW r \in lost' PROVE r \in Requests /\ state'[r] = "recorded"
      OBVIOUS
    <2>1. CASE r \in lost
      <3>1. r \in Requests /\ state[r] = "recorded"
        BY <2>1 DEF IInv, Owned, TypeOK
      <3> QED
        BY <3>1
    <2>2. CASE \E b \in Sessions : r \in b.reqs
      BY <1>1, <2>2
    <2> QED
      BY <1>2, <2>1, <2>2
  <1>4. Owned'
    BY <1>1, <1>3 DEF IInv, Owned, KeyOf
  <1>5. Accounted'
    <2> SUFFICES ASSUME NEW r \in Requests, state'[r] = "recorded", r \notin lost'
                 PROVE  \E b \in Sessions' : r \in b.reqs /\ b.key = KeyOf(access[r])
      BY DEF Accounted, KeyOf
    <2>1. PICK b \in Sessions : r \in b.reqs /\ b.key = KeyOf(access[r])
      BY <1>2 DEF IInv, Accounted
    <2> QED
      BY <1>2, <2>1
  <1>6. CountedOnce'
    <2>1. \A a, b \in Sessions' : a # b => a.reqs \cap b.reqs = {}
      BY DEF IInv, CountedOnce
    <2>2. ASSUME NEW b \in Sessions' PROVE b.reqs \cap lost' = {}
      <3>1. b.reqs \cap lost = {} /\ \A a \in Sessions \ Sessions' : a.reqs \cap b.reqs = {}
        BY DEF IInv, CountedOnce
      <3> QED
        BY <1>2, <3>1
    <2> QED
      BY <2>1, <2>2 DEF CountedOnce, Placed
  <1>7. Timely'
    BY DEF IInv, Timely
  <1>8. \A b \in Frozen' : b \in Frozen \/ (b \in Range(active) /\ b.key \notin DOMAIN active'
                                          /\ b.key \in DOMAIN active /\ b = active[b.key])
    BY DEF IInv, TypeOK, Range
  <1>9. \A a \in Frozen, b \in Range(active) : a.key = b.key => Before(a, b)
    BY DEF IInv, TypeOK, Apart, Range
  <1>10. \A a, b \in Frozen' : a # b /\ a.key = b.key => Before(a, b) \/ Before(b, a)
    BY <1>8, <1>9, ActiveKeys DEF IInv, Apart
  <1>11. \A a \in Frozen', k \in DOMAIN active' : a.key = k => Before(a, active'[k])
    BY <1>8 DEF IInv, Apart
  <1>12. Apart'
    BY <1>10, <1>11 DEF Apart, Before
  <1>13. DurationBounded'
    BY DEF IInv, DurationBounded
  <1> QED
    BY <1>4, <1>5, <1>6, <1>7, <1>12, <1>13 DEF IInv

LEMMA DrainKeepsIInv ==
  ASSUME IInv, NEW s \in Sweepers, Drain(s)
  PROVE  IInv'
  <1> DEFINE E == Expired(s)
             D == {active[k] : k \in E}
  <1>1. /\ phase[s] = "stamped" /\ now' = now /\ up' = up /\ state' = state /\ at' = at
        /\ access' = access /\ stamp' = stamp /\ saved' = saved /\ lost' = lost
        /\ batch' = [batch EXCEPT ![s] = D]
        /\ phase' = [phase EXCEPT ![s] = IF E = {} THEN "asleep" ELSE "drained"]
    BY DEF Drain, requests
  <1>2. /\ DOMAIN active' = DOMAIN active \ E
        /\ \A k \in DOMAIN active' : k \in DOMAIN active /\ active'[k] = active[k]
    BY DEF Drain
  <1>3. /\ E \subseteq DOMAIN active
        /\ \A k \in E : stamp[s] - active[k].last > Timeout(s)
    BY DEF Expired
  <1>4. TypeOK
    BY DEF IInv
  <1>5. batch[s] = {} /\ \A t \in Sweepers : batch'[t] = IF t = s THEN D ELSE batch[t]
    BY <1>1, <1>4 DEF TypeOK
  <1>6. D \subseteq Range(active) /\ D \subseteq Session /\ (D = {} <=> E = {})
    <2>1. \A k \in E : active[k] \in Range(active) /\ active[k] \in Session
      BY <1>3, <1>4 DEF TypeOK, Range
    <2> QED
      BY <2>1
  <1>7. \A b : b \in Batches' <=> b \in Batches \/ b \in D
    BY <1>5 DEF Batches
  <1>8. \A b : b \in Range(active)' <=> b \in Range(active) /\ b \notin D
    BY <1>2, <1>3, <1>4 DEF Range, TypeOK
  <1>9. Range(saved)' = Range(saved)
    BY <1>1 DEF Range
  <1>10. Sessions' = Sessions /\ \A b : b \in Frozen' <=> b \in Frozen \/ b \in D
    BY <1>6, <1>7, <1>8, <1>9 DEF Sessions, Frozen
  <1>11. TypeOK'
    <2>1. batch' \in [Sweepers -> SUBSET Session]
      BY <1>1, <1>4, <1>6 DEF TypeOK
    <2>2. phase' \in [Sweepers -> {"asleep", "stamped", "drained", "saving", "dead"}]
      BY <1>1, <1>4 DEF TypeOK
    <2>3. \A t \in Sweepers : phase'[t] \in {"drained", "saving"} <=> batch'[t] # {}
      BY <1>1, <1>4, <1>5, <1>6 DEF TypeOK
    <2>4. DOMAIN active' \subseteq Keys
      BY <1>2, <1>4 DEF TypeOK
    <2>5. \A k \in DOMAIN active' : active'[k] \in Session /\ active'[k].key = k
      BY <1>2, <1>4 DEF TypeOK
    <2> QED
      BY <1>1, <1>4, <2>1, <2>2, <2>3, <2>4, <2>5 DEF TypeOK
  <1>12. Placed'
    <2>1. Placed
      BY DEF IInv, CountedOnce, Placed
    <2>2. \A t, u \in Sweepers : t # u => batch'[t] \cap batch'[u] = {}
      <3>1. \A t \in Sweepers : batch[t] \subseteq Batches
        BY DEF Batches
      <3>2. \A t \in Sweepers : D \cap batch[t] = {}
        BY <1>6, <2>1, <3>1 DEF Placed
      <3>3. \A t, u \in Sweepers : t # u => batch[t] \cap batch[u] = {}
        BY <2>1 DEF Placed
      <3> HIDE DEF D
      <3> QED
        BY <1>5, <3>2, <3>3
    <2>3. Range(active)' \cap Batches' = {}
      BY <1>7, <1>8, <2>1 DEF Placed
    <2>4. (Range(active)' \cup Batches') \cap Range(saved)' = {}
      BY <1>6, <1>7, <1>8, <1>9, <2>1 DEF Placed
    <2> QED
      BY <1>1, <2>1, <2>2, <2>3, <2>4 DEF Placed
  <1>13. ASSUME NEW b \in D
         PROVE  b \in Range(active) /\ now - b.last > MinTimeout /\ b.key \notin DOMAIN active'
    <2>1. PICK k \in E : b = active[k]
      OBVIOUS
    <2>2. b.key = k /\ b.last \in Nat
      BY <1>3, <1>4, <2>1 DEF TypeOK, Session
    <2>3. stamp[s] <= now /\ stamp[s] \in Nat /\ now \in Nat
      BY <1>4 DEF IInv, Timely, TypeOK
    <2> QED
      BY <1>2, <1>3, <1>6, <2>1, <2>2, <2>3, TimeFacts
  <1>14. lost' = lost \cup Members(Sessions \ Sessions')
    BY <1>1, <1>10 DEF Members
  <1>15. \A r \in Requests :
           state'[r] # state[r] => state[r] = "stamped" /\ state'[r] = "gone"
    BY <1>1
  <1>16. /\ Sessions' \subseteq Sessions
         /\ \A b \in Frozen' \ Frozen : /\ b \in Range(active) /\ now - b.last > MinTimeout
                                       /\ b.key \notin DOMAIN active'
    BY <1>10, <1>13
  <1> HIDE DEF E, D
  <1> QED
    BY <1>1, <1>2, <1>11, <1>12, <1>14, <1>15, <1>16, MovesKeepIInv

LEMMA SaveOneKeepsIInv ==
  ASSUME IInv, NEW s \in Sweepers, SaveOne(s)
  PROVE  IInv'
  <1>1. PICK b \in batch[s] :
          /\ saved' = Append(saved, b)
          /\ batch' = [batch EXCEPT ![s] = @ \ {b}]
          /\ phase' = [phase EXCEPT ![s] = IF batch[s] = {b} THEN "asleep" ELSE "saving"]
    BY DEF SaveOne
  <1>2. /\ now' = now /\ up' = up /\ state' = state /\ at' = at /\ access' = access
        /\ stamp' = stamp /\ active' = active /\ lost' = lost
    BY DEF SaveOne, requests
  <1>3. TypeOK /\ Placed
    BY DEF IInv, CountedOnce, Placed
  <1>4. b \in Session /\ saved \in Seq(Session)
    BY <1>3 DEF TypeOK
  <1>5. \A t \in Sweepers : batch'[t] = IF t = s THEN batch[t] \ {b} ELSE batch[t]
    BY <1>1, <1>3 DEF TypeOK
  <1>6. \A c : c \in Batches' <=> c \in Batches /\ c # b
    <2>1. \A t \in Sweepers : t # s => b \notin batch[t]
      BY <1>3 DEF Placed
    <2>2. \A c : c \in Batches' <=> \E t \in Sweepers : c \in batch'[t]
      BY DEF Batches
    <2>3. \A t \in Sweepers : \A c : c \in batch'[t] <=> c \in batch[t] /\ c # b
      BY <1>5, <2>1
    <2> QED
      BY <2>2, <2>3, InSessions
  <1>7. b \in Batches /\ b \notin Range(saved) /\ b \notin Range(active)
    BY <1>3 DEF Batches, Placed
  <1>8. /\ DOMAIN saved' = 1..(Len(saved) + 1) /\ DOMAIN saved = 1..Len(saved)
        /\ Len(saved) \in Nat
        /\ \A i \in DOMAIN saved : saved'[i] = saved[i]
        /\ saved'[Len(saved) + 1] = b
    BY <1>1, <1>4
  <1>9. \A c : c \in Range(saved)' <=> c \in Range(saved) \/ c = b
    BY <1>8 DEF Range
  <1>10. Range(active)' = Range(active)
    BY <1>2 DEF Range
  <1>11. Sessions' = Sessions /\ Frozen' = Frozen
    BY <1>6, <1>7, <1>9, <1>10 DEF Sessions, Frozen
  <1>12. TypeOK'
    <2>1. batch' \in [Sweepers -> SUBSET Session] /\ saved' \in Seq(Session)
      BY <1>1, <1>3, <1>4 DEF TypeOK
    <2>2. /\ phase' \in [Sweepers -> {"asleep", "stamped", "drained", "saving", "dead"}]
          /\ \A t \in Sweepers : phase'[t] \in {"drained", "saving"} <=> batch'[t] # {}
      BY <1>1, <1>3, <1>5 DEF TypeOK
    <2> QED
      BY <1>2, <1>3, <2>1, <2>2 DEF TypeOK
  <1>13. Placed'
    <2>1. \A i, j \in DOMAIN saved' : i # j => saved'[i] # saved'[j]
      <3>1. \A i \in DOMAIN saved : saved[i] # b
        BY <1>7 DEF Range
      <3> QED
        BY <1>3, <1>8, <3>1 DEF Placed
    <2>2. \A t, u \in Sweepers : t # u => batch'[t] \cap batch'[u] = {}
      BY <1>3, <1>5 DEF Placed
    <2>3. Range(active)' \cap Batches' = {}
      BY <1>3, <1>6, <1>10 DEF Placed
    <2>4. (Range(active)' \cup Batches') \cap Range(saved)' = {}
      BY <1>3, <1>6, <1>7, <1>9, <1>10 DEF Placed
    <2> QED
      BY <2>1, <2>2, <2>3, <2>4 DEF Placed
  <1>14. lost' = lost \cup Members(Sessions \ Sessions')
    BY <1>2, <1>11 DEF Members
  <1>15. \A r \in Requests :
           state'[r] # state[r] => state[r] = "stamped" /\ state'[r] = "gone"
    BY <1>2
  <1>16. /\ Sessions' \subseteq Sessions
         /\ \A k \in DOMAIN active' : k \in DOMAIN active /\ active'[k] = active[k]
         /\ \A c \in Frozen' \ Frozen : /\ c \in Range(active) /\ now - c.last > MinTimeout
                                       /\ c.key \notin DOMAIN active'
    BY <1>2, <1>11
  <1> QED
    BY <1>2, <1>12, <1>13, <1>14, <1>15, <1>16, MovesKeepIInv

LEMMA SaveFailsKeepsIInv ==
  ASSUME IInv, NEW s \in Sweepers, SaveFails(s)
  PROVE  IInv'
  <1>1. /\ now' = now /\ up' = up /\ state' = state /\ at' = at /\ access' = access
        /\ stamp' = stamp /\ active' = active /\ saved' = saved
        /\ lost' = lost \cup Members(batch[s])
        /\ batch' = [batch EXCEPT ![s] = {}]
        /\ phase' = [phase EXCEPT ![s] = IF s = "limits" THEN "dead" ELSE "asleep"]
    BY DEF SaveFails, requests
  <1>2. TypeOK /\ Placed
    BY DEF IInv, CountedOnce, Placed
  <1>3. \A t \in Sweepers : batch'[t] = IF t = s THEN {} ELSE batch[t]
    BY <1>1, <1>2 DEF TypeOK
  <1>4. \A b : b \in Batches' <=> b \in Batches /\ b \notin batch[s]
    <2>1. \A t \in Sweepers : \A b : b \in batch'[t] <=> b \in batch[t] /\ b \notin batch[s]
      BY <1>2, <1>3 DEF Placed
    <2>2. \A b : b \in Batches' <=> \E t \in Sweepers : b \in batch'[t]
      BY DEF Batches
    <2> QED
      BY <2>1, <2>2, InSessions
  <1>5. Range(active)' = Range(active) /\ Range(saved)' = Range(saved)
    BY <1>1 DEF Range
  <1>6. \A b \in batch[s] : b \in Batches /\ b \notin Range(active) /\ b \notin Range(saved)
    BY <1>2, InSessions DEF Placed
  <1>7. /\ \A b : b \in Sessions' <=> b \in Sessions /\ b \notin batch[s]
        /\ Frozen' \subseteq Frozen
    BY <1>4, <1>5, <1>6 DEF Sessions, Frozen
  <1>8. Sessions \ Sessions' = batch[s]
    BY <1>6, <1>7 DEF Sessions
  <1>9. TypeOK'
    <2>1. \A r \in Members(batch[s]) : r \in Requests
      BY <1>2, MemberFact DEF TypeOK, Session
    <2>2. batch' \in [Sweepers -> SUBSET Session] /\ lost' \subseteq Requests
      BY <1>1, <1>2, <2>1 DEF TypeOK
    <2>3. /\ phase' \in [Sweepers -> {"asleep", "stamped", "drained", "saving", "dead"}]
          /\ \A t \in Sweepers : phase'[t] \in {"drained", "saving"} <=> batch'[t] # {}
      BY <1>1, <1>2, <1>3 DEF TypeOK
    <2> QED
      BY <1>1, <1>2, <2>2, <2>3 DEF TypeOK
  <1>10. Placed'
    BY <1>1, <1>2, <1>3, <1>4, <1>5 DEF Placed
  <1>11. /\ lost' = lost \cup Members(Sessions \ Sessions')
         /\ Sessions' \subseteq Sessions
         /\ \A r \in Requests :
              state'[r] # state[r] => state[r] = "stamped" /\ state'[r] = "gone"
         /\ \A k \in DOMAIN active' : k \in DOMAIN active /\ active'[k] = active[k]
         /\ \A b \in Frozen' \ Frozen : /\ b \in Range(active) /\ now - b.last > MinTimeout
                                       /\ b.key \notin DOMAIN active'
    BY <1>1, <1>7, <1>8
  <1> QED
    BY <1>1, <1>9, <1>10, <1>11, MovesKeepIInv

LEMMA ClearKeepsIInv ==
  ASSUME IInv, Clear
  PROVE  IInv'
  <1>1. /\ now' = now /\ up' = up /\ state' = state /\ at' = at /\ access' = access
        /\ phase' = phase /\ stamp' = stamp /\ batch' = batch /\ saved' = <<>>
        /\ lost' = lost \cup Members(Range(saved) \cup Range(active))
        /\ DOMAIN active' = {}
    BY DEF Clear, requests, sweeps
  <1>2. TypeOK /\ Placed
    BY DEF IInv, CountedOnce, Placed
  <1>3. Range(active)' = {} /\ Range(saved)' = {} /\ Batches' = Batches
    BY <1>1 DEF Range, Batches
  <1>4. Sessions' = Batches /\ Frozen' = Batches
    BY <1>3 DEF Sessions, Frozen
  <1>5. Sessions \ Sessions' = Range(saved) \cup Range(active)
    BY <1>2, <1>4 DEF Sessions, Placed
  <1>6. TypeOK'
    <2>1. \A r \in Members(Range(saved) \cup Range(active)) : r \in Requests
      BY <1>2, MemberFact, SessionFacts DEF Sessions
    <2>2. lost' \subseteq Requests
      BY <1>1, <1>2, <2>1 DEF TypeOK
    <2>3. saved' \in Seq(Session)
      BY <1>1
    <2> QED
      BY <1>1, <1>2, <2>2, <2>3 DEF TypeOK
  <1>7. Placed'
    BY <1>1, <1>2, <1>3 DEF Placed
  <1>8. /\ lost' = lost \cup Members(Sessions \ Sessions')
        /\ Sessions' \subseteq Sessions
        /\ \A r \in Requests :
             state'[r] # state[r] => state[r] = "stamped" /\ state'[r] = "gone"
        /\ \A k \in DOMAIN active' : k \in DOMAIN active /\ active'[k] = active[k]
        /\ \A b \in Frozen' \ Frozen : /\ b \in Range(active) /\ now - b.last > MinTimeout
                                      /\ b.key \notin DOMAIN active'
    BY <1>1, <1>4, <1>5 DEF Sessions, Frozen
  <1> QED
    BY <1>1, <1>6, <1>7, <1>8, MovesKeepIInv

LEMMA StopKeepsIInv ==
  ASSUME IInv, Stop
  PROVE  IInv'
  <1>1. /\ now' = now /\ up' = FALSE /\ at' = at /\ access' = access /\ stamp' = stamp
        /\ state' = [r \in Requests |-> IF state[r] = "stamped" THEN "gone" ELSE state[r]]
        /\ batch' = [s \in Sweepers |-> {}] /\ phase' = [s \in Sweepers |-> "asleep"]
        /\ lost' = lost \cup Members(Range(active) \cup Batches)
        /\ saved' = saved /\ DOMAIN active' = {}
    BY DEF Stop
  <1>2. TypeOK /\ Placed
    BY DEF IInv, CountedOnce, Placed
  <1>3. Range(active)' = {} /\ Range(saved)' = Range(saved) /\ Batches' = {}
    BY <1>1 DEF Range, Batches
  <1>4. Sessions' = Range(saved) /\ Frozen' = Range(saved)
    BY <1>3 DEF Sessions, Frozen
  <1>5. Sessions \ Sessions' = Range(active) \cup Batches
    BY <1>2, <1>4 DEF Sessions, Placed
  <1>6. TypeOK'
    <2>1. \A r \in Members(Range(active) \cup Batches) : r \in Requests
      BY <1>2, MemberFact, SessionFacts DEF Sessions
    <2>2. state' \in [Requests -> {"ready", "stamped", "recorded", "gone"}]
      BY <1>1, <1>2 DEF TypeOK
    <2> QED
      BY <1>1, <1>2, <2>1, <2>2 DEF TypeOK
  <1>7. Placed'
    BY <1>1, <1>2, <1>3 DEF Placed
  <1>8. /\ lost' = lost \cup Members(Sessions \ Sessions')
        /\ Sessions' \subseteq Sessions
        /\ \A r \in Requests :
             state'[r] # state[r] => state[r] = "stamped" /\ state'[r] = "gone"
        /\ \A k \in DOMAIN active' : k \in DOMAIN active /\ active'[k] = active[k]
        /\ \A b \in Frozen' \ Frozen : /\ b \in Range(active) /\ now - b.last > MinTimeout
                                      /\ b.key \notin DOMAIN active'
    BY <1>1, <1>4, <1>5 DEF Sessions, Frozen
  <1> QED
    BY <1>1, <1>6, <1>7, <1>8, MovesKeepIInv

-----------------------------------------------------------------------------
LEMMA NextKeepsIInv == IInv /\ [Next]_vars => IInv'
  <1> SUFFICES ASSUME IInv, [Next]_vars PROVE IInv'
    OBVIOUS
  <1>1. ASSUME NEW r \in Requests, Request(r) PROVE IInv'
    BY <1>1, StampKeepsIInv, RecordKeepsIInv DEF Request
  <1>2. ASSUME NEW s \in Sweepers, Sweep(s) PROVE IInv'
    BY <1>2, ClockKeepsIInv, DrainKeepsIInv, SaveOneKeepsIInv, SaveFailsKeepsIInv DEF Sweep
  <1>3. CASE Clear
    BY <1>3, ClearKeepsIInv
  <1>4. CASE Exit \/ Crash
    BY <1>4, StopKeepsIInv DEF Exit, Crash
  <1>5. CASE Restart \/ Tick \/ UNCHANGED vars
    BY <1>5, ClockKeepsIInv
  <1> QED
    BY <1>1, <1>2, <1>3, <1>4, <1>5 DEF Next

LEMMA Inductive == Spec => []IInv
  BY InitIInv, NextKeepsIInv, PTL DEF Spec

(* The types of AccessLog; a sweep has a batch exactly while it saves one. *)
THEOREM TypeCorrect == Spec => []TypeOK
  <1>1. IInv => TypeOK
    BY DEF IInv
  <1> QED
    BY <1>1, Inductive, PTL

(* No request is counted by two sessions or rows, or by one after it was
   dropped, however requests and the two sweeps interleave. *)
THEOREM NeverTwice == Spec => []CountedOnce
  <1>1. IInv => CountedOnce
    BY DEF IInv
  <1> QED
    BY <1>1, Inductive, PTL

(* Every recorded request is counted by a session of its own key, unless that
   session was dropped. *)
THEOREM NeverForgotten == Spec => []Accounted
  <1>1. IInv => Accounted
    BY DEF IInv
  <1> QED
    BY <1>1, Inductive, PTL

(* Two sessions of one key are separated by an idle pause. *)
THEOREM PauseBetween == Spec => []IdleBetweenSessions
  <1>1. IInv => IdleBetweenSessions
    <2> SUFFICES ASSUME IInv, NEW a \in Sessions, NEW b \in Sessions, a # b, a.key = b.key
                 PROVE  Before(a, b) \/ Before(b, a)
      BY DEF IdleBetweenSessions
    <2>1. CASE a \in Range(active) /\ b \in Range(active)
      BY <2>1, ActiveKeys DEF IInv
    <2>2. \A c \in Frozen, d \in Range(active) : c.key = d.key => Before(c, d)
      BY DEF IInv, TypeOK, Apart, Range
    <2> QED
      BY <2>1, <2>2, InSessions DEF IInv, Apart
  <1> QED
    BY <1>1, Inductive, PTL

(* A session's last access is not before its first one by more than a request
   may wait for the lock. *)
THEOREM DurationAlmostRight == Spec => []DurationBounded
  <1>1. IInv => DurationBounded
    BY DEF IInv
  <1> QED
    BY <1>1, Inductive, PTL

-----------------------------------------------------------------------------
(* AccessLog implements SessionLedger: what may still grow or is on its way
   to the table is open, and moving a session moves its group. *)

Open == Range(active) \cup Batches
Rows == [i \in DOMAIN saved |-> saved[i].reqs]

(* Different sessions have different groups, so groups can be taken out like
   sessions. *)
LEMMA GroupFacts ==
  ASSUME IInv
  PROVE  /\ Open \subseteq Sessions
         /\ \A A \in SUBSET Open : /\ Groups(A) \in SUBSET Groups(Open)
                                   /\ Groups(Open \ A) = Groups(Open) \ Groups(A)
         /\ \A A : Ledger!Members(Groups(A)) = Members(A)
         /\ Ledger!InRows = Members(Range(saved))
         /\ Rows \in Seq(SUBSET Requests)
  <1>1. Open \subseteq Sessions
    BY DEF Open, Sessions
  <1>2. \A a, b \in Open : a.reqs = b.reqs => a = b
    BY <1>1 DEF IInv, Owned, CountedOnce
  <1>3. ASSUME NEW A \in SUBSET Open
        PROVE  /\ Groups(A) \in SUBSET Groups(Open)
               /\ Groups(Open \ A) = Groups(Open) \ Groups(A)
    BY <1>2 DEF Groups
  <1>4. \A A : Ledger!Members(Groups(A)) = Members(A)
    BY DEF Ledger!Members, Members, Groups
  <1>5. Ledger!InRows = Members(Range(saved))
    BY DEF Ledger!InRows, Members, Range
  <1>6. Rows \in Seq(SUBSET Requests)
    <2>1. DOMAIN saved = 1..Len(saved) /\ Len(saved) \in Nat
      BY SessionFacts DEF IInv
    <2>2. \A i \in 1..Len(saved) : saved[i].reqs \in SUBSET Requests
      BY <2>1, SessionFacts DEF IInv, Session
    <2> QED
      BY <2>1, <2>2, IsASeq DEF Rows
  <1> QED
    BY <1>1, <1>3, <1>4, <1>5, <1>6

(* A step that takes the sessions A out of Open and keeps the rows. *)
LEMMA TakenOut ==
  ASSUME IInv, NEW A \in SUBSET Open, Open' = Open \ A
  PROVE  Groups(Open)' = Groups(Open) \ Groups(A)
  BY GroupFacts DEF Groups

LEMMA RecordCounts ==
  ASSUME IInv, NEW r \in Requests, Record(r)
  PROVE  Ledger!Count(r)
  <1> DEFINE k == KeyOf(access[r])
             new == IF k \in DOMAIN active THEN Touch(active[k], r) ELSE NewSession(r)
  <1>1. /\ state[r] = "stamped" /\ batch' = batch /\ saved' = saved /\ lost' = lost
        /\ DOMAIN active' = DOMAIN active \cup {k} /\ active'[k] = new
        /\ \A j \in DOMAIN active \ {k} : active'[j] = active[j]
    BY DEF Record, sweeps
  <1>2. r \notin lost /\ \A b \in Sessions : r \notin b.reqs
    BY <1>1 DEF IInv, Owned
  <1>3. new.reqs = IF k \in DOMAIN active THEN active[k].reqs \cup {r} ELSE {r}
    BY DEF IInv, TypeOK, Touch, NewSession, Session
  <1>4. Open \subseteq Sessions /\ Range(saved) \subseteq Sessions
    BY DEF Open, Sessions
  <1>5. r \notin Ledger!Members(Groups(Open)) \cup Ledger!InRows \cup lost
    BY <1>2, <1>4, GroupFacts, MemberFact
  <1>6. \A b : b \in Open <=> b \in Batches \/ \E j \in DOMAIN active : b = active[j]
    BY DEF Open, Range
  <1>7. \A b : b \in Open' <=>
              b = new \/ b \in Batches \/ \E j \in DOMAIN active \ {k} : b = active[j]
    <2>1. Batches' = Batches
      BY <1>1 DEF Batches
    <2> QED
      BY <1>1, <2>1 DEF Open, Range
  <1>8. CASE k \notin DOMAIN active
    <2>1. Open' = Open \cup {new} /\ new.reqs = {r}
      BY <1>3, <1>6, <1>7, <1>8
    <2>2. Groups(Open)' = Groups(Open) \cup {{r}}
      <3> HIDE DEF new, k
      <3>1. \A b : b \in Open' <=> b \in Open \/ b = new
        BY <2>1
      <3>2. \A g : g \in Groups(Open)' <=> \E b \in Open' : g = b.reqs
        BY DEF Groups
      <3>3. \A g : g \in Groups(Open) <=> \E b \in Open : g = b.reqs
        BY DEF Groups
      <3> QED
        BY <2>1, <3>1, <3>2, <3>3
    <2> QED
      BY <1>1, <1>5, <2>2 DEF Ledger!Count, Open
  <1>9. CASE k \in DOMAIN active
    <2> DEFINE old == active[k]
    <2>1. old \in Open /\ {old} \in SUBSET Open
      BY <1>6, <1>9
    <2>2. \A b \in Open : b # old => b \in Batches \/ \E j \in DOMAIN active \ {k} : b = active[j]
      BY <1>6
    <2>3. old \notin Batches
      BY <1>9 DEF IInv, CountedOnce, Range
    <2>4. \A j \in DOMAIN active \ {k} : active[j] # old
      <3>1. \A j \in DOMAIN active : active[j].key = j
        BY DEF IInv, TypeOK
      <3> QED
        BY <1>9, <3>1
    <2>5. Open' = (Open \ {old}) \cup {new}
      BY <1>6, <1>7, <1>9, <2>2, <2>3, <2>4
    <2>6. new.reqs = old.reqs \cup {r}
      BY <1>3, <1>9
    <2>7. Groups(Open)' = (Groups(Open) \ {old.reqs}) \cup {old.reqs \cup {r}}
      <3> HIDE DEF new, old, k
      <3>1. Groups(Open \ {old}) = Groups(Open) \ {old.reqs}
        <4>1. Groups({old}) = {old.reqs}
          BY DEF Groups
        <4>2. Groups(Open \ {old}) = Groups(Open) \ Groups({old})
          BY <2>1, GroupFacts
        <4> QED
          BY <4>1, <4>2
      <3>2. Groups(Open)' = Groups(Open \ {old}) \cup {new.reqs}
        BY <2>5 DEF Groups
      <3> QED
        BY <2>6, <3>1, <3>2
    <2>8. old.reqs \in Groups(Open)
      BY <2>1 DEF Groups
    <2> QED
      BY <1>1, <1>5, <2>7, <2>8 DEF Ledger!Count, Open
  <1> QED
    BY <1>8, <1>9

LEMMA DrainCountsNothing ==
  ASSUME IInv, NEW s \in Sweepers, Drain(s)
  PROVE  Open' = Open /\ saved' = saved /\ lost' = lost
  <1> DEFINE D == {active[k] : k \in Expired(s)}
  <1>1. /\ phase[s] = "stamped" /\ saved' = saved /\ lost' = lost
        /\ batch' = [batch EXCEPT ![s] = D]
        /\ DOMAIN active' = DOMAIN active \ Expired(s)
        /\ \A k \in DOMAIN active' : active'[k] = active[k]
    BY DEF Drain
  <1>2. Expired(s) \subseteq DOMAIN active
    BY DEF Expired
  <1>3. batch[s] = {} /\ \A t \in Sweepers : batch'[t] = IF t = s THEN D ELSE batch[t]
    BY <1>1 DEF IInv, TypeOK
  <1>4. \A b : b \in Batches' <=> b \in Batches \/ b \in D
    BY <1>3 DEF Batches
  <1>5. \A b : b \in Range(active)' \/ b \in D <=> b \in Range(active)
    BY <1>1, <1>2 DEF Range
  <1> QED
    BY <1>1, <1>4, <1>5 DEF Open

LEMMA SaveOneWrites ==
  ASSUME IInv, NEW s \in Sweepers, SaveOne(s)
  PROVE  \E g \in Groups(Open) : Ledger!Write(g)
  <1>1. PICK b \in batch[s] :
          saved' = Append(saved, b) /\ batch' = [batch EXCEPT ![s] = @ \ {b}]
    BY DEF SaveOne
  <1>2. active' = active /\ lost' = lost
    BY DEF SaveOne
  <1>3. \A t \in Sweepers : \A c : c \in batch'[t] <=> c \in batch[t] /\ c # b
    BY <1>1 DEF IInv, TypeOK, CountedOnce
  <1>4. b \in Batches /\ b \notin Range(active) /\ b \in Session
    BY InSessions DEF IInv, CountedOnce, TypeOK
  <1>5. Open' = Open \ {b} /\ {b} \in SUBSET Open
    <2>1. \A c : c \in Batches' <=> c \in Batches /\ c # b
      BY <1>3 DEF Batches
    <2>2. Range(active)' = Range(active)
      BY <1>2 DEF Range
    <2> QED
      BY <1>4, <2>1, <2>2 DEF Open
  <1>6. Groups(Open)' = Groups(Open) \ {b.reqs} /\ b.reqs \in Groups(Open)
    BY <1>5, TakenOut DEF Groups
  <1>7. Rows' = Append(Rows, b.reqs)
    <2>1. /\ saved \in Seq(Session) /\ saved' \in Seq(Session)
          /\ Len(saved) \in Nat /\ DOMAIN saved = 1..Len(saved)
          /\ DOMAIN saved' = 1..(Len(saved) + 1)
          /\ \A i \in 1..Len(saved) : saved'[i] = saved[i]
          /\ saved'[Len(saved) + 1] = b
      BY <1>1, <1>4, SessionFacts DEF IInv, TypeOK
    <2>2. Rows \in Seq(SUBSET Requests) /\ b.reqs \in SUBSET Requests
      BY <1>4, GroupFacts DEF Session
    <2>3. Len(Rows) = Len(saved) /\ \A i \in 1..Len(saved) : Rows[i] = saved[i].reqs
      BY <2>1, <2>2 DEF Rows
    <2>4. /\ DOMAIN Rows' = 1..(Len(saved) + 1)
          /\ \A i \in 1..(Len(saved) + 1) : Rows'[i] = saved'[i].reqs
          /\ Rows' = [i \in 1..(Len(saved) + 1) |-> saved'[i].reqs]
      BY <2>1 DEF Rows
    <2>5. Append(Rows, b.reqs) = [i \in 1..(Len(saved) + 1) |->
                                    IF i = Len(saved) + 1 THEN b.reqs ELSE Rows[i]]
      BY <2>1, <2>2, <2>3
    <2> QED
      BY <2>1, <2>3, <2>4, <2>5
  <1> QED
    BY <1>2, <1>6, <1>7 DEF Ledger!Write, Open, Rows

LEMMA SaveFailsDrops ==
  ASSUME IInv, NEW s \in Sweepers, SaveFails(s)
  PROVE  \E gs \in SUBSET Groups(Open) : Ledger!Drop(gs)
  <1>1. /\ active' = active /\ saved' = saved
        /\ lost' = lost \cup Members(batch[s]) /\ batch' = [batch EXCEPT ![s] = {}]
    BY DEF SaveFails
  <1>2. \A t \in Sweepers : \A b : b \in batch'[t] <=> b \in batch[t] /\ b \notin batch[s]
    BY <1>1 DEF IInv, TypeOK, CountedOnce
  <1>3. \A b \in batch[s] : b \in Batches /\ b \notin Range(active)
    BY InSessions DEF IInv, CountedOnce
  <1>4. Open' = Open \ batch[s] /\ batch[s] \in SUBSET Open
    <2>1. \A b : b \in Batches' <=> b \in Batches /\ b \notin batch[s]
      BY <1>2 DEF Batches
    <2>2. Range(active)' = Range(active)
      BY <1>1 DEF Range
    <2> QED
      BY <1>3, <2>1, <2>2 DEF Open
  <1> QED
    BY <1>1, <1>4, TakenOut, GroupFacts DEF Ledger!Drop, Open

LEMMA ClearClears ==
  ASSUME IInv, Clear
  PROVE  \E gs \in SUBSET Groups(Open) : Ledger!Clear(gs)
  <1>1. /\ batch' = batch /\ saved' = <<>> /\ DOMAIN active' = {}
        /\ lost' = lost \cup Members(Range(saved) \cup Range(active))
    BY DEF Clear, sweeps
  <1>2. Range(active)' = {} /\ Batches' = Batches
    BY <1>1 DEF Range, Batches
  <1>3. Open' = Open \ Range(active) /\ Range(active) \in SUBSET Open
    BY <1>2 DEF Open, IInv, CountedOnce
  <1>4. Rows' = <<>>
    BY <1>1 DEF Rows
  <1>5. lost' = lost \cup Members(Range(active)) \cup Members(Range(saved))
    BY <1>1 DEF Members
  <1> QED
    BY <1>3, <1>4, <1>5, TakenOut, GroupFacts DEF Ledger!Clear, Open, Rows

LEMMA StopDrops ==
  ASSUME IInv, Stop
  PROVE  \E gs \in SUBSET Groups(Open) : Ledger!Drop(gs)
  <1>1. /\ saved' = saved /\ DOMAIN active' = {} /\ batch' = [s \in Sweepers |-> {}]
        /\ lost' = lost \cup Members(Open)
    BY DEF Stop, Open
  <1>2. Open' = Open \ Open
    BY <1>1 DEF Open, Range, Batches
  <1> QED
    BY <1>1, <1>2, TakenOut, GroupFacts DEF Ledger!Drop, Open

(* The access log counts requests as SessionLedger does: every step of it is
   one of the ledger's, or none. *)
THEOREM LedgerImplemented == Spec => LedgerKept
  <1>1. Init => Ledger!Init
    BY DEF Init, Ledger!Init, Groups, Range, Batches
  <1>2. IInv /\ [Next]_vars => [Ledger!Next]_<<Groups(Open), Rows, lost>>
    <2> SUFFICES ASSUME IInv, [Next]_vars
                 PROVE  [Ledger!Next]_<<Groups(Open), Rows, lost>>
      OBVIOUS
    <2>1. ASSUME NEW r \in Requests, Record(r) PROVE Ledger!Next
      BY <2>1, RecordCounts DEF Ledger!Next
    <2>2. ASSUME NEW s \in Sweepers, SaveOne(s) PROVE Ledger!Next
      BY <2>2, SaveOneWrites DEF Ledger!Next, Open
    <2>3. ASSUME NEW s \in Sweepers, SaveFails(s) PROVE Ledger!Next
      BY <2>3, SaveFailsDrops DEF Ledger!Next, Open
    <2>4. CASE Clear
      BY <2>4, ClearClears DEF Ledger!Next, Open
    <2>5. CASE Stop
      BY <2>5, StopDrops DEF Ledger!Next, Open
    <2>6. ASSUME NEW s \in Sweepers, Drain(s)
          PROVE  UNCHANGED <<Groups(Open), Rows, lost>>
      BY <2>6, DrainCountsNothing DEF Groups, Rows
    <2>7. ASSUME UNCHANGED <<active, batch, saved, lost>>
          PROVE  UNCHANGED <<Groups(Open), Rows, lost>>
      BY <2>7 DEF Groups, Rows, Open, Range, Batches
    <2> QED
      BY <2>1, <2>2, <2>3, <2>4, <2>5, <2>6, <2>7
      DEF Next, Request, Sweep, Stamp, Wake, Exit, Crash, Restart, Tick, vars, sweeps
  <1> QED
    BY <1>1, <1>2, Inductive, PTL DEF Spec, LedgerKept, Ledger!Spec, Open, Rows
=============================================================================
