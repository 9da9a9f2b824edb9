---------------------------- MODULE ServeProofs ----------------------------
(***************************************************************************)
(* Proofs about Serve and the Api it composes, for every number of         *)
(* requests and tokens and every cap of the two lists. The invariant has   *)
(* one part for each of the three: the requests (ApiIInv, above all that   *)
(* the line at the mutex and the stages of the requests say the same), the *)
(* lists (each is the newest entries in order, ListsInv) and the process   *)
(* (ProcessInv).                                                           *)
(***************************************************************************)
EXTENDS Serve, SequenceTheorems, FiniteSetTheorems, TLAPS

InLine == {"auth", "call", "handling"}

(* The line holds, once each, the requests that wait for the mutex or hold it;
   a handler holds it. *)
Lined ==
  /\ line \in Seq(Calls)
  /\ \A i, j \in 1..Len(line) : line[i] = line[j] => i = j
  /\ \A i \in 1..Len(line) : stage[line[i]] \in InLine
  /\ \A r \in Calls : stage[r] \in InLine => \E i \in 1..Len(line) : line[i] = r
  /\ \A r \in Calls : stage[r] = "handling" => HasLock(r)

ApiTypes ==
  /\ tokens \subseteq Tokens
  /\ stage \in [Calls -> Stages]
  /\ bearer \in [Calls -> Tokens \cup {None}]
  /\ reply \in [Calls -> Replies \cup {None}]

(* A request is past authentication, or is answered by a handler, only with
   a token of the store; one entitled when it arrived is not refused. *)
Entitlement(r) ==
  /\ stage[r] = "answered" <=> reply[r] # None
  /\ stage[r] \in {"body", "call", "handling"} \/ reply[r] \in {"ok", "error"} =>
       bearer[r] \in tokens
  /\ r \in entitled =>
       bearer[r] \in tokens /\ reply[r] # "unauthorized" /\ stage[r] # "new"

ApiIInv ==
  /\ ApiTypes
  /\ Lined
  /\ \A r \in Calls : Entitlement(r)

-----------------------------------------------------------------------------
(* A request that starts to wait joins the line at its end. *)
LEMMA LineGrows ==
  ASSUME ApiTypes, Lined, NEW r \in Calls, stage[r] \notin InLine,
         NEW s \in {"auth", "call"}, Goto(r, s), line' = Append(line, r)
  PROVE  Lined'
  <1> USE DEF InLine
  <1>1. /\ line' \in Seq(Calls) /\ Len(line') = Len(line) + 1 /\ Len(line) \in Nat
        /\ \A i \in 1..Len(line) : line'[i] = line[i] /\ line[i] \in Calls
        /\ line'[Len(line) + 1] = r /\ line' # <<>>
        /\ line # <<>> => Head(line') = Head(line)
    BY AppendProperties, LenProperties, ElementOfSeq, HeadTailAppend DEF Lined
  <1>2. \A q \in Calls : stage'[q] = IF q = r THEN s ELSE stage[q]
    BY DEF Goto, ApiTypes
  <1>3. \A i \in 1..Len(line) : line[i] # r
    BY DEF Lined
  <1>4. \A i, j \in 1..Len(line') : line'[i] = line'[j] => i = j
    BY <1>1, <1>3 DEF Lined
  <1>5. \A i \in 1..Len(line') : stage'[line'[i]] \in InLine
    BY <1>1, <1>2 DEF Lined
  <1>6. ASSUME NEW q \in Calls, stage'[q] \in InLine PROVE \E i \in 1..Len(line') : line'[i] = q
    BY <1>1, <1>2, <1>6 DEF Lined
  <1>7. \A q \in Calls : stage'[q] = "handling" => HasLock(q)'
    BY <1>1, <1>2 DEF Lined, HasLock
  <1> QED
    BY <1>1, <1>4, <1>5, <1>6, <1>7 DEF Lined

(* The request that holds the mutex leaves the line at its head. *)
LEMMA LineShrinks ==
  ASSUME ApiTypes, Lined, NEW r \in Calls, HasLock(r),
         NEW s \in Stages \ InLine, Goto(r, s), Unlock
  PROVE  Lined'
  <1> USE DEF InLine
  <1>1. /\ line' \in Seq(Calls) /\ Len(line') = Len(line) - 1 /\ Len(line) \in Nat
        /\ \A i \in 1..Len(line') : line'[i] = line[i + 1] /\ line'[i] \in Calls
        /\ line[1] = r /\ Len(line) >= 1
    BY HeadTailProperties, LenProperties, ElementOfSeq, EmptySeq DEF Lined, HasLock, Unlock
  <1>2. \A q \in Calls : stage'[q] = IF q = r THEN s ELSE stage[q]
    BY DEF Goto, ApiTypes
  <1>3. \A i \in 1..Len(line') : line'[i] # r
    BY <1>1 DEF Lined
  <1>4. \A i, j \in 1..Len(line') : line'[i] = line'[j] => i = j
    <2> SUFFICES ASSUME NEW i \in 1..Len(line'), NEW j \in 1..Len(line'), line'[i] = line'[j]
                 PROVE  i = j
      OBVIOUS
    <2>1. i + 1 \in 1..Len(line) /\ j + 1 \in 1..Len(line) /\ line[i + 1] = line[j + 1]
      BY <1>1
    <2>2. i + 1 = j + 1
      BY <2>1 DEF Lined
    <2> QED
      BY <2>2
  <1>5. ASSUME NEW i \in 1..Len(line') PROVE stage'[line'[i]] \in InLine
    <2>1. i + 1 \in 1..Len(line) /\ line'[i] = line[i + 1] /\ line'[i] # r /\ line'[i] \in Calls
      BY <1>1, <1>3
    <2> QED
      BY <2>1, <1>2 DEF Lined
  <1>6. ASSUME NEW q \in Calls, stage'[q] \in InLine PROVE \E i \in 1..Len(line') : line'[i] = q
    <2>1. q # r /\ stage[q] \in InLine
      BY <1>2, <1>6
    <2>2. PICK i \in 1..Len(line) : line[i] = q
      BY <2>1 DEF Lined
    <2>3. i # 1 /\ i - 1 \in 1..Len(line') /\ line'[i - 1] = line[i]
      BY <1>1, <2>1, <2>2
    <2> QED
      BY <2>2, <2>3
  <1>7. \A q \in Calls : stage'[q] # "handling"
    BY <1>2 DEF Lined, HasLock
  <1> QED
    BY <1>1, <1>4, <1>5, <1>6, <1>7 DEF Lined

(* A request moves on without taking or releasing the mutex. *)
LEMMA LineKept ==
  ASSUME ApiTypes, Lined, NEW r \in Calls, NEW s \in Stages, Goto(r, s), UNCHANGED line,
         stage[r] \in InLine <=> s \in InLine, s = "handling" => HasLock(r)
  PROVE  Lined'
  <1> USE DEF InLine
  <1>1. \A q \in Calls : stage'[q] = IF q = r THEN s ELSE stage[q]
    BY DEF Goto, ApiTypes
  <1>2. \A i \in 1..Len(line) : line[i] \in Calls
    BY ElementOfSeq DEF Lined
  <1>3. \A i \in 1..Len(line) : stage'[line[i]] \in InLine
    BY <1>1, <1>2 DEF Lined
  <1>4. \A q \in Calls : stage'[q] = "handling" => HasLock(q)'
    BY <1>1 DEF Lined, HasLock
  <1> QED
    BY <1>1, <1>3, <1>4 DEF Lined

(* A request that is dropped while it waits leaves the line, from wherever
   it stood in it. *)
LEMMA LineLeft ==
  ASSUME ApiTypes, Lined, NEW r \in Calls, stage[r] \in Awaiting, Goto(r, "dropped"),
         NEW k \in 1..Len(line), line[k] = r, line' = RemoveAt(line, k)
  PROVE  Lined'
  <1> USE DEF InLine, Awaiting
  <1>1. Len(line) \in Nat /\ DOMAIN line = 1..Len(line) /\ \A i \in 1..Len(line) : line[i] \in Calls
    BY LenProperties, ElementOfSeq DEF Lined
  <1> DEFINE left == SubSeq(line, 1, k - 1)
             right == SubSeq(line, k + 1, Len(line))
  <1>2. /\ left \in Seq(Calls) /\ Len(left) = k - 1
        /\ \A i \in 1..(k - 1) : left[i] = line[i]
    <2>1. \A i \in 1..(k - 1) : line[i] \in Calls
      BY <1>1
    <2>2. /\ left \in Seq(Calls) /\ Len(left) = IF 1 <= k - 1 THEN k - 1 - 1 + 1 ELSE 0
          /\ \A i \in 1..(k - 1 - 1 + 1) : left[i] = line[1 + i - 1]
      BY <1>1, <2>1, SubSeqProperties
    <2> QED
      BY <1>1, <2>2
  <1>3. /\ right \in Seq(Calls) /\ Len(right) = Len(line) - k
        /\ \A i \in 1..(Len(line) - k) : right[i] = line[k + i]
    <2>1. \A i \in (k + 1)..Len(line) : line[i] \in Calls
      BY <1>1
    <2>2. /\ right \in Seq(Calls)
          /\ Len(right) = IF k + 1 <= Len(line) THEN Len(line) - (k + 1) + 1 ELSE 0
          /\ \A i \in 1..(Len(line) - (k + 1) + 1) : right[i] = line[(k + 1) + i - 1]
      BY <1>1, <2>1, SubSeqProperties
    <2> HIDE DEF right
    <2>3. Len(line) - (k + 1) + 1 = Len(line) - k /\ Len(right) = Len(line) - k
      <3>1. k \in Nat /\ k <= Len(line) /\ Len(line) \in Nat
        BY <1>1
      <3>2. Len(line) - (k + 1) + 1 = Len(line) - k
        BY <3>1
      <3>3. Len(right) = IF k + 1 <= Len(line) THEN Len(line) - k ELSE 0
        BY <2>2, <3>2
      <3>4. CASE k + 1 <= Len(line)
        BY <3>2, <3>3, <3>4
      <3>5. CASE ~ (k + 1 <= Len(line))
        <4>1. Len(line) - k = 0
          BY <3>1, <3>5
        <4> QED
          BY <3>2, <3>3, <3>5, <4>1
      <3> QED
        BY <3>4, <3>5
    <2>4. ASSUME NEW i \in 1..(Len(line) - k) PROVE right[i] = line[k + i]
      <3>1. (k + 1) + i - 1 = k + i
        BY <1>1
      <3> QED
        BY <2>2, <2>3, <3>1
    <2> QED
      BY <2>2, <2>3, <2>4
  <1>4. /\ line' \in Seq(Calls) /\ Len(line') = Len(line) - 1
        /\ \A i \in 1..Len(line') : line'[i] = IF i < k THEN line[i] ELSE line[i + 1]
    <2>1. /\ line' \in Seq(Calls) /\ Len(line') = Len(left) + Len(right)
          /\ \A i \in 1..(Len(left) + Len(right)) :
               line'[i] = IF i <= Len(left) THEN left[i] ELSE right[i - Len(left)]
      <3>1. line' = left \o right
        BY DEF RemoveAt
      <3> HIDE DEF left, right
      <3>2. left \in Seq(Calls) /\ right \in Seq(Calls)
        BY <1>2, <1>3
      <3>3. /\ left \o right \in Seq(Calls) /\ Len(left \o right) = Len(left) + Len(right)
            /\ \A i \in 1..(Len(left) + Len(right)) :
                 (left \o right)[i] = IF i <= Len(left) THEN left[i] ELSE right[i - Len(left)]
        BY <3>2, ConcatProperties, Zenon
      <3> QED
        BY <3>1, <3>3
    <2> HIDE DEF left, right
    <2>2. ASSUME NEW i \in 1..Len(line') PROVE line'[i] = IF i < k THEN line[i] ELSE line[i + 1]
      <3>1. CASE i < k
        BY <1>1, <1>2, <1>3, <2>1, <3>1
      <3>2. CASE ~ (i < k)
        <4>1. i - (k - 1) \in 1..(Len(line) - k) /\ k + (i - (k - 1)) = i + 1
          BY <1>1, <1>2, <1>3, <2>1, <3>2
        <4> QED
          BY <1>1, <1>2, <1>3, <2>1, <3>2, <4>1
      <3> QED
        BY <3>1, <3>2
    <2> QED
      BY <1>1, <1>2, <1>3, <2>1, <2>2
  <1> HIDE DEF left, right
  <1>5. \A q \in Calls : stage'[q] = IF q = r THEN "dropped" ELSE stage[q]
    BY DEF Goto, ApiTypes
  <1> DEFINE old(i) == IF i < k THEN i ELSE i + 1
  <1>6. ASSUME NEW i \in 1..Len(line')
        PROVE  old(i) \in 1..Len(line) /\ old(i) # k /\ line'[i] = line[old(i)]
               /\ line'[i] \in Calls /\ line'[i] # r
    <2>1. old(i) \in 1..Len(line) /\ old(i) # k /\ line'[i] = line[old(i)]
      BY <1>1, <1>4
    <2> QED
      BY <1>1, <2>1 DEF Lined
  <1>7. \A i, j \in 1..Len(line') : line'[i] = line'[j] => i = j
    <2> SUFFICES ASSUME NEW i \in 1..Len(line'), NEW j \in 1..Len(line'), line'[i] = line'[j]
                 PROVE  i = j
      OBVIOUS
    <2>1. old(i) = old(j)
      <3> HIDE DEF old
      <3> QED
        BY <1>6 DEF Lined
    <2> QED
      BY <1>1, <1>4, <2>1
  <1>8. ASSUME NEW i \in 1..Len(line') PROVE stage'[line'[i]] \in InLine
    <2> HIDE DEF old
    <2> QED
      BY <1>5, <1>6 DEF Lined
  <1>9. ASSUME NEW q \in Calls, stage'[q] \in InLine PROVE \E i \in 1..Len(line') : line'[i] = q
    <2>1. q # r /\ stage[q] \in InLine
      BY <1>5, <1>9
    <2>2. PICK i \in 1..Len(line) : line[i] = q
      BY <2>1 DEF Lined
    <2>3. CASE i < k
      BY <1>1, <1>4, <2>2, <2>3
    <2>4. CASE i > k
      <3>1. i - 1 \in 1..Len(line') /\ line'[i - 1] = line[i]
        BY <1>1, <1>4, <2>4
      <3> QED
        BY <2>2, <3>1
    <2> QED
      BY <1>1, <2>1, <2>2, <2>3, <2>4
  <1>10. ASSUME NEW q \in Calls, stage'[q] = "handling" PROVE HasLock(q)'
    <2>1. q # r /\ stage[q] = "handling" /\ line # <<>> /\ line[1] = q
      BY <1>5, <1>10 DEF Lined, HasLock
    <2>2. k # 1 /\ Len(line') >= 1 /\ line'[1] = q
      BY <1>1, <1>4, <2>1
    <2>3. line' # <<>> /\ Head(line') = q
      BY <1>4, <2>2, EmptySeq
    <2> QED
      BY <2>3 DEF HasLock
  <1> QED
    BY <1>4, <1>7, <1>8, <1>9, <1>10 DEF Lined

-----------------------------------------------------------------------------
(* No request has arrived. *)
LEMMA ApiStart == ApiInit => ApiIInv
  <1> SUFFICES ASSUME ApiInit PROVE ApiIInv
    OBVIOUS
  <1>1. ApiTypes
    BY DEF ApiInit, ApiTypes, Stages
  <1>2. Lined
    BY EmptySeq DEF ApiInit, Lined, InLine
  <1>3. \A r \in Calls : Entitlement(r)
    BY NoneAssumption DEF ApiInit, Entitlement, Replies
  <1> QED
    BY <1>1, <1>2, <1>3 DEF ApiIInv

(* A request with a bearer token joins the line, one without is refused. *)
LEMMA Arrives ==
  ASSUME ApiIInv, NEW r \in Calls, Arrive(r) PROVE ApiIInv'
  <1> USE NoneAssumption DEF ApiIInv
  <1>1. stage[r] = "new" /\ stage[r] \notin InLine /\ reply[r] = None /\ tokens' = tokens
    BY DEF Arrive, InLine, Entitlement
  <1>2. CASE \E t \in Tokens :
               /\ bearer' = [bearer EXCEPT ![r] = t]
               /\ Goto(r, "auth")
               /\ line' = Append(line, r)
               /\ entitled' = IF t \in tokens THEN entitled \cup {r} ELSE entitled
               /\ UNCHANGED reply
    <2> PICK t \in Tokens :
               /\ bearer' = [bearer EXCEPT ![r] = t]
               /\ Goto(r, "auth")
               /\ line' = Append(line, r)
               /\ entitled' = IF t \in tokens THEN entitled \cup {r} ELSE entitled
               /\ UNCHANGED reply
      BY <1>2
    <2>1. ApiTypes'
      BY <1>1 DEF ApiTypes, Goto, Stages
    <2>2. Lined'
      BY <1>1, LineGrows
    <2>3. Entitlement(r)'
      BY <1>1 DEF ApiTypes, Goto, Entitlement, Replies
    <2>4. ASSUME NEW q \in Calls, q # r PROVE Entitlement(q)'
      BY <1>1, <2>4 DEF ApiTypes, Goto, Entitlement
    <2> QED
      BY <2>1, <2>2, <2>3, <2>4
  <1>3. CASE Answer(r, "unauthorized") /\ UNCHANGED <<bearer, line, entitled>>
    <2>1. ApiTypes'
      BY <1>1, <1>3 DEF ApiTypes, Answer, Goto, Stages, Replies
    <2>2. Lined'
      BY <1>1, <1>3, LineKept DEF Answer, InLine, Stages
    <2>3. Entitlement(r)'
      BY <1>1, <1>3 DEF ApiTypes, Answer, Goto, Entitlement, Replies
    <2>4. ASSUME NEW q \in Calls, q # r PROVE Entitlement(q)'
      BY <1>1, <1>3, <2>4 DEF ApiTypes, Answer, Goto, Entitlement
    <2> QED
      BY <2>1, <2>2, <2>3, <2>4
  <1> QED
    BY <1>2, <1>3 DEF Arrive

(* auth_middleware clones the manager under the mutex. *)
LEMMA Clones ==
  ASSUME ApiIInv, NEW r \in Calls, CloneManager(r) PROVE ApiIInv'
  <1> USE NoneAssumption DEF ApiIInv, CloneManager
  <1>1. ApiTypes'
    BY DEF ApiTypes, Goto, Stages
  <1>2. Lined'
    BY LineShrinks DEF Stages, InLine
  <1>3. ASSUME NEW q \in Calls PROVE Entitlement(q)'
    BY DEF ApiTypes, Goto, Entitlement
  <1> QED
    BY <1>1, <1>2, <1>3

(* auth_middleware looks the token up after it has released the mutex. *)
LEMMA Verifies ==
  ASSUME ApiIInv, NEW r \in Calls, Verify(r) PROVE ApiIInv'
  <1> USE NoneAssumption DEF ApiIInv, Verify, Accepts
  <1>1. ApiTypes'
    BY DEF ApiTypes, Answer, Goto, Stages, Replies
  <1>2. Lined'
    BY LineKept DEF Answer, Stages, InLine
  <1>3. ASSUME NEW q \in Calls PROVE Entitlement(q)'
    BY DEF ApiTypes, Answer, Goto, Entitlement, Replies
  <1> QED
    BY <1>1, <1>2, <1>3

(* An error of the database counts as a wrong token. *)
LEMMA CannotVerify ==
  ASSUME ApiIInv, NEW r \in Calls, VerifyFails(r) PROVE ApiIInv'
  <1> USE NoneAssumption DEF ApiIInv, VerifyFails
  <1>1. ApiTypes'
    BY DEF ApiTypes, Answer, Goto, Stages, Replies
  <1>2. Lined'
    BY LineKept DEF Answer, Stages, InLine
  <1>3. ASSUME NEW q \in Calls PROVE Entitlement(q)'
    BY DEF ApiTypes, Answer, Goto, Entitlement, Replies
  <1> QED
    BY <1>1, <1>2, <1>3

(* The body is read before the handler locks the manager. *)
LEMMA Extracts ==
  ASSUME ApiIInv, NEW r \in Calls, Extract(r) PROVE ApiIInv'
  <1> USE NoneAssumption DEF ApiIInv, Extract
  <1>1. ApiTypes'
    BY DEF ApiTypes, Answer, Goto, Stages, Replies
  <1>2. Lined'
    <2>1. CASE Goto(r, "call") /\ line' = Append(line, r)
      BY <2>1, LineGrows DEF InLine
    <2>2. ASSUME NEW answer, Answer(r, answer), UNCHANGED line PROVE Lined'
      BY <2>2, LineKept DEF Answer, Stages, InLine
    <2> QED
      BY <2>1, <2>2
  <1>3. ASSUME NEW q \in Calls PROVE Entitlement(q)'
    BY DEF ApiTypes, Answer, Goto, Entitlement, Replies
  <1> QED
    BY <1>1, <1>2, <1>3

(* A handler runs when its request has come to the head of the line. *)
LEMMA Enters ==
  ASSUME ApiIInv, NEW r \in Calls, Enter(r) PROVE ApiIInv'
  <1> USE NoneAssumption DEF ApiIInv, Enter
  <1>1. ApiTypes'
    BY DEF ApiTypes, Goto, Stages
  <1>2. Lined'
    BY LineKept DEF Stages, InLine
  <1>3. ASSUME NEW q \in Calls PROVE Entitlement(q)'
    BY DEF ApiTypes, Goto, Entitlement
  <1> QED
    BY <1>1, <1>2, <1>3

(* A handler answers and releases the mutex. *)
LEMMA Finishes ==
  ASSUME ApiIInv, NEW r \in Calls, NEW answer \in {"ok", "error"}, Finish(r, answer) PROVE ApiIInv'
  <1> USE NoneAssumption DEF ApiIInv, Finish
  <1>1. ApiTypes'
    BY DEF ApiTypes, Answer, Goto, Stages, Replies
  <1>2. Lined'
    <2>1. HasLock(r)
      BY DEF Lined
    <2> QED
      BY <2>1, LineShrinks DEF Answer, Stages, InLine
  <1>3. ASSUME NEW q \in Calls PROVE Entitlement(q)'
    BY DEF ApiTypes, Answer, Goto, Entitlement, Replies
  <1> QED
    BY <1>1, <1>2, <1>3

(* A client that has gone takes its request out of the line. *)
LEMMA Drops ==
  ASSUME ApiIInv, NEW r \in Calls, Drop(r) PROVE ApiIInv'
  <1> USE NoneAssumption DEF ApiIInv, Drop
  <1>1. ApiTypes'
    BY DEF ApiTypes, Goto, Stages
  <1>2. DOMAIN line = 1..Len(line)
    BY LenProperties DEF Lined
  <1>3. Lined'
    <2>1. CASE \E i \in DOMAIN line : line[i] = r /\ line' = RemoveAt(line, i)
      BY <1>2, <2>1, LineLeft
    <2>2. CASE r \notin Range(line) /\ UNCHANGED line
      <3>1. stage[r] \notin InLine
        BY <1>2, <2>2 DEF Lined, Range
      <3> QED
        BY <2>2, <3>1, LineKept DEF Stages, InLine
    <2> QED
      BY <2>1, <2>2
  <1>4. ASSUME NEW q \in Calls PROVE Entitlement(q)'
    BY DEF ApiTypes, Goto, Entitlement, Awaiting
  <1> QED
    BY <1>1, <1>3, <1>4

(* A token is added and none is ever taken away. *)
LEMMA Generates ==
  ASSUME ApiIInv, NEW t \in Tokens, Generate(t) PROVE ApiIInv'
  <1> USE DEF ApiIInv, Generate
  <1>1. ApiTypes'
    BY DEF ApiTypes
  <1>2. Lined'
    BY DEF Lined, HasLock
  <1>3. ASSUME NEW q \in Calls PROVE Entitlement(q)'
    BY DEF Entitlement
  <1> QED
    BY <1>1, <1>2, <1>3

(* What does not touch the requests keeps their invariant. *)
LEMMA ApiLeftAlone == ApiIInv /\ UNCHANGED apiVars => ApiIInv'
  BY DEF ApiIInv, ApiTypes, Lined, HasLock, Entitlement, apiVars

(* What the invariant says of the line is what ApiTypeOK counts. *)
LEMMA ApiTypesCounted == ApiIInv => ApiTypeOK /\ TokensDecide
  <1> SUFFICES ASSUME ApiIInv PROVE ApiTypeOK /\ TokensDecide
    OBVIOUS
  <1> USE DEF ApiIInv
  <1>1. DOMAIN line = 1..Len(line)
    BY LenProperties DEF Lined
  <1>2. ASSUME NEW r \in Calls
        PROVE  Cardinality({i \in DOMAIN line : line[i] = r}) =
                 IF stage[r] \in {"auth", "call", "handling"} THEN 1 ELSE 0
    <2>1. CASE stage[r] \in InLine
      <3>1. PICK k \in DOMAIN line : line[k] = r
        BY <1>1, <2>1 DEF Lined
      <3>2. {i \in DOMAIN line : line[i] = r} = {k}
        BY <1>1, <3>1 DEF Lined
      <3> QED
        BY <2>1, <3>2, FS_Singleton DEF InLine
    <2>2. CASE stage[r] \notin InLine
      <3>1. {i \in DOMAIN line : line[i] = r} = {}
        BY <1>1, <2>2 DEF Lined
      <3> QED
        BY <2>2, <3>1, FS_EmptySet DEF InLine
    <2> QED
      BY <2>1, <2>2
  <1>3. ApiTypeOK
    BY <1>2 DEF ApiTypeOK, ApiTypes, Entitlement
  <1>4. TokensDecide
    BY DEF TokensDecide, Entitlement
  <1> QED
    BY <1>3, <1>4

-----------------------------------------------------------------------------
(* The two lists. *)

(* A function on 1..n is a sequence of length n. *)
LEMMA FunctionIsSeq ==
  ASSUME NEW n \in Nat, NEW f \in [1..n -> Int]
  PROVE  f \in Seq(Int) /\ Len(f) = n
  <1>1. f \in Seq(Int)
    BY SeqDef
  <1>2. Len(f) \in Nat /\ 1..Len(f) = 1..n
    BY <1>1, LenProperties
  <1> QED
    BY <1>1, <1>2

(* The two lists after n entries: the errors oldest first, the searches
   newest first. *)
ErrorsOf(n) == [i \in 1..Newest(n) |-> n - Newest(n) + i]
SearchesOf(n) == [i \in 1..Newest(n) |-> n + 1 - i]

(* on_event drops the oldest entry when the list is full. *)
LEMMA PushedNewest ==
  ASSUME NEW n \in Nat, NEW list, list = ErrorsOf(n)
  PROVE  Pushed(list, n + 1) = ErrorsOf(n + 1)
  <1> USE CapAssumption DEF ErrorsOf
  <1> DEFINE longer == Append(list, n + 1)
             want == ErrorsOf(n + 1)
  <1>1. Newest(n) \in Nat /\ Newest(n) <= n /\ Newest(n + 1) \in Nat
    BY DEF Newest
  <1>2. list \in Seq(Int) /\ Len(list) = Newest(n) /\ want \in Seq(Int) /\ Len(want) = Newest(n + 1)
    <2>1. list \in [1..Newest(n) -> Int] /\ want \in [1..Newest(n + 1) -> Int]
      BY <1>1
    <2> HIDE DEF want
    <2> QED
      BY <1>1, <2>1, FunctionIsSeq
  <1>3. /\ longer \in Seq(Int) /\ longer # <<>> /\ Len(longer) = Newest(n) + 1
        /\ \A i \in 1..Newest(n) : longer[i] = n - Newest(n) + i
        /\ longer[Newest(n) + 1] = n + 1
    <2>1. \A i \in 1..Newest(n) : list[i] = n - Newest(n) + i
      BY <1>1
    <2>2. /\ longer \in Seq(Int) /\ longer # <<>> /\ Len(longer) = Len(list) + 1
          /\ \A i \in 1..Len(list) : longer[i] = list[i]
          /\ longer[Len(list) + 1] = n + 1
      <3>1. n + 1 \in Int /\ list \in Seq(Int)
        BY <1>2
      <3>2. ASSUME NEW e \in Int
            PROVE  /\ Append(list, e) \in Seq(Int) /\ Append(list, e) # <<>>
                   /\ Len(Append(list, e)) = Len(list) + 1
                   /\ \A i \in 1..Len(list) : Append(list, e)[i] = list[i]
                   /\ Append(list, e)[Len(list) + 1] = e
        <4> HIDE DEF ErrorsOf, want, longer
        <4> QED
          BY <3>1, AppendProperties
      <3> QED
        BY <3>1, <3>2, Zenon
    <2> HIDE DEF longer, want
    <2> QED
      BY <1>2, <2>1, <2>2
  <1>4. \A i \in 1..(Newest(n) + 1) : longer[i] = n - Newest(n) + i
    BY <1>1, <1>3
  <1>5. CASE Newest(n) + 1 > Cap
    <2>1. Newest(n) = Cap /\ Newest(n + 1) = Cap
      BY <1>5 DEF Newest
    <2>2. /\ Tail(longer) \in Seq(Int) /\ Len(Tail(longer)) = Cap
          /\ \A i \in 1..Cap : Tail(longer)[i] = longer[i + 1]
      <3> HIDE DEF longer
      <3> QED
        BY <1>3, <2>1, HeadTailProperties
    <2>3. ASSUME NEW i \in 1..Cap PROVE Tail(longer)[i] = want[i]
      <3>1. i + 1 \in 1..(Newest(n) + 1) /\ n - Newest(n) + (i + 1) = (n + 1) - Newest(n + 1) + i
        BY <2>1
      <3> QED
        BY <1>4, <2>1, <2>2, <3>1
    <2>4. Tail(longer) = want
      <3> HIDE DEF longer, want
      <3> QED
        BY <1>2, <2>1, <2>2, <2>3, SeqEqual
    <2> QED
      BY <1>3, <1>5, <2>4 DEF Pushed
  <1>6. CASE ~ (Newest(n) + 1 > Cap)
    <2>1. Newest(n) = n /\ Newest(n + 1) = n + 1
      BY <1>1, <1>6 DEF Newest
    <2>2. ASSUME NEW i \in 1..(n + 1) PROVE longer[i] = want[i]
      BY <1>4, <2>1
    <2>3. longer = want
      <3> HIDE DEF longer, want
      <3> QED
        BY <1>2, <1>3, <2>1, <2>2, SeqEqual
    <2> QED
      BY <1>3, <1>6, <2>3 DEF Pushed
  <1> QED
    BY <1>1, <1>5, <1>6

(* A search is put in front of the history and the last one cut off. *)
LEMMA PrependedNewest ==
  ASSUME NEW n \in Nat, NEW list, list = SearchesOf(n)
  PROVE  Prepended(list, n + 1) = SearchesOf(n + 1)
  <1> USE CapAssumption DEF SearchesOf
  <1> DEFINE longer == <<n + 1>> \o list
             want == SearchesOf(n + 1)
  <1>1. Newest(n) \in Nat /\ Newest(n) <= n /\ Newest(n + 1) \in Nat
    BY DEF Newest
  <1>2. list \in Seq(Int) /\ Len(list) = Newest(n) /\ want \in Seq(Int) /\ Len(want) = Newest(n + 1)
    <2>1. list \in [1..Newest(n) -> Int] /\ want \in [1..Newest(n + 1) -> Int]
      BY <1>1
    <2> HIDE DEF want
    <2> QED
      BY <1>1, <2>1, FunctionIsSeq
  <1>3. longer \in Seq(Int) /\ Len(longer) = Newest(n) + 1
        /\ \A i \in 1..(Newest(n) + 1) : longer[i] = (n + 1) + 1 - i
    <2>1. <<n + 1>> \in Seq(Int) /\ Len(<<n + 1>>) = 1 /\ <<n + 1>>[1] = n + 1
      OBVIOUS
    <2>2. /\ longer \in Seq(Int) /\ Len(longer) = 1 + Newest(n)
          /\ \A i \in 1..(1 + Newest(n)) :
               longer[i] = IF i <= 1 THEN <<n + 1>>[i] ELSE list[i - 1]
      <3>1. /\ longer \in Seq(Int) /\ Len(longer) = Len(<<n + 1>>) + Len(list)
            /\ \A i \in 1..(Len(<<n + 1>>) + Len(list)) :
                 longer[i] = IF i <= Len(<<n + 1>>) THEN <<n + 1>>[i] ELSE list[i - Len(<<n + 1>>)]
        <4> HIDE DEF SearchesOf, want
        <4> QED
          BY <1>2, <2>1, ConcatProperties
      <3> HIDE DEF longer
      <3> QED
        BY <1>2, <2>1, <3>1
    <2> HIDE DEF longer
    <2>3. ASSUME NEW i \in 1..(Newest(n) + 1) PROVE longer[i] = (n + 1) + 1 - i
      <3>1. CASE i = 1
        BY <1>1, <2>1, <2>2, <3>1
      <3>2. CASE i # 1
        <4>1. i - 1 \in 1..Newest(n) /\ ~ (i <= 1) /\ i \in 1..(1 + Newest(n))
          BY <1>1, <3>2
        <4>2. longer[i] = list[i - 1] /\ list[i - 1] = n + 1 - (i - 1)
          BY <2>2, <4>1
        <4> QED
          BY <4>1, <4>2, <1>1
      <3> QED
        BY <3>1, <3>2
    <2> QED
      BY <1>1, <2>2, <2>3
  <1> HIDE DEF longer
  <1>5. CASE Newest(n) + 1 > Cap
    <2>1. Newest(n) = Cap /\ Newest(n + 1) = Cap
      BY <1>5 DEF Newest
    <2>2. /\ SubSeq(longer, 1, Cap) \in Seq(Int) /\ Len(SubSeq(longer, 1, Cap)) = Cap
          /\ \A i \in 1..Cap : SubSeq(longer, 1, Cap)[i] = longer[i]
      <3>1. \A i \in 1..Cap : longer[i] \in Int
        BY <1>3, <2>1
      <3>2. /\ SubSeq(longer, 1, Cap) \in Seq(Int)
            /\ Len(SubSeq(longer, 1, Cap)) = IF 1 <= Cap THEN Cap - 1 + 1 ELSE 0
            /\ \A i \in 1..(Cap - 1 + 1) : SubSeq(longer, 1, Cap)[i] = longer[1 + i - 1]
        BY <3>1, SubSeqProperties
      <3> QED
        BY <3>2
    <2>3. ASSUME NEW i \in 1..Cap PROVE SubSeq(longer, 1, Cap)[i] = want[i]
      BY <1>3, <2>1, <2>2
    <2>4. SubSeq(longer, 1, Cap) = want
      <3> HIDE DEF want
      <3> QED
        BY <1>2, <2>1, <2>2, <2>3, SeqEqual
    <2> QED
      BY <1>3, <1>5, <2>4 DEF Prepended, longer
  <1>6. CASE ~ (Newest(n) + 1 > Cap)
    <2>1. Newest(n) = n /\ Newest(n + 1) = n + 1
      BY <1>1, <1>6 DEF Newest
    <2>2. ASSUME NEW i \in 1..(n + 1) PROVE longer[i] = want[i]
      BY <1>3, <2>1
    <2>3. longer = want
      <3> HIDE DEF want
      <3> QED
        BY <1>2, <1>3, <2>1, <2>2, SeqEqual
    <2> QED
      BY <1>3, <1>6, <2>3 DEF Prepended, longer
  <1> QED
    BY <1>1, <1>5, <1>6

(* Each list holds what n entries leave of it. *)
ListsInv ==
  /\ logged \in Nat /\ typed \in Nat
  /\ errors = ErrorsOf(logged) /\ searches = SearchesOf(typed)

(* An error logged anywhere in the process. *)
LEMMA LogKeeps ==
  ASSUME ListsInv, Log PROVE ListsInv'
  BY PushedNewest DEF ListsInv, Log

(* No entries, empty lists. *)
LEMMA EmptyLists == <<>> = ErrorsOf(0) /\ <<>> = SearchesOf(0)
  <1>1. Newest(0) = 0
    BY CapAssumption DEF Newest
  <1> QED
    BY <1>1 DEF ErrorsOf, SearchesOf

-----------------------------------------------------------------------------
(* The process. *)

(* How far main has come, what became of the terminal UI and who still holds
   the sender that stops the process. *)
ProcessInv ==
  /\ main \in {"opening", "opened", "tui_spawned", "api_spawned", "serving", "returned", "over"}
  /\ opt.manage \in BOOLEAN
  /\ main \in {"opening", "opened"} => tui = "none"
  /\ main \in {"opened", "tui_spawned", "api_spawned", "serving"} => "main" \in holders
  /\ tui # "none" => opt.manage
  /\ sent => tui = "finished"

ServeIInv == ApiIInv /\ ListsInv /\ ProcessInv

(* The process starts with nothing opened. *)
LEMMA ServeStart == ServeInit => ServeIInv
  <1> SUFFICES ASSUME ServeInit PROVE ServeIInv
    OBVIOUS
  <1>1. ApiIInv
    BY ApiStart DEF ServeInit
  <1>2. ListsInv
    BY EmptyLists DEF ServeInit, ListsInv
  <1>3. ProcessInv
    <2>1. opt.manage \in BOOLEAN
      BY DEF ServeInit
    <2> QED
      BY <2>1 DEF ServeInit, ProcessInv
  <1> QED
    BY <1>1, <1>2, <1>3 DEF ServeIInv

(* What does not touch the lists keeps their invariant. *)
LEMMA ListsLeftAlone == ListsInv /\ UNCHANGED lists => ListsInv'
  BY DEF ListsInv, lists

(* What does not touch the process keeps its invariant. *)
LEMMA ProcessAlone ==
  ASSUME ProcessInv, UNCHANGED <<opt, process>>
  PROVE  ProcessInv'
  BY DEF ProcessInv, process

(* The steps of main, of the terminal UI's task and of the lists, none of
   which touches a request. *)
LEMMA MainSteps ==
  ASSUME ServeIInv,
         MainNext \/ ListenerEnds \/ StartTui \/ Quit \/ FailTui \/ PanicTui \/ Tell
         \/ Clear \/ StartApi \/ Search \/ Complain
  PROVE  ServeIInv'
  <1> USE DEF ServeIInv
  <1>1. ApiIInv'
    <2>1. UNCHANGED apiVars
      BY DEF MainNext, Open, SpawnTui, SpawnApi, Bind, Stop, End, ListenerEnds, StartTui, Quit,
             FailTui, PanicTui, Tell, Clear, StartApi, Search, Complain
    <2> QED
      BY <2>1, ApiLeftAlone
  <1>2. ListsInv'
    <2>1. CASE UNCHANGED lists
      BY <2>1, ListsLeftAlone
    <2>2. CASE FailTui \/ Complain \/ (StartApi /\ Log)
      BY <2>2, LogKeeps DEF FailTui, Complain
    <2>3. CASE Clear
      BY <2>3, EmptyLists DEF Clear, ListsInv
    <2>4. CASE Search
      <3>1. searches' = SearchesOf(typed')
        BY <2>4, PrependedNewest DEF Search, ListsInv
      <3> QED
        BY <2>4, <3>1 DEF Search, ListsInv
    <2> QED
      BY <2>1, <2>2, <2>3, <2>4
      DEF MainNext, Open, SpawnTui, SpawnApi, Bind, Stop, End, ListenerEnds, StartTui, Quit,
          PanicTui, Tell, StartApi
  <1>3. ProcessInv'
    <2> USE DEF ProcessInv
    <2>1. UNCHANGED opt
      BY DEF MainNext, Open, SpawnTui, SpawnApi, Bind, Stop, End, ListenerEnds, StartTui, Quit,
             FailTui, PanicTui, Tell, Clear, StartApi, Search, Complain, process, apiVars
    <2>2. CASE Open
      BY <2>1, <2>2 DEF Open, Return
    <2>3. CASE SpawnTui
      BY <2>1, <2>3 DEF SpawnTui
    <2>4. CASE SpawnApi
      BY <2>1, <2>4 DEF SpawnApi, Return
    <2>5. CASE Bind
      BY <2>1, <2>5 DEF Bind, Return
    <2>6. CASE Stop
      BY <2>1, <2>6 DEF Stop, Return
    <2>7. CASE End
      BY <2>1, <2>7 DEF End
    <2>8. CASE StartTui
      BY <2>1, <2>8 DEF StartTui
    <2>9. CASE Quit \/ FailTui \/ PanicTui \/ Tell
      BY <2>1, <2>9 DEF Quit, FailTui, PanicTui, Tell
    <2>10. CASE ListenerEnds \/ Clear \/ StartApi \/ Search \/ Complain
      <3>1. UNCHANGED <<main, tui, holders, sent>>
        BY <2>10 DEF ListenerEnds, Clear, StartApi, Search, Complain, process
      <3> QED
        BY <2>1, <3>1
    <2> QED
      BY <2>2, <2>3, <2>4, <2>5, <2>6, <2>7, <2>8, <2>9, <2>10 DEF MainNext
  <1> QED
    BY <1>1, <1>2, <1>3

(* The steps of a request, which touch neither main nor the terminal UI. *)
LEMMA RequestSteps ==
  ASSUME ServeIInv,
         \/ \E r \in Calls : Receive(r) \/ Step(r) \/ HandlerFails(r) \/ Disconnect(r)
         \/ \E t \in Tokens : GenerateToken(t)
  PROVE  ServeIInv'
  <1> USE DEF ServeIInv
  <1>1. ApiIInv'
    BY Arrives, Clones, Verifies, CannotVerify, Extracts, Enters, Finishes, Drops, Generates
    DEF Receive, Step, HandlerFails, Disconnect, GenerateToken
  <1>2. ListsInv'
    BY ListsLeftAlone, LogKeeps DEF Receive, Step, HandlerFails, Disconnect, GenerateToken
  <1>3. ProcessInv'
    <2>1. UNCHANGED <<opt, process>>
      BY DEF Receive, Step, HandlerFails, Disconnect, GenerateToken
    <2> QED
      BY <2>1, ProcessAlone
  <1> QED
    BY <1>1, <1>2, <1>3

(* The invariant of the whole program. *)
LEMMA ServeInvariant == ServeSpec => []ServeIInv
  <1>1. ASSUME ServeIInv, [ServeNext]_serveVars PROVE ServeIInv'
    <2>1. CASE UNCHANGED serveVars
      <3>1. UNCHANGED apiVars /\ UNCHANGED lists /\ UNCHANGED <<opt, process>>
        BY <2>1 DEF serveVars
      <3> QED
        BY <1>1, <3>1, ApiLeftAlone, ListsLeftAlone, ProcessAlone DEF ServeIInv
    <2>2. CASE ServeNext
      BY <1>1, <2>1, <2>2, MainSteps, RequestSteps DEF ServeNext, Done
    <2> QED
      BY <1>1, <2>1, <2>2
  <1> QED
    BY <1>1, ServeStart, PTL DEF ServeSpec

(* At every time each request that waits for the mutex or holds it stands in
   the line exactly once, and no other does: the mutex is neither lost nor held
   twice, whichever request is dropped and wherever it awaits (api.rs). *)
THEOREM ApiTypeCorrect == ServeSpec => []ApiTypeOK
  <1>1. ServeIInv => ApiTypeOK
    BY ApiTypesCounted DEF ServeIInv
  <1> QED
    BY <1>1, ServeInvariant, PTL

(* A request reaches a handler only with a token of the table, and one whose
   token was there when it arrived is not turned away for want of it, whatever
   is generated or dropped while it waits (auth_middleware; token.rs:41). *)
THEOREM OnlyTokensDecide == ServeSpec => []TokensDecide
  <1>1. ServeIInv => TokensDecide
    BY ApiTypesCounted DEF ServeIInv
  <1> QED
    BY <1>1, ServeInvariant, PTL

(* The error log and the search history hold the newest entries, all of them
   up to the cap and in their order, after any number of entries from any
   number of tasks, and after any clearing (TuiLogger::on_event and
   GoogleSearchHandler). *)
THEOREM NewestEntries == ServeSpec => []ListsKept
  <1>1. ServeIInv => ListsKept
    BY DEF ServeIInv, ListsInv, ListsKept, ErrorsOf, SearchesOf
  <1> QED
    BY <1>1, ServeInvariant, PTL

(* The proxy stops serving only when its listener has ended or a terminal UI
   that was asked for is finished: main keeps a sender, so that the receiver is
   never ready for want of one (main.rs:225, proxy.rs:83). *)
THEOREM ToldToStop == ServeSpec => StopsOnlyWhenTold
  <1>1. ASSUME ServeIInv, [ServeNext]_serveVars, main = "serving", main' # "serving"
        PROVE  ~ listening \/ (opt.manage /\ tui = "finished")
    <2>1. Stop
      BY <1>1 DEF ServeNext, MainNext, Open, SpawnTui, SpawnApi, Bind, End, ListenerEnds, StartTui,
        Quit, FailTui, PanicTui, Tell, Clear, StartApi, Receive, Step, HandlerFails, Disconnect,
        GenerateToken, Search, Complain, Done, serveVars, process
    <2> QED
      BY <1>1, <2>1 DEF Stop, Told, ServeIInv, ProcessInv
  <1>2. ServeIInv /\ [ServeNext]_serveVars =>
          [main = "serving" /\ main' # "serving" =>
             ~ listening \/ (opt.manage /\ tui = "finished")]_serveVars
    BY <1>1
  <1> QED
    BY <1>2, ServeInvariant, PTL DEF ServeSpec, StopsOnlyWhenTold
=============================================================================
