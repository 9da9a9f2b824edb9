--------------------------------- MODULE Api ---------------------------------
(***************************************************************************)
(* Requests to the HTTP API (src/src/api.rs, auth.rs, token.rs).           *)
(*                                                                         *)
(* All requests share AppState behind one tokio mutex, which serves its    *)
(* waiters in turn.  auth_middleware locks it to clone the token manager,  *)
(* lets it go, and asks the table of tokens; every handler but that of     *)
(* GET /api/limits, which does nothing, locks it again and keeps it until  *)
(* it has its answer.  A request can be dropped where it awaits something: *)
(* the client goes away, or the runtime shuts down.  Tokens are generated  *)
(* by another process.                                                     *)
(***************************************************************************)
EXTENDS SequencesExt, Integers

CONSTANTS
  Calls,       \* requests to the API, each sent at most once
  Tokens,      \* tokens that `generate-token` may make
  ApiFaults,   \* which failures may happen, of "tokens", "handler"
  None         \* Option::None

VARIABLES
  tokens,      \* table tokens
  stage,       \* stage[r]: see Stages
  bearer,      \* bearer[r]: the token in its Authorization header, or None
  reply,       \* reply[r]: the answer it got, or None
  line,        \* the tokio mutex: the holder, then those who wait
  \* History variable, read by no guard.
  entitled     \* requests whose token was in the table when they came in,
               \* and for which the table could be read

apiVars == <<tokens, stage, bearer, reply, line, entitled>>

(* "auth" and "call" await the mutex, "body" awaits the rest of the request;
   in "verify" and "handling" a worker thread is busy with it. *)
Stages == {"new", "auth", "verify", "body", "call", "handling", "answered", "dropped"}
Awaiting == {"auth", "body", "call"}
Busy == {"verify", "handling"}
Ended == {"answered", "dropped"}

Replies == {"ok", "error", "bad_request", "unauthorized"}

ASSUME NoneAssumption == None \notin Tokens \cup Replies

ApiInit ==
  /\ tokens = {}
  /\ stage = [r \in Calls |-> "new"]
  /\ bearer = [r \in Calls |-> None]
  /\ reply = [r \in Calls |-> None]
  /\ line = <<>>
  /\ entitled = {}

-----------------------------------------------------------------------------
Goto(r, s) == stage' = [stage EXCEPT ![r] = s]

Answer(r, answer) ==
  /\ Goto(r, "answered")
  /\ reply' = [reply EXCEPT ![r] = answer]

HasLock(r) == line # <<>> /\ Head(line) = r

Unlock == line' = Tail(line)

(* The header is looked at before anything else. *)
Arrive(r) ==
  /\ stage[r] = "new"
  /\ \/ \E t \in Tokens :
          /\ bearer' = [bearer EXCEPT ![r] = t]
          /\ Goto(r, "auth")
          /\ line' = Append(line, r)
          /\ entitled' = IF t \in tokens THEN entitled \cup {r} ELSE entitled
          /\ UNCHANGED reply
     \/ /\ Answer(r, "unauthorized")
        /\ UNCHANGED <<bearer, line, entitled>>
  /\ UNCHANGED tokens

(* Mutant: the guard of the mutex lives until the handler has run. *)
CloneManager_KeepsGuard(r) ==
  /\ stage[r] = "auth"
  /\ HasLock(r)
  /\ Goto(r, "verify")
  /\ UNCHANGED <<tokens, bearer, reply, line, entitled>>

CloneManager(r) ==
  /\ stage[r] = "auth"
  /\ HasLock(r)
  /\ Goto(r, "verify")
  /\ Unlock
  /\ UNCHANGED <<tokens, bearer, reply, entitled>>

(* Mutant: the tokens are those there were when the server started. *)
Accepts_AtStart(t) == t \in {}

Accepts(t) == t \in tokens

Verify(r) ==
  /\ stage[r] = "verify"
  /\ IF Accepts(bearer[r]) THEN Goto(r, "body") /\ UNCHANGED reply
     ELSE Answer(r, "unauthorized")
  /\ UNCHANGED <<tokens, bearer, line, entitled>>

(* An error of the database counts as a wrong token. *)
VerifyFails(r) ==
  /\ "tokens" \in ApiFaults
  /\ stage[r] = "verify"
  /\ Answer(r, "unauthorized")
  /\ entitled' = entitled \ {r}
  /\ UNCHANGED <<tokens, bearer, line>>

(* Path and Json are extracted before the handler is called; get_limits answers
   without the lock. *)
Extract(r) ==
  /\ stage[r] = "body"
  /\ \/ Goto(r, "call") /\ line' = Append(line, r) /\ UNCHANGED reply
     \/ \E answer \in {"bad_request", "ok"} : Answer(r, answer) /\ UNCHANGED line
  /\ UNCHANGED <<tokens, bearer, entitled>>

Enter(r) ==
  /\ stage[r] = "call"
  /\ HasLock(r)
  /\ Goto(r, "handling")
  /\ UNCHANGED <<tokens, bearer, reply, line, entitled>>

(* The handler's one call to policy or access log has returned.  The guard
   lives until the end of the match, so the error is logged under it. *)
Finish(r, answer) ==
  /\ stage[r] = "handling"
  /\ Answer(r, answer)
  /\ Unlock
  /\ UNCHANGED <<tokens, bearer, entitled>>

(* The future is dropped where it awaits, and leaves the line if it is in it. *)
Drop(r) ==
  /\ stage[r] \in Awaiting
  /\ Goto(r, "dropped")
  /\ \/ \E i \in DOMAIN line : line[i] = r /\ line' = RemoveAt(line, i)
     \/ r \notin Range(line) /\ UNCHANGED line
  /\ UNCHANGED <<tokens, bearer, reply, entitled>>

(* TokenManager::generate, in a process of its own. *)
Generate(t) ==
  /\ t \notin tokens
  /\ tokens' = tokens \cup {t}
  /\ UNCHANGED <<stage, bearer, reply, line, entitled>>

Advance(r) == CloneManager(r) \/ Verify(r) \/ Enter(r) \/ Finish(r, "ok")

-----------------------------------------------------------------------------
(* Properties. *)

(* Types of the variables; a request is in the line exactly while it waits for
   the mutex or holds it, and once. *)
ApiTypeOK ==
  /\ tokens \subseteq Tokens
  /\ stage \in [Calls -> Stages]
  /\ bearer \in [Calls -> Tokens \cup {None}]
  /\ reply \in [Calls -> Replies \cup {None}]
  /\ \A r \in Calls : stage[r] = "answered" <=> reply[r] # None
  /\ \A r \in Calls :
       Cardinality({i \in DOMAIN line : line[i] = r}) =
         IF stage[r] \in {"auth", "call", "handling"} THEN 1 ELSE 0

(* A request gets to a handler only with a token from the table; one whose
   token was generated before it came in is not turned away unless the table
   cannot be read (token.rs:41-52 asks the table for each request). *)
TokensDecide ==
  \A r \in Calls :
    /\ stage[r] \in {"body", "call", "handling"} \/ reply[r] \in {"ok", "error"} =>
         bearer[r] \in tokens
    /\ r \in entitled => reply[r] # "unauthorized"

(* Nobody waits for AppState for good: not for a request whose body never
   comes, not for one that is dropped while it waits, and not for itself. *)
WaitsEnd ==
  \A r \in Calls :
    /\ stage[r] = "auth" ~> stage[r] \in {"body"} \cup Ended
    /\ stage[r] = "call" ~> stage[r] \in Ended
=============================================================================
