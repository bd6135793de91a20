----------------------------- MODULE Middleware -----------------------------
(***************************************************************************)
(* The two HTTP front ends, the Tower layer of Axum                        *)
(* (src/middleware/layer.rs) and the Actix middleware                      *)
(* (src/middleware/actix.rs), over GCRA on Redis: what becomes of a        *)
(* request between the storage's answer, or its failure, and the response. *)
(* It adds to GcraRedis, whose actions are the storage calls.  A task      *)
(* serves one request at a time; a client that disconnects drops it.       *)
(***************************************************************************)
EXTENDS GcraRedis

CONSTANTS
  Frameworks,   \* the front ends that may be in use
  Requests      \* [path, forwarded, real_ip, peer], all but the path optional

ASSUME MiddlewareAssumption ==
  /\ Frameworks \subseteq {"axum", "actix"}
  /\ None \notin Requests

VARIABLES
  framework,    \* the one in use
  request,      \* per task: the request it serves, or None
  stage,        \* per task: "limit" while it awaits the limiter, "serve" while
                \* it awaits the inner service, "idle" between requests
  comeBack      \* history, per key: when the wait that the last 429 told is
                \* over, None once another was charged or the key was reset

frontVars == <<framework, request, stage, comeBack>>
allVars == <<vars, frontVars>>

\* extract_key of Actix.
ClientKey(r) ==
  CASE r.forwarded /= None -> <<"ip", r.forwarded>>
    [] r.forwarded = None /\ r.real_ip /= None -> <<"ip", r.real_ip>>
    [] r.forwarded = None /\ r.real_ip = None /\ r.peer /= None -> <<"ip", r.peer>>
    [] OTHER -> <<"path", r.path>>

ASSUME KeysAssumption ==
  \A r \in Requests : {<<"axum", r.path>>, ClientKey(r)} \subseteq Keys

\* The layer of Axum does not ask its key extractor.
KeyOf(r) == IF framework = "axum" THEN <<"axum", r.path>> ELSE ClientKey(r)

\* What the body of a 429 says, and for Actix the header: whole seconds,
\* rounded down, and 60 where the limiter gives no time.
RetryAfterSeconds(retry_after) ==
  IF retry_after = None THEN 60 ELSE retry_after \div MsPerSecond

FrontTypeOK ==
  /\ TypeOK
  /\ framework \in Frameworks
  /\ request \in [Workers -> Requests \cup {None}]
  /\ stage \in [Workers -> {"idle", "limit", "serve"}]
  /\ comeBack \in [Keys -> Nat \cup {None}]

FrontInit ==
  /\ Init
  /\ framework \in Frameworks
  /\ request = [w \in Workers |-> None]
  /\ stage = [w \in Workers |-> "idle"]
  /\ comeBack = [k \in Keys |-> None]

\* `call`, up to its first await.  Actix calls the inner service here, for a
\* future that it polls only when the limiter has let the request through.
Arrive(w, r) ==
  /\ CheckAndRecord(w, KeyOf(r))
  /\ stage[w] = "idle"
  /\ stage' = [stage EXCEPT ![w] = "limit"]
  /\ request' = [request EXCEPT ![w] = r]
  /\ UNCHANGED <<framework, comeBack>>

\* The inner service is called in the step that ends the wait for the limiter.
Proceed(w) == stage' = [stage EXCEPT ![w] = "serve"] /\ UNCHANGED <<framework, request>>

\* The task is done with its request: it has answered, or was dropped.
Leave(w) ==
  /\ stage' = [stage EXCEPT ![w] = "idle"]
  /\ request' = [request EXCEPT ![w] = None]
  /\ UNCHANGED framework

Charged(w) == comeBack' = [comeBack EXCEPT ![call[w].key] = None]

\* The limiter lets the request through.
Pass(w) ==
  /\ stage[w] = "limit" /\ ~Refused(w) /\ Outcome(w).allowed
  /\ Record(w)
  /\ Charged(w)
  /\ Proceed(w)

\* The limiter denies the request, which is answered with 429.
Deny(w) ==
  LET seconds == RetryAfterSeconds(RetryAfter(Outcome(w), now[w]))
  IN  /\ stage[w] = "limit" /\ ~Refused(w) /\ ~Outcome(w).allowed
      /\ Record(w)
      /\ comeBack' = [comeBack EXCEPT ![call[w].key] = clock + seconds * MsPerSecond]
      /\ Leave(w)

\* The storage fails, before or after it took effect: the request goes through.
FailOpen(w) ==
  /\ stage[w] = "limit"
  /\ \/ Refused(w) /\ Record(w) /\ UNCHANGED comeBack
     \/ RecordUnanswered(w) /\ Charged(w)
     \/ Failure(w) /\ UNCHANGED comeBack
  /\ Proceed(w)

\* The client is gone, and the task's future with it.
Drop(w) ==
  /\ \/ stage[w] = "limit" /\ RecordUnanswered(w) /\ Charged(w)
     \/ stage[w] = "limit" /\ Failure(w) /\ UNCHANGED comeBack
     \/ stage[w] = "serve" /\ UNCHANGED <<vars, comeBack>>
  /\ Leave(w)

\* The inner service has answered, or failed.
Respond(w) ==
  /\ stage[w] = "serve"
  /\ Leave(w)
  /\ UNCHANGED <<vars, comeBack>>

\* The application asks the limiter itself, outside of any request.
Ask(w) ==
  /\ stage[w] = "idle"
  /\ \E r \in Requests : Check(w, KeyOf(r)) \/ Reset(w, KeyOf(r))
  /\ UNCHANGED frontVars

Asked(w) ==
  /\ stage[w] = "idle"
  /\ \/ PeekDone(w) /\ UNCHANGED frontVars
     \/ Failure(w) /\ UNCHANGED frontVars
     \/ /\ Forget(w) \/ ForgetUnanswered(w)
        /\ Charged(w)
        /\ UNCHANGED <<framework, request, stage>>

Work(w) ==
  \/ Advance(w) /\ UNCHANGED frontVars
  \/ Pass(w) \/ Deny(w) \/ FailOpen(w) \/ Drop(w) \/ Respond(w) \/ Asked(w)

FrontNext ==
  \/ Time /\ UNCHANGED frontVars
  \/ \E w \in Workers :
       \/ \E r \in Requests : Arrive(w, r)
       \/ Ask(w)
       \/ Work(w)

\* A command that is sent ends, with an answer or an error, and so does the
\* inner service; the pool hands out its connections in order of arrival.
FrontSpec ==
  /\ FrontInit /\ [][FrontNext]_allVars
  /\ \A w \in Workers :
       /\ WF_allVars(call[w].phase /= "connect" /\ Work(w))
       /\ SF_allVars(Connect(w) /\ Work(w))

-----------------------------------------------------------------------------
(***************************************************************************)
(* Properties                                                              *)
(***************************************************************************)
\* A request that is denied, of a client that was told when to come back, came
\* before that.
DeniedEarly ==
  \A w \in Workers :
    stage[w] = "limit" /\ stage'[w] = "idle" /\ outcome'[w] = "ok"
      /\ comeBack[call[w].key] /= None =>
        now[w] < comeBack[call[w].key]

\* Whoever waits, from the 429 on, as many seconds as it says is not told 429
\* again, unless others were charged meanwhile.  The code does not keep this:
\* the seconds are rounded down.
RetryAfterSuffices == [][DeniedEarly]_allVars

\* Every request is answered, or its client is gone: the storage may fail in
\* any way, the task still gets past it.
RequestsEnd == \A w \in Workers : stage[w] /= "idle" ~> stage[w] = "idle"

-----------------------------------------------------------------------------
(***************************************************************************)
(* Inductive invariants                                                    *)
(***************************************************************************)
\* For any number of tasks.
SharedInv == FrontTypeOK /\ PoolKept /\ CallsMade /\ DebtInv

\* For a task that is alone.
FrontInv ==
  /\ SharedInv
  /\ \A w \in Workers : StillStored(w) /\ LogInv(w)
  /\ Conforms
=============================================================================
