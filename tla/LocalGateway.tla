---------------------------- MODULE LocalGateway ----------------------------
(***************************************************************************)
(* One request to the API: the browser's preflight, the local gateway with *)
(* its authorizer and its timeout, the Lambda function it invokes (user,   *)
(* validation, record, message), and the answer.  The gateway may give up  *)
(* waiting while the function still runs, and the function may die.        *)
(***************************************************************************)
CONSTANTS
  Caller,           \* the user the request comes from
  TokenText,        \* a whole token, when it is taken for the user
  None,             \* no user
  AllowOrigins,     \* CORS_ALLOW_ORIGINS
  AllowUnverified   \* AUTH_ALLOW_UNVERIFIED_JWT

ASSUME GatewayAssumption ==
  /\ None \notin {Caller, TokenText}
  /\ AllowUnverified \in BOOLEAN

VARIABLES
  req,     \* what is asked, how, and by whom
  gate,    \* where the gateway is with the request
  answer,  \* what the client got: a status, or a closed connection
  event,   \* the sub in the event's authorizer claims
  lambda,  \* where the function is
  result,  \* what came of the invocation
  record,  \* user_id of the job's record
  queued   \* is the job's message in the queue?

vars == <<req, gate, answer, event, lambda, result, record, queued>>

Routes  == {"create", "read", "health", "unknown"}
(* No bearer token; one that is no JWT; a JWT with a sub; one without; one *)
(* with a sub that is unsigned or says alg none.                           *)
Tokens  == {"none", "opaque", "jwt", "jwt without sub", "unsigned"}
(* A Content-Length that is no number or too large; text that is not       *)
(* UTF-8; not the model's fields; a repo_url or model_id not accepted.     *)
Bodies  == {"unreadable", "not utf-8", "misfit", "rejected", "valid"}
Request == [via : {"browser", "client", "direct"}, origin : {"listed", "other"},
            route : Routes, token : Tokens, body : Bodies]

Answers == {"none", "200", "202", "400", "401", "404", "422", "500", "502"}
Refusal == {"400", "401", "404", "422"}
Failure == {"function error", "reset", "not JSON"}

TypeOK ==
  /\ req \in Request
  /\ gate \in {"preflight", "blocked", "sent", "invoking", "answered", "bypassed"}
  /\ answer \in Answers \/ answer = "closed"
  /\ event \in {Caller, TokenText, None}
  /\ lambda \in {"none", "running", "recorded", "ended"}
  /\ result \in Failure \/ result \in Answers
  /\ record \in {Caller, TokenText, None}
  /\ queued \in BOOLEAN

Init ==
  /\ req \in Request
  /\ gate = CASE req.via = "browser" -> "preflight"
              [] req.via = "client" -> "sent"
              [] req.via = "direct" -> "bypassed"
  /\ lambda = IF req.via = "direct" THEN "running" ELSE "none"
  /\ answer = "none" /\ event = None /\ result = "none" /\ record = None /\ queued = FALSE

lambdaVars == <<lambda, result, record, queued>>

-----------------------------------------------------------------------------
(* The gateway. *)

(* Is Access-Control-Allow-Origin in the answer? *)
cors_headers(origin) == "*" \in AllowOrigins \/ origin \in AllowOrigins

(* do_OPTIONS; without the headers the browser goes no further. *)
Preflight ==
  /\ gate = "preflight"
  /\ gate' = IF cors_headers(req.origin) THEN "sent" ELSE "blocked"
  /\ UNCHANGED <<req, answer, event, lambdaVars>>

(* The sub of a JWT, unverified; otherwise the token itself. *)
resolve_subject(token) ==
  CASE token = "none" -> None
    [] token \in {"opaque", "jwt", "unsigned"} -> Caller
    [] token = "jwt without sub" -> TokenText

RequireJwt(route) == route # "health"

(* Defect: the claims are left out of the event. *)
NoClaims(route, token) == None

(* requestContext.authorizer.jwt.claims.sub *)
build_event(route, token) == IF RequireJwt(route) THEN resolve_subject(token) ELSE None

Answer(status) == gate' = "answered" /\ answer' = status /\ UNCHANGED req

Readable   == req.body # "unreadable"
Matched    == Readable /\ req.route # "unknown"
Authorized == Matched /\ (RequireJwt(req.route) => resolve_subject(req.token) # None)

(* _handle up to the invocation.  The body is read first; one that is not  *)
(* UTF-8 raises out of the handler, which closes the connection.           *)
Handle ==
  /\ gate = "sent"
  /\ \/ /\ \/ ~Readable /\ Answer("400")
           \/ Readable /\ ~Matched /\ Answer("404")
           \/ Matched /\ ~Authorized /\ Answer("401")
           \/ Authorized /\ req.body = "not utf-8" /\ Answer("closed")
           \/ Authorized /\ req.body # "not utf-8" /\ Answer("502")   \* unreachable
        /\ UNCHANGED <<event, lambda>>
     \/ /\ Authorized /\ req.body # "not utf-8"
        /\ event' = build_event(req.route, req.token)
        /\ gate' = "invoking" /\ lambda' = "running"
        /\ UNCHANGED <<req, answer>>
  /\ UNCHANGED <<result, record, queued>>

(* LambdaRieClient.invoke and what _handle makes of it.  A connection the  *)
(* function's side resets is none of the errors either of them catches.    *)
Relay(outcome) ==
  CASE outcome = "function error" -> "500"
    [] outcome = "not JSON" -> "502"
    [] outcome = "reset" -> "closed"
    [] OTHER -> outcome

HandleResult ==
  /\ gate = "invoking" /\ lambda = "ended"
  /\ Answer(Relay(result))
  /\ UNCHANGED <<event, lambdaVars>>

(* The socket's timeout: the function is not told. *)
InvokeTimesOut ==
  /\ gate = "invoking" /\ lambda # "ended"
  /\ Answer("502")
  /\ UNCHANGED <<event, lambdaVars>>

-----------------------------------------------------------------------------
(* The function. *)

Return(outcome) == lambda' = "ended" /\ result' = outcome

(* Defect: the fallback is not tied to the setting. *)
AlwaysFallBack(sub, token) ==
  IF sub = None /\ token = "jwt" THEN Caller ELSE sub

(* The authorizer's sub; only where it is allowed, a signed JWT's own. *)
get_current_user_id(sub, token) ==
  IF sub = None /\ AllowUnverified /\ token = "jwt" THEN Caller ELSE sub

User == get_current_user_id(event, req.token)

(* Health asks for no user; reading needs one and changes nothing. *)
ServeGet ==
  /\ lambda = "running"
  /\ \/ req.route = "health" /\ Return("200")
     \/ req.route = "read" /\ User = None /\ Return("401")
     \/ /\ req.route = "read" /\ User # None
        /\ \E status \in {"200", "400", "404", "422", "500", "502"} : Return(status)
     \/ req.route = "unknown" /\ Return("404")
  /\ UNCHANGED <<req, gate, answer, event, record, queued>>

(* Defect: every error of the service is the client's. *)
BadRequest(error) == "400"

(* The router's except clauses; what it does not name ends as a 500. *)
StatusOf(error) ==
  CASE error = "ValidationError" -> "400"
    [] error \in {"RepositoryError", "QueueError"} -> "502"
    [] error = "uncaught" -> "500"

Refuse ==
  /\ lambda = "running" /\ req.route = "create"
  /\ \/ User = None /\ Return("401")
     \/ req.body \notin {"valid", "rejected"} /\ Return("422")
     \/ User # None /\ req.body = "rejected" /\ Return(StatusOf("ValidationError"))
  /\ UNCHANGED <<req, gate, answer, event, record, queued>>

(* An error of a call may hide its effect. *)
PutInitialRecord ==
  /\ lambda = "running" /\ req.route = "create" /\ User # None /\ req.body = "valid"
  /\ \/ record' = User /\ lambda' = "recorded" /\ UNCHANGED result
     \/ record' \in {None, User} /\ \E e \in {"RepositoryError", "uncaught"} : Return(StatusOf(e))
  /\ UNCHANGED <<req, gate, answer, event, queued>>

(* Defect: the error of the queue is swallowed. *)
EnqueueOrNot ==
  /\ lambda = "recorded"
  /\ queued' \in BOOLEAN /\ Return("202")
  /\ UNCHANGED <<req, gate, answer, event, record>>

EnqueueJob ==
  /\ lambda = "recorded"
  /\ \/ queued' = TRUE /\ Return("202")
     \/ queued' \in BOOLEAN /\ \E e \in {"QueueError", "uncaught"} : Return(StatusOf(e))
  /\ UNCHANGED <<req, gate, answer, event, record>>

(* Its timeout, an exception of the runtime, a container stopped. *)
Die ==
  /\ lambda \in {"running", "recorded"}
  /\ \E failure \in Failure : Return(failure)
  /\ UNCHANGED <<req, gate, answer, event, record, queued>>

Next ==
  \/ Preflight \/ Handle \/ HandleResult \/ InvokeTimesOut
  \/ ServeGet \/ Refuse \/ PutInitialRecord \/ EnqueueJob \/ Die

Spec == Init /\ [][Next]_vars

-----------------------------------------------------------------------------
(* Properties. *)

(* 202 is only ever said of a job that has both its record and its         *)
(* message: a record whose message failed shows in the answer, as the job  *)
(* will stay queued with nobody to work on it.                             *)
AcceptedIsComplete == answer = "202" => record # None /\ queued

(* A client told 4xx may correct and send again: nothing of the refused    *)
(* request was or will be recorded, although a function that the gateway   *)
(* stopped waiting for runs on.                                            *)
RefusalIsFinal == answer \in Refusal => record = None

(* A record belongs to the user the authorizer made out of the token, and  *)
(* there is none for an event that passed no authorizer.                   *)
OwnerIsAuthorized ==
  record # None => /\ gate # "bypassed" \/ AllowUnverified
                   /\ gate # "bypassed" => record = resolve_subject(req.token)

(* What the gateway lets through the API does not turn away: they agree    *)
(* on who the user is, for every shape of token.                           *)
GatewayAndApiAgree == gate # "bypassed" => result # "401"

(* From a page whose origin is not allowed, no job is created. *)
OnlyAllowedOriginsAct ==
  req.via = "browser" /\ record # None => {"*", req.origin} \cap AllowOrigins # {}
=============================================================================
