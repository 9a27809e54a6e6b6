------------------------- MODULE LocalGatewayProofs -------------------------
(* What holds of LocalGateway for every user, setting and list of origins,  *)
(* of KeepAlive, and of LocalHttp, which is one or the other.               *)
EXTENDS LocalHttp, TLAPS

(* Where the gateway stands fixes what the function may have begun, and    *)
(* what the browser and the authorizer have let through.                   *)
GateInv ==
  /\ gate \in {"preflight", "blocked", "sent"} => lambda = "none"
  /\ gate = "bypassed" => event = None
  /\ gate # "answered" => answer = "none"
  /\ gate # "bypassed" /\ lambda # "none" =>
       /\ event = build_event(req.route, req.token)
       /\ RequireJwt(req.route) => event # None
       /\ req.route # "unknown"
  /\ req.via = "browser" /\ gate \notin {"preflight", "blocked"} => cors_headers(req.origin)
  /\ req.via = "browser" => gate # "bypassed"

(* What the function has done follows from how far it is. *)
FunctionInv ==
  /\ lambda \in {"none", "running"} => record = None /\ result = "none"
  /\ lambda = "recorded" => record # None /\ result = "none"
  /\ lambda # "ended" => queued = FALSE
  /\ record # None => record = User /\ req.route = "create"
  /\ result = "202" => record # None /\ queued
  /\ result \in Refusal => record = None
  /\ gate # "bypassed" => result # "401"

(* The client's answer is the gateway's own, or what the function ended with. *)
AnswerInv ==
  /\ answer = "202" => lambda = "ended" /\ result = "202"
  /\ answer \in Refusal => \/ lambda = "none"
                           \/ lambda = "ended" /\ result = answer

IInv == TypeOK /\ GateInv /\ FunctionInv /\ AnswerInv

-----------------------------------------------------------------------------

LEMMA InitInv == Init => IInv
<1> SUFFICES ASSUME Init PROVE IInv
  OBVIOUS
<1>1. TypeOK
  BY DEF Init, TypeOK, Request, Answers
<1>2. GateInv
  BY DEF Init, GateInv, Request
<1>3. FunctionInv
  BY DEF Init, FunctionInv, Refusal
<1>4. AnswerInv
  BY DEF Init, AnswerInv, Refusal
<1> QED
  BY <1>1, <1>2, <1>3, <1>4 DEF IInv

(* What the gateway makes of a result is a status or a closed connection.  *)
(* It never turns a failure into a refusal or a 202.                       *)
LEMMA RelayKinds ==
  ASSUME NEW outcome \in Failure \cup Answers
  PROVE  /\ Relay(outcome) \in Answers \cup {"closed"}
         /\ Relay(outcome) \in Refusal \cup {"202"} => outcome = Relay(outcome)
BY DEF Relay, Failure, Answers, Refusal

(* The user of a request is one of those there are; it is the one in the   *)
(* event when there is one.                                                *)
LEMMA UserKinds ==
  ASSUME TypeOK
  PROVE  /\ User \in {Caller, TokenText, None}
         /\ event # None => User = event
         /\ event = None /\ User # None => AllowUnverified
BY DEF TypeOK, User, get_current_user_id

LEMMA GatewaySteps ==
  ASSUME IInv, Preflight \/ Handle \/ HandleResult \/ InvokeTimesOut
  PROVE  IInv'
<1>1. CASE Preflight
  BY <1>1 DEF IInv, Preflight, lambdaVars, TypeOK, GateInv, FunctionInv, AnswerInv, User
<1>2. CASE Handle
  <2>1. TypeOK'
    BY <1>2 DEF IInv, Handle, TypeOK, Answer, Answers, build_event, resolve_subject, Request, Tokens
  <2>2. UNCHANGED <<req, result, record, queued>> /\ gate = "sent" /\ lambda = "none"
    BY <1>2 DEF IInv, Handle, GateInv, Answer
  <2>3. \/ gate' = "answered" /\ answer' \in {"400", "404", "401", "closed", "502"}
           /\ UNCHANGED <<event, lambda>>
        \/ /\ gate' = "invoking" /\ lambda' = "running" /\ Authorized
           /\ event' = build_event(req.route, req.token) /\ UNCHANGED answer
    BY <1>2 DEF Handle, Answer
  <2>4. Authorized => /\ RequireJwt(req.route) => build_event(req.route, req.token) # None
                      /\ req.route # "unknown"
    BY DEF Authorized, Matched, build_event
  <2>5. GateInv'
    BY <2>2, <2>3, <2>4 DEF IInv, GateInv
  <2>6. FunctionInv'
    BY <2>2, <2>3 DEF IInv, FunctionInv
  <2>7. AnswerInv'
    BY <2>2, <2>3 DEF IInv, AnswerInv, GateInv, Refusal
  <2> QED
    BY <2>1, <2>5, <2>6, <2>7 DEF IInv
<1>3. CASE HandleResult
  <2>1. result \in Failure \cup Answers
    BY DEF IInv, TypeOK
  <2>2. /\ answer' = Relay(result) /\ gate' = "answered" /\ gate = "invoking"
        /\ lambda = "ended" /\ UNCHANGED <<req, event, lambda, result, record, queued>>
    BY <1>3 DEF HandleResult, Answer, lambdaVars
  <2>3. TypeOK'
    BY <2>1, <2>2, RelayKinds DEF IInv, TypeOK
  <2>4. GateInv' /\ FunctionInv'
    BY <2>2 DEF IInv, GateInv, FunctionInv, User
  <2>5. AnswerInv'
    BY <2>1, <2>2, RelayKinds DEF AnswerInv, IInv
  <2> QED
    BY <2>3, <2>4, <2>5 DEF IInv
<1>4. CASE InvokeTimesOut
  BY <1>4 DEF IInv, InvokeTimesOut, Answer, Answers, lambdaVars, TypeOK, GateInv, FunctionInv,
              AnswerInv, User, Refusal
<1> QED
  BY <1>1, <1>2, <1>3, <1>4

(* A function that ends keeps the invariant if its result fits. *)
LEMMA ReturnKeepsInv ==
  ASSUME IInv, NEW outcome \in Failure \cup Answers, Return(outcome),
         lambda \in {"running", "recorded"}, UNCHANGED <<req, gate, answer, event>>,
         record' \in {None, User}, queued' \in BOOLEAN,
         record' # None => req.route = "create",
         outcome = "202" => record' # None /\ queued',
         outcome \in Refusal => record' = None,
         gate # "bypassed" => outcome # "401"
  PROVE  IInv'
<1>1. lambda' = "ended" /\ result' = outcome
  BY DEF Return
<1>2. TypeOK'
  BY <1>1, UserKinds DEF IInv, TypeOK
<1>3. GateInv'
  BY <1>1 DEF IInv, GateInv
<1>4. FunctionInv'
  BY <1>1 DEF FunctionInv, User
<1>5. AnswerInv'
  BY <1>1 DEF IInv, AnswerInv
<1> QED
  BY <1>2, <1>3, <1>4, <1>5 DEF IInv

(* Behind the gateway there is always a user where one is asked for. *)
LEMMA UserBehindGateway ==
  ASSUME IInv, lambda # "none", gate # "bypassed", req.route \in {"create", "read"}
  PROVE  User # None
BY UserKinds DEF IInv, GateInv, RequireJwt

LEMMA FunctionSteps ==
  ASSUME IInv, ServeGet \/ Refuse \/ PutInitialRecord \/ EnqueueJob \/ Die
  PROVE  IInv'
<1>1. CASE ServeGet
  <2>1. record' = None /\ queued' = FALSE /\ lambda = "running"
    BY <1>1 DEF ServeGet, IInv, FunctionInv
  <2>2. UNCHANGED <<req, gate, answer, event>>
    BY <1>1 DEF ServeGet
  <2>3. PICK outcome \in Answers : /\ Return(outcome) /\ outcome # "202"
                                   /\ outcome = "401" => req.route = "read" /\ User = None
    BY <1>1 DEF ServeGet, Answers
  <2> QED
    BY <2>1, <2>2, <2>3, ReturnKeepsInv, UserBehindGateway
<1>2. CASE Refuse
  <2>1. record' = None /\ queued' = FALSE /\ lambda = "running"
    BY <1>2 DEF Refuse, IInv, FunctionInv
  <2>2. UNCHANGED <<req, gate, answer, event>> /\ req.route = "create"
    BY <1>2 DEF Refuse
  <2>3. PICK outcome \in {"400", "401", "422"} : Return(outcome) /\ (outcome = "401" => User = None)
    BY <1>2 DEF Refuse, StatusOf
  <2>4. outcome \in Answers
    BY DEF Answers
  <2> QED
    BY <2>1, <2>2, <2>3, <2>4, ReturnKeepsInv, UserBehindGateway
<1>3. CASE PutInitialRecord
  <2>1. CASE record' = User /\ lambda' = "recorded" /\ UNCHANGED result
    <3>1. User # None /\ User' = User /\ req.route = "create"
      BY <1>3 DEF PutInitialRecord, User
    <3>2. UNCHANGED <<req, gate, answer, event, queued>> /\ lambda = "running"
      BY <1>3 DEF PutInitialRecord
    <3>3. TypeOK'
      BY <2>1, <3>2, UserKinds DEF IInv, TypeOK
    <3>4. GateInv'
      BY <2>1, <3>2 DEF IInv, GateInv
    <3>5. FunctionInv'
      BY <2>1, <3>1, <3>2 DEF IInv, FunctionInv, Refusal
    <3>6. AnswerInv'
      BY <2>1, <3>2 DEF IInv, AnswerInv
    <3> QED
      BY <3>3, <3>4, <3>5, <3>6 DEF IInv
  <2>2. CASE ~(record' = User /\ lambda' = "recorded" /\ UNCHANGED result)
    <3>1. PICK outcome \in {"500", "502"} : Return(outcome)
      BY <1>3, <2>2 DEF PutInitialRecord, StatusOf
    <3>2. /\ record' \in {None, User} /\ queued' = FALSE /\ lambda = "running"
          /\ req.route = "create" /\ UNCHANGED <<req, gate, answer, event>>
      BY <1>3 DEF PutInitialRecord, IInv, FunctionInv
    <3>3. outcome \in Answers /\ outcome \notin Refusal /\ outcome \notin {"202", "401"}
      BY DEF Answers, Refusal
    <3> QED
      BY <3>1, <3>2, <3>3, ReturnKeepsInv
  <2> QED
    BY <2>1, <2>2
<1>4. CASE EnqueueJob
  <2>1. /\ lambda = "recorded" /\ record' = User /\ record' # None /\ req.route = "create"
        /\ UNCHANGED <<req, gate, answer, event>>
    BY <1>4 DEF EnqueueJob, IInv, FunctionInv
  <2>2. PICK outcome \in {"202", "500", "502"} : /\ Return(outcome) /\ queued' \in BOOLEAN
                                                 /\ outcome = "202" => queued'
    BY <1>4 DEF EnqueueJob, StatusOf
  <2>3. outcome \in Answers /\ outcome \notin Refusal /\ outcome # "401"
    BY DEF Answers, Refusal
  <2> QED
    BY <2>1, <2>2, <2>3, ReturnKeepsInv
<1>5. CASE Die
  <2>1. /\ lambda \in {"running", "recorded"} /\ UNCHANGED <<req, gate, answer, event, record, queued>>
    BY <1>5 DEF Die
  <2>2. PICK outcome \in Failure : Return(outcome)
    BY <1>5 DEF Die
  <2>3. outcome \notin Refusal /\ outcome \notin {"202", "401"}
    BY DEF Failure, Refusal
  <2>4. record \in {None, User} /\ (record # None => req.route = "create") /\ queued \in BOOLEAN
    BY DEF IInv, FunctionInv, TypeOK
  <2> QED
    BY <2>1, <2>2, <2>3, <2>4, ReturnKeepsInv
<1> QED
  BY <1>1, <1>2, <1>3, <1>4, <1>5

LEMMA Invariance == Spec => []IInv
<1>1. IInv /\ [Next]_vars => IInv'
  <2> SUFFICES ASSUME IInv, [Next]_vars PROVE IInv'
    OBVIOUS
  <2>1. CASE UNCHANGED vars
    BY <2>1 DEF vars, IInv, TypeOK, GateInv, FunctionInv, AnswerInv, User
  <2> QED
    BY <2>1, GatewaySteps, FunctionSteps DEF Next
<1> QED
  BY <1>1, InitInv, PTL DEF Spec

-----------------------------------------------------------------------------

(* Every variable keeps its type. *)
THEOREM TypeCorrect == Spec => []TypeOK
<1>1. IInv => TypeOK
  BY DEF IInv
<1> QED
  BY <1>1, Invariance, PTL

(* 202 stands for a record and a message, although the calls may fail      *)
(* without telling and the gateway may give up at any time.                *)
THEOREM AcceptanceIsComplete == Spec => []AcceptedIsComplete
<1>1. IInv => AcceptedIsComplete
  BY DEF IInv, AnswerInv, FunctionInv, AcceptedIsComplete
<1> QED
  BY <1>1, Invariance, PTL

(* A refused request leaves no record, then or later. *)
THEOREM RefusalLeavesNothing == Spec => []RefusalIsFinal
<1>1. IInv => RefusalIsFinal
  BY DEF IInv, AnswerInv, FunctionInv, RefusalIsFinal
<1> QED
  BY <1>1, Invariance, PTL

(* A record's owner is the authorizer's. *)
THEOREM OwnershipIsAuthorized == Spec => []OwnerIsAuthorized
<1>1. IInv => OwnerIsAuthorized
  <2> SUFFICES ASSUME IInv, record # None
               PROVE  /\ gate # "bypassed" \/ AllowUnverified
                      /\ gate # "bypassed" => record = resolve_subject(req.token)
    BY DEF OwnerIsAuthorized
  <2>1. record = User /\ req.route = "create" /\ lambda # "none"
    BY DEF IInv, FunctionInv, TypeOK
  <2>2. CASE gate = "bypassed"
    BY <2>1, <2>2, UserKinds DEF IInv, GateInv
  <2>3. CASE gate # "bypassed"
    BY <2>1, <2>3, UserKinds DEF IInv, GateInv, build_event, RequireJwt
  <2> QED
    BY <2>2, <2>3
<1> QED
  BY <1>1, Invariance, PTL

(* The API finds a user wherever the gateway did. *)
THEOREM GatewayAgreesWithApi == Spec => []GatewayAndApiAgree
<1>1. IInv => GatewayAndApiAgree
  BY DEF IInv, FunctionInv, GatewayAndApiAgree
<1> QED
  BY <1>1, Invariance, PTL

(* No job comes from a page whose origin is not allowed. *)
THEOREM ForeignPagesCreateNothing == Spec => []OnlyAllowedOriginsAct
<1>1. IInv => OnlyAllowedOriginsAct
  BY DEF IInv, GateInv, FunctionInv, TypeOK, OnlyAllowedOriginsAct, cors_headers
<1> QED
  BY <1>1, Invariance, PTL

-----------------------------------------------------------------------------
(* The connections. *)

(* Only an open connection has a request on it; only the Bedrock stub      *)
(* leaves the body of a request of the usual form, where the others refuse *)
(* unread they close; and only a left body can garble an answer.           *)
LeftInv ==
  /\ asked # K!Nothing => open
  /\ left # K!Nothing => server = "bedrock" \/ ~K!Usual(left)
  /\ status = "garbled" => left # K!Nothing
  /\ server \in {"apigw", "github"} /\ status \in {"401", "404"} => open

ConnectionInv == K!TypeOK /\ LeftInv

(* How a handler ends decides the whole next state, and the invariant      *)
(* holds of it if a usual body that it leaves is the Bedrock stub's.       *)
LEMMA DoneKeepsInv ==
  ASSUME ConnectionInv, asked \in K!Request,
         NEW answered \in K!Status \cup {"cut off"},
         NEW read \in BOOLEAN, NEW close \in BOOLEAN, K!Done(answered, read, close),
         server # "bedrock" =>
           asked.body = "none" \/ (read /\ asked.body = "right") \/ close \/ ~K!Usual(asked),
         server \in {"apigw", "github"} /\ close => answered \notin {"401", "404"}
  PROVE  ConnectionInv'
<1>1. status' = answered /\ open' = ~close /\ asked' = K!Nothing /\ server' = server
  BY DEF K!Done
<1>2. \/ left' = K!Nothing
      \/ left' = asked /\ (server # "bedrock" => ~K!Usual(asked))
  BY DEF K!Done
<1>3. K!TypeOK'
  <2>1. left' \in K!Request \cup {K!Nothing}
    BY <1>2
  <2>2. open' \in BOOLEAN
    BY <1>1
  <2>3. status' \in K!Status \cup {"none", "garbled", "cut off"}
    BY <1>1
  <2> QED
    BY <1>1, <2>1, <2>2, <2>3 DEF ConnectionInv, K!TypeOK
<1>4. LeftInv'
  <2>1. (left # K!Nothing)' => server' = "bedrock" \/ ~K!Usual(left)'
    BY <1>1, <1>2 DEF K!Usual
  <2>2. status' # "garbled"
    BY <1>1 DEF K!Status
  <2>3. server' \in {"apigw", "github"} /\ status' \in {"401", "404"} => open'
    BY <1>1
  <2> QED
    BY <1>1, <2>1, <2>2, <2>3 DEF LeftInv
<1> QED
  BY <1>3, <1>4 DEF ConnectionInv

(* A usual request without a POST has no body. *)
LEMMA BodiesArePosted ==
  ASSUME NEW r \in K!Request, r.method # "POST"
  PROVE  r.body = "none" \/ ~K!Usual(r)
BY DEF K!Usual

(* One with a body that read_body does not refuse has a right length. *)
LEMMA BodiesAreRead ==
  ASSUME NEW r \in K!Request, r.body # "refused"
  PROVE  r.body = "none" \/ r.body = "right" \/ ~K!Usual(r)
BY DEF K!Usual, K!Request

LEMMA HandlersKeepInv ==
  ASSUME ConnectionInv, K!HandleRequest
  PROVE  ConnectionInv'
<1> USE DEF K!send_bytes, K!SendError, K!Raise, K!Status
<1>1. asked \in K!Request /\ server \in K!Servers
  BY DEF K!HandleRequest, ConnectionInv, K!TypeOK
<1>2. CASE server = "apigw"
  <2>1. K!Apigw
    BY <1>2 DEF K!HandleRequest
  <2>2. asked.method = "OPTIONS" => asked.body = "none" \/ ~K!Usual(asked)
    BY <1>1, BodiesArePosted
  <2>3. asked.body # "refused" => asked.body = "none" \/ asked.body = "right" \/ ~K!Usual(asked)
    BY <1>1, BodiesAreRead
  <2> QED
    BY <1>1, <1>2, <2>1, <2>2, <2>3, DoneKeepsInv DEF K!Apigw
<1>3. CASE server = "bedrock"
  <2>1. K!Bedrock
    BY <1>3 DEF K!HandleRequest
  <2> QED
    BY <1>1, <1>3, <2>1, DoneKeepsInv DEF K!Bedrock
<1>4. CASE server = "github"
  <2>1. K!GitHub
    BY <1>4 DEF K!HandleRequest
  <2> QED
    BY <1>1, <1>4, <2>1, DoneKeepsInv, BodiesArePosted DEF K!GitHub, K!ServeTarball, K!ServeCommits
<1>5. CASE server = "frontend"
  <2>1. K!Frontend
    BY <1>5 DEF K!HandleRequest
  <2> QED
    BY <1>1, <1>5, <2>1, DoneKeepsInv, BodiesArePosted DEF K!Frontend, K!SendConfigJs
<1> QED
  BY <1>1, <1>2, <1>3, <1>4, <1>5 DEF K!Servers

LEMMA ConnectionInvariance == K!Spec => []ConnectionInv
<1>1. K!Init => ConnectionInv
  BY DEF K!Init, ConnectionInv, K!TypeOK, LeftInv
<1>2. ConnectionInv /\ [K!Next]_(K!vars) => ConnectionInv'
  <2> SUFFICES ASSUME ConnectionInv, [K!Next]_(K!vars) PROVE ConnectionInv'
    OBVIOUS
  <2>1. CASE K!Send
    BY <2>1 DEF K!Send, ConnectionInv, K!TypeOK, LeftInv
  <2>2. CASE K!Misread
    BY <2>2 DEF K!Misread, ConnectionInv, K!TypeOK, LeftInv
  <2>3. CASE K!Reconnect
    BY <2>3 DEF K!Reconnect, ConnectionInv, K!TypeOK, LeftInv
  <2>4. CASE UNCHANGED K!vars
    BY <2>4 DEF K!vars, ConnectionInv, K!TypeOK, LeftInv
  <2> QED
    BY <2>1, <2>2, <2>3, <2>4, HandlersKeepInv DEF K!Next
<1> QED
  BY <1>1, <1>2, PTL DEF K!Spec

(* A behaviour of both is one of each: what the other does leaves its      *)
(* variables alone.                                                        *)
LEMMA HttpIsBoth == HttpSpec => Spec /\ K!Spec
<1>1. HttpInit => Init /\ K!Init
  BY DEF HttpInit
<1>2. [HttpNext]_allVars => [Next]_vars /\ [K!Next]_(K!vars)
  BY DEF HttpNext, RequestNext, ConnectionNext, allVars, connection, K!vars
<1> QED
  BY <1>1, <1>2, PTL DEF HttpSpec, Spec, K!Spec

(* Whatever was asked before on a connection, in whatever form and         *)
(* refused or not, no request is read together with the body of a usual    *)
(* one but at the Bedrock stub, and a refusal leaves it usable.            *)
THEOREM ConnectionsStayUsable == HttpSpec => []ConnectionStaysUsable
<1>1. ConnectionInv => ConnectionStaysUsable
  <2> SUFFICES ASSUME ConnectionInv PROVE K!ConnectionStaysUsable
    BY DEF ConnectionStaysUsable
  <2>1. server \in {"apigw", "github"} => left = K!Nothing \/ ~K!Usual(left)
    BY DEF ConnectionInv, LeftInv
  <2>2. status = "garbled" => server = "bedrock" \/ ~K!Usual(left)
    BY DEF ConnectionInv, LeftInv
  <2>3. server \in {"apigw", "github"} /\ status \in {"401", "404"} => open
    BY DEF ConnectionInv, LeftInv
  <2> QED
    BY <2>1, <2>2, <2>3 DEF K!ConnectionStaysUsable
<1> QED
  BY <1>1, HttpIsBoth, ConnectionInvariance, PTL

(* The emulator as it is run keeps what LocalGateway promises. *)
THEOREM EmulatorKeepsPromises ==
  HttpSpec => [](AcceptedIsComplete /\ RefusalIsFinal /\ OwnerIsAuthorized /\ GatewayAndApiAgree)
BY HttpIsBoth, AcceptanceIsComplete, RefusalLeavesNothing, OwnershipIsAuthorized,
   GatewayAgreesWithApi, PTL
=============================================================================
