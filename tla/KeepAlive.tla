------------------------------ MODULE KeepAlive ------------------------------
(***************************************************************************)
(* One HTTP/1.1 connection to a server of the local emulator, used for one *)
(* request after the other: what each handler reads of a request, what it  *)
(* answers, and whether the connection stays open.  A body nobody read is  *)
(* taken for the beginning of the next request.  Only a Content-Length     *)
(* tells the handlers that there is a body.                                *)
(***************************************************************************)

VARIABLES
  server,  \* the server at the other end
  asked,   \* the request sent and not answered yet
  left,    \* the earlier request whose body is still on the wire
  open,    \* is the connection open?
  answer   \* the last answer on it: a status, or what stands for one

vars == <<server, asked, left, open, answer>>

Servers == {"apigw", "bedrock", "github", "frontend"}

(* A target is served, known but of a missing repository, or unknown.  A   *)
(* request has no body, one whose Content-Length is right, one whose       *)
(* Content-Length read_body refuses (no number, or more than               *)
(* MAX_BODY_BYTES), or one in chunks, which has no Content-Length.         *)
Request == [method : {"GET", "POST", "OPTIONS"}, target : {"served", "missing", "unknown"},
            body : {"none", "right", "refused", "chunked"}]
Nothing == [method |-> "none", target |-> "unknown", body |-> "none"]
Status  == {"200", "204", "400", "401", "404", "500", "501", "502"}

TypeOK ==
  /\ server \in Servers
  /\ asked \in Request \cup {Nothing}
  /\ left \in Request \cup {Nothing}
  /\ open \in BOOLEAN
  /\ answer \in Status \cup {"none", "garbled", "cut off"}

Init ==
  /\ server \in Servers
  /\ asked = Nothing /\ left = Nothing /\ open = TRUE /\ answer = "none"

(* A client sends its next request on the connection it was left with. *)
Send ==
  /\ open /\ asked = Nothing
  /\ asked' \in Request
  /\ UNCHANGED <<server, left, open, answer>>

-----------------------------------------------------------------------------
(* The ways a handler ends, having called read_body or not: without a      *)
(* Content-Length that returns an empty body and reads nothing.            *)

Done(status, read, close) ==
  /\ answer' = status
  /\ left' = IF asked.body = "none" \/ (read /\ asked.body = "right") \/ close
              THEN Nothing ELSE asked
  /\ open' = ~close
  /\ asked' = Nothing
  /\ UNCHANGED server

(* send_bytes: the answer is delimited, by its length or by a status that  *)
(* has no body, and the connection is kept.                                *)
send_bytes(status, read) == Done(status, read, FALSE)

(* send_error of the standard library: "Connection: close". *)
SendError(status) == Done(status, FALSE, TRUE)

(* An exception leaves the handler: the server closes the connection. *)
Raise == Done("cut off", FALSE, TRUE)

-----------------------------------------------------------------------------
(* The handlers. *)

(* Defect: the body is read after the route is known. *)
ApigwLate ==
  \/ asked.method = "OPTIONS" /\ send_bytes("204", FALSE)
  \/ /\ asked.method # "OPTIONS"
     /\ \/ asked.target # "served" /\ send_bytes("404", FALSE)
        \/ asked.target = "served" /\ asked.body = "refused" /\ Done("400", FALSE, TRUE)
        \/ /\ asked.target = "served" /\ asked.body # "refused"
           /\ \E status \in {"200", "400", "401", "404", "500", "502"} : send_bytes(status, TRUE)

(* _handle reads the body before anything else, and closes when it cannot. *)
Apigw ==
  \/ asked.method = "OPTIONS" /\ send_bytes("204", FALSE)
  \/ asked.method # "OPTIONS" /\ asked.body = "refused" /\ Done("400", FALSE, TRUE)
  \/ /\ asked.method # "OPTIONS" /\ asked.body # "refused"
     /\ \/ asked.target # "served" /\ send_bytes("404", TRUE)
        \/ /\ asked.target = "served"
           /\ \/ \E status \in {"200", "400", "401", "404", "500", "502"} : send_bytes(status, TRUE)
              \/ Raise

(* do_POST: a path that is not converse is refused with the body unread,   *)
(* and so is a Content-Length, on a connection that is kept; a body that   *)
(* is not JSON is refused, one that is not UTF-8 raises.                   *)
Bedrock ==
  \/ asked.method # "POST" /\ SendError("501")
  \/ asked.method = "POST" /\ asked.target # "served" /\ send_bytes("404", FALSE)
  \/ /\ asked.method = "POST" /\ asked.target = "served"
     /\ \/ asked.body = "refused" /\ send_bytes("400", FALSE)
        \/ asked.body # "refused" /\ (send_bytes("200", TRUE) \/ send_bytes("400", TRUE) \/ Raise)

ServeTarball == send_bytes(IF asked.target = "missing" THEN "404" ELSE "200", FALSE)
ServeCommits == send_bytes(IF asked.target = "missing" THEN "404" ELSE "200", FALSE)

(* do_GET: nothing is read, whatever comes with the GET. *)
GitHub ==
  \/ asked.method # "GET" /\ SendError("501")
  \/ asked.method = "GET" /\ asked.target = "unknown" /\ send_bytes("404", FALSE)
  \/ asked.method = "GET" /\ asked.target # "unknown" /\ (ServeTarball \/ ServeCommits)

SendConfigJs == Done("200", FALSE, FALSE)

(* do_GET: config.js, or a file by the standard library's handler. *)
Frontend ==
  \/ asked.method # "GET" /\ SendError("501")
  \/ asked.method = "GET" /\ asked.target = "served" /\ SendConfigJs
  \/ asked.method = "GET" /\ asked.target # "served" /\ (Done("200", FALSE, FALSE) \/ SendError("404"))

HandleRequest ==
  /\ open /\ asked # Nothing /\ left = Nothing
  /\ \/ server = "apigw"    /\ Apigw
     \/ server = "bedrock"  /\ Bedrock
     \/ server = "github"   /\ GitHub
     \/ server = "frontend" /\ Frontend

(* What is left of the old body, alone or with the new request behind it,  *)
(* makes a request line, which the standard library refuses.               *)
Misread ==
  /\ open /\ asked # Nothing /\ left # Nothing
  /\ answer' = "garbled" /\ open' = FALSE /\ asked' = Nothing
  /\ UNCHANGED <<server, left>>

(* The client opens a new connection after a closed one. *)
Reconnect ==
  /\ ~open
  /\ open' = TRUE /\ left' = Nothing /\ answer' = "none"
  /\ UNCHANGED <<server, asked>>

Next == Send \/ HandleRequest \/ Misread \/ Reconnect

Spec == Init /\ [][Next]_vars

-----------------------------------------------------------------------------
(* Properties. *)

(* Requests of the forms the page, the worker and the tests send: a body   *)
(* comes with a POST, and with a Content-Length.                           *)
Usual(request) == request.body = "none" \/ (request.method = "POST" /\ request.body # "chunked")

(* A connection is established that can be kept (http_service.py on        *)
(* protocol_version): on it a request is never read together with the      *)
(* body of an earlier one, refused or not, unless the Bedrock stub has     *)
(* refused that one unread or it was not of the usual form; and after a    *)
(* refusal by the gateway or the GitHub stub it is open and clean (the     *)
(* integration test on rejected requests; apigw.py, _handle).              *)
ConnectionStaysUsable ==
  /\ answer = "garbled" => server = "bedrock" \/ ~Usual(left)
  /\ server \in {"apigw", "github"} /\ answer \in {"401", "404"} =>
       open /\ (left = Nothing \/ ~Usual(left))
=============================================================================
