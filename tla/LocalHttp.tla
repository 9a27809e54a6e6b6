----------------------------- MODULE LocalHttp -----------------------------
(***************************************************************************)
(* The local emulator's HTTP side: a behaviour is about a request on its   *)
(* way through the gateway, or about a connection to one of the servers    *)
(* and the requests that come on it one after the other.                   *)
(***************************************************************************)
EXTENDS LocalGateway

VARIABLES part, server, asked, left, open, status

K == INSTANCE KeepAlive WITH answer <- status

connection == <<server, asked, left, open, status>>
allVars    == <<part, vars, connection>>

(* The server is of no account to a request, nor the request to a server. *)
HttpInit ==
  /\ part \in {"request", "connection"} /\ Init /\ K!Init
  /\ part = "request" => server = "apigw"
  /\ part = "connection" =>
       req = [via |-> "direct", origin |-> "other", route |-> "unknown", token |-> "none",
              body |-> "valid"]

RequestNext    == part = "request" /\ Next /\ UNCHANGED <<part, connection>>
ConnectionNext == part = "connection" /\ K!Next /\ UNCHANGED <<part, vars>>

HttpNext == RequestNext \/ ConnectionNext

HttpSpec == HttpInit /\ [][HttpNext]_allVars

-----------------------------------------------------------------------------
(* KeepAlive's property. *)

(* On a kept connection a request is never read together with the body of  *)
(* an earlier one, unless the Bedrock stub has refused that one unread or  *)
(* it was not of the form clients send; after a refusal by the gateway or  *)
(* the GitHub stub the connection is open and clean (http_service.py on    *)
(* protocol_version, and the integration test on rejected requests).       *)
ConnectionStaysUsable == K!ConnectionStaysUsable
=============================================================================
