--------------------------- MODULE MCLocalGateway ---------------------------
(* LocalHttp with one allowed origin, for TLC. *)
EXTENDS LocalHttp

ListedOnly == {"listed"}
=============================================================================
