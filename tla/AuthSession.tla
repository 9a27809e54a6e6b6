---------------------------- MODULE AuthSession ----------------------------
(***************************************************************************)
(* The frontend's session in one tab: the PKCE login by way of the Hosted  *)
(* UI, the callback, the refresh that API requests trigger, and the        *)
(* logout, cut at their awaits.  A redirect takes effect some time after   *)
(* location.assign; until then what is in flight goes on.                  *)
(***************************************************************************)

CONSTANTS
  Logins,    \* BOUND: calls of login(), each with its verifier and state
  Requests,  \* API requests
  None       \* nothing stored, no destination

ASSUME LoginsAssumption == None \notin Logins /\ Logins \cap {"idle", "token", "null"} = {}

VARIABLES
  page,       \* what the tab shows
  dest,       \* where it is going: a login's authorize page, or the logout
  code,       \* the code in the URL, issued for a login's challenge
  hashing,    \* logins waiting for their challenge
  unused,     \* logins not begun
  verifier, state,  \* sessionStorage, each by the login it was made for
  tokens,     \* sessionStorage: the tokens; a refresh token by its login
  sent,       \* the codes sent to the token endpoint
  exchange,   \* the code and verifier of the exchange in flight
  request,    \* [Requests -> RequestState]
  issued,     \* the refresh token that came with the last login
  loggedOut   \* no login since the last logout

stored == <<verifier, state>>
vars == <<page, dest, code, hashing, unused, stored, tokens, sent, exchange, request,
          issued, loggedOut>>

Tokens   == [fresh : BOOLEAN, refresh : Logins \cup {None}]
Exchange == [code : Logins, verifier : Logins]
(* A request that refreshes has the refresh token it sent; another one has *)
(* been answered the access token or null.                                 *)
RequestState == {"idle", "token", "null"} \cup Logins

ASSUME TokensAssumption == None \notin Tokens

TypeOK ==
  /\ page \in {"login", "app", "leaving", "hosted", "callback", "exchanging"}
  /\ {dest, code, verifier, state} \subseteq Logins \cup {None}
  /\ hashing \subseteq Logins /\ unused \subseteq Logins /\ sent \subseteq Logins
  /\ tokens \in Tokens \cup {None}
  /\ exchange \in Exchange \cup {None}
  /\ request \in [Requests -> RequestState] /\ issued \in Logins \cup {None}
  /\ loggedOut \in BOOLEAN
  /\ (verifier = None) = (state = None)

Init ==
  /\ page = "login" /\ dest = None /\ code = None
  /\ hashing = {} /\ unused = Logins
  /\ verifier = None /\ state = None /\ tokens = None
  /\ sent = {} /\ exchange = None
  /\ request = [r \in Requests |-> "idle"] /\ issued = None /\ loggedOut = FALSE

-----------------------------------------------------------------------------
(* Pages. *)

(* init shows the view the tokens call for; nothing runs on from before. *)
Load(held) ==
  /\ page' = IF held = None THEN "login" ELSE "app"
  /\ dest' = None /\ code' = None /\ exchange' = None /\ hashing' = {}
  /\ request' = [r \in Requests |-> "idle"]

Running == page \in {"login", "app", "leaving"}

(* The redirect takes effect. *)
Unload ==
  /\ page = "leaving"
  /\ IF dest = None
       THEN Load(tokens)
       ELSE /\ page' = "hosted" /\ hashing' = {}
            /\ request' = [r \in Requests |-> "idle"]
            /\ UNCHANGED <<dest, code, exchange>>
  /\ UNCHANGED <<unused, stored, tokens, sent, issued, loggedOut>>

(* The Hosted UI sends the user back with a code, on the authorize page of *)
(* this login or, through the history, of an earlier one, or with an error *)
(* and no code; or the user just returns to the page.                      *)
Return ==
  /\ page = "hosted"
  /\ \/ /\ code' \in (Logins \ (unused \cup sent)) \cup {None}
        /\ page' = "callback" /\ dest' = None
        /\ UNCHANGED <<hashing, exchange, request>>
     \/ Load(tokens)
  /\ UNCHANGED <<unused, stored, tokens, sent, issued, loggedOut>>

(* The page is reloaded, with the URL as it is. *)
Reload ==
  /\ page \in {"login", "app", "exchanging"}
  /\ IF page = "exchanging"
       THEN page' = "callback" /\ exchange' = None /\ UNCHANGED <<dest, code, hashing, request>>
       ELSE Load(tokens)
  /\ UNCHANGED <<unused, stored, tokens, sent, issued, loggedOut>>

-----------------------------------------------------------------------------
(* login and handleRedirectCallback. *)

(* Up to the await on the challenge; the button can be pressed again. *)
Login(l) ==
  /\ page = "login" /\ l \in unused
  /\ unused' = unused \ {l} /\ hashing' = hashing \cup {l}
  /\ UNCHANGED <<page, dest, code, stored, tokens, sent, exchange, request, issued, loggedOut>>

(* Defect: a verifier still stored is used again. *)
KeepVerifier(l) == verifier' = (IF verifier = None THEN l ELSE verifier) /\ state' = l

StorePkce(l) == verifier' = l /\ state' = l

Redirect(l) ==
  /\ page \in {"login", "leaving"} /\ l \in hashing
  /\ hashing' = hashing \ {l}
  /\ StorePkce(l)
  /\ page' = "leaving" /\ dest' = l
  /\ UNCHANGED <<code, unused, tokens, sent, exchange, request, issued, loggedOut>>

ClearPkce == verifier' = None /\ state' = None

(* An error, or another state than the stored one: the finally block, and  *)
(* the page.                                                               *)
RefuseCallback ==
  /\ page = "callback" /\ (code = None \/ state # code)
  /\ ClearPkce /\ Load(tokens)
  /\ UNCHANGED <<unused, tokens, sent, issued, loggedOut>>

StartExchange ==
  /\ page = "callback" /\ code # None /\ state = code
  /\ page' = "exchanging"
  /\ exchange' = [code |-> code, verifier |-> verifier]
  /\ sent' = sent \cup {code}
  /\ UNCHANGED <<dest, code, hashing, unused, stored, tokens, request, issued, loggedOut>>

(* The tokens are stored, with a refresh token or without, or the exchange *)
(* failed; either way the finally block clears what was stored and the URL. *)
EndExchange ==
  /\ page = "exchanging"
  /\ \/ /\ \E refresh \in {exchange.code, None} :
             tokens' = [fresh |-> TRUE, refresh |-> refresh] /\ issued' = refresh
        /\ loggedOut' = FALSE
     \/ UNCHANGED <<tokens, issued, loggedOut>>
  /\ ClearPkce /\ Load(tokens')
  /\ UNCHANGED <<unused, sent>>

-----------------------------------------------------------------------------
(* getValidAccessToken and logout. *)

Expire ==
  /\ tokens # None /\ tokens.fresh
  /\ tokens' = [tokens EXCEPT !.fresh = FALSE]
  /\ UNCHANGED <<page, dest, code, hashing, unused, stored, sent, exchange, request, issued, loggedOut>>

Refreshing(r) == request[r] \in Logins

(* Defect: what has not expired yet is refreshed as well. *)
AskAhead(r) ==
  /\ page = "app" /\ ~Refreshing(r)
  /\ \/ /\ tokens # None /\ tokens.fresh
        /\ request' = [request EXCEPT ![r] = "token"] /\ UNCHANGED tokens
     \/ /\ tokens # None /\ tokens.refresh # None
        /\ request' = [request EXCEPT ![r] = tokens.refresh] /\ UNCHANGED tokens
     \/ /\ tokens # None => ~tokens.fresh /\ tokens.refresh = None
        /\ request' = [request EXCEPT ![r] = "null"] /\ tokens' = None
  /\ UNCHANGED <<page, dest, code, hashing, unused, stored, sent, exchange, issued, loggedOut>>

(* Up to the await on the token endpoint, if that is needed. *)
Ask(r) ==
  /\ page = "app" /\ ~Refreshing(r)
  /\ \/ /\ tokens # None /\ tokens.fresh
        /\ request' = [request EXCEPT ![r] = "token"] /\ UNCHANGED tokens
     \/ /\ tokens # None /\ ~tokens.fresh /\ tokens.refresh # None
        /\ request' = [request EXCEPT ![r] = tokens.refresh] /\ UNCHANGED tokens
     \/ /\ tokens # None => ~tokens.fresh /\ tokens.refresh = None
        /\ request' = [request EXCEPT ![r] = "null"] /\ tokens' = None
  /\ UNCHANGED <<page, dest, code, hashing, unused, stored, sent, exchange, issued, loggedOut>>

(* Defect: the response is stored as it came, without a refresh token. *)
StoreResponse(refreshToken) == tokens' = [fresh |-> TRUE, refresh |-> None]

(* The refresh token that was sent, or the one of that login that the      *)
(* response brings, whatever the storage has by now.                       *)
StoreRefreshed(refreshToken) == tokens' = [fresh |-> TRUE, refresh |-> refreshToken]

RefreshSucceeds(r) ==
  /\ Running /\ Refreshing(r)
  /\ StoreRefreshed(request[r])
  /\ request' = [request EXCEPT ![r] = "token"]
  /\ UNCHANGED <<page, dest, code, hashing, unused, stored, sent, exchange, issued, loggedOut>>

(* The tokens are removed, whatever they are by now. *)
RefreshFails(r) ==
  /\ Running /\ Refreshing(r)
  /\ tokens' = None
  /\ request' = [request EXCEPT ![r] = "null"]
  /\ UNCHANGED <<page, dest, code, hashing, unused, stored, sent, exchange, issued, loggedOut>>

Logout ==
  /\ page = "app"
  /\ tokens' = None /\ ClearPkce
  /\ page' = "leaving" /\ dest' = None /\ loggedOut' = TRUE
  /\ UNCHANGED <<code, hashing, unused, sent, exchange, request, issued>>

Next ==
  \/ Unload \/ Return \/ Reload \/ RefuseCallback \/ StartExchange \/ EndExchange
  \/ Expire \/ Logout
  \/ \E l \in Logins : Login(l) \/ Redirect(l)
  \/ \E r \in Requests : Ask(r) \/ RefreshSucceeds(r) \/ RefreshFails(r)

Spec == Init /\ [][Next]_vars

-----------------------------------------------------------------------------
(* Properties. *)

(* A code is exchanged with the verifier of the login it was issued for,   *)
(* although logins overlap, are abandoned, or come back out of order.      *)
VerifierFitsCode == exchange # None => exchange.verifier = exchange.code

(* What a refresh stores belongs to the login that the tab is in: however  *)
(* requests refresh side by side, and logins, logouts and reloads come     *)
(* between a request and its answer, the session has the refresh token     *)
(* that login brought (#refreshTokens), and never an earlier login's.      *)
RefreshTokenIsTheLogins == tokens # None => tokens.refresh = issued

(* Tokens that are still fresh are discarded by the logout, or where two   *)
(* requests have refreshed side by side, by the one that fails after the   *)
(* other has been answered; never by a request that refreshes alone,       *)
(* however it, expiry and logins interleave (getValidAccessToken, which    *)
(* removes the tokens without looking at them again).                      *)
FreshTokensAreKept ==
  [][tokens # None /\ tokens.fresh /\ tokens' = None =>
       \/ Logout
       \/ \E r, q \in Requests : r # q /\ RefreshFails(r) /\ request[q] = "token"]_vars

(* The tokens are discarded by the logout (logout; README, step 4), and a  *)
(* page loaded after it shows the login.                                   *)
LogoutDiscards == loggedOut => tokens = None
=============================================================================
