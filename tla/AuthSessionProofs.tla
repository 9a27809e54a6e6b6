-------------------------- MODULE AuthSessionProofs --------------------------
(* What holds of AuthSession for any number of logins and requests, of      *)
(* FormDraft for any number of tabs, people and versions of the page, and   *)
(* of BrowserStorage, which is one or the other.                            *)
EXTENDS BrowserStorage, TLAPS

(* The verifier and the state in the storage are always of one login, and  *)
(* what was made of them fits.                                             *)
PkceInv ==
  /\ verifier = state
  /\ exchange # None => exchange.verifier = exchange.code
  /\ page = "exchanging" => exchange \in Exchange

(* The refresh token in the storage, and the one of every refresh that is  *)
(* under way, is the one that came with the last login: a request does not *)
(* outlive the page on which another login could be made.                  *)
RefreshInv ==
  /\ tokens # None => tokens.refresh = issued
  /\ \A r \in Requests : request[r] \in Logins => request[r] = issued

SessionInv == PkceInv /\ RefreshInv

IInv == TypeOK /\ SessionInv

LEMMA NoRequests ==
  /\ [r \in Requests |-> "idle"] \in [Requests -> RequestState]
  /\ \A r \in Requests : [q \in Requests |-> "idle"][r] \notin Logins
BY LoginsAssumption DEF RequestState

(* A request that is answered, or sends the refresh token there is. *)
LEMMA RequestMoves ==
  ASSUME IInv, NEW r \in Requests, NEW x, x \in {"token", "null"} \/ (x \in Logins /\ x = issued),
         request' = [request EXCEPT ![r] = x], issued' = issued
  PROVE  /\ request' \in [Requests -> RequestState]
         /\ \A q \in Requests : request'[q] \in Logins => request'[q] = issued'
<1>1. request \in [Requests -> RequestState] /\ x \in RequestState
  BY DEF IInv, TypeOK, RequestState
<1>2. \A q \in Requests : request[q] \in Logins => request[q] = issued
  BY DEF IInv, SessionInv, RefreshInv
<1>3. x \in Logins => x = issued
  BY LoginsAssumption
<1> QED
  BY <1>1, <1>2, <1>3

(* Loading the page keeps everything in its place. *)
LEMMA LoadKinds ==
  ASSUME NEW held, Load(held)
  PROVE  /\ page' \in {"login", "app"} /\ dest' = None /\ code' = None /\ exchange' = None
         /\ hashing' = {} /\ request' = [r \in Requests |-> "idle"]
         /\ request' \in [Requests -> RequestState]
         /\ \A r \in Requests : request'[r] \notin Logins
BY NoRequests DEF Load

LEMMA NewTokens ==
  ASSUME NEW l \in Logins \cup {None}
  PROVE  /\ [fresh |-> TRUE, refresh |-> l] \in Tokens
         /\ [fresh |-> TRUE, refresh |-> l].refresh = l
BY DEF Tokens

(* The steps after which the page is loaded, or shows its callback. *)
LEMMA PageSteps ==
  ASSUME IInv, Unload \/ Return \/ Reload \/ RefuseCallback \/ EndExchange
  PROVE  IInv'
<1>1. CASE Unload
  <2>1. CASE Load(tokens)
    BY <1>1, <2>1, LoadKinds DEF Unload, stored, IInv, TypeOK, SessionInv, PkceInv, RefreshInv
  <2>2. CASE ~Load(tokens)
    BY <1>1, <2>2, NoRequests DEF Unload, stored, IInv, TypeOK, SessionInv, PkceInv, RefreshInv
  <2> QED
    BY <2>1, <2>2
<1>2. CASE Return
  <2>1. CASE Load(tokens)
    BY <1>2, <2>1, LoadKinds DEF Return, stored, IInv, TypeOK, SessionInv, PkceInv, RefreshInv
  <2>2. CASE ~Load(tokens)
    BY <1>2, <2>2 DEF Return, stored, IInv, TypeOK, SessionInv, PkceInv, RefreshInv
  <2> QED
    BY <2>1, <2>2
<1>3. CASE Reload
  <2>1. CASE Load(tokens)
    BY <1>3, <2>1, LoadKinds DEF Reload, stored, IInv, TypeOK, SessionInv, PkceInv, RefreshInv
  <2>2. CASE ~Load(tokens)
    BY <1>3, <2>2 DEF Reload, stored, IInv, TypeOK, SessionInv, PkceInv, RefreshInv
  <2> QED
    BY <2>1, <2>2
<1>4. CASE RefuseCallback
  BY <1>4, LoadKinds DEF RefuseCallback, ClearPkce, IInv, TypeOK, SessionInv, PkceInv, RefreshInv
<1>5. CASE EndExchange
  <2>1. Load(tokens') /\ ClearPkce /\ UNCHANGED <<unused, sent>>
    BY <1>5 DEF EndExchange
  <2>2. exchange.code \in Logins
    BY <1>5 DEF EndExchange, IInv, TypeOK, SessionInv, PkceInv, Exchange
  <2>3. /\ tokens' \in Tokens \cup {None} /\ loggedOut' \in BOOLEAN
        /\ issued' \in Logins \cup {None}
        /\ tokens' # None => tokens'.refresh = issued'
    <3>1. ASSUME NEW l \in {exchange.code, None},
                 tokens' = [fresh |-> TRUE, refresh |-> l], issued' = l, loggedOut' = FALSE
          PROVE  /\ tokens' \in Tokens \cup {None} /\ loggedOut' \in BOOLEAN
                 /\ issued' \in Logins \cup {None}
                 /\ tokens' # None => tokens'.refresh = issued'
      BY <2>2, <3>1, NewTokens
    <3>2. CASE UNCHANGED <<tokens, issued, loggedOut>>
      BY <3>2 DEF IInv, TypeOK, SessionInv, RefreshInv
    <3> QED
      BY <1>5, <3>1, <3>2 DEF EndExchange
  <2> QED
    BY <2>1, <2>3, LoadKinds DEF ClearPkce, IInv, TypeOK, SessionInv, PkceInv, RefreshInv
<1> QED
  BY <1>1, <1>2, <1>3, <1>4, <1>5

(* The steps of a login. *)
LEMMA LoginSteps ==
  ASSUME IInv, StartExchange \/ \E l \in Logins : Login(l) \/ Redirect(l)
  PROVE  IInv'
<1>1. CASE StartExchange
  <2>1. code \in Logins /\ verifier = code
    BY <1>1 DEF StartExchange, IInv, TypeOK, SessionInv, PkceInv, RefreshInv
  <2>2. /\ exchange' = [code |-> code, verifier |-> verifier] /\ sent' = sent \cup {code}
        /\ page' = "exchanging"
        /\ UNCHANGED <<dest, code, hashing, unused, verifier, state, tokens, request, issued, loggedOut>>
    BY <1>1 DEF StartExchange, stored
  <2>3. exchange' \in Exchange /\ exchange'.verifier = exchange'.code
    BY <2>1, <2>2 DEF Exchange
  <2> QED
    BY <2>1, <2>2, <2>3 DEF IInv, TypeOK, SessionInv, PkceInv, RefreshInv
<1>2. ASSUME NEW l \in Logins, Login(l)
      PROVE  IInv'
  BY <1>2 DEF Login, stored, IInv, TypeOK, SessionInv, PkceInv, RefreshInv
<1>3. ASSUME NEW l \in Logins, Redirect(l)
      PROVE  IInv'
  BY <1>3, LoginsAssumption DEF Redirect, StorePkce, IInv, TypeOK, SessionInv, PkceInv, RefreshInv
<1> QED
  BY <1>1, <1>2, <1>3

(* The steps of the tokens' life. *)
LEMMA TokenSteps ==
  ASSUME IInv,
         Expire \/ Logout \/ \E r \in Requests : Ask(r) \/ RefreshSucceeds(r) \/ RefreshFails(r)
  PROVE  IInv'
<1>1. CASE Expire
  <2>1. tokens \in Tokens /\ tokens.refresh = issued
    BY <1>1 DEF Expire, IInv, TypeOK, SessionInv, PkceInv, RefreshInv
  <2>2. tokens' = [tokens EXCEPT !.fresh = FALSE]
    BY <1>1 DEF Expire
  <2>3. tokens' \in Tokens /\ tokens'.refresh = issued
    BY <2>1, <2>2 DEF Tokens
  <2> QED
    BY <1>1, <2>3 DEF Expire, stored, IInv, TypeOK, SessionInv, PkceInv, RefreshInv
<1>2. CASE Logout
  BY <1>2 DEF Logout, ClearPkce, IInv, TypeOK, SessionInv, PkceInv, RefreshInv
<1>3. ASSUME NEW r \in Requests, Ask(r)
      PROVE  IInv'
  <2>1. PICK x \in {"token", "null"} \cup Logins :
          /\ x \in Logins => x = issued
          /\ request' = [request EXCEPT ![r] = x] /\ tokens' \in {tokens, None}
    <3>1. tokens # None => tokens.refresh = issued /\ tokens.refresh \in Logins \cup {None}
      BY DEF IInv, TypeOK, SessionInv, RefreshInv, Tokens
    <3> QED
      BY <1>3, <3>1, LoginsAssumption DEF Ask
  <2>2. /\ UNCHANGED <<page, dest, code, hashing, unused, verifier, state, sent, exchange>>
        /\ UNCHANGED <<issued, loggedOut>>
    BY <1>3 DEF Ask, stored
  <2>3. /\ request' \in [Requests -> RequestState]
        /\ \A q \in Requests : request'[q] \in Logins => request'[q] = issued'
    BY <2>1, <2>2, RequestMoves
  <2>4. TypeOK'
    BY <2>1, <2>2, <2>3 DEF IInv, TypeOK
  <2>5. SessionInv'
    BY <2>1, <2>2, <2>3 DEF IInv, SessionInv, PkceInv, RefreshInv
  <2> QED
    BY <2>4, <2>5 DEF IInv
<1>4. ASSUME NEW r \in Requests, RefreshSucceeds(r)
      PROVE  IInv'
  <2>1. request[r] \in Logins /\ request[r] = issued
    BY <1>4 DEF RefreshSucceeds, Refreshing, IInv, SessionInv, RefreshInv
  <2>2. tokens' \in Tokens /\ tokens'.refresh = issued
    BY <1>4, <2>1, NewTokens DEF RefreshSucceeds, StoreRefreshed
  <2>3. /\ request' \in [Requests -> RequestState]
        /\ \A q \in Requests : request'[q] \in Logins => request'[q] = issued'
    BY <1>4, RequestMoves DEF RefreshSucceeds
  <2>4. /\ UNCHANGED <<page, dest, code, hashing, unused, verifier, state, sent, exchange>>
        /\ UNCHANGED <<issued, loggedOut>>
    BY <1>4 DEF RefreshSucceeds, stored
  <2>5. TypeOK'
    BY <2>2, <2>3, <2>4 DEF IInv, TypeOK
  <2>6. SessionInv'
    BY <2>2, <2>3, <2>4 DEF IInv, SessionInv, PkceInv, RefreshInv
  <2> QED
    BY <2>5, <2>6 DEF IInv
<1>5. ASSUME NEW r \in Requests, RefreshFails(r)
      PROVE  IInv'
  <2>1. /\ request' \in [Requests -> RequestState]
        /\ \A q \in Requests : request'[q] \in Logins => request'[q] = issued'
    BY <1>5, RequestMoves DEF RefreshFails
  <2>2. /\ UNCHANGED <<page, dest, code, hashing, unused, verifier, state, sent, exchange>>
        /\ UNCHANGED <<issued, loggedOut>> /\ tokens' = None
    BY <1>5 DEF RefreshFails, stored
  <2>3. TypeOK'
    BY <2>1, <2>2 DEF IInv, TypeOK
  <2>4. SessionInv'
    BY <2>1, <2>2 DEF IInv, SessionInv, PkceInv, RefreshInv
  <2> QED
    BY <2>3, <2>4 DEF IInv
<1> QED
  BY <1>1, <1>2, <1>3, <1>4, <1>5

LEMMA Invariance == Spec => []IInv
<1>1. Init => IInv
  BY NoRequests DEF Init, IInv, TypeOK, SessionInv, PkceInv, RefreshInv
<1>2. IInv /\ [Next]_vars => IInv'
  <2> SUFFICES ASSUME IInv, [Next]_vars PROVE IInv'
    OBVIOUS
  <2>1. CASE UNCHANGED vars
    BY <2>1 DEF vars, stored, IInv, TypeOK, SessionInv, PkceInv, RefreshInv
  <2> QED
    BY <2>1, PageSteps, LoginSteps, TokenSteps DEF Next
<1> QED
  BY <1>1, <1>2, PTL DEF Spec

-----------------------------------------------------------------------------

(* Every variable keeps its type, and the storage never holds a verifier   *)
(* without a state.                                                        *)
THEOREM TypeCorrect == Spec => []TypeOK
<1>1. IInv => TypeOK
  BY DEF IInv
<1> QED
  BY <1>1, Invariance, PTL

(* Overlapping, abandoned and reordered logins never mix a code with the   *)
(* verifier of another.                                                    *)
THEOREM CodesMeetTheirVerifier == Spec => []VerifierFitsCode
<1>1. IInv => VerifierFitsCode
  BY DEF IInv, SessionInv, PkceInv, VerifierFitsCode
<1> QED
  BY <1>1, Invariance, PTL

(* Whatever is refreshed side by side, reloaded, logged out and logged in  *)
(* again, the session has the refresh token of the login it is of: each    *)
(* refresh carries its token over, and none outlives its login's pages.    *)
THEOREM RefreshesStayWithTheirLogin == Spec => []RefreshTokenIsTheLogins
<1>1. IInv => RefreshTokenIsTheLogins
  BY DEF IInv, SessionInv, RefreshInv, RefreshTokenIsTheLogins
<1> QED
  BY <1>1, Invariance, PTL

(* While tokens are fresh and a refresh is under way, some other request   *)
(* has made them so.                                                       *)
RaceInv ==
  \A r \in Requests : Refreshing(r) /\ tokens # None /\ tokens.fresh =>
    \E q \in Requests : r # q /\ request[q] = "token"

LEMMA RaceStep ==
  ASSUME IInv, RaceInv, [Next]_vars
  PROVE  RaceInv'
<1>1. request \in [Requests -> RequestState] /\ "token" \notin Logins
  BY LoginsAssumption DEF IInv, TypeOK
<1>2. CASE UNCHANGED <<request, tokens>>
  BY <1>2 DEF RaceInv, Refreshing
<1>3. CASE tokens' = None
  BY <1>3 DEF RaceInv
<1>4. ASSUME NEW held, Load(held)
      PROVE  RaceInv'
  BY <1>4, LoadKinds DEF RaceInv, Refreshing
<1>5. CASE Expire
  <2>1. tokens \in Tokens /\ tokens' = [tokens EXCEPT !.fresh = FALSE]
    BY <1>5 DEF Expire, IInv, TypeOK
  <2>2. tokens'.fresh = FALSE
    BY <2>1 DEF Tokens
  <2> QED
    BY <2>2 DEF RaceInv
<1>6. ASSUME NEW r \in Requests, Ask(r)
      PROVE  RaceInv'
  <2>1. CASE tokens # None /\ tokens.fresh /\ request' = [request EXCEPT ![r] = "token"]
             /\ UNCHANGED tokens
    <3> SUFFICES ASSUME NEW s \in Requests, request'[s] \in Logins
                 PROVE  \E q \in Requests : s # q /\ request'[q] = "token"
      BY DEF RaceInv, Refreshing
    <3>1. s # r /\ request'[r] = "token"
      BY <1>1, <2>1
    <3> QED
      BY <3>1
  <2>2. CASE tokens # None /\ ~tokens.fresh /\ UNCHANGED tokens
    BY <2>2 DEF RaceInv
  <2> QED
    BY <1>3, <1>6, <2>1, <2>2 DEF Ask
<1>7. ASSUME NEW r \in Requests, RefreshSucceeds(r)
      PROVE  RaceInv'
  <2> SUFFICES ASSUME NEW s \in Requests, request'[s] \in Logins
               PROVE  \E q \in Requests : s # q /\ request'[q] = "token"
    BY DEF RaceInv, Refreshing
  <2>1. s # r /\ request'[r] = "token"
    BY <1>1, <1>7 DEF RefreshSucceeds
  <2> QED
    BY <2>1
<1>8. CASE Unload
  BY <1>4, <1>8, NoRequests DEF Unload, RaceInv, Refreshing
<1>9. CASE Return \/ Reload \/ RefuseCallback \/ EndExchange
  BY <1>2, <1>4, <1>9 DEF Return, Reload, RefuseCallback, EndExchange
<1>10. CASE StartExchange \/ \E l \in Logins : Login(l) \/ Redirect(l)
  BY <1>2, <1>10 DEF StartExchange, Login, Redirect
<1> QED
  BY <1>2, <1>3, <1>5, <1>6, <1>7, <1>8, <1>9, <1>10 DEF Next, vars, Logout, RefreshFails

(* For any number of requests and logins: fresh tokens are discarded by    *)
(* the logout, or by a refresh that fails next to one that succeeded.      *)
THEOREM LoneRefreshesKeepTokens == Spec => FreshTokensAreKept
<1> DEFINE Lost == tokens # None /\ tokens.fresh /\ tokens' = None
           Raced == \E r, q \in Requests : r # q /\ RefreshFails(r) /\ request[q] = "token"
<1>1. Init => RaceInv
  BY DEF Init, RaceInv
<1>2. IInv /\ RaceInv /\ [Next]_vars => RaceInv'
  BY RaceStep
<1>3. IInv /\ RaceInv /\ [Next]_vars => [Lost => Logout \/ Raced]_vars
  <2> SUFFICES ASSUME IInv, RaceInv, Next, Lost, ~Logout
               PROVE  Raced
    BY DEF vars
  <2>1. tokens \in Tokens /\ ~UNCHANGED tokens
    BY DEF IInv, TypeOK
  <2>2. ~Expire
    <3>1. [tokens EXCEPT !.fresh = FALSE] \in Tokens
      BY <2>1 DEF Tokens
    <3> QED
      BY <3>1, TokensAssumption DEF Expire
  <2>3. ~EndExchange
    <3>1. SUFFICES ASSUME EndExchange PROVE FALSE
      OBVIOUS
    <3>2. exchange.code \in Logins
      BY <3>1 DEF EndExchange, IInv, TypeOK, SessionInv, PkceInv, Exchange
    <3>3. PICK l \in {exchange.code, None} : tokens' = [fresh |-> TRUE, refresh |-> l]
      BY <2>1, <3>1 DEF EndExchange
    <3> QED
      BY <3>2, <3>3, NewTokens, TokensAssumption
  <2>4. ASSUME NEW r \in Requests, Ask(r)
        PROVE  FALSE
    BY <2>1, <2>4 DEF Ask
  <2>5. ASSUME NEW r \in Requests, RefreshSucceeds(r)
        PROVE  FALSE
    <3>1. request[r] \in Logins
      BY <2>5 DEF RefreshSucceeds, Refreshing
    <3> QED
      BY <2>5, <3>1, NewTokens, TokensAssumption DEF RefreshSucceeds, StoreRefreshed
  <2>6. PICK r \in Requests : RefreshFails(r)
    BY <2>1, <2>2, <2>3, <2>4, <2>5
       DEF Next, Unload, Return, Reload, RefuseCallback, StartExchange, Login, Redirect
  <2>7. Refreshing(r)
    BY <2>6 DEF RefreshFails
  <2> QED
    BY <2>6, <2>7 DEF RaceInv
<1> QED
  BY <1>1, <1>2, <1>3, Invariance, PTL DEF Spec, FreshTokensAreKept

-----------------------------------------------------------------------------
(* Drafts. *)

LEMMA FirstIsAllowed ==
  ASSUME NEW v \in 1..Len(Versions)
  PROVE  D!isAllowedModel(v, Versions[v][1])
BY DraftAssumption DEF D!isAllowedModel

LEMMA AllowedAreModels ==
  ASSUME NEW v \in 1..Len(Versions), NEW m, D!isAllowedModel(v, m)
  PROVE  m \in D!Models
<1>1. PICK i \in 1..Len(Versions[v]) : Versions[v][i] = m
  BY DEF D!isAllowedModel
<1>2. m \in {Versions[v][k] : k \in 1..Len(Versions[v])}
  BY <1>1
<1> QED
  BY <1>2 DEF D!Models

(* What normalizing leaves of what is stored: whose it is, the prompt up   *)
(* to its limit, a model of the version, and texts only.                   *)
LEMMA NormalizedDraft ==
  ASSUME NEW v \in 1..Len(Versions), NEW d \in D!Stored
  PROVE  /\ D!normalizeDraft(v, d) =
              [repoUrl      |-> IF d.repoUrl = Unusable THEN Empty ELSE d.repoUrl,
               customPrompt |-> IF d.customPrompt = Unusable THEN 0 ELSE D!cut(d.customPrompt),
               modelId      |-> IF D!isAllowedModel(v, d.modelId) THEN d.modelId
                                                                  ELSE Versions[v][1]]
         /\ D!normalizeDraft(v, d) \in D!Draft
         /\ D!normalizeDraft(v, d).repoUrl = IF d.repoUrl = Unusable THEN Empty ELSE d.repoUrl
         /\ D!normalizeDraft(v, d).customPrompt <= PROMPT_MAX_LENGTH
         /\ D!isAllowedModel(v, D!normalizeDraft(v, d).modelId)
<1> DEFINE url    == IF d.repoUrl = Unusable THEN Empty ELSE d.repoUrl
           prompt == IF d.customPrompt = Unusable THEN 0 ELSE D!cut(d.customPrompt)
           model  == IF D!isAllowedModel(v, d.modelId) THEN d.modelId ELSE Versions[v][1]
<1>1. D!normalizeDraft(v, d) = [repoUrl |-> url, customPrompt |-> prompt, modelId |-> model]
  BY DraftAssumption DEF D!NoDraft, D!normalizeDraft
<1>2. /\ d.repoUrl \in People \cup {Empty, Unusable}
      /\ d.customPrompt \in (0..PROMPT_MAX_LENGTH + 1) \cup {Unusable}
  BY DEF D!Stored
<1>3. url \in People \cup {Empty}
  BY <1>2
<1>4. prompt \in 0..PROMPT_MAX_LENGTH
  BY <1>2, DraftAssumption DEF D!cut
<1>5. Versions[v][1] \in D!Models /\ D!isAllowedModel(v, Versions[v][1])
  BY FirstIsAllowed, AllowedAreModels
<1>6. model \in D!Models /\ D!isAllowedModel(v, model)
  BY <1>5, AllowedAreModels
<1> HIDE DEF url, prompt, model
<1>7. D!normalizeDraft(v, d) \in D!Draft
  BY <1>1, <1>3, <1>4, <1>6, DraftAssumption DEF D!Draft
<1>8. /\ D!normalizeDraft(v, d).repoUrl = url /\ D!normalizeDraft(v, d).modelId = model
      /\ D!normalizeDraft(v, d).customPrompt = prompt
  BY <1>1
<1>9. prompt <= PROMPT_MAX_LENGTH
  BY <1>4, DraftAssumption
<1> QED
  BY <1>1, <1>6, <1>7, <1>8, <1>9 DEF url, prompt, model

(* A form holds texts, and can be stored. *)
LEMMA DraftIsStored ==
  ASSUME NEW d \in D!Draft
  PROVE  d \in D!Stored /\ d.repoUrl # Unusable /\ d.customPrompt # Unusable
<1>1. /\ d.repoUrl \in People \cup {Empty} /\ d.customPrompt \in 0..PROMPT_MAX_LENGTH + 1
      /\ d.modelId \in D!Models
  BY DEF D!Draft
<1>2. d \in D!Stored
  BY DEF D!Draft, D!Stored
<1> QED
  BY <1>1, <1>2, DraftAssumption

LEMMA InitialDraft ==
  ASSUME NEW v \in 1..Len(Versions)
  PROVE  /\ D!initialDraft(v) \in D!Draft
         /\ D!initialDraft(v).repoUrl = Empty
         /\ D!initialDraft(v).customPrompt <= PROMPT_MAX_LENGTH
         /\ D!isAllowedModel(v, D!initialDraft(v).modelId)
<1>1. Versions[v][1] \in D!Models /\ D!isAllowedModel(v, Versions[v][1])
  BY FirstIsAllowed, AllowedAreModels
<1> QED
  BY <1>1, DraftAssumption DEF D!initialDraft, D!Draft

(* A draft saved by one version and restored by another is what the other  *)
(* would have made of the input itself, if its model is one that the first *)
(* version offers.                                                         *)
LEMMA NormalizedTwice ==
  ASSUME NEW v \in 1..Len(Versions), NEW w \in 1..Len(Versions), NEW d \in D!Draft,
         D!isAllowedModel(v, d.modelId)
  PROVE  D!normalizeDraft(w, D!normalizeDraft(v, d)) = D!normalizeDraft(w, d)
<1> DEFINE e == D!normalizeDraft(v, d)
<1> DEFINE known(m) == IF D!isAllowedModel(w, m) THEN m ELSE Versions[w][1]
<1>1. \A x \in 1..Len(Versions), y \in D!Draft : D!normalizeDraft(x, y) =
        [repoUrl |-> y.repoUrl, customPrompt |-> D!cut(y.customPrompt),
         modelId |-> IF D!isAllowedModel(x, y.modelId) THEN y.modelId ELSE Versions[x][1]]
  BY NormalizedDraft, DraftIsStored
<1>2. /\ e \in D!Draft /\ e.repoUrl = d.repoUrl /\ e.modelId = d.modelId
      /\ e.customPrompt = D!cut(d.customPrompt)
  <2>1. e = [repoUrl |-> d.repoUrl, customPrompt |-> D!cut(d.customPrompt), modelId |-> d.modelId]
    BY <1>1
  <2>2. e \in D!Draft
    BY NormalizedDraft, DraftIsStored
  <2> HIDE DEF e
  <2> QED
    BY <2>1, <2>2
<1>3. d.customPrompt \in Nat
  BY DraftAssumption DEF D!Draft
<1>4. D!cut(D!cut(d.customPrompt)) = D!cut(d.customPrompt)
  BY <1>3, DraftAssumption DEF D!cut
<1>5. \A x \in D!Draft : D!normalizeDraft(w, x) =
        [repoUrl |-> x.repoUrl, customPrompt |-> D!cut(x.customPrompt), modelId |-> known(x.modelId)]
  BY <1>1
<1> HIDE DEF e, known
<1>6. D!normalizeDraft(w, e) = D!normalizeDraft(w, d)
  BY <1>2, <1>4, <1>5
<1> QED
  BY <1>6 DEF e

-----------------------------------------------------------------------------
(* The form and its item. *)

(* A form never shows a model its version does not offer, and no prompt    *)
(* beyond the limit that nobody in this session typed.                     *)
FieldsInv == D!RestoredIsSubmittable

(* While the last input still stands in a form, the item is what that      *)
(* form's version made of it.                                              *)
ItemInv ==
  edited # Empty => item = D!normalizeDraft(version[edited], fields[edited])

(* Unless a logout failed to remove it, an address that is stored is the   *)
(* present person's, who is logged in.                                     *)
PersonInv ==
  ~kept => /\ D!LogoutLeavesNoInput
           /\ item \notin D!NoDraft /\ item.repoUrl \notin {Empty, Unusable} =>
                item.repoUrl = person /\ \E t \in Tabs : pages[t] = "app"

DraftTypes == D!TypeOK

DraftInv == DraftTypes /\ FieldsInv /\ ItemInv /\ PersonInv

(* What a page load puts into the form. *)
LEMMA LoadedDraft ==
  ASSUME DraftTypes, NEW loaded \in D!Draft, D!load(deployed, loaded)
  PROVE  /\ loaded.customPrompt <= PROMPT_MAX_LENGTH /\ D!isAllowedModel(deployed, loaded.modelId)
         /\ \/ loaded.repoUrl = Empty
            \/ item \notin D!NoDraft /\ loaded.repoUrl = item.repoUrl /\ item.repoUrl # Unusable
         /\ item' = item \/ (item = Broken /\ item' = Absent)
<1>1. deployed \in 1..Len(Versions)
  BY DEF DraftTypes, D!TypeOK
<1>2. item \in D!NoDraft \/ item \in D!Stored
  BY DEF DraftTypes, D!TypeOK
<1>3. item' = item \/ (item = Broken /\ item' = Absent)
  <2>1. CASE item = Broken
    BY <2>1, Zenon DEF D!load, D!clear
  <2>2. CASE item # Broken
    BY <2>2, Zenon DEF D!load, D!clear
  <2> QED
    BY <2>1, <2>2
<1>4. CASE loaded = D!initialDraft(deployed)
  <2>1. /\ loaded.customPrompt <= PROMPT_MAX_LENGTH /\ loaded.repoUrl = Empty
        /\ D!isAllowedModel(deployed, loaded.modelId)
    BY <1>1, <1>4, InitialDraft, Zenon
  <2> QED
    BY <1>3, <2>1, Zenon
<1>5. CASE item \in D!NoDraft /\ loaded = D!normalizeDraft(deployed, item)
  <2>1. loaded = D!initialDraft(deployed)
    BY <1>5 DEF D!normalizeDraft
  <2> QED
    BY <1>4, <2>1
<1>6. CASE item \notin D!NoDraft /\ loaded = D!normalizeDraft(deployed, item)
  BY <1>1, <1>2, <1>3, <1>6, NormalizedDraft
<1> QED
  BY <1>4, <1>5, <1>6 DEF D!load

LEMMA LoadKeepsInv ==
  ASSUME DraftInv, NEW t \in Tabs, NEW view \in {"login", "app"}, D!Load(t, view),
         \/ pages[t] = "login"
         \/ pages[t] = "app" /\ view = "app"
         \/ pages[t] = "leaving" /\ view = "login"
  PROVE  DraftInv'
<1> USE DEF DraftInv
<1>1. PICK loaded \in D!Draft : /\ D!load(deployed, loaded)
                              /\ fields' = [fields EXCEPT ![t] = loaded]
  BY DEF D!Load
<1>2. /\ loaded.customPrompt <= PROMPT_MAX_LENGTH /\ D!isAllowedModel(deployed, loaded.modelId)
      /\ \/ loaded.repoUrl = Empty
         \/ item \notin D!NoDraft /\ loaded.repoUrl = item.repoUrl /\ item.repoUrl # Unusable
      /\ item' = item \/ (item = Broken /\ item' = Absent)
  BY <1>1, LoadedDraft
<1>3. /\ pages' = [pages EXCEPT ![t] = view] /\ version' = [version EXCEPT ![t] = deployed]
      /\ edited' = (IF edited = t THEN Empty ELSE edited)
      /\ UNCHANGED <<deployed, person, kept>>
  BY DEF D!Load
<1>4. /\ pages \in [Tabs -> D!PageState] /\ version \in [Tabs -> 1..deployed]
      /\ fields \in [Tabs -> D!Draft] /\ deployed \in 1..Len(Versions)
      /\ edited \in Tabs \cup {Empty} /\ Len(Versions) \in Nat
  BY DraftAssumption DEF DraftTypes, D!TypeOK
<1>5. /\ pages'[t] = view /\ version'[t] = deployed /\ fields'[t] = loaded
      /\ \A s \in Tabs \ {t} : /\ pages'[s] = pages[s] /\ version'[s] = version[s]
                              /\ fields'[s] = fields[s]
  BY <1>1, <1>3, <1>4
<1>6. DraftTypes'
  <2>1. /\ pages' \in [Tabs -> D!PageState] /\ version' \in [Tabs -> 1..deployed']
        /\ fields' \in [Tabs -> D!Draft] /\ edited' \in Tabs \cup {Empty}
    BY <1>1, <1>3, <1>4 DEF D!PageState
  <2>2. item' \in D!NoDraft \cup D!Stored
    BY <1>2 DEF DraftTypes, D!TypeOK, D!NoDraft
  <2> QED
    BY <1>3, <2>1, <2>2 DEF DraftTypes, D!TypeOK
<1>7. FieldsInv'
  BY <1>2, <1>5 DEF FieldsInv, D!RestoredIsSubmittable
<1>8. ItemInv'
  <2> SUFFICES ASSUME edited' # Empty
               PROVE  item' = D!normalizeDraft(version'[edited'], fields'[edited'])
    BY DEF ItemInv
  <2>1. edited' = edited /\ edited \in Tabs \ {t}
    BY <1>3, <1>4
  <2>2. item = D!normalizeDraft(version[edited], fields[edited])
    BY <2>1 DEF ItemInv
  <2>3. version[edited] \in 1..Len(Versions) /\ fields[edited] \in D!Draft
    BY <1>4, <2>1
  <2>4. item # Broken
    BY <2>2, <2>3, NormalizedDraft, DraftIsStored, DraftAssumption
  <2> QED
    BY <1>2, <1>5, <2>1, <2>2, <2>4
<1>9. PersonInv'
  <2> SUFFICES ASSUME ~kept' PROVE PersonInv'
    BY DEF PersonInv
  <2>1. /\ \A s \in Tabs : pages[s] = "app" => fields[s].repoUrl \in {person, Empty}
        /\ item \notin D!NoDraft /\ item.repoUrl \notin {Empty, Unusable} =>
             item.repoUrl = person /\ \E s \in Tabs : pages[s] = "app"
    BY <1>3 DEF PersonInv, D!LogoutLeavesNoInput
  <2>2. loaded.repoUrl \in {person, Empty}
    BY <1>2, <2>1
  <2>3. \A s \in Tabs : pages'[s] = "app" => fields'[s].repoUrl \in {person, Empty}
    BY <1>5, <2>1, <2>2
  <2>4. \A s \in Tabs : pages[s] = "app" => pages'[s] = "app"
    BY <1>5
  <2>5. item' \notin D!NoDraft => item' = item
    BY <1>2 DEF D!NoDraft
  <2> QED
    BY <1>3, <2>1, <2>3, <2>4, <2>5 DEF PersonInv, D!LogoutLeavesNoInput
<1> QED
  BY <1>6, <1>7, <1>8, <1>9

(* Something is typed, chosen or put in, and saved or not. *)
LEMMA EditKeepsInv ==
  ASSUME DraftInv, NEW t \in Tabs, NEW input \in D!Draft, D!Edit(t, input),
         input.repoUrl \in {fields[t].repoUrl, person, Empty},
         D!isAllowedModel(version[t], input.modelId)
  PROVE  DraftInv'
<1> USE DEF DraftInv
<1>1. /\ pages[t] \in {"app", "leaving"} /\ fields' = [fields EXCEPT ![t] = input]
      /\ \/ item' = D!normalizeDraft(version[t], input) /\ edited' = t
         \/ UNCHANGED item /\ edited' = Empty
      /\ kept' = (kept \/ pages[t] = "leaving")
      /\ UNCHANGED <<deployed, version, pages, person>>
  BY DEF D!Edit, D!save
<1>2. /\ pages \in [Tabs -> D!PageState] /\ version \in [Tabs -> 1..deployed]
      /\ fields \in [Tabs -> D!Draft] /\ deployed \in 1..Len(Versions)
      /\ Len(Versions) \in Nat /\ kept \in BOOLEAN
  BY DraftAssumption DEF DraftTypes, D!TypeOK
<1>3. fields'[t] = input /\ \A s \in Tabs \ {t} : fields'[s] = fields[s]
  BY <1>1, <1>2
<1>4. version[t] \in 1..Len(Versions)
  BY <1>2
<1>5. \/ /\ item' \in D!Draft /\ item'.customPrompt <= PROMPT_MAX_LENGTH
         /\ item'.repoUrl = input.repoUrl
      \/ item' = item
  BY <1>1, <1>4, NormalizedDraft, DraftIsStored
<1>6. DraftTypes'
  <2>1. fields' \in [Tabs -> D!Draft] /\ edited' \in Tabs \cup {Empty} /\ kept' \in BOOLEAN
    BY <1>1, <1>2
  <2>2. item' \in D!NoDraft \cup D!Stored
    BY <1>5, DraftIsStored DEF DraftTypes, D!TypeOK
  <2> QED
    BY <1>1, <2>1, <2>2 DEF DraftTypes, D!TypeOK
<1>7. FieldsInv'
  BY <1>1, <1>3 DEF FieldsInv, D!RestoredIsSubmittable
<1>8. ItemInv'
  BY <1>1, <1>3 DEF ItemInv
<1>9. PersonInv'
  <2> SUFFICES ASSUME ~kept' PROVE PersonInv'
    BY DEF PersonInv
  <2>1. /\ \A s \in Tabs : pages[s] = "app" => fields[s].repoUrl \in {person, Empty}
        /\ item \notin D!NoDraft /\ item.repoUrl \notin {Empty, Unusable} =>
             item.repoUrl = person /\ \E s \in Tabs : pages[s] = "app"
        /\ pages[t] = "app"
    BY <1>1 DEF PersonInv, D!LogoutLeavesNoInput
  <2>2. input.repoUrl \in {person, Empty}
    BY <2>1
  <2>3. \A s \in Tabs : pages'[s] = "app" => fields'[s].repoUrl \in {person', Empty}
    BY <1>1, <1>3, <2>1, <2>2
  <2>4. item' \notin D!NoDraft /\ item'.repoUrl \notin {Empty, Unusable} => item'.repoUrl = person'
    BY <1>1, <1>5, <2>1, <2>2
  <2> QED
    BY <1>1, <2>1, <2>3, <2>4 DEF PersonInv, D!LogoutLeavesNoInput
<1> QED
  BY <1>6, <1>7, <1>8, <1>9

LEMMA InputKeepsInv ==
  ASSUME DraftInv, NEW t \in Tabs, D!Input(t) \/ D!Preset(t)
  PROVE  DraftInv'
<1>1. /\ fields[t] \in D!Draft /\ version[t] \in 1..Len(Versions) /\ person \in People
      /\ PROMPT_MAX_LENGTH \in Nat
  BY DraftAssumption DEF DraftInv, DraftTypes, D!TypeOK
<1>2. D!isAllowedModel(version[t], fields[t].modelId)
  BY DEF DraftInv, FieldsInv, D!RestoredIsSubmittable
<1>3. ASSUME NEW text \in {person, Empty}, D!Edit(t, [fields[t] EXCEPT !.repoUrl = text])
      PROVE  DraftInv'
  <2> DEFINE input == [fields[t] EXCEPT !.repoUrl = text]
  <2>1. input \in D!Draft /\ input.repoUrl = text /\ input.modelId = fields[t].modelId
    BY <1>1 DEF D!Draft
  <2> HIDE DEF input
  <2> QED
    BY <1>2, <1>3, <2>1, EditKeepsInv DEF input
<1>4. ASSUME NEW length \in 0..PROMPT_MAX_LENGTH + 1,
             D!Edit(t, [fields[t] EXCEPT !.customPrompt = length])
      PROVE  DraftInv'
  <2> DEFINE input == [fields[t] EXCEPT !.customPrompt = length]
  <2>1. /\ input \in D!Draft /\ input.repoUrl = fields[t].repoUrl
        /\ input.modelId = fields[t].modelId
    BY <1>1 DEF D!Draft
  <2> HIDE DEF input
  <2> QED
    BY <1>2, <1>4, <2>1, EditKeepsInv DEF input
<1>5. ASSUME NEW m \in D!Models, D!isAllowedModel(version[t], m),
             D!Edit(t, [fields[t] EXCEPT !.modelId = m])
      PROVE  DraftInv'
  <2> DEFINE input == [fields[t] EXCEPT !.modelId = m]
  <2>1. input \in D!Draft /\ input.repoUrl = fields[t].repoUrl /\ input.modelId = m
    BY <1>1 DEF D!Draft
  <2> HIDE DEF input
  <2> QED
    BY <1>5, <2>1, EditKeepsInv DEF input
<1>6. CASE D!Preset(t)
  <2>1. 1 \in 0..PROMPT_MAX_LENGTH + 1
    BY <1>1
  <2>2. D!Edit(t, [fields[t] EXCEPT !.customPrompt = 1])
    BY <1>6 DEF D!Preset
  <2> QED
    BY <1>4, <2>1, <2>2
<1> QED
  BY <1>3, <1>4, <1>5, <1>6 DEF D!Input

LEMMA LogoutKeepsInv ==
  ASSUME DraftInv, NEW t \in Tabs, D!Logout(t)
  PROVE  DraftInv'
<1> USE DEF DraftInv
<1>1. /\ item' \in {Absent, item} /\ edited' = Empty /\ kept' = (kept \/ item' # Absent)
      /\ pages' = [pages EXCEPT ![t] = "leaving"] /\ UNCHANGED <<deployed, version, fields, person>>
  BY DEF D!Logout, D!clear
<1>2. /\ pages \in [Tabs -> D!PageState] /\ kept \in BOOLEAN
  BY DEF DraftTypes, D!TypeOK
<1>3. pages'[t] = "leaving" /\ \A s \in Tabs \ {t} : pages'[s] = pages[s]
  BY <1>1, <1>2
<1>4. DraftTypes'
  BY <1>1, <1>2 DEF DraftTypes, D!TypeOK, D!PageState, D!NoDraft
<1>5. FieldsInv' /\ ItemInv'
  BY <1>1, <1>3 DEF FieldsInv, D!RestoredIsSubmittable, ItemInv
<1>6. PersonInv'
  BY <1>1, <1>3 DEF PersonInv, D!LogoutLeavesNoInput, D!NoDraft
<1> QED
  BY <1>4, <1>5, <1>6

LEMMA DraftStep ==
  ASSUME DraftInv, [D!Next]_(D!vars)
  PROVE  DraftInv'
<1>1. ASSUME NEW t \in Tabs, D!Reload(t) \/ D!Login(t) \/ D!LoggedOut(t)
      PROVE  DraftInv'
  <2>1. pages[t] \in {"login", "app", "leaving"}
    BY DEF DraftInv, DraftTypes, D!TypeOK, D!PageState
  <2> QED
    BY <1>1, <2>1, LoadKeepsInv DEF D!Reload, D!Login, D!LoggedOut
<1>2. CASE D!Deploy
  <2>1. deployed' \in 1..Len(Versions) /\ 1..deployed \subseteq 1..deployed'
    BY <1>2, DraftAssumption DEF D!Deploy, DraftInv, DraftTypes, D!TypeOK
  <2>2. version \in [Tabs -> 1..deployed']
    BY <2>1 DEF DraftInv, DraftTypes, D!TypeOK
  <2>3. UNCHANGED <<version, pages, fields, person, item, edited, kept>>
    BY <1>2 DEF D!Deploy
  <2>4. DraftTypes'
    BY <2>1, <2>2, <2>3 DEF DraftInv, DraftTypes, D!TypeOK
  <2> QED
    BY <2>3, <2>4 DEF DraftInv, FieldsInv, D!RestoredIsSubmittable, ItemInv, PersonInv,
                      D!LogoutLeavesNoInput
<1>3. CASE D!NextPerson
  <2>1. /\ \A t \in Tabs : pages[t] = "login"
        /\ person' \in People
        /\ UNCHANGED <<deployed, version, pages, fields, item, edited, kept>>
    BY <1>3 DEF D!NextPerson
  <2>2. DraftTypes'
    BY <2>1 DEF DraftInv, DraftTypes, D!TypeOK
  <2>3. FieldsInv' /\ ItemInv'
    BY <2>1 DEF DraftInv, FieldsInv, D!RestoredIsSubmittable, ItemInv
  <2>4. PersonInv'
    BY <2>1 DEF DraftInv, PersonInv, D!LogoutLeavesNoInput
  <2> QED
    BY <2>2, <2>3, <2>4 DEF DraftInv
<1>4. CASE UNCHANGED D!vars
  BY <1>4 DEF D!vars, DraftInv, DraftTypes, D!TypeOK, FieldsInv, D!RestoredIsSubmittable, ItemInv,
              PersonInv, D!LogoutLeavesNoInput
<1> QED
  BY <1>1, <1>2, <1>3, <1>4, InputKeepsInv, LogoutKeepsInv DEF D!Next

LEMMA DraftInvariance == D!Spec => []DraftInv
<1>1. D!Init => DraftInv
  <2> SUFFICES ASSUME D!Init PROVE DraftInv
    OBVIOUS
  <2>1. 1 \in 1..Len(Versions)
    BY DraftAssumption
  <2>2. /\ \A t \in Tabs : version[t] = 1 /\ pages[t] = "login" /\ fields[t] = D!initialDraft(1)
        /\ edited = Empty /\ item \in D!NoDraft \cup {d \in D!Stored : d.repoUrl \in {Empty, Unusable}}
    BY DEF D!Init
  <2>3. DraftTypes
    <3>1. /\ deployed \in 1..Len(Versions) /\ person \in People
          /\ edited \in Tabs \cup {Empty} /\ kept \in BOOLEAN
      BY <2>1 DEF D!Init
    <3>2. version \in [Tabs -> 1..deployed]
      BY DEF D!Init
    <3>3. pages \in [Tabs -> D!PageState] /\ fields \in [Tabs -> D!Draft]
      BY <2>1, InitialDraft DEF D!Init, D!PageState
    <3> QED
      BY <2>2, <3>1, <3>2, <3>3 DEF DraftTypes, D!TypeOK
  <2> QED
    BY <2>1, <2>2, <2>3, InitialDraft DEF DraftInv, FieldsInv, D!RestoredIsSubmittable, ItemInv,
                                          PersonInv, D!LogoutLeavesNoInput
<1> QED
  BY <1>1, DraftStep, PTL DEF D!Spec

(* A behaviour of both is one of each: what the other does leaves its      *)
(* variables alone.                                                        *)
LEMMA BrowserIsBoth == BrowserSpec => Spec /\ D!Spec
<1>1. BrowserInit => Init /\ D!Init
  BY DEF BrowserInit
<1>2. [BrowserNext]_allVars => [Next]_vars /\ [D!Next]_(D!vars)
  BY DEF BrowserNext, SessionNext, DraftNext, allVars, draft, D!vars
<1> QED
  BY <1>1, <1>2, PTL DEF BrowserSpec, Spec, D!Spec

(* No restored form is bound to be refused, whatever other versions and    *)
(* tabs have stored.                                                       *)
THEOREM RestoredFormIsValid == BrowserSpec => []RestoredIsSubmittable
<1>1. DraftInv => RestoredIsSubmittable
  BY DEF DraftInv, FieldsInv, RestoredIsSubmittable
<1> QED
  BY <1>1, BrowserIsBoth, DraftInvariance, PTL

(* A reload, of whatever version, brings back the last input. *)
THEOREM ReloadKeepsInput == BrowserSpec => []ReloadRestoresInput
<1>1. DraftInv => ReloadRestoresInput
  <2> SUFFICES ASSUME DraftInv, edited # Empty
               PROVE  D!normalizeDraft(deployed, item) = D!normalizeDraft(deployed, fields[edited])
    BY DEF ReloadRestoresInput, D!ReloadRestoresInput
  <2>1. /\ edited \in Tabs /\ deployed \in 1..Len(Versions) /\ fields[edited] \in D!Draft
        /\ version[edited] \in 1..Len(Versions)
    BY DraftAssumption DEF DraftInv, DraftTypes, D!TypeOK
  <2>2. D!isAllowedModel(version[edited], fields[edited].modelId)
    BY <2>1 DEF DraftInv, FieldsInv, D!RestoredIsSubmittable
  <2>3. item = D!normalizeDraft(version[edited], fields[edited])
    BY DEF DraftInv, ItemInv
  <2> QED
    BY <2>1, <2>2, <2>3, NormalizedTwice
<1> QED
  BY <1>1, BrowserIsBoth, DraftInvariance, PTL

(* Nobody is shown the input of the user before. *)
THEOREM LogoutDropsInput == BrowserSpec => []LogoutLeavesNoInput
<1>1. DraftInv => LogoutLeavesNoInput
  BY DEF DraftInv, PersonInv, LogoutLeavesNoInput, D!LogoutLeavesNoInput
<1> QED
  BY <1>1, BrowserIsBoth, DraftInvariance, PTL

(* Beside the draft, the session keeps what AuthSession promises. *)
THEOREM BrowserKeepsPromises == BrowserSpec => [](VerifierFitsCode /\ RefreshTokenIsTheLogins)
BY BrowserIsBoth, CodesMeetTheirVerifier, RefreshesStayWithTheirLogin, PTL
=============================================================================
