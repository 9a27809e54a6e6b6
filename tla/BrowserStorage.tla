--------------------------- MODULE BrowserStorage ---------------------------
(***************************************************************************)
(* What the browser stores: a behaviour is about the session, in           *)
(* sessionStorage, or about the draft, in localStorage, which do not meet. *)
(***************************************************************************)
EXTENDS AuthSession, Naturals, Sequences

CONSTANTS Tabs, People, Versions, PROMPT_MAX_LENGTH, Empty, Unusable,
          Absent, Broken, NotAnObject

VARIABLES part, deployed, version, pages, fields, person, item, edited, kept

D == INSTANCE FormDraft WITH page <- pages

(* There is a version of the page, each offers a model, what is no draft   *)
(* is none, and what is no text is none.                                   *)
ASSUME DraftAssumption ==
  /\ PROMPT_MAX_LENGTH \in Nat
  /\ Len(Versions) \in Nat \ {0}
  /\ \A v \in 1..Len(Versions) : Len(Versions[v]) \in Nat \ {0}
  /\ \A x \in {Absent, Broken, NotAnObject} : x \notin D!Stored
  /\ Unusable \notin People \cup {Empty} \cup D!Models \cup Nat

draft   == <<deployed, version, pages, fields, person, item, edited, kept>>
allVars == <<part, vars, draft>>

BrowserInit == part \in {"session", "draft"} /\ Init /\ D!Init

SessionNext == part = "session" /\ Next /\ UNCHANGED <<part, draft>>
DraftNext   == part = "draft" /\ D!Next /\ UNCHANGED <<part, vars>>

BrowserNext == SessionNext \/ DraftNext

BrowserSpec == BrowserInit /\ [][BrowserNext]_allVars

-----------------------------------------------------------------------------
(* FormDraft's properties. *)

(* Whatever an older version of the page has stored, the form never comes  *)
(* up bound to be refused by the API (preferences.js, load).               *)
RestoredIsSubmittable == D!RestoredIsSubmittable

(* A reload brings back what was typed, chosen or put in by a preset last, *)
(* in whichever tab (app.js, persist).                                     *)
ReloadRestoresInput == D!ReloadRestoresInput

(* Nobody is shown what the user before has typed, once that user has      *)
(* logged out and nothing interfered with it (app.js, preferences.clear).  *)
LogoutLeavesNoInput == D!LogoutLeavesNoInput
=============================================================================
