----------------------------- MODULE FormDraft -----------------------------
(***************************************************************************)
(* The conversion form's input, kept in localStorage (preferences.js) and  *)
(* shared by the tabs of a browser that several people use one after the   *)
(* other, while new versions of the page come with other model lists.      *)
(***************************************************************************)
EXTENDS Naturals, Sequences

CONSTANTS
  Tabs,
  People,             \* who sits at the browser; stands for what they type
  Versions,           \* the ALLOWED_MODELS of each version of the page
  PROMPT_MAX_LENGTH,  \* prompts are told apart by their length
  Empty,              \* the empty field; nobody
  Unusable,           \* a field that is missing or holds no text
  Absent,             \* no item
  Broken,             \* an item that does not parse
  NotAnObject         \* an item that is JSON, but not an object

VARIABLES
  deployed,  \* the version a page load gets
  version,   \* [Tabs -> 1..Len(Versions)]: the version a tab runs
  page,      \* [Tabs -> PageState]
  fields,    \* [Tabs -> Draft]: what the form holds, shown or hidden
  person,    \* who sits at the browser
  item,      \* localStorage[STORAGE_KEY]
  edited,    \* the tab whose input was the last to be stored, if it still shows it
  kept       \* has a logout failed to remove the draft, or was it saved after one?

vars == <<deployed, version, page, fields, person, item, edited, kept>>

PageState == {"login", "app", "leaving"}
Models    == UNION {{Versions[v][i] : i \in 1..Len(Versions[v])} : v \in 1..Len(Versions)}
Draft     == [repoUrl : People \cup {Empty}, customPrompt : 0..PROMPT_MAX_LENGTH + 1,
              modelId : Models]
NoDraft   == {Absent, Broken, NotAnObject}
(* An object as it may stand in the storage, whatever page has put it there. *)
Stored    == [repoUrl : People \cup {Empty, Unusable},
              customPrompt : (0..PROMPT_MAX_LENGTH + 1) \cup {Unusable},
              modelId : Models \cup {Unusable}]

TypeOK ==
  /\ deployed \in 1..Len(Versions) /\ version \in [Tabs -> 1..deployed]
  /\ page \in [Tabs -> PageState]
  /\ fields \in [Tabs -> Draft]
  /\ person \in People /\ edited \in Tabs \cup {Empty} /\ kept \in BOOLEAN
  /\ item \in NoDraft \cup Stored

isAllowedModel(v, m) == \E i \in 1..Len(Versions[v]) : Versions[v][i] = m

initialDraft(v) == [repoUrl |-> Empty, customPrompt |-> 0, modelId |-> Versions[v][1]]

cut(prompt) == IF prompt > PROMPT_MAX_LENGTH THEN PROMPT_MAX_LENGTH ELSE prompt

(* Field by field: what is no text is left out, the prompt is cut, and a   *)
(* model the version does not know is replaced.                            *)
normalizeDraft(v, value) ==
  IF value \in NoDraft THEN initialDraft(v)
  ELSE [repoUrl      |-> IF value.repoUrl = Unusable THEN Empty ELSE value.repoUrl,
        customPrompt |-> IF value.customPrompt = Unusable THEN 0 ELSE cut(value.customPrompt),
        modelId      |-> IF isAllowedModel(v, value.modelId) THEN value.modelId ELSE Versions[v][1]]

(* What is stored may be from a page before the first version, with a      *)
(* longer limit or other fields, but of nobody here.                       *)
Init ==
  /\ deployed = 1 /\ version = [t \in Tabs |-> 1]
  /\ page = [t \in Tabs |-> "login"]
  /\ fields = [t \in Tabs |-> initialDraft(1)]
  /\ person \in People /\ edited = Empty
  /\ item \in NoDraft \cup {d \in Stored : d.repoUrl \in {Empty, Unusable}}
  /\ kept = FALSE

-----------------------------------------------------------------------------
(* clear: the key is removed, or removing it fails without a word. *)
clear == item' = Absent \/ UNCHANGED item

(* Defect: validated when it is saved, not when it is restored. *)
LoadTrusting(v, draft) ==
  /\ draft = IF item \in NoDraft THEN initialDraft(v) ELSE item
  /\ IF item = Broken THEN clear ELSE UNCHANGED item

(* load: the item, or the initial state when it cannot be read; an item    *)
(* that does not parse is removed.                                         *)
load(v, draft) ==
  \/ /\ draft = normalizeDraft(v, item)
     /\ IF item = Broken THEN clear ELSE UNCHANGED item
  \/ draft = initialDraft(v) /\ UNCHANGED item

(* bootstrap in tab t: the page of the version deployed, its form restored. *)
Load(t, state) ==
  /\ page' = [page EXCEPT ![t] = state]
  /\ version' = [version EXCEPT ![t] = deployed]
  /\ \E draft \in Draft : load(deployed, draft) /\ fields' = [fields EXCEPT ![t] = draft]
  /\ edited' = IF edited = t THEN Empty ELSE edited
  /\ UNCHANGED <<deployed, person, kept>>

Reload(t) == page[t] # "leaving" /\ Load(t, page[t])

(* To the Hosted UI and back. *)
Login(t) == page[t] = "login" /\ Load(t, "app")

(* Defect: only the session is discarded. *)
LogoutSessionOnly(t) ==
  /\ page[t] # "login"
  /\ page' = [page EXCEPT ![t] = "leaving"]
  /\ UNCHANGED <<deployed, version, fields, person, item, edited, kept>>

(* The draft is discarded and the redirect to the Hosted UI begins; until  *)
(* it is carried out the form stays on the screen, and works.              *)
Logout(t) ==
  /\ page[t] # "login"
  /\ clear /\ edited' = Empty /\ kept' = (kept \/ item' # Absent)
  /\ page' = [page EXCEPT ![t] = "leaving"]
  /\ UNCHANGED <<deployed, version, fields, person>>

LoggedOut(t) == page[t] = "leaving" /\ Load(t, "login")

-----------------------------------------------------------------------------
(* save: the whole form, unless localStorage refuses it. *)
save(t, draft) ==
  \/ item' = normalizeDraft(version[t], draft) /\ edited' = t
  \/ UNCHANGED item /\ edited' = Empty

(* Something is typed into a field, or a model chosen, and saved. *)
Edit(t, draft) ==
  /\ page[t] \in {"app", "leaving"}
  /\ fields' = [fields EXCEPT ![t] = draft]
  /\ save(t, draft) /\ kept' = (kept \/ page[t] = "leaving")
  /\ UNCHANGED <<deployed, version, page, person>>

Input(t) ==
  \/ \E text \in {person, Empty} : Edit(t, [fields[t] EXCEPT !.repoUrl = text])
  \/ \E length \in 0..PROMPT_MAX_LENGTH + 1 : Edit(t, [fields[t] EXCEPT !.customPrompt = length])
  \/ \E m \in Models : isAllowedModel(version[t], m) /\ Edit(t, [fields[t] EXCEPT !.modelId = m])

(* Defect: assigning to value fires no input event, so nothing is saved. *)
PresetUnsaved(t) ==
  /\ page[t] = "app"
  /\ fields' = [fields EXCEPT ![t].customPrompt = 1]
  /\ UNCHANGED <<deployed, version, page, person, item, edited, kept>>

(* A preset button: its text is put into the prompt and saved. *)
Preset(t) == Edit(t, [fields[t] EXCEPT !.customPrompt = 1])

Deploy ==
  /\ deployed < Len(Versions)
  /\ deployed' = deployed + 1
  /\ UNCHANGED <<version, page, fields, person, item, edited, kept>>

(* Somebody else sits down once no tab is logged in. *)
NextPerson ==
  /\ \A t \in Tabs : page[t] = "login"
  /\ person' \in People \ {person}
  /\ UNCHANGED <<deployed, version, page, fields, item, edited, kept>>

Next ==
  \/ \E t \in Tabs : Reload(t) \/ Login(t) \/ Logout(t) \/ LoggedOut(t) \/ Input(t) \/ Preset(t)
  \/ Deploy \/ NextPerson

Spec == Init /\ [][Next]_vars

-----------------------------------------------------------------------------
(* Properties. *)

(* Whatever an older version of the page has stored, or another tab still  *)
(* stores, the form never comes up bound to be refused by the API: its     *)
(* model is one of this version's, and its prompt within the limit until   *)
(* somebody types a longer one.                                            *)
RestoredIsSubmittable ==
  \A t \in Tabs :
    /\ isAllowedModel(version[t], fields[t].modelId)
    /\ page[t] = "login" => fields[t].customPrompt <= PROMPT_MAX_LENGTH

(* A reload brings back what was typed, chosen or put in by a preset last, *)
(* in whichever tab, also when a new version has been deployed since.      *)
ReloadRestoresInput ==
  edited # Empty =>
    normalizeDraft(deployed, item) = normalizeDraft(deployed, fields[edited])

(* preferences.js and app.js on clear: in a browser that several people    *)
(* share, in whatever tabs, nobody is shown what the user before has typed *)
(* - unless localStorage refused the removal, or something was typed after *)
(* the click on logout, while the redirect was on its way.                 *)
LogoutLeavesNoInput ==
  ~kept => \A t \in Tabs : page[t] = "app" => fields[t].repoUrl \in {person, Empty}
=============================================================================
