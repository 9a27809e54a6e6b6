---------------------------- MODULE ResultPolling ----------------------------
(***************************************************************************)
(* The frontend's result area: the form that submits a conversion and      *)
(* waits for it, the history entries that can be clicked at any time, and  *)
(* the loops (pollUntilDone) both start, which share activeJobId and the   *)
(* result area.  JavaScript runs one piece of a loop at a time, from one   *)
(* await to the next; answers arrive late, out of order or not at all.     *)
(***************************************************************************)
EXTENDS Naturals, FiniteSets

CONSTANTS
  Jobs,         \* jobs the user can submit
  Pollers,      \* BOUND: loops alive at the same time
  MaxAttempts,  \* POLL_MAX_ATTEMPTS
  None          \* no job

ASSUME PollingAssumption ==
  /\ MaxAttempts \in Nat \ {0}
  /\ None \notin Jobs

VARIABLES
  status,    \* [Jobs -> Status]: what the record says
  listed,    \* the jobs the history shows
  active,    \* activeJobId
  screen,    \* what the result area shows: a job and a view of it
  form,      \* FormState: where submitConversion is
  submitted, \* the job the form is submitting
  pc,        \* [Pollers -> LoopState]
  job,       \* [Pollers -> Jobs \cup {None}]: jobId
  attempt,   \* [Pollers -> 0..MaxAttempts]
  answer,    \* [Pollers -> View]: what the request in flight brings back
  awaited    \* the loop submitConversion waits for, if any

loopVars == <<pc, job, attempt, answer>>
formVars == <<form, submitted, awaited>>
vars == <<status, listed, active, screen, loopVars, formVars>>

Final     == {"completed", "failed"}
Status    == {"new", "queued", "processing"} \cup Final
View      == Status \cup {"error", "timeout"}
FormState == {"ready", "posting", "polling", "history"}
LoopState == {"free", "fetching", "answered", "waiting"}

TypeOK ==
  /\ status \in [Jobs -> Status]
  /\ listed \subseteq Jobs
  /\ active \in Jobs \cup {None}
  /\ screen \in [job : Jobs \cup {None}, view : View]
  /\ form \in FormState /\ submitted \in Jobs \cup {None}
  /\ awaited \in Pollers \cup {None}
  /\ pc \in [Pollers -> LoopState]
  /\ job \in [Pollers -> Jobs \cup {None}]
  /\ attempt \in [Pollers -> 0..MaxAttempts]
  /\ answer \in [Pollers -> View]

(* The page is loaded: the history shows the jobs of earlier visits. *)
Init ==
  /\ status \in [Jobs -> {"new", "processing"}]
  /\ listed = {j \in Jobs : status[j] # "new"}
  /\ active = None /\ screen = [job |-> None, view |-> "new"]
  /\ form = "ready" /\ submitted = None /\ awaited = None
  /\ pc = [p \in Pollers |-> "free"] /\ job = [p \in Pollers |-> None]
  /\ attempt = [p \in Pollers |-> 0] /\ answer = [p \in Pollers |-> "new"]

-----------------------------------------------------------------------------
(* pollUntilDone. *)

(* Up to the first await: the loop takes over activeJobId and asks. *)
Start(p, j) ==
  /\ pc[p] = "free"
  /\ active' = j
  /\ pc' = [pc EXCEPT ![p] = "fetching"]
  /\ job' = [job EXCEPT ![p] = j]
  /\ attempt' = [attempt EXCEPT ![p] = 0]
  /\ UNCHANGED answer

(* get_item is not a consistent read: it may miss the latest update. *)
Readable(s) == CASE s = "processing" -> {"queued", s}
                 [] s \in Final -> {"processing", s}
                 [] OTHER -> {s}

(* The server reads the record, or the request fails on its way: no token, *)
(* no connection, an error status, a record not yet readable.              *)
GetNarrative(p) ==
  /\ pc[p] = "fetching"
  /\ pc' = [pc EXCEPT ![p] = "answered"]
  /\ \E seen \in Readable(status[job[p]]) \cup {"error"} : answer' = [answer EXCEPT ![p] = seen]
  /\ UNCHANGED <<status, listed, active, screen, job, attempt, formVars>>

(* Defect: submitConversion is not resumed when its loop is displaced. *)
ReturnSilently(p) ==
  /\ pc' = [pc EXCEPT ![p] = "free"]
  /\ job' = [job EXCEPT ![p] = None]
  /\ attempt' = [attempt EXCEPT ![p] = 0]
  /\ answer' = [answer EXCEPT ![p] = "new"]
  /\ IF awaited = p /\ job[p] = active
       THEN form' = "history" /\ awaited' = None
       ELSE UNCHANGED <<form, awaited>>
  /\ UNCHANGED submitted

(* The loop returns; the form, if it waits for it, goes on to the history. *)
Return(p) ==
  /\ pc' = [pc EXCEPT ![p] = "free"]
  /\ job' = [job EXCEPT ![p] = None]
  /\ attempt' = [attempt EXCEPT ![p] = 0]
  /\ answer' = [answer EXCEPT ![p] = "new"]
  /\ IF awaited = p
       THEN form' = "history" /\ awaited' = None
       ELSE UNCHANGED <<form, awaited>>
  /\ UNCHANGED submitted

(* A failed request and the timeout are drawn as a failed job, each with a *)
(* message of its own.                                                     *)
Render(p, view) == screen' = [job |-> job[p], view |-> view]

(* Defect: activeJobId is not looked at. *)
NeverDisplaced(p) == FALSE

Displaced(p) == job[p] # active

(* Defect: a job that has started is taken for a finished one. *)
StartedIsFinished(view) == view # "queued"

(* isTerminalStatus, or the request failed. *)
Finished(view) == view \in Final \cup {"error"}

(* The answer is in: leave if another job took over, otherwise draw it,    *)
(* and leave or wait.                                                      *)
HandleAnswer(p) ==
  /\ pc[p] = "answered"
  /\ \/ /\ Displaced(p)
        /\ Return(p)
        /\ UNCHANGED screen
     \/ /\ ~Displaced(p)
        /\ Render(p, answer[p])
        /\ IF Finished(answer[p])
             THEN Return(p)
             ELSE /\ pc' = [pc EXCEPT ![p] = "waiting"]
                  /\ UNCHANGED <<job, attempt, answer, formVars>>
  /\ UNCHANGED <<status, listed, active>>

(* The delay is over: leave if displaced, ask again, or give up. *)
Wake(p) ==
  /\ pc[p] = "waiting"
  /\ \/ /\ Displaced(p)
        /\ Return(p)
        /\ UNCHANGED screen
     \/ /\ ~Displaced(p) /\ attempt[p] + 1 < MaxAttempts
        /\ pc' = [pc EXCEPT ![p] = "fetching"]
        /\ attempt' = [attempt EXCEPT ![p] = @ + 1]
        /\ UNCHANGED <<screen, job, answer, formVars>>
     \/ /\ ~Displaced(p) /\ attempt[p] + 1 = MaxAttempts
        /\ Render(p, "timeout")
        /\ Return(p)
  /\ UNCHANGED <<status, listed, active>>

-----------------------------------------------------------------------------
(* The form and the history. *)

(* The submit button is enabled: the input is accepted and posted.  The    *)
(* server may record the job whether or not its answer arrives.            *)
SubmitConversion(j) ==
  /\ form = "ready"
  /\ status[j] = "new"
  /\ form' = "posting" /\ submitted' = j
  /\ UNCHANGED <<status, listed, active, screen, loopVars, awaited>>

Accept(j) ==
  /\ form = "posting" /\ submitted = j /\ status[j] = "new"
  /\ status' = [status EXCEPT ![j] = "queued"]
  /\ UNCHANGED <<listed, active, screen, loopVars, formVars>>

(* createNarrative resolves: the form starts a loop and waits for it. *)
Accepted(p) ==
  /\ form = "posting" /\ status[submitted] # "new"
  /\ Start(p, submitted)
  /\ form' = "polling" /\ awaited' = p
  /\ UNCHANGED <<status, listed, screen, submitted>>

(* createNarrative rejects: an error under the form, the button is back. *)
Rejected ==
  /\ form = "posting"
  /\ form' = "ready" /\ submitted' = None
  /\ UNCHANGED <<status, listed, active, screen, loopVars, awaited>>

(* refreshHistory: the list of the user's jobs, which may miss the latest  *)
(* (a GSI lags), or nothing when the request fails.                        *)
RefreshHistory ==
  /\ form = "history"
  /\ listed' \in SUBSET {j \in Jobs : status[j] # "new"}
  /\ form' = "ready" /\ submitted' = None
  /\ UNCHANGED <<status, active, screen, loopVars, awaited>>

(* An entry of the history is clicked, whatever else is going on. *)
SelectJob(p, j) ==
  /\ j \in listed
  /\ Start(p, j)
  /\ UNCHANGED <<status, listed, screen, formVars>>

(* The pipeline works on the job. *)
Work(j) ==
  /\ \/ status[j] = "queued" /\ status' = [status EXCEPT ![j] = "processing"]
     \/ /\ status[j] = "processing"
        /\ \E s \in Final : status' = [status EXCEPT ![j] = s]
  /\ UNCHANGED <<listed, active, screen, loopVars, formVars>>

Next ==
  \/ \E j \in Jobs : SubmitConversion(j) \/ Accept(j) \/ Work(j)
  \/ \E p \in Pollers, j \in Jobs : SelectJob(p, j)
  \/ \E p \in Pollers : Accepted(p) \/ GetNarrative(p) \/ HandleAnswer(p) \/ Wake(p)
  \/ Rejected \/ RefreshHistory

Spec == Init /\ [][Next]_vars

(* Timers fire and requests are answered or fail (the API gateway cuts     *)
(* them after thirty seconds).  Users and the pipeline owe nothing.        *)
PostAnswered == Rejected \/ \E p \in Pollers : Accepted(p)

Fairness ==
  /\ \A p \in Pollers : WF_vars(GetNarrative(p)) /\ WF_vars(HandleAnswer(p)) /\ WF_vars(Wake(p))
  /\ WF_vars(PostAnswered) /\ WF_vars(RefreshHistory)

FairSpec == Spec /\ Fairness

-----------------------------------------------------------------------------
(* Properties. *)

(* A loop whose job is no longer the active one neither draws nor asks     *)
(* again, however late its answer or its timer comes (activeJobId).        *)
OnlyActiveJobIsServed ==
  [][/\ screen' # screen => screen'.job = active
     /\ \A p \in Pollers :
          pc[p] # "fetching" /\ pc'[p] = "fetching" => job'[p] = active']_vars

(* The submit button comes back, even when the form's own loop was         *)
(* displaced by a click in the history: its loop returns early and the     *)
(* finally block runs.                                                     *)
FormComesBack == form # "ready" ~> form = "ready"

(* The job being watched gets a last word on the screen - its outcome, an  *)
(* error or the timeout - unless the user turns to another job.            *)
WatchedJobIsConcluded ==
  \A j \in Jobs :
    (active = j /\ \E p \in Pollers : pc[p] # "free" /\ job[p] = j)
      ~> (active # j \/ (screen.job = j /\ screen.view \in Final \cup {"error", "timeout"}))

(* app.js on activeJobId: competing updates of the result area are         *)
(* prevented.  So a loop that gives up never covers the outcome of its own *)
(* job, already shown, with the timeout message.                           *)
TimeoutNeverCoversOutcome ==
  [][screen.view \in Final /\ screen'.job = screen.job => screen'.view # "timeout"]_vars
=============================================================================
