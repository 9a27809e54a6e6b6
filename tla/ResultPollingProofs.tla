------------------------- MODULE ResultPollingProofs -------------------------
(* What holds of ResultPolling for every set of jobs and loops and every   *)
(* limit on the attempts.                                                  *)
EXTENDS ResultPolling, TLAPS

(* A loop that runs has a job. *)
BusyInv == \A p \in Pollers : pc[p] = "free" \/ job[p] \in Jobs

(* The loops' own state, and the job on its way to the server. *)
LoopInv ==
  /\ BusyInv
  /\ pc \in [Pollers -> LoopState]
  /\ job \in [Pollers -> Jobs \cup {None}]
  /\ form = "posting" => submitted \in Jobs

(* Every step keeps LoopInv. *)
LEMMA LoopInvStep ==
  ASSUME LoopInv, [Next]_vars
  PROVE  LoopInv'
<1> USE DEF LoopInv, BusyInv, LoopState
<1>1. ASSUME NEW j \in Jobs, SubmitConversion(j) \/ Accept(j) \/ Work(j)
      PROVE  LoopInv'
  BY <1>1 DEF SubmitConversion, Accept, Work, loopVars, formVars
<1>2. ASSUME NEW p \in Pollers, NEW j \in Jobs, SelectJob(p, j)
      PROVE  LoopInv'
  BY <1>2 DEF SelectJob, Start, formVars
<1>3. ASSUME NEW p \in Pollers, Accepted(p)
      PROVE  LoopInv'
  BY <1>3 DEF Accepted, Start
<1>4. ASSUME NEW p \in Pollers, GetNarrative(p)
      PROVE  LoopInv'
  BY <1>4 DEF GetNarrative, formVars
<1>5. ASSUME NEW p \in Pollers, Return(p)
      PROVE  LoopInv'
  BY <1>5 DEF Return
<1>6. ASSUME NEW p \in Pollers, HandleAnswer(p)
      PROVE  LoopInv'
  BY <1>5, <1>6 DEF HandleAnswer, formVars
<1>7. ASSUME NEW p \in Pollers, Wake(p)
      PROVE  LoopInv'
  BY <1>5, <1>7 DEF Wake, formVars
<1>8. CASE Rejected \/ RefreshHistory
  BY <1>8 DEF Rejected, RefreshHistory, loopVars
<1>9. CASE UNCHANGED vars
  BY <1>9 DEF vars, loopVars, formVars
<1> QED
  BY <1>1, <1>2, <1>3, <1>4, <1>6, <1>7, <1>8, <1>9 DEF Next

(* Everything TypeOK says beside what LoopInv does. *)
RestInv ==
  /\ status \in [Jobs -> Status] /\ listed \subseteq Jobs /\ active \in Jobs \cup {None}
  /\ screen \in [job : Jobs \cup {None}, view : View]
  /\ form \in FormState /\ submitted \in Jobs \cup {None} /\ awaited \in Pollers \cup {None}
  /\ attempt \in [Pollers -> 0..MaxAttempts] /\ answer \in [Pollers -> View]

LEMMA RestInvStep ==
  ASSUME LoopInv, RestInv, [Next]_vars
  PROVE  RestInv'
<1>1. ASSUME NEW j \in Jobs, SubmitConversion(j) \/ Accept(j) \/ Work(j)
      PROVE  RestInv'
  BY <1>1 DEF SubmitConversion, Accept, Work, RestInv, loopVars, formVars, FormState, Status, Final
<1>2. ASSUME NEW p \in Pollers, NEW j \in Jobs, Start(p, j),
             UNCHANGED <<status, listed, screen, submitted>>,
             form' \in FormState, awaited' \in Pollers \cup {None}
      PROVE  RestInv'
  BY <1>2, PollingAssumption DEF Start, RestInv
<1>3. ASSUME NEW p \in Pollers, NEW j \in Jobs, SelectJob(p, j)
      PROVE  RestInv'
  BY <1>2, <1>3 DEF SelectJob, RestInv, formVars
<1>4. ASSUME NEW p \in Pollers, Accepted(p)
      PROVE  RestInv'
  BY <1>2, <1>4 DEF Accepted, LoopInv, FormState
<1>5. ASSUME NEW p \in Pollers, GetNarrative(p)
      PROVE  RestInv'
  <2>1. \A s \in Status : Readable(s) \subseteq Status
    BY DEF Readable, Status, Final
  <2>2. CASE job[p] \in Jobs
    BY <1>5, <2>1, <2>2 DEF GetNarrative, RestInv, formVars, View
  <2>3. CASE job[p] \notin Jobs
    BY <1>5, <2>3 DEF GetNarrative, LoopInv, BusyInv
  <2> QED
    BY <2>2, <2>3
<1>6. ASSUME NEW p \in Pollers, Return(p), UNCHANGED <<status, listed, active>>,
             screen' \in [job : Jobs \cup {None}, view : View]
      PROVE  RestInv'
  BY <1>6, PollingAssumption DEF Return, RestInv, View, Status, FormState
<1>7. ASSUME NEW p \in Pollers, NEW view \in View, Render(p, view)
      PROVE  screen' \in [job : Jobs \cup {None}, view : View]
  BY <1>7 DEF Render, LoopInv
<1>8. ASSUME NEW p \in Pollers, HandleAnswer(p)
      PROVE  RestInv'
  <2>1. answer[p] \in View
    BY DEF RestInv
  <2>2. screen' \in [job : Jobs \cup {None}, view : View]
    BY <1>7, <1>8, <2>1 DEF HandleAnswer, RestInv
  <2>3. CASE Return(p)
    BY <1>6, <1>8, <2>2, <2>3 DEF HandleAnswer
  <2>4. CASE UNCHANGED <<attempt, answer, formVars>>
    BY <1>8, <2>2, <2>4 DEF HandleAnswer, RestInv, formVars
  <2> QED
    BY <1>8, <2>3, <2>4 DEF HandleAnswer
<1>9. ASSUME NEW p \in Pollers, Wake(p)
      PROVE  RestInv'
  <2>1. "timeout" \in View
    BY DEF View
  <2>2. screen' \in [job : Jobs \cup {None}, view : View]
    BY <1>7, <1>9, <2>1 DEF Wake, RestInv
  <2>3. CASE Return(p)
    BY <1>6, <1>9, <2>2, <2>3 DEF Wake
  <2>4. CASE /\ attempt[p] + 1 < MaxAttempts /\ attempt' = [attempt EXCEPT ![p] = @ + 1]
             /\ UNCHANGED <<answer, formVars>>
    <3>1. attempt[p] + 1 \in 0..MaxAttempts
      BY <2>4, PollingAssumption DEF RestInv
    <3> QED
      BY <1>9, <2>2, <2>4, <3>1 DEF Wake, RestInv, formVars
  <2> QED
    BY <1>9, <2>3, <2>4 DEF Wake
<1>10. CASE Rejected \/ RefreshHistory
  BY <1>10 DEF Rejected, RefreshHistory, RestInv, loopVars, FormState
<1>11. CASE UNCHANGED vars
  BY <1>11 DEF vars, loopVars, formVars, RestInv
<1> QED
  BY <1>1, <1>3, <1>4, <1>5, <1>8, <1>9, <1>10, <1>11 DEF Next

(* Every variable keeps its type, whatever is clicked and answered. *)
THEOREM TypeCorrect == Spec => []TypeOK
<1>1. Init => LoopInv /\ RestInv
  BY PollingAssumption DEF Init, LoopInv, RestInv, BusyInv, LoopState, Status, Final, View, FormState
<1>2. LoopInv /\ RestInv => TypeOK
  BY DEF LoopInv, RestInv, TypeOK
<1> QED
  BY <1>1, <1>2, LoopInvStep, RestInvStep, PTL DEF Spec

(* A step that draws, or asks the server again, does it for activeJobId. *)
ServesActive ==
  /\ screen' # screen => screen'.job = active
  /\ \A p \in Pollers :
       pc[p] # "fetching" /\ pc'[p] = "fetching" => job'[p] = active'

(* Every step serves the active job only. *)
LEMMA StepServesActive ==
  ASSUME LoopInv, [Next]_vars
  PROVE  ServesActive
<1> USE DEF LoopInv, ServesActive
<1>1. CASE UNCHANGED <<screen, pc>>
  BY <1>1
<1>2. ASSUME NEW p \in Pollers, NEW j \in Jobs, Start(p, j), UNCHANGED screen
      PROVE  ServesActive
  BY <1>2 DEF Start
<1>3. ASSUME NEW p \in Pollers, GetNarrative(p)
      PROVE  ServesActive
  BY <1>3 DEF GetNarrative
<1>4. ASSUME NEW p \in Pollers, HandleAnswer(p)
      PROVE  ServesActive
  <2>1. \A q \in Pollers : pc'[q] = "fetching" => pc[q] = "fetching"
    BY <1>4 DEF HandleAnswer, Return
  <2>2. screen' # screen => screen'.job = active
    BY <1>4 DEF HandleAnswer, Render, Displaced
  <2> QED
    BY <2>1, <2>2
<1>5. ASSUME NEW p \in Pollers, Wake(p)
      PROVE  ServesActive
  <2>1. CASE Return(p) /\ (UNCHANGED screen \/ (Render(p, "timeout") /\ ~Displaced(p)))
    BY <2>1 DEF Return, Render, Displaced
  <2>2. CASE /\ ~Displaced(p) /\ UNCHANGED <<screen, job, active>>
             /\ pc' = [pc EXCEPT ![p] = "fetching"]
    BY <2>2 DEF Displaced
  <2> QED
    BY <1>5, <2>1, <2>2 DEF Wake
<1> QED
  BY <1>1, <1>2, <1>3, <1>4, <1>5
     DEF Next, vars, loopVars, SubmitConversion, Accept, Work, SelectJob, Accepted,
         Rejected, RefreshHistory

(* A loop whose job is no longer the active one neither draws nor asks. *)
THEOREM DisplacedLoopsAreSilent == Spec => OnlyActiveJobIsServed
<1>1. Init => LoopInv
  BY DEF Init, LoopInv, BusyInv, LoopState
<1>2. LoopInv /\ [Next]_vars =>
        [/\ screen' # screen => screen'.job = active
         /\ \A p \in Pollers :
              pc[p] # "fetching" /\ pc'[p] = "fetching" => job'[p] = active']_vars
  BY StepServesActive DEF ServesActive
<1> QED
  BY <1>1, <1>2, LoopInvStep, PTL DEF Spec, OnlyActiveJobIsServed
=============================================================================
