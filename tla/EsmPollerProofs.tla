--------------------------- MODULE EsmPollerProofs ---------------------------
(* What holds of EsmPoller for any messages and any configured batch size,  *)
(* of LocalInit for any number of runs and any timeout, and of              *)
(* LocalProcesses, which is one or the other.                               *)
EXTENDS LocalProcesses, TLAPS

Deleted == {m \in Messages : queue[m] = "deleted"}

(* What is about to be deleted has been handled: that is what a response   *)
(* says of the messages it does not report.                                *)
HandledInv ==
  /\ Deleted \subseteq handled
  /\ pc = "delete" => batch \ failed_message_ids(response, batch) \subseteq handled
  /\ pc # "delete" => response = NoResponse

IInv == TypeOK /\ HandledInv

LEMMA NothingReported == NoResponse \in Response /\ NoResponse.ids = {}
BY DEF NoResponse, Response, Forms

(* A report is well-formed and names what is not done, or it is empty. *)
LEMMA ReportKinds ==
  ASSUME NEW done \in SUBSET batch, NEW r \in Reports(done)
  PROVE  \/ r = [form |-> "list", ids |-> batch \ done]
         \/ /\ r \in Response /\ r.ids = {}
            /\ \/ r.form \in {"null", "no list"} /\ done = batch
               \/ r.form \in {"not a dict", "not a list", "bad element"}
BY DEF Reports

(* A report leaves out only what is done, whatever its form. *)
LEMMA ReportsAreHonest ==
  ASSUME NEW done \in SUBSET batch, NEW r \in Reports(done)
  PROVE  batch \ failed_message_ids(r, batch) \subseteq done
<1>1. CASE r = [form |-> "list", ids |-> batch \ done]
  <2>1. r.form = "list" /\ r.ids = batch \ done
    BY <1>1
  <2>2. failed_message_ids(r, batch) = batch \ done
    BY <2>1 DEF failed_message_ids
  <2> QED
    BY <2>2
<1>2. CASE r.form \in {"null", "no list"} /\ done = batch
  BY <1>2
<1>3. CASE r.form \in {"not a dict", "not a list", "bad element"}
  BY <1>3 DEF failed_message_ids
<1> QED
  BY <1>1, <1>2, <1>3, ReportKinds

(* A report is a response about the batch. *)
LEMMA ReportsAreResponses ==
  ASSUME batch \subseteq Messages, NEW done \in SUBSET batch, NEW r \in Reports(done)
  PROVE  r \in Response /\ r.ids \subseteq batch
<1>1. CASE r = [form |-> "list", ids |-> batch \ done]
  BY <1>1 DEF Response, Forms
<1>2. CASE r \in Response /\ r.ids = {}
  BY <1>2
<1> QED
  BY <1>1, <1>2, ReportKinds

(* The steps of the loop that leave queue, handled and response alone. *)
LEMMA QuietSteps ==
  ASSUME IInv, UNCHANGED <<queue, handled, response>>,
         pc # "delete", pc' # "delete", TypeOK'
  PROVE  IInv'
BY DEF IInv, HandledInv, Deleted

LEMMA InvStep ==
  ASSUME IInv, [Next]_vars
  PROVE  IInv'
<1> USE DEF IInv
<1>1. CASE UNCHANGED vars
  BY <1>1 DEF vars, TypeOK, HandledInv, Deleted
<1>2. CASE Signal
  BY <1>2 DEF Signal, TypeOK, HandledInv, Deleted
<1>3. CASE Check \/ ReceiveNothing \/ Sleep
  BY <1>3, QuietSteps DEF Check, ReceiveNothing, Sleep, TypeOK
<1>4. CASE Receive
  <2>1. TypeOK'
    BY <1>4, NothingReported DEF Receive, TypeOK, HandledInv
  <2>2. Deleted' = Deleted
    BY <1>4 DEF Receive, Deleted, TypeOK
  <2> QED
    BY <1>4, <2>1, <2>2 DEF Receive, HandledInv
<1>5. CASE Invoke
  BY <1>5, QuietSteps, NothingReported DEF Invoke, NextBatch, TypeOK, HandledInv
<1>6. CASE WorkerEnds
  <2>1. PICK done \in SUBSET busy :
          /\ handled' = handled \cup done
          /\ IF pc = "waiting"
               THEN \/ response' \in Reports(done) /\ pc' = "delete" /\ UNCHANGED batch
                    \/ NextBatch /\ UNCHANGED response
                    \/ pc' = "dead" /\ batch' = {} /\ UNCHANGED response
               ELSE UNCHANGED <<pc, batch, response>>
    BY <1>6 DEF WorkerEnds
  <2>2. busy' = {} /\ UNCHANGED <<queue, running>>
    BY <1>6 DEF WorkerEnds
  <2>3. CASE pc = "waiting" /\ response' \in Reports(done) /\ pc' = "delete" /\ UNCHANGED batch
    <3>1. busy = batch /\ batch \subseteq Messages
      BY <2>3 DEF TypeOK
    <3>2. response' \in Response /\ response'.ids \subseteq batch
      BY <2>3, <3>1, ReportsAreResponses
    <3>3. batch \ failed_message_ids(response', batch) \subseteq done
      BY <2>3, <3>1, ReportsAreHonest
    <3> QED
      BY <2>1, <2>2, <2>3, <3>2, <3>3 DEF TypeOK, HandledInv, Deleted
  <2>4. CASE pc = "waiting" /\ pc' \in {"check", "dead"} /\ batch' = {} /\ UNCHANGED response
    BY <2>1, <2>2, <2>4, NothingReported DEF TypeOK, HandledInv, Deleted
  <2>5. CASE pc # "waiting" /\ UNCHANGED <<pc, batch, response>>
    BY <2>1, <2>2, <2>5 DEF TypeOK, HandledInv, Deleted
  <2> QED
    BY <2>1, <2>3, <2>4, <2>5 DEF NextBatch
<1>7. CASE InvokeTimesOut
  BY <1>7, QuietSteps, NothingReported DEF InvokeTimesOut, NextBatch, TypeOK, HandledInv
<1>8. CASE DeleteMessages
  <2>1. PICK gone \in SUBSET (batch \ failed_message_ids(response, batch)) :
          queue' = [m \in Messages |-> IF m \in gone THEN "deleted" ELSE queue[m]]
    BY <1>8 DEF DeleteMessages
  <2>2. pc' = "check" /\ batch' = {} /\ response' = NoResponse /\ UNCHANGED <<handled, busy, running>>
    BY <1>8 DEF DeleteMessages, NextBatch
  <2>3. gone \subseteq handled
    BY <1>8, <2>1 DEF DeleteMessages, HandledInv
  <2>4. Deleted' \subseteq handled'
    BY <2>1, <2>2, <2>3 DEF Deleted, HandledInv
  <2>5. TypeOK'
    BY <2>1, <2>2, NothingReported DEF TypeOK
  <2> QED
    BY <2>2, <2>4, <2>5 DEF HandledInv
<1>9. CASE \E m \in Messages : Reappear(m)
  BY <1>9 DEF Reappear, TypeOK, HandledInv, Deleted
<1> QED
  BY <1>1, <1>2, <1>3, <1>4, <1>5, <1>6, <1>7, <1>8, <1>9 DEF Next, Step

LEMMA Invariance == Spec => []IInv
<1>1. Init => IInv
  BY NothingReported DEF Init, IInv, TypeOK, HandledInv, Deleted
<1> QED
  BY <1>1, InvStep, PTL DEF Spec

-----------------------------------------------------------------------------

(* Every variable keeps its type. *)
THEOREM TypeCorrect == Spec => []TypeOK
<1>1. IInv => TypeOK
  BY DEF IInv
<1> QED
  BY <1>1, Invariance, PTL

(* No response, error or late return makes a message disappear that the    *)
(* worker is not done with.                                                *)
THEOREM DeletionsAreHandled == Spec => []OnlyHandledDeleted
<1>1. IInv => OnlyHandledDeleted
  BY DEF IInv, HandledInv, Deleted, OnlyHandledDeleted
<1> QED
  BY <1>1, Invariance, PTL

-----------------------------------------------------------------------------
(* The jobs that prepare the resources. *)

SetupTypes == L!TypeOK /\ elapsed \in [Runs -> Nat]

(* A run verifies the queues, or has, only when the table and its index    *)
(* are active, and they stay so while a run has not been started again:    *)
(* to create the table is to find it absent.                               *)
ActiveInv == (\E r \in Runs : main[r] \in {"verify", "exit 0"}) => L!Active

SetupInv == SetupTypes /\ ActiveInv /\ L!ExitZeroMeansReady /\ L!RepeatedRunsSucceed

LEMMA TimeoutIsInteger == L!Timeout \in Int
BY TimeoutAssumption DEF L!Timeout, L!env_int

(* A clock at its beginning is within the timeout, even if that is not     *)
(* positive.                                                               *)
LEMMA ClockAtZero == \A n \in Nat : n = 0 => (n > 0 => n <= L!Timeout)
OBVIOUS

(* A run that goes on begins its next wait. *)
LEMMA GoKeepsTypes ==
  ASSUME SetupTypes, NEW r \in Runs, NEW next \in L!Step, L!Go(r, next)
  PROVE  /\ main' \in [Runs -> L!Step] /\ elapsed' \in [Runs -> Nat]
         /\ \A s \in Runs : elapsed'[s] > 0 => elapsed'[s] <= L!Timeout
         /\ main'[r] = next /\ \A s \in Runs \ {r} : main'[s] = main[s]
<1>1. /\ main \in [Runs -> L!Step] /\ elapsed \in [Runs -> Nat]
      /\ \A s \in Runs : elapsed[s] > 0 => elapsed[s] <= L!Timeout
  BY DEF SetupTypes, L!TypeOK
<1> QED
  BY <1>1, TimeoutIsInteger DEF L!Go

(* A run goes on while the services stay as they are, to an exit only with *)
(* what the exit says.                                                     *)
LEMMA GoKeepsInv ==
  ASSUME SetupInv, NEW r \in Runs, NEW next \in L!Step, L!Go(r, next),
         UNCHANGED <<dynamodb, queues, redrive, table, index>>,
         mark' \in BOOLEAN, mark => mark',
         next \in {"verify", "exit 0"} => L!Active,
         next = "exit 0" => queues = {"main", "dlq"} /\ redrive,
         next = "exit 1" => mark' \/ ~redrive
  PROVE  SetupInv'
<1>1. SetupTypes
  BY DEF SetupInv
<1>2. main'[r] = next /\ \A s \in Runs \ {r} : main'[s] = main[s]
  BY <1>1, GoKeepsTypes
<1>3. SetupTypes'
  BY <1>1, GoKeepsTypes, TimeoutIsInteger DEF SetupTypes, L!TypeOK
<1>4. ActiveInv'
  BY <1>1, <1>2 DEF SetupInv, ActiveInv, L!Active
<1>5. L!ExitZeroMeansReady'
  BY <1>1, <1>2 DEF SetupInv, L!ExitZeroMeansReady, L!Active
<1>6. L!RepeatedRunsSucceed'
  BY <1>1, <1>2 DEF SetupInv, L!RepeatedRunsSucceed
<1> QED
  BY <1>3, <1>4, <1>5, <1>6 DEF SetupInv

LEMMA RunStepKeepsInv ==
  ASSUME SetupInv, NEW r \in Runs, L!RunStep(r)
  PROVE  SetupInv'
<1> USE DEF L!Step, L!Waits, L!services
<1>1. mark \in BOOLEAN
  BY DEF SetupInv, SetupTypes, L!TypeOK
<1>2. CASE L!Probe(r)
  BY <1>1, <1>2, GoKeepsInv DEF L!Probe
<1>3. CASE L!CreateTable(r)
  <2>1. L!Go(r, "wait active") /\ UNCHANGED <<dynamodb, queues, redrive, mark>>
    BY <1>3 DEF L!CreateTable
  <2>2. CASE table # "absent"
    BY <1>1, <1>3, <2>2, GoKeepsInv DEF L!CreateTable
  <2>3. CASE table = "absent"
    <3>1. table' = "creating" /\ index' = "creating"
      BY <1>3, <2>3 DEF L!CreateTable
    <3>2. \A s \in Runs : main[s] \notin {"verify", "exit 0"}
      BY <2>3 DEF SetupInv, ActiveInv, L!Active
    <3>3. main'[r] = "wait active" /\ \A s \in Runs \ {r} : main'[s] = main[s]
      BY <2>1, GoKeepsTypes DEF SetupInv
    <3>4. SetupTypes'
      BY <2>1, <3>1, GoKeepsTypes, TimeoutIsInteger DEF SetupInv, SetupTypes, L!TypeOK
    <3>5. ActiveInv' /\ L!ExitZeroMeansReady'
      BY <2>1, <3>2, <3>3 DEF ActiveInv, L!ExitZeroMeansReady
    <3>6. L!RepeatedRunsSucceed'
      BY <2>1, <3>3 DEF SetupInv, L!RepeatedRunsSucceed
    <3> QED
      BY <3>4, <3>5, <3>6 DEF SetupInv
  <2> QED
    BY <2>2, <2>3
<1>4. CASE L!DescribeTable(r)
  BY <1>1, <1>4, GoKeepsInv DEF L!DescribeTable
<1>5. CASE L!VerifyQueues(r)
  <2>1. L!Active
    BY <1>5 DEF L!VerifyQueues, SetupInv, ActiveInv
  <2> QED
    BY <1>1, <1>5, <2>1, GoKeepsInv DEF L!VerifyQueues
<1>6. CASE L!CallFails(r)
  BY <1>6, GoKeepsInv DEF L!CallFails
<1>7. CASE L!TimesOut(r)
  BY <1>7, GoKeepsInv DEF L!TimesOut
<1> QED
  BY <1>2, <1>3, <1>4, <1>5, <1>6, <1>7 DEF L!RunStep

(* Time passes, and services come up; none goes while a run is not at the  *)
(* beginning.                                                              *)
LEMMA SetupStep ==
  ASSUME SetupInv, [L!Next]_(L!vars)
  PROVE  SetupInv'
<1> USE DEF SetupInv, SetupTypes, L!TypeOK, ActiveInv, L!Active, L!ExitZeroMeansReady,
            L!RepeatedRunsSucceed
<1>1. CASE L!Tick
  <2>1. elapsed' \in [Runs -> Nat]
    <3>1. elapsed \in [Runs -> Nat]
      OBVIOUS
    <3> HIDE DEF SetupInv
    <3> QED
      BY <1>1, <3>1 DEF L!Tick
  <2>2. \A r \in Runs : elapsed'[r] > 0 => elapsed'[r] <= L!Timeout
    <3>1. \A r \in Runs : elapsed[r] \in Nat /\ (elapsed[r] > 0 => elapsed[r] <= L!Timeout)
      OBVIOUS
    <3> HIDE DEF SetupInv
    <3> QED
      BY <1>1, <3>1, TimeoutIsInteger DEF L!Tick
  <2>3. UNCHANGED <<dynamodb, queues, redrive, table, index, main, mark>> /\ L!Timeout' = L!Timeout
    BY <1>1 DEF L!Tick, L!services, L!Timeout
  <2> QED
    BY <2>1, <2>2, <2>3
<1>2. CASE L!StartDynamodb
  BY <1>2 DEF L!StartDynamodb, L!Timeout
<1>3. CASE L!StartQueue
  BY <1>3 DEF L!StartQueue, L!Timeout
<1>4. CASE L!Activate
  BY <1>4 DEF L!Activate, L!Timeout
<1>5. CASE L!Restart
  <2>1. \A r \in Runs : main'[r] = "wait dynamodb" /\ elapsed'[r] = 0
    BY <1>5 DEF L!Restart
  <2>2. /\ main' \in [Runs -> L!Step] /\ elapsed' \in [Runs -> Nat]
        /\ \A r \in Runs : elapsed'[r] > 0 => elapsed'[r] <= L!Timeout
    <3>1. main' = [r \in Runs |-> "wait dynamodb"] /\ elapsed' = [r \in Runs |-> 0]
      BY <1>5 DEF L!Restart
    <3>2. \A r \in Runs : elapsed'[r] > 0 => elapsed'[r] <= L!Timeout
      BY <3>1, ClockAtZero, Zenon
    <3> QED
      BY <3>1, <3>2 DEF L!Step, L!Waits
  <2>3. SetupTypes'
    BY <1>5, <2>2 DEF L!Restart, L!services
  <2> QED
    BY <2>1, <2>3
<1>6. CASE UNCHANGED L!vars
  BY <1>6 DEF L!vars, L!Timeout
<1> QED
  BY <1>1, <1>2, <1>3, <1>4, <1>5, <1>6, RunStepKeepsInv DEF L!Next

LEMMA SetupInvariance == L!Spec => []SetupInv
<1>1. L!Init => SetupInv
  <2> SUFFICES ASSUME L!Init PROVE SetupInv
    OBVIOUS
  <2>1. \A r \in Runs : main[r] = "wait dynamodb" /\ elapsed[r] = 0
    BY DEF L!Init
  <2>2. ActiveInv /\ L!ExitZeroMeansReady /\ L!RepeatedRunsSucceed
    BY <2>1 DEF ActiveInv, L!ExitZeroMeansReady, L!RepeatedRunsSucceed
  <2>3. main \in [Runs -> L!Step] /\ elapsed \in [Runs -> Nat]
    BY DEF L!Init, L!Step, L!Waits
  <2>4. \A r \in Runs : elapsed[r] > 0 => elapsed[r] <= L!Timeout
    BY <2>1, <2>3, ClockAtZero, Zenon
  <2>5. SetupTypes
    BY <2>3, <2>4 DEF L!Init, SetupTypes, L!TypeOK
  <2> QED
    BY <2>2, <2>5 DEF SetupInv
<1> QED
  BY <1>1, SetupStep, PTL DEF L!Spec

(* A behaviour of both is one of each: what the other does leaves its      *)
(* variables alone.                                                        *)
LEMMA LocalIsBoth == LocalSpec => Spec /\ L!Spec
<1>1. LocalStart => Init /\ L!Init
  BY DEF LocalStart
<1>2. [LocalNext]_allVars => [Next]_vars /\ [L!Next]_(L!vars)
  BY DEF LocalNext, PollerNext, SetupNext, allVars, setup, L!vars
<1> QED
  BY <1>1, <1>2, PTL DEF LocalSpec, Spec, L!Spec

(* Every variable of the setup keeps its type, and nobody waits beyond the *)
(* timeout.                                                                *)
THEOREM SetupTypeCorrect == L!Spec => []L!TypeOK
<1>1. SetupInv => L!TypeOK
  BY DEF SetupInv, SetupTypes
<1> QED
  BY <1>1, SetupInvariance, PTL

(* The other services start only when everything is there, whichever of    *)
(* the runs created it.                                                    *)
THEOREM ExitZeroIsReady == LocalSpec => []ExitZeroMeansReady
<1>1. SetupInv => ExitZeroMeansReady
  BY DEF SetupInv, ExitZeroMeansReady
<1> QED
  BY <1>1, LocalIsBoth, SetupInvariance, PTL

(* Without a fault outside it, no run ends in an error, however many run.  *)
THEOREM RepetitionIsHarmless == LocalSpec => []RepeatedRunsSucceed
<1>1. SetupInv => RepeatedRunsSucceed
  BY DEF SetupInv, RepeatedRunsSucceed
<1> QED
  BY <1>1, LocalIsBoth, SetupInvariance, PTL

(* After the setup, the event source mapping keeps what EsmPoller promises. *)
THEOREM EmulatorDeletesHandled == LocalSpec => []OnlyHandledDeleted
BY LocalIsBoth, DeletionsAreHandled, PTL
=============================================================================
