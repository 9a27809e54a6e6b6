-------------------------- MODULE NarrativePipeline --------------------------
(***************************************************************************)
(* The asynchronous conversion pipeline: the API that records a job and    *)
(* enqueues it, the SQS queue with its visibility timeout and dead letter  *)
(* queue, the event source mapping that feeds batches to worker            *)
(* invocations, and the worker that leases the record, generates a story   *)
(* and records the outcome.                                                *)
(*                                                                         *)
(* Time is counted in ticks.  The clocks are relative (age of a lease,     *)
(* remaining invisibility of a message, running time of an invocation), so *)
(* the state space is finite without a bound on time.                      *)
(***************************************************************************)
EXTENDS Integers, FiniteSets

CONSTANTS
  Jobs,            \* jobs submitted through the API
  Orphans,         \* messages naming a job that has no record
  Garbage,         \* messages whose body is not JSON
  Workers,         \* concurrent invocations (scaling_config.maximum_concurrency)
  None,            \* no message in hand
  BatchSize,       \* batch_size of the event source mapping
  LambdaTimeout,   \* longest run of one invocation
  Lease,           \* PROCESSING_LEASE_SECONDS
  Visibility,      \* visibility_timeout_seconds
  MaxReceive,      \* maxReceiveCount of the redrive policy
  MaxDup,          \* BOUND on deliveries SQS makes beyond its visibility promise
  RetryMasksClaim  \* may an SDK retry see the claim its lost first try wrote?

Messages == Jobs \cup Orphans \cup Garbage

ASSUME PipelineAssumption ==
  /\ Jobs \cap Orphans = {} /\ Jobs \cap Garbage = {} /\ Orphans \cap Garbage = {}
  /\ None \notin Messages \cup Workers
  /\ BatchSize \in Nat \ {0} /\ MaxReceive \in Nat \ {0} /\ MaxDup \in Nat
  /\ LambdaTimeout \in Nat \ {0} /\ Lease \in Nat \ {0} /\ Visibility \in Nat \ {0}
  /\ RetryMasksClaim \in BOOLEAN

VARIABLES
  api,       \* [Jobs -> ApiState]: the POST /narratives request of each job
  status,    \* [Messages -> Status]: the record's status ("absent": no record)
  age,       \* [Messages -> 0..Lease+1]: ticks since updated_at of a processing record
  queue,     \* [Messages -> QueueState]: where the message is
  hidden,    \* [Messages -> 0..Visibility]: ticks until the message is visible
  received,  \* [Messages -> 0..MaxReceive]: ApproximateReceiveCount
  dups,      \* extra deliveries made so far
  pc,        \* [Workers -> Phase]: where the invocation is
  batch,     \* [Workers -> SUBSET Messages]: the records of the event
  todo,      \* [Workers -> SUBSET Messages]: records Handle has not reached yet
  failures,  \* [Workers -> SUBSET Messages]: resp.BatchItemFailures
  cur,       \* [Workers -> Messages \cup {None}]: the record in Process
  clock      \* [Workers -> 0..LambdaTimeout]: running time of the invocation

recordVars == <<status, age>>
sqsVars    == <<queue, hidden, received, dups>>
workerVars == <<pc, batch, todo, failures, cur, clock>>
vars       == <<api, recordVars, sqsVars, workerVars>>

Terminal   == {"completed", "failed"}
Status     == {"absent", "queued", "processing"} \cup Terminal
ApiState   == {"idle", "put", "send", "202", "400", "5xx"}
QueueState == {"unsent", "present", "deleted", "dlq"}
Phase      == {"idle", "handle", "claim", "fetch", "generate", "complete", "fail"}

(* Phases in which Process has claimed the record and may still write it.  *)
Owning == {"fetch", "generate", "complete", "fail"}

TypeOK ==
  /\ api \in [Jobs -> ApiState]
  /\ status \in [Messages -> Status]
  /\ age \in [Messages -> 0..(Lease + 1)]
  /\ queue \in [Messages -> QueueState]
  /\ hidden \in [Messages -> 0..Visibility]
  /\ received \in [Messages -> 0..MaxReceive]
  /\ dups \in 0..MaxDup
  /\ pc \in [Workers -> Phase]
  /\ batch \in [Workers -> SUBSET Messages]
  /\ todo \in [Workers -> SUBSET Messages]
  /\ failures \in [Workers -> SUBSET Messages]
  /\ cur \in [Workers -> Messages \cup {None}]
  /\ clock \in [Workers -> 0..LambdaTimeout]

Init ==
  /\ api = [j \in Jobs |-> "idle"]
  /\ status = [m \in Messages |-> "absent"]
  /\ age = [m \in Messages |-> 0]
  /\ queue = [m \in Messages |-> "unsent"]
  /\ hidden = [m \in Messages |-> 0]
  /\ received = [m \in Messages |-> 0]
  /\ dups = 0
  /\ pc = [w \in Workers |-> "idle"]
  /\ batch = [w \in Workers |-> {}]
  /\ todo = [w \in Workers |-> {}]
  /\ failures = [w \in Workers |-> {}]
  /\ cur = [w \in Workers |-> None]
  /\ clock = [w \in Workers |-> 0]

-----------------------------------------------------------------------------
(* API: POST /narratives.  A request that dies between two of its calls    *)
(* looks like one whose next call failed without effect; a client error    *)
(* reported for a call that took effect leaves the effect in place.        *)

(* validate_repo_url and validate_model_id accept or reject the request. *)
Submit(j) ==
  /\ api[j] = "idle"
  /\ \E next \in {"put", "400"} : api' = [api EXCEPT ![j] = next]
  /\ UNCHANGED <<recordVars, sqsVars, workerVars>>

(* put_item with attribute_not_exists(job_id). *)
PutInitialRecord(j) ==
  /\ api[j] = "put"
  /\ \/ /\ status[j] = "absent"
        /\ status' = [status EXCEPT ![j] = "queued"]
        /\ \E next \in {"send", "5xx"} : api' = [api EXCEPT ![j] = next]
     \/ /\ api' = [api EXCEPT ![j] = "5xx"]
        /\ UNCHANGED status
  /\ UNCHANGED <<age, sqsVars, workerVars>>

(* send_message, then the 202 response. *)
EnqueueJob(j) ==
  /\ api[j] = "send"
  /\ \/ /\ queue' = [queue EXCEPT ![j] = "present"]
        /\ \E next \in {"202", "5xx"} : api' = [api EXCEPT ![j] = next]
     \/ /\ api' = [api EXCEPT ![j] = "5xx"]
        /\ UNCHANGED queue
  /\ UNCHANGED <<recordVars, hidden, received, dups, workerVars>>

(* A message that no API request stands behind. *)
InjectMessage(m) ==
  /\ queue[m] = "unsent"
  /\ queue' = [queue EXCEPT ![m] = "present"]
  /\ UNCHANGED <<api, recordVars, hidden, received, dups, workerVars>>

-----------------------------------------------------------------------------
(* SQS and the event source mapping. *)

Visible(m) == queue[m] = "present" /\ hidden[m] = 0

(* At-least-once delivery: a message in flight, or one already deleted, is *)
(* handed out again by a replica that missed the update.                   *)
Resurface(m) ==
  /\ dups < MaxDup
  /\ queue[m] = "deleted" \/ (queue[m] = "present" /\ hidden[m] > 0)
  /\ queue' = [queue EXCEPT ![m] = "present"]
  /\ hidden' = [hidden EXCEPT ![m] = 0]
  /\ dups' = dups + 1
  /\ UNCHANGED <<api, recordVars, received, workerVars>>

(* The redrive policy: received maxReceiveCount times without a delete. *)
DeadLetter(m) ==
  /\ Visible(m)
  /\ received[m] >= MaxReceive
  /\ queue' = [queue EXCEPT ![m] = "dlq"]
  /\ UNCHANGED <<api, recordVars, hidden, received, dups, workerVars>>

(* Defect: the redrive policy is left out. *)
ReceivableForEver(m) == Visible(m)

Receivable(m) == Visible(m) /\ received[m] < MaxReceive

(* receive_message, and an invocation started with what it returned. *)
Receive(w, msgs) ==
  /\ pc[w] = "idle"
  /\ msgs # {} /\ Cardinality(msgs) <= BatchSize
  /\ \A m \in msgs : Receivable(m)
  /\ hidden' = [m \in Messages |-> IF m \in msgs THEN Visibility ELSE hidden[m]]
  /\ received' = [m \in Messages |-> IF m \in msgs THEN received[m] + 1 ELSE received[m]]
  /\ pc' = [pc EXCEPT ![w] = "handle"]
  /\ batch' = [batch EXCEPT ![w] = msgs]
  /\ todo' = [todo EXCEPT ![w] = msgs]
  /\ UNCHANGED <<api, recordVars, queue, dups, failures, cur, clock>>

(* The invocation is over: its slot is free for the next batch. *)
Release(w) ==
  /\ pc' = [pc EXCEPT ![w] = "idle"]
  /\ batch' = [batch EXCEPT ![w] = {}]
  /\ todo' = [todo EXCEPT ![w] = {}]
  /\ failures' = [failures EXCEPT ![w] = {}]
  /\ cur' = [cur EXCEPT ![w] = None]
  /\ clock' = [clock EXCEPT ![w] = 0]

(* Handle returned: every record it did not report is deleted, except      *)
(* those whose delete fails.  Stale receipt handles behave the same way.   *)
DeleteMessages(w) ==
  /\ pc[w] = "handle"
  /\ todo[w] = {}
  /\ \E gone \in SUBSET (batch[w] \ failures[w]) :
       /\ queue' = [m \in Messages |->
                      IF m \in gone /\ queue[m] = "present" THEN "deleted" ELSE queue[m]]
       /\ hidden' = [m \in Messages |-> IF m \in gone THEN 0 ELSE hidden[m]]
  /\ Release(w)
  /\ UNCHANGED <<api, recordVars, received, dups>>

(* Defect: a failed batch is made visible again at once. *)
KillMakesVisible(w) ==
  /\ pc[w] # "idle"
  /\ hidden' = [m \in Messages |-> IF m \in batch[w] THEN 0 ELSE hidden[m]]
  /\ Release(w)
  /\ UNCHANGED <<api, recordVars, queue, received, dups>>

(* The invocation crashes or reaches the function timeout: nothing is      *)
(* deleted and the whole batch waits for its visibility timeout.           *)
Kill(w) ==
  /\ pc[w] # "idle"
  /\ Release(w)
  /\ UNCHANGED <<api, recordVars, sqsVars>>

-----------------------------------------------------------------------------
(* Worker: Handle takes the records one at a time, Process runs one.       *)

HandleRecord(w, m) ==
  /\ pc[w] = "handle"
  /\ m \in todo[w]
  /\ todo' = [todo EXCEPT ![w] = @ \ {m}]
  /\ IF m \in Garbage
       THEN UNCHANGED <<pc, cur>>
       ELSE pc' = [pc EXCEPT ![w] = "claim"] /\ cur' = [cur EXCEPT ![w] = m]
  /\ UNCHANGED <<api, recordVars, sqsVars, batch, failures, clock>>

(* Process moves on to its next step. *)
Proceed(w, phase) ==
  /\ pc' = [pc EXCEPT ![w] = phase]
  /\ UNCHANGED <<batch, todo, failures, cur, clock>>

(* Defect: Handle logs the error and does not report the record. *)
ErrorNotReported(w, report) ==
  /\ pc' = [pc EXCEPT ![w] = "handle"]
  /\ cur' = [cur EXCEPT ![w] = None]
  /\ UNCHANGED <<batch, todo, failures, clock>>

(* Process returns to Handle, with an error (report it) or without. *)
ProcessReturns(w, report) ==
  /\ pc' = [pc EXCEPT ![w] = "handle"]
  /\ cur' = [cur EXCEPT ![w] = None]
  /\ failures' = [failures EXCEPT ![w] = @ \cup (IF report THEN {cur[w]} ELSE {})]
  /\ UNCHANGED <<batch, todo, clock>>

(* Defect: updated_at is not written with the status. *)
SetStatusOnly(m, s) ==
  /\ status' = [status EXCEPT ![m] = s]
  /\ UNCHANGED age

(* UpdateItem on the record, stamping updated_at. *)
SetStatus(m, s) ==
  /\ status' = [status EXCEPT ![m] = s]
  /\ age' = [age EXCEPT ![m] = 0]

(* Defects: the cutoff compared with <=; the lease forgotten. *)
ClaimableAtCutoff(m) == status[m] = "queued" \/ (status[m] = "processing" /\ age[m] >= Lease)
ClaimableQueuedOnly(m) == status[m] = "queued"

(* The condition of the claim: queued, or processing with updated_at       *)
(* strictly before the cutoff.                                             *)
Claimable(m) == status[m] = "queued" \/ (status[m] = "processing" /\ age[m] > Lease)

(* The conditional update succeeds. *)
Acquire(w) ==
  /\ Claimable(cur[w])
  /\ SetStatus(cur[w], "processing")
  /\ Proceed(w, "fetch")

(* Defect: a missing record is skipped like a busy one. *)
MissingSkipped(w) ==
  /\ status[cur[w]] = "absent"
  /\ ProcessReturns(w, FALSE)
  /\ UNCHANGED recordVars

(* ErrRecordNotFound: redelivered. *)
RecordMissing(w) ==
  /\ status[cur[w]] = "absent"
  /\ ProcessReturns(w, TRUE)
  /\ UNCHANGED recordVars

(* Defect: the rejected claim is taken for a successful one. *)
BusyProcessed(w) ==
  /\ status[cur[w]] # "absent" /\ ~Claimable(cur[w])
  /\ Proceed(w, "fetch")
  /\ UNCHANGED recordVars

(* ErrAlreadyProcessing: a live lease or a finished job, skipped. *)
AlreadyProcessing(w) ==
  /\ status[cur[w]] # "absent" /\ ~Claimable(cur[w])
  /\ ProcessReturns(w, FALSE)
  /\ UNCHANGED recordVars

(* The update reports another error, whether or not it took effect. *)
ClaimFails(w) ==
  /\ UNCHANGED recordVars \/ (Claimable(cur[w]) /\ SetStatus(cur[w], "processing"))
  /\ ProcessReturns(w, TRUE)

(* The answer to the update is lost and the SDK's retry, meeting the claim *)
(* just written, reports ErrAlreadyProcessing.                             *)
ClaimMasked(w) ==
  /\ RetryMasksClaim
  /\ Claimable(cur[w])
  /\ SetStatus(cur[w], "processing")
  /\ ProcessReturns(w, FALSE)

MarkProcessing(w) ==
  /\ pc[w] = "claim"
  /\ \/ Acquire(w) \/ RecordMissing(w) \/ AlreadyProcessing(w)
     \/ ClaimFails(w) \/ ClaimMasked(w)
  /\ UNCHANGED <<api, sqsVars>>

(* Steps 2 to 8: nothing outside the invocation changes.  A permanent      *)
(* error goes on to record failed, a transient one asks for redelivery.    *)
PrepareMaterial(w) ==
  /\ pc[w] = "fetch"
  /\ Proceed(w, "generate") \/ Proceed(w, "fail") \/ ProcessReturns(w, TRUE)
  /\ UNCHANGED <<api, recordVars, sqsVars>>

Generate(w) ==
  /\ pc[w] = "generate"
  /\ Proceed(w, "complete") \/ Proceed(w, "fail") \/ ProcessReturns(w, TRUE)
  /\ UNCHANGED <<api, recordVars, sqsVars>>

(* The two unconditional writes of an outcome.  When the write reports an  *)
(* error the message is redelivered, whether or not it took effect.        *)
WriteOutcome(w, outcome) ==
  /\ \/ SetStatus(cur[w], outcome) /\ \E report \in BOOLEAN : ProcessReturns(w, report)
     \/ UNCHANGED recordVars /\ ProcessReturns(w, TRUE)
  /\ UNCHANGED <<api, sqsVars>>

MarkCompleted(w) == pc[w] = "complete" /\ WriteOutcome(w, "completed")
MarkFailed(w)    == pc[w] = "fail" /\ WriteOutcome(w, "failed")

-----------------------------------------------------------------------------
(* One tick passes everywhere; no invocation outlives its timeout. *)
Tick ==
  /\ \A w \in Workers : pc[w] # "idle" => clock[w] < LambdaTimeout
  /\ clock' = [w \in Workers |-> IF pc[w] = "idle" THEN 0 ELSE clock[w] + 1]
  /\ age' = [m \in Messages |->
               IF status[m] = "processing" /\ age[m] <= Lease THEN age[m] + 1 ELSE age[m]]
  /\ hidden' = [m \in Messages |-> IF hidden[m] > 0 THEN hidden[m] - 1 ELSE 0]
  /\ UNCHANGED <<api, status, queue, received, dups, pc, batch, todo, failures, cur>>

ApiStep(j) == Submit(j) \/ PutInitialRecord(j) \/ EnqueueJob(j)

SqsStep(m) == Resurface(m) \/ DeadLetter(m)

WorkerStep(w) ==
  \/ \E msgs \in SUBSET Messages : Receive(w, msgs)
  \/ \E m \in Messages : HandleRecord(w, m)
  \/ MarkProcessing(w)
  \/ PrepareMaterial(w)
  \/ Generate(w)
  \/ MarkCompleted(w)
  \/ MarkFailed(w)
  \/ DeleteMessages(w)
  \/ Kill(w)

Next ==
  \/ \E j \in Jobs : ApiStep(j)
  \/ \E m \in Orphans \cup Garbage : InjectMessage(m)
  \/ \E m \in Messages : SqsStep(m)
  \/ \E w \in Workers : WorkerStep(w)
  \/ Tick

Spec == Init /\ [][Next]_vars

(* What AWS does on its own: time passes, an invocation at its timeout is  *)
(* stopped, the mapping keeps polling and the redrive policy is applied.   *)
(* Nothing is assumed about the worker's own steps.                        *)
Timeout(w) == clock[w] = LambdaTimeout /\ Kill(w)
Poll(m) == \E w \in Workers, msgs \in SUBSET Messages : m \in msgs /\ Receive(w, msgs)

Fairness ==
  /\ WF_vars(Tick)
  /\ \A w \in Workers : WF_vars(Timeout(w))
  /\ \A m \in Messages : WF_vars(Poll(m)) /\ WF_vars(DeadLetter(m))

FairSpec == Spec /\ Fairness

-----------------------------------------------------------------------------
(* Properties. *)

(* An invocation owns a job from its successful claim until Process        *)
(* returns: in those phases it may still generate and write an outcome.    *)
Owns(w, m) == pc[w] \in Owning /\ cur[w] = m

(* Two invocations never work on the same job at once, even when SQS       *)
(* delivers its message twice: the conditional update of MarkProcessing    *)
(* and the lease keep the second one out.                                  *)
SingleOwner ==
  \A v, w \in Workers : pc[v] \in Owning /\ pc[w] \in Owning /\ cur[v] = cur[w] => v = w

(* An owner's lease outlives it: while it may still write, the record is   *)
(* processing under a lease younger than the invocation, so nobody else    *)
(* can claim it.                                                           *)
OwnerHoldsLease ==
  \A w \in Workers :
    pc[w] \in Owning => /\ status[cur[w]] = "processing"
                        /\ age[cur[w]] <= clock[w]
                        /\ ~Claimable(cur[w])

(* MarkCompleted and MarkFailed are unconditional, yet a job that reached  *)
(* completed or failed never changes again.                                *)
TerminalIsFinal ==
  [][\A m \in Messages : status[m] \in Terminal => status'[m] = status[m]]_vars

(* A record takes one step at a time, from queued to processing to an      *)
(* outcome, and never back: what the page takes for granted when it reads  *)
(* a record that is one update old (ResultPolling, Accept and Work).       *)
Advances == {<<"absent", "queued">>, <<"queued", "processing">>}
              \cup {"processing"} \X Terminal

RecordAdvances ==
  [][\A m \in Messages : status'[m] # status[m] => <<status[m], status'[m]>> \in Advances]_vars

(* The API records before it enqueues, so a delivered message of the API   *)
(* never meets ErrRecordNotFound.                                          *)
RecordPrecedesMessage ==
  \A j \in Jobs : queue[j] # "unsent" => status[j] # "absent"

(* A message that names no record is never deleted as if it were handled:  *)
(* MarkProcessing tells a missing record from a busy one.                  *)
OrphansAreKept == \A o \in Orphans : queue[o] # "deleted"

(* A message is given up only for a job that reached its outcome; until    *)
(* then it is in the queue or in the dead letter queue.                    *)
NoLostJob ==
  \A j \in Jobs : queue[j] = "deleted" => status[j] \in Terminal

(* A job is never left unfinished with nobody working on it and its        *)
(* message deleted: nothing would ever take it up again, which is the loss *)
(* the lease of MarkProcessing is there to prevent.                        *)
NoStrandedJob ==
  \A j \in Jobs :
    queue[j] = "deleted" => status[j] \in Terminal \/ \E w \in Workers : Owns(w, j)

(* A redelivery never finds the lease of the attempt before it still       *)
(* running: the visibility timeout covers a whole run and a lease.         *)
RedeliveryOutlivesLease ==
  \A w \in Workers :
    pc[w] = "claim" /\ status[cur[w]] = "processing" => age[cur[w]] > Lease

(* A job answered with 202, or enqueued by a request that then failed, ends *)
(* completed or failed, or its message reaches the dead letter queue.      *)
AcceptedJobSettles ==
  \A j \in Jobs : (api[j] = "202" \/ queue[j] = "present")
                     ~> (status[j] \in Terminal \/ queue[j] = "dlq")

(* A message without a record is made visible: it reaches the dead letter  *)
(* queue instead of being redelivered for ever.                            *)
OrphanReachesDlq ==
  \A o \in Orphans : queue[o] = "present" ~> queue[o] = "dlq"

(* The pipeline keeps the job table's promise. *)
Owner == [j \in Jobs |->
            IF \E w \in Workers : Owns(w, j) THEN CHOOSE w \in Workers : Owns(w, j) ELSE None]

Lifecycle == INSTANCE JobLifecycle WITH status <- [j \in Jobs |-> status[j]], owner <- Owner

(* Every step on the records is a step of JobLifecycle: created once, one  *)
(* owner at a time, outcomes written by the owner only and only once.      *)
ImplementsLifecycle == Lifecycle!Spec
=============================================================================
