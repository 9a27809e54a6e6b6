------------------------------ MODULE LocalInit ------------------------------
(***************************************************************************)
(* The job that prepares the local table and checks the queues before the  *)
(* other services start: it waits for two services that are still coming   *)
(* up, creates the table, waits again, and exits with a code the services  *)
(* depend on.  Two of them may run at once (started by hand and by         *)
(* compose), and again after the services were stopped.                    *)
(***************************************************************************)
EXTENDS Integers

CONSTANTS
  Runs,         \* the jobs running at the same time
  RawTimeout,   \* in Int \cup {Unusable}: the text of LOCAL_INIT_TIMEOUT_SECONDS, or its number
  Unusable,     \* a text that is unset, blank or no number
  DefaultTimeout  \* in Nat

VARIABLES
  dynamodb,  \* does DynamoDB answer?
  queues,    \* the queues that answer, "main" and "dlq"
  redrive,   \* has the main queue a RedrivePolicy?
  table,     \* the table's status
  index,     \* the GSI's status
  pc,        \* [Runs -> Step]: where main is
  elapsed,   \* [Runs -> Nat]: seconds since the current wait began
  mark       \* did a service answer late or a call fail in this round?

vars == <<dynamodb, queues, redrive, table, index, pc, elapsed, mark>>

Waits == {"wait dynamodb", "wait sqs", "wait active"}
Step  == Waits \cup {"create", "verify", "exit 0", "exit 1"}

env_int(raw, default) == IF raw = Unusable THEN default ELSE raw

Timeout == env_int(RawTimeout, DefaultTimeout)

TypeOK ==
  /\ dynamodb \in BOOLEAN /\ redrive \in BOOLEAN /\ mark \in BOOLEAN
  /\ queues \subseteq {"main", "dlq"}
  /\ {table, index} \subseteq {"absent", "creating", "active"}
  /\ pc \in [Runs -> Step]
  /\ \A r \in Runs : elapsed[r] \in Nat /\ (elapsed[r] > 0 => elapsed[r] <= Timeout)

Init ==
  /\ dynamodb = FALSE /\ queues = {} /\ redrive \in BOOLEAN
  /\ table = "absent" /\ index = "absent" /\ mark = FALSE
  /\ pc = [r \in Runs |-> "wait dynamodb"] /\ elapsed = [r \in Runs |-> 0]

services == <<dynamodb, queues, redrive, table, index>>

-----------------------------------------------------------------------------
(* main. *)

Go(r, step) == pc' = [pc EXCEPT ![r] = step] /\ elapsed' = [elapsed EXCEPT ![r] = 0]

Answers(step) == \/ step = "wait dynamodb" /\ dynamodb
                 \/ step = "wait sqs" /\ "main" \in queues

(* wait_until_ready: a probe that succeeds before the deadline ends it; an *)
(* error is tried again a second later, which is Tick.                     *)
Probe(r) ==
  /\ pc[r] \in {"wait dynamodb", "wait sqs"} /\ elapsed[r] < Timeout
  /\ Answers(pc[r])
  /\ Go(r, IF pc[r] = "wait dynamodb" THEN "wait sqs" ELSE "create")
  /\ UNCHANGED <<services, mark>>

(* Defect: a table that exists is an error. *)
CreateOnce(r) ==
  /\ pc[r] = "create"
  /\ IF table = "absent"
       THEN table' = "creating" /\ index' = "creating" /\ Go(r, "wait active")
       ELSE UNCHANGED <<table, index>> /\ Go(r, "exit 1")
  /\ UNCHANGED <<dynamodb, queues, redrive, mark>>

(* create_table: a table that exists (ResourceInUse) will do. *)
CreateTable(r) ==
  /\ pc[r] = "create"
  /\ IF table = "absent" THEN table' = "creating" /\ index' = "creating"
                         ELSE UNCHANGED <<table, index>>
  /\ Go(r, "wait active")
  /\ UNCHANGED <<dynamodb, queues, redrive, mark>>

(* Defect: the indexes are not looked at. *)
TableActive == table = "active"

Active == table = "active" /\ index = "active"

(* wait_for_table_active *)
DescribeTable(r) ==
  /\ pc[r] = "wait active" /\ elapsed[r] < Timeout
  /\ Active
  /\ Go(r, "verify")
  /\ UNCHANGED <<services, mark>>

(* verify_queues: both have to exist, the main one with its redrive.  Only *)
(* the main one was waited for.                                            *)
VerifyQueues(r) ==
  /\ pc[r] = "verify"
  /\ Go(r, IF queues = {"main", "dlq"} /\ redrive THEN "exit 0" ELSE "exit 1")
  /\ mark' = (mark \/ queues # {"main", "dlq"})
  /\ UNCHANGED services

(* A call that is not tried again fails: the job ends. *)
CallFails(r) ==
  /\ pc[r] \in {"create", "wait active", "verify"}
  /\ Go(r, "exit 1") /\ mark' = TRUE
  /\ UNCHANGED services

(* Defect: the deadline is moved on. *)
WaitAgain(r) ==
  /\ pc[r] \in Waits /\ elapsed[r] >= Timeout
  /\ Go(r, pc[r])
  /\ UNCHANGED <<services, mark>>

(* TimeoutError *)
TimesOut(r) ==
  /\ pc[r] \in Waits /\ elapsed[r] >= Timeout
  /\ Go(r, "exit 1") /\ mark' = TRUE
  /\ UNCHANGED services

(* A second passes for the runs that wait. *)
Tick ==
  /\ \E r \in Runs : pc[r] \in Waits /\ elapsed[r] < Timeout
  /\ elapsed' = [r \in Runs |->
       IF pc[r] \in Waits /\ elapsed[r] < Timeout THEN elapsed[r] + 1 ELSE elapsed[r]]
  /\ UNCHANGED <<services, pc, mark>>

-----------------------------------------------------------------------------
(* The services. *)

StartDynamodb ==
  /\ ~dynamodb /\ dynamodb' = TRUE
  /\ UNCHANGED <<queues, redrive, table, index, pc, elapsed, mark>>

(* ElasticMQ declares its queues one after the other. *)
StartQueue ==
  /\ \E q \in {"main", "dlq"} \ queues : queues' = queues \cup {q}
  /\ UNCHANGED <<dynamodb, redrive, table, index, pc, elapsed, mark>>

Activate ==
  /\ \/ table = "creating" /\ table' = "active" /\ UNCHANGED index
     \/ index = "creating" /\ index' = "active" /\ UNCHANGED table
  /\ UNCHANGED <<dynamodb, queues, redrive, pc, elapsed, mark>>

(* Everything is stopped and started again: DynamoDB Local keeps its       *)
(* tables in memory; or the job alone is run again.                        *)
Restart ==
  /\ \A r \in Runs : pc[r] \in {"exit 0", "exit 1"}
  /\ pc' = [r \in Runs |-> "wait dynamodb"] /\ elapsed' = [r \in Runs |-> 0] /\ mark' = FALSE
  /\ \/ UNCHANGED services
     \/ /\ dynamodb' = FALSE /\ queues' = {} /\ table' = "absent" /\ index' = "absent"
        /\ UNCHANGED redrive

RunStep(r) == Probe(r) \/ CreateTable(r) \/ DescribeTable(r) \/ VerifyQueues(r)
                \/ CallFails(r) \/ TimesOut(r)

Next == \/ \E r \in Runs : RunStep(r)
        \/ Tick \/ StartDynamodb \/ StartQueue \/ Activate \/ Restart

Spec == Init /\ [][Next]_vars

(* Time passes and the job runs; no service is sure to start. *)
FairSpec == Spec /\ WF_vars(Tick) /\ \A r \in Runs : WF_vars(RunStep(r))

-----------------------------------------------------------------------------
(* Properties. *)

(* Exit code 0, which starts the other services, means that the table, its *)
(* index, both queues and the redrive are there, whoever created them.     *)
ExitZeroMeansReady ==
  (\E r \in Runs : pc[r] = "exit 0") =>
     table = "active" /\ index = "active" /\ queues = {"main", "dlq"} /\ redrive

(* Run any number of times, side by side or again, the job does no harm    *)
(* (module docstring): unless a service was late, a call failed or the     *)
(* queues are set up wrongly, no run ends in an error.                     *)
RepeatedRunsSucceed ==
  (\E r \in Runs : pc[r] = "exit 1") => mark \/ ~redrive

(* Whatever does not start, every run ends. *)
EveryRunEnds == \A r \in Runs : pc[r] = "wait dynamodb" ~> pc[r] \in {"exit 0", "exit 1"}
=============================================================================
