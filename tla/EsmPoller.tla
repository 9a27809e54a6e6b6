----------------------------- MODULE EsmPoller -----------------------------
(***************************************************************************)
(* The local event source mapping: a loop that receives a batch, invokes   *)
(* the worker with it and deletes what the response does not report as     *)
(* failed.  The worker may answer oddly, late, or not at all; signals come *)
(* at any time.  NarrativePipeline has the same step of AWS's own mapping. *)
(***************************************************************************)
EXTENDS Integers, FiniteSets

CONSTANTS
  Messages,
  ConfiguredBatch   \* LOCAL_ESM_BATCH_SIZE

ASSUME ConfiguredAssumption == ConfiguredBatch \in Int

VARIABLES
  queue,     \* [Messages -> {"visible", "in flight", "deleted"}]
  handled,   \* the messages the worker has dealt with for good
  busy,      \* the batch the worker is running on
  running,   \* _running
  pc,        \* where the loop is
  batch,     \* messages
  response   \* what the handler returned

vars == <<queue, handled, busy, running, pc, batch, response>>

(* null; something that is no dict; a dict with batchItemFailures missing  *)
(* or null, of another type, with an element that is not as agreed, or as  *)
(* the contract wants it.                                                  *)
Forms    == {"null", "not a dict", "no list", "not a list", "bad element", "list"}
Response == [form : Forms, ids : SUBSET Messages]
NoResponse == [form |-> "null", ids |-> {}]

TypeOK ==
  /\ queue \in [Messages -> {"visible", "in flight", "deleted"}]
  /\ handled \subseteq Messages /\ busy \subseteq Messages /\ batch \subseteq Messages
  /\ running \in BOOLEAN
  /\ pc \in {"check", "receive", "sleep", "invoke", "waiting", "delete", "stopped", "dead"}
  /\ response \in Response /\ response.ids \subseteq batch
  /\ pc \in {"invoke", "waiting", "delete"} <=> batch # {}
  /\ pc = "waiting" => busy = batch

Init ==
  /\ queue = [m \in Messages |-> "visible"] /\ handled = {} /\ busy = {}
  /\ running = TRUE /\ pc = "check" /\ batch = {} /\ response = NoResponse

-----------------------------------------------------------------------------
(* main. *)

(* _handle_signal *)
Signal ==
  /\ running /\ running' = FALSE
  /\ UNCHANGED <<queue, handled, busy, pc, batch, response>>

(* Defect: the flag is not looked at again. *)
LoopForEver ==
  /\ pc = "check" /\ pc' = "receive"
  /\ UNCHANGED <<queue, handled, busy, running, batch, response>>

Check ==
  /\ pc = "check"
  /\ pc' = IF running THEN "receive" ELSE "stopped"
  /\ UNCHANGED <<queue, handled, busy, running, batch, response>>

(* Defect: the value is taken as it is. *)
Unclamped(value, low, high) == value

_clamp(value, low, high) ==
  IF value < low THEN low ELSE IF value > high THEN high ELSE value

BatchSize == _clamp(ConfiguredBatch, 1, 10)

(* SQS answers to a MaxNumberOfMessages of 1 to 10 only. *)
Receive ==
  /\ pc = "receive" /\ BatchSize \in 1..10
  /\ batch' \in SUBSET {m \in Messages : queue[m] = "visible"}
  /\ batch' # {} /\ Cardinality(batch') <= BatchSize
  /\ queue' = [m \in Messages |-> IF m \in batch' THEN "in flight" ELSE queue[m]]
  /\ pc' = "invoke"
  /\ UNCHANGED <<handled, busy, running, response>>

(* The poll came back empty, or failed and is tried again after a while. *)
ReceiveNothing ==
  /\ pc = "receive" /\ pc' \in {"check", "sleep"}
  /\ UNCHANGED <<queue, handled, busy, running, batch, response>>

Sleep ==
  /\ pc = "sleep" /\ pc' = "check"
  /\ UNCHANGED <<queue, handled, busy, running, batch, response>>

-----------------------------------------------------------------------------
(* process_batch. *)

NextBatch == pc' = "check" /\ batch' = {}

(* The runtime emulator has one environment: it takes the event when it is *)
(* free, or the invocation fails.                                          *)
Invoke ==
  /\ pc = "invoke"
  /\ \/ busy = {} /\ busy' = batch /\ pc' = "waiting" /\ UNCHANGED batch
     \/ NextBatch /\ UNCHANGED busy
  /\ UNCHANGED <<queue, handled, running, response>>

(* What the worker reports when it has dealt with the messages in done. *)
Reports(done) ==
  {[form |-> "list", ids |-> batch \ done]}
    \cup {r \in Response : r.ids = {} /\ \/ r.form \in {"null", "no list"} /\ done = batch
                                         \/ r.form \in {"not a dict", "not a list", "bad element"}}

(* The worker returns; the poller, if it still waits, gets the response,   *)
(* an error it catches, or a connection reset, which nothing catches.      *)
WorkerEnds ==
  /\ busy # {} /\ busy' = {}
  /\ \E done \in SUBSET busy :
       /\ handled' = handled \cup done
       /\ IF pc = "waiting"
            THEN \/ response' \in Reports(done) /\ pc' = "delete" /\ UNCHANGED batch
                 \/ NextBatch /\ UNCHANGED response
                 \/ pc' = "dead" /\ batch' = {} /\ UNCHANGED response
            ELSE UNCHANGED <<pc, batch, response>>
  /\ UNCHANGED <<queue, running>>

(* The read timeout: LambdaInvocationError, with the worker still at it. *)
InvokeTimesOut ==
  /\ pc = "waiting" /\ NextBatch
  /\ UNCHANGED <<queue, handled, busy, running, response>>

(* Defect: only well-formed elements count. *)
WellFormedOnly(resp, messages) == IF resp.form = "list" THEN resp.ids ELSE {}

failed_message_ids(resp, messages) ==
  CASE resp.form \in {"null", "no list"} -> {}
    [] resp.form \in {"not a dict", "not a list", "bad element"} -> messages
    [] resp.form = "list" -> resp.ids

(* An error of the call, or of single entries, leaves some of them. *)
DeleteMessages ==
  /\ pc = "delete" /\ NextBatch
  /\ \E gone \in SUBSET (batch \ failed_message_ids(response, batch)) :
       queue' = [m \in Messages |-> IF m \in gone THEN "deleted" ELSE queue[m]]
  /\ response' = NoResponse
  /\ UNCHANGED <<handled, busy, running>>

(* The visibility timeout of a received message runs out. *)
Reappear(m) ==
  /\ queue[m] = "in flight" /\ queue' = [queue EXCEPT ![m] = "visible"]
  /\ UNCHANGED <<handled, busy, running, pc, batch, response>>

Step == Check \/ Receive \/ ReceiveNothing \/ Sleep \/ Invoke \/ InvokeTimesOut \/ DeleteMessages

Next == Signal \/ Step \/ WorkerEnds \/ \E m \in Messages : Reappear(m)

Spec == Init /\ [][Next]_vars

(* The loop runs, timeouts included, and a queue that has messages does    *)
(* not fail or come back empty for ever.  The worker may hang.             *)
FairSpec == Spec /\ WF_vars(Step) /\ SF_vars(Receive)

-----------------------------------------------------------------------------
(* Properties. *)

(* A message is deleted only if the worker is done with it: no odd         *)
(* response, error or late return makes one disappear.                     *)
OnlyHandledDeleted == {m \in Messages : queue[m] = "deleted"} \subseteq handled

(* After a signal the batch in hand is finished and the loop ends, even    *)
(* when the worker hangs.                                                  *)
SignalStopsLoop == ~running ~> pc \in {"stopped", "dead"}

(* Messages waiting are received, for every configured batch size: an      *)
(* impossible one does not leave the loop failing and retrying.            *)
WaitingIsReceived ==
  (\E m \in Messages : queue[m] = "visible") /\ running /\ busy = {}
    ~> batch # {} \/ ~running \/ pc = "dead"
=============================================================================
