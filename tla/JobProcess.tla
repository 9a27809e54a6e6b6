----------------------------- MODULE JobProcess -----------------------------
(***************************************************************************)
(* One job in the worker's Process, delivery after delivery: the stages    *)
(* after the claim, the errors each can meet, which of them are recorded   *)
(* as failed and which are handed back to SQS, and the invocation's        *)
(* deadline, which is the only limit on the tarball download.              *)
(* NarrativePipeline has the claim, the lease and the redelivery.          *)
(***************************************************************************)
EXTENDS Naturals, Sequences

CONSTANT MaxAttempts   \* BOUND: deliveries whose claim succeeds

ASSUME AttemptsAssumption == MaxAttempts \in Nat \ {0}

VARIABLES
  pc,        \* Stage: the step of Process about to run
  cause,     \* the error that ended this attempt, and the stage that met it
  reply,     \* what Process answered for the last attempt
  status,    \* the record's status
  message,   \* the record's error_message, as the error it tells of
  sent,      \* the outcome's UpdateItem, while it is neither applied nor lost
  expired,   \* has the context's deadline passed?
  open,      \* is the tarball's body open?
  dirs,      \* the attempts with a directory in this environment's /tmp
  deferred,  \* the calls Process has deferred, the last one first
  attempts,  \* attempts begun
  killed     \* the attempts that were stopped

held   == <<open, dirs, deferred, killed>>   \* what an attempt holds or leaves
record == <<status, message, sent>>          \* the record, and what is to change it
vars   == <<pc, cause, reply, record, expired, held, attempts>>

Stage == {"idle", "parse", "model", "tarball", "tmpdir", "untar", "commits",
          "select", "generate", "complete", "fail", "writing", "return"}
Reply == {"none", "ack", "redeliver", "killed"}

(* The errors of each stage, as far as anyone tells them apart. *)
GitHubErrors  == {"4xx", "5xx", "network"}
ArchiveErrors == {"too large", "corrupt", "bad path"}
BedrockErrors == {"ResourceNotFound", "Validation", "AccessDenied", "EmptyResponse",
                  "Throttling", "ServiceUnavailable", "ModelNotReady", "ModelTimeout",
                  "InternalServer", "unknown"}
Errors == GitHubErrors \cup ArchiveErrors \cup BedrockErrors
            \cup {"bad url", "bad model", "disk", "deadline", "write"}

NoCause == [stage |-> "idle", error |-> "none"]

(* Errors that trying again cannot mend, and those it can. *)
Lasting == {"bad url", "bad model", "4xx", "ResourceNotFound", "Validation",
            "AccessDenied", "EmptyResponse"} \cup ArchiveErrors
Passing == Errors \ Lasting

Causes  == [stage : Stage, error : Errors] \cup {NoCause}
Request == [outcome : {"completed", "failed"}, cause : Causes]
NoRequest == [outcome |-> "none", cause |-> NoCause]

TypeOK ==
  /\ pc \in Stage /\ cause \in Causes /\ reply \in Reply
  /\ status \in {"processing", "completed", "failed"}
  /\ message \in Causes /\ sent \in Request \cup {NoRequest}
  /\ expired \in BOOLEAN /\ open \in BOOLEAN
  /\ deferred \in {<<>>, <<"Close">>, <<"RemoveAll", "Close">>}
  /\ attempts \in 0..MaxAttempts
  /\ dirs \subseteq 1..attempts /\ killed \subseteq 1..attempts

Init ==
  /\ pc = "idle" /\ cause = NoCause /\ reply = "none"
  /\ status = "processing" /\ message = NoCause /\ sent = NoRequest
  /\ expired = FALSE /\ open = FALSE /\ dirs = {} /\ deferred = <<>>
  /\ attempts = 0 /\ killed = {}

-----------------------------------------------------------------------------
(* The ways a stage can end. *)

Proceed(stage) ==
  /\ pc' = stage
  /\ UNCHANGED <<cause, reply, record, expired, held, attempts>>

(* The error becomes the record's error_message: go and record failed. *)
Fail(e) ==
  /\ cause' = [stage |-> pc, error |-> e]
  /\ pc' = "fail"
  /\ UNCHANGED <<reply, record, expired, held, attempts>>

(* A return: what Process has deferred by then is still to run, with none  *)
(* deferred the answer is Handle's at once.                                *)
Return(answer) ==
  /\ reply' = answer
  /\ pc' = IF deferred = <<>> THEN "idle" ELSE "return"
  /\ UNCHANGED <<record, expired, held, attempts>>

(* Defect: the error is logged and nil returned. *)
Swallow(e) ==
  /\ cause' = [stage |-> pc, error |-> e]
  /\ Return("ack")

(* The error goes back to Handle, which reports the message as failed. *)
Redeliver(e) ==
  /\ cause' = [stage |-> pc, error |-> e]
  /\ Return("redeliver")

(* A call that carries the context cannot succeed after its deadline. *)
CallErrors(errors) == IF expired THEN {"deadline"} ELSE errors

-----------------------------------------------------------------------------
(* Delivered, and the claim succeeded: in the environment of the attempt   *)
(* before or in a fresh one, whose /tmp is empty.  The lease has run out,  *)
(* so that an update sent by an earlier attempt is applied or lost by now. *)
Begin ==
  /\ pc = "idle" /\ reply # "ack" /\ status = "processing" /\ sent = NoRequest
  /\ attempts < MaxAttempts
  /\ attempts' = attempts + 1
  /\ pc' = "parse" /\ cause' = NoCause /\ reply' = "none" /\ expired' = FALSE
  /\ dirs' \in {dirs, {}}
  /\ UNCHANGED <<record, open, deferred, killed>>

ParseRepoURL    == pc = "parse" /\ (Proceed("model") \/ Fail("bad url"))
ValidateModelID == pc = "model" /\ (Proceed("tarball") \/ Fail("bad model"))

(* Defect: any HTTP status is final. *)
AnyStatusIsPermanent(e) == e \in {"4xx", "5xx"}

GitHubIsPermanent(e) == e = "4xx"

FetchTarball ==
  /\ pc = "tarball"
  /\ \/ /\ ~expired
        /\ open' = TRUE /\ deferred' = <<"Close">> \o deferred /\ pc' = "tmpdir"
        /\ UNCHANGED <<cause, reply, record, expired, dirs, killed, attempts>>
     \/ \E e \in CallErrors(GitHubErrors) :
          IF GitHubIsPermanent(e) THEN Fail(e) ELSE Redeliver(e)

(* Defect: the directory is removed at the end of Process, not deferred. *)
MkdirUndeferred ==
  /\ pc = "tmpdir"
  /\ \/ /\ dirs' = dirs \cup {attempts} /\ pc' = "untar"
        /\ UNCHANGED <<cause, reply, record, expired, open, deferred, killed, attempts>>
     \/ Redeliver("disk")

MkdirTemp ==
  /\ pc = "tmpdir"
  /\ \/ /\ dirs' = dirs \cup {attempts}
        /\ deferred' = <<"RemoveAll">> \o deferred /\ pc' = "untar"
        /\ UNCHANGED <<cause, reply, record, expired, open, killed, attempts>>
     \/ Redeliver("disk")

(* Untar reads the body as it unpacks, so the connection, the deadline and *)
(* the disk can fail here too; every error is recorded as failed.          *)
Untar ==
  /\ pc = "untar"
  /\ \/ Proceed("commits")
     \/ \E e \in ArchiveErrors \cup {"disk"} \cup CallErrors({"network"}) : Fail(e)

(* Any error leaves the history empty and is not fatal; SelectMaterial can *)
(* only fail without an unpacked repository, which Untar has returned.     *)
FetchCommits   == pc = "commits" /\ Proceed("select")
SelectMaterial == pc = "select" /\ Proceed("generate")

(* Defects: an error of no known type is final; an empty answer is not. *)
EmptyIsRetried(e) == e \in {"ResourceNotFound", "Validation", "AccessDenied"}
UnknownIsPermanent(e) ==
  e \notin {"Throttling", "ServiceUnavailable", "ModelNotReady", "ModelTimeout", "InternalServer"}

BedrockIsPermanent(e) ==
  e \in {"ResourceNotFound", "Validation", "AccessDenied", "EmptyResponse"}

Generate ==
  /\ pc = "generate"
  /\ \/ ~expired /\ Proceed("complete")
     \/ \E e \in CallErrors(BedrockErrors) :
          IF BedrockIsPermanent(e) THEN Fail(e) ELSE Redeliver(e)

(* Defect: the outcome is written with a context of its own. *)
WriteDetached(outcome) ==
  \/ /\ sent' = [outcome |-> outcome, cause |-> cause] /\ pc' = "writing"
     /\ UNCHANGED <<cause, reply, status, message, expired, held, attempts>>
  \/ Redeliver("write")

(* One UpdateItem: sent while the context lasts, or refused unsent. *)
WriteOutcome(outcome) ==
  \/ /\ ~expired
     /\ sent' = [outcome |-> outcome, cause |-> cause] /\ pc' = "writing"
     /\ UNCHANGED <<cause, reply, status, message, expired, held, attempts>>
  \/ Redeliver("write")

MarkCompleted == pc = "complete" /\ WriteOutcome("completed")
MarkFailed    == pc = "fail" /\ WriteOutcome("failed")

(* The table applies the update, whatever has become of the attempt that   *)
(* sent it; completed leaves the error_message alone.                      *)
Apply ==
  /\ sent # NoRequest
  /\ status' = sent.outcome /\ sent' = NoRequest
  /\ message' = IF sent.outcome = "failed" THEN sent.cause ELSE message
  /\ UNCHANGED <<pc, cause, reply, expired, held, attempts>>

(* Or it is throttled, or never arrives. *)
Lose ==
  /\ sent # NoRequest /\ sent' = NoRequest
  /\ UNCHANGED <<pc, cause, reply, status, message, expired, held, attempts>>

(* The call returns: without an error once the update was applied, with    *)
(* one at any time, whether it was applied, is still on its way or lost.   *)
WriteReturns ==
  /\ pc = "writing"
  /\ \/ ~expired /\ status # "processing" /\ Return("ack") /\ UNCHANGED cause
     \/ Redeliver("write")

(* A deferred call runs.  RemoveAll's error is ignored; it has none here,  *)
(* all it removes having been made by the worker itself.                   *)
RunDeferred ==
  /\ pc = "return"
  /\ open' = (open /\ Head(deferred) # "Close")
  /\ dirs' = IF Head(deferred) = "RemoveAll" THEN dirs \ {attempts} ELSE dirs
  /\ deferred' = Tail(deferred)
  /\ pc' = IF Tail(deferred) = <<>> THEN "idle" ELSE pc
  /\ UNCHANGED <<cause, reply, record, expired, killed, attempts>>

(* The invocation's deadline passes, while a call is running or between    *)
(* two; what still runs is then stopped without a word.  No deferred call  *)
(* runs any more, and the directory stays in the environment's /tmp.       *)
Expire ==
  /\ pc # "idle" /\ ~expired
  /\ expired' = TRUE
  /\ UNCHANGED <<pc, cause, reply, record, held, attempts>>

Kill ==
  /\ pc # "idle" /\ expired
  /\ pc' = "idle" /\ reply' = "killed" /\ open' = FALSE /\ deferred' = <<>>
  /\ killed' = killed \cup {attempts}
  /\ UNCHANGED <<cause, record, expired, dirs, attempts>>

Next ==
  \/ Begin \/ ParseRepoURL \/ ValidateModelID \/ FetchTarball \/ MkdirTemp \/ Untar
  \/ FetchCommits \/ SelectMaterial \/ Generate \/ MarkCompleted \/ MarkFailed
  \/ Apply \/ Lose \/ WriteReturns \/ RunDeferred \/ Expire \/ Kill

Spec == Init /\ [][Next]_vars

(* What ends a running attempt whatever its calls do: the deadline, and    *)
(* the stop after it; SQS delivers again.  No call is assumed to answer,   *)
(* only that an update does not stay on its way for ever.                  *)
FairSpec ==
  Spec /\ WF_vars(Begin) /\ WF_vars(Expire) /\ WF_vars(Kill) /\ WF_vars(Apply \/ Lose)

-----------------------------------------------------------------------------
(* Properties. *)

(* Only Untar records a passing trouble as the job's failure: every other  *)
(* stage tells an error that a retry can mend from one that it cannot      *)
(* (ghclient.IsPermanent, bedrock.IsPermanent).                            *)
OnlyUntarMisjudges ==
  status = "failed" /\ message.error \in Passing => message.stage = "untar"

(* A message goes back to SQS only for an error a retry can mend, so a     *)
(* missing repository or a refused model does not burn the receive count.  *)
LastingErrorIsNotRetried == reply = "redeliver" => cause.error \in Passing

(* Untar takes the deadline's error for a broken archive and asks for the  *)
(* job to be recorded as failed.  It never is, however its steps, the      *)
(* deadline and the table's fall: the record is written with the context   *)
(* that has just run out (fail, worker.go), and the job left to a retry.   *)
SlownessIsNoFailure == status = "failed" => message.error # "deadline"

(* Wherever Process returns, early or late, its deferred calls leave no    *)
(* connection and no directory behind: what a warm environment still has   *)
(* in its /tmp is of attempts that were stopped at their deadline.         *)
NothingHeldBetweenJobs == pc = "idle" => ~open /\ dirs \subseteq killed

(* The download has no timeout of its own and any call may hang, yet the   *)
(* job settles or has used up its deliveries: the deadline ends each       *)
(* attempt, and an attempt that decided nothing is handed back to SQS.     *)
JobSettlesOrIsExhausted == <>[](status # "processing" \/ (attempts = MaxAttempts /\ pc = "idle"))

(* The job is in an attempt's hands while that runs, and while an update   *)
(* it has sent is on its way; not any more once it has its outcome.        *)
Owned == status = "processing" /\ (pc # "idle" \/ sent # NoRequest)

(* The job table's promise, kept by one worker for one job that has been   *)
(* claimed before.                                                         *)
Lifecycle == INSTANCE JobLifecycle
               WITH Jobs <- {"job"}, Workers <- {"worker"}, None <- "none",
                    status <- [j \in {"job"} |-> status],
                    owner <- [j \in {"job"} |-> IF Owned THEN "worker" ELSE "none"]

(* Whatever the stages meet, each step is one of JobLifecycle: the outcome *)
(* is written once, by the attempt that holds the job, and a job that has  *)
(* one is never taken up again.                                            *)
StepsOfLifecycle == [][Lifecycle!Next]_(Lifecycle!lifecycleVars)
=============================================================================
