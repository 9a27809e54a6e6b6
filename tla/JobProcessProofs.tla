-------------------------- MODULE JobProcessProofs --------------------------
(* What holds of JobProcess and WorkerMaterial for every number of          *)
(* deliveries, every cap and budget, and all texts.                         *)
EXTENDS WorkerMaterial, Sequences, FiniteSetTheorems, SumTheorems, TLAPS

(* TypeOK in three parts: the flags, what decides the job, what is held. *)
Flags == expired \in BOOLEAN /\ open \in BOOLEAN

TypeInv ==
  /\ pc \in Stage /\ reply \in Reply /\ cause \in Causes
  /\ status \in {"processing", "completed", "failed"}
  /\ message \in Causes /\ sent \in Request \cup {NoRequest}

(* What has been deferred fits the stage, the connection is open only      *)
(* while its Close is deferred, and a directory is the running attempt's,  *)
(* its RemoveAll deferred, or that of an attempt that was stopped.         *)
HeldInv ==
  /\ attempts \in 0..MaxAttempts /\ dirs \subseteq 1..attempts /\ killed \subseteq 1..attempts
  /\ deferred \in {<<>>, <<"Close">>, <<"RemoveAll", "Close">>}
  /\ pc \in {"idle", "parse", "model", "tarball"} => deferred = <<>>
  /\ pc = "tmpdir" => deferred = <<"Close">>
  /\ pc = "return" => deferred # <<>>
  /\ pc # "idle" => attempts \in 1..MaxAttempts
  /\ \A a \in dirs : a \in killed \/ (a = attempts /\ deferred = <<"RemoveAll", "Close">>)

OpenInv == open => deferred # <<>>

LEMMA FlagsStep ==
  ASSUME Flags, [Next]_vars
  PROVE  Flags'
<1>1. expired' \in BOOLEAN
  BY DEF Flags, Next, vars, held, record, Begin, ParseRepoURL, ValidateModelID, FetchTarball,
         MkdirTemp, Untar, FetchCommits, SelectMaterial, Generate, MarkCompleted, MarkFailed,
         WriteOutcome, Apply, Lose, WriteReturns, RunDeferred, Expire, Kill, Proceed, Fail,
         Redeliver, Return
<1>2. open' \in BOOLEAN
  <2>1. /\ \A stage : Proceed(stage) => UNCHANGED open
        /\ \A e : Fail(e) => UNCHANGED open
        /\ \A e : Redeliver(e) => UNCHANGED open
        /\ Return("ack") => UNCHANGED open
    BY DEF Proceed, Fail, Redeliver, Return, held
  <2>2. Next => open' \in BOOLEAN
    BY <2>1, Zenon
       DEF Next, held, Flags, Begin, ParseRepoURL, ValidateModelID, FetchTarball, MkdirTemp, Untar,
           FetchCommits, SelectMaterial, Generate, MarkCompleted, MarkFailed, WriteOutcome,
           Apply, Lose, WriteReturns, RunDeferred, Expire, Kill
  <2> QED
    BY <2>2 DEF Flags, vars, held
<1> QED
  BY <1>1, <1>2 DEF Flags

(* Every error a stage can meet is one of Errors. *)
LEMMA ErrorsAreErrors ==
  \A e \in CallErrors(GitHubErrors) \cup CallErrors(BedrockErrors) \cup ArchiveErrors
             \cup {"disk", "bad url", "bad model", "write"} \cup CallErrors({"network"}) : e \in Errors
BY DEF CallErrors, Errors, GitHubErrors

LEMMA TypeInvStep ==
  ASSUME TypeInv, [Next]_vars
  PROVE  TypeInv'
<1>1. ASSUME NEW stage \in Stage, Proceed(stage)
      PROVE  TypeInv'
  BY <1>1 DEF Proceed, TypeInv, record
<1>2. ASSUME NEW e \in Errors, Fail(e)
      PROVE  TypeInv'
  BY <1>2 DEF Fail, TypeInv, Stage, record, Causes
<1>3. ASSUME NEW e \in Errors, Redeliver(e)
      PROVE  TypeInv'
  BY <1>3 DEF Redeliver, Return, TypeInv, Stage, Reply, record, Causes
<1>4. ASSUME NEW outcome \in {"completed", "failed"}, WriteOutcome(outcome)
      PROVE  TypeInv'
  <2>1. CASE /\ sent' = [outcome |-> outcome, cause |-> cause] /\ pc' = "writing"
             /\ UNCHANGED <<cause, reply, status, message>>
    BY <2>1 DEF TypeInv, Stage, Request
  <2> QED
    BY <1>3, <1>4, <2>1, ErrorsAreErrors DEF WriteOutcome
<1>5. CASE UNCHANGED vars
  BY <1>5 DEF vars, record, TypeInv
<1>6. CASE Begin
  BY <1>6 DEF Begin, TypeInv, Stage, Reply, record, Causes
<1>7. CASE ParseRepoURL \/ ValidateModelID \/ FetchCommits \/ SelectMaterial
  <2>1. {"model", "tarball", "select", "generate"} \subseteq Stage
    BY DEF Stage
  <2> QED
    BY <1>1, <1>2, <1>7, <2>1, ErrorsAreErrors
       DEF ParseRepoURL, ValidateModelID, FetchCommits, SelectMaterial
<1>8. CASE FetchTarball \/ MkdirTemp
  <2>1. CASE pc' \in {"tmpdir", "untar"} /\ UNCHANGED <<cause, reply, record>>
    BY <2>1 DEF TypeInv, Stage, record
  <2> QED
    BY <1>2, <1>3, <1>8, <2>1, ErrorsAreErrors DEF FetchTarball, MkdirTemp
<1>9. CASE Untar
  BY <1>1, <1>2, <1>9, ErrorsAreErrors DEF Untar, Stage
<1>10. CASE Generate
  BY <1>1, <1>2, <1>3, <1>10, ErrorsAreErrors DEF Generate, Stage
<1>11. CASE MarkCompleted \/ MarkFailed
  BY <1>4, <1>11 DEF MarkCompleted, MarkFailed
<1>12. CASE Apply \/ Lose
  BY <1>12 DEF Apply, Lose, TypeInv, Request
<1>13. CASE WriteReturns
  <2>1. CASE Return("ack") /\ UNCHANGED cause
    BY <2>1 DEF Return, TypeInv, Stage, Reply, record
  <2> QED
    BY <1>3, <1>13, <2>1, ErrorsAreErrors DEF WriteReturns
<1>14. CASE RunDeferred \/ Expire \/ Kill
  BY <1>14 DEF RunDeferred, Expire, Kill, TypeInv, Stage, Reply, record
<1> QED
  BY <1>5, <1>6, <1>7, <1>8, <1>9, <1>10, <1>11, <1>12, <1>13, <1>14 DEF Next

(* One pushed on one makes two. *)
LEMMA TwoDeferred ==
  ASSUME NEW x, NEW y
  PROVE  <<x>> \o <<y>> = <<x, y>>
<1> DEFINE s == <<x>> \o <<y>>
           t == <<x, y>>
<1>1. s \in Seq({x, y}) /\ Len(s) = 2 /\ s[1] = x /\ s[2] = y
  OBVIOUS
<1>2. t \in Seq({x, y}) /\ Len(t) = 2 /\ t[1] = x /\ t[2] = y
  OBVIOUS
<1> HIDE DEF s, t
<1>3. s = [i \in 1..2 |-> s[i]] /\ t = [i \in 1..2 |-> t[i]]
  BY <1>1, <1>2
<1>4. \A i \in 1..2 : s[i] = t[i]
  BY <1>1, <1>2
<1>5. s = t
  BY <1>3, <1>4
<1> QED
  BY <1>5 DEF s, t

(* What a step does to the things held, stage by stage. *)
LEMMA HeldInvStep ==
  ASSUME HeldInv, [Next]_vars
  PROVE  HeldInv'
<1>1. ASSUME UNCHANGED <<attempts, dirs, killed, deferred>>, pc # "idle",
             pc' \notin {"tarball", "tmpdir", "return", "idle"}, pc' \notin {"parse", "model"}
      PROVE  HeldInv'
  BY <1>1 DEF HeldInv
<1>2. ASSUME NEW answer, Return(answer), pc # "idle"
      PROVE  HeldInv'
  BY <1>2 DEF HeldInv, Return, held
<1>3. ASSUME NEW e, Redeliver(e), pc # "idle"
      PROVE  HeldInv'
  BY <1>2, <1>3 DEF Redeliver
<1>4. ASSUME NEW e, Fail(e), pc # "idle"
      PROVE  HeldInv'
  BY <1>1, <1>4 DEF Fail, held
<1>5. CASE UNCHANGED vars
  BY <1>5 DEF vars, held, HeldInv
<1>6. CASE Begin
  <2>1. attempts' = attempts + 1 /\ attempts' \in 1..MaxAttempts /\ deferred' = <<>> /\ pc' = "parse"
    BY <1>6, AttemptsAssumption DEF Begin, HeldInv
  <2>2. dirs' \subseteq killed /\ killed' = killed /\ killed \subseteq 1..attempts
    BY <1>6 DEF Begin, HeldInv
  <2> QED
    BY <2>1, <2>2 DEF HeldInv
<1>7. CASE ParseRepoURL \/ ValidateModelID
  <2>1. CASE pc \in {"parse", "model"} /\ pc' \in {"model", "tarball"}
             /\ UNCHANGED <<attempts, dirs, killed, deferred>>
    BY <2>1 DEF HeldInv
  <2> QED
    BY <1>4, <1>7, <2>1 DEF ParseRepoURL, ValidateModelID, Proceed, held
<1>8. CASE FetchTarball
  <2>1. CASE /\ pc = "tarball" /\ pc' = "tmpdir" /\ deferred' = <<"Close">> \o deferred
             /\ UNCHANGED <<attempts, dirs, killed>>
    <3>1. deferred' = <<"Close">>
      BY <2>1 DEF HeldInv
    <3> QED
      BY <2>1, <3>1 DEF HeldInv
  <2> QED
    BY <1>3, <1>4, <1>8, <2>1 DEF FetchTarball
<1>9. CASE MkdirTemp
  <2>1. CASE /\ pc = "tmpdir" /\ pc' = "untar" /\ deferred' = <<"RemoveAll">> \o deferred
             /\ dirs' = dirs \cup {attempts} /\ UNCHANGED <<attempts, killed>>
    <3>1. deferred' = <<"RemoveAll", "Close">>
      <4>1. deferred = <<"Close">>
        BY <2>1 DEF HeldInv
      <4>2. deferred' = <<"RemoveAll">> \o <<"Close">>
        BY <2>1, <4>1, Zenon
      <4> QED
        BY <4>2, TwoDeferred, Zenon
    <3>2. attempts \in 1..attempts /\ dirs' \subseteq 1..attempts'
      BY <2>1 DEF HeldInv
    <3> QED
      BY <2>1, <3>1, <3>2 DEF HeldInv
  <2> QED
    BY <1>3, <1>9, <2>1 DEF MkdirTemp
<1>10. CASE Untar \/ FetchCommits \/ SelectMaterial
  BY <1>1, <1>4, <1>10 DEF Untar, FetchCommits, SelectMaterial, Proceed, held
<1>11. CASE Generate
  BY <1>1, <1>3, <1>4, <1>11 DEF Generate, Proceed, held
<1>12. CASE MarkCompleted \/ MarkFailed
  BY <1>1, <1>3, <1>12 DEF MarkCompleted, MarkFailed, WriteOutcome, held
<1>13. CASE Apply \/ Lose \/ Expire
  BY <1>13 DEF Apply, Lose, Expire, held, HeldInv
<1>14. CASE WriteReturns
  BY <1>2, <1>3, <1>14 DEF WriteReturns
<1>15. CASE RunDeferred
  <2>1. pc = "return" /\ deferred' = Tail(deferred) /\ UNCHANGED <<attempts, killed>>
    BY <1>15 DEF RunDeferred
  <2>2. pc' = IF Tail(deferred) = <<>> THEN "idle" ELSE "return"
    BY <1>15 DEF RunDeferred
  <2>3. CASE deferred = <<"Close">>
    <3>1. Head(deferred) = "Close" /\ Tail(deferred) = <<>>
      BY <2>3
    <3>2. dirs' = dirs /\ pc' = "idle" /\ deferred' = <<>>
      BY <1>15, <2>1, <2>2, <3>1 DEF RunDeferred
    <3> QED
      BY <2>1, <2>3, <3>2 DEF HeldInv
  <2>4. CASE deferred = <<"RemoveAll", "Close">>
    <3>1. Head(deferred) = "RemoveAll" /\ Tail(deferred) = <<"Close">>
      BY <2>4
    <3>2. dirs' = dirs \ {attempts} /\ pc' = "return" /\ deferred' = <<"Close">>
      BY <1>15, <2>1, <2>2, <3>1 DEF RunDeferred
    <3> QED
      BY <2>1, <2>4, <3>2 DEF HeldInv
  <2> QED
    BY <2>1, <2>3, <2>4 DEF HeldInv
<1>16. CASE Kill
  <2>1. /\ pc' = "idle" /\ deferred' = <<>> /\ killed' = killed \cup {attempts}
        /\ UNCHANGED <<dirs, attempts>> /\ pc # "idle"
    BY <1>16 DEF Kill
  <2>2. attempts \in 1..attempts
    BY <2>1 DEF HeldInv
  <2> QED
    BY <2>1, <2>2 DEF HeldInv
<1> QED
  BY <1>5, <1>6, <1>7, <1>8, <1>9, <1>10, <1>11, <1>12, <1>13, <1>14, <1>15, <1>16 DEF Next

(* Close is deferred as soon as the connection is open, and is the last of *)
(* the deferred calls to run.                                              *)
LEMMA OpenInvStep ==
  ASSUME HeldInv, OpenInv, [Next]_vars
  PROVE  OpenInv'
<1>1. CASE UNCHANGED <<open, deferred>>
  BY <1>1 DEF OpenInv
<1>2. CASE pc = "tarball" /\ deferred' = <<"Close">> \o deferred
  <2>1. deferred' # <<>>
    BY <1>2 DEF HeldInv
  <2> QED
    BY <2>1 DEF OpenInv
<1>3. CASE pc = "tmpdir" /\ deferred' = <<"RemoveAll">> \o deferred
  <2>1. deferred' # <<>>
    BY <1>3 DEF HeldInv
  <2> QED
    BY <2>1 DEF OpenInv
<1>4. CASE RunDeferred
  <2>1. CASE deferred = <<"Close">>
    <3>1. Head(deferred) = "Close"
      BY <2>1
    <3>2. open' = FALSE
      BY <1>4, <3>1 DEF RunDeferred
    <3> QED
      BY <3>2 DEF OpenInv
  <2>2. CASE deferred = <<"RemoveAll", "Close">>
    <3>1. Tail(deferred) # <<>>
      BY <2>2
    <3> QED
      BY <1>4, <3>1 DEF RunDeferred, OpenInv
  <2> QED
    BY <1>4, <2>1, <2>2 DEF HeldInv, RunDeferred
<1>5. CASE Kill
  BY <1>5 DEF Kill, OpenInv
<1>6. \/ UNCHANGED <<open, deferred>>
      \/ pc = "tarball" /\ deferred' = <<"Close">> \o deferred
      \/ pc = "tmpdir" /\ deferred' = <<"RemoveAll">> \o deferred
      \/ RunDeferred
      \/ Kill
  BY DEF Next, vars, held, Begin, ParseRepoURL, ValidateModelID, FetchTarball,
         MkdirTemp, Untar, FetchCommits, SelectMaterial, Generate, MarkCompleted, MarkFailed,
         WriteOutcome, Apply, Lose, WriteReturns, Expire, Proceed, Fail, Redeliver, Return
<1> QED
  BY <1>1, <1>2, <1>3, <1>4, <1>5, <1>6

LEMMA InitiallyNothing == Init => TypeInv /\ Flags /\ HeldInv /\ OpenInv
<1> SUFFICES ASSUME Init PROVE TypeInv /\ Flags /\ HeldInv /\ OpenInv
  OBVIOUS
<1>1. Flags
  BY DEF Init, Flags
<1>2. OpenInv
  BY DEF Init, OpenInv
<1>3. TypeInv
  BY DEF Init, TypeInv, Stage, Reply, Causes
<1>4. HeldInv
  BY AttemptsAssumption DEF Init, HeldInv
<1> QED
  BY <1>1, <1>2, <1>3, <1>4

(* Every variable keeps its type through all stages and deliveries; in     *)
(* particular nothing is deferred twice.                                   *)
THEOREM TypeCorrect == Spec => []TypeOK
<1>1. TypeInv /\ Flags /\ HeldInv => TypeOK
  BY DEF TypeInv, Flags, HeldInv, TypeOK
<1> QED
  BY <1>1, InitiallyNothing, TypeInvStep, FlagsStep, HeldInvStep, PTL DEF Spec

(* Between two jobs the worker holds no connection, and no directory but   *)
(* those of attempts that were stopped.                                    *)
THEOREM NothingIsLeaked == Spec => []NothingHeldBetweenJobs
<1>1. HeldInv /\ OpenInv => NothingHeldBetweenJobs
  <2> SUFFICES ASSUME HeldInv, OpenInv, pc = "idle" PROVE ~open /\ dirs \subseteq killed
    BY DEF NothingHeldBetweenJobs
  <2>1. deferred = <<>>
    BY DEF HeldInv
  <2>2. ~open
    BY <2>1 DEF OpenInv
  <2>3. dirs \subseteq killed
    BY <2>1 DEF HeldInv
  <2> QED
    BY <2>2, <2>3
<1> QED
  BY <1>1, InitiallyNothing, HeldInvStep, OpenInvStep, PTL DEF Spec

-----------------------------------------------------------------------------
(* An error recorded as the job's failure is lasting, or was Untar's. *)
Blames(c) == c.error \in Lasting \/ c.stage = "untar"

(* While Process works on the job the record is processing, nothing is     *)
(* answered and nothing on its way; only a lasting error, or Untar, sends  *)
(* it to MarkFailed, from there to the table, and into the record.         *)
DecisionInv ==
  /\ pc \notin {"idle", "return"} => reply = "none"
  /\ pc \notin {"idle", "return", "writing"} => status = "processing" /\ sent = NoRequest
  /\ sent # NoRequest => status = "processing"
  /\ pc = "fail" => Blames(cause)
  /\ sent.outcome = "failed" => Blames(sent.cause)
  /\ status = "failed" => Blames(message)
  /\ reply = "redeliver" => cause.error \in Passing

(* An update asking for failed on account of the deadline is never sent:   *)
(* whoever would send it has no time left.                                 *)
SlowInv ==
  /\ pc = "fail" /\ cause.error = "deadline" => expired
  /\ sent.outcome = "failed" => sent.cause.error # "deadline"
  /\ status = "failed" => message.error # "deadline"

(* Which errors a retry can mend. *)
LEMMA ErrorKinds ==
  /\ "bad url" \in Lasting /\ "bad model" \in Lasting /\ "4xx" \in Lasting
  /\ "5xx" \in Passing /\ "network" \in Passing /\ "deadline" \in Passing
  /\ "disk" \in Passing /\ "write" \in Passing
BY DEF Passing, Lasting, Errors, GitHubErrors, ArchiveErrors, BedrockErrors

(* No error is of both kinds. *)
LEMMA KindsAreDisjoint == \A e \in Passing : e \notin Lasting
BY DEF Passing

(* bedrock.IsPermanent puts every error of Bedrock on the right side. *)
LEMMA BedrockKinds ==
  ASSUME NEW e \in BedrockErrors
  PROVE  IF BedrockIsPermanent(e) THEN e \in Lasting ELSE e \in Passing
BY DEF Passing, Lasting, Errors, GitHubErrors, ArchiveErrors, BedrockErrors, BedrockIsPermanent

(* Going on to MarkFailed keeps DecisionInv when the error deserves it. *)
LEMMA FailKeepsInv ==
  ASSUME DecisionInv, pc \notin {"idle", "return", "writing"},
         NEW e, Fail(e), e \in Lasting \/ pc = "untar"
  PROVE  DecisionInv'
<1>1. cause'.error = e /\ cause'.stage = pc
  BY DEF Fail
<1>2. pc' = "fail" /\ UNCHANGED <<reply, status, message, sent>>
  BY DEF Fail, record
<1> QED
  BY <1>1, <1>2 DEF DecisionInv, Blames

(* Asking for a redelivery keeps it when a retry can mend the error. *)
LEMMA RedeliverKeepsInv ==
  ASSUME DecisionInv, NEW e \in Passing, Redeliver(e)
  PROVE  DecisionInv'
<1>1. cause'.error = e
  BY DEF Redeliver
<1>2. pc' \in {"idle", "return"} /\ UNCHANGED <<status, message, sent>>
  BY DEF Redeliver, Return, record
<1> QED
  BY <1>1, <1>2 DEF DecisionInv, Blames

(* So does sending the outcome, and the refusal to. *)
LEMMA WriteKeepsInv ==
  ASSUME DecisionInv, pc \in {"complete", "fail"}, NEW outcome, WriteOutcome(outcome),
         outcome = "failed" => pc = "fail"
  PROVE  DecisionInv'
<1>1. CASE /\ sent' = [outcome |-> outcome, cause |-> cause] /\ pc' = "writing"
           /\ UNCHANGED <<cause, reply, status, message>>
  <2>1. sent'.outcome = outcome /\ sent'.cause = cause
    BY <1>1
  <2> QED
    BY <1>1, <2>1 DEF DecisionInv, Blames
<1> QED
  BY <1>1, RedeliverKeepsInv, ErrorKinds DEF WriteOutcome

(* Every step keeps DecisionInv. *)
LEMMA DecisionInvStep ==
  ASSUME TypeInv, DecisionInv, [Next]_vars
  PROVE  DecisionInv'
<1>1. ASSUME NEW stage \in Stage \ {"idle", "fail", "return", "writing"},
             pc \notin {"idle", "return", "writing"}, Proceed(stage)
      PROVE  DecisionInv'
  BY <1>1 DEF DecisionInv, Blames, Proceed, record
<1>2. CASE UNCHANGED vars
  BY <1>2 DEF vars, record, DecisionInv, Blames
<1>3. CASE Begin
  BY <1>3 DEF Begin, record, DecisionInv, Blames
<1>4. CASE ParseRepoURL \/ ValidateModelID
  BY <1>1, <1>4, FailKeepsInv, ErrorKinds DEF ParseRepoURL, ValidateModelID, Stage
<1>5. CASE FetchCommits \/ SelectMaterial
  BY <1>1, <1>5 DEF FetchCommits, SelectMaterial, Stage
<1>6. CASE FetchTarball
  <2>1. CASE pc' = "tmpdir" /\ UNCHANGED <<cause, reply, record>>
    BY <1>6, <2>1 DEF FetchTarball, record, DecisionInv, Blames
  <2>2. ASSUME NEW e \in CallErrors(GitHubErrors),
               IF GitHubIsPermanent(e) THEN Fail(e) ELSE Redeliver(e)
        PROVE  DecisionInv'
    <3>1. IF GitHubIsPermanent(e) THEN e \in Lasting ELSE e \in Passing
      BY <2>2, ErrorKinds DEF CallErrors, GitHubErrors, GitHubIsPermanent
    <3> QED
      BY <1>6, <2>2, <3>1, FailKeepsInv, RedeliverKeepsInv DEF FetchTarball
  <2> QED
    BY <1>6, <2>1, <2>2 DEF FetchTarball
<1>7. CASE MkdirTemp
  <2>1. CASE pc' = "untar" /\ UNCHANGED <<cause, reply, record>>
    BY <1>7, <2>1 DEF MkdirTemp, record, DecisionInv, Blames
  <2> QED
    BY <1>7, <2>1, RedeliverKeepsInv, ErrorKinds DEF MkdirTemp
<1>8. CASE Untar
  BY <1>1, <1>8, FailKeepsInv DEF Untar, Stage
<1>9. CASE Generate
  <2>1. ASSUME NEW e \in CallErrors(BedrockErrors),
               IF BedrockIsPermanent(e) THEN Fail(e) ELSE Redeliver(e)
        PROVE  DecisionInv'
    <3>1. e \in BedrockErrors \/ e = "deadline"
      BY <2>1 DEF CallErrors
    <3>2. IF BedrockIsPermanent(e) THEN e \in Lasting ELSE e \in Passing
      BY <3>1, BedrockKinds, ErrorKinds DEF BedrockIsPermanent
    <3> QED
      BY <1>9, <2>1, <3>2, FailKeepsInv, RedeliverKeepsInv DEF Generate
  <2> QED
    BY <1>1, <1>9, <2>1 DEF Generate, Stage
<1>10. CASE MarkCompleted \/ MarkFailed
  BY <1>10, WriteKeepsInv DEF MarkCompleted, MarkFailed
<1>11. CASE Apply
  <2>1. sent \in Request /\ status' = sent.outcome /\ sent'.outcome = "none"
    BY <1>11 DEF Apply, TypeInv, NoRequest
  <2>2. sent' = NoRequest /\ message' = IF sent.outcome = "failed" THEN sent.cause ELSE message
    BY <1>11 DEF Apply
  <2>3. UNCHANGED <<pc, cause, reply>> /\ pc \in {"idle", "return", "writing"}
    BY <1>11 DEF Apply, DecisionInv
  <2>4. status' = "failed" => Blames(message)'
    BY <2>1, <2>2 DEF DecisionInv, Blames
  <2> QED
    BY <2>1, <2>2, <2>3, <2>4 DEF DecisionInv, Blames
<1>12. CASE Lose
  <2>1. sent'.outcome = "none" /\ sent' = NoRequest
    BY <1>12 DEF Lose, NoRequest
  <2> QED
    BY <1>12, <2>1 DEF Lose, DecisionInv, Blames
<1>13. CASE WriteReturns
  <2>1. CASE Return("ack") /\ UNCHANGED cause
    BY <1>13, <2>1 DEF WriteReturns, Return, record, DecisionInv, Blames
  <2> QED
    BY <1>13, <2>1, RedeliverKeepsInv, ErrorKinds DEF WriteReturns
<1>14. CASE RunDeferred \/ Expire \/ Kill
  BY <1>14 DEF RunDeferred, Expire, Kill, record, held, DecisionInv, Blames
<1> QED
  BY <1>2, <1>3, <1>4, <1>5, <1>6, <1>7, <1>8, <1>9, <1>10, <1>11, <1>12, <1>13, <1>14 DEF Next

LEMMA InitiallyUndecided == Init => DecisionInv /\ SlowInv
BY DEF Init, DecisionInv, SlowInv, NoRequest

(* The worker gives a job up as failed for a passing trouble in Untar      *)
(* only, whatever errors the stages meet and in however many deliveries.   *)
THEOREM FailuresAreJudged == Spec => []OnlyUntarMisjudges
<1>1. DecisionInv => OnlyUntarMisjudges
  BY KindsAreDisjoint DEF DecisionInv, Blames, OnlyUntarMisjudges
<1> QED
  BY <1>1, InitiallyNothing, InitiallyUndecided, TypeInvStep, DecisionInvStep, PTL DEF Spec

(* A message is handed back to SQS only for an error a retry can mend. *)
THEOREM RetriesAreWorthwhile == Spec => []LastingErrorIsNotRetried
<1>1. DecisionInv => LastingErrorIsNotRetried
  BY DEF DecisionInv, LastingErrorIsNotRetried
<1> QED
  BY <1>1, InitiallyNothing, InitiallyUndecided, TypeInvStep, DecisionInvStep, PTL DEF Spec

(* Only Untar can take the deadline for the job's failure, and an update   *)
(* is sent only while there is time.                                       *)
LEMMA SlowInvStep ==
  ASSUME TypeInv, SlowInv, [Next]_vars
  PROVE  SlowInv'
<1>1. CASE \E e \in Errors : Fail(e) /\ (e = "deadline" => expired)
  <2>1. PICK e \in Errors : Fail(e) /\ (e = "deadline" => expired)
    BY <1>1
  <2>2. cause'.error = e /\ expired' = expired /\ UNCHANGED record
    BY <2>1 DEF Fail
  <2>3. cause'.error = "deadline" => expired'
    BY <2>1, <2>2
  <2> QED
    BY <2>2, <2>3 DEF SlowInv, record
<1>2. CASE /\ ~expired /\ pc' = "writing" /\ UNCHANGED <<status, message, cause>>
           /\ \/ pc = "fail" /\ sent' = [outcome |-> "failed", cause |-> cause]
              \/ sent' = [outcome |-> "completed", cause |-> cause]
  <2>1. CASE pc = "fail" /\ sent' = [outcome |-> "failed", cause |-> cause]
    <3>1. sent'.cause = cause /\ cause.error # "deadline"
      BY <1>2, <2>1 DEF SlowInv
    <3> QED
      BY <1>2, <3>1 DEF SlowInv
  <2>2. CASE sent' = [outcome |-> "completed", cause |-> cause]
    <3>1. sent'.outcome = "completed"
      BY <2>2
    <3> QED
      BY <1>2, <3>1 DEF SlowInv
  <2> QED
    BY <1>2, <2>1, <2>2
<1>3. CASE Apply
  <2>1. sent'.outcome = "none" /\ UNCHANGED <<pc, cause, expired>>
    BY <1>3 DEF Apply, NoRequest
  <2>2. status' = "failed" => message'.error # "deadline"
    BY <1>3 DEF Apply, SlowInv
  <2> QED
    BY <2>1, <2>2 DEF SlowInv
<1>4. CASE Lose
  <2>1. sent'.outcome = "none" /\ UNCHANGED <<pc, cause, expired, status, message>>
    BY <1>4 DEF Lose, NoRequest
  <2> QED
    BY <2>1 DEF SlowInv
<1>5. CASE UNCHANGED record /\ pc' # "fail"
  BY <1>5 DEF SlowInv, record
<1>6. CASE Expire
  <2>1. expired' /\ UNCHANGED record
    BY <1>6 DEF Expire
  <2> QED
    BY <2>1 DEF SlowInv, record
<1>7. CASE UNCHANGED vars
  BY <1>7 DEF vars, record, SlowInv
<1>8. ASSUME ParseRepoURL \/ ValidateModelID \/ FetchTarball \/ Untar \/ Generate
      PROVE  \/ \E e \in Errors : Fail(e) /\ (e = "deadline" => expired)
             \/ UNCHANGED record /\ pc' # "fail"
  <2>1. ASSUME NEW e, e \in CallErrors(GitHubErrors) \cup CallErrors(BedrockErrors)
                              \cup ArchiveErrors \cup {"disk", "bad url", "bad model"}
                              \cup CallErrors({"network"})
        PROVE  e \in Errors /\ (e = "deadline" => expired)
    <3>1. e \in Errors
      BY <2>1, ErrorsAreErrors
    <3>2. e = "deadline" => expired
      BY <2>1 DEF CallErrors, GitHubErrors, BedrockErrors, ArchiveErrors
    <3> QED
      BY <3>1, <3>2
  <2> QED
    BY <1>8, <2>1 DEF ParseRepoURL, ValidateModelID, FetchTarball, Untar, Generate,
       Proceed, Redeliver, Return, record
<1>9. ASSUME MarkCompleted \/ MarkFailed
      PROVE  \/ /\ ~expired /\ pc' = "writing" /\ UNCHANGED <<status, message, cause>>
                /\ \/ pc = "fail" /\ sent' = [outcome |-> "failed", cause |-> cause]
                   \/ sent' = [outcome |-> "completed", cause |-> cause]
             \/ UNCHANGED record /\ pc' # "fail"
  BY <1>9 DEF MarkCompleted, MarkFailed, WriteOutcome, Redeliver, Return, record
<1>10. ASSUME Begin \/ MkdirTemp \/ FetchCommits \/ SelectMaterial \/ WriteReturns \/ RunDeferred
              \/ Kill
       PROVE  UNCHANGED record /\ pc' # "fail"
  BY <1>10 DEF Begin, MkdirTemp, FetchCommits, SelectMaterial, WriteReturns, RunDeferred, Kill,
     Proceed, Redeliver, Return, record, held
<1> QED
  BY <1>1, <1>2, <1>3, <1>4, <1>5, <1>6, <1>7, <1>8, <1>9, <1>10 DEF Next

(* No job is recorded failed for having been slow, at whatever step of     *)
(* whatever attempt the deadline falls.                                    *)
THEOREM SlowJobsAreRetried == Spec => []SlownessIsNoFailure
<1>1. SlowInv => SlownessIsNoFailure
  BY DEF SlowInv, SlownessIsNoFailure
<1> QED
  BY <1>1, InitiallyNothing, InitiallyUndecided, TypeInvStep, SlowInvStep, PTL DEF Spec

-----------------------------------------------------------------------------
(* Every step is one of JobLifecycle or leaves the record and its owner    *)
(* alone.                                                                  *)
LEMMA LifecycleStep ==
  ASSUME TypeInv, DecisionInv, [Next]_vars
  PROVE  [Lifecycle!Next]_(Lifecycle!lifecycleVars)
<1> DEFINE s == [j \in {"job"} |-> status]
           o == [j \in {"job"} |-> IF Owned THEN "worker" ELSE "none"]
<1>1. ASSUME status' = status, Owned' <=> Owned
      PROVE  UNCHANGED Lifecycle!lifecycleVars
  BY <1>1 DEF Lifecycle!lifecycleVars
<1>2. CASE Begin
  <2>1. ~Owned /\ Owned' /\ status = "processing" /\ status' = status
    BY <1>2 DEF Begin, Owned, record
  <2>2. s["job"] = "processing" /\ o["job"] = "none" /\ s' = s /\ o' = [o EXCEPT !["job"] = "worker"]
    BY <2>1
  <2>3. s' = [s EXCEPT !["job"] = "processing"]
    BY <2>2
  <2> QED
    BY <2>2, <2>3 DEF Lifecycle!Next, Lifecycle!Claim
<1>3. ASSUME Owned, ~Owned', status' = status
      PROVE  Lifecycle!Next
  <2>1. o["job"] = "worker" /\ s' = s /\ o' = [o EXCEPT !["job"] = "none"]
    BY <1>3
  <2> QED
    BY <2>1 DEF Lifecycle!Next, Lifecycle!Abandon
<1>4. CASE Apply
  <2>1. sent \in Request /\ status' = sent.outcome /\ status = "processing"
    BY <1>4 DEF Apply, TypeInv, DecisionInv
  <2>2. PICK outcome \in {"completed", "failed"} : status' = outcome
    BY <2>1 DEF Request
  <2>3. Owned /\ ~Owned'
    BY <1>4, <2>1, <2>2 DEF Apply, Owned
  <2>4. s["job"] = "processing" /\ o["job"] = "worker"
    BY <2>1, <2>3
  <2>5. s' = [s EXCEPT !["job"] = outcome] /\ o' = [o EXCEPT !["job"] = "none"]
    BY <2>2, <2>3
  <2> QED
    BY <2>4, <2>5 DEF Lifecycle!Next, Lifecycle!Finish, Lifecycle!Terminal
<1>5. Begin \/ Apply \/ (status' = status /\ (Owned' => Owned))
  <2>1. CASE UNCHANGED <<status, sent>> /\ pc # "idle"
    BY <2>1 DEF Owned
  <2>2. CASE UNCHANGED vars \/ Lose
    BY <2>2 DEF vars, record, Lose, Owned
  <2>3. CASE MarkCompleted \/ MarkFailed
    <3>1. pc # "idle" /\ status = "processing" /\ status' = status
      BY <2>3 DEF MarkCompleted, MarkFailed, WriteOutcome, Redeliver, Return, record, DecisionInv
    <3> QED
      BY <3>1 DEF Owned
  <2>4. \/ Begin \/ Apply \/ UNCHANGED vars \/ Lose \/ MarkCompleted \/ MarkFailed
        \/ UNCHANGED <<status, sent>> /\ pc # "idle"
    BY DEF Next, record, held, ParseRepoURL, ValidateModelID, FetchTarball, MkdirTemp, Untar,
           FetchCommits, SelectMaterial, Generate, WriteReturns, RunDeferred, Expire, Kill,
           Proceed, Fail, Redeliver, Return
  <2> QED
    BY <2>1, <2>2, <2>3, <2>4
<1> QED
  BY <1>1, <1>2, <1>3, <1>4, <1>5

(* Process keeps the promise of the job table, in however many deliveries. *)
THEOREM ProcessKeepsLifecycle == Spec => StepsOfLifecycle
<1>1. TypeInv /\ DecisionInv /\ [Next]_vars => [Lifecycle!Next]_(Lifecycle!lifecycleVars)
  BY LifecycleStep
<1> QED
  BY <1>1, InitiallyNothing, InitiallyUndecided, TypeInvStep, DecisionInvStep, PTL
     DEF Spec, StepsOfLifecycle

-----------------------------------------------------------------------------
(* The archive and the material of an attempt. *)

LEMMA SumIsTheSame == \A f, X : M!SumFunctionOnSet(f, X) = SumFunctionOnSet(f, X)
BY DEF M!SumFunctionOnSet, SumFunctionOnSet, M!FoldFunctionOnSet, FoldFunctionOnSet,
       M!MapThenFoldSet, MapThenFoldSet

(* The sizes met so far, together. *)
Offered(s) == SumFunctionOnSet(s, 1..Len(s))

UnpackInv ==
  /\ sizes \in Seq(Nat) /\ total \in Nat
  /\ IF step = "too large"
       THEN Offered(sizes) > MaxTotalBytes /\ total = MaxTotalBytes + 1
       ELSE files = sizes /\ total = Offered(sizes) /\ total <= MaxTotalBytes

LEMMA OfferedOfAppend ==
  ASSUME NEW s \in Seq(Nat), NEW x \in Nat
  PROVE  Offered(Append(s, x)) = Offered(s) + x
<1> DEFINE n == Len(s)
           t == Append(s, x)
<1>1. n \in Nat /\ Len(t) = n + 1 /\ t[n + 1] = x /\ \A i \in 1..n : s[i] \in Int /\ t[i] = s[i]
  OBVIOUS
<1> HIDE DEF n, t
<1>2. SumFunctionOnSet(t, 1..(n + 1)) = SumFunctionOnSet(s, 1..n) + t[n + 1]
  BY <1>1, SumOfNext
<1> QED
  BY <1>1, <1>2 DEF Offered, n, t

LEMMA UntarKeepsInv ==
  ASSUME UnpackInv, M!UntarFile
  PROVE  UnpackInv'
<1>1. PICK size \in Sizes :
         LET written == M!writeFileCapped(size, MaxTotalBytes - total)
         IN  /\ sizes' = Append(sizes, size)
             /\ total' = total + written
             /\ IF total + written > MaxTotalBytes
                  THEN step' = "too large" /\ UNCHANGED files
                  ELSE files' = Append(files, written) /\ UNCHANGED step
  BY DEF M!UntarFile
<1> DEFINE written == M!writeFileCapped(size, MaxTotalBytes - total)
<1>2. /\ size \in Nat /\ MaxTotalBytes \in Nat /\ total \in Nat /\ total <= MaxTotalBytes
      /\ files = sizes /\ sizes \in Seq(Nat) /\ total = Offered(sizes) /\ step = "unpack"
  BY MaterialAssumption DEF UnpackInv, M!UntarFile
<1>3. written = IF size < MaxTotalBytes - total + 1 THEN size ELSE MaxTotalBytes - total + 1
  BY <1>2 DEF M!writeFileCapped
<1>4. Offered(sizes') = total + size /\ sizes' \in Seq(Nat)
  <2>1. sizes' = Append(sizes, size)
    BY <1>1
  <2>2. Offered(Append(sizes, size)) = Offered(sizes) + size
    BY <1>2, OfferedOfAppend
  <2> QED
    BY <1>2, <2>1, <2>2
<1> HIDE DEF written
<1>5. CASE total + written > MaxTotalBytes
  <2>1. size >= MaxTotalBytes - total + 1 /\ written = MaxTotalBytes - total + 1
    BY <1>2, <1>3, <1>5
  <2>2. step' = "too large" /\ total' = total + written
    BY <1>1, <1>5 DEF written
  <2> QED
    <3>0. total' = total + (MaxTotalBytes - total + 1)
      BY <2>1, <2>2
    <3>1. total' = MaxTotalBytes + 1 /\ total' \in Nat
      BY <1>2, <3>0
    <3>2. Offered(sizes') > MaxTotalBytes
      BY <1>2, <1>4, <2>1
    <3> QED
      BY <1>4, <2>2, <3>1, <3>2 DEF UnpackInv, Offered
<1>6. CASE ~(total + written > MaxTotalBytes)
  <2>1. written = size
    BY <1>2, <1>3, <1>6
  <2>2. step' = "unpack" /\ total' = total + written /\ files' = Append(files, written)
    BY <1>1, <1>2, <1>6 DEF written
  <2>3. total' = total + size /\ total' \in Nat /\ files' = sizes' /\ total' <= MaxTotalBytes
    BY <1>1, <1>2, <1>6, <2>1, <2>2
  <2> QED
    BY <1>4, <2>2, <2>3 DEF UnpackInv
<1> QED
  BY <1>5, <1>6

LEMMA EmptyArchive ==
  ASSUME sizes = <<>>, files = <<>>, total = 0, step = "unpack"
  PROVE  UnpackInv
<1>1. Len(<<>>) = 0 /\ 1..0 = {} /\ <<>> \in Seq(Nat)
  OBVIOUS
<1>2. Offered(sizes) = 0
  BY <1>1, SumEmpty DEF Offered
<1> QED
  BY <1>1, <1>2, MaterialAssumption DEF UnpackInv
-----------------------------------------------------------------------------
(* Texts cut between characters. *)

LEMMA MaxIsGreatest ==
  ASSUME NEW n \in Nat, NEW C \in SUBSET (0..n), C # {}
  PROVE  M!Max(C) \in C /\ \A y \in C : M!Max(C) >= y
<1> DEFINE Back == {n - c : c \in C}
<1>1. Back \in SUBSET Nat /\ Back # {}
  <2>1. \A c \in C : c \in 0..n /\ n - c \in Nat
    OBVIOUS
  <2> QED
    BY <2>1
<1>2. PICK k \in Back : \A m \in Back : k <= m
  BY <1>1, LeastNatural
<1>3. PICK c \in C : k = n - c
  OBVIOUS
<1>4. ASSUME NEW y \in C PROVE c >= y
  <2>1. n - y \in Back
    OBVIOUS
  <2>2. y \in 0..n /\ c \in 0..n
    OBVIOUS
  <2>3. n - c <= n - y
    BY <1>2, <1>3, <2>1
  <2> QED
    BY <2>2, <2>3
<1> QED
  BY <1>4 DEF M!Max

LEMMA Truncated ==
  ASSUME NEW s \in Seq(BOOLEAN), NEW n \in Nat, NEW t, t = M!truncateUTF8(s, n)
  PROVE  /\ t \in Seq(BOOLEAN) /\ Len(t) <= Len(s) /\ Len(t) <= n
         /\ t = SubSeq(s, 1, Len(t)) /\ (Len(s) <= n => t = s)
         /\ Len(t) < Len(s) =>
              /\ Len(t) = 0 \/ s[Len(t) + 1]
              /\ \A e \in Len(t) + 1 .. Len(s) : e = Len(s) \/ s[e + 1] => e > n
<1>1. CASE n = 0
  <2>1. t = <<>> /\ Len(t) = 0
    BY <1>1 DEF M!truncateUTF8
  <2>2. Len(s) \in Nat /\ (Len(s) <= 0 => s = <<>>) /\ SubSeq(s, 1, 0) = <<>>
    OBVIOUS
  <2>3. \A e \in 1 .. Len(s) : e > 0
    BY <2>2
  <2>4. t \in Seq(BOOLEAN) /\ Len(t) <= Len(s) /\ Len(t) <= n /\ t = SubSeq(s, 1, Len(t))
    <3>1. <<>> \in Seq(BOOLEAN)
      OBVIOUS
    <3>2. t \in Seq(BOOLEAN)
      BY <2>1, <3>1
    <3>3. t = SubSeq(s, 1, Len(t))
      BY <2>1, <2>2
    <3> QED
      BY <1>1, <2>1, <2>2, <3>2, <3>3
  <2> QED
    BY <1>1, <2>1, <2>2, <2>3, <2>4
<1>2. CASE n > 0 /\ Len(s) <= n
  <2>1. t = s
    BY <1>2 DEF M!truncateUTF8
  <2> QED
    BY <1>2, <2>1
<1>3. CASE n > 0 /\ ~(Len(s) <= n)
  <2> DEFINE C == {0} \cup {cut \in 1..n : s[cut + 1]}
             c == M!Max(C)
  <2>1. C \in SUBSET (0..n) /\ C # {}
    OBVIOUS
  <2>2. c \in C /\ \A y \in C : c >= y
    BY <2>1, MaxIsGreatest
  <2>3. t = SubSeq(s, 1, c)
    <3>1. ~(n <= 0) /\ ~(Len(s) <= n)
      BY <1>3
    <3> HIDE DEF c, C
    <3> QED
      BY <3>1 DEF M!truncateUTF8, c, C
  <2>4. c \in 0..n /\ (c = 0 \/ s[c + 1])
    BY <2>2
  <2>5. \A e \in 1..n : s[e + 1] => c >= e
    BY <2>2
  <2> HIDE DEF c, C
  <2>6. Len(s) \in Nat /\ n < Len(s) /\ c \in Nat /\ c <= n
    BY <1>3, <2>4
  <2>7. t \in Seq(BOOLEAN) /\ Len(t) = c
    BY <2>3, <2>6
  <2>8. ASSUME NEW e \in c + 1 .. Len(s), e = Len(s) \/ s[e + 1]
        PROVE  e > n
    BY <2>5, <2>6, <2>8
  <2> QED
    BY <2>3, <2>4, <2>6, <2>7, <2>8
<1> QED
  BY <1>1, <1>2, <1>3

(* At most three bytes are left after a cut. *)
LEMMA ScrapIsSmall ==
  ASSUME NEW s \in M!Text, NEW n \in Nat, NEW t, t = M!truncateUTF8(s, n), Len(t) < Len(s)
  PROVE  s[Len(t) + 1] /\ n - Len(t) <= 3
<1>1. s \in Seq(BOOLEAN) /\ Len(s) \in Nat
  BY DEF M!Text
<1>2. /\ Len(t) \in Nat /\ Len(t) <= n /\ (Len(s) <= n => t = s)
      /\ Len(t) = 0 \/ s[Len(t) + 1]
      /\ \A e \in Len(t) + 1 .. Len(s) : e = Len(s) \/ s[e + 1] => e > n
  BY <1>1, Truncated
<1>3. s[Len(t) + 1]
  <2>1. CASE Len(t) = 0
    <3>1. s # <<>>
      BY <1>1, <2>1
    <3> QED
      BY <2>1, <3>1 DEF M!Text
  <2> QED
    BY <1>2, <2>1
<1>4. ASSUME ~(n - Len(t) <= 3) PROVE FALSE
  <2> DEFINE i == Len(t) + 1
  <2>1. i \in DOMAIN s /\ i + 4 <= Len(s)
    BY <1>1, <1>2, <1>4
  <2>2. PICK k \in 1..4 : s[i + k]
    BY <2>1 DEF M!Text
  <2> DEFINE e == Len(t) + k
  <2>3. e \in Len(t) + 1 .. Len(s) /\ e + 1 = i + k /\ ~(e > n)
    BY <1>1, <1>2, <1>4, <2>1
  <2> HIDE DEF e, i
  <2> QED
    BY <1>2, <2>2, <2>3
<1> QED
  BY <1>3, <1>4

(* One file after another, never beyond the budget. *)
LEMMA BlocksKeepBudget ==
  ASSUME NEW n \in Nat, NEW blocks \in [1..n -> Seq(BOOLEAN)], NEW budget \in Nat
  PROVE  /\ M!buildSelectedFiles(blocks, budget) \in Seq(BOOLEAN)
         /\ Len(M!buildSelectedFiles(blocks, budget)) <= budget
<1> DEFINE V == {s \in Seq(BOOLEAN) : Len(s) <= budget}
           more(s, k) == s \o M!truncateUTF8(blocks[k], budget - Len(s))
           Built(b, k) == b[0] = <<>> /\ \A i \in 1..k : b[i] = more(b[i - 1], i)
           Good(k) == \E b \in [0..k -> V] : Built(b, k)
           Bad == {k \in 0..n : ~Good(k)}
           body(b) == [i \in 0..n |-> IF i = 0 THEN <<>> ELSE more(b[i - 1], i)]
           b1 == CHOOSE b : b = body(b)
<1>1. ASSUME NEW s \in V, NEW k \in 1..n PROVE more(s, k) \in V
  <2>1. /\ s \in Seq(BOOLEAN) /\ Len(s) \in Nat /\ Len(s) <= budget /\ budget - Len(s) \in Nat
        /\ blocks[k] \in Seq(BOOLEAN)
    OBVIOUS
  <2> DEFINE t == M!truncateUTF8(blocks[k], budget - Len(s))
  <2>2. t \in Seq(BOOLEAN) /\ Len(t) <= budget - Len(s)
    BY <2>1, Truncated
  <2> HIDE DEF t
  <2>3. s \o t \in Seq(BOOLEAN) /\ Len(s \o t) = Len(s) + Len(t) /\ Len(t) \in Nat
    BY <2>1, <2>2
  <2>4. s \o t \in V
    BY <2>1, <2>2, <2>3
  <2> QED
    BY <2>4 DEF t
<1>2. <<>> \in V
  <2>1. <<>> \in Seq(BOOLEAN) /\ Len(<<>>) = 0
    OBVIOUS
  <2> QED
    BY <2>1
<1> HIDE DEF V, more
<1>3. Good(0)
  <2>1. [i \in 0..0 |-> <<>>] \in [0..0 -> V] /\ Built([i \in 0..0 |-> <<>>], 0)
    BY <1>2
  <2> QED
    BY <2>1
<1>4. ASSUME NEW k \in 1..n, Good(k - 1) PROVE Good(k)
  <2>1. PICK b \in [0..(k - 1) -> V] : Built(b, k - 1)
    BY <1>4
  <2> DEFINE c == [i \in 0..k |-> IF i = k THEN more(b[k - 1], k) ELSE b[i]]
  <2>2. k - 1 \in 0..(k - 1) /\ b[k - 1] \in V
    OBVIOUS
  <2>3. c \in [0..k -> V]
    BY <1>1, <2>2
  <2>4. c[0] = <<>> /\ \A i \in 1..k : c[i] = more(c[i - 1], i)
    <3>1. c[0] = b[0] /\ c[k - 1] = b[k - 1] /\ c[k] = more(b[k - 1], k)
      BY <2>2
    <3>2. \A i \in 1..(k - 1) : c[i] = b[i] /\ c[i - 1] = b[i - 1] /\ b[i] = more(b[i - 1], i)
      BY <2>1
    <3>3. \A i \in 1..k : i = k \/ i \in 1..(k - 1)
      OBVIOUS
    <3> HIDE DEF c
    <3> QED
      BY <2>1, <3>1, <3>2, <3>3
  <2> QED
    BY <2>3, <2>4
<1>5. Bad = {}
  <2> SUFFICES ASSUME Bad # {} PROVE FALSE
    OBVIOUS
  <2>1. Bad \in SUBSET Nat
    OBVIOUS
  <2>2. PICK k \in Bad : \A m \in Bad : k <= m
    BY <2>1, LeastNatural
  <2> HIDE DEF Good
  <2>3. k \in 0..n /\ ~Good(k) /\ k # 0
    BY <1>3
  <2>4. k \in 1..n /\ k - 1 \in 0..n /\ ~(k <= k - 1)
    BY <2>3
  <2>5. Good(k - 1)
    BY <2>2, <2>4
  <2> QED
    BY <1>4, <2>3, <2>4, <2>5
<1>6. PICK b \in [0..n -> V] : Built(b, n)
  <2>1. n \in 0..n
    OBVIOUS
  <2>2. Good(n)
    <3> HIDE DEF Good
    <3> QED
      BY <1>5, <2>1
  <2> QED
    BY <2>2
<1>7. b = body(b)
  BY <1>6
<1>8. b1 = body(b1)
  BY <1>7
<1> HIDE DEF b1
<1>9. b1[n] \in V
  <2> DEFINE Wrong == {k \in 0..n : b1[k] \notin V}
  <2> SUFFICES ASSUME Wrong # {} PROVE FALSE
    OBVIOUS
  <2>1. Wrong \in SUBSET Nat
    OBVIOUS
  <2>2. PICK k \in Wrong : \A m \in Wrong : k <= m
    BY <2>1, LeastNatural
  <2>3. k \in 0..n /\ b1[k] = (IF k = 0 THEN <<>> ELSE more(b1[k - 1], k))
    BY <1>8
  <2>4. k # 0
    BY <1>2, <2>3
  <2>5. k \in 1..n /\ k - 1 \in 0..n /\ ~(k <= k - 1)
    BY <2>3, <2>4
  <2>6. b1[k - 1] \in V
    BY <2>2, <2>5
  <2> QED
    BY <1>1, <2>3, <2>4, <2>5, <2>6
<1>10. Len(blocks) = n
  OBVIOUS
<1>11. M!buildSelectedFiles(blocks, budget) = b1[n]
  BY <1>10 DEF M!buildSelectedFiles, b1, more
<1> QED
  BY <1>9, <1>11 DEF V
-----------------------------------------------------------------------------
(* The parts taken so far. *)
UpTo(ps, i) == SumFunctionOnSet([j \in DOMAIN ps |-> Len(ps[j])], 1..i)

Beginning(ps, os, i) ==
  /\ Len(ps[i]) <= Len(os[i]) /\ ps[i] = SubSeq(os[i], 1, Len(ps[i]))
  /\ Len(ps[i]) < Len(os[i]) =>
       /\ os[i][Len(ps[i]) + 1]
       /\ \A e \in Len(ps[i]) + 1 .. Len(os[i]) :
            e = Len(os[i]) \/ os[i][e + 1] => UpTo(ps, i - 1) + e > MaxBytes

PartsOK(ps, os, rem) ==
  /\ ps \in Seq(Seq(BOOLEAN)) /\ os \in Seq(Seq(BOOLEAN)) /\ Len(ps) = Len(os)
  /\ rem \in Nat
  /\ UpTo(ps, Len(ps)) + rem = MaxBytes

CutsOK(ps, os, rem) ==
  \A i \in DOMAIN ps :
    /\ Beginning(ps, os, i)
    /\ Len(ps[i]) < Len(os[i]) => rem <= 3 /\ \A j \in DOMAIN ps : i < j => Len(ps[j]) <= 3

PartInv == PartsOK(parts, offered, remaining) /\ CutsOK(parts, offered, remaining)

LEMMA UpToOfAppend ==
  ASSUME NEW ps \in Seq(Seq(BOOLEAN)), NEW t \in Seq(BOOLEAN)
  PROVE  /\ UpTo(Append(ps, t), Len(ps) + 1) = UpTo(ps, Len(ps)) + Len(t)
         /\ \A i \in 0..Len(ps) : UpTo(Append(ps, t), i) = UpTo(ps, i)
<1> DEFINE n == Len(ps)
           f == [j \in DOMAIN ps |-> Len(ps[j])]
           g == [j \in DOMAIN Append(ps, t) |-> Len(Append(ps, t)[j])]
<1>1. /\ n \in Nat /\ g[n + 1] = Len(t) /\ g[n + 1] \in Int
      /\ \A i \in 1..n : f[i] \in Int /\ g[i] = f[i]
  <2>1. n \in Nat /\ DOMAIN ps = 1..n /\ DOMAIN Append(ps, t) = 1..(n + 1)
    OBVIOUS
  <2>2. Append(ps, t)[n + 1] = t /\ Len(t) \in Int
    OBVIOUS
  <2>3. \A i \in 1..n : Append(ps, t)[i] = ps[i] /\ Len(ps[i]) \in Int
    OBVIOUS
  <2>4. n + 1 \in 1..(n + 1) /\ \A i \in 1..n : i \in 1..(n + 1)
    BY <2>1
  <2> QED
    BY <2>1, <2>2, <2>3, <2>4
<1> HIDE DEF n, f, g
<1>2. SumFunctionOnSet(g, 1..(n + 1)) = SumFunctionOnSet(f, 1..n) + g[n + 1]
  BY <1>1, SumOfNext
<1>3. ASSUME NEW i \in 0..n PROVE SumFunctionOnSet(g, 1..i) = SumFunctionOnSet(f, 1..i)
  <2>1. \A x \in 1..i : x \in 1..n
    BY <1>1
  <2>2. IsFiniteSet(1..i) /\ \A x \in 1..i : f[x] \in Int /\ g[x] = f[x]
    <3>1. IsFiniteSet(1..i)
      BY FS_Interval
    <3> QED
      BY <1>1, <2>1, <3>1
  <2> QED
    BY <2>2, SumAgree
<1> QED
  BY <1>1, <1>2, <1>3 DEF UpTo, n, f, g

LEMMA PartsAreNatural ==
  ASSUME NEW ps \in Seq(Seq(BOOLEAN))
  PROVE  UpTo(ps, Len(ps)) \in Nat
<1> DEFINE n == Len(ps)
           f == [j \in DOMAIN ps |-> Len(ps[j])]
<1>1. n \in Nat /\ \A i \in 1..n : f[i] \in Nat
  <2>1. n \in Nat /\ DOMAIN ps = 1..n /\ \A i \in 1..n : ps[i] \in Seq(BOOLEAN)
    OBVIOUS
  <2> QED
    BY <2>1
<1> HIDE DEF n, f
<1>2. IsFiniteSet(1..n)
  BY <1>1, FS_Interval
<1>3. SumFunctionOnSet(f, 1..n) \in Nat
  BY <1>1, <1>2, SumIsNatural
<1> QED
  BY <1>3 DEF UpTo, n, f

LEMMA PartTaken ==
  ASSUME NEW ps, NEW os, NEW rem, PartsOK(ps, os, rem), CutsOK(ps, os, rem),
         NEW text \in Seq(BOOLEAN), text \in M!Text \/ Len(text) <= rem,
         NEW t, t = M!truncateUTF8(text, rem)
  PROVE  /\ PartsOK(Append(ps, t), Append(os, text), rem - Len(t))
         /\ CutsOK(Append(ps, t), Append(os, text), rem - Len(t))
<1> DEFINE n == Len(ps)
           p2 == Append(ps, t)
           o2 == Append(os, text)
<1>1. /\ ps \in Seq(Seq(BOOLEAN)) /\ os \in Seq(Seq(BOOLEAN)) /\ Len(os) = n /\ n \in Nat
      /\ rem \in Nat /\ UpTo(ps, n) + rem = MaxBytes
  BY DEF PartsOK
<1>2. /\ t \in Seq(BOOLEAN) /\ Len(t) \in Nat /\ Len(text) \in Nat
      /\ Len(t) <= Len(text) /\ Len(t) <= rem /\ t = SubSeq(text, 1, Len(t))
      /\ Len(text) <= rem => t = text
      /\ Len(t) < Len(text) =>
           \A e \in Len(t) + 1 .. Len(text) : e = Len(text) \/ text[e + 1] => e > rem
  BY <1>1, Truncated
<1>3. Len(t) < Len(text) => text[Len(t) + 1] /\ rem - Len(t) <= 3
  BY <1>1, <1>2, ScrapIsSmall
<1>4. /\ p2 \in Seq(Seq(BOOLEAN)) /\ o2 \in Seq(Seq(BOOLEAN))
      /\ Len(p2) = n + 1 /\ Len(o2) = n + 1 /\ DOMAIN p2 = 1..(n + 1) /\ DOMAIN ps = 1..n
  BY <1>1, <1>2
<1>5. p2[n + 1] = t /\ o2[n + 1] = text /\ \A i \in 1..n : p2[i] = ps[i] /\ o2[i] = os[i]
  BY <1>1, <1>2
<1>6. UpTo(p2, n + 1) = UpTo(ps, n) + Len(t) /\ \A i \in 0..n : UpTo(p2, i) = UpTo(ps, i)
  BY <1>1, <1>2, UpToOfAppend
<1>7. UpTo(ps, n) \in Int
  <2> DEFINE f == [j \in DOMAIN ps |-> Len(ps[j])]
  <2>1. IsFiniteSet(1..n)
    BY <1>1, FS_Interval
  <2>0. \A i \in 1..n : f[i] \in Int
    <3>1. \A i \in 1..n : ps[i] \in Seq(BOOLEAN) /\ f[i] = Len(ps[i])
      BY <1>1, <1>4
    <3> QED
      BY <3>1
  <2> HIDE DEF f
  <2>2. SumFunctionOnSet(f, 1..n) \in Int
    BY <2>0, <2>1, SumIsInteger
  <2> QED
    BY <2>2 DEF UpTo, f, n
<1> HIDE DEF n, p2, o2
<1>8. PartsOK(p2, o2, rem - Len(t))
  <2>1. rem - Len(t) \in Nat /\ UpTo(p2, n + 1) + (rem - Len(t)) = MaxBytes
    BY <1>1, <1>2, <1>6, <1>7
  <2> QED
    BY <1>4, <2>1 DEF PartsOK
<1>9. ASSUME NEW i \in 1..(n + 1)
      PROVE  /\ Beginning(p2, o2, i)
             /\ Len(p2[i]) < Len(o2[i]) =>
                  rem - Len(t) <= 3 /\ \A j \in 1..(n + 1) : i < j => Len(p2[j]) <= 3
  <2>1. CASE i = n + 1
    <3>1. i - 1 = n /\ i - 1 \in 0..n
      BY <1>1, <2>1
    <3>2. UpTo(p2, i - 1) + rem = MaxBytes /\ UpTo(p2, i - 1) \in Int
      BY <1>1, <1>6, <1>7, <3>1
    <3>3. ASSUME NEW e \in Len(t) + 1 .. Len(text), e > rem
          PROVE  UpTo(p2, i - 1) + e > MaxBytes
      BY <1>1, <1>2, <3>2, <3>3
    <3>4. \A j \in 1..(n + 1) : ~(i < j)
      BY <1>1, <2>1
    <3>5. Beginning(p2, o2, i)
      BY <1>2, <1>3, <1>5, <2>1, <3>3 DEF Beginning
    <3> QED
      BY <1>3, <1>5, <2>1, <3>4, <3>5
  <2>2. CASE i \in 1..n
    <3>1. Beginning(ps, os, i) /\ (Len(ps[i]) < Len(os[i]) =>
            rem <= 3 /\ \A j \in 1..n : i < j => Len(ps[j]) <= 3)
      BY <1>4, <2>2 DEF CutsOK
    <3>2. p2[i] = ps[i] /\ o2[i] = os[i]
      BY <1>5, <2>2
    <3>3. i - 1 \in 0..n
      BY <1>1, <2>2
    <3>4. UpTo(p2, i - 1) = UpTo(ps, i - 1)
      BY <1>6, <3>3
    <3>5. Beginning(p2, o2, i)
      BY <3>1, <3>2, <3>4 DEF Beginning
    <3>6. ASSUME Len(p2[i]) < Len(o2[i]), NEW j \in 1..(n + 1), i < j
          PROVE  Len(p2[j]) <= 3
      <4>1. rem <= 3 /\ \A k \in 1..n : i < k => Len(ps[k]) <= 3
        BY <3>1, <3>2, <3>6
      <4>2. CASE j = n + 1
        BY <1>1, <1>2, <1>5, <4>1, <4>2
      <4>3. CASE j \in 1..n
        BY <1>5, <3>6, <4>1, <4>3
      <4> QED
        BY <1>1, <4>2, <4>3
    <3>7. Len(p2[i]) < Len(o2[i]) => rem - Len(t) <= 3
      BY <1>1, <1>2, <3>1, <3>2
    <3> QED
      BY <3>5, <3>6, <3>7
  <2> QED
    BY <1>1, <2>1, <2>2
<1>10. CutsOK(p2, o2, rem - Len(t))
  BY <1>4, <1>9 DEF CutsOK
<1> QED
  BY <1>8, <1>10 DEF p2, o2

LEMMA TakenKeepsInv ==
  ASSUME PartInv, NEW text \in Seq(BOOLEAN), text \in M!Text \/ Len(text) <= remaining,
         M!takeBudget(text)
  PROVE  PartInv'
<1>1. remaining \in Nat
  BY DEF PartInv, PartsOK
<1> DEFINE t == M!truncateUTF8(text, remaining)
<1>2. (IF remaining <= 0 THEN <<>> ELSE M!truncateUTF8(text, remaining)) = t
  BY <1>1 DEF M!truncateUTF8
<1>3. offered' = Append(offered, text) /\ parts' = Append(parts, t) /\ remaining' = remaining - Len(t)
  BY <1>2 DEF M!takeBudget
<1> HIDE DEF t
<1>4. /\ PartsOK(Append(parts, t), Append(offered, text), remaining - Len(t))
      /\ CutsOK(Append(parts, t), Append(offered, text), remaining - Len(t))
  BY PartTaken DEF PartInv, t
<1>5. PartsOK(parts', offered', remaining') /\ CutsOK(parts', offered', remaining')
  BY <1>3, <1>4
<1> QED
  BY <1>5 DEF PartInv, PartsOK, CutsOK, Beginning, UpTo

LEMMA NoParts ==
  ASSUME remaining = MaxBytes, offered = <<>>, parts = <<>>
  PROVE  PartInv
<1>1. <<>> \in Seq(Seq(BOOLEAN)) /\ Len(<<>>) = 0 /\ 1..0 = {} /\ DOMAIN <<>> = {}
  OBVIOUS
<1>2. UpTo(parts, Len(parts)) = 0
  BY <1>1, SumEmpty DEF UpTo
<1>3. PartsOK(parts, offered, remaining)
  BY <1>1, <1>2, MaterialAssumption DEF PartsOK
<1>4. CutsOK(parts, offered, remaining)
  BY <1>1 DEF CutsOK
<1> QED
  BY <1>3, <1>4 DEF PartInv

-----------------------------------------------------------------------------
MaterialInv == UnpackInv /\ PartInv

LEMMA UntarKeepsMaterial ==
  ASSUME MaterialInv, M!UntarFile
  PROVE  MaterialInv'
<1>1. UnpackInv'
  BY UntarKeepsInv DEF MaterialInv
<1>2. UNCHANGED <<remaining, offered, parts>>
  BY DEF M!UntarFile, M!material
<1>3. PartInv'
  BY <1>2 DEF MaterialInv, PartInv, PartsOK, CutsOK, Beginning, UpTo
<1> QED
  BY <1>1, <1>3 DEF MaterialInv

LEMMA TakingKeepsMaterial ==
  ASSUME MaterialInv, M!TakeText \/ M!TakeFiles
  PROVE  MaterialInv'
<1>1. UNCHANGED <<sizes, files, total>> /\ step = "select" /\ step' \in {"select", "done"}
  BY DEF M!TakeText, M!TakeFiles
<1>2. UnpackInv'
  BY <1>1 DEF MaterialInv, UnpackInv, Offered
<1>3. CASE M!TakeText
  <2>1. PICK text \in Texts : M!takeBudget(text)
    BY <1>3 DEF M!TakeText
  <2>2. text \in M!Text /\ text \in Seq(BOOLEAN)
    BY MaterialAssumption DEF M!Text
  <2> QED
    BY <1>2, <2>1, <2>2, TakenKeepsInv DEF MaterialInv
<1>4. CASE M!TakeFiles
  <2>1. PICK n \in 0..Len(files) : \E blocks \in [1..n -> Texts] :
             M!takeBudget(M!buildSelectedFiles(blocks, remaining))
    BY <1>4 DEF M!TakeFiles
  <2>2. PICK blocks \in [1..n -> Texts] : M!takeBudget(M!buildSelectedFiles(blocks, remaining))
    BY <2>1
  <2>3. remaining \in Nat
    BY DEF MaterialInv, PartInv, PartsOK
  <2>4. n \in Nat
    BY <1>1 DEF MaterialInv, UnpackInv
  <2>5. blocks \in [1..n -> Seq(BOOLEAN)]
    BY MaterialAssumption DEF M!Text
  <2>6. /\ M!buildSelectedFiles(blocks, remaining) \in Seq(BOOLEAN)
        /\ Len(M!buildSelectedFiles(blocks, remaining)) <= remaining
    BY <2>3, <2>4, <2>5, BlocksKeepBudget
  <2> QED
    BY <1>2, <2>2, <2>6, TakenKeepsInv DEF MaterialInv
<1> QED
  BY <1>3, <1>4

LEMMA SameMaterial ==
  ASSUME MaterialInv, UNCHANGED <<sizes, files, total, remaining, offered, parts>>,
         step' = step \/ (step = "unpack" /\ step' \in {"select", "failed"})
  PROVE  MaterialInv'
<1>1. UnpackInv'
  BY DEF MaterialInv, UnpackInv, Offered
<1>2. PartInv'
  BY DEF MaterialInv, PartInv, PartsOK, CutsOK, Beginning, UpTo
<1> QED
  BY <1>1, <1>2 DEF MaterialInv

LEMMA NoMaterial ==
  /\ M!Init => MaterialInv
  /\ Discard => MaterialInv'
<1>1. ASSUME M!Init PROVE MaterialInv
  BY <1>1, EmptyArchive, NoParts DEF M!Init, MaterialInv
<1>2. ASSUME Discard PROVE MaterialInv'
  <2>1. UnpackInv'
    <3>1. sizes' = <<>> /\ files' = <<>> /\ total' = 0 /\ step' = "unpack"
      BY <1>2 DEF Discard
    <3>2. Len(<<>>) = 0 /\ 1..0 = {} /\ <<>> \in Seq(Nat)
      OBVIOUS
    <3>3. Offered(sizes') = 0
      BY <3>1, <3>2, SumEmpty DEF Offered
    <3> QED
      BY <3>1, <3>2, <3>3, MaterialAssumption DEF UnpackInv, Offered
  <2>2. PartInv'
    <3>1. remaining' = MaxBytes /\ offered' = <<>> /\ parts' = <<>>
      BY <1>2 DEF Discard
    <3>2. <<>> \in Seq(Seq(BOOLEAN)) /\ Len(<<>>) = 0 /\ 1..0 = {} /\ DOMAIN <<>> = {}
      OBVIOUS
    <3>3. UpTo(parts', Len(parts')) = 0
      BY <3>1, <3>2, SumEmpty DEF UpTo
    <3>4. PartsOK(parts', offered', remaining')
      BY <3>1, <3>2, <3>3, MaterialAssumption DEF PartsOK
    <3>5. CutsOK(parts', offered', remaining')
      BY <3>1, <3>2 DEF CutsOK
    <3> QED
      BY <3>4, <3>5 DEF PartInv, PartsOK, CutsOK, Beginning, UpTo
  <2> QED
    BY <2>1, <2>2 DEF MaterialInv
<1> QED
  BY <1>1, <1>2

LEMMA MaterialStep ==
  ASSUME MaterialInv, [WorkingNext]_workingVars
  PROVE  MaterialInv'
<1>1. CASE UNCHANGED material
  BY <1>1, SameMaterial DEF material
<1>2. CASE UNCHANGED workingVars
  BY <1>1, <1>2 DEF workingVars
<1>3. CASE M!UntarFile
  BY <1>3, UntarKeepsMaterial
<1>4. CASE M!TakeText \/ M!TakeFiles
  BY <1>4, TakingKeepsMaterial
<1>5. CASE M!UntarEnds \/ M!UntarFails
  BY <1>5, SameMaterial DEF M!UntarEnds, M!UntarFails, M!material
<1>6. CASE Discard
  BY <1>6, NoMaterial
<1>7. CASE Follow
  BY <1>1, <1>5, <1>6, <1>7 DEF Follow
<1> QED
  BY <1>2, <1>3, <1>4, <1>7 DEF WorkingNext

(* What TypeOK of MaterialBudget says beside MaterialInv. *)
Shape ==
  /\ step \in {"unpack", "too large", "failed", "select", "done"}
  /\ sizes \in Seq(Sizes) /\ Len(sizes) <= MaxEntries /\ files \in Seq(Nat)
  /\ Len(parts) <= 4 /\ (step = "done" <=> Len(parts) = 4)

LEMMA ShapeStep ==
  ASSUME MaterialInv, Shape, [WorkingNext]_workingVars
  PROVE  Shape'
<1>1. CASE UNCHANGED material
  BY <1>1 DEF Shape, material
<1>2. CASE UNCHANGED workingVars
  BY <1>1, <1>2 DEF workingVars
<1>3. CASE M!UntarFile
  <2>1. PICK size \in Sizes :
           /\ sizes' = Append(sizes, size)
           /\ \/ step' = "too large" /\ UNCHANGED files
              \/ /\ files' = Append(files, M!writeFileCapped(size, MaxTotalBytes - total))
                 /\ UNCHANGED step
    BY <1>3 DEF M!UntarFile
  <2>2. sizes \in Seq(Sizes) /\ Len(sizes) < MaxEntries /\ MaxEntries \in Nat
    BY <1>3, MaterialAssumption DEF Shape, M!UntarFile
  <2>3. sizes' \in Seq(Sizes) /\ Len(sizes') <= MaxEntries
    <3>1. sizes' = Append(sizes, size)
      BY <2>1
    <3> QED
      BY <2>2, <3>1
  <2>4. files' \in Seq(Nat)
    <3> DEFINE written == M!writeFileCapped(size, MaxTotalBytes - total)
    <3>1. total \in Nat /\ files \in Seq(Nat)
      BY DEF MaterialInv, UnpackInv, Shape
    <3>2. size \in Nat /\ MaxTotalBytes \in Nat
      BY MaterialAssumption
    <3>3. written \in Nat
      BY <3>1, <3>2 DEF M!writeFileCapped
    <3>4. files' = files \/ files' = Append(files, written)
      BY <2>1
    <3> HIDE DEF written
    <3> QED
      BY <3>1, <3>3, <3>4
  <2>5. step = "unpack" /\ parts' = parts /\ Len(parts) <= 4 /\ Len(parts) # 4
    BY <1>3 DEF M!UntarFile, M!material, Shape
  <2> QED
    BY <2>1, <2>3, <2>4, <2>5 DEF Shape
<1>4. CASE M!TakeText \/ M!TakeFiles
  <2>1. UNCHANGED <<sizes, files>>
    BY <1>4 DEF M!TakeText, M!TakeFiles
  <2>2. \E t : parts' = Append(parts, t)
    BY <1>4 DEF M!TakeText, M!TakeFiles, M!takeBudget
  <2>3. parts \in Seq(Seq(BOOLEAN)) /\ parts' \in Seq(Seq(BOOLEAN))
    <3>1. MaterialInv'
      BY <1>4, TakingKeepsMaterial
    <3> QED
      BY <3>1 DEF MaterialInv, PartInv, PartsOK
  <2>4. Len(parts') = Len(parts) + 1 /\ Len(parts) \in Nat
    BY <2>2, <2>3
  <2>5. CASE M!TakeText
    <3>1. step = "select" /\ step' = "select" /\ Len(parts) < 3
      BY <2>5 DEF M!TakeText
    <3>2. Len(parts') <= 4 /\ Len(parts') # 4
      BY <2>4, <3>1
    <3> QED
      BY <2>1, <3>1, <3>2 DEF Shape
  <2>6. CASE M!TakeFiles
    <3>1. step' = "done" /\ Len(parts) = 3
      BY <2>6 DEF M!TakeFiles
    <3>2. Len(parts') <= 4 /\ Len(parts') = 4
      BY <2>4, <3>1
    <3> QED
      BY <2>1, <3>1, <3>2 DEF Shape
  <2> QED
    BY <1>4, <2>5, <2>6
<1>5. CASE M!UntarEnds \/ M!UntarFails
  BY <1>5 DEF M!UntarEnds, M!UntarFails, M!material, Shape
<1>6. CASE Discard
  <2>1. <<>> \in Seq(Sizes) /\ <<>> \in Seq(Nat) /\ Len(<<>>) = 0
    OBVIOUS
  <2>2. 0 <= MaxEntries /\ 0 <= 4 /\ 0 # 4
    BY MaterialAssumption
  <2>3. sizes' = <<>> /\ files' = <<>> /\ parts' = <<>> /\ step' = "unpack"
    BY <1>6 DEF Discard
  <2> QED
    BY <2>1, <2>2, <2>3 DEF Shape
<1>7. CASE Follow
  BY <1>1, <1>5, <1>6, <1>7 DEF Follow
<1> QED
  BY <1>2, <1>3, <1>4, <1>7 DEF WorkingNext

(* Every variable of the archive and the material keeps its type. *)
THEOREM MaterialTypeCorrect == WorkingSpec => []M!TypeOK
<1>1. WorkingInit => MaterialInv /\ Shape
  <2>1. <<>> \in Seq(Sizes) /\ <<>> \in Seq(Nat) /\ Len(<<>>) = 0
    OBVIOUS
  <2>2. M!Init => Shape
    BY <2>1, MaterialAssumption DEF M!Init, Shape
  <2> QED
    BY <2>2, NoMaterial DEF WorkingInit
<1>2. MaterialInv /\ Shape => M!TypeOK
  <2> SUFFICES ASSUME MaterialInv, Shape PROVE M!TypeOK
    OBVIOUS
  <2>1. total \in 0..(MaxTotalBytes + 1)
    <3>1. total \in Nat /\ MaxTotalBytes \in Nat
      BY MaterialAssumption DEF MaterialInv, UnpackInv
    <3>2. total <= MaxTotalBytes \/ total = MaxTotalBytes + 1
      BY DEF MaterialInv, UnpackInv
    <3> QED
      BY <3>1, <3>2
  <2>2. remaining \in 0..MaxBytes
    <3>1. remaining \in Nat /\ UpTo(parts, Len(parts)) + remaining = MaxBytes
      BY DEF MaterialInv, PartInv, PartsOK
    <3>2. UpTo(parts, Len(parts)) \in Nat
      BY PartsAreNatural DEF MaterialInv, PartInv, PartsOK
    <3> QED
      BY <3>1, <3>2, MaterialAssumption
  <2>3. /\ offered \in Seq(Seq(BOOLEAN)) /\ parts \in Seq(Seq(BOOLEAN))
        /\ Len(parts) = Len(offered)
    BY DEF MaterialInv, PartInv, PartsOK
  <2>4. Len(M!Part) = 4
    BY DEF M!Part
  <2> QED
    BY <2>1, <2>2, <2>3, <2>4 DEF Shape, M!TypeOK
<1> QED
  BY <1>1, <1>2, MaterialStep, ShapeStep, PTL DEF WorkingSpec

(* The archive is refused exactly when its files exceed the cap together,  *)
(* and what is accepted was unpacked whole, for every cap and archive      *)
(* (writeFileCapped).                                                      *)
THEOREM ArchiveCapIsExact == WorkingSpec => []TooLargeExactly
<1>1. MaterialInv => TooLargeExactly
  <2> SUFFICES ASSUME MaterialInv PROVE TooLargeExactly
    OBVIOUS
  <2>1. sizes \in Seq(Nat)
    BY DEF MaterialInv, UnpackInv
  <2>2. total \in Nat /\ MaxTotalBytes \in Nat
    BY MaterialAssumption DEF MaterialInv, UnpackInv
  <2> DEFINE refused == step = "too large"
  <2>3. refused => Offered(sizes) > MaxTotalBytes /\ total = MaxTotalBytes + 1
    BY DEF MaterialInv, UnpackInv
  <2>4. ~refused => total = Offered(sizes) /\ total <= MaxTotalBytes
    BY DEF MaterialInv, UnpackInv
  <2>5. ~refused => files = sizes
    BY DEF MaterialInv, UnpackInv
  <2>6. M!SumFunction(sizes) = Offered(sizes)
    <3>1. DOMAIN sizes = 1..Len(sizes)
      BY <2>1
    <3> QED
      BY <3>1, SumIsTheSame DEF M!SumFunction, Offered
  <2>7. Offered(sizes) \in Int
    <3>1. Len(sizes) \in Nat /\ \A i \in 1..Len(sizes) : sizes[i] \in Int
      BY <2>1
    <3>2. IsFiniteSet(1..Len(sizes))
      BY <3>1, FS_Interval
    <3> QED
      BY <3>1, <3>2, SumIsInteger DEF Offered
  <2> HIDE DEF refused
  <2>8. refused <=> M!SumFunction(sizes) > MaxTotalBytes
    BY <2>2, <2>3, <2>4, <2>6, <2>7
  <2>9. total <= MaxTotalBytes + 1
    BY <2>2, <2>3, <2>4
  <2> QED
    BY <2>5, <2>8, <2>9 DEF TooLargeExactly, M!TooLargeExactly, refused
<1>2. WorkingInit => MaterialInv
  BY NoMaterial DEF WorkingInit
<1> QED
  BY <1>1, <1>2, MaterialStep, PTL DEF WorkingSpec

(* The parts of the material keep the budget, end between characters and   *)
(* are cut in order of priority, for every budget and all texts            *)
(* (takeBudget, truncateUTF8, buildSelectedFiles).                         *)
THEOREM BudgetIsKept == WorkingSpec => []PartsKeepBudget
<1>1. MaterialInv => PartsKeepBudget
  <2> SUFFICES ASSUME MaterialInv PROVE PartsKeepBudget
    OBVIOUS
  <2>1. \A i : M!TakenUpTo(i) = UpTo(parts, i)
    BY SumIsTheSame DEF M!TakenUpTo, UpTo
  <2>2. /\ parts \in Seq(Seq(BOOLEAN)) /\ offered \in Seq(Seq(BOOLEAN))
        /\ Len(parts) = Len(offered) /\ UpTo(parts, Len(parts)) + remaining = MaxBytes
    BY DEF MaterialInv, PartInv, PartsOK
  <2>3. ASSUME NEW i \in DOMAIN parts PROVE Beginning(parts, offered, i)
    BY DEF MaterialInv, PartInv, CutsOK
  <2>4. M!WithinBudget
    BY <2>1, <2>2 DEF M!WithinBudget
  <2>5. M!ScrapsAfterCut
    BY DEF M!ScrapsAfterCut, MaterialInv, PartInv, CutsOK
  <2>6. M!WholeCharacters
    <3> SUFFICES ASSUME NEW i \in DOMAIN parts
                 PROVE  /\ M!IsPrefix(parts[i], offered[i])
                        /\ Len(parts[i]) < Len(offered[i]) =>
                             /\ offered[i][Len(parts[i]) + 1]
                             /\ \A e \in {e \in Len(parts[i]) + 1 .. Len(offered[i]) :
                                            e = Len(offered[i]) \/ offered[i][e + 1]} :
                                  M!TakenUpTo(i - 1) + e > MaxBytes
      BY DEF M!WholeCharacters
    <3>1. parts[i] \in Seq(BOOLEAN) /\ offered[i] \in Seq(BOOLEAN)
      BY <2>2
    <3>2. M!IsPrefix(parts[i], offered[i])
      BY <2>3, <3>1 DEF Beginning, M!IsPrefix
    <3> QED
      BY <2>1, <2>3, <3>2 DEF Beginning
  <2> QED
    BY <2>4, <2>5, <2>6 DEF PartsKeepBudget, M!PartsKeepBudget
<1>2. WorkingInit => MaterialInv
  BY NoMaterial DEF WorkingInit
<1> QED
  BY <1>1, <1>2, MaterialStep, PTL DEF WorkingSpec

-----------------------------------------------------------------------------
(* With the archive and the material in the state, the steps are still     *)
(* those of JobProcess.                                                    *)
LEMMA WorkingIsProcessing == WorkingSpec => Spec
<1>1. WorkingInit => Init
  BY DEF WorkingInit
<1>2. [WorkingNext]_workingVars => [Next]_vars
  BY DEF WorkingNext, workingVars
<1> QED
  BY <1>1, <1>2, PTL DEF WorkingSpec, Spec

(* Unpacking and selecting take nothing from what holds of JobProcess: the *)
(* errors are judged, retried and cleaned up after as without them.        *)
THEOREM DetailKeepsPromises ==
  WorkingSpec => /\ [](OnlyUntarMisjudges /\ LastingErrorIsNotRetried)
                 /\ [](SlownessIsNoFailure /\ NothingHeldBetweenJobs)
                 /\ StepsOfLifecycle
BY WorkingIsProcessing, FailuresAreJudged, RetriesAreWorthwhile, NothingIsLeaked,
   SlowJobsAreRetried, ProcessKeepsLifecycle, PTL
=============================================================================
