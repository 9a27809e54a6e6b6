---------------------- MODULE NarrativePipelineProofs ----------------------
(***************************************************************************)
(* Machine-checked proofs about NarrativePipeline, for every set of jobs,  *)
(* messages and invocation slots and every timing that satisfies the       *)
(* stated assumption.                                                      *)
(***************************************************************************)
EXTENDS NarrativePipeline, TLAPS

(* Every action, with the variables it works on expanded. *)
LEMMA NextCases ==
  ASSUME Next
  PROVE  \/ \E j \in Jobs : Submit(j) \/ PutInitialRecord(j) \/ EnqueueJob(j)
         \/ \E m \in Messages : InjectMessage(m) \/ Resurface(m) \/ DeadLetter(m)
         \/ \E w \in Workers, msgs \in SUBSET Messages : Receive(w, msgs)
         \/ \E w \in Workers, m \in Messages : HandleRecord(w, m)
         \/ \E w \in Workers : \/ MarkProcessing(w) \/ PrepareMaterial(w) \/ Generate(w)
                               \/ MarkCompleted(w) \/ MarkFailed(w)
                               \/ DeleteMessages(w) \/ Kill(w)
         \/ Tick
BY DEF Next, ApiStep, SqsStep, WorkerStep, Messages


(* While Process runs it has a record in hand. *)
HandInv == \A w \in Workers : pc[w] \in Owning \cup {"claim"} => cur[w] \in Messages

(***************************************************************************)
(* Type correctness.  TypeOK needs HandInv: Process reports cur[w].        *)
(***************************************************************************)
TypeInv == TypeOK /\ HandInv

LEMMA InitTypeInv == Init => TypeInv
BY PipelineAssumption
   DEF Init, TypeInv, TypeOK, HandInv, PipelineAssumption, ApiState, Status, QueueState, Phase,
       Owning

(* Process's three ways on keep the worker's variables typed. *)
LEMMA ProceedTyped ==
  ASSUME TypeInv, NEW w \in Workers, pc[w] \in Owning \cup {"claim"},
         NEW phase \in Owning, Proceed(w, phase)
  PROVE  /\ pc' \in [Workers -> Phase]
         /\ batch' \in [Workers -> SUBSET Messages]
         /\ todo' \in [Workers -> SUBSET Messages]
         /\ failures' \in [Workers -> SUBSET Messages]
         /\ cur' \in [Workers -> Messages \cup {None}]
         /\ clock' \in [Workers -> 0..LambdaTimeout]
         /\ HandInv'
BY DEF TypeInv, TypeOK, HandInv, Proceed, Phase, Owning

LEMMA ProcessReturnsTyped ==
  ASSUME TypeInv, NEW w \in Workers, pc[w] \in Owning \cup {"claim"},
         NEW report \in BOOLEAN, ProcessReturns(w, report)
  PROVE  /\ pc' \in [Workers -> Phase]
         /\ batch' \in [Workers -> SUBSET Messages]
         /\ todo' \in [Workers -> SUBSET Messages]
         /\ failures' \in [Workers -> SUBSET Messages]
         /\ cur' \in [Workers -> Messages \cup {None}]
         /\ clock' \in [Workers -> 0..LambdaTimeout]
         /\ HandInv'
<1> USE DEF ProcessReturns, TypeInv, TypeOK
<1>1. cur[w] \in Messages
  BY DEF HandInv
<1>2. failures' \in [Workers -> SUBSET Messages]
  BY <1>1
<1>3. HandInv'
  BY DEF HandInv, Owning
<1> QED
  BY <1>2, <1>3 DEF Phase

LEMMA SetStatusTyped ==
  ASSUME TypeInv, NEW m \in Messages, NEW s \in Status, SetStatus(m, s)
  PROVE  status' \in [Messages -> Status] /\ age' \in [Messages -> 0..(Lease + 1)]
BY PipelineAssumption DEF PipelineAssumption, TypeInv, TypeOK, SetStatus

LEMMA StepTypeInv == TypeInv /\ [Next]_vars => TypeInv'
<1> SUFFICES ASSUME TypeInv, [Next]_vars PROVE TypeInv'
  OBVIOUS
<1> USE PipelineAssumption DEF PipelineAssumption, TypeInv
<1>1. CASE UNCHANGED vars
  BY <1>1 DEF TypeOK, HandInv, vars, recordVars, sqsVars, workerVars
<1>2. ASSUME NEW j \in Jobs, Submit(j) \/ PutInitialRecord(j) \/ EnqueueJob(j)
      PROVE  TypeInv'
  <2>1. j \in Messages
    BY DEF Messages
  <2>2. CASE Submit(j)
    BY <2>2 DEF Submit, TypeOK, HandInv, ApiState, recordVars, sqsVars, workerVars
  <2>3. CASE PutInitialRecord(j)
    BY <2>1, <2>3 DEF PutInitialRecord, TypeOK, HandInv, ApiState, Status, sqsVars, workerVars
  <2>4. CASE EnqueueJob(j)
    BY <2>1, <2>4 DEF EnqueueJob, TypeOK, HandInv, ApiState, QueueState, recordVars, workerVars
  <2> QED
    BY <1>2, <2>2, <2>3, <2>4
<1>3. ASSUME NEW m \in Messages, InjectMessage(m) \/ Resurface(m) \/ DeadLetter(m)
      PROVE  TypeInv'
  BY <1>3 DEF InjectMessage, Resurface, DeadLetter, TypeOK, HandInv, QueueState, recordVars,
              workerVars
<1>4. ASSUME NEW w \in Workers, NEW msgs \in SUBSET Messages, Receive(w, msgs)
      PROVE  TypeInv'
  <2>1. TypeOK'
    BY <1>4 DEF Receive, Receivable, TypeOK, Phase, recordVars
  <2>2. HandInv'
    BY <1>4 DEF Receive, TypeOK, HandInv, Owning
  <2> QED
    BY <2>1, <2>2
<1>5. ASSUME NEW w \in Workers, NEW m \in Messages, HandleRecord(w, m)
      PROVE  TypeInv'
  <2>1. TypeOK'
    BY <1>5 DEF HandleRecord, TypeOK, Phase, recordVars, sqsVars
  <2>2. HandInv'
    BY <1>5 DEF HandleRecord, TypeOK, HandInv, Owning
  <2> QED
    BY <2>1, <2>2
<1>6. ASSUME NEW w \in Workers,
             MarkProcessing(w) \/ PrepareMaterial(w) \/ Generate(w) \/ MarkCompleted(w)
               \/ MarkFailed(w)
      PROVE  TypeInv'
  <2>1. pc[w] \in Owning \cup {"claim"}
    BY <1>6 DEF MarkProcessing, PrepareMaterial, Generate, MarkCompleted, MarkFailed, Owning
  <2>2. cur[w] \in Messages
    BY <2>1 DEF HandInv
  <2>3. \/ \E phase \in Owning : Proceed(w, phase)
        \/ \E report \in BOOLEAN : ProcessReturns(w, report)
    BY <1>6 DEF MarkProcessing, Acquire, RecordMissing, AlreadyProcessing, ClaimFails,
                ClaimMasked, PrepareMaterial, Generate, MarkCompleted, MarkFailed, WriteOutcome,
                Owning
  <2>4. UNCHANGED recordVars \/ \E s \in Status : SetStatus(cur[w], s)
    BY <1>6 DEF MarkProcessing, Acquire, RecordMissing, AlreadyProcessing, ClaimFails,
                ClaimMasked, PrepareMaterial, Generate, MarkCompleted, MarkFailed, WriteOutcome,
                Status, Terminal
  <2>5. status' \in [Messages -> Status] /\ age' \in [Messages -> 0..(Lease + 1)]
    BY <2>2, <2>4, SetStatusTyped DEF TypeOK, recordVars
  <2>6. UNCHANGED <<api, sqsVars>>
    BY <1>6 DEF MarkProcessing, PrepareMaterial, Generate, MarkCompleted, MarkFailed,
                WriteOutcome
  <2> QED
    BY <2>1, <2>3, <2>5, <2>6, ProceedTyped, ProcessReturnsTyped DEF TypeOK, sqsVars
<1>7. ASSUME NEW w \in Workers, DeleteMessages(w) \/ Kill(w)
      PROVE  TypeInv'
  <2>0. Release(w)
    BY <1>7 DEF DeleteMessages, Kill
  <2>1. /\ pc' \in [Workers -> Phase]
        /\ batch' \in [Workers -> SUBSET Messages]
        /\ todo' \in [Workers -> SUBSET Messages]
        /\ failures' \in [Workers -> SUBSET Messages]
        /\ cur' \in [Workers -> Messages \cup {None}]
        /\ clock' \in [Workers -> 0..LambdaTimeout]
    BY <2>0 DEF Release, TypeOK, Phase
  <2>2. HandInv'
    BY <2>0 DEF Release, TypeOK, HandInv, Owning
  <2>3. /\ queue' \in [Messages -> QueueState]
        /\ hidden' \in [Messages -> 0..Visibility]
    <3>1. CASE Kill(w)
      BY <3>1 DEF Kill, TypeOK, sqsVars
    <3>2. CASE DeleteMessages(w)
      BY <3>2 DEF DeleteMessages, TypeOK, QueueState
    <3> QED
      BY <1>7, <3>1, <3>2
  <2>4. UNCHANGED <<api, recordVars, received, dups>>
    BY <1>7 DEF DeleteMessages, Kill, sqsVars
  <2> QED
    BY <2>1, <2>2, <2>3, <2>4 DEF TypeOK, recordVars
<1>8. CASE Tick
  BY <1>8 DEF Tick, TypeOK, HandInv
<1> QED
  BY <1>1, <1>2, <1>3, <1>4, <1>5, <1>6, <1>7, <1>8, NextCases

THEOREM TypeInvariant == Spec => []TypeInv
BY InitTypeInv, StepTypeInv, PTL DEF Spec

(* Every variable stays in its range: receipts within the redrive limit,   *)
(* runs within the function timeout.                                       *)
THEOREM TypeCorrect == Spec => []TypeOK
BY TypeInvariant, PTL DEF TypeInv

-----------------------------------------------------------------------------
(***************************************************************************)
(* Mutual exclusion.  The lease is never shorter than a run, so a record   *)
(* an invocation owns cannot be claimed: its lease is no older than the    *)
(* invocation itself.                                                      *)
(***************************************************************************)
Leased ==
  \A w \in Workers :
    pc[w] \in Owning => status[cur[w]] = "processing" /\ age[cur[w]] <= clock[w]

OwnerInv == Leased /\ SingleOwner

LEMMA OwnedIsNotClaimable ==
  ASSUME LambdaTimeout <= Lease, TypeInv, Leased, NEW w \in Workers, pc[w] \in Owning
  PROVE  ~Claimable(cur[w])
<1>1. cur[w] \in Messages
  BY DEF TypeInv, HandInv
<1>2. age[cur[w]] <= clock[w] /\ status[cur[w]] = "processing"
  BY DEF Leased
<1>3. age[cur[w]] \in Int /\ clock[w] \in 0..LambdaTimeout
  BY <1>1, PipelineAssumption DEF TypeInv, TypeOK, PipelineAssumption
<1> QED
  BY <1>2, <1>3, PipelineAssumption DEF Claimable, PipelineAssumption

(* A step that leaves the records alone and in which nobody becomes owner. *)
LEMMA QuietStep ==
  ASSUME OwnerInv, UNCHANGED recordVars,
         \A v \in Workers : pc'[v] \in Owning =>
           pc[v] \in Owning /\ cur'[v] = cur[v] /\ clock'[v] = clock[v]
  PROVE  OwnerInv'
BY DEF OwnerInv, Leased, SingleOwner, recordVars

(* Worker w writes the record of m and, if it goes on, does so as owner. *)
LEMMA WriteStep ==
  ASSUME TypeInv, OwnerInv, NEW w \in Workers, NEW s \in Status,
         SetStatus(cur[w], s), cur[w] \in Messages,
         \A v \in Workers \ {w} : pc[v] \in Owning => cur[v] # cur[w],
         \/ s = "processing" /\ Proceed(w, "fetch")
         \/ \E report \in BOOLEAN : ProcessReturns(w, report)
  PROVE  OwnerInv'
<1> USE DEF TypeInv, TypeOK
<1>1. \A v \in Workers \ {w} : pc'[v] = pc[v] /\ cur'[v] = cur[v] /\ clock'[v] = clock[v]
  BY DEF Proceed, ProcessReturns
<1>2. \A m \in Messages \ {cur[w]} : status'[m] = status[m] /\ age'[m] = age[m]
  BY DEF SetStatus
<1>3. status'[cur[w]] = s /\ age'[cur[w]] = 0
  BY DEF SetStatus
<1>4. pc'[w] \in Owning => s = "processing" /\ cur'[w] = cur[w] /\ clock'[w] = clock[w]
  BY DEF Proceed, ProcessReturns, Owning
<1>5. clock[w] >= 0
  OBVIOUS
<1>6. \A v \in Workers \ {w} : pc[v] \in Owning => cur[v] \in Messages \ {cur[w]}
  BY DEF HandInv
<1>7. Leased'
  <2> SUFFICES ASSUME NEW v \in Workers, pc'[v] \in Owning
               PROVE  status'[cur'[v]] = "processing" /\ age'[cur'[v]] <= clock'[v]
    BY DEF Leased
  <2>1. CASE v = w
    BY <2>1, <1>3, <1>4, <1>5
  <2>2. CASE v # w
    BY <2>2, <1>1, <1>2, <1>6 DEF OwnerInv, Leased
  <2> QED
    BY <2>1, <2>2
<1>8. SingleOwner'
  BY <1>1, <1>4 DEF OwnerInv, SingleOwner
<1> QED
  BY <1>7, <1>8 DEF OwnerInv

LEMMA StepOwnerInv ==
  ASSUME LambdaTimeout <= Lease, TypeInv, OwnerInv, [Next]_vars
  PROVE  OwnerInv'
<1> USE DEF TypeInv
<1>1. CASE UNCHANGED vars
  BY <1>1, QuietStep DEF vars, recordVars, workerVars
<1>2. ASSUME NEW j \in Jobs, Submit(j) \/ PutInitialRecord(j) \/ EnqueueJob(j)
      PROVE  OwnerInv'
  <2>1. UNCHANGED workerVars
    BY <1>2 DEF Submit, PutInitialRecord, EnqueueJob
  <2>2. CASE UNCHANGED recordVars
    BY <2>1, <2>2, QuietStep DEF workerVars
  <2>3. CASE status[j] = "absent" /\ status' = [status EXCEPT ![j] = "queued"] /\ UNCHANGED age
    <3>1. \A v \in Workers : pc[v] \in Owning => cur[v] # j /\ cur[v] \in Messages
      BY <2>3 DEF OwnerInv, Leased, HandInv
    <3> QED
      BY <2>1, <2>3, <3>1 DEF OwnerInv, Leased, SingleOwner, workerVars, TypeOK
  <2> QED
    BY <1>2, <2>2, <2>3 DEF Submit, PutInitialRecord, EnqueueJob, recordVars
<1>3. ASSUME NEW m \in Messages, InjectMessage(m) \/ Resurface(m) \/ DeadLetter(m)
      PROVE  OwnerInv'
  BY <1>3, QuietStep DEF InjectMessage, Resurface, DeadLetter, workerVars
<1>4. ASSUME NEW w \in Workers, NEW msgs \in SUBSET Messages, Receive(w, msgs)
      PROVE  OwnerInv'
  BY <1>4, QuietStep DEF Receive, TypeOK, Owning
<1>5. ASSUME NEW w \in Workers, NEW m \in Messages, HandleRecord(w, m)
      PROVE  OwnerInv'
  BY <1>5, QuietStep DEF HandleRecord, TypeOK, Owning
<1>6. ASSUME NEW w \in Workers, PrepareMaterial(w) \/ Generate(w)
      PROVE  OwnerInv'
  BY <1>6, QuietStep DEF PrepareMaterial, Generate, Proceed, ProcessReturns, TypeOK, Owning
<1>7. ASSUME NEW w \in Workers, MarkProcessing(w)
      PROVE  OwnerInv'
  <2>1. cur[w] \in Messages /\ pc[w] \notin Owning
    BY <1>7 DEF MarkProcessing, HandInv, Owning
  <2>2. CASE UNCHANGED recordVars
    <3>1. ~(Claimable(cur[w]) /\ SetStatus(cur[w], "processing"))
      BY <2>1, <2>2, PipelineAssumption
         DEF Claimable, SetStatus, recordVars, TypeOK, PipelineAssumption
    <3>2. \E report \in BOOLEAN : ProcessReturns(w, report)
      BY <1>7, <3>1
         DEF MarkProcessing, Acquire, RecordMissing, AlreadyProcessing, ClaimFails, ClaimMasked
    <3> QED
      BY <2>1, <2>2, <3>2, QuietStep DEF ProcessReturns, TypeOK, Owning
  <2>3. CASE /\ Claimable(cur[w])
             /\ SetStatus(cur[w], "processing")
             /\ \/ Proceed(w, "fetch")
                \/ \E report \in BOOLEAN : ProcessReturns(w, report)
    <3>1. \A v \in Workers : pc[v] \in Owning => cur[v] # cur[w]
      BY <2>3, OwnedIsNotClaimable DEF OwnerInv
    <3> QED
      BY <2>1, <2>3, <3>1, WriteStep DEF Status
  <2> QED
    BY <1>7, <2>2, <2>3
       DEF MarkProcessing, Acquire, RecordMissing, AlreadyProcessing, ClaimFails, ClaimMasked
<1>8. ASSUME NEW w \in Workers, NEW outcome \in Terminal, pc[w] \in Owning,
             WriteOutcome(w, outcome)
      PROVE  OwnerInv'
  <2>1. CASE UNCHANGED recordVars /\ ProcessReturns(w, TRUE)
    BY <2>1, QuietStep DEF ProcessReturns, TypeOK, Owning
  <2>2. CASE SetStatus(cur[w], outcome) /\ \E report \in BOOLEAN : ProcessReturns(w, report)
    <3>1. cur[w] \in Messages
      BY <1>8 DEF HandInv
    <3>2. \A v \in Workers \ {w} : pc[v] \in Owning => cur[v] # cur[w]
      BY <1>8 DEF OwnerInv, SingleOwner
    <3> QED
      BY <2>2, <3>1, <3>2, WriteStep DEF Status
  <2> QED
    BY <1>8, <2>1, <2>2 DEF WriteOutcome
<1>9. ASSUME NEW w \in Workers, DeleteMessages(w) \/ Kill(w)
      PROVE  OwnerInv'
  <2>1. Release(w) /\ UNCHANGED recordVars
    BY <1>9 DEF DeleteMessages, Kill
  <2> QED
    BY <2>1, QuietStep DEF Release, TypeOK, Owning
<1>10. CASE Tick
  <2>1. SingleOwner'
    BY <1>10 DEF Tick, OwnerInv, SingleOwner
  <2>2. Leased'
    <3> SUFFICES ASSUME NEW w \in Workers, pc[w] \in Owning
                 PROVE  status[cur[w]] = "processing" /\ age'[cur[w]] <= clock'[w]
      BY <1>10 DEF Tick, Leased
    <3>1. cur[w] \in Messages /\ status[cur[w]] = "processing" /\ age[cur[w]] <= clock[w]
      BY DEF OwnerInv, Leased, HandInv
    <3>2. clock'[w] = clock[w] + 1 /\ age'[cur[w]] <= age[cur[w]] + 1
      BY <1>10, <3>1, PipelineAssumption DEF Tick, TypeOK, Owning, PipelineAssumption
    <3>3. age[cur[w]] \in Int /\ clock[w] \in Int /\ age'[cur[w]] \in Int
      BY <1>10, <3>1, PipelineAssumption DEF Tick, TypeOK, PipelineAssumption
    <3> QED
      BY <3>1, <3>2, <3>3
  <2> QED
    BY <2>1, <2>2 DEF OwnerInv
<1> QED
  BY <1>1, <1>2, <1>3, <1>4, <1>5, <1>6, <1>7, <1>8, <1>9, <1>10, NextCases
     DEF MarkCompleted, MarkFailed, Owning, Terminal

THEOREM OwnerInvariant ==
  ASSUME LambdaTimeout <= Lease
  PROVE  Spec => [](TypeInv /\ OwnerInv)
<1>1. Init => OwnerInv
  BY DEF Init, OwnerInv, Leased, SingleOwner, Owning
<1>2. TypeInv /\ OwnerInv /\ [Next]_vars => OwnerInv'
  BY StepOwnerInv
<1> QED
  BY <1>1, <1>2, TypeInvariant, PTL DEF Spec

(* No two invocations ever work on the same job, however often SQS         *)
(* delivers its message and wherever invocations crash.                    *)
THEOREM MutualExclusion ==
  ASSUME LambdaTimeout <= Lease
  PROVE  Spec => []SingleOwner
BY OwnerInvariant, PTL DEF OwnerInv

(* An owner's record is processing under a lease nobody else can take. *)
THEOREM LeaseCoversOwner ==
  ASSUME LambdaTimeout <= Lease
  PROVE  Spec => []OwnerHoldsLease
<1>1. TypeInv /\ OwnerInv => OwnerHoldsLease
  BY OwnedIsNotClaimable DEF OwnerInv, Leased, OwnerHoldsLease
<1> QED
  BY <1>1, OwnerInvariant, PTL

(* The unconditional writes of MarkCompleted and MarkFailed never touch a  *)
(* finished job.                                                           *)
THEOREM TerminalStatusIsFinal ==
  ASSUME LambdaTimeout <= Lease
  PROVE  Spec => TerminalIsFinal
<1> DEFINE Keeps == \A m \in Messages : status[m] \in Terminal => status'[m] = status[m]
<1>1. TypeInv /\ OwnerInv /\ [Next]_vars => [Keeps]_vars
  <2> SUFFICES ASSUME TypeInv, OwnerInv, Next, NEW m \in Messages, status[m] \in Terminal
               PROVE  status'[m] = status[m]
    OBVIOUS
  <2>1. \A w \in Workers : pc[w] \in Owning => cur[w] # m
    BY DEF OwnerInv, Leased, Terminal
  <2>2. ~Claimable(m) /\ status[m] # "absent"
    BY DEF Claimable, Terminal
  <2>3. ASSUME NEW w \in Workers,
               MarkProcessing(w) \/ PrepareMaterial(w) \/ Generate(w) \/ MarkCompleted(w)
                 \/ MarkFailed(w)
        PROVE  status'[m] = status[m]
    <3>1. CASE UNCHANGED recordVars
      BY <3>1 DEF recordVars
    <3>2. CASE /\ Claimable(cur[w]) \/ pc[w] \in Owning
               /\ \E s \in Status : SetStatus(cur[w], s)
      BY <3>2, <2>1, <2>2 DEF SetStatus, TypeInv, TypeOK
    <3> QED
      BY <2>3, <3>1, <3>2
         DEF MarkProcessing, Acquire, RecordMissing, AlreadyProcessing, ClaimFails, ClaimMasked,
             PrepareMaterial, Generate, MarkCompleted, MarkFailed, WriteOutcome, Owning, Status,
             Terminal
  <2>4. ASSUME NEW j \in Jobs, Submit(j) \/ PutInitialRecord(j) \/ EnqueueJob(j)
        PROVE  status'[m] = status[m]
    BY <2>2, <2>4 DEF Submit, PutInitialRecord, EnqueueJob, recordVars, TypeInv, TypeOK
  <2> QED
    BY <2>3, <2>4, NextCases
       DEF InjectMessage, Resurface, DeadLetter, Receive, HandleRecord, DeleteMessages, Kill,
           Tick, recordVars
<1> QED
  BY <1>1, OwnerInvariant, PTL DEF Spec, TerminalIsFinal

-----------------------------------------------------------------------------
(***************************************************************************)
(* NarrativePipeline implements JobLifecycle: with the owner of a job read *)
(* off the invocations, every step of the pipeline is a step of the job    *)
(* table's contract or leaves it unchanged.                                *)
(***************************************************************************)

(* The refinement mapping: a job's owner is the invocation that owns it. *)
OwnerValue ==
  \A j \in Jobs :
    /\ \A w \in Workers : Owns(w, j) => Owner[j] = w
    /\ (\A w \in Workers : ~Owns(w, j)) => Owner[j] = None

LEMMA OwnerIsUnique == SingleOwner => OwnerValue
BY DEF SingleOwner, OwnerValue, Owner, Owns

LEMMA OwnerIsUniqueNext == SingleOwner' => OwnerValue'
BY DEF SingleOwner, OwnerValue, Owner, Owns

(* A step of one invocation changes the owner of its own job only. *)
LEMMA OwnerAfter ==
  ASSUME SingleOwner, SingleOwner', NEW w \in Workers,
         \A v \in Workers \ {w} : pc'[v] = pc[v] /\ cur'[v] = cur[v]
  PROVE  \A j \in Jobs :
           Owner'[j] = IF Owns(w, j)' THEN w ELSE IF Owns(w, j) THEN None ELSE Owner[j]
<1> SUFFICES ASSUME NEW j \in Jobs
             PROVE  Owner'[j] = IF Owns(w, j)' THEN w
                                ELSE IF Owns(w, j) THEN None ELSE Owner[j]
  OBVIOUS
<1>1. OwnerValue /\ OwnerValue'
  BY OwnerIsUnique, OwnerIsUniqueNext
<1>2. \A v \in Workers \ {w} : Owns(v, j)' <=> Owns(v, j)
  BY DEF Owns
<1>3. CASE Owns(w, j)'
  BY <1>1, <1>3 DEF OwnerValue
<1>4. CASE ~Owns(w, j)' /\ Owns(w, j)
  <2>1. \A v \in Workers : ~Owns(v, j)'
    BY <1>2, <1>4 DEF SingleOwner, Owns
  <2> QED
    BY <1>1, <1>4, <2>1 DEF OwnerValue
<1>5. CASE ~Owns(w, j)' /\ ~Owns(w, j)
  BY <1>1, <1>2, <1>5 DEF OwnerValue
<1> QED
  BY <1>3, <1>4, <1>5

(* The same, when the step is about job j. *)
LEMMA OwnerUpdate ==
  ASSUME SingleOwner, SingleOwner', NEW w \in Workers, NEW j \in Jobs, NEW o,
         \A v \in Workers \ {w} : pc'[v] = pc[v] /\ cur'[v] = cur[v],
         \A i \in Jobs \ {j} : ~Owns(w, i) /\ ~Owns(w, i)',
         o = IF Owns(w, j)' THEN w ELSE IF Owns(w, j) THEN None ELSE Owner[j]
  PROVE  Owner' = [Owner EXCEPT ![j] = o]
<1>1. Owner'[j] = o /\ \A i \in Jobs \ {j} : Owner'[i] = Owner[i]
  BY OwnerAfter
<1>2. /\ Owner = [i \in Jobs |-> Owner[i]]
      /\ Owner' = [i \in Jobs |-> Owner'[i]]
  BY DEF Owner
<1> HIDE DEF Owner
<1> QED
  BY <1>1, <1>2

(* A step that changes no record and no owner is a stutter. *)
LEMMA Stutter ==
  ASSUME UNCHANGED status,
         \A v \in Workers, j \in Jobs : Owns(v, j)' <=> Owns(v, j)
  PROVE  UNCHANGED <<[j \in Jobs |-> status[j]], Owner>>
BY DEF Owner

LEMMA InitRefines == Init => Lifecycle!Init
<1> SUFFICES ASSUME Init PROVE Lifecycle!Init
  OBVIOUS
<1>1. \A j \in Jobs : j \in Messages
  BY DEF Messages
<1>2. [j \in Jobs |-> status[j]] = [j \in Jobs |-> "absent"]
  BY <1>1 DEF Init
<1>3. Owner = [j \in Jobs |-> None]
  BY DEF Init, Owner, Owns, Owning
<1> QED
  BY <1>2, <1>3 DEF Lifecycle!Init

LEMMA StepRefines ==
  ASSUME LambdaTimeout <= Lease, TypeInv, OwnerInv, [Next]_vars
  PROVE  [Lifecycle!Next]_(Lifecycle!lifecycleVars)
<1> DEFINE Abstract == <<[j \in Jobs |-> status[j]], Owner>>
<1> USE DEF TypeInv, TypeOK
<1>a. SingleOwner /\ SingleOwner'
  BY StepOwnerInv DEF OwnerInv
<1>b. \A j \in Jobs : j \in Messages
  BY DEF Messages
<1>c. OwnerValue
  BY <1>a, OwnerIsUnique
<1>0. SUFFICES Lifecycle!Next \/ UNCHANGED Abstract
  BY DEF Lifecycle!lifecycleVars
<1>1. CASE UNCHANGED vars
  BY <1>1, Stutter DEF vars, recordVars, workerVars, Owns
<1>2. ASSUME NEW j \in Jobs, Submit(j) \/ PutInitialRecord(j) \/ EnqueueJob(j)
      PROVE  Lifecycle!Next \/ UNCHANGED Abstract
  <2>1. Owner' = Owner
    BY <1>2 DEF Submit, PutInitialRecord, EnqueueJob, workerVars, Owner, Owns
  <2>2. CASE UNCHANGED status
    BY <2>1, <2>2
  <2>3. CASE status[j] = "absent" /\ status' = [status EXCEPT ![j] = "queued"]
    <3>1. Lifecycle!Create(j)
      BY <1>b, <2>1, <2>3 DEF Lifecycle!Create
    <3> QED
      BY <3>1 DEF Lifecycle!Next
  <2> QED
    BY <1>2, <2>2, <2>3 DEF Submit, PutInitialRecord, EnqueueJob, recordVars
<1>3. ASSUME NEW m \in Messages, InjectMessage(m) \/ Resurface(m) \/ DeadLetter(m)
      PROVE  UNCHANGED Abstract
  BY <1>3, Stutter DEF InjectMessage, Resurface, DeadLetter, recordVars, workerVars, Owns
<1>4. ASSUME NEW w \in Workers, NEW msgs \in SUBSET Messages, Receive(w, msgs)
      PROVE  UNCHANGED Abstract
  BY <1>4, Stutter DEF Receive, recordVars, Owns, Owning
<1>5. ASSUME NEW w \in Workers, NEW m \in Messages, HandleRecord(w, m)
      PROVE  UNCHANGED Abstract
  BY <1>5, Stutter DEF HandleRecord, recordVars, Owns, Owning
<1>6. ASSUME NEW w \in Workers, UNCHANGED status, pc'[w] \notin Owning,
             \A v \in Workers \ {w} : pc'[v] = pc[v] /\ cur'[v] = cur[v]
      PROVE  Lifecycle!Next \/ UNCHANGED Abstract
  <2>1. CASE cur[w] \in Jobs /\ pc[w] \in Owning
    <3>1. Owner' = [Owner EXCEPT ![cur[w]] = None]
      BY <1>6, <1>a, <2>1, OwnerUpdate DEF Owns
    <3>2. Owner[cur[w]] # None
      BY <1>c, <2>1, PipelineAssumption DEF OwnerValue, Owns, PipelineAssumption
    <3>3. Lifecycle!Abandon(cur[w])
      BY <1>6, <3>1, <3>2 DEF Lifecycle!Abandon
    <3> QED
      BY <2>1, <3>3 DEF Lifecycle!Next
  <2>2. CASE ~(cur[w] \in Jobs /\ pc[w] \in Owning)
    <3>1. \A v \in Workers, j \in Jobs : Owns(v, j)' <=> Owns(v, j)
      BY <1>6, <2>2 DEF Owns
    <3> QED
      BY <1>6, <3>1, Stutter
  <2> QED
    BY <2>1, <2>2
<1>7. ASSUME NEW w \in Workers, PrepareMaterial(w) \/ Generate(w)
      PROVE  Lifecycle!Next \/ UNCHANGED Abstract
  <2>1. UNCHANGED status
    BY <1>7 DEF PrepareMaterial, Generate, recordVars
  <2>2. CASE \E phase \in Owning : Proceed(w, phase)
    <3>1. \A v \in Workers, j \in Jobs : Owns(v, j)' <=> Owns(v, j)
      BY <1>7, <2>2 DEF Owns, Proceed, PrepareMaterial, Generate, Owning
    <3> QED
      BY <2>1, <3>1, Stutter
  <2>3. CASE ProcessReturns(w, TRUE)
    BY <1>6, <2>1, <2>3 DEF ProcessReturns, Owning
  <2> QED
    BY <1>7, <2>2, <2>3 DEF PrepareMaterial, Generate, Owning
<1>8. ASSUME NEW w \in Workers, MarkProcessing(w)
      PROVE  Lifecycle!Next \/ UNCHANGED Abstract
  <2>1. cur[w] \in Messages /\ pc[w] \notin Owning
    BY <1>8 DEF MarkProcessing, HandInv, Owning
  <2>2. CASE UNCHANGED recordVars /\ \E report \in BOOLEAN : ProcessReturns(w, report)
    BY <1>6, <2>2 DEF ProcessReturns, Owning, recordVars
  <2>3. CASE /\ Claimable(cur[w])
             /\ SetStatus(cur[w], "processing")
             /\ \/ Proceed(w, "fetch")
                \/ \E report \in BOOLEAN : ProcessReturns(w, report)
    <3>1. \A v \in Workers \ {w} : pc'[v] = pc[v] /\ cur'[v] = cur[v]
      BY <2>3 DEF Proceed, ProcessReturns
    <3>2. CASE cur[w] \notin Jobs
      <4>1. \A j \in Jobs : status'[j] = status[j]
        BY <1>b, <2>1, <2>3, <3>2 DEF SetStatus
      <4>2. cur'[w] \notin Jobs \/ pc'[w] \notin Owning
        BY <2>3, <3>2 DEF Proceed, ProcessReturns, Owning
      <4>3. \A v \in Workers, j \in Jobs : Owns(v, j)' <=> Owns(v, j)
        BY <2>1, <3>1, <4>2 DEF Owns
      <4> QED
        BY <4>1, <4>3 DEF Owner
    <3>3. CASE cur[w] \in Jobs
      <4>2. \A v \in Workers : ~Owns(v, cur[w])
        BY <2>3, OwnedIsNotClaimable DEF OwnerInv, Owns
      <4>3. Owner[cur[w]] = None
        BY <1>c, <3>3, <4>2 DEF OwnerValue
      <4>4. pc'[w] \in Owning => cur'[w] = cur[w]
        BY <2>3 DEF Proceed, ProcessReturns, Owning
      <4>5. Owner' = [Owner EXCEPT ![cur[w]] = IF pc'[w] \in Owning THEN w ELSE None]
        BY <1>a, <2>1, <3>1, <3>3, <4>2, <4>3, <4>4, OwnerUpdate DEF Owns
      <4>6. [j \in Jobs |-> status[j]]'
              = [[j \in Jobs |-> status[j]] EXCEPT ![cur[w]] = "processing"]
        BY <1>b, <2>3 DEF SetStatus
      <4>7. CASE pc'[w] \in Owning
        <5>1. Lifecycle!Claim(cur[w], w)
          BY <2>3, <3>3, <4>3, <4>5, <4>6, <4>7 DEF Claimable, Lifecycle!Claim
        <5> QED
          BY <3>3, <5>1 DEF Lifecycle!Next
      <4>8. CASE pc'[w] \notin Owning
        <5>1. Lifecycle!Claim(cur[w], None)
          BY <2>3, <3>3, <4>3, <4>5, <4>6, <4>8 DEF Claimable, Lifecycle!Claim
        <5> QED
          BY <3>3, <5>1 DEF Lifecycle!Next
      <4> QED
        BY <4>7, <4>8
    <3> QED
      BY <3>2, <3>3
  <2> QED
    BY <1>8, <2>2, <2>3
       DEF MarkProcessing, Acquire, RecordMissing, AlreadyProcessing, ClaimFails, ClaimMasked
<1>9. ASSUME NEW w \in Workers, NEW outcome \in Terminal, pc[w] \in Owning,
             WriteOutcome(w, outcome)
      PROVE  Lifecycle!Next \/ UNCHANGED Abstract
  <2>1. CASE UNCHANGED recordVars /\ ProcessReturns(w, TRUE)
    BY <1>6, <2>1 DEF ProcessReturns, Owning, recordVars
  <2>2. CASE SetStatus(cur[w], outcome) /\ \E report \in BOOLEAN : ProcessReturns(w, report)
    <3>1. /\ \A v \in Workers \ {w} : pc'[v] = pc[v] /\ cur'[v] = cur[v]
          /\ pc'[w] \notin Owning
      BY <2>2 DEF ProcessReturns, Owning
    <3>2. status[cur[w]] = "processing"
      BY <1>9 DEF OwnerInv, Leased
    <3>3. CASE cur[w] \notin Jobs
      <4>1. \A j \in Jobs : status'[j] = status[j]
        BY <1>b, <2>2, <3>3 DEF SetStatus
      <4>2. \A v \in Workers, j \in Jobs : Owns(v, j)' <=> Owns(v, j)
        BY <3>1, <3>3 DEF Owns
      <4> QED
        BY <4>1, <4>2 DEF Owner
    <3>4. CASE cur[w] \in Jobs
      <4>1. Owner' = [Owner EXCEPT ![cur[w]] = None]
        BY <1>9, <1>a, <3>1, <3>4, OwnerUpdate DEF Owns
      <4>2. Owner[cur[w]] # None
        BY <1>9, <1>c, <3>4, PipelineAssumption DEF OwnerValue, Owns, PipelineAssumption
      <4>3. [j \in Jobs |-> status[j]]'
              = [[j \in Jobs |-> status[j]] EXCEPT ![cur[w]] = outcome]
        BY <1>b, <2>2 DEF SetStatus
      <4>4. Lifecycle!Finish(cur[w], outcome)
        BY <3>2, <3>4, <4>1, <4>2, <4>3 DEF Lifecycle!Finish
      <4>5. outcome \in Lifecycle!Terminal
        BY DEF Terminal, Lifecycle!Terminal
      <4> QED
        BY <3>4, <4>4, <4>5 DEF Lifecycle!Next
    <3> QED
      BY <3>3, <3>4
  <2> QED
    BY <1>9, <2>1, <2>2 DEF WriteOutcome
<1>10. ASSUME NEW w \in Workers, DeleteMessages(w) \/ Kill(w)
       PROVE  Lifecycle!Next \/ UNCHANGED Abstract
  BY <1>10, <1>6 DEF DeleteMessages, Kill, Release, Owning, recordVars
<1>11. CASE Tick
  BY <1>11, Stutter DEF Tick, Owns
<1> QED
  BY <1>1, <1>2, <1>3, <1>4, <1>5, <1>7, <1>8, <1>9, <1>10, <1>11, NextCases
     DEF MarkCompleted, MarkFailed, Owning, Terminal

(* The pipeline keeps the job table's contract: a record is created once,  *)
(* has one owner at a time, and its outcome is written by the owner, once. *)
THEOREM PipelineImplementsLifecycle ==
  ASSUME LambdaTimeout <= Lease
  PROVE  Spec => ImplementsLifecycle
<1>1. TypeInv /\ OwnerInv /\ [Next]_vars => [Lifecycle!Next]_(Lifecycle!lifecycleVars)
  BY StepRefines
<1> QED
  BY <1>1, InitRefines, OwnerInvariant, PTL DEF Spec, ImplementsLifecycle, Lifecycle!Spec

-----------------------------------------------------------------------------
(***************************************************************************)
(* What becomes of a message: it follows its record, an orphan is never    *)
(* deleted, and no job is lost when SQS keeps its visibility promise and   *)
(* the timeouts fit together.                                              *)
(***************************************************************************)


(***************************************************************************)
(* What any step can do to one record.                                     *)
(***************************************************************************)
LEMMA RecordStep ==
  ASSUME TypeInv, [Next]_vars, NEW m \in Messages
  PROVE  \/ status'[m] = status[m] /\ (age'[m] = age[m] \/ Tick)
         \/ /\ m \in Jobs /\ status[m] = "absent" /\ status'[m] = "queued"
            /\ api[m] = "put" /\ age'[m] = age[m]
         \/ /\ Claimable(m) /\ status'[m] = "processing" /\ age'[m] = 0
            /\ \E w \in Workers : pc[w] = "claim" /\ cur[w] = m /\ MarkProcessing(w)
         \/ /\ status'[m] \in Terminal
            /\ \E w \in Workers : Owns(w, m)
<1> USE DEF TypeInv, TypeOK
<1>1. CASE UNCHANGED recordVars
  BY <1>1 DEF recordVars
<1>2. ASSUME NEW j \in Jobs, PutInitialRecord(j)
      PROVE  \/ status'[m] = status[m] /\ age'[m] = age[m]
             \/ /\ m \in Jobs /\ status[m] = "absent" /\ status'[m] = "queued"
                /\ api[m] = "put" /\ age'[m] = age[m]
  BY <1>2 DEF PutInitialRecord
<1>3. ASSUME NEW w \in Workers, MarkProcessing(w)
      PROVE  \/ status'[m] = status[m] /\ age'[m] = age[m]
             \/ /\ Claimable(m) /\ status'[m] = "processing" /\ age'[m] = 0
                /\ pc[w] = "claim" /\ cur[w] = m
  BY <1>3 DEF MarkProcessing, Acquire, RecordMissing, AlreadyProcessing, ClaimFails, ClaimMasked,
              SetStatus, recordVars
<1>4. ASSUME NEW w \in Workers, MarkCompleted(w) \/ MarkFailed(w)
      PROVE  \/ status'[m] = status[m] /\ age'[m] = age[m]
             \/ status'[m] \in Terminal /\ Owns(w, m)
  BY <1>4 DEF MarkCompleted, MarkFailed, WriteOutcome, SetStatus, recordVars, Owns, Owning,
              Terminal
<1>5. CASE Tick
  BY <1>5 DEF Tick
<1> QED
  BY <1>1, <1>2, <1>3, <1>4, <1>5
     DEF Next, ApiStep, SqsStep, WorkerStep, Submit, EnqueueJob, InjectMessage, Resurface,
         DeadLetter, Receive, HandleRecord, PrepareMaterial, Generate, DeleteMessages, Kill,
         vars, recordVars

LEMMA StatusNeverLost ==
  ASSUME TypeInv, [Next]_vars, NEW m \in Messages, status[m] # "absent"
  PROVE  status'[m] # "absent"
BY RecordStep DEF Terminal

(* A record advances step by step: only its owner, which has it as         *)
(* processing, writes an outcome, so none follows queued directly and      *)
(* nothing follows an outcome.                                             *)
THEOREM RecordsAdvance ==
  ASSUME LambdaTimeout <= Lease
  PROVE  Spec => RecordAdvances
<1>1. ASSUME TypeInv, OwnerInv, [Next]_vars, NEW m \in Messages, status'[m] # status[m]
      PROVE  <<status[m], status'[m]>> \in Advances
  <2>1. CASE status[m] = "absent" /\ status'[m] = "queued"
    BY <2>1 DEF Advances
  <2>2. CASE Claimable(m) /\ status'[m] = "processing"
    BY <1>1, <2>2 DEF Claimable, Advances
  <2>3. CASE status'[m] \in Terminal /\ \E w \in Workers : Owns(w, m)
    <3>1. status[m] = "processing"
      BY <1>1, <2>3 DEF OwnerInv, Leased, Owns
    <3> QED
      BY <2>3, <3>1 DEF Advances
  <2> QED
    BY <1>1, <2>1, <2>2, <2>3, RecordStep
<1>2. TypeInv /\ OwnerInv /\ [Next]_vars =>
        [\A m \in Messages : status'[m] # status[m] => <<status[m], status'[m]>> \in Advances]_vars
  BY <1>1
<1> QED
  BY <1>2, OwnerInvariant, PTL DEF Spec, RecordAdvances

-----------------------------------------------------------------------------
(***************************************************************************)
(* Records come before messages.                                           *)
(***************************************************************************)
RecordInv ==
  \A j \in Jobs : api[j] = "send" \/ queue[j] # "unsent" => status[j] # "absent"

(* The API writes the record before it sends the message, so a worker      *)
(* never meets a message of the API that names no record.                  *)
THEOREM MessagesFollowRecords == Spec => []RecordPrecedesMessage
<1>1. Init => RecordInv
  BY DEF Init, RecordInv, Messages
<1>2. TypeInv /\ RecordInv /\ [Next]_vars => RecordInv'
  <2> SUFFICES ASSUME TypeInv, RecordInv, [Next]_vars, NEW j \in Jobs,
                      api'[j] = "send" \/ queue'[j] # "unsent"
               PROVE  status'[j] # "absent"
    BY DEF RecordInv
  <2> USE DEF TypeInv, TypeOK
  <2>1. j \in Messages
    BY DEF Messages
  <2>2. status[j] # "absent" => status'[j] # "absent"
    BY <2>1, StatusNeverLost
  <2>3. CASE UNCHANGED vars
    BY <2>3 DEF RecordInv, vars, recordVars, sqsVars
  <2>4. ASSUME NEW i \in Jobs, Submit(i) \/ PutInitialRecord(i) \/ EnqueueJob(i)
        PROVE  status'[j] # "absent"
    BY <2>1, <2>2, <2>4
       DEF Submit, PutInitialRecord, EnqueueJob, RecordInv, recordVars, sqsVars
  <2>5. ASSUME NEW m \in Orphans \cup Garbage, InjectMessage(m)
        PROVE  status'[j] # "absent"
    BY <2>1, <2>2, <2>5, PipelineAssumption
       DEF InjectMessage, RecordInv, PipelineAssumption
  <2>6. ASSUME NEW m \in Messages, Resurface(m) \/ DeadLetter(m)
        PROVE  status'[j] # "absent"
    BY <2>1, <2>2, <2>6 DEF Resurface, DeadLetter, Visible, RecordInv
  <2>7. ASSUME NEW w \in Workers, DeleteMessages(w)
        PROVE  status'[j] # "absent"
    BY <2>1, <2>2, <2>7 DEF DeleteMessages, RecordInv
  <2>8. CASE UNCHANGED <<api, queue>>
    BY <2>2, <2>8 DEF RecordInv
  <2> QED
    BY <2>3, <2>4, <2>5, <2>6, <2>7, <2>8
       DEF Next, ApiStep, SqsStep, WorkerStep, Receive, HandleRecord, MarkProcessing,
           PrepareMaterial, Generate, MarkCompleted, MarkFailed, WriteOutcome, Kill, Tick, sqsVars
<1>3. RecordInv => RecordPrecedesMessage
  BY DEF RecordInv, RecordPrecedesMessage
<1> QED
  BY <1>1, <1>2, <1>3, TypeInvariant, PTL DEF Spec

-----------------------------------------------------------------------------
(***************************************************************************)
(* Messages without a record.  Until its invocation is over, an orphan is  *)
(* waiting in the event, in hand before the claim, or reported.            *)
(***************************************************************************)
OrphanInv ==
  \A o \in Orphans :
    /\ status[o] = "absent"
    /\ queue[o] # "deleted"
    /\ \A w \in Workers :
         /\ pc[w] \in Owning => cur[w] # o
         /\ o \in batch[w] => o \in todo[w] \cup failures[w] \/ (pc[w] = "claim" /\ cur[w] = o)

(* A message that names no record is never deleted: it stays in the queue  *)
(* until the redrive policy moves it to the dead letter queue.             *)
THEOREM OrphansNeverDeleted == Spec => []OrphansAreKept
<1>1. Init => OrphanInv
  BY DEF Init, OrphanInv, Messages, Owning
<1>2. TypeInv /\ OrphanInv /\ [Next]_vars => OrphanInv'
  <2> SUFFICES ASSUME TypeInv, OrphanInv, [Next]_vars, NEW o \in Orphans
               PROVE  /\ status'[o] = "absent"
                      /\ queue'[o] # "deleted"
                      /\ \A w \in Workers :
                           /\ pc'[w] \in Owning => cur'[w] # o
                           /\ o \in batch'[w] => \/ o \in todo'[w] \cup failures'[w]
                                                 \/ pc'[w] = "claim" /\ cur'[w] = o
    BY DEF OrphanInv
  <2> USE DEF TypeInv, TypeOK
  <2>1. o \in Messages /\ o \notin Jobs /\ o \notin Garbage
    BY PipelineAssumption DEF Messages, PipelineAssumption
  <2>2. /\ status[o] = "absent" /\ queue[o] # "deleted"
        /\ \A w \in Workers :
             /\ pc[w] \in Owning => cur[w] # o
             /\ o \in batch[w] => \/ o \in todo[w] \cup failures[w]
                                  \/ pc[w] = "claim" /\ cur[w] = o
    BY DEF OrphanInv
  <2>3. status'[o] = "absent"
    BY <2>1, <2>2, RecordStep DEF Claimable, Owns
  <2>4. CASE UNCHANGED <<queue, workerVars>>
    BY <2>2, <2>3, <2>4 DEF workerVars
  <2>5. ASSUME NEW m \in Messages,
               InjectMessage(m) \/ Resurface(m) \/ DeadLetter(m) \/ EnqueueJob(m)
        PROVE  queue'[o] # "deleted" /\ UNCHANGED workerVars
    BY <2>1, <2>2, <2>5 DEF InjectMessage, Resurface, DeadLetter, EnqueueJob
  <2>6. ASSUME NEW w \in Workers, NEW msgs \in SUBSET Messages, Receive(w, msgs)
        PROVE  /\ queue' = queue
               /\ \A v \in Workers :
                    /\ pc'[v] \in Owning => cur'[v] # o
                    /\ o \in batch'[v] => \/ o \in todo'[v] \cup failures'[v]
                                          \/ pc'[v] = "claim" /\ cur'[v] = o
    BY <2>2, <2>6 DEF Receive, Owning
  <2>7. ASSUME NEW w \in Workers, NEW m \in Messages, HandleRecord(w, m)
        PROVE  /\ queue' = queue
               /\ \A v \in Workers :
                    /\ pc'[v] \in Owning => cur'[v] # o
                    /\ o \in batch'[v] => \/ o \in todo'[v] \cup failures'[v]
                                          \/ pc'[v] = "claim" /\ cur'[v] = o
    BY <2>1, <2>2, <2>7 DEF HandleRecord, Owning, sqsVars
  <2>8. ASSUME NEW w \in Workers,
               MarkProcessing(w) \/ PrepareMaterial(w) \/ Generate(w) \/ MarkCompleted(w)
                 \/ MarkFailed(w)
        PROVE  /\ queue' = queue
               /\ \A v \in Workers :
                    /\ pc'[v] \in Owning => cur'[v] # o
                    /\ o \in batch'[v] => \/ o \in todo'[v] \cup failures'[v]
                                          \/ pc'[v] = "claim" /\ cur'[v] = o
    <3>1. CASE cur[w] = o
      <4>1. MarkProcessing(w)
        BY <2>2, <2>8, <3>1
           DEF PrepareMaterial, Generate, MarkCompleted, MarkFailed, Owning
      <4>2. ProcessReturns(w, TRUE) /\ UNCHANGED queue
        BY <2>2, <3>1, <4>1
           DEF MarkProcessing, Acquire, RecordMissing, AlreadyProcessing, ClaimFails,
               ClaimMasked, Claimable, sqsVars
      <4> QED
        BY <2>2, <3>1, <4>2 DEF ProcessReturns, Owning
    <3>2. CASE cur[w] # o
      <4>1. UNCHANGED queue /\ \/ \E phase \in Owning : Proceed(w, phase)
                               \/ \E report \in BOOLEAN : ProcessReturns(w, report)
        BY <2>8 DEF MarkProcessing, Acquire, RecordMissing, AlreadyProcessing, ClaimFails,
                    ClaimMasked, PrepareMaterial, Generate, MarkCompleted, MarkFailed,
                    WriteOutcome, Owning, sqsVars
      <4> QED
        BY <2>2, <3>2, <4>1 DEF Proceed, ProcessReturns, Owning
    <3> QED
      BY <3>1, <3>2
  <2>9. ASSUME NEW w \in Workers, DeleteMessages(w) \/ Kill(w)
        PROVE  /\ queue'[o] # "deleted"
               /\ \A v \in Workers :
                    /\ pc'[v] \in Owning => cur'[v] # o
                    /\ o \in batch'[v] => \/ o \in todo'[v] \cup failures'[v]
                                          \/ pc'[v] = "claim" /\ cur'[v] = o
    <3>1. queue'[o] # "deleted"
      BY <2>1, <2>2, <2>9 DEF DeleteMessages, Kill, sqsVars
    <3>2. Release(w)
      BY <2>9 DEF DeleteMessages, Kill
    <3> QED
      BY <2>2, <3>1, <3>2 DEF Release, Owning
  <2>10. ASSUME NEW j \in Jobs, Submit(j) \/ PutInitialRecord(j)
         PROVE  UNCHANGED <<queue, workerVars>>
    BY <2>10 DEF Submit, PutInitialRecord, sqsVars
  <2>11. CASE Tick \/ UNCHANGED vars
    BY <2>2, <2>3, <2>11 DEF Tick, vars, sqsVars, workerVars
  <2>12. Jobs \subseteq Messages
    BY DEF Messages
  <2> QED
    BY <2>2, <2>3, <2>4, <2>5, <2>6, <2>7, <2>8, <2>9, <2>10, <2>11, <2>12, NextCases
       DEF workerVars
<1>3. OrphanInv => OrphansAreKept
  BY DEF OrphanInv, OrphansAreKept
<1> QED
  BY <1>1, <1>2, <1>3, TypeInvariant, PTL DEF Spec

-----------------------------------------------------------------------------
(***************************************************************************)
(* No job is lost while SQS keeps its visibility promise and the           *)
(* visibility timeout covers a run and a lease.                            *)
(***************************************************************************)
Undisturbed == MaxDup = 0 /\ ~RetryMasksClaim /\ LambdaTimeout + Lease < Visibility

InHand(w) == IF pc[w] \in Owning \cup {"claim"} THEN {cur[w]} ELSE {}

(* An unsent message has no history. *)
UnsentInv ==
  /\ \A j \in Jobs : api[j] \in {"idle", "put", "send"} => queue[j] = "unsent"
  /\ \A m \in Messages : queue[m] = "unsent" => status[m] \in {"absent", "queued"}

(* The records of a running invocation are its own and hidden until the    *)
(* visibility timeout that started with it.                                *)
BatchInv ==
  \A w \in Workers :
    /\ pc[w] = "idle" => batch[w] = {} /\ clock[w] = 0
    /\ todo[w] \subseteq batch[w] /\ failures[w] \subseteq batch[w]
    /\ InHand(w) \subseteq batch[w] \ todo[w]
    /\ \A m \in batch[w] : queue[m] = "present" /\ hidden[m] = Visibility - clock[w]
    /\ \A v \in Workers \ {w} : batch[v] \cap batch[w] = {}

(* The lease of an attempt has run out when its message is visible again,  *)
(* and stays so while the message waits for its next claim.                *)
StaleInv ==
  /\ \A m \in Messages :
       status[m] = "processing" /\ queue[m] = "present" =>
         age[m] > Lease \/ age[m] + hidden[m] >= Visibility - LambdaTimeout
  /\ \A w \in Workers, m \in Messages :
       (m \in todo[w] \/ (pc[w] = "claim" /\ cur[w] = m)) /\ status[m] = "processing"
         => age[m] > Lease

(* What an invocation is done with and will not report is finished, and so *)
(* is what has been deleted.                                               *)
DoneInv ==
  /\ \A w \in Workers :
       \A m \in batch[w] \ (todo[w] \cup failures[w] \cup InHand(w)) :
         m \in Jobs => status[m] \in Terminal
  /\ NoLostJob

DeliveryInv == dups = 0 /\ UnsentInv /\ BatchInv /\ StaleInv /\ DoneInv

LEMMA InitDeliveryInv == Undisturbed /\ Init => DeliveryInv
BY DEF Init, DeliveryInv, UnsentInv, BatchInv, StaleInv, DoneInv, NoLostJob, InHand, Owning,
       Messages

LEMMA UndisturbedNat ==
  ASSUME Undisturbed
  PROVE  /\ LambdaTimeout \in Nat /\ Lease \in Nat /\ Visibility \in Nat
         /\ LambdaTimeout + Lease < Visibility
BY PipelineAssumption DEF PipelineAssumption, Undisturbed

(* A step of Process, seen from the queue and from its own invocation. *)
LEMMA ProcessStep ==
  ASSUME TypeInv, NEW w \in Workers,
         MarkProcessing(w) \/ PrepareMaterial(w) \/ Generate(w) \/ MarkCompleted(w)
           \/ MarkFailed(w)
  PROVE  /\ UNCHANGED <<api, sqsVars, batch, todo, clock>>
         /\ pc[w] \in Owning \cup {"claim"} /\ pc'[w] \in Owning \cup {"handle"}
         /\ \/ pc'[w] \in Owning /\ UNCHANGED <<cur, failures>>
            \/ \E report \in BOOLEAN : ProcessReturns(w, report)
         /\ \A v \in Workers \ {w} :
              pc'[v] = pc[v] /\ cur'[v] = cur[v] /\ failures'[v] = failures[v]
<1>1. /\ UNCHANGED <<api, sqsVars>>
      /\ pc[w] \in Owning \cup {"claim"}
      /\ \/ \E phase \in Owning : Proceed(w, phase)
         \/ \E report \in BOOLEAN : ProcessReturns(w, report)
  BY DEF MarkProcessing, Acquire, RecordMissing, AlreadyProcessing, ClaimFails, ClaimMasked,
         PrepareMaterial, Generate, MarkCompleted, MarkFailed, WriteOutcome, Owning
<1> QED
  BY <1>1 DEF Proceed, ProcessReturns, TypeInv, TypeOK

(* A message a running invocation holds is in flight. *)
LEMMA BatchHidden ==
  ASSUME Undisturbed, TypeInv, BatchInv, NEW w \in Workers, NEW m \in batch[w]
  PROVE  m \in Messages /\ queue[m] = "present" /\ hidden[m] > 0 /\ ~Visible(m)
<1>1. clock[w] \in 0..LambdaTimeout /\ m \in Messages
  BY DEF TypeInv, TypeOK
<1>2. queue[m] = "present" /\ hidden[m] = Visibility - clock[w]
  BY DEF BatchInv
<1> QED
  BY <1>1, <1>2, UndisturbedNat DEF Visible

LEMMA StepUnsentInv ==
  ASSUME Undisturbed, TypeInv, DeliveryInv, [Next]_vars
  PROVE  UnsentInv'
<1> USE DEF TypeInv, TypeOK
<1>1. ASSUME NEW j \in Jobs, api'[j] \in {"idle", "put", "send"}
      PROVE  queue'[j] = "unsent"
  <2>1. j \in Messages
    BY DEF Messages
  <2>2. api[j] \in {"idle", "put", "send"} => queue[j] = "unsent"
    BY DEF DeliveryInv, UnsentInv
  <2>3. ASSUME NEW i \in Jobs, Submit(i) \/ PutInitialRecord(i) \/ EnqueueJob(i)
        PROVE  queue'[j] = "unsent"
    BY <1>1, <2>1, <2>2, <2>3 DEF Submit, PutInitialRecord, EnqueueJob, sqsVars
  <2>4. CASE UNCHANGED api
    <3>1. queue[j] = "unsent"
      BY <1>1, <2>2, <2>4
    <3>2. ASSUME NEW m \in Orphans \cup Garbage, InjectMessage(m)
          PROVE  queue'[j] = "unsent"
      BY <2>1, <3>1, <3>2, PipelineAssumption DEF InjectMessage, PipelineAssumption
    <3>3. ASSUME NEW m \in Messages, Resurface(m) \/ DeadLetter(m)
          PROVE  queue'[j] = "unsent"
      BY <2>1, <3>1, <3>3 DEF Resurface, DeadLetter, Visible
    <3>4. ASSUME NEW w \in Workers, DeleteMessages(w)
          PROVE  queue'[j] = "unsent"
      BY <2>1, <3>1, <3>4 DEF DeleteMessages
    <3>5. ASSUME NEW i \in Jobs, ApiStep(i)
          PROVE  queue'[j] = "unsent"
      BY <3>5, <2>3 DEF ApiStep
    <3>6. CASE UNCHANGED queue
      BY <3>1, <3>6
    <3> QED
      BY <3>2, <3>3, <3>4, <3>5, <3>6, ProcessStep
         DEF Next, SqsStep, WorkerStep, Receive, HandleRecord, Kill, Tick, vars, sqsVars
  <2> QED
    BY <2>3, <2>4, NextCases, ProcessStep
       DEF InjectMessage, Resurface, DeadLetter, Receive, HandleRecord, DeleteMessages, Kill,
           Tick, vars
<1>2. ASSUME NEW m \in Messages, queue'[m] = "unsent"
      PROVE  status'[m] \in {"absent", "queued"}
  <2>1. queue[m] = "unsent"
    BY <1>2, NextCases, ProcessStep
       DEF Submit, PutInitialRecord, EnqueueJob, InjectMessage, Resurface, DeadLetter, Receive,
           HandleRecord, DeleteMessages, Kill, Tick, vars, sqsVars
  <2>2. \A w \in Workers : m \notin batch[w]
    BY <2>1 DEF DeliveryInv, BatchInv
  <2>3. \A w \in Workers : pc[w] \in Owning \cup {"claim"} => cur[w] # m
    BY <2>2 DEF DeliveryInv, BatchInv, InHand
  <2>4. status[m] \in {"absent", "queued"}
    BY <2>1 DEF DeliveryInv, UnsentInv
  <2> QED
    BY <2>3, <2>4, RecordStep DEF Owns
<1> QED
  BY <1>1, <1>2 DEF UnsentInv

LEMMA StepBatchInv ==
  ASSUME Undisturbed, TypeInv, DeliveryInv, [Next]_vars
  PROVE  BatchInv'
<1> DEFINE Own(v) == /\ pc[v] = "idle" => batch[v] = {} /\ clock[v] = 0
                     /\ todo[v] \subseteq batch[v] /\ failures[v] \subseteq batch[v]
                     /\ InHand(v) \subseteq batch[v] \ todo[v]
           Flight(v) == \A m \in batch[v] : queue[m] = "present" /\ hidden[m] = Visibility - clock[v]
           Apart(v) == \A u \in Workers \ {v} : batch[u] \cap batch[v] = {}
<1> USE DEF TypeInv, TypeOK
<1>0. BatchInv /\ UnsentInv /\ dups = 0 /\ MaxDup = 0
  BY DEF DeliveryInv, Undisturbed
<1>a. \A v \in Workers : Own(v) /\ Flight(v) /\ Apart(v)
  BY <1>0 DEF BatchInv
<1>b. (\A v \in Workers : Own(v)' /\ Flight(v)' /\ Apart(v)') => BatchInv'
  BY DEF BatchInv
<1>c. \A v \in Workers, m \in Messages : m \in batch[v] => hidden[m] > 0
  BY <1>0, BatchHidden
<1>1. CASE UNCHANGED vars
  BY <1>0, <1>1 DEF BatchInv, vars, sqsVars, workerVars, InHand
<1>2. ASSUME NEW j \in Jobs, Submit(j) \/ PutInitialRecord(j) \/ EnqueueJob(j)
      PROVE  BatchInv'
  <2>1. UNCHANGED <<hidden, workerVars>>
    BY <1>2 DEF Submit, PutInitialRecord, EnqueueJob, sqsVars
  <2>2. \A m \in Messages : queue[m] = "present" => queue'[m] = "present"
    BY <1>2 DEF Submit, PutInitialRecord, EnqueueJob, sqsVars
  <2> QED
    BY <1>0, <2>1, <2>2 DEF BatchInv, InHand, workerVars
<1>3. ASSUME NEW m \in Messages, InjectMessage(m) \/ Resurface(m) \/ DeadLetter(m)
      PROVE  BatchInv'
  <2>1. UNCHANGED <<hidden, workerVars>>
    BY <1>0, <1>3 DEF InjectMessage, Resurface, DeadLetter
  <2>2. \A v \in Workers : m \notin batch[v]
    BY <1>0, <1>3, <1>a, <1>c DEF InjectMessage, Resurface, DeadLetter, Visible
  <2>3. \A n \in Messages \ {m} : queue'[n] = queue[n]
    BY <1>3 DEF InjectMessage, Resurface, DeadLetter
  <2> QED
    BY <1>0, <2>1, <2>2, <2>3 DEF BatchInv, InHand, workerVars
<1>4. ASSUME NEW w \in Workers, NEW msgs \in SUBSET Messages, Receive(w, msgs)
      PROVE  BatchInv'
  <2>1. \A v \in Workers : batch[v] \cap msgs = {}
    BY <1>4, <1>c DEF Receive, Receivable, Visible
  <2>2. \A v \in Workers \ {w} : /\ pc'[v] = pc[v] /\ cur'[v] = cur[v]
                                 /\ batch'[v] = batch[v] /\ todo'[v] = todo[v]
    BY <1>4 DEF Receive
  <2>3. /\ pc'[w] = "handle" /\ batch'[w] = msgs /\ todo'[w] = msgs
        /\ UNCHANGED <<queue, failures, clock>>
    BY <1>4 DEF Receive
  <2>4. failures[w] = {} /\ clock[w] = 0
    BY <1>4, <1>a DEF Receive
  <2>5. \A v \in Workers : Own(v)'
    BY <1>a, <2>2, <2>3, <2>4 DEF InHand, Owning
  <2>6. \A v \in Workers : Apart(v)'
    BY <1>a, <2>1, <2>2, <2>3
  <2>7. ASSUME NEW v \in Workers PROVE Flight(v)'
    <3>1. CASE v = w
      BY <1>4, <2>3, <2>4, <3>1, PipelineAssumption
         DEF Receive, Receivable, Visible, PipelineAssumption
    <3>2. CASE v # w
      BY <1>4, <1>a, <2>1, <2>2, <2>3, <3>2 DEF Receive
    <3> QED
      BY <3>1, <3>2
  <2> QED
    BY <2>5, <2>6, <2>7, <1>b
<1>5. ASSUME NEW w \in Workers, NEW m \in Messages, HandleRecord(w, m)
      PROVE  BatchInv'
  <2>1. UNCHANGED <<queue, hidden, batch, failures, clock>>
    BY <1>5 DEF HandleRecord, sqsVars
  <2>2. \A v \in Workers \ {w} : pc'[v] = pc[v] /\ cur'[v] = cur[v] /\ todo'[v] = todo[v]
    BY <1>5 DEF HandleRecord
  <2>3. /\ pc[w] = "handle" /\ m \in todo[w] /\ todo'[w] = todo[w] \ {m}
        /\ pc'[w] = "handle" \/ (pc'[w] = "claim" /\ cur'[w] = m)
    BY <1>5 DEF HandleRecord
  <2>4. \A v \in Workers : Own(v)'
    BY <1>a, <2>1, <2>2, <2>3 DEF InHand, Owning
  <2> QED
    BY <1>a, <2>1, <2>4, <1>b
<1>6. ASSUME NEW w \in Workers,
             MarkProcessing(w) \/ PrepareMaterial(w) \/ Generate(w) \/ MarkCompleted(w)
               \/ MarkFailed(w)
      PROVE  BatchInv'
  <2>1. /\ UNCHANGED <<queue, hidden, batch, todo, clock>>
        /\ \A v \in Workers \ {w} :
             pc'[v] = pc[v] /\ cur'[v] = cur[v] /\ failures'[v] = failures[v]
    BY <1>6, ProcessStep DEF sqsVars
  <2>2. cur[w] \in batch[w] \ todo[w]
    BY <1>6, <1>a, ProcessStep DEF InHand
  <2>3. /\ failures'[w] \subseteq failures[w] \cup {cur[w]}
        /\ pc'[w] # "idle"
        /\ pc'[w] \in Owning \cup {"claim"} => cur'[w] = cur[w]
    BY <1>6, ProcessStep DEF ProcessReturns, Owning
  <2>4. \A v \in Workers : Own(v)'
    BY <1>a, <2>1, <2>2, <2>3 DEF InHand
  <2> QED
    BY <1>a, <2>1, <2>4, <1>b
<1>7. ASSUME NEW w \in Workers, DeleteMessages(w) \/ Kill(w)
      PROVE  BatchInv'
  <2>1. Release(w)
    BY <1>7 DEF DeleteMessages, Kill
  <2>2. \A m \in Messages \ batch[w] : queue'[m] = queue[m] /\ hidden'[m] = hidden[m]
    BY <1>7 DEF DeleteMessages, Kill, sqsVars
  <2>3. /\ pc'[w] = "idle" /\ batch'[w] = {} /\ todo'[w] = {} /\ failures'[w] = {}
        /\ clock'[w] = 0
        /\ \A v \in Workers \ {w} :
             /\ pc'[v] = pc[v] /\ cur'[v] = cur[v] /\ batch'[v] = batch[v]
             /\ todo'[v] = todo[v] /\ failures'[v] = failures[v] /\ clock'[v] = clock[v]
    BY <2>1 DEF Release
  <2>4. \A v \in Workers : Own(v)'
    BY <1>a, <2>3 DEF InHand, Owning
  <2>5. \A v \in Workers : Apart(v)'
    BY <1>a, <2>3
  <2>6. \A v \in Workers : Flight(v)'
    BY <1>a, <2>2, <2>3
  <2> QED
    BY <2>4, <2>5, <2>6, <1>b
<1>8. CASE Tick
  <2>1. UNCHANGED <<queue, pc, batch, todo, failures, cur>>
    BY <1>8 DEF Tick
  <2>2. \A v \in Workers : clock'[v] = IF pc[v] = "idle" THEN 0 ELSE clock[v] + 1
    BY <1>8 DEF Tick
  <2>3. ASSUME NEW v \in Workers, NEW m \in batch[v]
        PROVE  hidden'[m] = Visibility - clock'[v]
    <3>1. hidden[m] > 0 /\ hidden[m] = Visibility - clock[v] /\ pc[v] # "idle" /\ m \in Messages
      BY <2>3, <1>a, <1>c
    <3>2. hidden'[m] = hidden[m] - 1
      BY <1>8, <3>1 DEF Tick
    <3> QED
      BY <2>2, <3>1, <3>2, PipelineAssumption DEF PipelineAssumption
  <2>4. \A v \in Workers : Own(v)'
    BY <1>a, <2>1, <2>2 DEF InHand
  <2> QED
    BY <1>a, <2>1, <2>3, <2>4, <1>b
<1> QED
  BY <1>1, <1>2, <1>3, <1>4, <1>5, <1>6, <1>7, <1>8, NextCases

LEMMA StepStaleInv ==
  ASSUME Undisturbed, TypeInv, DeliveryInv, [Next]_vars
  PROVE  StaleInv'
<1> USE DEF TypeInv, TypeOK
<1>0. BatchInv /\ UnsentInv /\ StaleInv /\ MaxDup = 0
  BY DEF DeliveryInv, Undisturbed
<1>1. \A m \in Messages : age[m] \in Int /\ age'[m] \in Int /\ hidden[m] \in Int
  BY StepTypeInv, PipelineAssumption DEF PipelineAssumption
<1>2. ASSUME NEW m \in Messages, status'[m] = "processing", queue'[m] = "present"
      PROVE  age'[m] > Lease \/ age'[m] + hidden'[m] >= Visibility - LambdaTimeout
  <2>1. CASE status[m] = "processing" /\ age'[m] = age[m] /\ ~Tick
    <3>1. queue[m] = "present"
      <4>1. queue[m] # "unsent"
        BY <1>0, <2>1 DEF UnsentInv
      <4> QED
        BY <1>0, <1>2, <2>1, <4>1, NextCases, ProcessStep
           DEF Submit, PutInitialRecord, EnqueueJob, InjectMessage, Resurface, DeadLetter,
               Receive, HandleRecord, DeleteMessages, Kill, vars, sqsVars, DeliveryInv, UnsentInv
    <3>2. hidden'[m] = hidden[m] \/ hidden'[m] = Visibility
      BY <1>0, <1>2, <2>1, <3>1, NextCases, ProcessStep
         DEF Submit, PutInitialRecord, EnqueueJob, InjectMessage, Resurface, DeadLetter,
             Receive, HandleRecord, DeleteMessages, Kill, vars, sqsVars
    <3>3. age[m] >= 0
      BY PipelineAssumption DEF PipelineAssumption
    <3> QED
      BY <1>0, <1>1, <2>1, <3>1, <3>2, <3>3, UndisturbedNat DEF StaleInv
  <2>2. CASE Tick
    <3>1. /\ queue[m] = "present" /\ status[m] = "processing"
          /\ hidden'[m] = (IF hidden[m] > 0 THEN hidden[m] - 1 ELSE 0)
          /\ age'[m] = (IF age[m] <= Lease THEN age[m] + 1 ELSE age[m])
      BY <1>2, <2>2 DEF Tick
    <3>2. hidden[m] >= 0
      OBVIOUS
    <3> QED
      BY <1>0, <1>1, <3>1, <3>2, UndisturbedNat DEF StaleInv
  <2>3. ASSUME age'[m] = 0, NEW w \in Workers, pc[w] = "claim", cur[w] = m, MarkProcessing(w)
        PROVE  age'[m] + hidden'[m] >= Visibility - LambdaTimeout
    <3>1. hidden'[m] = hidden[m]
      BY <2>3, ProcessStep DEF sqsVars
    <3>2. hidden[m] = Visibility - clock[w] /\ clock[w] \in 0..LambdaTimeout
      BY <1>0, <2>3 DEF BatchInv, InHand
    <3> QED
      BY <2>3, <3>1, <3>2, UndisturbedNat
  <2> QED
    BY <1>2, <2>1, <2>2, <2>3, RecordStep DEF Terminal
<1>3. ASSUME NEW w \in Workers, NEW m \in Messages,
             m \in todo'[w] \/ (pc'[w] = "claim" /\ cur'[w] = m), status'[m] = "processing"
      PROVE  age'[m] > Lease
  <2>1. \/ m \in todo[w] \/ (pc[w] = "claim" /\ cur[w] = m)
        \/ \E msgs \in SUBSET Messages : m \in msgs /\ Receive(w, msgs)
    BY <1>3, NextCases, ProcessStep
       DEF Submit, PutInitialRecord, EnqueueJob, InjectMessage, Resurface, DeadLetter, Receive,
           HandleRecord, DeleteMessages, Kill, Release, Tick, vars, workerVars, ProcessReturns,
           Owning
  <2>2. ASSUME NEW u \in Workers, pc[u] = "claim", cur[u] = m, MarkProcessing(u)
        PROVE  FALSE
    <3>1. m \in batch[u] \ todo[u]
      BY <1>0, <2>2 DEF BatchInv, InHand
    <3>2. ~\E msgs \in SUBSET Messages : Receive(w, msgs)
      BY <2>2, ProcessStep DEF Receive, sqsVars
    <3>3. m \in batch[w]
      BY <1>0, <2>1, <3>2 DEF BatchInv, InHand
    <3>4. u = w
      BY <1>0, <3>1, <3>3 DEF BatchInv
    <3>5. m \notin todo'[w] /\ pc'[w] # "claim"
      BY <2>2, <3>1, <3>4, ProcessStep DEF Owning
    <3> QED
      BY <1>3, <3>5
  <2>3. status[m] = "processing" /\ (age'[m] = age[m] \/ Tick)
    BY <1>3, <2>2, RecordStep DEF Terminal
  <2>4. age[m] > Lease
    <3>1. CASE \E msgs \in SUBSET Messages : m \in msgs /\ Receive(w, msgs)
      BY <1>0, <1>1, <2>3, <3>1, UndisturbedNat DEF Receive, Receivable, Visible, StaleInv
    <3> QED
      BY <1>0, <2>1, <2>3, <3>1 DEF StaleInv
  <2> QED
    <3>1. Tick => age'[m] = IF status[m] = "processing" /\ age[m] <= Lease
                              THEN age[m] + 1 ELSE age[m]
      BY DEF Tick
    <3> QED
      BY <1>1, <2>3, <2>4, <3>1, UndisturbedNat
<1> QED
  BY <1>2, <1>3 DEF StaleInv

LEMMA StepDoneInv ==
  ASSUME Undisturbed, TypeInv, DeliveryInv, [Next]_vars
  PROVE  DoneInv'
<1> USE DEF TypeInv, TypeOK
<1>0. BatchInv /\ UnsentInv /\ StaleInv /\ DoneInv /\ MaxDup = 0 /\ ~RetryMasksClaim
  BY DEF DeliveryInv, Undisturbed
<1>1. \A j \in Jobs : j \in Messages /\ j \notin Garbage
  BY PipelineAssumption DEF Messages, PipelineAssumption
<1>2. \A j \in Jobs : status[j] \in Terminal => status'[j] \in Terminal
  BY <1>1, RecordStep DEF Claimable, Terminal
<1>3. ASSUME NEW w \in Workers, NEW j \in Jobs,
             j \in batch'[w], j \notin todo'[w], j \notin failures'[w], j \notin InHand(w)'
      PROVE  status'[j] \in Terminal
  <2>1. CASE j \in batch[w] \ (todo[w] \cup failures[w] \cup InHand(w))
    BY <1>0, <1>2, <2>1 DEF DoneInv
  <2>2. CASE /\ cur[w] = j /\ pc[w] \in Owning \cup {"claim"}
             /\ \/ MarkProcessing(w) \/ PrepareMaterial(w) \/ Generate(w) \/ MarkCompleted(w)
                \/ MarkFailed(w)
    <3>0. ~ProcessReturns(w, TRUE) /\ ~(pc'[w] \in Owning /\ UNCHANGED cur)
      BY <1>3, <2>2 DEF ProcessReturns, InHand
    <3>1. ProcessReturns(w, FALSE)
      BY <2>2, <3>0, ProcessStep
    <3>2. ~ProcessReturns(w, TRUE) /\ \A phase \in Owning : ~Proceed(w, phase)
      BY <3>0, <3>1 DEF ProcessReturns, Proceed, Owning
    <3>3. CASE MarkProcessing(w)
      <4>1. AlreadyProcessing(w)
        BY <1>0, <3>2, <3>3
           DEF MarkProcessing, Acquire, RecordMissing, ClaimFails, ClaimMasked, Owning
      <4>2. status[j] = "processing" => age[j] > Lease
        BY <1>0, <1>1, <2>2, <3>3 DEF StaleInv, MarkProcessing
      <4>3. status[j] \in Terminal
        BY <1>1, <2>2, <4>1, <4>2 DEF AlreadyProcessing, Claimable, Status, Terminal
      <4> QED
        BY <1>2, <4>3
    <3>4. CASE MarkCompleted(w) \/ MarkFailed(w)
      BY <1>1, <2>2, <3>2, <3>4
         DEF MarkCompleted, MarkFailed, WriteOutcome, SetStatus, Terminal
    <3> QED
      BY <2>2, <3>2, <3>3, <3>4 DEF PrepareMaterial, Generate, Owning
  <2>3. \/ j \in batch[w] \ (todo[w] \cup failures[w] \cup InHand(w))
        \/ /\ cur[w] = j /\ pc[w] \in Owning \cup {"claim"}
           /\ \/ MarkProcessing(w) \/ PrepareMaterial(w) \/ Generate(w) \/ MarkCompleted(w)
              \/ MarkFailed(w)
    <3>1. CASE UNCHANGED workerVars
      BY <1>3, <3>1 DEF workerVars, InHand
    <3>2. ASSUME NEW u \in Workers, NEW msgs \in SUBSET Messages, Receive(u, msgs)
          PROVE  j \in batch[w] \ (todo[w] \cup failures[w] \cup InHand(w))
      BY <1>3, <3>2 DEF Receive, InHand, Owning
    <3>3. ASSUME NEW u \in Workers, NEW m \in Messages, HandleRecord(u, m)
          PROVE  j \in batch[w] \ (todo[w] \cup failures[w] \cup InHand(w))
      BY <1>1, <1>3, <3>3 DEF HandleRecord, InHand, Owning
    <3>4. ASSUME NEW u \in Workers, DeleteMessages(u) \/ Kill(u)
          PROVE  j \in batch[w] \ (todo[w] \cup failures[w] \cup InHand(w))
      BY <1>3, <3>4 DEF DeleteMessages, Kill, Release, InHand, Owning
    <3>5. ASSUME NEW u \in Workers,
                 MarkProcessing(u) \/ PrepareMaterial(u) \/ Generate(u) \/ MarkCompleted(u)
                   \/ MarkFailed(u)
          PROVE  \/ j \in batch[w] \ (todo[w] \cup failures[w] \cup InHand(w))
                 \/ u = w /\ cur[w] = j /\ pc[w] \in Owning \cup {"claim"}
      <4>1. UNCHANGED <<batch, todo>>
        BY <3>5, ProcessStep
      <4>2. CASE u # w
        BY <1>3, <3>5, <4>1, <4>2, ProcessStep DEF InHand
      <4>3. CASE u = w
        BY <1>3, <3>5, <4>1, <4>3, ProcessStep DEF InHand, ProcessReturns
      <4> QED
        BY <4>2, <4>3
    <3>6. CASE Tick
      BY <1>3, <3>6 DEF Tick, InHand
    <3> QED
      BY <3>1, <3>2, <3>3, <3>4, <3>5, <3>6, NextCases
         DEF Submit, PutInitialRecord, EnqueueJob, InjectMessage, Resurface, DeadLetter, vars
  <2> QED
    BY <2>1, <2>2, <2>3
<1>4. ASSUME NEW j \in Jobs, queue'[j] = "deleted"
      PROVE  status'[j] \in Terminal
  <2>1. CASE queue[j] = "deleted"
    BY <1>0, <1>2, <2>1 DEF DoneInv, NoLostJob
  <2>2. ASSUME NEW w \in Workers, DeleteMessages(w), queue[j] # "deleted"
        PROVE  status'[j] \in Terminal
    <3>1. j \in batch[w] \ failures[w] /\ todo[w] = {} /\ InHand(w) = {}
      BY <1>1, <1>4, <2>2 DEF DeleteMessages, InHand, Owning
    <3> QED
      BY <1>0, <1>2, <3>1 DEF DoneInv
  <2> QED
    BY <1>1, <1>4, <2>1, <2>2, NextCases, ProcessStep
       DEF Submit, PutInitialRecord, EnqueueJob, InjectMessage, Resurface, DeadLetter, Receive,
           HandleRecord, Kill, Tick, vars, sqsVars
<1> QED
  BY <1>3, <1>4 DEF DoneInv, NoLostJob

THEOREM DeliveryInvariant ==
  ASSUME Undisturbed
  PROVE  Spec => [](TypeInv /\ DeliveryInv)
<1>1. Init => DeliveryInv
  BY InitDeliveryInv
<1>2. TypeInv /\ DeliveryInv /\ [Next]_vars => DeliveryInv'
  <2> SUFFICES ASSUME TypeInv, DeliveryInv, [Next]_vars PROVE DeliveryInv'
    OBVIOUS
  <2>1. dups' = 0
    BY StepTypeInv DEF Undisturbed, TypeInv, TypeOK
  <2> QED
    BY <2>1, StepUnsentInv, StepBatchInv, StepStaleInv, StepDoneInv DEF DeliveryInv
<1> QED
  BY <1>1, <1>2, TypeInvariant, PTL DEF Spec

(* While SQS keeps its visibility promise, no retry hides a claim, and the *)
(* visibility timeout exceeds a run and a lease, the message of an         *)
(* unfinished job is never deleted: crashes, failed calls, failed deletes  *)
(* and partial batches included.                                           *)
THEOREM NoJobIsLost ==
  ASSUME Undisturbed
  PROVE  Spec => []NoLostJob
BY DeliveryInvariant, PTL DEF DeliveryInv, DoneInv

(* Under the same conditions every redelivery finds the lease of the       *)
(* attempt before it expired, so it is never mistaken for a duplicate.     *)
THEOREM RedeliveryFindsLeaseExpired ==
  ASSUME Undisturbed
  PROVE  Spec => []RedeliveryOutlivesLease
<1>1. TypeInv /\ DeliveryInv => RedeliveryOutlivesLease
  BY DEF TypeInv, HandInv, DeliveryInv, StaleInv, RedeliveryOutlivesLease
<1> QED
  BY <1>1, DeliveryInvariant, PTL
=============================================================================
