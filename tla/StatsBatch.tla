----------------------------- MODULE StatsBatch -----------------------------
(***************************************************************************)
(* The statistics batch: executions of the state machine Scan, Aggregate,  *)
(* Write.  The scan reads page by page, and eventually consistently, a     *)
(* table in which jobs appear and which also holds the records of earlier  *)
(* executions; the three metrics are written one by one.  Of a job only    *)
(* the prompt is modelled, and of the rankings the one with a limit,       *)
(* prompt_trends.                                                          *)
(***************************************************************************)
EXTENDS Naturals, FiniteSets, FiniteSetsExt, Functions

CONSTANTS
  Jobs,       \* a subset of Nat \ {0}: the place of their key in the order of the scan
  MetricKey,  \* injective, in [Dates \X Metrics -> Nat \ Jobs]: the place of
              \* STATS#<date>#<metric>
  Dates,      \* BOUND: 0..n
  Prompts,    \* a subset of Nat: custom prompts, by their order as texts
  NoPrompt,   \* none, or blanks
  PromptTrendLimit,
  Runs,       \* executions, scheduled or started by hand
  None

Other   == 0      \* no job's place
Metrics == 1..3   \* model_usage, prompt_trends, token_usage, in this order

VARIABLES
  today,    \* the date in UTC
  job,      \* [Jobs -> Prompts \cup {NoPrompt, None}]: the prompts of the jobs there are
  stats,    \* [Dates \X Metrics -> Runs \cup {None}]: who wrote the record
  pc,       \* [Runs -> Phase]
  scan,     \* [Runs -> Scan]: the scan task so far
  metrics,  \* [Runs -> Metric \cup {None}]: what Aggregate returned
  write,    \* [Runs -> [date, next]]: the write task so far
  blurred   \* runs with a call that failed, or with another run beside them

vars == <<today, job, stats, pc, scan, metrics, write, blurred>>

Phase  == {"idle", "scan", "aggregate", "write", "succeeded", "failed"}
Keys   == Jobs \cup {MetricKey[x] : x \in Dates \X Metrics}
Taken  == Jobs \cup {Other}
(* count: how often each job, and anything else, was taken; start: the     *)
(* jobs that every replica of the table had when the scan began.           *)
Scan   == [key : Keys \cup {None}, count : [Taken -> Nat], start : SUBSET Jobs]
Metric == [total : Nat, trends : SUBSET [prompt : Prompts, count : Nat]]

ScanOf(jobs) == [key |-> None, count |-> [k \in Taken |-> 0], start |-> jobs]
NoScan       == ScanOf({})

TypeOK ==
  /\ today \in Dates
  /\ job \in [Jobs -> Prompts \cup {NoPrompt, None}]
  /\ stats \in [Dates \X Metrics -> Runs \cup {None}]
  /\ pc \in [Runs -> Phase]
  /\ scan \in [Runs -> Scan]
  /\ metrics \in [Runs -> Metric \cup {None}]
  /\ write \in [Runs -> [date : Dates, next : Metrics]]
  /\ blurred \subseteq Runs

Init ==
  /\ today = 0 /\ job = [j \in Jobs |-> None]
  /\ stats = [x \in Dates \X Metrics |-> None]
  /\ pc = [r \in Runs |-> "idle"] /\ scan = [r \in Runs |-> NoScan]
  /\ metrics = [r \in Runs |-> None]
  /\ write = [r \in Runs |-> [date |-> 0, next |-> 1]] /\ blurred = {}

-----------------------------------------------------------------------------
(* The table moves on. *)

(* BOUND: jobs appear while an execution may still see them. *)
Create(j) ==
  /\ job[j] = None /\ \E r \in Runs : pc[r] \in {"idle", "scan"}
  /\ \E p \in Prompts \cup {NoPrompt} : job' = [job EXCEPT ![j] = p]
  /\ UNCHANGED <<today, stats, pc, scan, metrics, write, blurred>>

(* BOUND: the date changes while an execution is still to read it. *)
Midnight ==
  /\ today + 1 \in Dates /\ today' = today + 1
  /\ \E r \in Runs : pc[r] \notin {"succeeded", "failed"} /\ write[r].next = 1
  /\ UNCHANGED <<job, stats, pc, scan, metrics, write, blurred>>

-----------------------------------------------------------------------------
(* The scan task. *)

Existing == {j \in Jobs : job[j] # None}
Items    == Existing \cup {MetricKey[x] : x \in {y \in Dates \X Metrics : stats[y] # None}}
Active   == {r \in Runs : pc[r] \in {"scan", "aggregate", "write"}}

(* A job stored just before may be missing in a replica. *)
Start(r) ==
  /\ pc[r] = "idle" /\ pc' = [pc EXCEPT ![r] = "scan"]
  /\ \E settled \in SUBSET Existing : scan' = [scan EXCEPT ![r] = ScanOf(settled)]
  /\ blurred' = IF Active = {} THEN blurred ELSE blurred \cup Active \cup {r}
  /\ UNCHANGED <<today, job, stats, metrics, write>>

(* Defect: the scan ends with its first page. *)
FirstPageOnly(page, rest) == {None}

(* Those without the prefix STATS#. *)
JobsOf(page) == page \cap Jobs

(* LastEvaluatedKey, while something is left and perhaps once more. *)
LastKeys(page, rest) ==
  (IF page # {} THEN {Max(page)} ELSE {}) \cup (IF rest = {} THEN {None} ELSE {})

(* ScanJobs, one page, which ends where its size is reached.  The replica  *)
(* that answers has the jobs that had settled and perhaps others; whether  *)
(* it has a record of metrics makes no difference to what is counted.      *)
ScanPage(r) ==
  /\ pc[r] = "scan"
  /\ LET left == {k \in Items : scan[r].key = None \/ k > scan[r].key}
     IN  \E missed \in SUBSET (JobsOf(left) \ scan[r].start) : \E n \in (left \ missed) \cup {0} :
           LET page  == {k \in left \ missed : k <= n}
               rest  == {k \in left \ missed : k > n}
               taken == JobsOf(page)
               count == [k \in Taken |-> scan[r].count[k] +
                          Cardinality({i \in taken : k = IF i \in Jobs THEN i ELSE Other})]
           IN  /\ page = {} => rest = {}
               /\ \E key \in LastKeys(page, rest) :
                    /\ scan' = [scan EXCEPT ![r] =
                         [key |-> key, count |-> count, start |-> @.start]]
                    /\ pc' = [pc EXCEPT ![r] = IF key = None THEN "aggregate" ELSE "scan"]
  /\ UNCHANGED <<today, job, stats, metrics, write, blurred>>

(* What the execution had read ends with it. *)
End(r, phase) ==
  /\ pc' = [pc EXCEPT ![r] = phase]
  /\ scan' = [scan EXCEPT ![r] = NoScan] /\ metrics' = [metrics EXCEPT ![r] = None]
  /\ write' = [write EXCEPT ![r] = [date |-> 0, next |-> 1]]

(* A failed task ends the execution: the state machine retries nothing. *)
Fail(r) == End(r, "failed")

ScanFails(r) ==
  /\ pc[r] = "scan" /\ Fail(r) /\ blurred' = blurred \cup {r}
  /\ UNCHANGED <<today, job, stats>>

-----------------------------------------------------------------------------
(* The aggregate task. *)

Total(count)     == SumFunctionOnSet(count, Taken)
Asking(count, p) == SumFunctionOnSet(count, {j \in Existing : job[j] = p})
Asked(count)     == {p \in Prompts : Asking(count, p) > 0}

(* Sorted by count, the most frequent first, and by text; then cut. *)
promptTrends(count) ==
  LET Before(o, q) == \/ Asking(count, o) > Asking(count, q)
                      \/ Asking(count, o) = Asking(count, q) /\ o < q
  IN  {[prompt |-> p, count |-> Asking(count, p)] :
         p \in {q \in Asked(count) :
                  Cardinality({o \in Asked(count) : Before(o, q)}) < PromptTrendLimit}}

(* The list the scan returned; a scan that found no jobs returns one too.  *)
(* What had settled when the scan began matters no more.                   *)
Aggregate(r) ==
  /\ pc[r] = "aggregate"
  /\ pc' = [pc EXCEPT ![r] = "write"]
  /\ metrics' = [metrics EXCEPT ![r] =
       [total |-> Total(scan[r].count), trends |-> promptTrends(scan[r].count)]]
  /\ scan' = [scan EXCEPT ![r].start = {}]
  /\ UNCHANGED <<today, job, stats, write, blurred>>

-----------------------------------------------------------------------------
(* The write task. *)

(* The date is read when the task begins. *)
DateOf(r) == IF write[r].next = 1 THEN today ELSE write[r].date

Advance(r) ==
  IF write[r].next = 3
    THEN End(r, "succeeded")
    ELSE /\ write' = [write EXCEPT ![r] = [date |-> DateOf(r), next |-> @.next + 1]]
         /\ UNCHANGED <<pc, scan, metrics>>

(* Defect: the error is logged and the next metric written. *)
PutOrGoOn(r) ==
  /\ pc[r] = "write" /\ Advance(r)
  /\ stats' \in {stats, [stats EXCEPT ![<<DateOf(r), write[r].next>>] = r]}
  /\ UNCHANGED <<today, job, blurred>>

(* PutMetric, of the next metric: an existing record is replaced. *)
PutMetric(r) ==
  /\ pc[r] = "write"
  /\ stats' = [stats EXCEPT ![<<DateOf(r), write[r].next>>] = r]
  /\ Advance(r)
  /\ UNCHANGED <<today, job, blurred>>

(* The error may hide that the record was written. *)
PutFails(r) ==
  /\ pc[r] = "write" /\ Fail(r) /\ blurred' = blurred \cup {r}
  /\ \/ UNCHANGED stats
     \/ stats' = [stats EXCEPT ![<<DateOf(r), write[r].next>>] = r]
  /\ UNCHANGED <<today, job>>

Next ==
  \/ Midnight
  \/ \E j \in Jobs : Create(j)
  \/ \E r \in Runs : \/ Start(r) \/ ScanPage(r) \/ ScanFails(r) \/ Aggregate(r)
                     \/ PutMetric(r) \/ PutFails(r)

Spec == Init /\ [][Next]_vars

-----------------------------------------------------------------------------
(* Properties. *)

CountedOnce(r) ==
  /\ scan[r].count[Other] = 0 /\ \A j \in Jobs : scan[r].count[j] <= 1
  /\ pc[r] = "aggregate" => \A j \in scan[r].start : scan[r].count[j] = 1

TrendsAreTop(r) == metrics[r] # None =>
  LET kept    == {t.prompt : t \in metrics[r].trends}
      Often(p) == Cardinality({j \in Existing : scan[r].count[j] = 1 /\ job[j] = p})
  IN  /\ SumFunction([t \in metrics[r].trends |-> t.count]) <= metrics[r].total
      /\ \A t \in metrics[r].trends : t.count = Often(t.prompt) /\ t.count > 0
      /\ \A p \in Prompts \ kept : Often(p) > 0 =>
           /\ Cardinality(kept) = PromptTrendLimit
           /\ \A q \in kept : Often(q) >= Often(p)

(* However the pages fall, whichever replica answers each, and however the *)
(* table moves, a scan counts every job that had settled when it began     *)
(* exactly once, a later one at most once - it may miss one stored just    *)
(* before - and nothing that is no job, the records of yesterday's batch   *)
(* included; the prompts kept are the most frequent of those counted, and  *)
(* some are left out only at the limit (store.go, ScanJobs; stats.go,      *)
(* promptTrends).                                                          *)
StatisticsAreRight == \A r \in Runs : CountedOnce(r) /\ TrendsAreTop(r)

(* The three records of a date are of one execution, unless one of those   *)
(* that wrote them failed, overlapped another, or is still writing.        *)
RecordsOfOneRun ==
  \A d \in Dates :
    LET writers == {stats[<<d, m>>] : m \in Metrics}
    IN  (\A r \in writers \ {None} : pc[r] = "succeeded" /\ r \notin blurred)
          => Cardinality(writers) = 1
=============================================================================
