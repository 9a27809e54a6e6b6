---------------------------- MODULE TableReaders ----------------------------
(***************************************************************************)
(* The readers of the moving job table: a behaviour is about the list,     *)
(* which reads the index, or about the statistics, which scan the table    *)
(* itself, where the keys of the metrics lie between and beyond those of   *)
(* the jobs.                                                               *)
(***************************************************************************)
EXTENDS NarrativeListing

CONSTANTS Scanned, MetricKey, Dates, Prompts, NoPrompt, PromptTrendLimit, Runs

(* The keys of the table have places in one order, and the batch's jobs and *)
(* prompts are finitely many.                                              *)
ASSUME BatchAssumption ==
  /\ Scanned \subseteq Nat \ {0} /\ IsFiniteSet(Scanned)
  /\ 0 \in Dates /\ MetricKey \in [Dates \X (1..3) -> Nat \ Scanned]
  /\ Prompts \subseteq Nat /\ IsFiniteSet(Prompts) /\ PromptTrendLimit \in Nat
  /\ None \notin Nat \cup Runs \cup Prompts

VARIABLES part, today, job, stats, pc, scan, metrics, write, blurred

S == INSTANCE StatsBatch WITH Jobs <- Scanned

batch   == <<today, job, stats, pc, scan, metrics, write, blurred>>
allVars == <<part, vars, batch>>

ReadersInit == part \in {"list", "statistics"} /\ Init /\ S!Init

ListNext       == part = "list" /\ Next /\ UNCHANGED <<part, batch>>
StatisticsNext == part = "statistics" /\ S!Next /\ UNCHANGED <<part, vars>>

ReadersNext == ListNext \/ StatisticsNext

ReadersSpec == ReadersInit /\ [][ReadersNext]_allVars

-----------------------------------------------------------------------------
(* StatsBatch's properties. *)

(* However the pages fall, whichever replica answers and however the table *)
(* moves, every job that had settled is counted once, and the trends are   *)
(* the top ones (store.go, ScanJobs; stats.go, promptTrends).              *)
StatisticsAreRight == S!StatisticsAreRight

(* The three records of a date are of one execution, unless one of those   *)
(* that wrote them failed, overlapped another, or is still writing         *)
(* (stats.go, Write).                                                      *)
RecordsOfOneRun == S!RecordsOfOneRun
=============================================================================
