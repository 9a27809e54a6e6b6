--------------------------- MODULE LocalProcesses ---------------------------
(***************************************************************************)
(* The local emulator's background processes: a behaviour is about the     *)
(* event source mapping, or about the jobs that prepare its resources,     *)
(* which have ended before it starts.                                      *)
(***************************************************************************)
EXTENDS EsmPoller

CONSTANTS Runs, RawTimeout, Unusable, DefaultTimeout

(* LOCAL_INIT_TIMEOUT_SECONDS may be any text, its default is a number. *)
ASSUME TimeoutAssumption == RawTimeout \in Int \cup {Unusable} /\ DefaultTimeout \in Nat

VARIABLES part, dynamodb, queues, redrive, table, index, main, elapsed, mark

L == INSTANCE LocalInit WITH pc <- main

setup   == <<dynamodb, queues, redrive, table, index, main, elapsed, mark>>
allVars == <<part, vars, setup>>

LocalStart ==
  /\ part \in {"poller", "setup"} /\ Init /\ L!Init
  /\ part = "poller" => redrive

PollerNext == part = "poller" /\ Next /\ UNCHANGED <<part, setup>>
SetupNext  == part = "setup" /\ L!Next /\ UNCHANGED <<part, vars>>

LocalNext == PollerNext \/ SetupNext

(* The fairness of EsmPoller and of LocalInit. *)
LocalSpec ==
  /\ LocalStart /\ [][LocalNext]_allVars
  /\ WF_vars(part = "poller" /\ Step) /\ SF_vars(part = "poller" /\ Receive)
  /\ WF_setup(part = "setup" /\ L!Tick)
  /\ \A r \in Runs : WF_setup(part = "setup" /\ L!RunStep(r))

-----------------------------------------------------------------------------
(* Properties of both. *)

(* Messages waiting are received, for every configured batch size (esm.py, *)
(* _batch_size).                                                           *)
PollerReceives == part = "poller" => WaitingIsReceived

(* Exit code 0, which starts the other services, means that the table, its *)
(* index, both queues and the redrive are there, whoever created them      *)
(* (init_resources.py, main).                                              *)
ExitZeroMeansReady == L!ExitZeroMeansReady

(* Run any number of times, side by side or again, the job does no harm:   *)
(* unless a service was late, a call failed or the queues are set up       *)
(* wrongly, no run ends in an error (init_resources.py, its docstring).    *)
RepeatedRunsSucceed == L!RepeatedRunsSucceed

(* Whatever does not start, every run of the setup ends (wait_until_ready, *)
(* wait_for_table_active).                                                 *)
EveryRunEnds == part = "setup" => L!EveryRunEnds
=============================================================================
