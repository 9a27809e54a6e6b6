---------------------------- MODULE JobLifecycle ----------------------------
(***************************************************************************)
(* What the job table promises about one conversion job, whatever queue,   *)
(* retries and crashes lie underneath: a record is created once, is worked *)
(* on by at most one worker at a time, and once it is completed or failed  *)
(* it is never written again.  NarrativePipeline implements this.          *)
(***************************************************************************)
CONSTANTS Jobs,      \* job identifiers (UUID v4 in the code)
          Workers,   \* worker invocations
          None       \* no worker

VARIABLES status,    \* [Jobs -> Status]: the record's status attribute
          owner      \* [Jobs -> Workers \cup {None}]: who is working on the job

lifecycleVars == <<status, owner>>

Terminal == {"completed", "failed"}
Status == {"absent", "queued", "processing"} \cup Terminal

TypeOK == /\ status \in [Jobs -> Status]
          /\ owner \in [Jobs -> Workers \cup {None}]

Init == /\ status = [j \in Jobs |-> "absent"]
        /\ owner = [j \in Jobs |-> None]

(* The API writes the initial record. *)
Create(j) == /\ status[j] = "absent"
             /\ status' = [status EXCEPT ![j] = "queued"]
             /\ UNCHANGED owner

(* The job is claimed by worker w, or (w = None) the claim is written and  *)
(* the claimant never learns of it.                                        *)
Claim(j, w) == /\ status[j] \in {"queued", "processing"}
               /\ owner[j] = None
               /\ status' = [status EXCEPT ![j] = "processing"]
               /\ owner' = [owner EXCEPT ![j] = w]

(* The owner gives up: a transient failure, a crash, a timeout. *)
Abandon(j) == /\ owner[j] # None
              /\ owner' = [owner EXCEPT ![j] = None]
              /\ UNCHANGED status

(* The owner records the outcome. *)
Finish(j, outcome) == /\ status[j] = "processing"
                      /\ owner[j] # None
                      /\ status' = [status EXCEPT ![j] = outcome]
                      /\ owner' = [owner EXCEPT ![j] = None]

Next == \E j \in Jobs :
          \/ Create(j)
          \/ \E w \in Workers \cup {None} : Claim(j, w)
          \/ Abandon(j)
          \/ \E outcome \in Terminal : Finish(j, outcome)

Spec == Init /\ [][Next]_lifecycleVars
=============================================================================
