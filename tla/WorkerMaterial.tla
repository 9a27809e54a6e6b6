--------------------------- MODULE WorkerMaterial ---------------------------
(***************************************************************************)
(* JobProcess with what its stages untar and select do in detail: the      *)
(* archive is unpacked file by file, and the material taken part by part,  *)
(* while the deadline may pass or the invocation be stopped; the next      *)
(* stage is reached only as MaterialBudget has it.                         *)
(***************************************************************************)
EXTENDS JobProcess

CONSTANTS MaxTotalBytes, Sizes, MaxEntries, MaxBytes, Texts

VARIABLES step, sizes, files, total, remaining, offered, parts

M == INSTANCE MaterialBudget WITH pc <- step

ASSUME MaterialAssumption ==
  /\ MaxTotalBytes \in Nat /\ MaxBytes \in Nat /\ MaxEntries \in Nat
  /\ Sizes \subseteq Nat /\ \A text \in Texts : text \in M!Text

material    == <<step, sizes, files, total, remaining, offered, parts>>
workingVars == <<vars, material>>

(* Where nothing of the archive and the material is used any more. *)
Over == {"writing", "return", "idle"}

Discard ==
  /\ step' = "unpack" /\ sizes' = <<>> /\ files' = <<>> /\ total' = 0
  /\ remaining' = MaxBytes /\ offered' = <<>> /\ parts' = <<>>

(* What a step of Process does to the extractor's state: Untar ends with   *)
(* ErrTooLarge when writeFileCapped says so, and with no other outcome     *)
(* then; SelectMaterial ends with its last part; the end of the attempt    *)
(* ends this state too.                                                    *)
Follow ==
  \/ pc' = pc /\ UNCHANGED material
  \/ pc = "untar" /\ pc' = "commits" /\ M!UntarEnds
  \/ /\ pc = "untar" /\ pc' = "fail"
     /\ IF step = "too large" THEN cause'.error = "too large" /\ UNCHANGED material
                              ELSE cause'.error # "too large" /\ M!UntarFails
  \/ pc = "select" /\ pc' = "generate" /\ step = "done" /\ UNCHANGED material
  \/ pc \notin {"untar", "select"} /\ pc' \notin Over \cup {pc} /\ UNCHANGED material
  \/ pc \in Over /\ pc' \in Over /\ UNCHANGED material
  \/ pc \notin Over /\ pc' \in Over /\ Discard

WorkingInit == Init /\ M!Init

WorkingNext ==
  \/ Next /\ Follow
  \/ pc = "untar" /\ M!UntarFile /\ UNCHANGED vars
  \/ pc = "select" /\ M!TakeText /\ UNCHANGED vars
  \/ pc = "select" /\ M!TakeFiles /\ UNCHANGED vars

(* Nothing but the platform is assumed to act, as in JobProcess: unpacking *)
(* and selecting may hang.                                                 *)
WorkingSpec ==
  /\ WorkingInit /\ [][WorkingNext]_workingVars
  /\ WF_vars(Begin /\ Follow) /\ WF_vars(Expire /\ Follow) /\ WF_vars(Kill /\ Follow)
  /\ WF_vars((Apply \/ Lose) /\ Follow)

-----------------------------------------------------------------------------
(* Properties. *)

(* The archive is refused exactly when its files exceed the cap together,  *)
(* and then one byte beyond it at most was written; what is accepted was   *)
(* unpacked whole (extract.go, writeFileCapped).                           *)
TooLargeExactly == M!TooLargeExactly

(* The parts of the material keep the budget, end between characters and   *)
(* are cut in order of priority (material.go, takeBudget, truncateUTF8).   *)
PartsKeepBudget == M!PartsKeepBudget
=============================================================================
