--------------------------- MODULE MCResultPolling ---------------------------
(* ResultPolling on small sets of model values, for TLC. *)
EXTENDS ResultPolling, TLC

(* Jobs and loops are interchangeable; for safety runs only. *)
Symmetry == Permutations(Jobs) \cup Permutations(Pollers)
=============================================================================
