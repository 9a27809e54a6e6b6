----------------------------- MODULE MCListing -----------------------------
(* TableReaders for TLC: three jobs, and the keys of the metrics of two     *)
(* days among those of the jobs.                                           *)
EXTENDS TableReaders, TLC

TwoDays == {0, 1}
KeysOfTwoDays == [x \in TwoDays \X (1..3) |-> 2 * x[2] + 6 * x[1]]

Symmetry == Permutations(Users) \cup Permutations(Runs)
=============================================================================
