----------------------------- MODULE MCPipeline -----------------------------
(* NarrativePipeline on small sets of model values, for TLC. *)
EXTENDS NarrativePipeline, TLC

(* Jobs are interchangeable, and so are invocation slots. *)
Symmetry == Permutations(Jobs) \cup Permutations(Workers)
=============================================================================
