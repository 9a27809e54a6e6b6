---------------------------- MODULE MCJobProcess ----------------------------
(* WorkerMaterial with a few deliveries and all texts of up to two          *)
(* characters, for TLC.                                                     *)
EXTENDS WorkerMaterial, SequencesExt

(* The bytes of the text with characters of these widths. *)
Bytes(widths) == FlattenSeq([i \in DOMAIN widths |-> [k \in 1..widths[i] |-> k = 1]])

ShortTexts == {Bytes(widths) : widths \in BoundedSeq({1, 3}, 2) \cup {<<4>>}}
=============================================================================
