--------------------------- MODULE MCSendPipeline ---------------------------
(* Small instances of SendPipeline for TLC. *)
EXTENDS SendPipeline, TLC

\* Callers and keys are interchangeable: no action or invariant names one.
Symmetry == Permutations(Callers) \cup Permutations(Keys)
=============================================================================
