----------------------------- MODULE MCJobQueue -----------------------------
(* Instances of JobQueue for TLC: the cleanup job and one other, two workers. *)
EXTENDS JobQueue, TLC
============================================================================
