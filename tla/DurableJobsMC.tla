--------------------------- MODULE DurableJobsMC ---------------------------
(* Small instances of DurableJobs for TLC. *)
EXTENDS DurableJobs, TLC

(* Worker processes, and the operators, differ only by name. *)
WorkerSymmetry == Permutations(Workers)
ActorSymmetry == Permutations(Workers) \cup Permutations(Operators)
=============================================================================
