--------------------------- MODULE MCTaskExecutor ---------------------------
(* Instances of TaskExecutor for TLC. *)
EXTENDS TaskExecutor, TLC

Symmetry == Permutations(Spawned) \cup Permutations(Worker)
=============================================================================
