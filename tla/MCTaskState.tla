---------------------------- MODULE MCTaskState ----------------------------
(* Instances of TaskState for TLC. *)
EXTENDS TaskState, TLC

Symmetry == Permutations(Task) \cup Permutations(Thread)
=============================================================================
