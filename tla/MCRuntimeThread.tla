-------------------------- MODULE MCRuntimeThread --------------------------
(* Instances of RuntimeThread for TLC. *)
EXTENDS RuntimeThread, TLC

Symmetry == Permutations(Handle) \cup Permutations(Vm)
=============================================================================
