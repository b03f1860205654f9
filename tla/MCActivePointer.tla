-------------------------- MODULE MCActivePointer --------------------------
(* Bounds of ActivePointer for TLC. *)
EXTENDS ActivePointer, TLC

Symmetry == Permutations(Procs) \cup Permutations(Runs)
=============================================================================
