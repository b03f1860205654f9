---------------------------- MODULE MCRunTrace ----------------------------
(* Bounds of RunTrace for TLC. *)
EXTENDS RunTrace, TLC

ProcSymmetry == Permutations(Procs)
=============================================================================
