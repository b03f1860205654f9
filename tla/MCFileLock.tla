----------------------------- MODULE MCFileLock -----------------------------
(* Bounds of FileLock for TLC. *)
EXTENDS FileLock, TLC

ProcSymmetry == Permutations(Procs)
=============================================================================
