----------------------------- MODULE EvidenceGate -----------------------------
(***************************************************************************)
(* What the evidence gate of a run promises, whatever stores it: a         *)
(* mutation makes evidence pending, a passing verification clears it, and  *)
(* work is accepted as complete only while nothing is pending; after that  *)
(* the gate does not move any more.  RunTrace implements it.               *)
(***************************************************************************)
VARIABLES
  pending,  \* a mutation is not covered by a later passing verification
  closed    \* the work has been accepted as complete

gate == <<pending, closed>>

Init ==
  /\ pending = FALSE
  /\ closed = FALSE

Mutate ==
  /\ ~closed
  /\ pending' = TRUE
  /\ UNCHANGED closed

Verify ==
  /\ ~closed
  /\ pending' = FALSE
  /\ UNCHANGED closed

Complete ==
  /\ ~closed
  /\ ~pending
  /\ closed' = TRUE
  /\ UNCHANGED pending

Next == Mutate \/ Verify \/ Complete

Spec == Init /\ [][Next]_gate
=============================================================================
