------------------------------- MODULE MCSession -------------------------------
(***************************************************************************)
(* The state that sessions share in the plugin's data directory and that   *)
(* no other run covers: the activator's, the set of turn states with its   *)
(* pruning, and the adoption ledger.  Hooks change them one after another  *)
(* and nothing is read from one to change the other, so that each is       *)
(* explored by itself.                                                     *)
(***************************************************************************)
EXTENDS Activator, TurnPrune, Adoption, TLC

VARIABLE explored

sessionVars == <<explored, aVars, pVars, lVars>>

SessionInit == AInit /\ PInit /\ LInit /\ explored \in {"activator", "turns", "adoption"}

SessionNext ==
  /\ UNCHANGED explored
  /\ \/ explored = "activator" /\ ANext /\ UNCHANGED <<pVars, lVars>>
     \/ explored = "turns" /\ PNext /\ UNCHANGED <<aVars, lVars>>
     \/ explored = "adoption" /\ LNext /\ UNCHANGED <<aVars, pVars>>

SessionSpec == SessionInit /\ [][SessionNext]_sessionVars

\* Hooks, turns and recorders are those of the sessions, and interchangeable.
Symmetry == Permutations(Hooks)
=============================================================================
