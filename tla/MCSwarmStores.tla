---------------------------- MODULE MCSwarmStores ----------------------------
(* Instances of SwarmStores for TLC: the agents are interchangeable. *)
EXTENDS SwarmStores, TLC

Symmetry == Permutations(Agents)
=============================================================================
