----------------------------- MODULE ForwarderMC -----------------------------
(* The instance of Forwarder that TLC checks: two flows of one destination.  *)
EXTENDS Forwarder, TLC

OneDestination == [f \in Flows |-> CHOOSE l \in Locals : TRUE]
Withdrawing == {{}}
Symmetry == Permutations(Requests) \cup Permutations(Flows)
=============================================================================
