--------------------------- MODULE OutputQueueMC ---------------------------
(* OutputQueue for TLC: slots, flows and goroutines of one kind are          *)
(* interchangeable, so states that differ in their names are checked once.   *)
EXTENDS OutputQueue, TLC

Symmetry == Permutations(Slots) \cup Permutations(FlowKeys)
            \cup Permutations(Publishers) \cup Permutations(Readers)
=============================================================================
