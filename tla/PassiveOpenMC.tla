--------------------------- MODULE PassiveOpenMC ---------------------------
(* PassiveOpen with interchangeable tuples, connections, listeners and calls. *)
EXTENDS PassiveOpen, TLC

Symmetry ==
    Permutations(Keys) \cup Permutations(Conns) \cup Permutations(Listeners) \cup Permutations(Writers)
=============================================================================
