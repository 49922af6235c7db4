--------------------------- MODULE MCDistribution ---------------------------
(* Distribution on small instances. *)
EXTENDS Distribution, TLC

Symmetry == Permutations(DataPlane) \cup Permutations(Address) \cup Permutations(Admin)

=============================================================================
