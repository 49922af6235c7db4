--------------------------- MODULE MCBackendList ---------------------------
(* BackendList on a small instance. *)
EXTENDS BackendList, TLC

Symmetry == Permutations(Address) \cup Permutations(Request)

=============================================================================
