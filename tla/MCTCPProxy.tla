----------------------------- MODULE MCTCPProxy -----------------------------
(* TCPProxy on small instances. *)
EXTENDS TCPProxy, TLC

Symmetry == Permutations(Conn)

=============================================================================
