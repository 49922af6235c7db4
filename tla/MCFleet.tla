------------------------------ MODULE MCFleet -------------------------------
(***************************************************************************)
(* Fleet with two data planes.  Reports expire after one tick, a bucket is *)
(* one tick wide and the history holds two samples.                        *)
(***************************************************************************)
EXTENDS Fleet

MCMixes == {m \in (0..4) \X (0..2) : m[1] + 2 * m[2] <= 4}

=============================================================================
