------------------------------ MODULE Settings ------------------------------
(***************************************************************************)
(* The per-group settings an administrator submits: what the forms accept  *)
(* (internal/admin/handlers.go), the defaults of the stores                *)
(* (internal/controlplane/sticky.go, ratelimit.go, algorithm.go) and what  *)
(* goes into a backend set (snapshotToBackendSet, server.go).              *)
(*                                                                         *)
(* A field that does not parse is Malformed, an override without a weight  *)
(* has NoWeight.  Rates are in tenths of a request per second, durations  *)
(* in seconds.                                                             *)
(***************************************************************************)
EXTENDS Integers

CONSTANTS Malformed, NoWeight, MaxInt32

ASSUME SettingsAssumption == MaxInt32 \in Nat \ {0}

Algorithms == {"round_robin", "least_connections", "random", "p2c", "consistent_hash"}

(* A number that parsed and is positive, 0 otherwise. *)
PositiveOr0(field) == IF field # Malformed /\ field > 0 THEN field ELSE 0

-----------------------------------------------------------------------------
(* What a form makes of its fields, and whether it is taken at all *)

OverrideTaken(f) ==
  \/ f.action \in {"drain", "clear"}
  \/ f.action = "set_weight" /\ f.weight # Malformed /\ f.weight \in 0..MaxInt32

Override(f) ==
  [weight |-> IF f.action = "drain" THEN NoWeight ELSE f.weight,
   drained |-> f.action = "drain"]

AlgorithmTaken(f) == f.algorithm \in Algorithms

StickyConfig(f) ==
  [enabled |-> f.enabled, cookie |-> f.cookie, ttl |-> 60 * PositiveOr0(f.minutes)]

RateLimitConfig(f) ==
  [enabled |-> f.enabled, rps |-> PositiveOr0(f.rps), burst |-> PositiveOr0(f.burst)]

-----------------------------------------------------------------------------
(* The stores' defaults *)

effectiveCookieName(c) == IF c.cookie = "" THEN "jb_affinity" ELSE c.cookie

effectiveTTL(c) == IF c.ttl <= 0 THEN 1800 ELSE c.ttl

effectiveRPS(c) == IF c.rps <= 0 THEN 100 ELSE c.rps

(* Mutant: the burst is the whole part of the rate. *)
effectiveBurstUnfloored(c) ==
  IF c.burst > 0 THEN c.burst ELSE effectiveRPS(c) \div 10

(* A burst that is not set is one second's worth, at least one. *)
effectiveBurst(c) ==
  IF c.burst > 0 THEN c.burst
  ELSE LET b == effectiveRPS(c) \div 10 IN IF b < 1 THEN 1 ELSE b

-----------------------------------------------------------------------------
(* snapshotToBackendSet: the settings as they are published *)

WireSticky(c) ==
  [enabled |-> c.enabled, cookie |-> effectiveCookieName(c), ttl |-> effectiveTTL(c)]

WireRateLimit(c) ==
  IF ~c.enabled THEN [rps |-> 0, burst |-> 0]
  ELSE [rps |-> effectiveRPS(c),
        burst |-> IF effectiveBurst(c) > MaxInt32 THEN MaxInt32 ELSE effectiveBurst(c)]

=============================================================================
