-------------------------------- MODULE Edge --------------------------------
(***************************************************************************)
(* The way of a request to and from the request path of Proxy              *)
(* (internal/dataplane/recovery.go, ratelimit.go, groups.go and the first  *)
(* part of Handler in proxy.go): the connection limit, edge                *)
(* authentication, the group's list, which the first request for a group   *)
(* creates, the active-connections gauge and the per-client token buckets, *)
(* for several requests of several clients at once.                        *)
(*                                                                         *)
(* Grain of atomicity.  Ensure looks the group up under the read lock and  *)
(* creates it under the write lock, in two steps; allow and setConfig hold *)
(* the limiter's lock throughout.                                          *)
(*                                                                         *)
(* Abstractions.  What serving does is in Proxy: here it returns or        *)
(* panics.  Whether credentials suffice is a choice.  Time counts ticks in *)
(* which a bucket gains its rate, and rate.Limiter (outside the            *)
(* repository) is a bucket of whole tokens.                                *)
(***************************************************************************)
EXTENDS Integers, FiniteSets

CONSTANTS
  Visit,          \* requests that may be in the server at once
  Client,         \* client addresses
  EdgeGroup,      \* groups that routes lead to
  NoGroup,        \* a request that is not in the server
  MaxConns,       \* -max-conns; zero is no limit
  Limits,         \* rate-limit configurations the control plane may push
  idleBucketTTL,  \* a bucket idle for longer may be swept
  KeepInterval,   \* least time between two sweeps
  MaxClock        \* bound: time

ASSUME EdgeAssumption ==
  /\ IsFiniteSet(Visit)
  /\ MaxConns \in Nat
  /\ Limits \subseteq [rps : Int, burst : Int]
  /\ idleBucketTTL \in Nat /\ KeepInterval \in Nat /\ MaxClock \in Nat

VARIABLES
  stage,      \* request -> where it is
  towards,    \* request -> its client and group
  sem,        \* tokens in the semaphore of MaxConnsMiddleware
  lists,      \* group -> times a list, with its subscriber, was started for it
  using,      \* request -> the list it uses
  active,     \* group -> the active-connections gauge
  limit,      \* group -> g.cfg
  buckets,    \* group -> client -> its bucket
  lastKeep,   \* group -> time of the last sweep
  clock,
  through,    \* history: group -> client -> requests allowed under limit
  since       \* history: group -> when limit came into force

edgeVars == <<stage, towards, sem, lists, using, active, limit, buckets,
              lastKeep, clock, through, since>>

NoBucket == [tokens |-> -1, at |-> 0]
NoLimit == [rps |-> 0, burst |-> 0]
Outside == [client |-> NoGroup, group |-> NoGroup]
Unlimited(cfg) == cfg.rps <= 0

EdgeInit ==
  /\ stage = [r \in Visit |-> "out"]
  /\ towards = [r \in Visit |-> Outside]
  /\ sem = 0
  /\ lists = [g \in EdgeGroup |-> 0]
  /\ using = [r \in Visit |-> 0]
  /\ active = [g \in EdgeGroup |-> 0]
  /\ limit = [g \in EdgeGroup |-> NoLimit]
  /\ buckets = [g \in EdgeGroup |-> [c \in Client |-> NoBucket]]
  /\ lastKeep = [g \in EdgeGroup |-> 0]
  /\ clock = 0
  /\ through = [g \in EdgeGroup |-> [c \in Client |-> 0]]
  /\ since = [g \in EdgeGroup |-> 0]

limiterVars == <<limit, buckets, lastKeep, clock, through, since>>

-----------------------------------------------------------------------------
(* MaxConnsMiddleware: a token is free or there is no limit; a request     *)
(* that finds none is answered 503 and changes nothing.                    *)
Enter(r, c, g) ==
  /\ stage[r] = "out"
  /\ MaxConns = 0 \/ sem < MaxConns
  /\ sem' = IF MaxConns = 0 THEN sem ELSE sem + 1
  /\ towards' = [towards EXCEPT ![r] = [client |-> c, group |-> g]]
  /\ stage' = [stage EXCEPT ![r] = "lookup"]
  /\ UNCHANGED <<lists, using, active, limiterVars>>

(* The handler returns or panics: its deferred functions give back the     *)
(* gauge, if it was taken, and the semaphore's token, and                  *)
(* RecoveryMiddleware ends the panic.                                      *)
Leave(r) ==
  /\ stage' = [stage EXCEPT ![r] = "out"]
  /\ towards' = [towards EXCEPT ![r] = Outside]
  /\ using' = [using EXCEPT ![r] = 0]
  /\ sem' = IF MaxConns = 0 THEN sem ELSE sem - 1

(* Edge authentication fails: 401, before the group is looked at. *)
Unauthorized(r) ==
  /\ stage[r] = "lookup"
  /\ Leave(r)
  /\ UNCHANGED <<lists, active, limiterVars>>

(* Ensure returns a list and the gauge is taken. *)
Ensured(r, list) ==
  /\ using' = [using EXCEPT ![r] = list]
  /\ active' = [active EXCEPT ![towards[r].group] = @ + 1]
  /\ stage' = [stage EXCEPT ![r] = "limit"]

(* Ensure: under the read lock. *)
Lookup(r) ==
  LET g == towards[r].group IN
  /\ stage[r] = "lookup"
  /\ IF lists[g] > 0 THEN Ensured(r, lists[g])
     ELSE /\ stage' = [stage EXCEPT ![r] = "create"]
          /\ UNCHANGED <<using, active>>
  /\ UNCHANGED <<towards, sem, lists, limiterVars>>

(* Mutant: the group is not looked up again under the write lock. *)
CreateUnchecked(r) ==
  LET g == towards[r].group IN
  /\ stage[r] = "create"
  /\ lists' = [lists EXCEPT ![g] = @ + 1]
  /\ Ensured(r, lists'[g])
  /\ UNCHANGED <<towards, sem, limiterVars>>

(* Ensure: under the write lock, after looking again; a new list comes     *)
(* with a limiter of its own.                                              *)
Create(r) ==
  LET g == towards[r].group IN
  /\ stage[r] = "create"
  /\ lists' = [lists EXCEPT ![g] = IF @ > 0 THEN @ ELSE 1]
  /\ lastKeep' = [lastKeep EXCEPT ![g] = IF lists[g] > 0 THEN @ ELSE clock]
  /\ Ensured(r, lists'[g])
  /\ UNCHANGED <<towards, sem, limit, buckets, clock, through, since>>

-----------------------------------------------------------------------------
(* sweepLocked *)
SweptBuckets(g) ==
  IF clock - lastKeep[g] < KeepInterval THEN buckets[g]
  ELSE [c \in Client |-> IF clock - buckets[g][c].at > idleBucketTTL
                         THEN NoBucket ELSE buckets[g][c]]

(* The depth of a new bucket. *)
burstOf(cfg) ==
  IF cfg.burst > 0 THEN cfg.burst ELSE IF cfg.rps < 1 THEN 1 ELSE cfg.rps

(* rate.Limiter (external): what the bucket has gained since it was used. *)
Refilled(cfg, b) ==
  IF b = NoBucket THEN burstOf(cfg)
  ELSE LET t == b.tokens + cfg.rps * (clock - b.at) IN
       IF t > burstOf(cfg) THEN burstOf(cfg) ELSE t

(* allow: the request's client has a token, or the group has no limit. *)
Allow(r) ==
  LET g == towards[r].group
      c == towards[r].client
      tokens == Refilled(limit[g], SweptBuckets(g)[c])
  IN
  /\ stage[r] = "limit"
  /\ Unlimited(limit[g]) \/ tokens > 0
  /\ IF Unlimited(limit[g]) THEN UNCHANGED <<buckets, lastKeep, through>>
     ELSE /\ buckets' = [buckets EXCEPT ![g] =
               [SweptBuckets(g) EXCEPT ![c] = [tokens |-> tokens - 1, at |-> clock]]]
          /\ lastKeep' = [lastKeep EXCEPT ![g] = IF clock - @ < KeepInterval
                                                 THEN @ ELSE clock]
          /\ through' = [through EXCEPT ![g][c] = @ + 1]
  /\ stage' = [stage EXCEPT ![r] = "serve"]
  /\ UNCHANGED <<towards, sem, lists, using, active, limit, clock, since>>

(* allow: no token, 429. *)
TooMany(r) ==
  LET g == towards[r].group
      c == towards[r].client
  IN
  /\ stage[r] = "limit"
  /\ ~Unlimited(limit[g]) /\ Refilled(limit[g], SweptBuckets(g)[c]) = 0
  /\ buckets' = [buckets EXCEPT ![g] =
       [SweptBuckets(g) EXCEPT ![c] = [tokens |-> 0, at |-> clock]]]
  /\ lastKeep' = [lastKeep EXCEPT ![g] = IF clock - @ < KeepInterval THEN @ ELSE clock]
  /\ active' = [active EXCEPT ![g] = @ - 1]
  /\ Leave(r)
  /\ UNCHANGED <<lists, limit, clock, through, since>>

(* serveWithRetries returns, or panics. *)
Served(r) ==
  /\ stage[r] = "serve"
  /\ active' = [active EXCEPT ![towards[r].group] = @ - 1]
  /\ Leave(r)
  /\ UNCHANGED <<lists, limiterVars>>

(* Mutant: every update of the group drops the buckets. *)
setConfigAlways(g, cfg) ==
  /\ lists[g] > 0
  /\ limit' = [limit EXCEPT ![g] = cfg]
  /\ buckets' = [buckets EXCEPT ![g] = [c \in Client |-> NoBucket]]
  /\ through' = [through EXCEPT ![g] = IF cfg = limit[g] THEN @ ELSE [c \in Client |-> 0]]
  /\ since' = [since EXCEPT ![g] = IF cfg = limit[g] THEN @ ELSE clock]
  /\ UNCHANGED <<stage, towards, sem, lists, using, active, lastKeep, clock>>

(* Update of the group's list: setConfig drops the buckets, unless the     *)
(* configuration is the one in force.                                      *)
setConfig(g, cfg) ==
  /\ lists[g] > 0
  /\ cfg # limit[g]
  /\ limit' = [limit EXCEPT ![g] = cfg]
  /\ buckets' = [buckets EXCEPT ![g] = [c \in Client |-> NoBucket]]
  /\ through' = [through EXCEPT ![g] = [c \in Client |-> 0]]
  /\ since' = [since EXCEPT ![g] = clock]
  /\ UNCHANGED <<stage, towards, sem, lists, using, active, lastKeep, clock>>

EdgeTick ==
  /\ clock < MaxClock
  /\ clock' = clock + 1
  /\ UNCHANGED <<stage, towards, sem, lists, using, active, limit, buckets,
                 lastKeep, through, since>>

EdgeNext ==
  \/ \E r \in Visit :
       \/ \E c \in Client, g \in EdgeGroup : Enter(r, c, g)
       \/ Unauthorized(r) \/ Lookup(r) \/ Create(r)
       \/ Allow(r) \/ TooMany(r) \/ Served(r)
  \/ \E g \in EdgeGroup, cfg \in Limits \cup {NoLimit} : setConfig(g, cfg)
  \/ EdgeTick

EdgeSpec == EdgeInit /\ [][EdgeNext]_edgeVars

-----------------------------------------------------------------------------
Inside == {r \in Visit : stage[r] # "out"}
InGroup(g) == {r \in Inside : towards[r].group = g /\ stage[r] \in {"limit", "serve"}}

(* However requests enter, are refused, finish and panic side by side, the *)
(* semaphore and the gauges count exactly the requests inside, never more  *)
(* than MaxConns, and all requests of a group share the one list that was  *)
(* started for it.                                                         *)
EdgeAccounted ==
  /\ MaxConns > 0 => sem = Cardinality(Inside) /\ sem <= MaxConns
  /\ \A g \in EdgeGroup :
       /\ active[g] = Cardinality(InGroup(g))
       /\ lists[g] <= 1
       /\ \A r \in InGroup(g) : using[r] = lists[g]

(* While a limit is in force a client gets at most its burst and its rate  *)
(* through, however often the same configuration is pushed again and       *)
(* whenever idle buckets are swept, provided that a bucket fills up before *)
(* it can be swept.                                                        *)
RateBounded ==
  \A g \in EdgeGroup : \A c \in Client :
    LET cfg == limit[g] IN
    ~Unlimited(cfg) /\ burstOf(cfg) <= cfg.rps * (idleBucketTTL + 1) =>
      through[g][c] <= burstOf(cfg) + cfg.rps * (clock - since[g])

=============================================================================
