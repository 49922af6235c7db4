----------------------------- MODULE EdgeProofs -----------------------------
(***************************************************************************)
(* Counts that are raised and lowered by different handlers: the slots,    *)
(* rates and connections of the HTTP and the TCP front end, for any number *)
(* of requests, clients, groups and connections and any limit.             *)
(***************************************************************************)
EXTENDS Edge, TCPProxy, FiniteSetTheorems, TLAPS

USE ZenonT(10), SMTT(30)

-----------------------------------------------------------------------------
(* The HTTP front end *)

EdgeTypeInv ==
  /\ stage \in [Visit -> {"out", "lookup", "create", "limit", "serve"}]
  /\ towards \in [Visit -> [client : Client \cup {NoGroup}, group : EdgeGroup \cup {NoGroup}]]
  /\ sem \in Int
  /\ lists \in [EdgeGroup -> Nat]
  /\ using \in [Visit -> Nat]
  /\ active \in [EdgeGroup -> Int]

(* A request in the server has a client and a group, and one that was given a list uses *)
(* the group's first and only one.                                         *)
Directed ==
  /\ \A r \in Visit : stage[r] # "out" =>
                        towards[r].group \in EdgeGroup /\ towards[r].client \in Client
  /\ \A g \in EdgeGroup : lists[g] \in {0, 1}
  /\ \A r \in Visit : stage[r] \in {"limit", "serve"} =>
                        using[r] = 1 /\ lists[towards[r].group] = 1

Counted ==
  /\ MaxConns > 0 => sem = Cardinality(Inside) /\ sem <= MaxConns
  /\ \A g \in EdgeGroup : active[g] = Cardinality(InGroup(g))

EdgeInv == EdgeTypeInv /\ Directed /\ Counted

-----------------------------------------------------------------------------
LEMMA FiniteParts ==
  /\ IsFiniteSet(Inside) /\ Cardinality(Inside) \in Nat
  /\ \A g : IsFiniteSet(InGroup(g)) /\ Cardinality(InGroup(g)) \in Nat
<1>1. IsFiniteSet(Inside)
  BY EdgeAssumption, FS_Subset DEF Inside
<1>2. \A g : IsFiniteSet(InGroup(g))
  BY <1>1, FS_Subset DEF InGroup
<1> QED BY <1>1, <1>2, FS_CardinalityType

(* What the three kinds of step do to the sets that are counted: a request *)
(* comes in, goes out, or is given its list.                               *)
ComesIn(r) ==
  /\ r \notin Inside /\ Inside' = Inside \cup {r}
  /\ \A g \in EdgeGroup : InGroup(g)' = InGroup(g)

GoesOut(r) ==
  /\ r \in Inside /\ Inside' = Inside \ {r}
  /\ \A g \in EdgeGroup : InGroup(g)' = InGroup(g) \ {r}

Joins(r) ==
  /\ Inside' = Inside
  /\ \A g \in EdgeGroup : IF g = towards[r].group
       THEN r \notin InGroup(g) /\ InGroup(g)' = InGroup(g) \cup {r}
       ELSE InGroup(g)' = InGroup(g)

Stays == Inside' = Inside /\ \A g \in EdgeGroup : InGroup(g)' = InGroup(g)

LEMMA EnterComesIn ==
  ASSUME EdgeInv, NEW r \in Visit, NEW c \in Client, NEW g \in EdgeGroup, Enter(r, c, g)
  PROVE  ComesIn(r)
BY DEF EdgeInv, EdgeTypeInv, Enter, ComesIn, Inside, InGroup

LEMMA LeaveGoesOut ==
  ASSUME EdgeInv, NEW r \in Visit, stage[r] # "out", Leave(r)
  PROVE  GoesOut(r)
BY DEF EdgeInv, EdgeTypeInv, Leave, GoesOut, Inside, InGroup

LEMMA EnsuredJoins ==
  ASSUME EdgeInv, NEW r \in Visit, NEW list, stage[r] \in {"lookup", "create"},
         Ensured(r, list), UNCHANGED towards
  PROVE  Joins(r)
BY DEF EdgeInv, EdgeTypeInv, Directed, Ensured, Joins, Inside, InGroup

-----------------------------------------------------------------------------
LEMMA ShapeStep == EdgeInv /\ [EdgeNext]_edgeVars => EdgeTypeInv' /\ Directed'
<1> SUFFICES ASSUME EdgeInv, [EdgeNext]_edgeVars
             PROVE  EdgeTypeInv' /\ Directed'
  OBVIOUS
<1> USE DEF EdgeInv, EdgeTypeInv, Directed
<1>1. ASSUME NEW r \in Visit, NEW c \in Client, NEW g \in EdgeGroup, Enter(r, c, g)
      PROVE  EdgeTypeInv' /\ Directed'
  BY <1>1, EdgeAssumption DEF Enter
<1>2. ASSUME NEW r \in Visit, stage[r] # "out", Leave(r), UNCHANGED lists,
             \/ UNCHANGED active
             \/ active' = [active EXCEPT ![towards[r].group] = @ - 1]
      PROVE  EdgeTypeInv' /\ Directed'
  BY <1>2 DEF Leave, Outside
<1>3. ASSUME NEW r \in Visit, Lookup(r) PROVE EdgeTypeInv' /\ Directed'
  <2>1. CASE lists[towards[r].group] > 0
    <3>1. towards[r].group \in EdgeGroup /\ lists[towards[r].group] = 1
      BY <1>3, <2>1 DEF Lookup
    <3>2. /\ using' = [using EXCEPT ![r] = 1]
          /\ active' = [active EXCEPT ![towards[r].group] = @ + 1]
          /\ stage' = [stage EXCEPT ![r] = "limit"]
          /\ UNCHANGED <<towards, sem, lists>>
      BY <1>3, <2>1, <3>1 DEF Lookup, Ensured
    <3>3. EdgeTypeInv'
      BY <3>1, <3>2
    <3>4. Directed'
      BY <1>3, <3>1, <3>2 DEF Lookup
    <3> QED BY <3>3, <3>4
  <2>2. CASE ~(lists[towards[r].group] > 0)
    BY <1>3, <2>2 DEF Lookup
  <2> QED BY <2>1, <2>2
<1>4. ASSUME NEW r \in Visit, Create(r) PROVE EdgeTypeInv' /\ Directed'
  BY <1>4 DEF Create, Ensured
<1>5. ASSUME NEW r \in Visit, Allow(r) PROVE EdgeTypeInv' /\ Directed'
  BY <1>5 DEF Allow
<1>6. CASE UNCHANGED <<stage, towards, sem, lists, using, active>>
  BY <1>6
<1> QED
  BY <1>1, <1>2, <1>3, <1>4, <1>5, <1>6
     DEF EdgeNext, Unauthorized, TooMany, Served, setConfig, EdgeTick, edgeVars

(* The accounts: each kind of step changes counter and set together. *)
LEMMA CountStep == EdgeInv /\ [EdgeNext]_edgeVars => Counted'
<1> SUFFICES ASSUME EdgeInv, [EdgeNext]_edgeVars
             PROVE  Counted'
  OBVIOUS
<1>a. EdgeTypeInv /\ Directed /\ Counted
  BY DEF EdgeInv
<1>1. ASSUME NEW r \in Visit, NEW c \in Client, NEW g \in EdgeGroup, Enter(r, c, g)
      PROVE  Counted'
  <2>1. ComesIn(r)
    BY <1>1, EnterComesIn
  <2>2. Cardinality(Inside \cup {r}) = Cardinality(Inside) + 1
    BY <2>1, FiniteParts, FS_AddElement DEF ComesIn
  <2>3. /\ MaxConns > 0 => sem' = sem + 1 /\ sem < MaxConns
        /\ UNCHANGED active
    BY <1>1 DEF Enter
  <2> QED
    BY <1>a, <2>1, <2>2, <2>3, FiniteParts, EdgeAssumption
       DEF ComesIn, Counted, EdgeTypeInv
<1>2. ASSUME NEW r \in Visit, stage[r] = "lookup", Leave(r), UNCHANGED active
      PROVE  Counted'
  <2>1. GoesOut(r)
    BY <1>2, LeaveGoesOut
  <2>2. Cardinality(Inside \ {r}) = Cardinality(Inside) - 1
    BY <2>1, FiniteParts, FS_RemoveElement DEF GoesOut
  <2>3. \A g \in EdgeGroup : InGroup(g)' = InGroup(g)
    BY <1>2, <2>1 DEF GoesOut, InGroup
  <2>4. MaxConns > 0 => sem' = sem - 1
    BY <1>2 DEF Leave
  <2> QED
    BY <1>2, <1>a, <2>1, <2>2, <2>3, <2>4, FiniteParts, EdgeAssumption
       DEF GoesOut, Counted, EdgeTypeInv
<1>3. ASSUME NEW r \in Visit, stage[r] \in {"limit", "serve"}, Leave(r),
             active' = [active EXCEPT ![towards[r].group] = @ - 1]
      PROVE  Counted'
  <2>1. GoesOut(r)
    BY <1>3, LeaveGoesOut
  <2>2. Cardinality(Inside \ {r}) = Cardinality(Inside) - 1
    BY <2>1, FiniteParts, FS_RemoveElement DEF GoesOut
  <2>3. MaxConns > 0 => sem' = sem - 1
    BY <1>3 DEF Leave
  <2>4. towards[r].group \in EdgeGroup
    BY <1>3, <1>a DEF Directed
  <2>5. ASSUME NEW g \in EdgeGroup PROVE active'[g] = Cardinality(InGroup(g) \ {r})
    <3>1. r \in InGroup(g) <=> g = towards[r].group
      BY <1>3 DEF InGroup, Inside
    <3>2. active'[g] = IF g = towards[r].group THEN active[g] - 1 ELSE active[g]
      BY <1>3, <1>a DEF EdgeTypeInv
    <3>3. active[g] = Cardinality(InGroup(g)) /\ IsFiniteSet(InGroup(g))
      BY <1>a, FiniteParts DEF Counted
    <3>4. CASE g = towards[r].group
      <4>1. Cardinality(InGroup(g) \ {r}) = Cardinality(InGroup(g)) - 1
        BY <3>1, <3>3, <3>4, FS_RemoveElement
      <4> QED BY <3>2, <3>3, <3>4, <4>1
    <3>5. CASE g # towards[r].group
      <4>1. InGroup(g) \ {r} = InGroup(g)
        BY <3>1, <3>5
      <4> QED BY <3>2, <3>3, <3>5, <4>1
    <3> QED BY <3>4, <3>5
  <2> QED
    BY <1>a, <2>1, <2>2, <2>3, <2>5, FiniteParts, EdgeAssumption
       DEF GoesOut, Counted, EdgeTypeInv
<1>4. ASSUME NEW r \in Visit, NEW list, stage[r] \in {"lookup", "create"},
             Ensured(r, list), UNCHANGED <<towards, sem>>
      PROVE  Counted'
  <2>1. Joins(r)
    BY <1>4, EnsuredJoins
  <2>2. towards[r].group \in EdgeGroup
    BY <1>4, <1>a DEF Directed
  <2>3. ASSUME NEW g \in EdgeGroup PROVE active'[g] = Cardinality(InGroup(g)')
    <3>1. CASE g = towards[r].group
      <4>1. Cardinality(InGroup(g) \cup {r}) = Cardinality(InGroup(g)) + 1
        BY <2>1, <3>1, FiniteParts, FS_AddElement DEF Joins
      <4>2. InGroup(g)' = InGroup(g) \cup {r}
        BY <2>1, <3>1 DEF Joins
      <4>3. active'[g] = active[g] + 1
        BY <1>4, <1>a, <3>1 DEF Ensured, EdgeTypeInv
      <4> QED BY <1>a, <4>1, <4>2, <4>3 DEF Counted
    <3>2. CASE g # towards[r].group
      <4>1. InGroup(g)' = InGroup(g)
        BY <2>1, <3>2 DEF Joins
      <4>2. active'[g] = active[g]
        BY <1>4, <1>a, <3>2 DEF Ensured, EdgeTypeInv
      <4> QED BY <1>a, <4>1, <4>2 DEF Counted
    <3> QED BY <3>1, <3>2
  <2> QED BY <1>4, <1>a, <2>1, <2>3 DEF Joins, Counted
<1>5. ASSUME Stays, UNCHANGED <<sem, active>> PROVE Counted'
  BY <1>5, <1>a DEF Stays, Counted
<1>6. ASSUME NEW r \in Visit, Lookup(r), ~(lists[towards[r].group] > 0) PROVE Counted'
  <2>1. Stays
    BY <1>6, <1>a DEF Lookup, Stays, Inside, InGroup, EdgeTypeInv
  <2> QED BY <1>5, <1>6, <2>1 DEF Lookup
<1>7. ASSUME NEW r \in Visit, Allow(r) PROVE Counted'
  <2>1. Stays
    BY <1>7, <1>a DEF Allow, Stays, Inside, InGroup, EdgeTypeInv
  <2> QED BY <1>5, <1>7, <2>1 DEF Allow
<1>8. CASE UNCHANGED <<stage, towards, sem, active>>
  <2>1. Stays
    BY <1>8 DEF Stays, Inside, InGroup
  <2> QED BY <1>5, <1>8, <2>1
<1>9. ASSUME NEW r \in Visit, Lookup(r) \/ Create(r) PROVE Counted'
  <2>1. CASE Lookup(r) /\ lists[towards[r].group] > 0
    BY <1>4, <2>1 DEF Lookup
  <2>2. CASE Create(r)
    BY <1>4, <2>2 DEF Create
  <2> QED BY <1>6, <1>9, <2>1, <2>2
<1> QED
  BY <1>1, <1>2, <1>3, <1>7, <1>8, <1>9
     DEF EdgeNext, Unauthorized, TooMany, Served, setConfig, EdgeTick, edgeVars

-----------------------------------------------------------------------------
LEMMA EdgeStarts == EdgeInit => EdgeInv
<1> SUFFICES ASSUME EdgeInit PROVE EdgeInv
  OBVIOUS
<1>1. Inside = {} /\ \A g : InGroup(g) = {}
  BY DEF EdgeInit, Inside, InGroup
<1>a. Cardinality(Inside) = 0 /\ \A g : Cardinality(InGroup(g)) = 0
  BY <1>1, FS_EmptySet
<1>2. Counted
  BY <1>a, EdgeAssumption DEF EdgeInit, Counted
<1> QED BY <1>2 DEF EdgeInit, EdgeInv, EdgeTypeInv, Directed, Outside

(* THEOREM: however many requests enter, are refused, finish or panic side *)
(* by side, the semaphore of MaxConnsMiddleware and the active gauges of   *)
(* Handler count exactly the requests inside, the limit holds, and Ensure  *)
(* starts one list per group.                                              *)
THEOREM EdgeIsAccounted == EdgeSpec => []EdgeAccounted
<1>2. EdgeInv /\ [EdgeNext]_edgeVars => EdgeInv'
  BY ShapeStep, CountStep DEF EdgeInv
<1>3. EdgeInv => EdgeAccounted
  <2> SUFFICES ASSUME EdgeInv PROVE EdgeAccounted
    OBVIOUS
  <2>1. ASSUME NEW g \in EdgeGroup
        PROVE  lists[g] <= 1 /\ \A r \in InGroup(g) : using[r] = lists[g]
    BY DEF EdgeInv, Directed, InGroup, Inside
  <2> QED BY <2>1 DEF EdgeInv, Counted, EdgeAccounted
<1> QED BY EdgeStarts, <1>2, <1>3, PTL DEF EdgeSpec

-----------------------------------------------------------------------------
(* The token buckets *)

(* What a client got through under a limit since s is paid for: by what    *)
(* its bucket has gained and given, or, without a bucket, by its rate.     *)
Within(cfg, b, n, s, t) ==
  /\ n \in Nat /\ s \in Nat /\ t \in Nat /\ s <= t
  /\ \/ b = NoBucket /\ n <= cfg.rps * (t - s)
     \/ /\ b \in [tokens : Nat, at : Nat] /\ s <= b.at /\ b.at <= t
        /\ n + b.tokens <= burstOf(cfg) + cfg.rps * (b.at - s)

(* A limit whose buckets fill up before they can be swept. *)
Fills(cfg) == ~Unlimited(cfg) /\ burstOf(cfg) <= cfg.rps * (idleBucketTTL + 1)

LimitType == [rps : Int, burst : Int]

LimiterInv ==
  /\ limit \in [EdgeGroup -> LimitType]
  /\ buckets \in [EdgeGroup -> [Client -> [tokens : Int, at : Int]]]
  /\ through \in [EdgeGroup -> [Client -> Nat]]
  /\ since \in [EdgeGroup -> Nat]
  /\ clock \in Nat
  /\ \A g \in EdgeGroup : since[g] <= clock
  /\ \A g \in EdgeGroup : \A c \in Client : Fills(limit[g]) =>
       Within(limit[g], buckets[g][c], through[g][c], since[g], clock)

(* The rate over adjacent spans of time adds up. *)
LEMMA RateAdds ==
  ASSUME NEW rps \in Nat, NEW s \in Nat, NEW m \in Nat, NEW t \in Nat, s <= m, m <= t
  PROVE  /\ rps * (t - s) = rps * (m - s) + rps * (t - m)
         /\ rps * (m - s) \in Nat /\ rps * (t - m) \in Nat /\ rps * (t - s) \in Nat
<1>1. PICK i \in Nat : i = m - s
  OBVIOUS
<1>2. PICK j \in Nat : j = t - m
  OBVIOUS
<1>3. t - s = i + j
  BY <1>1, <1>2
<1>4. rps * (i + j) = rps * i + rps * j /\ rps * i \in Nat /\ rps * j \in Nat
  OBVIOUS
<1> QED BY <1>1, <1>2, <1>3, <1>4

LEMMA RateGrows ==
  ASSUME NEW rps \in Nat, NEW i \in Nat, NEW j \in Nat, i <= j
  PROVE  rps * i <= rps * j
<1>1. PICK d \in Nat : j = i + d
  <2>1. j - i \in Nat /\ j = i + (j - i)
    OBVIOUS
  <2> QED BY <2>1
<1>2. rps * (i + d) = rps * i + rps * d /\ rps * d \in Nat /\ rps * i \in Nat
  OBVIOUS
<1> QED BY <1>1, <1>2

LEMMA BurstPositive ==
  ASSUME NEW cfg \in LimitType, ~Unlimited(cfg)
  PROVE  cfg.rps \in Nat \ {0} /\ burstOf(cfg) \in Nat \ {0}
BY DEF LimitType, Unlimited, burstOf

(* A bucket idle for so long that it may be swept would be full. *)
LEMMA SweepKeeps ==
  ASSUME NEW cfg \in LimitType, Fills(cfg), NEW b, NEW n, NEW s, NEW t,
         Within(cfg, b, n, s, t), t - b.at > idleBucketTTL
  PROVE  Within(cfg, NoBucket, n, s, t)
<1>1. /\ n \in Nat /\ s \in Nat /\ t \in Nat /\ s <= t
      /\ idleBucketTTL + 1 \in Nat
      /\ cfg.rps \in Nat /\ burstOf(cfg) \in Nat
      /\ burstOf(cfg) <= cfg.rps * (idleBucketTTL + 1)
  BY BurstPositive, EdgeAssumption DEF Within, Fills
<1>2. CASE b # NoBucket
  <2>1. /\ b.tokens \in Nat /\ b.at \in Nat /\ s <= b.at /\ b.at <= t
        /\ n + b.tokens <= burstOf(cfg) + cfg.rps * (b.at - s)
    BY <1>2 DEF Within
  <2>2. /\ cfg.rps * (t - s) = cfg.rps * (b.at - s) + cfg.rps * (t - b.at)
        /\ cfg.rps * (b.at - s) \in Nat /\ cfg.rps * (t - b.at) \in Nat
    BY <1>1, <2>1, RateAdds
  <2>3. t - b.at \in Nat /\ idleBucketTTL + 1 <= t - b.at
    BY <1>1, <2>1, EdgeAssumption
  <2>4. cfg.rps * (idleBucketTTL + 1) <= cfg.rps * (t - b.at)
    BY <1>1, <2>3, RateGrows
  <2>5. cfg.rps * (idleBucketTTL + 1) \in Nat
    BY <1>1
  <2> DEFINE x == cfg.rps * (b.at - s)
             y == cfg.rps * (t - b.at)
             z == cfg.rps * (idleBucketTTL + 1)
             B == burstOf(cfg)
             k == b.tokens
  <2>6. /\ n + k <= B + x /\ B <= z /\ z <= y
        /\ k \in Nat /\ x \in Nat /\ y \in Nat /\ z \in Nat /\ B \in Nat
    BY <1>1, <2>1, <2>2, <2>4, <2>5
  <2> HIDE DEF x, y, z, B, k
  <2>7. n <= x + y
    BY <1>1, <2>6
  <2>8. n <= cfg.rps * (t - s)
    BY <2>2, <2>7 DEF x, y
  <2> QED BY <1>1, <2>8 DEF Within
<1> QED BY <1>2

(* The clock only adds to what a client may have used. *)
LEMMA WaitKeeps ==
  ASSUME NEW cfg \in LimitType, ~Unlimited(cfg), NEW b, NEW n, NEW s, NEW t,
         Within(cfg, b, n, s, t)
  PROVE  Within(cfg, b, n, s, t + 1)
<1>1. n \in Nat /\ s \in Nat /\ t \in Nat /\ s <= t /\ cfg.rps \in Nat
  BY BurstPositive DEF Within
<1>2. t + 1 \in Nat /\ s <= t + 1 /\ t - s \in Nat /\ (t + 1) - s \in Nat
      /\ t - s <= (t + 1) - s
  BY <1>1
<1>3. cfg.rps * (t - s) <= cfg.rps * ((t + 1) - s)
  BY <1>1, <1>2, RateGrows
<1>4. cfg.rps * (t - s) \in Nat /\ cfg.rps * ((t + 1) - s) \in Nat
  BY <1>1, <1>2
<1>5. CASE b = NoBucket /\ n <= cfg.rps * (t - s)
  BY <1>1, <1>2, <1>3, <1>4, <1>5 DEF Within
<1>6. CASE /\ b \in [tokens : Nat, at : Nat] /\ s <= b.at /\ b.at <= t
           /\ n + b.tokens <= burstOf(cfg) + cfg.rps * (b.at - s)
  <2>1. b.at <= t + 1
    BY <1>1, <1>6
  <2> QED BY <1>1, <1>2, <1>6, <2>1 DEF Within
<1> QED BY <1>5, <1>6 DEF Within

(* Taking a token, and finding none, is accounted for. *)
LEMMA TakeKeeps ==
  ASSUME NEW cfg \in LimitType, ~Unlimited(cfg), NEW b, NEW n, NEW s,
         Within(cfg, b, n, s, clock)
  PROVE  /\ Refilled(cfg, b) \in Nat
         /\ Refilled(cfg, b) > 0 =>
              Within(cfg, [tokens |-> Refilled(cfg, b) - 1, at |-> clock], n + 1, s, clock)
         /\ Refilled(cfg, b) = 0 =>
              Within(cfg, [tokens |-> 0, at |-> clock], n, s, clock)
<1> DEFINE k == Refilled(cfg, b)
           B == burstOf(cfg)
           z == cfg.rps * (clock - s)
<1>1. /\ n \in Nat /\ s \in Nat /\ clock \in Nat /\ s <= clock
      /\ cfg.rps \in Nat /\ B \in Nat \ {0}
  BY BurstPositive DEF Within
<1>2. z \in Nat
  <2>1. clock - s \in Nat
    BY <1>1
  <2> QED BY <1>1, <2>1
<1>3. k \in Nat /\ n + k <= B + z
  <2>1. CASE b = NoBucket /\ n <= z
    <3>1. k = B
      BY <2>1 DEF Refilled
    <3> HIDE DEF z, B, k
    <3> QED BY <1>1, <1>2, <2>1, <3>1
  <2>2. CASE /\ b \in [tokens : Nat, at : Nat] /\ s <= b.at /\ b.at <= clock
             /\ n + b.tokens <= B + cfg.rps * (b.at - s)
    <3> DEFINE x == cfg.rps * (b.at - s)
               y == cfg.rps * (clock - b.at)
               o == b.tokens
    <3>1. /\ o \in Nat /\ b.at \in Nat /\ n + o <= B + x
          /\ z = x + y /\ x \in Nat /\ y \in Nat
      BY <1>1, <2>2, RateAdds
    <3>2. b # NoBucket
      BY <2>2 DEF NoBucket
    <3>3. k = IF o + y > B THEN B ELSE o + y
      BY <3>2 DEF Refilled
    <3> HIDE DEF z, B, k, x, y, o
    <3> QED BY <1>1, <1>2, <3>1, <3>3
  <2> QED BY <2>1, <2>2 DEF Within
<1> HIDE DEF k, B, z
<1>4. ASSUME NEW j \in Nat, NEW i \in Nat, i + j <= B + z
      PROVE  Within(cfg, [tokens |-> j, at |-> clock], i, s, clock)
  BY <1>1, <1>4 DEF Within, B, z
<1>5. k > 0 => k - 1 \in Nat /\ n + 1 \in Nat /\ (n + 1) + (k - 1) <= B + z
  BY <1>1, <1>2, <1>3
<1>6. k = 0 => n + 0 <= B + z
  BY <1>1, <1>2, <1>3
<1>7. k > 0 => Within(cfg, [tokens |-> k - 1, at |-> clock], n + 1, s, clock)
  BY <1>4, <1>5
<1>8. k = 0 => Within(cfg, [tokens |-> 0, at |-> clock], n, s, clock)
  BY <1>1, <1>4, <1>6
<1> QED BY <1>3, <1>7, <1>8 DEF k

(* Sweeping a group's buckets keeps the types and the accounts. *)
LEMMA SweptWithin ==
  ASSUME LimiterInv, NEW g \in EdgeGroup
  PROVE  /\ SweptBuckets(g) \in [Client -> [tokens : Int, at : Int]]
         /\ \A c \in Client : Fills(limit[g]) =>
              Within(limit[g], SweptBuckets(g)[c], through[g][c], since[g], clock)
<1>1. NoBucket \in [tokens : Int, at : Int]
  BY DEF NoBucket
<1>2. buckets[g] \in [Client -> [tokens : Int, at : Int]] /\ limit[g] \in LimitType
  BY DEF LimiterInv
<1>3. SweptBuckets(g) \in [Client -> [tokens : Int, at : Int]]
  BY <1>1, <1>2 DEF SweptBuckets
<1>4. ASSUME NEW c \in Client, Fills(limit[g])
      PROVE  Within(limit[g], SweptBuckets(g)[c], through[g][c], since[g], clock)
  <2>1. Within(limit[g], buckets[g][c], through[g][c], since[g], clock)
    BY <1>4 DEF LimiterInv
  <2>2. \/ SweptBuckets(g)[c] = buckets[g][c]
        \/ SweptBuckets(g)[c] = NoBucket /\ clock - buckets[g][c].at > idleBucketTTL
    BY DEF SweptBuckets
  <2> QED BY <1>2, <1>4, <2>1, <2>2, SweepKeeps
<1> QED BY <1>3, <1>4

(* Every step keeps the accounts of the buckets. *)
LEMMA LimiterStep == EdgeInv /\ LimiterInv /\ [EdgeNext]_edgeVars => LimiterInv'
<1> SUFFICES ASSUME EdgeInv, LimiterInv, [EdgeNext]_edgeVars
             PROVE  LimiterInv'
  OBVIOUS
<1>1. ASSUME NEW g \in EdgeGroup, NEW c \in Client, NEW nb, NEW n,
             nb \in [tokens : Int, at : Int], n \in Nat,
             buckets' = [buckets EXCEPT ![g] = [SweptBuckets(g) EXCEPT ![c] = nb]],
             through' = [through EXCEPT ![g] = [through[g] EXCEPT ![c] = n]],
             UNCHANGED <<limit, since, clock>>,
             Fills(limit[g]) => Within(limit[g], nb, n, since[g], clock)
      PROVE  LimiterInv'
  <2>1. /\ buckets' \in [EdgeGroup -> [Client -> [tokens : Int, at : Int]]]
        /\ through' \in [EdgeGroup -> [Client -> Nat]]
    BY <1>1, SweptWithin DEF LimiterInv
  <2>2. ASSUME NEW h \in EdgeGroup, NEW d \in Client, Fills(limit[h])
        PROVE  Within(limit[h], buckets'[h][d], through'[h][d], since[h], clock)
    <3>1. CASE h # g
      <4>1. buckets'[h] = buckets[h] /\ through'[h] = through[h]
        BY <1>1, <3>1 DEF LimiterInv
      <4> QED BY <2>2, <4>1 DEF LimiterInv
    <3>2. CASE h = g /\ d # c
      <4>1. buckets'[h][d] = SweptBuckets(g)[d] /\ through'[h][d] = through[h][d]
        BY <1>1, <3>2, SweptWithin DEF LimiterInv
      <4> QED BY <2>2, <3>2, <4>1, SweptWithin
    <3>3. CASE h = g /\ d = c
      <4>1. buckets'[h][d] = nb /\ through'[h][d] = n
        BY <1>1, <3>3, SweptWithin DEF LimiterInv
      <4> QED BY <1>1, <2>2, <3>3, <4>1
    <3> QED BY <3>1, <3>2, <3>3
  <2>3. \A h \in EdgeGroup : \A d \in Client : Fills(limit'[h]) =>
          Within(limit'[h], buckets'[h][d], through'[h][d], since'[h], clock')
    BY <1>1, <2>2
  <2> QED BY <1>1, <2>1, <2>3 DEF LimiterInv
<1>2. ASSUME NEW r \in Visit, stage[r] = "limit"
      PROVE  LET g == towards[r].group
                 c == towards[r].client IN
             /\ g \in EdgeGroup /\ c \in Client
             /\ limit[g] \in LimitType
             /\ Refilled(limit[g], SweptBuckets(g)[c]) \in Int
  <2> DEFINE g == towards[r].group
             c == towards[r].client
             b == SweptBuckets(g)[c]
  <2>1. g \in EdgeGroup /\ c \in Client
    BY <1>2 DEF EdgeInv, Directed
  <2>2. limit[g] \in LimitType /\ clock \in Int /\ b \in [tokens : Int, at : Int]
    BY <2>1, SweptWithin DEF LimiterInv
  <2> HIDE DEF g, c, b
  <2>3. burstOf(limit[g]) \in Int /\ limit[g].rps \in Int
    BY <2>2 DEF burstOf, LimitType
  <2>4. b.tokens + limit[g].rps * (clock - b.at) \in Int
    BY <2>2, <2>3
  <2>5. Refilled(limit[g], b) \in Int
    BY <2>3, <2>4 DEF Refilled
  <2> QED BY <2>1, <2>2, <2>5 DEF g, c, b
<1>3. ASSUME UNCHANGED <<limit, buckets, through, since, clock>>
      PROVE  LimiterInv'
  BY <1>3 DEF LimiterInv
<1>4. ASSUME NEW r \in Visit, Allow(r)
      PROVE  LimiterInv'
  <2> DEFINE g == towards[r].group
             c == towards[r].client
             k == Refilled(limit[g], SweptBuckets(g)[c])
  <2>1. g \in EdgeGroup /\ c \in Client /\ limit[g] \in LimitType /\ k \in Int
    BY <1>2, <1>4 DEF Allow
  <2>2. CASE Unlimited(limit[g])
    BY <1>3, <1>4, <2>2 DEF Allow
  <2>3. CASE ~Unlimited(limit[g])
    <3>1. /\ k > 0
          /\ buckets' = [buckets EXCEPT ![g] =
               [SweptBuckets(g) EXCEPT ![c] = [tokens |-> k - 1, at |-> clock]]]
          /\ through' = [through EXCEPT ![g] = [through[g] EXCEPT ![c] = through[g][c] + 1]]
          /\ UNCHANGED <<limit, since, clock>>
      BY <1>4, <2>1, <2>3 DEF Allow, LimiterInv
    <3>2. Fills(limit[g]) =>
            Within(limit[g], [tokens |-> k - 1, at |-> clock], through[g][c] + 1,
                   since[g], clock)
      BY <2>1, <2>3, <3>1, SweptWithin, TakeKeeps
    <3>3. through[g][c] + 1 \in Nat /\ [tokens |-> k - 1, at |-> clock] \in [tokens : Int, at : Int]
      BY <2>1 DEF LimiterInv
    <3> DEFINE nb == [tokens |-> k - 1, at |-> clock]
               n == through[g][c] + 1
    <3>4. /\ nb \in [tokens : Int, at : Int] /\ n \in Nat
          /\ buckets' = [buckets EXCEPT ![g] = [SweptBuckets(g) EXCEPT ![c] = nb]]
          /\ through' = [through EXCEPT ![g] = [through[g] EXCEPT ![c] = n]]
          /\ UNCHANGED <<limit, since, clock>>
          /\ Fills(limit[g]) => Within(limit[g], nb, n, since[g], clock)
      BY <3>1, <3>2, <3>3
    <3> HIDE DEF g, c, k, nb, n
    <3> QED BY <1>1, <2>1, <3>4
  <2> QED BY <2>2, <2>3
<1>5. ASSUME NEW r \in Visit, TooMany(r)
      PROVE  LimiterInv'
  <2> DEFINE g == towards[r].group
             c == towards[r].client
             k == Refilled(limit[g], SweptBuckets(g)[c])
  <2>1. g \in EdgeGroup /\ c \in Client /\ limit[g] \in LimitType /\ k \in Int
    BY <1>2, <1>5 DEF TooMany
  <2>2. /\ k = 0 /\ ~Unlimited(limit[g])
        /\ buckets' = [buckets EXCEPT ![g] =
             [SweptBuckets(g) EXCEPT ![c] = [tokens |-> 0, at |-> clock]]]
        /\ UNCHANGED <<limit, through, since, clock>>
    BY <1>5 DEF TooMany
  <2>3. through' = [through EXCEPT ![g] = [through[g] EXCEPT ![c] = through[g][c]]]
    BY <2>1, <2>2 DEF LimiterInv
  <2>4. Fills(limit[g]) =>
          Within(limit[g], [tokens |-> 0, at |-> clock], through[g][c], since[g], clock)
    BY <2>1, <2>2, SweptWithin, TakeKeeps
  <2>5. through[g][c] \in Nat /\ [tokens |-> 0, at |-> clock] \in [tokens : Int, at : Int]
    BY <2>1 DEF LimiterInv
  <2> QED BY <1>1, <2>1, <2>2, <2>3, <2>4, <2>5
<1>6. ASSUME NEW g \in EdgeGroup, NEW cfg \in Limits \cup {NoLimit}, setConfig(g, cfg)
      PROVE  LimiterInv'
  <2>1. cfg \in LimitType /\ NoBucket \in [tokens : Int, at : Int]
    BY EdgeAssumption DEF NoLimit, LimitType, NoBucket
  <2>2. /\ limit' \in [EdgeGroup -> LimitType]
        /\ buckets' \in [EdgeGroup -> [Client -> [tokens : Int, at : Int]]]
        /\ through' \in [EdgeGroup -> [Client -> Nat]]
        /\ since' \in [EdgeGroup -> Nat]
        /\ clock' = clock /\ clock \in Nat
        /\ \A h \in EdgeGroup : since'[h] <= clock
    BY <1>6, <2>1 DEF setConfig, LimiterInv
  <2>3. ASSUME NEW h \in EdgeGroup, NEW c \in Client, Fills(limit'[h])
        PROVE  Within(limit'[h], buckets'[h][c], through'[h][c], since'[h], clock')
    <3>1. CASE h = g
      <4>1. /\ limit'[h] = cfg /\ buckets'[h][c] = NoBucket /\ through'[h][c] = 0
            /\ since'[h] = clock
        BY <1>6, <3>1 DEF setConfig, LimiterInv
      <4>2. cfg.rps \in Nat
        BY <2>1, <2>3, <4>1, BurstPositive DEF Fills
      <4>3. 0 <= cfg.rps * (clock - clock)
        BY <2>2, <4>2
      <4> QED BY <2>2, <4>1, <4>3 DEF Within
    <3>2. CASE h # g
      <4>1. /\ limit'[h] = limit[h] /\ buckets'[h] = buckets[h] /\ through'[h] = through[h]
            /\ since'[h] = since[h]
        BY <1>6, <3>2 DEF setConfig, LimiterInv
      <4> QED BY <2>2, <2>3, <4>1 DEF LimiterInv
    <3> QED BY <3>1, <3>2
  <2> QED BY <2>2, <2>3 DEF LimiterInv
<1>7. CASE EdgeTick
  <2>1. clock' = clock + 1 /\ UNCHANGED <<limit, buckets, through, since>>
    BY <1>7 DEF EdgeTick
  <2>2. clock' \in Nat /\ \A g \in EdgeGroup : since[g] <= clock'
    BY <2>1 DEF LimiterInv
  <2>3. ASSUME NEW g \in EdgeGroup, NEW c \in Client, Fills(limit[g])
        PROVE  Within(limit[g], buckets[g][c], through[g][c], since[g], clock + 1)
    BY <2>3, WaitKeeps DEF LimiterInv, Fills
  <2>4. \A g \in EdgeGroup : \A c \in Client : Fills(limit'[g]) =>
          Within(limit'[g], buckets'[g][c], through'[g][c], since'[g], clock')
    BY <2>1, <2>3
  <2> QED BY <2>1, <2>2, <2>4 DEF LimiterInv
<1>8. ASSUME UNCHANGED limiterVars \/ UNCHANGED edgeVars PROVE LimiterInv'
  BY <1>3, <1>8 DEF limiterVars, edgeVars
<1>9. ASSUME NEW r \in Visit, Create(r) PROVE LimiterInv'
  BY <1>3, <1>9 DEF Create
<1> QED
  BY <1>4, <1>5, <1>6, <1>7, <1>8, <1>9
     DEF EdgeNext, Enter, Unauthorized, Lookup, Served

(* THEOREM: while a limit is in force, a client gets at most its burst and *)
(* its rate through, for any rates, bursts and times and however idle      *)
(* buckets are swept, provided that a bucket fills up before sweepLocked   *)
(* may drop it.                                                            *)
THEOREM RatesAreBounded == EdgeSpec => []RateBounded
<1>1. EdgeInit => LimiterInv
  BY DEF EdgeInit, LimiterInv, Fills, Unlimited, NoLimit, NoBucket, LimitType
<1>2. LimiterInv => RateBounded
  <2> SUFFICES ASSUME LimiterInv, NEW g \in EdgeGroup, NEW c \in Client, Fills(limit[g])
               PROVE  through[g][c] <= burstOf(limit[g]) + limit[g].rps * (clock - since[g])
    BY DEF RateBounded, Fills
  <2> DEFINE cfg == limit[g]
             b == buckets[g][c]
             n == through[g][c]
             s == since[g]
             B == burstOf(cfg)
             z == cfg.rps * (clock - s)
  <2>1. Within(cfg, b, n, s, clock) /\ cfg \in LimitType
    BY DEF LimiterInv
  <2>2. /\ n \in Nat /\ s \in Nat /\ clock \in Nat /\ s <= clock
        /\ cfg.rps \in Nat /\ B \in Nat
    BY <2>1, BurstPositive DEF Within, Fills
  <2>3. CASE b = NoBucket /\ n <= z
    <3>1. z \in Nat
      BY <2>2
    <3> HIDE DEF n, z, B
    <3>2. n <= B + z
      BY <2>2, <2>3, <3>1
    <3> QED BY <3>2 DEF n, z, B
  <2>4. CASE /\ b \in [tokens : Nat, at : Nat] /\ s <= b.at /\ b.at <= clock
             /\ n + b.tokens <= B + cfg.rps * (b.at - s)
    <3> DEFINE x == cfg.rps * (b.at - s)
               y == cfg.rps * (clock - b.at)
               k == b.tokens
    <3>3. b.at \in Nat /\ k \in Nat /\ n + k <= B + x
      BY <2>4
    <3> HIDE DEF cfg, b, s
    <3>4. z = x + y /\ x \in Nat /\ y \in Nat
      BY <2>2, <2>4, <3>3, RateAdds
    <3>1. k \in Nat /\ n + k <= B + x /\ z = x + y /\ x \in Nat /\ y \in Nat
      BY <3>3, <3>4
    <3> HIDE DEF n, z, B, x, y, k
    <3>2. n <= B + z
      BY <2>2, <3>1
    <3> QED BY <3>2 DEF n, z, B, cfg, s
  <2> QED BY <2>1, <2>3, <2>4 DEF Within
<1>3. EdgeInv /\ [EdgeNext]_edgeVars => EdgeInv'
  BY ShapeStep, CountStep DEF EdgeInv
<1> QED BY <1>1, <1>2, <1>3, EdgeStarts, LimiterStep, PTL DEF EdgeSpec

-----------------------------------------------------------------------------
(* The TCP front end *)

(* The counter counts the handlers, and the accept loop holds only a       *)
(* connection it has accepted.                                             *)
CountInv ==
  /\ inflight = Cardinality(InFlight)
  /\ accepting # NoConn => conn[accepting] = "accepted"

(* Connections a drain has still to see finished. *)
Left == inflight + (IF accepting = NoConn THEN 0 ELSE 1)

(* Draining follows the close of the listener, and once the captured       *)
(* channel is closed at most one connection is left.                       *)
DrainInv ==
  /\ captured <= idle
  /\ drain \in {"check", "wait", "drained", "expired"} => listener = "closed"
  /\ drain = "wait" /\ inflight = 0 => IdleClosed
  /\ drain = "drained" \/ (drain = "wait" /\ IdleClosed) => Left <= 1

TCPIInv == TCPTypeInv /\ CountInv /\ DrainInv

-----------------------------------------------------------------------------
(* Any set of connections is finite and its size a natural number. *)
LEMMA FiniteConns ==
  ASSUME NEW S \in SUBSET Conn
  PROVE  IsFiniteSet(S) /\ Cardinality(S) \in Nat
BY TCPAssumption, FS_Subset, FS_CardinalityType

(* A connection that starts or stops being handled changes the size of the *)
(* set of handled ones by one.                                             *)
LEMMA OneMoreConn ==
  ASSUME NEW S \in SUBSET Conn, NEW c \in Conn, c \notin S
  PROVE  Cardinality(S \cup {c}) = Cardinality(S) + 1
BY FiniteConns, FS_AddElement

LEMMA OneLessConn ==
  ASSUME NEW S \in SUBSET Conn, NEW c \in S
  PROVE  Cardinality(S \ {c}) = Cardinality(S) - 1
BY FiniteConns, FS_RemoveElement

(* Steps that launch and finish no handler leave the count alone. *)
LEMMA CountUntouched ==
  ASSUME CountInv, TCPTypeInv, inflight' = inflight, accepting' = accepting,
         InFlight' = InFlight,
         accepting # NoConn => conn'[accepting] = conn[accepting]
  PROVE  CountInv'
BY DEF CountInv

(* The inductive step, action by action. *)
LEMMA TCPStep == TCPIInv /\ [TCPNext]_tcpVars => TCPIInv'
<1> SUFFICES ASSUME TCPIInv, [TCPNext]_tcpVars PROVE TCPIInv'
  OBVIOUS
<1> USE DEF TCPIInv
<1>1. ASSUME NEW c \in Conn, Accept(c) PROVE TCPIInv'
  <2>1. TCPTypeInv'
    BY <1>1, TCPAssumption DEF Accept, TCPTypeInv
  <2>2. InFlight' = InFlight
    BY <1>1 DEF Accept, InFlight, TCPTypeInv
  <2>3. CountInv'
    BY <1>1, <2>2 DEF Accept, CountInv, TCPTypeInv
  <2>4. DrainInv'
    BY <1>1 DEF Accept, DrainInv, TCPTypeInv, IdleClosed, Left
  <2> QED BY <2>1, <2>3, <2>4
<1>2. CASE Launch
  <2>1. accepting \in Conn /\ accepting \notin InFlight
    BY <1>2, TCPAssumption DEF Launch, TCPTypeInv, CountInv, InFlight
  <2>2. TCPTypeInv'
    BY <1>2, <2>1 DEF Launch, TCPTypeInv
  <2>3. InFlight' = InFlight \cup {accepting}
    BY <1>2, <2>1 DEF Launch, InFlight, TCPTypeInv
  <2>4. Cardinality(InFlight \cup {accepting}) = Cardinality(InFlight) + 1
    <3>1. InFlight \in SUBSET Conn
      BY DEF InFlight
    <3> QED BY <2>1, <3>1, OneMoreConn
  <2>5. CountInv'
    BY <1>2, <2>3, <2>4 DEF Launch, CountInv
  <2>6. DrainInv'
    BY <1>2, <2>1, TCPAssumption DEF Launch, DrainInv, TCPTypeInv, IdleClosed, Left
  <2> QED BY <2>2, <2>5, <2>6
<1>3. CASE AcceptFails
  <2>1. TCPTypeInv'
    BY <1>3 DEF AcceptFails, TCPTypeInv
  <2>2. CountInv'
    BY <1>3 DEF AcceptFails, CountInv, InFlight
  <2>3. DrainInv'
    BY <1>3 DEF AcceptFails, DrainInv, IdleClosed, Left
  <2> QED BY <2>1, <2>2, <2>3
<1>4. ASSUME NEW c \in Conn, Select(c) \/ Dial(c) \/ \E dir \in Directions : HalfClose(c, dir)
      PROVE  TCPIInv'
  <2>1. TCPTypeInv'
    BY <1>4 DEF Select, Dial, HalfClose, TCPTypeInv, Directions
  <2>2. InFlight' = InFlight
    BY <1>4 DEF Select, Dial, HalfClose, InFlight, TCPTypeInv
  <2>3. accepting # NoConn => conn'[accepting] = conn[accepting]
    BY <1>4 DEF Select, Dial, HalfClose, CountInv, TCPTypeInv
  <2>4. CountInv'
    BY <1>4, <2>2, <2>3, CountUntouched DEF Select, Dial, HalfClose
  <2>5. DrainInv'
    BY <1>4 DEF Select, Dial, HalfClose, DrainInv, IdleClosed, Left
  <2> QED BY <2>1, <2>4, <2>5
<1>5. ASSUME NEW c \in Conn, Finish(c) PROVE TCPIInv'
  <2>1. c \in InFlight /\ c # accepting
    BY <1>5, TCPAssumption DEF Finish, InFlight, CountInv
  <2>2. InFlight' = InFlight \ {c}
    BY <1>5 DEF Finish, InFlight, TCPTypeInv
  <2>3. Cardinality(InFlight \ {c}) = Cardinality(InFlight) - 1
    <3>1. InFlight \in SUBSET Conn
      BY DEF InFlight
    <3> QED BY <2>1, <3>1, OneLessConn
  <2>4. inflight' = inflight - 1 /\ inflight' \in Nat
    <3>1. InFlight \ {c} \in SUBSET Conn
      BY DEF InFlight
    <3> QED BY <1>5, <2>3, <3>1, FiniteConns DEF Finish, ConnFinished, CountInv, TCPTypeInv
  <2>5. TCPTypeInv'
    BY <1>5, <2>4 DEF Finish, ConnFinished, TCPTypeInv
  <2>6. CountInv'
    BY <1>5, <2>1, <2>2, <2>3, <2>4 DEF Finish, CountInv, TCPTypeInv
  <2>7. DrainInv'
    BY <1>5, <2>4 DEF Finish, ConnFinished, DrainInv, TCPTypeInv, IdleClosed, Left
  <2> QED BY <2>5, <2>6, <2>7
<1>6. CASE Signal
  <2>1. TCPTypeInv'
    BY <1>6 DEF Signal, TCPTypeInv
  <2>2. CountInv'
    BY <1>6 DEF Signal, CountInv, InFlight
  <2>3. DrainInv'
    BY <1>6 DEF Signal, DrainInv, IdleClosed, Left
  <2> QED BY <2>1, <2>2, <2>3
<1>7. CASE Shutdown
  <2>1. TCPTypeInv'
    BY <1>7 DEF Shutdown, CloseListener, DrainCheck, DrainIdle, DrainTimeout, TCPTypeInv
  <2>2. CountInv'
    BY <1>7 DEF Shutdown, CloseListener, DrainCheck, DrainIdle, DrainTimeout, CountInv, InFlight
  <2>3. DrainInv'
    BY <1>7 DEF Shutdown, CloseListener, DrainCheck, DrainIdle, DrainTimeout, DrainInv,
                TCPTypeInv, IdleClosed, Left
  <2> QED BY <2>1, <2>2, <2>3
<1>8. CASE UNCHANGED tcpVars
  BY <1>8 DEF tcpVars, TCPTypeInv, CountInv, InFlight, DrainInv, IdleClosed, Left
<1> QED BY <1>1, <1>2, <1>3, <1>4, <1>5, <1>6, <1>7, <1>8 DEF TCPNext, ServeStep, Handle

LEMMA TCPStart == TCPInit => TCPIInv
<1> SUFFICES ASSUME TCPInit PROVE TCPIInv
  OBVIOUS
<1>1. InFlight = {} /\ Cardinality({}) = 0
  BY FS_EmptySet DEF TCPInit, InFlight
<1>2. TCPTypeInv
  <2>1. conn \in [Conn -> {"new", "accepted", "selecting", "dialing", "piping", "done"}]
    BY DEF TCPInit
  <2>2. flows \in [Conn -> SUBSET Directions]
    BY DEF TCPInit
  <2> QED BY <2>1, <2>2 DEF TCPInit, TCPTypeInv
<1>3. CountInv
  BY <1>1 DEF TCPInit, CountInv
<1>4. DrainInv
  BY DEF TCPInit, DrainInv, IdleClosed, Left
<1> QED BY <1>2, <1>3, <1>4 DEF TCPIInv

(* The inductive invariant holds in every state of the proxy. *)
LEMMA TCPInvariant == TCPSpec => []TCPIInv
BY TCPStart, TCPStep, PTL DEF TCPSpec

(* The accept loop, the handlers and the drain keep their types; the       *)
(* in-flight counter never goes below zero.                                *)
THEOREM TCPTypeCorrect == TCPSpec => []TCPTypeInv
<1>1. TCPIInv => TCPTypeInv
  BY DEF TCPIInv
<1> QED BY <1>1, TCPInvariant, PTL

(* Drain never sleeps through the idle signal of connFinished. *)
THEOREM WakeupNotLost == TCPSpec => []NoLostWakeup
<1>1. TCPIInv => NoLostWakeup
  BY DEF TCPIInv, DrainInv, NoLostWakeup
<1> QED BY <1>1, TCPInvariant, PTL

(* A drain that reports success leaves at most the one connection that     *)
(* Serve had accepted and not yet counted.                                 *)
THEOREM DrainLeavesAtMostOne == TCPSpec => []DrainMissesAtMostOne
<1>1. TCPIInv => DrainMissesAtMostOne
  BY DEF TCPIInv, DrainInv, CountInv, Left, DrainMissesAtMostOne
<1> QED BY <1>1, TCPInvariant, PTL

=============================================================================
