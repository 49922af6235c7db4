--------------------------- MODULE DataPlaneProofs --------------------------
(***************************************************************************)
(* The two users of the backend list, the health checker and the request   *)
(* handlers.  Both take only steps of the list, so everything proved of    *)
(* BackendList holds under them.  The verdicts of the checker are those of *)
(* the last results, for any thresholds; the client of a retried request   *)
(* sees one answer and a request is replayed as often as its policy says.  *)
(***************************************************************************)
EXTENDS HealthChecker, Proxy, BackendListProofs

USE ZenonT(10), SMTT(30)

-----------------------------------------------------------------------------
(* The checker *)

(* Pushing a verdict is a SetHealth step of the list or no step of it. *)
LEMMA MarkHealthyIsListStep ==
  ASSUME NEW a \in Address, NEW h \in BOOLEAN, MarkHealthy(a, h)
  PROVE  [Next]_vars
BY DEF MarkHealthy, Next

(* A step of the checker is a step of the list or invisible to it. *)
LEMMA CheckerStep == [HCNext]_allVars => [Next]_vars
<1> SUFFICES ASSUME [HCNext]_allVars
             PROVE  [Next]_vars
  OBVIOUS
<1>1. CASE UpdateUnderProbes
  BY <1>1 DEF UpdateUnderProbes, Next
<1>2. CASE \E r \in Request : Select(r) \/ Serve(r)
  BY <1>2 DEF Next
<1>3. CASE Tick
  BY <1>3 DEF Next
<1>4. CASE StartWave
  BY <1>4 DEF StartWave
<1>5. ASSUME NEW a \in Address, Record(a)
      PROVE  [Next]_vars
  <2>1. (probe[a] = "ok") \in BOOLEAN
    OBVIOUS
  <2>2. MarkHealthy(a, probe[a] = "ok") \/ UNCHANGED vars
    BY <1>5 DEF Record
  <2> QED BY <2>1, <2>2, MarkHealthyIsListStep
<1>6. ASSUME NEW a \in Address, Probe(a) \/ Flap(a)
      PROVE  [Next]_vars
  BY <1>6 DEF Probe, Flap
<1>7. CASE UNCHANGED allVars
  BY <1>7 DEF allVars, vars
<1> QED BY <1>1, <1>2, <1>3, <1>4, <1>5, <1>6, <1>7 DEF HCNext

(* THEOREM: the list under the health checker implements BackendList: its  *)
(* verdicts are SetHealth steps, and its waves, probes and streaks are     *)
(* invisible to the list.                                                  *)
THEOREM CheckerImplementsList == HCSpec => ImplementsBackendList
<1>1. HCInit => Init
  BY DEF HCInit
<1> QED BY <1>1, CheckerStep, PTL DEF HCSpec, ImplementsBackendList, Spec

-----------------------------------------------------------------------------
(* Runs of equal results *)

LEMMA MinOfTwo ==
  ASSUME NEW m \in Int, NEW n \in Int
  PROVE  Min({m, n}) = IF m <= n THEN m ELSE n
BY DEF Min

LEMMA MaxOfTwo ==
  ASSUME NEW m \in Int, NEW n \in Int
  PROVE  Max({m, n}) = IF m >= n THEN m ELSE n
BY DEF Max

LEMMA WindowFits ==
  /\ Window \in Nat \ {0}
  /\ FailureThreshold <= Window /\ SuccessThreshold <= Window
BY ThresholdAssumption, MaxOfTwo DEF Window

(* The last n results of r are ok and, unless n is the limit at which      *)
(* counting stops, the one before them is not.                             *)
RunOf(n, limit, ok, r) ==
  /\ LastAll(r, n, ok)
  /\ n < limit => Len(r) = n \/ r[Len(r) - n] # ok

(* One more result in a window of the last ones. *)
Pushed(r, ok) == IF Len(r) = Window THEN Append(Tail(r), ok) ELSE Append(r, ok)

(* What the window holds afterwards, counted from its end. *)
LEMMA PushedFacts ==
  ASSUME NEW V, NEW r \in Seq(V), NEW ok \in V, Len(r) <= Window
  PROVE  /\ Len(r) \in Nat /\ Len(Pushed(r, ok)) \in Nat
         /\ Len(Pushed(r, ok)) = IF Len(r) = Window THEN Window ELSE Len(r) + 1
         /\ Pushed(r, ok) \in Seq(V)
         /\ Pushed(r, ok)[Len(Pushed(r, ok))] = ok
         /\ \A k \in 1..Len(Pushed(r, ok)) - 1 :
              Pushed(r, ok)[Len(Pushed(r, ok)) - k] = r[Len(r) + 1 - k]
<1>1. CASE Len(r) = Window
  <2>1. r # <<>> /\ Len(r) \in Nat \ {0}
    BY <1>1, WindowFits
  <2> DEFINE t == Tail(r)
  <2>2. t \in Seq(V) /\ Len(t) = Window - 1 /\ \A i \in 1..Len(t) : t[i] = r[i + 1]
    BY <1>1, <2>1
  <2>3. Pushed(r, ok) = Append(t, ok)
    BY <1>1 DEF Pushed
  <2> HIDE DEF t
  <2> QED BY <1>1, <2>2, <2>3, WindowFits
<1>2. CASE Len(r) # Window
  BY <1>2, WindowFits DEF Pushed
<1> QED BY <1>1, <1>2

(* A result that continues a run. *)
LEMMA RunGrows ==
  ASSUME NEW V, NEW r \in Seq(V), NEW ok \in V, Len(r) <= Window,
         NEW limit \in Nat \ {0}, limit <= Window,
         NEW n \in Nat, n <= limit, RunOf(n, limit, ok, r)
  PROVE  RunOf(IF n = limit THEN limit ELSE n + 1, limit, ok, Pushed(r, ok))
<1> DEFINE q == Pushed(r, ok)
           m == IF n = limit THEN limit ELSE n + 1
<1>1. /\ Len(r) \in Nat /\ Len(q) \in Nat
      /\ Len(q) = IF Len(r) = Window THEN Window ELSE Len(r) + 1
  BY PushedFacts
<1>a. /\ q[Len(q)] = ok
      /\ \A k \in 1..Len(q) - 1 : q[Len(q) - k] = r[Len(r) + 1 - k]
  BY PushedFacts
<1> HIDE DEF q
<1>2. m \in Nat /\ m <= n + 1 /\ m <= limit /\ (m < limit => m = n + 1 /\ n < limit)
  OBVIOUS
<1> HIDE DEF m
<1>3. Len(q) >= m
  BY <1>1, <1>2, WindowFits DEF RunOf, LastAll
<1>4. ASSUME NEW i \in (Len(q) - m + 1)..Len(q) PROVE q[i] = ok
  <2>1. CASE i = Len(q)
    BY <1>a, <2>1
  <2>2. CASE i # Len(q)
    <3> DEFINE k == Len(q) - i
    <3>1. i \in Int /\ i <= Len(q) - 1 /\ i >= Len(q) - m + 1
      BY <1>1, <1>2, <1>3, <2>2
    <3>2. k \in 1..Len(q) - 1 /\ i = Len(q) - k /\ k <= n
      BY <1>1, <1>2, <1>3, <3>1
    <3>4. Len(r) + 1 - k \in (Len(r) - n + 1)..Len(r)
      BY <1>1, <3>2
    <3>3. r[Len(r) + 1 - k] = ok
      BY <3>4 DEF RunOf, LastAll
    <3> HIDE DEF k
    <3> QED BY <1>a, <3>2, <3>3
  <2> QED BY <2>1, <2>2
<1>5. ASSUME m < limit PROVE Len(q) = m \/ q[Len(q) - m] # ok
  <2>1. m = n + 1 /\ n < limit
    BY <1>2, <1>5
  <2>2. CASE Len(r) = n
    BY <1>1, <2>1, <2>2, WindowFits
  <2>3. CASE Len(r) # n /\ Len(q) # m
    <3>1. r[Len(r) - n] # ok
      BY <2>1, <2>3 DEF RunOf
    <3>2. m \in 1..Len(q) - 1
      BY <1>1, <1>2, <1>3, <2>1, <2>3
    <3>3. q[Len(q) - m] = r[Len(r) + 1 - m]
      BY <1>a, <3>2
    <3>4. Len(r) + 1 - m = Len(r) - n
      BY <1>1, <2>1
    <3> QED BY <3>1, <3>3, <3>4
  <2> QED BY <2>2, <2>3
<1>6. LastAll(q, m, ok)
  BY <1>3, <1>4 DEF LastAll
<1> QED BY <1>5, <1>6 DEF RunOf, q, m

(* A result of the other kind starts a run of one. *)
LEMMA RunStarts ==
  ASSUME NEW V, NEW r \in Seq(V), NEW ok \in V, Len(r) <= Window,
         NEW limit \in Nat \ {0},
         Len(r) = 0 \/ r[Len(r)] # ok
  PROVE  RunOf(1, limit, ok, Pushed(r, ok))
<1> DEFINE q == Pushed(r, ok)
<1>1. /\ Len(r) \in Nat /\ Len(q) \in Nat
      /\ Len(q) = IF Len(r) = Window THEN Window ELSE Len(r) + 1
  BY PushedFacts
<1>a. /\ q[Len(q)] = ok
      /\ \A k \in 1..Len(q) - 1 : q[Len(q) - k] = r[Len(r) + 1 - k]
  BY PushedFacts
<1> HIDE DEF q
<1>2. Len(q) >= 1
  BY <1>1, WindowFits
<1>3. Len(q) = 1 \/ q[Len(q) - 1] # ok
  <2>1. CASE Len(q) # 1
    <3>1. 1 \in 1..Len(q) - 1 /\ Len(r) + 1 - 1 = Len(r)
      BY <1>1, <1>2, <2>1
    <3>2. q[Len(q) - 1] = r[Len(r)]
      BY <1>a, <3>1
    <3>3. Len(r) # 0
      BY <1>1, <2>1, WindowFits
    <3> QED BY <3>2, <3>3
  <2> QED BY <2>1
<1>4. LastAll(q, 1, ok)
  BY <1>1, <1>2, <1>a DEF LastAll
<1> QED BY <1>3, <1>4 DEF RunOf, q

-----------------------------------------------------------------------------
(* A streak is the run at the end of the recorded results.  The results    *)
(* are named yes and no here.                                              *)
TracksOf(s, r, yes, no) ==
  /\ s \in -FailureThreshold..SuccessThreshold
  /\ r \in Seq({yes, no}) /\ Len(r) <= Window
  /\ s = 0 => Len(r) = 0
  /\ s > 0 => RunOf(s, SuccessThreshold, yes, r)
  /\ s < 0 => RunOf(-s, FailureThreshold, no, r)

Tracks(s, r) == TracksOf(s, r, TRUE, FALSE)

(* A run is full exactly when it is the limit long, and no run of the      *)
(* other kind is there.                                                    *)
LEMMA RunMeans ==
  ASSUME NEW V, NEW r \in Seq(V), NEW ok \in V, NEW other \in V, ok # other,
         NEW n \in Nat \ {0}, NEW limit \in Nat \ {0}, n <= limit,
         RunOf(n, limit, ok, r), NEW m \in Nat \ {0}
  PROVE  /\ r[Len(r)] = ok
         /\ LastAll(r, limit, ok) => n = limit
         /\ n = limit => LastAll(r, limit, ok)
         /\ ~LastAll(r, m, other)
<1>1. Len(r) \in Nat
  OBVIOUS
<1>2. r[Len(r)] = ok
  <2>1. Len(r) \in (Len(r) - n + 1)..Len(r)
    BY <1>1
  <2> QED BY <2>1 DEF RunOf, LastAll
<1>3. ~LastAll(r, m, other)
  <2>1. Len(r) \in (Len(r) - m + 1)..Len(r)
    BY <1>1
  <2> QED BY <1>2, <2>1 DEF LastAll
<1>4. n = limit => LastAll(r, limit, ok)
  BY DEF RunOf
<1>5. ASSUME n < limit PROVE ~LastAll(r, limit, ok)
  <2>1. CASE Len(r) = n
    BY <1>1, <1>5, <2>1 DEF LastAll
  <2>2. CASE Len(r) # n
    <3>1. r[Len(r) - n] # ok
      BY <1>5, <2>2 DEF RunOf
    <3>2. Len(r) >= limit => Len(r) - n \in (Len(r) - limit + 1)..Len(r)
      BY <1>1, <1>5
    <3> QED BY <3>1, <3>2 DEF LastAll
  <2> QED BY <2>1, <2>2
<1> QED BY <1>2, <1>3, <1>4, <1>5

(* A streak is at its threshold exactly after a full run of results. *)
LEMMA ThresholdMeansRun ==
  ASSUME NEW yes, NEW no, yes # no, NEW s, NEW r, TracksOf(s, r, yes, no)
  PROVE  /\ LastAll(r, FailureThreshold, no) => s = -FailureThreshold
         /\ s = -FailureThreshold => LastAll(r, FailureThreshold, no)
         /\ LastAll(r, SuccessThreshold, yes) => s = SuccessThreshold
         /\ s = SuccessThreshold => LastAll(r, SuccessThreshold, yes)
<1> DEFINE V == {yes, no}
           F == FailureThreshold
           S == SuccessThreshold
<1>1. /\ F \in Nat \ {0} /\ S \in Nat \ {0}
      /\ s \in Int /\ -F <= s /\ s <= S
      /\ r \in Seq(V) /\ Len(r) \in Nat /\ yes \in V /\ no \in V
  BY ThresholdAssumption DEF TracksOf
<1> HIDE DEF V
<1>3. CASE s > 0
  <2>1. RunOf(s, S, yes, r)
    BY <1>3 DEF TracksOf
  <2>3. s \in Nat \ {0} /\ s <= S
    BY <1>1, <1>3
  <2>2. /\ LastAll(r, S, yes) => s = S
        /\ s = S => LastAll(r, S, yes)
        /\ ~LastAll(r, F, no)
    BY <1>1, <2>1, <2>3, RunMeans
  <2> QED BY <1>1, <1>3, <2>2
<1>4. CASE s < 0
  <2> DEFINE n == -s
  <2>1. RunOf(n, F, no, r)
    BY <1>4 DEF TracksOf
  <2>3. n \in Nat \ {0} /\ n <= F /\ s = -n
    BY <1>1, <1>4
  <2> HIDE DEF n
  <2>2. /\ LastAll(r, F, no) => n = F
        /\ n = F => LastAll(r, F, no)
        /\ ~LastAll(r, S, yes)
    BY <1>1, <2>1, <2>3, RunMeans
  <2> QED BY <1>1, <1>4, <2>2, <2>3
<1>5. CASE s = 0
  <2>1. ~LastAll(r, F, no) /\ ~LastAll(r, S, yes)
    BY <1>1, <1>5 DEF TracksOf, LastAll
  <2> QED BY <1>1, <1>5, <2>1
<1> QED BY <1>1, <1>3, <1>4, <1>5

(* recordResult keeps streak and results together: a success ... *)
LEMMA TracksSuccess ==
  ASSUME NEW yes, NEW no, yes # no, NEW s, NEW r, TracksOf(s, r, yes, no)
  PROVE  TracksOf(NextStreak(s, TRUE), Pushed(r, yes), yes, no)
<1> DEFINE V == {yes, no}
           t == NextStreak(s, TRUE)
           S == SuccessThreshold
<1>1. /\ FailureThreshold \in Nat \ {0} /\ S \in Nat \ {0}
      /\ s \in Int /\ -FailureThreshold <= s /\ s <= S
      /\ r \in Seq(V) /\ Len(r) <= Window /\ Len(r) \in Nat
      /\ FailureThreshold <= Window /\ S <= Window
      /\ yes \in V /\ no \in V
  BY ThresholdAssumption, WindowFits DEF TracksOf
<1>3. t = IF s <= 0 THEN 1 ELSE IF s = S THEN S ELSE s + 1
  BY <1>1, MinOfTwo DEF NextStreak
<1> HIDE DEF V, t
<1>2. Pushed(r, yes) \in Seq(V) /\ Len(Pushed(r, yes)) <= Window
  BY <1>1, PushedFacts, WindowFits
<1>4. CASE s > 0
  <2>1. RunOf(s, S, yes, r)
    BY <1>4 DEF TracksOf
  <2>3. s \in Nat /\ s <= S
    BY <1>1, <1>4
  <2>2. RunOf(IF s = S THEN S ELSE s + 1, S, yes, Pushed(r, yes))
    BY <1>1, <2>3, <2>1, RunGrows
  <2>4. RunOf(t, S, yes, Pushed(r, yes))
    BY <1>1, <1>3, <1>4, <2>2
  <2>5. t \in -FailureThreshold..S /\ t > 0 /\ ~(t < 0) /\ t # 0
    BY <1>1, <1>3, <1>4
  <2> QED BY <1>2, <2>4, <2>5 DEF TracksOf, V, t
<1>5. CASE s <= 0
  <2>1. Len(r) = 0 \/ r[Len(r)] # yes
    <3>1. CASE s < 0
      <4> DEFINE n == -s
      <4>1. RunOf(n, FailureThreshold, no, r)
        BY <3>1 DEF TracksOf
      <4>3. n \in Nat \ {0} /\ n <= FailureThreshold
        BY <1>1, <3>1
      <4> HIDE DEF n
      <4>2. r[Len(r)] = no
        BY <1>1, <4>1, <4>3, RunMeans
      <4> QED BY <4>2
    <3> QED BY <1>1, <1>5, <3>1 DEF TracksOf
  <2>2. RunOf(1, S, yes, Pushed(r, yes))
    BY <1>1, <2>1, RunStarts
  <2>5. t = 1 /\ t \in -FailureThreshold..S /\ t > 0 /\ ~(t < 0) /\ t # 0
    BY <1>1, <1>3, <1>5
  <2> QED BY <1>2, <2>2, <2>5 DEF TracksOf, V, t
<1>6. s > 0 \/ s <= 0
  BY <1>1
<1> QED BY <1>4, <1>5, <1>6

(* ... or a failure. *)
LEMMA TracksFailure ==
  ASSUME NEW yes, NEW no, yes # no, NEW s, NEW r, TracksOf(s, r, yes, no)
  PROVE  TracksOf(NextStreak(s, FALSE), Pushed(r, no), yes, no)
<1> DEFINE V == {yes, no}
           t == NextStreak(s, FALSE)
           F == FailureThreshold
<1>1. /\ F \in Nat \ {0} /\ SuccessThreshold \in Nat \ {0}
      /\ s \in Int /\ -F <= s /\ s <= SuccessThreshold
      /\ r \in Seq(V) /\ Len(r) <= Window /\ Len(r) \in Nat
      /\ F <= Window /\ SuccessThreshold <= Window
      /\ yes \in V /\ no \in V
  BY ThresholdAssumption, WindowFits DEF TracksOf
<1>3. t = IF s >= 0 THEN -1 ELSE IF -s = F THEN -F ELSE s - 1
  BY <1>1, MaxOfTwo DEF NextStreak
<1> HIDE DEF V, t
<1>2. Pushed(r, no) \in Seq(V) /\ Len(Pushed(r, no)) <= Window
  BY <1>1, PushedFacts, WindowFits
<1>4. CASE s < 0
  <2> DEFINE m == -s
             n == IF m = F THEN F ELSE m + 1
  <2>1. RunOf(m, F, no, r)
    BY <1>4 DEF TracksOf
  <2>3. /\ m \in Nat /\ m <= F
        /\ n \in Nat \ {0} /\ n <= F /\ t = -n /\ -t = n /\ t < 0 /\ ~(t > 0) /\ t # 0
        /\ t \in -F..SuccessThreshold
    BY <1>1, <1>3, <1>4
  <2> HIDE DEF m
  <2>2. RunOf(n, F, no, Pushed(r, no))
    BY <1>1, <2>1, <2>3, RunGrows
  <2> HIDE DEF n
  <2> QED BY <1>2, <2>2, <2>3 DEF TracksOf, V, t
<1>5. CASE s >= 0
  <2>1. Len(r) = 0 \/ r[Len(r)] # no
    <3>1. CASE s > 0
      <4>1. RunOf(s, SuccessThreshold, yes, r)
        BY <3>1 DEF TracksOf
      <4>3. s \in Nat \ {0} /\ s <= SuccessThreshold
        BY <1>1, <3>1
      <4>2. r[Len(r)] = yes
        BY <1>1, <4>1, <4>3, RunMeans
      <4> QED BY <4>2
    <3> QED BY <1>1, <1>5, <3>1 DEF TracksOf
  <2>2. RunOf(1, F, no, Pushed(r, no))
    BY <1>1, <2>1, RunStarts
  <2>4. t \in Int /\ t + 1 = 0
    BY <1>1, <1>3, <1>5
  <2>5. -t = 1 /\ t \in -F..SuccessThreshold /\ t < 0 /\ ~(t > 0) /\ t # 0
    BY <1>1, <2>4
  <2> QED BY <1>2, <2>2, <2>5 DEF TracksOf, V, t
<1>6. s < 0 \/ s >= 0
  BY <1>1
<1> QED BY <1>4, <1>5, <1>6

-----------------------------------------------------------------------------
(* The verdicts *)

(* The streak of every address is the run at the end of its results. *)
StreakInv ==
  /\ streak \in [Address -> Int]
  /\ recent \in [Address -> Seq(BOOLEAN)]
  /\ \A a \in Address : Tracks(streak[a], recent[a])

(* A probed member's verdict agrees with a streak at its threshold. *)
VerdictInv ==
  /\ probesSinceJoin \in [Address -> BOOLEAN]
  /\ \A a \in Members : probesSinceJoin[a] =>
       /\ streak[a] = -FailureThreshold => ~entries[a].healthy
       /\ streak[a] = SuccessThreshold => entries[a].healthy

HCInv == TypeInv /\ StreakInv /\ VerdictInv

(* Requests and the clock never touch a verdict. *)
LEMMA HealthKept ==
  ASSUME TypeInv, Tick \/ \E r \in Request : Select(r) \/ Serve(r)
  PROVE  /\ DOMAIN entries' = Members
         /\ \A a \in Members : entries'[a].healthy = entries[a].healthy
<1>1. ASSUME NEW r \in Request, NEW ok \in BOOLEAN, RecordResult(r, ok)
      PROVE  /\ DOMAIN entries' = Members
             /\ \A a \in Members : entries'[a].healthy = entries[a].healthy
  <2>1. CASE UNCHANGED entries
    BY <2>1 DEF Members
  <2>2. CASE target[r] \in Members /\ RecordSuccess(target[r])
    BY <2>2 DEF RecordSuccess, TypeInv, Entry
  <2>3. CASE target[r] \in Members /\ RecordFailure(target[r])
    BY <2>3, RecordFailureCases
  <2> QED BY <1>1, <2>1, <2>2, <2>3 DEF RecordResult
<1>2. ASSUME UNCHANGED entries
      PROVE  /\ DOMAIN entries' = Members
             /\ \A a \in Members : entries'[a].healthy = entries[a].healthy
  BY <1>2 DEF Members
<1>3. (\E r \in Request, ok \in BOOLEAN : RecordResult(r, ok)) \/ UNCHANGED entries
  BY DEF Tick, Select, Serve, CheckExpiry, Rebuild, Snapshot, Pick, PinTo, Release,
         listVars
<1> QED BY <1>1, <1>2, <1>3

(* A recorded result keeps streak and results together. *)
LEMMA RecordTracks ==
  ASSUME StreakInv, NEW a \in Address, Record(a)
  PROVE  /\ StreakInv'
         /\ \A b \in Address \ {a} : streak'[b] = streak[b]
         /\ probe[a] = "ok" => streak'[a] = NextStreak(streak[a], TRUE)
         /\ probe[a] = "failed" => streak'[a] = NextStreak(streak[a], FALSE)
<1> DEFINE ok == probe[a] = "ok"
<1>1. /\ TRUE # FALSE
      /\ TracksOf(streak[a], recent[a], TRUE, FALSE)
  BY DEF StreakInv, Tracks
<1>2. /\ streak' = [streak EXCEPT ![a] = NextStreak(streak[a], ok)]
      /\ recent' = [recent EXCEPT ![a] = Pushed(recent[a], ok)]
      /\ probe[a] = "ok" \/ probe[a] = "failed"
  BY DEF Record, Pushed, StreakInv
<1>3. Tracks(NextStreak(streak[a], ok), Pushed(recent[a], ok))
  <2>1. CASE probe[a] = "ok"
    <3>1. ok = TRUE
      BY <2>1
    <3>2. TracksOf(NextStreak(streak[a], TRUE), Pushed(recent[a], TRUE), TRUE, FALSE)
      BY <1>1, TracksSuccess, Zenon
    <3> HIDE DEF ok
    <3> QED BY <3>1, <3>2, Zenon DEF Tracks
  <2>2. CASE probe[a] = "failed"
    <3>1. ok = FALSE
      BY <2>2
    <3>2. TracksOf(NextStreak(streak[a], FALSE), Pushed(recent[a], FALSE), TRUE, FALSE)
      BY <1>1, TracksFailure, Zenon
    <3> HIDE DEF ok
    <3> QED BY <3>1, <3>2, Zenon DEF Tracks
  <2> QED BY <1>2, <2>1, <2>2
<1>4. /\ probe[a] = "ok" => NextStreak(streak[a], ok) = NextStreak(streak[a], TRUE)
      /\ probe[a] = "failed" => NextStreak(streak[a], ok) = NextStreak(streak[a], FALSE)
  BY DEF NextStreak
<1> DEFINE s == NextStreak(streak[a], ok)
           q == Pushed(recent[a], ok)
<1>5. s \in Int /\ q \in Seq({TRUE, FALSE})
  BY <1>3, ThresholdAssumption DEF Tracks, TracksOf
<1>6. q \in Seq(BOOLEAN)
  <2>1. BOOLEAN = {TRUE, FALSE}
    OBVIOUS
  <2> HIDE DEF q
  <2> QED BY <1>5, <2>1, Zenon
<1>7. Tracks(s, q)
  BY <1>3
<1> HIDE DEF s, q, ok
<1>8. /\ streak' = [streak EXCEPT ![a] = s]
      /\ recent' = [recent EXCEPT ![a] = q]
  BY <1>2 DEF s, q
<1>9. streak' \in [Address -> Int] /\ recent' \in [Address -> Seq(BOOLEAN)]
  BY <1>5, <1>6, <1>8 DEF StreakInv
<1>10. /\ streak'[a] = s /\ recent'[a] = q
       /\ \A b \in Address \ {a} : streak'[b] = streak[b] /\ recent'[b] = recent[b]
  BY <1>8 DEF StreakInv
<1>11. ASSUME NEW b \in Address PROVE Tracks(streak'[b], recent'[b])
  <2>1. CASE b = a
    BY <1>7, <1>10, <2>1, Zenon
  <2>2. CASE b # a
    BY <1>10, <2>2, Zenon DEF StreakInv
  <2> QED BY <2>1, <2>2
<1>12. StreakInv'
  BY <1>9, <1>11, Zenon DEF StreakInv, Tracks, TracksOf, RunOf, LastAll
<1> QED BY <1>4, <1>10, <1>12 DEF s

(* A success leaves a positive streak, a failure a negative one. *)
LEMMA NextStreakSign ==
  ASSUME NEW s \in -FailureThreshold..SuccessThreshold
  PROVE  /\ NextStreak(s, TRUE) \in 1..SuccessThreshold
         /\ -NextStreak(s, FALSE) \in 1..FailureThreshold
         /\ NextStreak(s, FALSE) \in -FailureThreshold..(-1)
<1> DEFINE u == NextStreak(s, TRUE)
           t == NextStreak(s, FALSE)
           F == FailureThreshold
           S == SuccessThreshold
<1>1. F \in Nat \ {0} /\ S \in Nat \ {0} /\ s \in Int /\ -F <= s /\ s <= S
  BY ThresholdAssumption
<1>2. u = IF s <= 0 THEN 1 ELSE IF s = S THEN S ELSE s + 1
  BY <1>1, MinOfTwo DEF NextStreak
<1>3. t = IF s >= 0 THEN -1 ELSE IF -s = F THEN -F ELSE s - 1
  BY <1>1, MaxOfTwo DEF NextStreak
<1> HIDE DEF t, u, F, S
<1>4. t \in Int /\ t + 1 <= 0 /\ t + F >= 0
  BY <1>1, <1>3
<1>5. u \in 1..S
  BY <1>1, <1>2
<1>6. -t \in 1..F /\ t \in -F..(-1)
  BY <1>1, <1>4
<1> QED BY <1>5, <1>6 DEF t, u, F, S

(* What SetHealth writes. *)
LEMMA MarkHealthyWrites ==
  ASSUME TypeInv, NEW a \in Address, NEW h \in BOOLEAN, MarkHealthy(a, h)
  PROVE  /\ DOMAIN entries' = Members
         /\ \A b \in Members \ {a} : entries'[b].healthy = entries[b].healthy
         /\ a \in Members => entries'[a].healthy = h
<1>1. CASE a \in Members /\ entries[a].healthy # h
  <2>1. entries' = [entries EXCEPT ![a].healthy = h]
    BY <1>1 DEF MarkHealthy, SetHealth
  <2> QED BY <1>1, <2>1 DEF TypeInv, Entry
<1>2. CASE ~(a \in Members /\ entries[a].healthy # h)
  BY <1>2 DEF MarkHealthy, vars, Members
<1> QED BY <1>1, <1>2

(* After a recorded result the verdict agrees with a streak at its         *)
(* threshold, and it changed only if the streak is there.                  *)
LEMMA RecordVerdict ==
  ASSUME TypeInv, StreakInv, NEW a \in Address, Record(a)
  PROVE  /\ DOMAIN entries' = Members
         /\ \A b \in Members \ {a} : entries'[b].healthy = entries[b].healthy
         /\ a \in Members =>
              /\ streak'[a] = -FailureThreshold => ~entries'[a].healthy
              /\ streak'[a] = SuccessThreshold => entries'[a].healthy
              /\ entries'[a].healthy # entries[a].healthy =>
                   \/ entries'[a].healthy /\ streak'[a] = SuccessThreshold
                   \/ ~entries'[a].healthy /\ streak'[a] = -FailureThreshold
<1> DEFINE t == NextStreak(streak[a], probe[a] = "ok")
<1>1. /\ FailureThreshold \in Nat \ {0} /\ SuccessThreshold \in Nat \ {0}
      /\ streak[a] \in -FailureThreshold..SuccessThreshold
  BY ThresholdAssumption DEF StreakInv, Tracks, TracksOf
<1>2. /\ probe[a] = "ok" \/ probe[a] = "failed"
      /\ streak'[a] = t
  BY DEF Record, StreakInv
<1>3. CASE probe[a] = "ok"
  <2>1. t \in 1..SuccessThreshold
    BY <1>1, <1>3, NextStreakSign DEF NextStreak
  <2>2. t # -FailureThreshold
    BY <1>1, <2>1
  <2>3. IF t >= SuccessThreshold THEN MarkHealthy(a, probe[a] = "ok") ELSE UNCHANGED vars
    BY <1>3 DEF Record
  <2> HIDE DEF t
  <2>4. CASE t >= SuccessThreshold
    <3>1. t = SuccessThreshold
      BY <1>1, <2>1, <2>4
    <3>2. MarkHealthy(a, TRUE)
      BY <1>3, <2>3, <2>4 DEF MarkHealthy, SetHealth
    <3>3. /\ DOMAIN entries' = Members
          /\ \A b \in Members \ {a} : entries'[b].healthy = entries[b].healthy
          /\ a \in Members => entries'[a].healthy
      BY <3>2, MarkHealthyWrites
    <3> QED BY <1>2, <2>2, <3>1, <3>3
  <2>5. CASE ~(t >= SuccessThreshold)
    <3>1. t # SuccessThreshold /\ UNCHANGED entries
      BY <1>1, <2>1, <2>3, <2>5 DEF vars
    <3> QED BY <1>2, <2>2, <3>1 DEF Members
  <2> QED BY <2>4, <2>5
<1>4. CASE probe[a] = "failed"
  <2>1. -t \in 1..FailureThreshold /\ t \in -FailureThreshold..(-1)
    BY <1>1, <1>4, NextStreakSign DEF NextStreak
  <2>2. t # SuccessThreshold
    BY <1>1, <2>1
  <2>3. IF -t >= FailureThreshold THEN MarkHealthy(a, probe[a] = "ok") ELSE UNCHANGED vars
    BY <1>4 DEF Record
  <2> HIDE DEF t
  <2>4. CASE -t >= FailureThreshold
    <3>1. t = -FailureThreshold
      BY <1>1, <2>1, <2>4
    <3>2. MarkHealthy(a, FALSE)
      BY <1>4, <2>3, <2>4 DEF MarkHealthy, SetHealth
    <3>3. /\ DOMAIN entries' = Members
          /\ \A b \in Members \ {a} : entries'[b].healthy = entries[b].healthy
          /\ a \in Members => ~entries'[a].healthy
      BY <3>2, MarkHealthyWrites
    <3> QED BY <1>2, <2>2, <3>1, <3>3
  <2>5. CASE ~(-t >= FailureThreshold)
    <3>1. t # -FailureThreshold /\ UNCHANGED entries
      BY <1>1, <2>1, <2>3, <2>5 DEF vars
    <3> QED BY <1>2, <2>2, <3>1 DEF Members
  <2> QED BY <2>4, <2>5
<1> QED BY <1>2, <1>3, <1>4

(* Every step of the checker, of the list and of the requests keeps the    *)
(* invariant.                                                              *)
LEMMA VerdictStep == HCInv /\ [HCNext]_allVars => HCInv'
<1> SUFFICES ASSUME HCInv, [HCNext]_allVars
             PROVE  HCInv'
  OBVIOUS
<1>1. TypeInv'
  BY CheckerStep, TypeStep DEF HCInv
<1>2. ASSUME UNCHANGED <<streak, recent>> PROVE StreakInv'
  BY <1>2 DEF HCInv, StreakInv
<1>3. ASSUME UNCHANGED <<streak, probesSinceJoin>>, DOMAIN entries' = Members,
             \A a \in Members : entries'[a].healthy = entries[a].healthy
      PROVE  VerdictInv'
  BY <1>3 DEF HCInv, VerdictInv, Members
<1>4. CASE UpdateUnderProbes
  <2>1. ASSUME NEW a \in Members', probesSinceJoin'[a]
        PROVE  probesSinceJoin[a] /\ a \in Members /\ entries'[a].healthy = entries[a].healthy
    <3>1. TypeInv' /\ a \in Address
      BY <1>1 DEF TypeInv
    <3>2. probesSinceJoin[a] /\ a \in Members
      BY <1>4, <2>1, <3>1 DEF UpdateUnderProbes
    <3>3. PICK v \in 1..MaxVersion, weights \in BackendSets : Update(v, weights)
      BY <1>4 DEF UpdateUnderProbes
    <3>4. entries'[a] = NewEntry(a, weights[a])
      BY <2>1, <3>3 DEF Update, Members
    <3> QED BY <3>2, <3>4 DEF NewEntry
  <2>2. probesSinceJoin' \in [Address -> BOOLEAN] /\ UNCHANGED <<streak, recent>>
    BY <1>4 DEF UpdateUnderProbes
  <2>3. VerdictInv'
    BY <2>1, <2>2 DEF HCInv, VerdictInv
  <2> QED BY <1>1, <1>2, <2>2, <2>3 DEF HCInv
<1>5. CASE (Tick \/ \E r \in Request : Select(r) \/ Serve(r)) /\ UNCHANGED hcVars
  <2>1. UNCHANGED <<streak, recent, probesSinceJoin>>
    BY <1>5 DEF hcVars
  <2> QED BY <1>1, <1>2, <1>3, <1>5, <2>1, HealthKept DEF HCInv
<1>6. ASSUME NEW a \in Address, Record(a)
      PROVE  HCInv'
  <2>1. StreakInv' /\ \A b \in Address \ {a} : streak'[b] = streak[b]
    BY <1>6, RecordTracks DEF HCInv
  <2>2. /\ DOMAIN entries' = Members
        /\ \A b \in Members \ {a} : entries'[b].healthy = entries[b].healthy
        /\ a \in Members =>
             /\ streak'[a] = -FailureThreshold => ~entries'[a].healthy
             /\ streak'[a] = SuccessThreshold => entries'[a].healthy
    BY <1>6, RecordVerdict DEF HCInv
  <2>3. /\ probesSinceJoin' \in [Address -> BOOLEAN]
        /\ \A b \in Address \ {a} : probesSinceJoin'[b] = probesSinceJoin[b]
    BY <1>6 DEF Record, HCInv, VerdictInv
  <2>4. Members \subseteq Address
    BY DEF HCInv, TypeInv
  <2>5. VerdictInv'
    BY <2>1, <2>2, <2>3, <2>4 DEF HCInv, VerdictInv, Members
  <2> QED BY <1>1, <2>1, <2>5 DEF HCInv
<1>7. ASSUME UNCHANGED <<entries, streak, recent, probesSinceJoin>>
      PROVE  HCInv'
  BY <1>1, <1>2, <1>3, <1>7 DEF HCInv, Members
<1>8. CASE StartWave
  BY <1>7, <1>8 DEF StartWave, vars
<1>9. ASSUME NEW a \in Address, Probe(a) \/ Flap(a)
      PROVE  HCInv'
  BY <1>7, <1>9 DEF Probe, Flap, vars
<1>10. CASE UNCHANGED allVars
  BY <1>7, <1>10 DEF allVars
<1> QED BY <1>4, <1>5, <1>6, <1>8, <1>9, <1>10 DEF HCNext

LEMMA HCInvHolds == HCSpec => []HCInv
<1>1. HCInit => HCInv
  <2> SUFFICES ASSUME HCInit PROVE HCInv
    OBVIOUS
  <2>1. TypeInv
    BY ListAssumption DEF HCInit, Init, TypeInv, Members, PCs
  <2>2. VerdictInv
    BY DEF HCInit, Init, VerdictInv, Members
  <2>3. <<>> \in Seq({TRUE, FALSE}) /\ <<>> \in Seq(BOOLEAN) /\ Len(<<>>) = 0
    OBVIOUS
  <2>4. Tracks(0, <<>>)
    BY <2>3, WindowFits, ThresholdAssumption DEF Tracks, TracksOf
  <2>5. StreakInv
    BY <2>3, <2>4 DEF HCInit, StreakInv
  <2> QED BY <2>1, <2>2, <2>5 DEF HCInv
<1> QED BY <1>1, VerdictStep, PTL DEF HCSpec

(* A full run in the window is a streak at its threshold, and back. *)
LEMMA RunIsThreshold ==
  ASSUME StreakInv, NEW a \in Address
  PROVE  /\ LastAll(recent[a], FailureThreshold, FALSE) <=> streak[a] = -FailureThreshold
         /\ LastAll(recent[a], SuccessThreshold, TRUE) <=> streak[a] = SuccessThreshold
<1>1. TRUE # FALSE /\ TracksOf(streak[a], recent[a], TRUE, FALSE)
  BY DEF StreakInv, Tracks
<1> QED BY <1>1, ThresholdMeansRun, Zenon

(* THEOREM: the verdict held for a probed member is never behind its       *)
(* probes, whatever updates and removals came in between.                  *)
THEOREM VerdictsAreCurrent == HCSpec => []VerdictCurrent
<1>1. HCInv => VerdictCurrent
  <2> SUFFICES ASSUME HCInv, NEW a \in Members, probesSinceJoin[a]
               PROVE  /\ LastAll(recent[a], FailureThreshold, FALSE) => ~entries[a].healthy
                      /\ LastAll(recent[a], SuccessThreshold, TRUE) => entries[a].healthy
    BY DEF VerdictCurrent
  <2>1. a \in Address /\ StreakInv /\ VerdictInv
    BY DEF HCInv, TypeInv
  <2> QED BY <2>1, RunIsThreshold, Zenon DEF VerdictInv
<1> QED BY <1>1, HCInvHolds, PTL

(* THEOREM: a verdict flips only right after a full run of the new kind of *)
(* results.                                                                *)
THEOREM HysteresisHolds == HCSpec => Hysteresis
<1> DEFINE flip(a) == entries'[a].healthy # entries[a].healthy =>
              LastAll(recent'[a],
                      IF entries'[a].healthy THEN SuccessThreshold ELSE FailureThreshold,
                      entries'[a].healthy)
<1>1. ASSUME HCInv, HCInv', [HCNext]_allVars
      PROVE  \A a \in Members \cap DOMAIN entries' : flip(a)
  <2> SUFFICES ASSUME NEW a \in Members, a \in DOMAIN entries',
                      entries'[a].healthy # entries[a].healthy
               PROVE  LastAll(recent'[a],
                        IF entries'[a].healthy THEN SuccessThreshold ELSE FailureThreshold,
                        entries'[a].healthy)
    OBVIOUS
  <2>1. a \in Address /\ entries'[a].healthy \in BOOLEAN
    BY <1>1 DEF HCInv, TypeInv, Entry, Members
  <2>2. Record(a)
    <3>1. ~UNCHANGED entries
      OBVIOUS
    <3>2. ASSUME UpdateUnderProbes PROVE FALSE
      <4>1. PICK v \in 1..MaxVersion, weights \in BackendSets : Update(v, weights)
        BY <3>2 DEF UpdateUnderProbes
      <4>2. entries'[a] = NewEntry(a, weights[a])
        BY <4>1 DEF Update
      <4> QED BY <4>2 DEF NewEntry
    <3>3. ~(Tick \/ \E r \in Request : Select(r) \/ Serve(r))
      BY <1>1, HealthKept DEF HCInv
    <3>4. ASSUME NEW b \in Address, b # a, Record(b) PROVE FALSE
      BY <1>1, <3>4, RecordVerdict DEF HCInv
    <3> QED BY <1>1, <3>1, <3>2, <3>3, <3>4
            DEF HCNext, StartWave, Probe, Flap, vars, allVars
  <2>3. \/ entries'[a].healthy /\ streak'[a] = SuccessThreshold
        \/ ~entries'[a].healthy /\ streak'[a] = -FailureThreshold
    BY <1>1, <2>1, <2>2, RecordVerdict DEF HCInv
  <2>4. TRUE # FALSE /\ TracksOf(streak'[a], recent'[a], TRUE, FALSE)
    BY <1>1, <2>1 DEF HCInv, StreakInv, Tracks, TracksOf, RunOf, LastAll
  <2>5. CASE entries'[a].healthy
    <3>1. LastAll(recent'[a], SuccessThreshold, TRUE)
      BY <2>3, <2>4, <2>5, ThresholdMeansRun, Zenon
    <3>2. entries'[a].healthy = TRUE
      BY <2>1, <2>5
    <3> QED BY <3>1, <3>2, Zenon
  <2>6. CASE ~entries'[a].healthy
    <3>1. LastAll(recent'[a], FailureThreshold, FALSE)
      BY <2>3, <2>4, <2>6, ThresholdMeansRun, Zenon
    <3>2. entries'[a].healthy = FALSE
      BY <2>1, <2>6
    <3> QED BY <3>1, <3>2, Zenon
  <2> QED BY <2>5, <2>6
<1> QED BY <1>1, HCInvHolds, PTL DEF HCSpec, Hysteresis

-----------------------------------------------------------------------------
(* The handlers *)

Phases == {"free", "pin", "next", "serve", "retry", "done", "backoff"}

(* The handlers' variables have their types. *)
PXTypeInv ==
  /\ phase \in [Request -> Phases]
  /\ retryable \in [Request -> BOOLEAN]
  /\ cookie \in [Request -> Address \cup {NoAddress}]
  /\ attempt \in [Request -> Nat]
  /\ tried \in [Request -> Seq(Address)]
  /\ sent \in [Request -> Nat]

(* Nothing is sent before the last attempt ends; an attempt counts in      *)
(* tried as soon as it begins and in attempt once it is given up; an       *)
(* attempt is given up only if another is due.                             *)
Handled(r) ==
  /\ sent[r] <= 1
  /\ phase[r] \notin {"free", "done"} => sent[r] = 0
  /\ attempt[r] <= IF retryable[r] THEN MaxRetries ELSE 0
  /\ phase[r] \in {"pin", "next", "backoff"} => Len(tried[r]) = attempt[r]
  /\ phase[r] \in {"serve", "retry", "done"} => Len(tried[r]) = attempt[r] + 1
  /\ phase[r] = "free" => Len(tried[r]) <= attempt[r] + 1
  /\ phase[r] = "retry" => HasRetry(r)

HandlerInv == \A r \in Request : Handled(r)

PXInv == PXTypeInv /\ HandlerInv

-----------------------------------------------------------------------------
(* What a step leaves of the handlers' variables for requests other than   *)
(* r: a step of one request is checked for that request alone.             *)
OthersKept(r) ==
  \A q \in Request \ {r} :
    /\ phase'[q] = phase[q] /\ retryable'[q] = retryable[q]
    /\ attempt'[q] = attempt[q] /\ tried'[q] = tried[q] /\ sent'[q] = sent[q]

LEMMA InitialInv == PXInit => PXInv
BY ProxyAssumption DEF PXInit, PXInv, PXTypeInv, HandlerInv, Handled, Phases, HasRetry

LEMMA HandlersTyped == PXTypeInv /\ [PXNext]_proxyVars => PXTypeInv'
<1> SUFFICES ASSUME PXTypeInv, [PXNext]_proxyVars
             PROVE  PXTypeInv'
  OBVIOUS
<1> USE DEF PXTypeInv, Phases
<1>1. ASSUME NEW r \in Request, Begin(r) PROVE PXTypeInv'
  BY <1>1 DEF Begin
<1>2. ASSUME NEW r \in Request, Pinned(r) PROVE PXTypeInv'
  BY <1>2 DEF Pinned, Attempted
<1>3. ASSUME NEW r \in Request, NotPinned(r) PROVE PXTypeInv'
  BY <1>3 DEF NotPinned
<1>4. ASSUME NEW r \in Request, SelectNext(r) PROVE PXTypeInv'
  <2>1. CASE UNCHANGED pxVars
    BY <2>1 DEF pxVars
  <2>2. CASE /\ phase' = [phase EXCEPT ![r] = "free"]
             /\ sent' = [sent EXCEPT ![r] = @ + 1]
             /\ UNCHANGED <<retryable, cookie, attempt, tried>>
    BY <2>2
  <2>3. ASSUME NEW a \in Address, Attempted(r, a),
               UNCHANGED <<retryable, cookie, attempt, sent>>
        PROVE  PXTypeInv'
    BY <2>3 DEF Attempted
  <2> QED BY <1>4, <2>1, <2>2, <2>3 DEF SelectNext, pxVars
<1>5. ASSUME NEW r \in Request, NEW failed \in BOOLEAN, NEW below500 \in BOOLEAN,
             AttemptEnds(r, failed, below500)
      PROVE  PXTypeInv'
  BY <1>5 DEF AttemptEnds
<1>6. ASSUME NEW r \in Request, AttemptPanics(r) PROVE PXTypeInv'
  BY <1>6 DEF AttemptPanics
<1>7. ASSUME NEW r \in Request, AttemptReleased(r) PROVE PXTypeInv'
  BY <1>7 DEF AttemptReleased
<1>8. ASSUME NEW r \in Request, Retry(r) \/ Abandon(r) PROVE PXTypeInv'
  BY <1>8 DEF Retry, Abandon
<1>9. CASE UNCHANGED pxVars
  BY <1>9 DEF pxVars
<1> QED
  BY <1>1, <1>2, <1>3, <1>4, <1>5, <1>6, <1>7, <1>8, <1>9
     DEF PXNext, RequestStep, proxyVars, pxVars

LEMMA HandlerStep == PXInv /\ [PXNext]_proxyVars => HandlerInv'
<1> SUFFICES ASSUME PXInv, [PXNext]_proxyVars
             PROVE  HandlerInv'
  OBVIOUS
<1>a. PXTypeInv /\ \A r \in Request : Handled(r)
  BY DEF PXInv, HandlerInv
<1>b. ASSUME NEW r \in Request, OthersKept(r), Handled(r)' PROVE HandlerInv'
  BY <1>a, <1>b DEF OthersKept, HandlerInv, Handled, HasRetry
<1> USE DEF PXTypeInv, Phases
<1>1. ASSUME NEW r \in Request, Begin(r) PROVE HandlerInv'
  <2>1. OthersKept(r)
    BY <1>1, <1>a DEF Begin, OthersKept
  <2>2. Handled(r)'
    BY <1>1, <1>a, ProxyAssumption DEF Begin, Handled
  <2> QED BY <1>b, <2>1, <2>2
<1>2. ASSUME NEW r \in Request, NEW a \in Address,
             phase[r] \in {"pin", "next"}, Attempted(r, a),
             UNCHANGED <<retryable, cookie, attempt, sent>>
      PROVE  HandlerInv'
  <2>1. OthersKept(r)
    BY <1>2, <1>a DEF Attempted, OthersKept
  <2>2. Handled(r)'
    BY <1>2, <1>a DEF Attempted, Handled
  <2> QED BY <1>b, <2>1, <2>2
<1>3. ASSUME NEW r \in Request, NotPinned(r) PROVE HandlerInv'
  <2>1. OthersKept(r)
    BY <1>3, <1>a DEF NotPinned, OthersKept
  <2>2. Handled(r)'
    BY <1>3, <1>a DEF NotPinned, Handled
  <2> QED BY <1>b, <2>1, <2>2
<1>4. ASSUME NEW r \in Request, phase[r] = "next",
             phase' = [phase EXCEPT ![r] = "free"],
             sent' = [sent EXCEPT ![r] = @ + 1],
             UNCHANGED <<retryable, cookie, attempt, tried>>
      PROVE  HandlerInv'
  <2>1. OthersKept(r)
    BY <1>4, <1>a DEF OthersKept
  <2>2. Handled(r)'
    BY <1>4, <1>a DEF Handled
  <2> QED BY <1>b, <2>1, <2>2
<1>5. ASSUME NEW r \in Request, NEW failed \in BOOLEAN, NEW below500 \in BOOLEAN,
             AttemptEnds(r, failed, below500)
      PROVE  HandlerInv'
  <2>1. OthersKept(r)
    BY <1>5, <1>a DEF AttemptEnds, OthersKept
  <2>a. /\ sent[r] = 0 /\ Len(tried[r]) = attempt[r] + 1
        /\ attempt[r] <= IF retryable[r] THEN MaxRetries ELSE 0
    BY <1>5, <1>a DEF AttemptEnds, Handled
  <2>b. UNCHANGED <<retryable, attempt, tried>>
    BY <1>5 DEF AttemptEnds
  <2>2. CASE failed /\ HasRetry(r)
    <3>1. phase'[r] = "retry" /\ sent'[r] = sent[r] /\ HasRetry(r)'
      BY <1>5, <1>a, <2>2 DEF AttemptEnds, Responds, HasRetry
    <3>2. Handled(r)'
      BY <2>a, <2>b, <3>1 DEF Handled
    <3> QED BY <1>b, <2>1, <3>2
  <2>3. CASE ~(failed /\ HasRetry(r))
    <3>1. phase'[r] = "done" /\ sent'[r] = sent[r] + 1
      BY <1>5, <1>a, <2>3 DEF AttemptEnds, Responds
    <3>2. Handled(r)'
      BY <2>a, <2>b, <3>1 DEF Handled
    <3> QED BY <1>b, <2>1, <3>2
  <2> QED BY <2>2, <2>3
<1>6. ASSUME NEW r \in Request, AttemptPanics(r) PROVE HandlerInv'
  <2>1. OthersKept(r)
    BY <1>6, <1>a DEF AttemptPanics, OthersKept
  <2>a. /\ sent[r] = 0 /\ Len(tried[r]) = attempt[r] + 1
        /\ attempt[r] <= IF retryable[r] THEN MaxRetries ELSE 0
    BY <1>6, <1>a DEF AttemptPanics, Handled
  <2>b. /\ phase'[r] = "free" /\ sent'[r] \in {0, 1}
        /\ UNCHANGED <<retryable, attempt, tried>>
    BY <1>6, <1>a, <2>a DEF AttemptPanics
  <2>2. Handled(r)'
    BY <2>a, <2>b, <1>a DEF Handled
  <2> QED BY <1>b, <2>1, <2>2
<1>7. ASSUME NEW r \in Request, AttemptReleased(r) PROVE HandlerInv'
  <2>1. OthersKept(r)
    BY <1>7, <1>a DEF AttemptReleased, OthersKept
  <2>2. Handled(r)'
    BY <1>7, <1>a, ProxyAssumption DEF AttemptReleased, Handled, HasRetry
  <2> QED BY <1>b, <2>1, <2>2
<1>8. ASSUME NEW r \in Request, Retry(r) \/ Abandon(r) PROVE HandlerInv'
  <2>1. OthersKept(r)
    BY <1>8, <1>a DEF Retry, Abandon, OthersKept
  <2>2. Handled(r)'
    BY <1>8, <1>a DEF Retry, Abandon, Handled, HasRetry
  <2> QED BY <1>b, <2>1, <2>2
<1>9. CASE UNCHANGED pxVars
  BY <1>9, <1>a DEF pxVars, HandlerInv, Handled, HasRetry
<1>10. ASSUME NEW r \in Request, Pinned(r) PROVE HandlerInv'
  <2>1. cookie[r] \in Address
    BY <1>10, <1>a DEF Pinned
  <2> QED BY <1>2, <1>10, <2>1 DEF Pinned
<1>11. ASSUME NEW r \in Request, SelectNext(r) PROVE HandlerInv'
  <2>1. CASE UNCHANGED pxVars
    BY <1>9, <2>1
  <2>2. CASE /\ phase' = [phase EXCEPT ![r] = "free"]
             /\ sent' = [sent EXCEPT ![r] = @ + 1]
             /\ UNCHANGED <<retryable, cookie, attempt, tried>>
    BY <1>4, <1>11, <2>2 DEF SelectNext
  <2>3. ASSUME NEW a \in Address, Attempted(r, a),
               UNCHANGED <<retryable, cookie, attempt, sent>>
        PROVE  HandlerInv'
    BY <1>2, <1>11, <2>3 DEF SelectNext
  <2> QED BY <1>11, <2>1, <2>2, <2>3 DEF SelectNext, pxVars
<1> QED
  BY <1>1, <1>3, <1>5, <1>6, <1>7, <1>8, <1>9, <1>10, <1>11
     DEF PXNext, RequestStep, proxyVars, pxVars

LEMMA Inductive == PXSpec => []PXInv
<1>1. PXInv /\ [PXNext]_proxyVars => PXInv'
  BY HandlersTyped, HandlerStep DEF PXInv
<1> QED BY InitialInv, <1>1, PTL DEF PXSpec

-----------------------------------------------------------------------------
(* THEOREM: whatever attempts fail, panic or are retried, the client is    *)
(* sent one response at most: the buffered output of serveOnce is          *)
(* discarded whenever another attempt follows.                             *)
THEOREM ClientSeesOneResponse == PXSpec => []OneResponse
<1>1. PXInv => OneResponse
  BY DEF PXInv, HandlerInv, Handled, OneResponse
<1> QED BY Inductive, <1>1, PTL

(* THEOREM: for any MaxRetries, the loop of serveWithRetries sends a       *)
(* request that may not be replayed to one backend at most, and any other  *)
(* to MaxRetries + 1 at most.                                              *)
THEOREM ReplayIsBounded == PXSpec => []BoundedReplay
<1>1. PXInv => BoundedReplay
  <2> SUFFICES ASSUME PXInv, NEW r \in Request
               PROVE  Len(tried[r]) <= IF retryable[r] THEN MaxRetries + 1 ELSE 1
    BY DEF BoundedReplay
  <2>1. Len(tried[r]) <= attempt[r] + 1
    BY DEF PXInv, PXTypeInv, HandlerInv, Handled, Phases
  <2> QED BY <2>1, ProxyAssumption DEF PXInv, PXTypeInv, HandlerInv, Handled
<1> QED BY Inductive, <1>1, PTL

(* THEOREM: every selection, result and release the handlers make is one   *)
(* the backend list allows, in the order it allows.                        *)
THEOREM HandlersImplementList == PXSpec => ProxyImplementsList
<1>1. PXInit => Init
  BY DEF PXInit
<1>2. PXInv /\ [PXNext]_proxyVars => [Next]_vars
  <2> SUFFICES ASSUME PXInv, [PXNext]_proxyVars
               PROVE  [Next]_vars
    OBVIOUS
  <2>1. ASSUME NEW r \in Request,
               Begin(r) \/ NotPinned(r) \/ Retry(r) \/ Abandon(r)
        PROVE  [Next]_vars
    BY <2>1 DEF Begin, NotPinned, Retry, Abandon
  <2>2. ASSUME NEW r \in Request, Pinned(r) PROVE [Next]_vars
    <3>1. cookie[r] \in Address
      BY <2>2 DEF Pinned, PXInv, PXTypeInv
    <3>2. Select(r)
      BY <2>2, <3>1 DEF Pinned, Select
    <3> QED BY <3>2 DEF Next
  <2>3. ASSUME NEW r \in Request, SelectNext(r) PROVE [Next]_vars
    <3>1. Select(r)
      BY <2>3 DEF SelectNext, Select
    <3> QED BY <3>1 DEF Next
  <2>4. ASSUME NEW r \in Request, NEW failed \in BOOLEAN, NEW below500 \in BOOLEAN,
               AttemptEnds(r, failed, below500)
        PROVE  [Next]_vars
    <3>1. (~failed /\ below500) \in BOOLEAN
      OBVIOUS
    <3>2. Serve(r)
      BY <2>4, <3>1 DEF AttemptEnds, Serve
    <3> QED BY <3>2 DEF Next
  <2>5. ASSUME NEW r \in Request, AttemptPanics(r) \/ AttemptReleased(r)
        PROVE  [Next]_vars
    <3>1. Serve(r)
      BY <2>5 DEF AttemptPanics, AttemptReleased, Serve
    <3> QED BY <3>1 DEF Next
  <2>6. CASE \/ \E v \in 1..MaxVersion, weights \in BackendSets : Update(v, weights)
             \/ \E a \in Address, h \in BOOLEAN : SetHealth(a, h)
             \/ Tick
    BY <2>6 DEF Next
  <2>7. CASE UNCHANGED proxyVars
    BY <2>7 DEF proxyVars, vars
  <2> QED BY <2>1, <2>2, <2>3, <2>4, <2>5, <2>6, <2>7 DEF PXNext, RequestStep
<1> QED BY Inductive, <1>1, <1>2, PTL DEF PXSpec, ProxyImplementsList, Spec

=============================================================================
