--------------------------- MODULE HealthChecker ---------------------------
(***************************************************************************)
(* The active health checker of one group                                  *)
(* (internal/dataplane/healthcheck.go) running against the backend list:   *)
(* waves of concurrent probes, a streak per address, and a verdict pushed  *)
(* into the list when a streak reaches its threshold.                      *)
(*                                                                         *)
(* A probe's outcome and its recording are separate steps, so the list can *)
(* change under a probe in flight.  The streak saturates at its threshold: *)
(* the code only ever compares it with the threshold.  up, recent and      *)
(* probesSinceJoin are not program state: up is the backend's real         *)
(* condition, the other two are history for the properties.                *)
(***************************************************************************)
EXTENDS BackendList, Sequences

CONSTANTS
  FailureThreshold,
  SuccessThreshold

ASSUME ThresholdAssumption ==
  /\ FailureThreshold \in Nat \ {0}
  /\ SuccessThreshold \in Nat \ {0}

VARIABLES
  streak,           \* address -> signed run of equal results, survives removal
  probe,            \* address -> state of its probe in the current wave
  up,               \* environment: does the address answer probes now?
  recent,           \* history: address -> last results recorded
  probesSinceJoin   \* history: was a result recorded since it joined the set?

hcVars == <<streak, probe, up, recent, probesSinceJoin>>
allVars == <<entries, activeConns, version, slots, nextEjectExpiry, now,
             pc, checkedAt, snap, gen, target,
             streak, probe, up, recent, probesSinceJoin>>

Window == Max({FailureThreshold, SuccessThreshold})

HCInit ==
  /\ Init
  /\ streak = [a \in Address |-> 0]
  /\ probe = [a \in Address |-> "none"]
  /\ up \in [Address -> BOOLEAN]
  /\ recent = [a \in Address |-> <<>>]
  /\ probesSinceJoin = [a \in Address |-> FALSE]

-----------------------------------------------------------------------------
(* Mutant: only members that are marked healthy are probed. *)
StartWaveHealthyOnly ==
  /\ \A a \in Address : probe[a] = "none"
  /\ Members # {}
  /\ probe' = [a \in Address |-> IF a \in Members /\ entries[a].healthy
                                 THEN "pending" ELSE "none"]
  /\ UNCHANGED <<vars, streak, up, recent, probesSinceJoin>>

(* checkAll: start a wave when the previous one has been waited for. *)
StartWave ==
  /\ \A a \in Address : probe[a] = "none"
  /\ Members # {}
  /\ probe' = [a \in Address |-> IF a \in Members THEN "pending" ELSE "none"]
  /\ UNCHANGED <<vars, streak, up, recent, probesSinceJoin>>

(* probeTCP / probeHTTP: the outcome is what the backend does right now. *)
Probe(a) ==
  /\ probe[a] = "pending"
  /\ probe' = [probe EXCEPT ![a] = IF up[a] THEN "ok" ELSE "failed"]
  /\ UNCHANGED <<vars, streak, up, recent, probesSinceJoin>>

(* Mutant: a result of the other kind does not restart the run. *)
NextStreakNoReset(s, ok) ==
  IF ok THEN Min({SuccessThreshold, s + 1}) ELSE Max({-FailureThreshold, s - 1})

NextStreak(s, ok) ==
  IF ok THEN Min({SuccessThreshold, (IF s < 0 THEN 0 ELSE s) + 1})
        ELSE Max({-FailureThreshold, (IF s > 0 THEN 0 ELSE s) - 1})

(* Mutant: the verdict is written past SetHealth and its rebuild. *)
MarkHealthyNoRebuild(a, h) ==
  IF a \in Members /\ entries[a].healthy # h
  THEN /\ entries' = [entries EXCEPT ![a].healthy = h]
       /\ UNCHANGED <<activeConns, version, slots, nextEjectExpiry, now, reqVars>>
  ELSE UNCHANGED vars

(* markHealthy -> BackendList.SetHealth, which ignores an address that has *)
(* left the set and a verdict that is not news.                            *)
MarkHealthy(a, h) ==
  IF a \in Members /\ entries[a].healthy # h
  THEN SetHealth(a, h) ELSE UNCHANGED vars

(* recordResult: one step, it holds h.mu across SetHealth. *)
Record(a) ==
  LET ok == probe[a] = "ok"
      s  == NextStreak(streak[a], ok)
  IN
  /\ probe[a] \in {"ok", "failed"}
  /\ streak' = [streak EXCEPT ![a] = s]
  /\ IF (ok /\ s >= SuccessThreshold) \/ (~ok /\ -s >= FailureThreshold)
     THEN MarkHealthy(a, ok) ELSE UNCHANGED vars
  /\ probe' = [probe EXCEPT ![a] = "none"]
  /\ recent' = [recent EXCEPT ![a] =
                  IF Len(@) = Window THEN Append(Tail(@), ok) ELSE Append(@, ok)]
  /\ probesSinceJoin' = [probesSinceJoin EXCEPT ![a] = a \in Members]
  /\ UNCHANGED up

(* The backend process dies or comes back. *)
Flap(a) ==
  /\ up' = [up EXCEPT ![a] = ~@]
  /\ UNCHANGED <<vars, streak, probe, recent, probesSinceJoin>>

(* A control-plane update, with the history of membership. *)
UpdateUnderProbes ==
  /\ \E v \in 1..MaxVersion, weights \in BackendSets : Update(v, weights)
  /\ probesSinceJoin' = [a \in Address |-> probesSinceJoin[a] /\ a \in Members /\ a \in Members']
  /\ UNCHANGED <<streak, probe, up, recent>>

HCNext ==
  \/ UpdateUnderProbes
  \/ (\E r \in Request : Select(r) \/ Serve(r)) /\ UNCHANGED hcVars
  \/ Tick /\ UNCHANGED hcVars
  \/ StartWave
  \/ \E a \in Address : Probe(a) \/ Record(a) \/ Flap(a)

HCSpec == HCInit /\ [][HCNext]_allVars

(* The ticker keeps firing and a probe ends within its timeout, so the     *)
(* checker's own steps are weakly fair; nothing else is.                   *)
HCFairSpec ==
  /\ HCSpec
  /\ WF_allVars(StartWave)
  /\ \A a \in Address : WF_allVars(Probe(a)) /\ WF_allVars(Record(a))

-----------------------------------------------------------------------------
(* Properties *)

(* The last n results of s are all ok. *)
LastAll(s, n, ok) ==
  Len(s) >= n /\ \A i \in (Len(s) - n + 1)..Len(s) : s[i] = ok

(* Hysteresis: a member's verdict changes only right after the configured  *)
(* number of consecutive results of the new kind (three failures, two      *)
(* successes by default); no update, selection or probe of another backend *)
(* flips it.                                                               *)
Hysteresis ==
  [][\A a \in Members \cap DOMAIN entries' :
       entries'[a].healthy # entries[a].healthy =>
         LastAll(recent'[a],
                 IF entries'[a].healthy THEN SuccessThreshold ELSE FailureThreshold,
                 entries'[a].healthy)]_allVars

(* The verdict held for a member is never behind its probes: once a result *)
(* has been recorded since it joined, a full run of failures means it is   *)
(* marked unhealthy and a full run of successes that it is marked healthy, *)
(* although the streak outlives removal and an address re-joins healthy.   *)
VerdictCurrent ==
  \A a \in Members : probesSinceJoin[a] =>
    /\ LastAll(recent[a], FailureThreshold, FALSE) => ~entries[a].healthy
    /\ LastAll(recent[a], SuccessThreshold, TRUE) => entries[a].healthy

(* The list driven by the checker is the list of BackendList: every        *)
(* verdict it pushes is a SetHealth step with its slot rebuild.            *)
ImplementsBackendList == Spec

(* A backend that stays in the set and stays dead eventually leaves the    *)
(* rotation for good.                                                      *)
DeadLeavesRotation ==
  \A a \in Address :
    <>[](a \in Members /\ ~up[a]) => <>[](a \in Members /\ ~HasSlot(a))

(* A backend that stays in the set and stays alive is eventually marked    *)
(* healthy for good.                                                       *)
RecoveredReturns ==
  \A a \in Address :
    <>[](a \in Members /\ up[a]) => <>[](a \in Members /\ entries[a].healthy)

(* Probing decides in both directions: of the backends that stay in the    *)
(* set, the dead leave the rotation and the live are marked healthy, in    *)
(* spite of updates and of verdicts still in flight.                       *)
ProbesDecide == DeadLeavesRotation /\ RecoveredReturns

=============================================================================
