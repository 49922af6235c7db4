---------------------------- MODULE BackendList ----------------------------
(***************************************************************************)
(* The data plane's per-group backend list                                 *)
(* (internal/dataplane/backends.go): the set of backends last received     *)
(* from the control plane, their active-health verdicts, passive outlier   *)
(* ejection, the weighted slot list that selection draws from, and the     *)
(* in-flight counters, used concurrently by any number of requests.        *)
(*                                                                         *)
(* Grain of atomicity.  Every method that holds b.mu is one step.          *)
(* NextForKey is not one step: it takes b.mu up to three times and         *)
(* increments the chosen entry's counter after the last unlock, so it is   *)
(* CheckExpiry, Rebuild, Snapshot, Pick, with every other step allowed in  *)
(* between.                                                                *)
(*                                                                         *)
(* Abstractions.  Addresses within one set are distinct.  slots counts an  *)
(* address's slots instead of listing them in order; Pick may take any     *)
(* slot of the snapshot, which covers every algorithm (each returns the    *)
(* address of one of the slots it was given).  Update replaces every entry *)
(* object, so the version names the generation of objects a snapshot       *)
(* holds; the algorithm, sticky and rate-limit settings Update stores with *)
(* the version steer no state below and are left to the version.  Time is  *)
(* a counter, and the clock readings under one lock are one reading.       *)
(***************************************************************************)
EXTENDS Integers, FiniteSets, FiniteSetsExt

CONSTANTS
  Address,            \* backend addresses the control plane may name
  Request,            \* concurrent callers (goroutines serving a request)
  NoAddress,          \* a request that has selected nothing
  Weight,             \* weights that may arrive on the wire
  OutlierEnabled,     \* OutlierConfig after withDefaults
  ConsecutiveErrors,
  BaseEjectDuration,
  MaxEjectDuration,
  MaxEjectPercent,
  MaxVersion,         \* bound: versions received
  MaxTime,            \* bound: clock
  MaxErrors           \* bound: consecErrors of one entry

ASSUME ListAssumption ==
  /\ IsFiniteSet(Address) /\ IsFiniteSet(Request)
  /\ NoAddress \notin Address
  /\ Weight \subseteq Int
  /\ OutlierEnabled \in BOOLEAN
  /\ ConsecutiveErrors \in Nat \ {0}
  /\ BaseEjectDuration \in Nat \ {0}
  /\ MaxEjectDuration \in Nat \ {0}
  /\ MaxEjectPercent \in 1..100
  /\ MaxVersion \in Nat /\ MaxTime \in Nat /\ MaxErrors \in Nat

VARIABLES
  entries,            \* address -> entry, for the addresses in the group
  activeConns,        \* address -> in-flight counter of the current entry
  version,            \* version of the set the entries came from, 0: none
  slots,              \* address -> number of selection slots
  nextEjectExpiry,    \* earliest end of an ejection seen by the rebuild, 0: none
  now,                \* wall clock
  pc,                 \* request -> step of select / serve / release
  checkedAt,          \* request -> clock reading of NextForKey's first check
  snap,               \* request -> addresses with a slot in its snapshot
  gen,                \* request -> version its snapshot was taken from
  target              \* request -> address it is being served by

listVars == <<entries, activeConns, version, slots, nextEjectExpiry>>
reqVars  == <<pc, checkedAt, snap, gen, target>>
vars     == <<entries, activeConns, version, slots, nextEjectExpiry, now,
              pc, checkedAt, snap, gen, target>>

Entry == [weight : Nat \ {0}, healthy : BOOLEAN, consecErrors : Nat,
          ejectedUntil : Nat, ejectCount : Nat]

Members == DOMAIN entries

PCs == {"idle", "rebuild", "snapshot", "pick", "inflight", "recorded"}

-----------------------------------------------------------------------------
(* Entries *)

Ejected(e, t) == e.ejectedUntil # 0 /\ t < e.ejectedUntil

Selectable(e, t) == e.healthy /\ ~Ejected(e, t)

EjectedSet(es, t) == {a \in DOMAIN es : Ejected(es[a], t)}

(* Mutant: ejection is not consulted when slots are rebuilt. *)
SlotsIgnoringEjection(es, t) ==
  [a \in DOMAIN es |-> IF es[a].healthy THEN es[a].weight ELSE 0]

(* Mutant: the latest instead of the earliest end of an ejection is cached. *)
LatestExpiryOf(es, t) ==
  IF EjectedSet(es, t) = {} THEN 0
  ELSE Max({es[a].ejectedUntil : a \in EjectedSet(es, t)})

(* rebuildSlotsLocked, as the two values it assigns. *)
SlotsOf(es, t) ==
  [a \in DOMAIN es |-> IF Selectable(es[a], t) THEN es[a].weight ELSE 0]

ExpiryOf(es, t) ==
  IF EjectedSet(es, t) = {} THEN 0
  ELSE Min({es[a].ejectedUntil : a \in EjectedSet(es, t)})

RebuildSlots(es) ==
  /\ slots' = SlotsOf(es, now)
  /\ nextEjectExpiry' = ExpiryOf(es, now)

Lapsed == nextEjectExpiry # 0 /\ now >= nextEjectExpiry

HasSlot(a) == slots[a] > 0

-----------------------------------------------------------------------------
Init ==
  /\ entries = [a \in {} |-> 0]
  /\ activeConns = [a \in {} |-> 0]
  /\ version = 0
  /\ slots = [a \in {} |-> 0]
  /\ nextEjectExpiry = 0
  /\ now = 0
  /\ pc = [r \in Request |-> "idle"]
  /\ checkedAt = [r \in Request |-> 0]
  /\ snap = [r \in Request |-> {}]
  /\ gen = [r \in Request |-> 0]
  /\ target = [r \in Request |-> NoAddress]

(* Mutant: an update forgets the verdict of the health checker. *)
OptimisticEntry(a, w) ==
  [weight |-> IF w <= 0 THEN 1 ELSE w, healthy |-> TRUE,
   consecErrors |-> 0, ejectedUntil |-> 0, ejectCount |-> 0]

(* The entry Update builds: a known address keeps its health and nothing   *)
(* of its outlier state.                                                   *)
NewEntry(a, w) ==
  [weight |-> IF w <= 0 THEN 1 ELSE w,
   healthy |-> IF a \in Members THEN entries[a].healthy ELSE TRUE,
   consecErrors |-> 0, ejectedUntil |-> 0, ejectCount |-> 0]

(* Update: replaces the whole set, unless the version is not newer. *)
Update(v, weights) ==
  /\ v > version \/ version = 0
  /\ entries' = [a \in DOMAIN weights |-> NewEntry(a, weights[a])]
  /\ activeConns' = [a \in DOMAIN weights |->
                       IF a \in Members THEN activeConns[a] ELSE 0]
  /\ version' = v
  /\ RebuildSlots(entries')
  /\ UNCHANGED <<now, reqVars>>

SetHealth(a, h) ==
  /\ a \in Members
  /\ entries[a].healthy # h
  /\ entries' = [entries EXCEPT ![a].healthy = h]
  /\ RebuildSlots(entries')
  /\ UNCHANGED <<activeConns, version, now, reqVars>>

(* Mutant: the ejection being decided is not counted. *)
MayEjectUncounted(es, t) ==
  Cardinality(EjectedSet(es, t)) * 100 <= MaxEjectPercent * Cardinality(DOMAIN es)

(* The safety valve: may one more backend be ejected? *)
MayEject(es, t) ==
  (Cardinality(EjectedSet(es, t)) + 1) * 100
     <= MaxEjectPercent * Cardinality(DOMAIN es)

EjectDuration(count) ==
  IF count * BaseEjectDuration > MaxEjectDuration
  THEN MaxEjectDuration ELSE count * BaseEjectDuration

EjectedEntry(e) ==
  [weight |-> e.weight, healthy |-> e.healthy, consecErrors |-> 0,
   ejectedUntil |-> now + EjectDuration(e.ejectCount + 1),
   ejectCount |-> e.ejectCount + 1]

(* What one failed request does to a known backend. *)
RecordFailure(a) ==
  LET counted == [entries EXCEPT ![a].consecErrors = @ + 1] IN
  /\ entries[a].consecErrors < MaxErrors
  /\ IF /\ counted[a].consecErrors >= ConsecutiveErrors
        /\ ~Ejected(entries[a], now)
        /\ MayEject(entries, now)
     THEN /\ entries' = [entries EXCEPT ![a] = EjectedEntry(entries[a])]
          /\ RebuildSlots(entries')
     ELSE /\ entries' = counted
          /\ UNCHANGED <<slots, nextEjectExpiry>>

RecordSuccess(a) ==
  /\ entries' = [entries EXCEPT ![a].consecErrors = 0]
  /\ UNCHANGED <<slots, nextEjectExpiry>>

(* RecordResult(target, ok), called once while the request is in flight. *)
RecordResult(r, ok) ==
  /\ pc[r] = "inflight"
  /\ IF OutlierEnabled /\ target[r] \in Members
     THEN IF ok THEN RecordSuccess(target[r]) ELSE RecordFailure(target[r])
     ELSE UNCHANGED <<entries, slots, nextEjectExpiry>>
  /\ pc' = [pc EXCEPT ![r] = "recorded"]
  /\ UNCHANGED <<activeConns, version, now, checkedAt, snap, gen, target>>

-----------------------------------------------------------------------------
(* NextForKey, step by step. *)

CheckExpiry(r) ==
  /\ pc[r] = "idle"
  /\ pc' = [pc EXCEPT ![r] = IF Lapsed THEN "rebuild" ELSE "snapshot"]
  /\ checkedAt' = [checkedAt EXCEPT ![r] = now]
  /\ UNCHANGED <<listVars, now, snap, gen, target>>

(* Mutant: the re-check under the write lock is inverted. *)
RebuildIfFresh(r) ==
  /\ pc[r] = "rebuild"
  /\ IF ~Lapsed THEN RebuildSlots(entries)
                ELSE UNCHANGED <<slots, nextEjectExpiry>>
  /\ pc' = [pc EXCEPT ![r] = "snapshot"]
  /\ UNCHANGED <<entries, activeConns, version, now, checkedAt, snap, gen, target>>

Rebuild(r) ==
  /\ pc[r] = "rebuild"
  /\ IF Lapsed THEN RebuildSlots(entries)
               ELSE UNCHANGED <<slots, nextEjectExpiry>>
  /\ pc' = [pc EXCEPT ![r] = "snapshot"]
  /\ UNCHANGED <<entries, activeConns, version, now, checkedAt, snap, gen, target>>

Snapshot(r) ==
  /\ pc[r] = "snapshot"
  /\ LET rotation == {a \in Members : HasSlot(a)} IN
     /\ pc' = [pc EXCEPT ![r] = IF rotation = {} THEN "idle" ELSE "pick"]
     /\ snap' = [snap EXCEPT ![r] = rotation]
     /\ gen' = [gen EXCEPT ![r] = IF rotation = {} THEN 0 ELSE version]
  /\ checkedAt' = [checkedAt EXCEPT ![r] = 0]
  /\ UNCHANGED <<listVars, now, target>>

(* Choose a slot and count the request on that slot's entry object: on the *)
(* live counter only if no Update replaced the objects since the snapshot. *)
Pick(r, a) ==
  /\ pc[r] = "pick"
  /\ a \in snap[r]
  /\ activeConns' = IF gen[r] = version
                    THEN [activeConns EXCEPT ![a] = @ + 1] ELSE activeConns
  /\ pc' = [pc EXCEPT ![r] = "inflight"]
  /\ target' = [target EXCEPT ![r] = a]
  /\ snap' = [snap EXCEPT ![r] = {}]
  /\ gen' = [gen EXCEPT ![r] = 0]
  /\ UNCHANGED <<entries, version, slots, nextEjectExpiry, now, checkedAt>>

(* PinTo: the sticky path; when it refuses, the caller uses NextForKey. *)
PinTo(r, a) ==
  /\ pc[r] = "idle"
  /\ a \in Members
  /\ Selectable(entries[a], now)
  /\ activeConns' = [activeConns EXCEPT ![a] = @ + 1]
  /\ pc' = [pc EXCEPT ![r] = "inflight"]
  /\ target' = [target EXCEPT ![r] = a]
  /\ UNCHANGED <<entries, version, slots, nextEjectExpiry, now,
                 checkedAt, snap, gen>>

(* Mutant: only a backend that is in rotation is released. *)
ReleaseInRotation(r) ==
  /\ pc[r] \in {"inflight", "recorded"}
  /\ activeConns' =
       IF target[r] \in Members /\ HasSlot(target[r]) /\ activeConns[target[r]] > 0
       THEN [activeConns EXCEPT ![target[r]] = @ - 1] ELSE activeConns
  /\ pc' = [pc EXCEPT ![r] = "idle"]
  /\ target' = [target EXCEPT ![r] = NoAddress]
  /\ UNCHANGED <<entries, version, slots, nextEjectExpiry, now,
                 checkedAt, snap, gen>>

(* Release, deferred by the caller: it also runs when the request panics   *)
(* before RecordResult.                                                    *)
Release(r) ==
  /\ pc[r] \in {"inflight", "recorded"}
  /\ activeConns' =
       IF target[r] \in Members /\ activeConns[target[r]] > 0
       THEN [activeConns EXCEPT ![target[r]] = @ - 1] ELSE activeConns
  /\ pc' = [pc EXCEPT ![r] = "idle"]
  /\ target' = [target EXCEPT ![r] = NoAddress]
  /\ UNCHANGED <<entries, version, slots, nextEjectExpiry, now,
                 checkedAt, snap, gen>>

(* The wall clock. *)
Tick ==
  /\ now < MaxTime
  /\ now' = now + 1
  /\ UNCHANGED <<listVars, reqVars>>

BackendSets == UNION {[S -> Weight] : S \in SUBSET Address}

Select(r) ==
  \/ CheckExpiry(r)
  \/ Rebuild(r)
  \/ Snapshot(r)
  \/ \E a \in Address : Pick(r, a) \/ PinTo(r, a)

Serve(r) == (\E ok \in BOOLEAN : RecordResult(r, ok)) \/ Release(r)

Next ==
  \/ \E v \in 1..MaxVersion, weights \in BackendSets : Update(v, weights)
  \/ \E a \in Address, h \in BOOLEAN : SetHealth(a, h)
  \/ \E r \in Request : Select(r) \/ Serve(r)
  \/ Tick

Spec == Init /\ [][Next]_vars

-----------------------------------------------------------------------------
(* Properties *)

InFlight(a) == {r \in Request : pc[r] \in {"inflight", "recorded"} /\ target[r] = a}

(* Every variable has its type, the per-address maps cover exactly the     *)
(* members, and a request's registers hold a value only in the steps of    *)
(* NextForKey that use them.                                               *)
TypeInv ==
  /\ Members \subseteq Address
  /\ entries \in [Members -> Entry]
  /\ activeConns \in [Members -> Nat]
  /\ slots \in [Members -> Nat]
  /\ version \in Nat /\ nextEjectExpiry \in Nat /\ now \in Nat
  /\ pc \in [Request -> PCs]
  /\ checkedAt \in [Request -> Nat]
  /\ snap \in [Request -> SUBSET Address]
  /\ gen \in [Request -> Nat]
  /\ target \in [Request -> Address \cup {NoAddress}]

(* The slot list never holds an unhealthy or ejected backend, and a        *)
(* backend that could be selected but has no slot is waiting on an         *)
(* ejection window that has lapsed and that the next NextForKey will see:  *)
(* nextEjectExpiry, cached by rebuildSlotsLocked, is never late.           *)
RotationSound ==
  \A a \in Members :
    /\ HasSlot(a) => Selectable(entries[a], now)
    /\ Selectable(entries[a], now) /\ ~HasSlot(a) => Lapsed

(* "The moment an ejection window lapses, the next backend selection       *)
(* returns that backend to rotation" (README, outlier detection): when a   *)
(* request takes its snapshot, every healthy member whose window had       *)
(* lapsed when that request entered NextForKey has a slot, whatever other  *)
(* requests, updates and health verdicts came in between.                  *)
SelectionReadmits ==
  \A r \in Request : pc[r] = "snapshot" =>
    \A a \in Members : Selectable(entries[a], checkedAt[r]) => HasSlot(a)

(* Passive detection never ejects more than MaxEjectPercent of the group   *)
(* at once, also when updates shrink the group under ejected backends.     *)
SafetyValve ==
  Cardinality(EjectedSet(entries, now)) * 100
     <= MaxEjectPercent * Cardinality(Members)

(* The in-flight counter never claims more load than there are requests in *)
(* flight to that address: no interleaving of selections, releases and     *)
(* updates leaves a backend looking busy after its requests have finished. *)
NoPhantomLoad ==
  \A a \in Members : activeConns[a] <= Cardinality(InFlight(a))

(* While the set is not replaced, nothing gives an ejected backend a slot  *)
(* before its window is over: not a health verdict, not a late success,    *)
(* not another backend's ejection or re-admission.                         *)
EjectionServed ==
  [][version' = version =>
       \A a \in Members : Ejected(entries[a], now') => slots'[a] = 0]_vars

=============================================================================
