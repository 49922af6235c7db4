------------------------- MODULE BackendListProofs -------------------------
(***************************************************************************)
(* Proofs about BackendList, for any set of addresses, any number of       *)
(* requests and any outlier configuration that withDefaults can produce.   *)
(*                                                                         *)
(* RotationSound and SelectionReadmits are not inductive.  SlotInv says    *)
(* more of a healthy backend without a slot: it has been ejected, and the  *)
(* cached nextEjectExpiry is set and not later than its window.  That is   *)
(* what makes the cached expiry a sound trigger for the lazy rebuild.      *)
(***************************************************************************)
EXTENDS BackendList, FiniteSetTheorems, WellFoundedInduction, TLAPS

USE ZenonT(10), SMTT(30)

(* A healthy backend without a slot is waiting on an expiry that the cache *)
(* will announce no later than its own window ends.                        *)
SlotInv ==
  \A a \in Members :
    /\ HasSlot(a) => Selectable(entries[a], now)
    /\ entries[a].healthy /\ ~HasSlot(a) =>
         /\ entries[a].ejectedUntil # 0
         /\ nextEjectExpiry # 0
         /\ nextEjectExpiry <= entries[a].ejectedUntil

(* NextForKey's first clock reading is in the past. *)
ClockInv == \A r \in Request : checkedAt[r] <= now

(* The inductive invariant of slot maintenance. *)
SlotIInv == TypeInv /\ SlotInv /\ ClockInv /\ SelectionReadmits

-----------------------------------------------------------------------------
(* A non-empty set of naturals has a least element and Min is it. *)
LEMMA MinOfNaturals ==
  ASSUME NEW S \in SUBSET Nat, S # {}
  PROVE  Min(S) \in S /\ \A y \in S : Min(S) <= y
<1> DEFINE R == OpToRel(<, Nat)
<1>1. IsWellFoundedOn(R, Nat)
  BY NatLessThanWellFounded
<1>2. PICK x \in S : \A y \in S : ~(<<y, x>> \in R)
  <2> HIDE DEF R
  <2> QED BY <1>1, WFMin
<1>3. \A y \in S : x <= y
  <2>1. \A m, n \in Nat : m < n => <<m, n>> \in R
    BY DEF OpToRel
  <2>2. TAKE y \in S
  <2>3. x \in Nat /\ y \in Nat
    OBVIOUS
  <2>4. ~(y < x)
    <3> HIDE DEF R
    <3> QED BY <1>2, <2>1, <2>3, Zenon
  <2> QED BY <2>3, <2>4
<1>4. \E z \in S : \A y \in S : z <= y
  BY <1>3
<1> QED BY <1>4 DEF Min

(* An ejection window that is over stays over. *)
LEMMA EjectedMonotone ==
  ASSUME NEW e \in Entry, NEW s \in Nat, NEW t \in Nat, s <= t, Ejected(e, t)
  PROVE  Ejected(e, s)
BY DEF Entry, Ejected

(* What one rebuild at time t establishes. *)
LEMMA RebuildFacts ==
  ASSUME NEW M, NEW es \in [M -> Entry], NEW t \in Nat
  PROVE  /\ SlotsOf(es, t) \in [M -> Nat]
         /\ ExpiryOf(es, t) \in Nat
         /\ \A a \in M : SlotsOf(es, t)[a] > 0 <=> Selectable(es[a], t)
         /\ \A a \in M : Ejected(es[a], t) =>
              /\ ExpiryOf(es, t) # 0
              /\ ExpiryOf(es, t) <= es[a].ejectedUntil
<1>1. DOMAIN es = M
  OBVIOUS
<1>2. /\ SlotsOf(es, t) \in [M -> Nat]
      /\ \A a \in M : SlotsOf(es, t)[a] > 0 <=> Selectable(es[a], t)
  BY <1>1 DEF SlotsOf, Entry
<1>3. CASE EjectedSet(es, t) = {}
  BY <1>1, <1>2, <1>3 DEF ExpiryOf, EjectedSet
<1>4. CASE EjectedSet(es, t) # {}
  <2> DEFINE S == {es[a].ejectedUntil : a \in EjectedSet(es, t)}
  <2>1. S \in SUBSET Nat /\ S # {} /\ 0 \notin S
    <3>1. \A a \in EjectedSet(es, t) : es[a].ejectedUntil \in Nat \ {0}
      BY <1>1 DEF EjectedSet, Ejected, Entry
    <3>2. S # {}
      BY <1>4
    <3> QED BY <3>1, <3>2
  <2>2. Min(S) \in S /\ \A y \in S : Min(S) <= y
    <3> HIDE DEF S
    <3> QED BY <2>1, MinOfNaturals
  <2>3. ExpiryOf(es, t) = Min(S)
    BY <1>4 DEF ExpiryOf
  <2>4. \A a \in M : Ejected(es[a], t) => es[a].ejectedUntil \in S
    BY <1>1 DEF EjectedSet
  <2> HIDE DEF S
  <2> QED BY <1>2, <2>1, <2>2, <2>3, <2>4
<1> QED BY <1>3, <1>4

(* Rotation and the cached expiry agree after a rebuild. *)
LEMMA SlotInvImplies ==
  ASSUME TypeInv, SlotInv
  PROVE  RotationSound
BY DEF TypeInv, SlotInv, RotationSound, Lapsed, Selectable, Ejected, Entry

-----------------------------------------------------------------------------
(* Types *)

(* The entries Update builds are well formed, whatever weights arrive. *)
LEMMA NewEntryType ==
  ASSUME TypeInv, NEW a, NEW w \in Int
  PROVE  NewEntry(a, w) \in Entry
<1> DEFINE ww == IF w <= 0 THEN 1 ELSE w
           hh == IF a \in Members THEN entries[a].healthy ELSE TRUE
<1>1. ww \in Nat \ {0}
  OBVIOUS
<1>2. hh \in BOOLEAN
  BY DEF TypeInv, Entry
<1>3. NewEntry(a, w) = [weight |-> ww, healthy |-> hh, consecErrors |-> 0,
                        ejectedUntil |-> 0, ejectCount |-> 0]
  BY DEF NewEntry
<1> HIDE DEF ww, hh
<1> QED BY <1>1, <1>2, <1>3 DEF Entry

(* An ejection yields a well-formed entry. *)
LEMMA EjectedEntryType ==
  ASSUME TypeInv, NEW e \in Entry
  PROVE  EjectedEntry(e) \in Entry /\ Ejected(EjectedEntry(e), now)
<1> DEFINE n == e.ejectCount + 1
<1>1. n \in Nat /\ n > 0 /\ now \in Nat
  BY DEF Entry, TypeInv
<1>2. EjectDuration(n) \in Nat /\ EjectDuration(n) > 0
  <2>1. n * BaseEjectDuration \in Nat /\ n * BaseEjectDuration > 0
    BY <1>1, ListAssumption, SMT DEF ListAssumption
  <2> QED BY <2>1, ListAssumption DEF EjectDuration, ListAssumption
<1>3. now + EjectDuration(n) \in Nat /\ now + EjectDuration(n) > now
  BY <1>1, <1>2
<1> HIDE DEF n
<1>4. EjectedEntry(e) = [weight |-> e.weight, healthy |-> e.healthy,
                         consecErrors |-> 0,
                         ejectedUntil |-> now + EjectDuration(n),
                         ejectCount |-> n]
  BY DEF EjectedEntry, n
<1>5. e.weight \in Nat \ {0} /\ e.healthy \in BOOLEAN
  BY DEF Entry
<1>6. EjectedEntry(e) \in Entry
  BY <1>1, <1>3, <1>4, <1>5 DEF Entry
<1>7. EjectedEntry(e).ejectedUntil = now + EjectDuration(n)
  BY <1>4
<1> QED BY <1>1, <1>3, <1>6, <1>7 DEF Ejected

(* One failed request leaves well-formed entries for the same addresses.   *)
(* Either the rotation is rebuilt after an ejection the safety valve       *)
(* allowed, or only the error streak moved.                                *)
LEMMA RecordFailureCases ==
  ASSUME TypeInv, NEW a \in Members, RecordFailure(a)
  PROVE  /\ entries' \in [Members -> Entry]
         /\ \A b \in Members : entries'[b].healthy = entries[b].healthy
         /\ \/ /\ RebuildSlots(entries')
               /\ MayEject(entries, now)
               /\ Ejected(entries'[a], now)
               /\ \A b \in Members : b # a => entries'[b] = entries[b]
            \/ /\ UNCHANGED <<slots, nextEjectExpiry>>
               /\ \A b \in Members :
                    entries'[b].ejectedUntil = entries[b].ejectedUntil
<1>1. entries \in [Members -> Entry] /\ entries[a] \in Entry
  BY DEF TypeInv
<1>2. CASE /\ MayEject(entries, now)
           /\ entries' = [entries EXCEPT ![a] = EjectedEntry(entries[a])]
           /\ RebuildSlots(entries')
  <2>1. EjectedEntry(entries[a]) \in Entry /\ Ejected(EjectedEntry(entries[a]), now)
    BY <1>1, EjectedEntryType
  <2>2. EjectedEntry(entries[a]).healthy = entries[a].healthy
    BY DEF EjectedEntry
  <2> QED BY <1>1, <1>2, <2>1, <2>2
<1>3. CASE /\ entries' = [entries EXCEPT ![a].consecErrors = @ + 1]
           /\ UNCHANGED <<slots, nextEjectExpiry>>
  BY <1>1, <1>3 DEF Entry
<1> QED BY <1>2, <1>3 DEF RecordFailure

(* Every step of the list, of a request and of the clock keeps the types. *)
LEMMA TypeStep == TypeInv /\ [Next]_vars => TypeInv'
<1> SUFFICES ASSUME TypeInv, [Next]_vars
             PROVE  TypeInv'
  OBVIOUS
<1> USE ListAssumption DEF ListAssumption
<1>1. ASSUME NEW v \in 1..MaxVersion, NEW weights \in BackendSets, Update(v, weights)
      PROVE  TypeInv'
  <2>1. /\ DOMAIN weights \subseteq Address
        /\ \A a \in DOMAIN weights : weights[a] \in Int
    <3>1. PICK S \in SUBSET Address : weights \in [S -> Weight]
      BY DEF BackendSets
    <3> QED BY <3>1
  <2>2. entries' \in [DOMAIN weights -> Entry] /\ DOMAIN entries' = DOMAIN weights
    BY <1>1, <2>1, NewEntryType DEF Update
  <2>3. activeConns' \in [DOMAIN weights -> Nat]
    BY <1>1 DEF Update, TypeInv
  <2>4. slots' \in [DOMAIN weights -> Nat] /\ nextEjectExpiry' \in Nat
    BY <1>1, <2>2, RebuildFacts DEF Update, RebuildSlots, TypeInv
  <2> QED BY <1>1, <2>1, <2>2, <2>3, <2>4 DEF Update, TypeInv, Members, reqVars
<1>2. ASSUME NEW a \in Address, NEW h \in BOOLEAN, SetHealth(a, h)
      PROVE  TypeInv'
  <2>1. entries' \in [Members -> Entry] /\ DOMAIN entries' = Members
    BY <1>2 DEF SetHealth, TypeInv, Entry
  <2>2. slots' \in [Members -> Nat] /\ nextEjectExpiry' \in Nat
    BY <1>2, <2>1, RebuildFacts DEF SetHealth, RebuildSlots, TypeInv
  <2> QED BY <1>2, <2>1, <2>2 DEF SetHealth, TypeInv, Members, reqVars
<1>3. ASSUME NEW r \in Request, CheckExpiry(r)
      PROVE  TypeInv'
  BY <1>3 DEF CheckExpiry, TypeInv, listVars, PCs, Members
<1>4. ASSUME NEW r \in Request, Rebuild(r)
      PROVE  TypeInv'
  <2>1. slots' \in [Members -> Nat] /\ nextEjectExpiry' \in Nat
    BY <1>4, RebuildFacts DEF Rebuild, RebuildSlots, TypeInv
  <2> QED BY <1>4, <2>1 DEF Rebuild, TypeInv, PCs, Members
<1>5. ASSUME NEW r \in Request, Snapshot(r)
      PROVE  TypeInv'
  <2>1. {a \in Members : HasSlot(a)} \in SUBSET Address
    BY DEF TypeInv
  <2> QED BY <1>5, <2>1 DEF Snapshot, TypeInv, listVars, PCs, Members
<1>6. ASSUME NEW r \in Request, NEW a \in Address, Pick(r, a)
      PROVE  TypeInv'
  <2>1. activeConns' \in [Members -> Nat]
    <3>1. activeConns \in [Members -> Nat]
      BY DEF TypeInv
    <3>2. a \in Members => activeConns[a] + 1 \in Nat
      BY <3>1
    <3>3. [activeConns EXCEPT ![a] = @ + 1] \in [Members -> Nat]
      BY <3>1, <3>2
    <3> QED BY <1>6, <3>1, <3>3 DEF Pick
  <2> QED BY <1>6, <2>1 DEF Pick, TypeInv, PCs, Members
<1>7. ASSUME NEW r \in Request, NEW a \in Address, PinTo(r, a)
      PROVE  TypeInv'
  BY <1>7 DEF PinTo, TypeInv, PCs, Members
<1>8. ASSUME NEW r \in Request, NEW ok \in BOOLEAN, RecordResult(r, ok)
      PROVE  TypeInv'
  <2>1. /\ entries' \in [Members -> Entry] /\ DOMAIN entries' = Members
        /\ slots' \in [Members -> Nat] /\ nextEjectExpiry' \in Nat
    <3>1. CASE UNCHANGED <<entries, slots, nextEjectExpiry>>
      BY <3>1 DEF TypeInv, Members
    <3>2. CASE target[r] \in Members /\ RecordSuccess(target[r])
      BY <3>2 DEF RecordSuccess, TypeInv, Entry
    <3>3. CASE target[r] \in Members /\ RecordFailure(target[r])
      <4>1. entries' \in [Members -> Entry]
        BY <3>3, RecordFailureCases
      <4>2. RebuildSlots(entries') \/ UNCHANGED <<slots, nextEjectExpiry>>
        BY <3>3, RecordFailureCases
      <4>3. CASE RebuildSlots(entries')
        <5>1. SlotsOf(entries', now) \in [Members -> Nat] /\ ExpiryOf(entries', now) \in Nat
          BY <4>1, RebuildFacts DEF TypeInv
        <5> QED BY <4>1, <4>3, <5>1 DEF RebuildSlots
      <4>4. CASE UNCHANGED <<slots, nextEjectExpiry>>
        BY <4>1, <4>4 DEF TypeInv
      <4> QED BY <4>2, <4>3, <4>4
    <3> QED BY <1>8, <3>1, <3>2, <3>3 DEF RecordResult
  <2> QED BY <1>8, <2>1 DEF RecordResult, TypeInv, PCs, Members
<1>9. ASSUME NEW r \in Request, Release(r)
      PROVE  TypeInv'
  <2>1. activeConns' \in [Members -> Nat]
    BY <1>9 DEF Release, TypeInv
  <2> QED BY <1>9, <2>1 DEF Release, TypeInv, PCs, Members
<1>10. CASE Tick
  BY <1>10 DEF Tick, TypeInv, listVars, reqVars, Members
<1>11. CASE UNCHANGED vars
  BY <1>11 DEF TypeInv, vars, Members
<1> QED BY <1>1, <1>2, <1>3, <1>4, <1>5, <1>6, <1>7, <1>8, <1>9, <1>10, <1>11
        DEF Next, Select, Serve

(* THEOREM: every reachable state of the list and its requests is well     *)
(* typed, and the per-address maps cover exactly the members.              *)
THEOREM TypeCorrect == Spec => []TypeInv
<1>1. Init => TypeInv
  BY DEF Init, TypeInv, Members, PCs, Entry
<1> QED BY <1>1, TypeStep, PTL DEF Spec

-----------------------------------------------------------------------------
(* The rotation *)

(* A rebuild re-establishes everything that is said of the slots, for      *)
(* every request that is about to take its snapshot.                       *)
LEMMA RebuildEstablishes ==
  ASSUME TypeInv', now' = now, now \in Nat, ClockInv', RebuildSlots(entries')
  PROVE  SlotInv' /\ SelectionReadmits'
<1>1. entries' \in [DOMAIN entries' -> Entry]
  BY DEF TypeInv, Members
<1>2. /\ \A a \in DOMAIN entries' : slots'[a] > 0 <=> Selectable(entries'[a], now)
      /\ \A a \in DOMAIN entries' : Ejected(entries'[a], now) =>
           /\ nextEjectExpiry' # 0
           /\ nextEjectExpiry' <= entries'[a].ejectedUntil
  BY <1>1, RebuildFacts DEF RebuildSlots
<1>3. SlotInv'
  BY <1>2 DEF SlotInv, HasSlot, Members, Selectable, Ejected
<1>4. SelectionReadmits'
  <2> SUFFICES ASSUME NEW r \in Request, NEW a \in DOMAIN entries',
                      Selectable(entries'[a], checkedAt'[r])
               PROVE  slots'[a] > 0
    BY DEF SelectionReadmits, HasSlot, Members
  <2>1. checkedAt'[r] \in Nat /\ checkedAt'[r] <= now /\ entries'[a] \in Entry
    BY <1>1 DEF ClockInv, TypeInv
  <2>2. Selectable(entries'[a], now)
    BY <2>1, EjectedMonotone DEF Selectable
  <2> QED BY <1>2, <2>2
<1> QED BY <1>3, <1>4

(* A step that leaves the slots, the cached expiry, and every health and   *)
(* ejection window alone keeps what is said of the slots.                  *)
LEMMA SlotsUntouched ==
  ASSUME TypeInv, TypeInv', SlotInv, now <= now', DOMAIN entries' = Members,
         UNCHANGED <<slots, nextEjectExpiry>>,
         \A a \in Members : /\ entries'[a].healthy = entries[a].healthy
                            /\ entries'[a].ejectedUntil = entries[a].ejectedUntil
  PROVE  SlotInv'
<1> SUFFICES ASSUME NEW a \in Members
             PROVE  /\ slots[a] > 0 => Selectable(entries'[a], now')
                    /\ entries'[a].healthy /\ ~(slots[a] > 0) =>
                         /\ entries'[a].ejectedUntil # 0
                         /\ nextEjectExpiry # 0
                         /\ nextEjectExpiry <= entries'[a].ejectedUntil
  BY DEF SlotInv, HasSlot, Members
<1>1. /\ slots[a] > 0 => Selectable(entries[a], now)
      /\ entries[a].healthy /\ ~(slots[a] > 0) =>
           /\ entries[a].ejectedUntil # 0
           /\ nextEjectExpiry # 0
           /\ nextEjectExpiry <= entries[a].ejectedUntil
  BY DEF SlotInv, HasSlot
<1>2. now \in Nat /\ now' \in Nat /\ entries[a] \in Entry
  BY DEF TypeInv
<1>3. Selectable(entries[a], now) => Selectable(entries'[a], now')
  BY <1>2 DEF Selectable, Ejected, Entry
<1> QED BY <1>1, <1>3

(* The same for the readmission promise, for requests that were already    *)
(* waiting for their snapshot.                                             *)
LEMMA ReadmitsUntouched ==
  ASSUME SelectionReadmits, DOMAIN entries' = Members, UNCHANGED slots,
         \A a \in Members : /\ entries'[a].healthy = entries[a].healthy
                            /\ entries'[a].ejectedUntil = entries[a].ejectedUntil,
         \A r \in Request : pc'[r] = "snapshot" =>
                              pc[r] = "snapshot" /\ checkedAt'[r] = checkedAt[r]
  PROVE  SelectionReadmits'
BY DEF SelectionReadmits, Selectable, Ejected, HasSlot, Members

(* Every step keeps the inductive invariant of slot maintenance. *)
LEMMA SlotStep == SlotIInv /\ [Next]_vars => SlotIInv'
<1> SUFFICES ASSUME SlotIInv, [Next]_vars
             PROVE  SlotIInv'
  OBVIOUS
<1>0. TypeInv /\ SlotInv /\ ClockInv /\ SelectionReadmits
  BY DEF SlotIInv
<1>T. TypeInv'
  BY <1>0, TypeStep
<1>R. RotationSound
  BY <1>0, SlotInvImplies
<1>N. now \in Nat /\ \A r \in Request : checkedAt[r] \in Nat
  BY <1>0 DEF TypeInv
<1>1. ASSUME NEW v \in 1..MaxVersion, NEW weights \in BackendSets, Update(v, weights)
      PROVE  SlotIInv'
  <2>1. ClockInv' /\ now' = now /\ RebuildSlots(entries')
    BY <1>0, <1>1 DEF Update, ClockInv, reqVars
  <2> QED BY <1>T, <1>N, <2>1, RebuildEstablishes DEF SlotIInv
<1>2. ASSUME NEW a \in Address, NEW h \in BOOLEAN, SetHealth(a, h)
      PROVE  SlotIInv'
  <2>1. ClockInv' /\ now' = now /\ RebuildSlots(entries')
    BY <1>0, <1>2 DEF SetHealth, ClockInv, reqVars
  <2> QED BY <1>T, <1>N, <2>1, RebuildEstablishes DEF SlotIInv
<1>3. ASSUME NEW r \in Request, CheckExpiry(r)
      PROVE  SlotIInv'
  <2>1. /\ UNCHANGED <<entries, slots, nextEjectExpiry, now>>
        /\ checkedAt' = [checkedAt EXCEPT ![r] = now]
        /\ pc' = [pc EXCEPT ![r] = IF Lapsed THEN "rebuild" ELSE "snapshot"]
    BY <1>3 DEF CheckExpiry, listVars
  <2>2. ClockInv'
    BY <1>0, <1>N, <2>1 DEF ClockInv, TypeInv
  <2>3. SlotInv'
    BY <1>0, <1>T, <1>N, <2>1, SlotsUntouched DEF Members
  <2>4. SelectionReadmits'
    <3> SUFFICES ASSUME NEW q \in Request, pc'[q] = "snapshot",
                        NEW a \in Members, Selectable(entries[a], checkedAt'[q])
                 PROVE  slots[a] > 0
      BY <2>1 DEF SelectionReadmits, HasSlot, Members
    <3>1. CASE q = r
      <4>1. ~Lapsed /\ checkedAt'[q] = now
        BY <1>0, <2>1, <3>1 DEF TypeInv
      <4> QED BY <1>R, <4>1 DEF RotationSound, HasSlot
    <3>2. CASE q # r
      <4>1. pc[q] = "snapshot" /\ checkedAt'[q] = checkedAt[q]
        BY <1>0, <2>1, <3>2 DEF TypeInv
      <4> QED BY <1>0, <4>1 DEF SelectionReadmits, HasSlot
    <3> QED BY <3>1, <3>2
  <2> QED BY <1>T, <2>2, <2>3, <2>4 DEF SlotIInv
<1>4. ASSUME NEW r \in Request, Rebuild(r)
      PROVE  SlotIInv'
  <2>1. /\ UNCHANGED <<entries, now, checkedAt>>
        /\ pc' = [pc EXCEPT ![r] = "snapshot"]
        /\ IF Lapsed THEN RebuildSlots(entries)
                     ELSE UNCHANGED <<slots, nextEjectExpiry>>
    BY <1>4 DEF Rebuild
  <2>2. ClockInv'
    BY <1>0, <2>1 DEF ClockInv
  <2>3. CASE Lapsed
    <3>1. RebuildSlots(entries')
      BY <2>1, <2>3 DEF RebuildSlots
    <3> QED BY <1>T, <1>N, <2>1, <2>2, <3>1, RebuildEstablishes DEF SlotIInv
  <2>4. CASE ~Lapsed
    <3>1. SlotInv'
      BY <1>0, <1>T, <1>N, <2>1, <2>4, SlotsUntouched DEF Members
    <3>2. SelectionReadmits'
      <4> SUFFICES ASSUME NEW q \in Request, NEW a \in Members,
                          Selectable(entries[a], checkedAt[q])
                   PROVE  slots[a] > 0
        BY <2>1, <2>4 DEF SelectionReadmits, HasSlot, Members
      <4>1. entries[a] \in Entry /\ checkedAt[q] <= now
        BY <1>0 DEF TypeInv, ClockInv
      <4>2. Selectable(entries[a], now)
        BY <1>N, <4>1, EjectedMonotone DEF Selectable
      <4> QED BY <1>R, <2>4, <4>2 DEF RotationSound, HasSlot
    <3> QED BY <1>T, <2>2, <3>1, <3>2 DEF SlotIInv
  <2> QED BY <2>3, <2>4
<1>5. ASSUME NEW r \in Request, Snapshot(r)
      PROVE  SlotIInv'
  <2>1. /\ UNCHANGED <<entries, slots, nextEjectExpiry, now>>
        /\ checkedAt' = [checkedAt EXCEPT ![r] = 0]
        /\ \A q \in Request : pc'[q] = "snapshot" => q # r /\ pc[q] = "snapshot"
    BY <1>0, <1>5 DEF Snapshot, listVars, TypeInv
  <2>2. ClockInv'
    BY <1>0, <1>N, <2>1 DEF ClockInv, TypeInv
  <2>3. SlotInv'
    BY <1>0, <1>T, <1>N, <2>1, SlotsUntouched DEF Members
  <2>4. SelectionReadmits'
    <3>1. \A q \in Request : pc'[q] = "snapshot" =>
                               pc[q] = "snapshot" /\ checkedAt'[q] = checkedAt[q]
      BY <1>0, <2>1 DEF TypeInv
    <3> QED BY <1>0, <2>1, <3>1, ReadmitsUntouched DEF Members
  <2> QED BY <1>T, <2>2, <2>3, <2>4 DEF SlotIInv
<1>6. ASSUME UNCHANGED <<entries, slots, nextEjectExpiry, checkedAt>>,
             now <= now',
             \A q \in Request : pc'[q] = "snapshot" => pc[q] = "snapshot"
      PROVE  SlotIInv'
  <2>1. ClockInv'
    BY <1>0, <1>T, <1>N, <1>6 DEF ClockInv, TypeInv
  <2>2. SlotInv'
    BY <1>0, <1>T, <1>6, SlotsUntouched DEF Members
  <2>3. SelectionReadmits'
    BY <1>0, <1>6, ReadmitsUntouched DEF Members
  <2> QED BY <1>T, <2>1, <2>2, <2>3 DEF SlotIInv
<1>7. ASSUME NEW r \in Request,
             (\E a \in Address : Pick(r, a) \/ PinTo(r, a)) \/ Release(r)
      PROVE  SlotIInv'
  <2>1. /\ UNCHANGED <<entries, slots, nextEjectExpiry, checkedAt, now>>
        /\ \A q \in Request : pc'[q] = "snapshot" => pc[q] = "snapshot"
    BY <1>0, <1>7 DEF Pick, PinTo, Release, TypeInv
  <2> QED BY <1>6, <1>N, <2>1
<1>8. ASSUME NEW r \in Request, NEW ok \in BOOLEAN, RecordResult(r, ok)
      PROVE  SlotIInv'
  <2>1. /\ UNCHANGED <<checkedAt, now>>
        /\ \A q \in Request : pc'[q] = "snapshot" => pc[q] = "snapshot"
    BY <1>0, <1>8 DEF RecordResult, TypeInv
  <2>2. ClockInv'
    BY <1>0, <2>1 DEF ClockInv
  <2>3. CASE RebuildSlots(entries')
    BY <1>T, <1>N, <2>1, <2>2, <2>3, RebuildEstablishes DEF SlotIInv
  <2>4. ASSUME UNCHANGED <<slots, nextEjectExpiry>>, DOMAIN entries' = Members,
               \A b \in Members : /\ entries'[b].healthy = entries[b].healthy
                                  /\ entries'[b].ejectedUntil = entries[b].ejectedUntil
        PROVE  SlotIInv'
    <3>1. SlotInv'
      BY <1>0, <1>T, <1>N, <2>1, <2>4, SlotsUntouched
    <3>2. SelectionReadmits'
      BY <1>0, <2>1, <2>4, ReadmitsUntouched
    <3> QED BY <1>T, <2>2, <3>1, <3>2 DEF SlotIInv
  <2>5. CASE UNCHANGED <<entries, slots, nextEjectExpiry>>
    BY <2>4, <2>5 DEF Members
  <2>6. CASE target[r] \in Members /\ RecordSuccess(target[r])
    BY <1>0, <2>4, <2>6 DEF RecordSuccess, TypeInv, Entry
  <2>7. CASE target[r] \in Members /\ RecordFailure(target[r])
    <3>1. DOMAIN entries' = Members
      BY <1>0, <2>7, RecordFailureCases
    <3>2. \A b \in Members : entries'[b].healthy = entries[b].healthy
      BY <1>0, <2>7, RecordFailureCases
    <3>3. \/ RebuildSlots(entries')
          \/ /\ UNCHANGED <<slots, nextEjectExpiry>>
             /\ \A b \in Members : entries'[b].ejectedUntil = entries[b].ejectedUntil
      BY <1>0, <2>7, RecordFailureCases
    <3> QED BY <2>3, <2>4, <3>1, <3>2, <3>3
  <2> QED BY <1>8, <2>5, <2>6, <2>7 DEF RecordResult
<1>9. CASE Tick
  <2>1. /\ UNCHANGED <<entries, slots, nextEjectExpiry, checkedAt, pc>>
        /\ now <= now'
    BY <1>N, <1>9 DEF Tick, listVars, reqVars
  <2> QED BY <1>6, <2>1
<1>10. CASE UNCHANGED vars
  BY <1>6, <1>10, <1>N DEF vars
<1> QED BY <1>1, <1>2, <1>3, <1>4, <1>5, <1>7, <1>8, <1>9, <1>10
        DEF Next, Select, Serve

(* THEOREM: no unhealthy or ejected backend ever holds a selection slot,   *)
(* and a selectable backend without one is always announced by the cached  *)
(* expiry; so the lazy rebuild in NextForKey never strands a backend.      *)
THEOREM RotationCorrect == Spec => []RotationSound
<1>1. Init => SlotIInv
  BY DEF Init, SlotIInv, TypeInv, SlotInv, ClockInv, SelectionReadmits,
         Members, PCs, Entry
<1>2. SlotIInv => RotationSound
  BY SlotInvImplies DEF SlotIInv
<1> QED BY <1>1, <1>2, SlotStep, PTL DEF Spec

(* THEOREM: a request's snapshot holds every healthy member whose ejection *)
(* window was over when the request called NextForKey, whatever ran        *)
(* between its lock acquisitions.                                          *)
THEOREM ReadmissionCorrect == Spec => []SelectionReadmits
<1>1. Init => SlotIInv
  BY DEF Init, SlotIInv, TypeInv, SlotInv, ClockInv, SelectionReadmits,
         Members, PCs, Entry
<1>2. SlotIInv => SelectionReadmits
  BY DEF SlotIInv
<1> QED BY <1>1, <1>2, SlotStep, PTL DEF Spec

-----------------------------------------------------------------------------
(* Ejection *)

(* Only Update touches the membership; every other step keeps an ejection  *)
(* window or replaces it by one that is open now.                          *)
LEMMA WindowStep ==
  ASSUME TypeInv, [Next]_vars, version' = version
  PROVE  /\ DOMAIN entries' = Members
         /\ \A a \in Members : \/ entries'[a].ejectedUntil = entries[a].ejectedUntil
                               \/ Ejected(entries'[a], now) /\ now' = now
<1> USE ListAssumption DEF ListAssumption
<1>1. ASSUME NEW v \in 1..MaxVersion, NEW weights \in BackendSets, Update(v, weights)
      PROVE  FALSE
  BY <1>1 DEF Update, TypeInv
<1>2. ASSUME NEW a \in Address, NEW h \in BOOLEAN, SetHealth(a, h)
      PROVE  /\ DOMAIN entries' = Members
             /\ \A b \in Members : entries'[b].ejectedUntil = entries[b].ejectedUntil
  BY <1>2 DEF SetHealth, TypeInv, Entry
<1>3. CASE UNCHANGED entries
  BY <1>3 DEF Members
<1>4. ASSUME NEW r \in Request, Select(r) \/ Release(r)
      PROVE  UNCHANGED entries
  BY <1>4 DEF Select, CheckExpiry, Rebuild, Snapshot, Pick, PinTo, Release, listVars
<1>5. ASSUME NEW r \in Request, NEW ok \in BOOLEAN, RecordResult(r, ok)
      PROVE  /\ DOMAIN entries' = Members
             /\ \A a \in Members : \/ entries'[a].ejectedUntil = entries[a].ejectedUntil
                                   \/ Ejected(entries'[a], now) /\ now' = now
  <2>1. now' = now
    BY <1>5 DEF RecordResult
  <2>2. CASE target[r] \in Members /\ RecordSuccess(target[r])
    BY <2>2 DEF RecordSuccess, TypeInv, Entry
  <2>3. CASE target[r] \in Members /\ RecordFailure(target[r])
    BY <2>1, <2>3, RecordFailureCases
  <2> QED BY <1>3, <1>5, <2>2, <2>3 DEF RecordResult
<1>6. CASE Tick \/ UNCHANGED vars
  BY <1>3, <1>6 DEF Tick, listVars, vars
<1> QED BY <1>1, <1>2, <1>3, <1>4, <1>5, <1>6 DEF Next, Serve

(* THEOREM: between two updates from the control plane, no step gives an   *)
(* ejected backend a slot before its window is over.                       *)
THEOREM EjectionIsServed == Spec => EjectionServed
<1>1. Init => SlotIInv
  BY DEF Init, SlotIInv, TypeInv, SlotInv, ClockInv, SelectionReadmits,
         Members, PCs, Entry
<1>2. SlotIInv /\ SlotIInv' /\ [Next]_vars =>
        [version' = version =>
           \A a \in Members : Ejected(entries[a], now') => slots'[a] = 0]_vars
  <2> SUFFICES ASSUME SlotIInv, SlotIInv', [Next]_vars, version' = version,
                      NEW a \in Members, Ejected(entries[a], now')
               PROVE  slots'[a] = 0
    OBVIOUS
  <2>1. /\ DOMAIN entries' = Members
        /\ \/ entries'[a].ejectedUntil = entries[a].ejectedUntil
           \/ Ejected(entries'[a], now) /\ now' = now
    BY WindowStep DEF SlotIInv
  <2>2. Ejected(entries'[a], now')
    BY <2>1 DEF Ejected
  <2>3. ~(slots'[a] > 0) /\ slots'[a] \in Nat
    BY <2>1, <2>2 DEF SlotIInv, SlotInv, TypeInv, HasSlot, Members, Selectable
  <2> QED BY <2>3
<1> QED BY <1>1, <1>2, SlotStep, PTL DEF Spec, EjectionServed

(* The number of ejected backends grows only by an ejection that the       *)
(* safety valve allowed.                                                   *)
LEMMA ValveStep ==
  ASSUME TypeInv, TypeInv', SafetyValve, [Next]_vars
  PROVE  SafetyValve'
<1> USE ListAssumption DEF ListAssumption
<1>F. /\ IsFiniteSet(Members) /\ Cardinality(Members) \in Nat
      /\ IsFiniteSet(Members') /\ Cardinality(Members') \in Nat
  BY FS_Subset, FS_CardinalityType DEF TypeInv
<1>E. /\ IsFiniteSet(EjectedSet(entries, now))
      /\ Cardinality(EjectedSet(entries, now)) \in Nat
  BY <1>F, FS_Subset, FS_CardinalityType DEF EjectedSet, Members
<1>1. ASSUME NEW v \in 1..MaxVersion, NEW weights \in BackendSets, Update(v, weights)
      PROVE  SafetyValve'
  <2>1. EjectedSet(entries', now') = {}
    BY <1>1 DEF Update, NewEntry, EjectedSet, Ejected
  <2>2. Cardinality(EjectedSet(entries', now')) = 0
    BY <2>1, FS_EmptySet
  <2>3. \A p, n \in Nat : 0 * 100 <= p * n
    BY SMT
  <2> QED BY <1>F, <2>2, <2>3 DEF SafetyValve
<1>2. ASSUME DOMAIN entries' = Members,
             EjectedSet(entries', now') \subseteq EjectedSet(entries, now)
      PROVE  SafetyValve'
  <2>1. /\ Cardinality(EjectedSet(entries', now')) <= Cardinality(EjectedSet(entries, now))
        /\ Cardinality(EjectedSet(entries', now')) \in Nat
    BY <1>2, <1>E, FS_Subset, FS_CardinalityType
  <2>2. MaxEjectPercent * Cardinality(Members) \in Nat
    BY <1>F
  <2> QED BY <1>2, <1>E, <2>1, <2>2 DEF SafetyValve, Members
<1>3. ASSUME NEW a \in Members, MayEject(entries, now), DOMAIN entries' = Members,
             now' = now, \A b \in Members : b # a => entries'[b] = entries[b]
      PROVE  SafetyValve'
  <2> DEFINE E == EjectedSet(entries, now)
  <2>1. EjectedSet(entries', now') \subseteq E \cup {a}
    BY <1>3 DEF EjectedSet, Members
  <2>2. /\ IsFiniteSet(E \cup {a})
        /\ Cardinality(E \cup {a}) \in Nat
        /\ Cardinality(E \cup {a}) <= Cardinality(E) + 1
    <3>1. IsFiniteSet(E) /\ Cardinality(E) \in Nat
      BY <1>E
    <3> HIDE DEF E
    <3>2. /\ IsFiniteSet(E \cup {a})
          /\ Cardinality(E \cup {a}) = IF a \in E THEN Cardinality(E) ELSE Cardinality(E) + 1
      BY <3>1, FS_AddElement
    <3> QED BY <3>1, <3>2
  <2>3. /\ Cardinality(EjectedSet(entries', now')) \in Nat
        /\ Cardinality(EjectedSet(entries', now')) <= Cardinality(E) + 1
    BY <1>E, <2>1, <2>2, FS_Subset, FS_CardinalityType
  <2>4. (Cardinality(E) + 1) * 100 <= MaxEjectPercent * Cardinality(Members)
    BY <1>3 DEF MayEject, Members
  <2>5. MaxEjectPercent * Cardinality(Members) \in Nat
    BY <1>F
  <2> HIDE DEF E
  <2> QED BY <1>3, <1>E, <2>3, <2>4, <2>5 DEF SafetyValve, Members, E
<1>4. ASSUME NEW a \in Address, NEW h \in BOOLEAN, SetHealth(a, h)
      PROVE  SafetyValve'
  <2>1. /\ DOMAIN entries' = Members /\ now' = now
        /\ \A b \in Members : entries'[b].ejectedUntil = entries[b].ejectedUntil
    BY <1>4 DEF SetHealth, TypeInv, Entry
  <2> QED BY <1>2, <2>1 DEF EjectedSet, Ejected, Members
<1>5. ASSUME NEW r \in Request, Select(r) \/ Release(r)
      PROVE  SafetyValve'
  <2>1. UNCHANGED <<entries, now>>
    BY <1>5 DEF Select, CheckExpiry, Rebuild, Snapshot, Pick, PinTo, Release, listVars
  <2> QED BY <1>2, <2>1 DEF Members
<1>6. ASSUME NEW r \in Request, NEW ok \in BOOLEAN, RecordResult(r, ok)
      PROVE  SafetyValve'
  <2>1. now' = now
    BY <1>6 DEF RecordResult
  <2>2. CASE UNCHANGED entries
    BY <1>2, <2>1, <2>2 DEF Members
  <2>3. ASSUME DOMAIN entries' = Members,
               \A b \in Members : entries'[b].ejectedUntil = entries[b].ejectedUntil
        PROVE  SafetyValve'
    BY <1>2, <2>1, <2>3 DEF EjectedSet, Ejected, Members
  <2>4. CASE target[r] \in Members /\ RecordSuccess(target[r])
    BY <2>3, <2>4 DEF RecordSuccess, TypeInv, Entry
  <2>5. CASE target[r] \in Members /\ RecordFailure(target[r])
    BY <1>3, <2>1, <2>3, <2>5, RecordFailureCases
  <2> QED BY <1>6, <2>2, <2>4, <2>5 DEF RecordResult
<1>7. CASE Tick
  <2>1. DOMAIN entries' = Members
    BY <1>7 DEF Tick, listVars, Members
  <2>2. EjectedSet(entries', now') \subseteq EjectedSet(entries, now)
    BY <1>7 DEF Tick, listVars, EjectedSet, Ejected, TypeInv, Entry, Members
  <2> QED BY <1>2, <2>1, <2>2
<1>8. CASE UNCHANGED vars
  BY <1>2, <1>8 DEF vars, Members
<1> QED BY <1>1, <1>4, <1>5, <1>6, <1>7, <1>8 DEF Next, Serve

(* THEOREM: passive detection never has more than MaxEjectPercent of the   *)
(* group ejected, for any group, any update and any order of results.      *)
THEOREM SafetyValveHolds == Spec => []SafetyValve
<1>1. Init => TypeInv /\ SafetyValve
  <2>1. Init => TypeInv
    BY DEF Init, TypeInv, Members, PCs, Entry
  <2>2. ASSUME Init PROVE SafetyValve
    <3>1. EjectedSet(entries, now) = {} /\ Members = {}
      BY <2>2 DEF Init, EjectedSet, Members
    <3> QED BY <3>1, FS_EmptySet, ListAssumption DEF SafetyValve, ListAssumption
  <2> QED BY <2>1, <2>2
<1>2. TypeInv /\ SafetyValve /\ [Next]_vars => TypeInv' /\ SafetyValve'
  BY TypeStep, ValveStep
<1> QED BY <1>1, <1>2, PTL DEF Spec

-----------------------------------------------------------------------------
(* In-flight counters *)

(* A request that holds a snapshot took it from the current objects or     *)
(* from older ones; a snapshot of the current objects names only members.  *)
SnapshotInv ==
  \A r \in Request : pc[r] = "pick" =>
    /\ gen[r] <= version
    /\ gen[r] = version => snap[r] \subseteq Members

(* The inductive invariant of the counters. *)
LoadIInv == TypeInv /\ SnapshotInv /\ NoPhantomLoad

(* Request sets are finite, so cardinalities behave. *)
LEMMA InFlightFinite ==
  ASSUME NEW a
  PROVE  IsFiniteSet(InFlight(a)) /\ Cardinality(InFlight(a)) \in Nat
BY ListAssumption, FS_Subset, FS_CardinalityType DEF ListAssumption, InFlight

(* Steps that touch no counter and move no request in or out of flight. *)
LEMMA LoadUntouched ==
  ASSUME NoPhantomLoad, UNCHANGED activeConns, DOMAIN entries' = Members,
         \A a : InFlight(a)' = InFlight(a)
  PROVE  NoPhantomLoad'
BY DEF NoPhantomLoad, Members

(* A new set invalidates every snapshot: its version is larger than every  *)
(* version a snapshot was taken from.                                      *)
LEMMA SnapshotStep ==
  ASSUME TypeInv, TypeInv', SnapshotInv, [Next]_vars
  PROVE  SnapshotInv'
<1> USE ListAssumption DEF ListAssumption
<1>1. ASSUME NEW v \in 1..MaxVersion, NEW weights \in BackendSets, Update(v, weights)
      PROVE  SnapshotInv'
  <2>1. version < version' /\ UNCHANGED <<pc, gen, snap>> /\ version' \in Nat
    BY <1>1 DEF Update, reqVars, TypeInv
  <2>2. \A q \in Request : gen[q] \in Nat
    BY DEF TypeInv
  <2>3. ASSUME NEW q \in Request, pc'[q] = "pick"
        PROVE  gen'[q] < version'
    <3>1. gen[q] <= version /\ version \in Nat
      BY <2>1, <2>3 DEF SnapshotInv, TypeInv
    <3> QED BY <2>1, <2>2, <3>1
  <2>4. \A q \in Request : gen'[q] \in Nat
    BY <2>1, <2>2
  <2> QED BY <2>1, <2>3, <2>4 DEF SnapshotInv
<1>2. ASSUME UNCHANGED <<version, gen, snap>>, DOMAIN entries' = Members,
             \A q \in Request : pc'[q] = "pick" => pc[q] = "pick"
      PROVE  SnapshotInv'
  BY <1>2 DEF SnapshotInv, Members
<1>3. ASSUME NEW a \in Address, NEW h \in BOOLEAN, SetHealth(a, h)
      PROVE  SnapshotInv'
  BY <1>2, <1>3 DEF SetHealth, reqVars, Members
<1>4. ASSUME NEW r \in Request, CheckExpiry(r) \/ Rebuild(r) \/ Release(r)
                                  \/ \E a \in Address : PinTo(r, a)
      PROVE  SnapshotInv'
  <2>1. UNCHANGED <<entries, version, gen, snap>>
    BY <1>4 DEF CheckExpiry, Rebuild, Release, PinTo, listVars
  <2>2. \A q \in Request : pc'[q] = "pick" => pc[q] = "pick"
    BY <1>4 DEF CheckExpiry, Rebuild, Release, PinTo, TypeInv
  <2> QED BY <1>2, <2>1, <2>2 DEF Members
<1>5. ASSUME NEW r \in Request, Snapshot(r)
      PROVE  SnapshotInv'
  <2> DEFINE rotation == {a \in Members : HasSlot(a)}
  <2>1. /\ UNCHANGED <<entries, version>>
        /\ snap' = [snap EXCEPT ![r] = rotation]
        /\ gen' = [gen EXCEPT ![r] = IF rotation = {} THEN 0 ELSE version]
        /\ pc' = [pc EXCEPT ![r] = IF rotation = {} THEN "idle" ELSE "pick"]
    BY <1>5 DEF Snapshot, listVars
  <2>2. rotation \subseteq Members
    OBVIOUS
  <2> HIDE DEF rotation
  <2>3. SUFFICES ASSUME NEW q \in Request, pc'[q] = "pick"
                 PROVE  gen'[q] <= version /\ (gen'[q] = version => snap'[q] \subseteq Members)
    BY <2>1 DEF SnapshotInv, Members
  <2>4. CASE q = r
    <3>1. gen'[q] = version /\ snap'[q] = rotation
      BY <2>1, <2>3, <2>4 DEF TypeInv
    <3> QED BY <2>2, <3>1 DEF TypeInv
  <2>5. CASE q # r
    <3>1. pc[q] = "pick" /\ gen'[q] = gen[q] /\ snap'[q] = snap[q]
      BY <2>1, <2>3, <2>5 DEF TypeInv
    <3> QED BY <3>1 DEF SnapshotInv
  <2> QED BY <2>4, <2>5
<1>6. ASSUME NEW r \in Request, NEW a \in Address, Pick(r, a)
      PROVE  SnapshotInv'
  <2>1. UNCHANGED <<entries, version>>
    BY <1>6 DEF Pick
  <2>2. \A q \in Request : pc'[q] = "pick" =>
          pc[q] = "pick" /\ gen'[q] = gen[q] /\ snap'[q] = snap[q]
    BY <1>6 DEF Pick, TypeInv
  <2> QED BY <2>1, <2>2 DEF SnapshotInv, Members
<1>7. ASSUME NEW r \in Request, NEW ok \in BOOLEAN, RecordResult(r, ok)
      PROVE  SnapshotInv'
  <2>1. UNCHANGED <<version, gen, snap>> /\ version' = version
    BY <1>7 DEF RecordResult
  <2>2. DOMAIN entries' = Members
    BY <2>1, WindowStep
  <2>3. \A q \in Request : pc'[q] = "pick" => pc[q] = "pick"
    BY <1>7 DEF RecordResult, TypeInv
  <2> QED BY <1>2, <2>1, <2>2, <2>3
<1>8. CASE Tick \/ UNCHANGED vars
  BY <1>2, <1>8 DEF Tick, listVars, reqVars, vars, Members
<1> QED BY <1>1, <1>3, <1>4, <1>5, <1>6, <1>7, <1>8 DEF Next, Select, Serve

(* A counter moves with the requests in flight to its address, or falls    *)
(* behind them; it never gets ahead.                                       *)
LEMMA LoadStep ==
  ASSUME TypeInv, TypeInv', SnapshotInv, NoPhantomLoad, [Next]_vars
  PROVE  NoPhantomLoad'
<1> USE ListAssumption DEF ListAssumption
<1>A. activeConns \in [Members -> Nat]
  BY DEF TypeInv
<1>1. ASSUME NEW v \in 1..MaxVersion, NEW weights \in BackendSets, Update(v, weights)
      PROVE  NoPhantomLoad'
  <2>1. \A a : InFlight(a)' = InFlight(a)
    BY <1>1 DEF Update, reqVars, InFlight
  <2>2. \A a \in DOMAIN entries' :
          activeConns'[a] = IF a \in Members THEN activeConns[a] ELSE 0
    BY <1>1 DEF Update
  <2>3. \A a \in DOMAIN entries' : activeConns'[a] <= Cardinality(InFlight(a))
    <3> SUFFICES ASSUME NEW a \in DOMAIN entries'
                 PROVE  activeConns'[a] <= Cardinality(InFlight(a))
      OBVIOUS
    <3>1. Cardinality(InFlight(a)) \in Nat
      BY InFlightFinite
    <3>2. CASE a \in Members
      BY <2>2, <3>2 DEF NoPhantomLoad
    <3>3. CASE a \notin Members
      BY <2>2, <3>1, <3>3
    <3> QED BY <3>2, <3>3
  <2> QED BY <2>1, <2>3 DEF NoPhantomLoad, Members
<1>2. ASSUME NEW a \in Address, NEW h \in BOOLEAN, SetHealth(a, h)
      PROVE  NoPhantomLoad'
  BY <1>2, LoadUntouched DEF SetHealth, reqVars, InFlight, Members
<1>3. ASSUME NEW r \in Request, CheckExpiry(r) \/ Rebuild(r) \/ Snapshot(r)
      PROVE  NoPhantomLoad'
  <2>1. UNCHANGED <<activeConns, entries, target>>
    BY <1>3 DEF CheckExpiry, Rebuild, Snapshot, listVars
  <2>2. \A q \in Request : pc'[q] \in {"inflight", "recorded"} <=>
                           pc[q] \in {"inflight", "recorded"}
    <3>1. pc \in [Request -> PCs]
      BY DEF TypeInv
    <3>2. \E p \in PCs \ {"inflight", "recorded"} : pc' = [pc EXCEPT ![r] = p]
      BY <1>3 DEF CheckExpiry, Rebuild, Snapshot, PCs
    <3>3. pc[r] \notin {"inflight", "recorded"}
      BY <1>3 DEF CheckExpiry, Rebuild, Snapshot
    <3> QED BY <3>1, <3>2, <3>3
  <2> QED BY <2>1, <2>2, LoadUntouched DEF InFlight, Members
<1>4. ASSUME NEW r \in Request, NEW a \in Address, UNCHANGED entries,
             pc[r] \in {"idle", "pick"}, pc' = [pc EXCEPT ![r] = "inflight"],
             target' = [target EXCEPT ![r] = a],
             \/ UNCHANGED activeConns
             \/ a \in Members /\ activeConns' = [activeConns EXCEPT ![a] = @ + 1]
      PROVE  NoPhantomLoad'
  <2>0. /\ \A q \in Request : q # r => pc'[q] = pc[q] /\ target'[q] = target[q]
        /\ pc'[r] = "inflight" /\ target'[r] = a
    BY <1>4 DEF TypeInv
  <2>1. ASSUME NEW b, b # a PROVE InFlight(b)' = InFlight(b)
    <3>1. \A q \in Request : q \in InFlight(b)' <=> q \in InFlight(b)
      BY <1>4, <2>0, <2>1 DEF InFlight
    <3> QED BY <3>1 DEF InFlight
  <2>2. InFlight(a)' = InFlight(a) \cup {r} /\ r \notin InFlight(a)
    <3>1. \A q \in Request : q \in InFlight(a)' <=> q \in InFlight(a) \/ q = r
      BY <2>0 DEF InFlight
    <3>2. r \notin InFlight(a)
      BY <1>4 DEF InFlight
    <3> QED BY <3>1, <3>2 DEF InFlight
  <2>3. Cardinality(InFlight(a)') = Cardinality(InFlight(a)) + 1
    BY <2>2, InFlightFinite, FS_AddElement
  <2>4. \A b \in Members : b # a => activeConns'[b] = activeConns[b]
    BY <1>4, <1>A
  <2>5. a \in Members => activeConns'[a] <= activeConns[a] + 1
    BY <1>4, <1>A
  <2>6. SUFFICES ASSUME NEW b \in Members
                 PROVE  activeConns'[b] <= Cardinality(InFlight(b)')
    BY <1>4 DEF NoPhantomLoad, Members
  <2>7. activeConns[b] \in Nat /\ activeConns[b] <= Cardinality(InFlight(b))
    BY <1>A DEF NoPhantomLoad
  <2>8. activeConns'[b] \in Nat
    BY <1>4 DEF TypeInv, Members
  <2>9. CASE b # a
    BY <2>1, <2>4, <2>7, <2>9
  <2>10. CASE b = a
    BY <2>3, <2>5, <2>7, <2>8, <2>10, InFlightFinite
  <2> QED BY <2>9, <2>10
<1>5. ASSUME NEW r \in Request, NEW a \in Address, Pick(r, a)
      PROVE  NoPhantomLoad'
  <2>1. gen[r] = version => a \in Members
    BY <1>5 DEF Pick, SnapshotInv
  <2>2. \/ UNCHANGED activeConns
        \/ a \in Members /\ activeConns' = [activeConns EXCEPT ![a] = @ + 1]
    BY <1>5, <2>1 DEF Pick
  <2> QED BY <1>4, <1>5, <2>2 DEF Pick
<1>6. ASSUME NEW r \in Request, NEW a \in Address, PinTo(r, a)
      PROVE  NoPhantomLoad'
  BY <1>4, <1>6 DEF PinTo
<1>7. ASSUME NEW r \in Request, NEW ok \in BOOLEAN, RecordResult(r, ok)
      PROVE  NoPhantomLoad'
  <2>1. UNCHANGED <<activeConns, version, target>>
    BY <1>7 DEF RecordResult
  <2>2. DOMAIN entries' = Members
    BY <2>1, WindowStep
  <2>3. \A q \in Request : pc'[q] \in {"inflight", "recorded"} <=>
                           pc[q] \in {"inflight", "recorded"}
    BY <1>7 DEF RecordResult, TypeInv
  <2> QED BY <2>1, <2>2, <2>3, LoadUntouched DEF InFlight
<1>8. ASSUME NEW r \in Request, Release(r)
      PROVE  NoPhantomLoad'
  <2>0. PICK a : a = target[r]
    OBVIOUS
  <2>1. UNCHANGED entries /\ pc[r] \in {"inflight", "recorded"}
    BY <1>8 DEF Release
  <2>2. \A b \in Address : b # a => InFlight(b)' = InFlight(b)
    BY <1>8, <2>0 DEF Release, InFlight, TypeInv
  <2>3. a \in Address => InFlight(a)' = InFlight(a) \ {r} /\ r \in InFlight(a)
    BY <1>8, <2>0 DEF Release, InFlight, TypeInv
  <2>4. a \in Address => Cardinality(InFlight(a)') = Cardinality(InFlight(a)) - 1
    BY <2>3, InFlightFinite, FS_RemoveElement
  <2>5. \A b \in Members : b # a => activeConns'[b] = activeConns[b]
    BY <1>8, <1>A, <2>0 DEF Release
  <2>6. a \in Members => activeConns'[a] = IF activeConns[a] > 0
                                           THEN activeConns[a] - 1 ELSE 0
    BY <1>8, <1>A, <2>0 DEF Release
  <2>7. SUFFICES ASSUME NEW b \in Members
                 PROVE  activeConns'[b] <= Cardinality(InFlight(b)')
    BY <2>1 DEF NoPhantomLoad, Members
  <2>8. /\ activeConns[b] \in Nat /\ activeConns[b] <= Cardinality(InFlight(b))
        /\ b \in Address
    BY <1>A DEF NoPhantomLoad, TypeInv
  <2>9. CASE b # a
    BY <2>2, <2>5, <2>8, <2>9
  <2>10. CASE b = a
    <3>1. a \in Members /\ a \in Address /\ activeConns[a] \in Nat
      BY <2>7, <2>8, <2>10
    <3>2. r \in InFlight(a)
      BY <2>3, <3>1
    <3>3. /\ Cardinality(InFlight(a)) \in Nat /\ Cardinality(InFlight(a)) # 0
      BY <3>2, InFlightFinite, FS_EmptySet
    <3>4. Cardinality(InFlight(a)') = Cardinality(InFlight(a)) - 1
      BY <2>4, <3>1
    <3>5. activeConns'[a] = IF activeConns[a] > 0 THEN activeConns[a] - 1 ELSE 0
      BY <2>6, <3>1
    <3>6. activeConns[a] <= Cardinality(InFlight(a))
      BY <2>8, <2>10
    <3>7. activeConns'[a] <= Cardinality(InFlight(a)) - 1
      BY <3>1, <3>3, <3>5, <3>6
    <3> QED BY <2>10, <3>4, <3>7
  <2> QED BY <2>9, <2>10
<1>9. CASE Tick \/ UNCHANGED vars
  BY <1>9, LoadUntouched DEF Tick, listVars, reqVars, vars, InFlight, Members
<1> QED BY <1>1, <1>2, <1>3, <1>5, <1>6, <1>7, <1>8, <1>9 DEF Next, Select, Serve

(* THEOREM: the in-flight counter that least-connections and P2C read      *)
(* never exceeds the number of requests in flight to that address, for any *)
(* number of concurrent requests and any history of updates.               *)
THEOREM NoPhantomLoadHolds == Spec => []NoPhantomLoad
<1>1. Init => LoadIInv
  BY DEF Init, LoadIInv, TypeInv, SnapshotInv, NoPhantomLoad, Members, PCs, Entry
<1>2. LoadIInv /\ [Next]_vars => LoadIInv'
  BY TypeStep, SnapshotStep, LoadStep DEF LoadIInv
<1>3. LoadIInv => NoPhantomLoad
  BY DEF LoadIInv
<1> QED BY <1>1, <1>2, <1>3, PTL DEF Spec

=============================================================================
