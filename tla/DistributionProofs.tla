------------------------- MODULE DistributionProofs -------------------------
(***************************************************************************)
(* Safety of configuration distribution, for any data planes, publishers,  *)
(* addresses, settings and bounds.                                         *)
(***************************************************************************)
EXTENDS Distribution, TLAPS

USE ZenonT(10), SMTT(30)

(* The steps of one publisher that publish nothing. *)
Prepares(p) ==
  \/ \E a \in Address, ov \in Override : SetOverride(p, a, ov)
  \/ \E s \in Setting : SetSetting(p, s)
  \/ Persist(p) \/ PersistFails(p)
  \/ Fetch(p) \/ FetchFails(p)
  \/ ReadOverrides(p) \/ ReadSettings(p)

-----------------------------------------------------------------------------
(* What a publisher computes from well-typed readings is content. *)
LEMMA ContentType ==
  ASSUME NEW r \in PubState
  PROVE  ContentOf(r) \in Content
<1> DEFINE S == {b \in r.pool : ~r.overrides[b].drained}
<1>1. S \in SUBSET Address /\ r.setting \in Setting
  BY DEF PubState
<1>2. \A a \in S : r.overrides[a] \in Override
  BY DEF PubState, Overrides
<1>3. \A ov \in Override : ov.weight # NoWeight => ov.weight \in Weight
  <2>1. NoOverride.weight = NoWeight /\ Drained.weight = NoWeight
    BY DEF NoOverride, Drained
  <2>2. \A ov \in [drained : {FALSE}, weight : Weight] : ov.weight \in Weight
    OBVIOUS
  <2> QED BY <2>1, <2>2, Zenon DEF Override
<1>4. BackendsOf(r.pool, r.overrides) \in [S -> {1} \cup Weight]
  BY <1>2, <1>3 DEF BackendsOf
<1> HIDE DEF S
<1> QED BY <1>1, <1>4 DEF ContentOf, Content

LEMMA AtType ==
  /\ NoOverrides \in Overrides
  /\ \A st \in {"idle", "saveOverrides", "saveSetting", "fetch", "overrides", "settings",
              "publish"}, p \in SUBSET Address, ov \in Overrides, s \in Setting :
       At(st, p, ov, s) \in PubState
BY DEF NoOverrides, Overrides, Override, At, PubState

LEMMA IdleType == Idle \in PubState
BY AtType, ControlPlaneAssumption DEF Idle

(* The set a publication issues is well typed. *)
LEMMA NextSetType ==
  ASSUME DTypeInv, NEW p \in Publisher
  PROVE  [epoch |-> epoch, version |-> NextVersion, content |-> ContentOf(pub[p])] \in Set
<1>1. ContentOf(pub[p]) \in Content
  BY ContentType DEF DTypeInv
<1>2. NextVersion \in Nat \ {0}
  BY DEF NextVersion, DTypeInv, Set
<1> QED BY <1>1, <1>2 DEF DTypeInv, Set

(* Preparing a publication changes no published state and keeps the types. *)
LEMMA PrepareType ==
  ASSUME DTypeInv, NEW p \in Publisher, Prepares(p), UNCHANGED linkVars
  PROVE  DTypeInv'
<1> USE DEF linkVars
<1>1. ASSUME NEW a \in Address, NEW ov \in Override, SetOverride(p, a, ov) PROVE DTypeInv'
  <2>1. overrides' \in Overrides
    BY <1>1 DEF SetOverride, DTypeInv, Overrides
  <2>2. pub' \in [Publisher -> PubState]
    BY <1>1, <2>1, AtType, ControlPlaneAssumption DEF SetOverride, DTypeInv
  <2> QED BY <1>1, <2>1, <2>2, ControlPlaneAssumption DEF SetOverride, DTypeInv
<1>2. ASSUME NEW s \in Setting, SetSetting(p, s) PROVE DTypeInv'
  <2>1. pub' \in [Publisher -> PubState]
    BY <1>2, AtType DEF SetSetting, DTypeInv
  <2> QED BY <1>2, <2>1, ControlPlaneAssumption DEF SetSetting, DTypeInv
<1>3. CASE Persist(p)
  <2>2. pub' \in [Publisher -> PubState]
    BY <1>3, AtType, ControlPlaneAssumption DEF Persist, DTypeInv
  <2>3. disk' \in [overrides : Overrides, setting : Setting]
    BY <1>3 DEF Persist, DTypeInv, PubState
  <2> QED BY <1>3, <2>2, <2>3 DEF Persist, DTypeInv
<1>4. CASE PersistFails(p) \/ FetchFails(p)
  <2>1. pub' \in [Publisher -> PubState]
    BY <1>4, IdleType DEF PersistFails, FetchFails, DTypeInv
  <2> QED BY <1>4, <2>1 DEF PersistFails, FetchFails, DTypeInv
<1>5. CASE Fetch(p) \/ ReadOverrides(p) \/ ReadSettings(p)
  <2>1. pub' \in [Publisher -> PubState]
    <3>1. pub[p].pool \in SUBSET Address /\ pub[p].overrides \in Overrides
      BY DEF DTypeInv, PubState
    <3>2. pool \in SUBSET Address /\ overrides \in Overrides /\ setting \in Setting
      BY DEF DTypeInv
    <3>3. \E q \in PubState : pub' = [pub EXCEPT ![p] = q]
      <4>1. CASE Fetch(p)
        BY <4>1, <3>2, AtType, ControlPlaneAssumption DEF Fetch
      <4>2. CASE ReadOverrides(p)
        BY <4>2, <3>1, <3>2, AtType, ControlPlaneAssumption DEF ReadOverrides
      <4>3. CASE ReadSettings(p)
        BY <4>3, <3>1, <3>2, AtType DEF ReadSettings
      <4> QED BY <1>5, <4>1, <4>2, <4>3
    <3> QED BY <3>3 DEF DTypeInv
  <2> QED BY <1>5, <2>1 DEF Fetch, ReadOverrides, ReadSettings, DTypeInv
<1> QED BY <1>1, <1>2, <1>3, <1>4, <1>5 DEF Prepares

(* The types are inductive. *)
LEMMA DTypeStep == DTypeInv /\ [DNext]_distVars => DTypeInv'
<1> SUFFICES ASSUME DTypeInv, [DNext]_distVars PROVE DTypeInv'
  OBVIOUS
<1>1. CASE PoolChange /\ UNCHANGED linkVars
  BY <1>1, ControlPlaneAssumption DEF PoolChange, linkVars, DTypeInv
<1>2. ASSUME NEW p \in Publisher, Prepares(p), UNCHANGED linkVars PROVE DTypeInv'
  BY <1>2, PrepareType
<1>3. CASE Tick /\ UNCHANGED linkVars
  <2>1. pub' \in [Publisher -> PubState]
    BY <1>3, AtType, ControlPlaneAssumption DEF Tick, DTypeInv
  <2> QED BY <1>3, <2>1 DEF Tick, linkVars, DTypeInv
<1>4. ASSUME NEW p \in Publisher, Publish(p), UNCHANGED linkVars PROVE DTypeInv'
  <2>1. pub' \in [Publisher -> PubState]
    BY <1>4, IdleType DEF Publish, DTypeInv
  <2>2. PICK m \in Set : m = [epoch |-> epoch, version |-> NextVersion,
                              content |-> ContentOf(pub[p])]
    BY NextSetType
  <2>3. CASE UNCHANGED <<last, issued, chan, dropped>>
    BY <1>4, <2>1, <2>3 DEF Publish, linkVars, DTypeInv
  <2>4. CASE PublishSet(ContentOf(pub[p]))
    <3>1. last' = m /\ issued' = issued \cup {m}
      BY <2>2, <2>4 DEF PublishSet
    <3>2. chan' \in [DataPlane -> Seq(Set)]
      BY <2>2, <2>4 DEF PublishSet, DTypeInv
    <3>3. dropped' \in [DataPlane -> BOOLEAN]
      BY <2>4 DEF PublishSet, DTypeInv
    <3> QED BY <1>4, <2>1, <3>1, <3>2, <3>3 DEF Publish, linkVars, DTypeInv
  <2> QED BY <1>4, <2>3, <2>4 DEF Publish
<1>5. CASE CrashUnderStreams
  <2>1. pub' \in [Publisher -> PubState]
    BY <1>5, IdleType DEF CrashUnderStreams, Crash
  <2>2. epoch' \in 1..(MaxCrashes + 1)
    BY <1>5, ControlPlaneAssumption DEF CrashUnderStreams, Crash, DTypeInv
  <2>3. conn' \in [DataPlane -> {"down", "registered", "open", "broken"}]
    BY <1>5 DEF CrashUnderStreams
  <2>4. chan' \in [DataPlane -> Seq(Set)] /\ dropped' \in [DataPlane -> BOOLEAN]
    BY <1>5 DEF CrashUnderStreams, Crash
  <2> QED BY <1>5, <2>1, <2>2, <2>3, <2>4 DEF CrashUnderStreams, Crash, DTypeInv
<1>6. ASSUME NEW d \in DataPlane, Subscribe(d) PROVE DTypeInv'
  BY <1>6 DEF Subscribe, DTypeInv
<1>7. ASSUME NEW d \in DataPlane, SendCurrent(d) PROVE DTypeInv'
  <2>1. wire' \in [DataPlane -> Seq(Set)]
    BY <1>7 DEF SendCurrent, DTypeInv
  <2> QED BY <1>7, <2>1 DEF SendCurrent, cpVars, DTypeInv
<1>8. ASSUME NEW d \in DataPlane, Forward(d) PROVE DTypeInv'
  <2>1. Head(chan[d]) \in Set /\ Tail(chan[d]) \in Seq(Set)
    BY <1>8 DEF Forward, DTypeInv
  <2>2. wire' \in [DataPlane -> Seq(Set)] /\ chan' \in [DataPlane -> Seq(Set)]
    BY <1>8, <2>1 DEF Forward, DTypeInv
  <2> QED BY <1>8, <2>2 DEF Forward, DTypeInv
<1>9. ASSUME NEW d \in DataPlane, Receive(d) PROVE DTypeInv'
  <2>1. Head(wire[d]) \in Set /\ Tail(wire[d]) \in Seq(Set)
    BY <1>9 DEF Receive, DTypeInv
  <2>2. wire' \in [DataPlane -> Seq(Set)] /\ dp' \in [DataPlane -> Set \cup {Nothing}]
    BY <1>9, <2>1 DEF Receive, DTypeInv
  <2> QED BY <1>9, <2>2 DEF Receive, cpVars, DTypeInv
<1>10. ASSUME NEW d \in DataPlane, Hangup(d) PROVE DTypeInv'
  BY <1>10 DEF Hangup, cpVars, DTypeInv
<1>11. ASSUME NEW d \in DataPlane, Break(d) \/ DPRestart(d) PROVE DTypeInv'
  <2>1. breaks' \in 0..MaxBreaks
    BY <1>11, DistributionAssumption DEF Break, DPRestart, DTypeInv
  <2>2. CASE Break(d)
    BY <2>1, <2>2 DEF Break, DTypeInv
  <2>3. CASE DPRestart(d)
    <3>1. dp' \in [DataPlane -> Set \cup {Nothing}]
      BY <2>3 DEF DPRestart, DTypeInv
    <3> QED BY <2>1, <2>3, <3>1 DEF DPRestart, DTypeInv
  <2> QED BY <1>11, <2>2, <2>3
<1>12. CASE UNCHANGED distVars
  BY <1>12 DEF distVars, DTypeInv
<1> QED
  BY <1>1, <1>2, <1>3, <1>4, <1>5, <1>6, <1>7, <1>8, <1>9, <1>10, <1>11, <1>12
  DEF DNext, CPNext, PublisherStep, StreamStep, Prepares, Publisher

LEMMA DTypeInit == DInit => DTypeInv
<1> SUFFICES ASSUME DInit PROVE DTypeInv
  OBVIOUS
<1>1. overrides \in Overrides
  BY AtType DEF DInit, CPInit
<1>2. pub \in [Publisher -> PubState]
  BY IdleType DEF DInit, CPInit
<1>3. chan \in [DataPlane -> Seq(Set)] /\ wire \in [DataPlane -> Seq(Set)]
  BY DEF DInit, CPInit
<1>4. dropped \in [DataPlane -> BOOLEAN] /\ dp \in [DataPlane -> Set \cup {Nothing}]
  BY DEF DInit, CPInit
<1>5. conn \in [DataPlane -> {"down", "registered", "open", "broken"}]
  BY DEF DInit
<1>6. disk \in [overrides : Overrides, setting : Setting]
  BY <1>1, ControlPlaneAssumption DEF DInit, CPInit
<1> QED
  BY <1>1, <1>2, <1>3, <1>4, <1>5, <1>6, ControlPlaneAssumption, DistributionAssumption
  DEF DInit, CPInit, DTypeInv

(* Control plane, streams and data planes keep their types. *)
THEOREM DistributionTypeCorrect == DSpec => []DTypeInv
BY DTypeInit, DTypeStep, PTL DEF DSpec

-----------------------------------------------------------------------------
(* Everything in transit or held was issued. *)
IssuedInv ==
  /\ last = NoSet \/ last \in issued
  /\ \A d \in DataPlane : /\ InTransit(d) \subseteq issued
                          /\ dp[d] \in issued \cup {Nothing}

(* The set published last has the highest number of its lifetime, and      *)
(* equal numbers of one lifetime are one set.                              *)
NumberInv ==
  /\ \A m \in issued : /\ m.epoch <= epoch
                       /\ m.epoch = epoch => last # NoSet /\ m.version <= last.version
  /\ \A m, n \in issued : m.epoch = n.epoch /\ m.version = n.version => m = n

(* An open stream is registered and its channel within capacity. *)
StreamInv ==
  \A d \in DataPlane : /\ conn[d] \in {"registered", "open"} => d \in subs
                       /\ Len(chan[d]) <= ChanCap

DIInv == DTypeInv /\ IssuedInv /\ NumberInv /\ StreamInv /\ NoLostUpdate

(* What appending, taking the head and starting empty do to the elements. *)
LEMMA ElementsAppend ==
  ASSUME NEW s \in Seq(Set), NEW m \in Set
  PROVE  Elements(Append(s, m)) = Elements(s) \cup {m}
<1>1. Len(Append(s, m)) = Len(s) + 1 /\ Len(s) \in Nat
  OBVIOUS
<1>2. \A i \in 1..Len(s) : Append(s, m)[i] = s[i]
  OBVIOUS
<1>3. Append(s, m)[Len(s) + 1] = m
  OBVIOUS
<1>4. 1..(Len(s) + 1) = (1..Len(s)) \cup {Len(s) + 1}
  BY <1>1
<1> QED BY <1>1, <1>2, <1>3, <1>4 DEF Elements

LEMMA ElementsTail ==
  ASSUME NEW s \in Seq(Set), s # <<>>
  PROVE  Elements(s) = {Head(s)} \cup Elements(Tail(s))
<1>1. Len(s) \in Nat \ {0} /\ Len(Tail(s)) = Len(s) - 1
  OBVIOUS
<1>2. \A i \in 1..(Len(s) - 1) : Tail(s)[i] = s[i + 1]
  OBVIOUS
<1>3. Head(s) = s[1]
  OBVIOUS
<1>4. \A i \in 1..Len(s) : i = 1 \/ (i - 1 \in 1..(Len(s) - 1) /\ s[i] = Tail(s)[i - 1])
  BY <1>1, <1>2
<1>5. ASSUME NEW x \in Elements(s) PROVE x \in {Head(s)} \cup Elements(Tail(s))
  <2>1. PICK i \in 1..Len(s) : x = s[i]
    BY <1>5 DEF Elements
  <2>2. CASE i = 1
    BY <2>1, <2>2, <1>3
  <2>3. CASE i # 1
    <3>1. i - 1 \in 1..Len(Tail(s)) /\ x = Tail(s)[i - 1]
      BY <2>1, <2>3, <1>1, <1>4
    <3> QED BY <3>1 DEF Elements
  <2> QED BY <2>2, <2>3
<1>6. \A x \in Elements(Tail(s)) : x \in Elements(s)
  BY <1>1, <1>2 DEF Elements
<1>7. Head(s) \in Elements(s)
  BY <1>1, <1>3 DEF Elements
<1> QED BY <1>5, <1>6, <1>7

LEMMA ElementsEmpty == Elements(<<>>) = {}
BY DEF Elements

-----------------------------------------------------------------------------
(* The state the invariant speaks of. *)
sysVars == <<last, issued, epoch, subs, chan, dropped, conn, wire, dp>>

(* A publication, with what it leaves alone. *)
Issues(m) ==
  /\ m = [epoch |-> epoch, version |-> NextVersion, content |-> m.content]
  /\ last' = m
  /\ issued' = issued \cup {m}
  /\ chan' = [d \in DataPlane |-> IF d \in subs /\ Len(chan[d]) < ChanCap
                                  THEN Append(chan[d], m) ELSE chan[d]]
  /\ dropped' = [d \in DataPlane |-> \/ dropped[d]
                                     \/ d \in subs /\ Len(chan[d]) = ChanCap]
  /\ UNCHANGED <<epoch, subs, conn, wire, dp>>

(* Every step is one of nine kinds. *)
LEMMA StepKinds ==
  ASSUME DTypeInv, [DNext]_distVars
  PROVE  \/ UNCHANGED sysVars
         \/ \E m \in Set : Issues(m)
         \/ CrashUnderStreams
         \/ \E d \in DataPlane : StreamStep(d) \/ Break(d) \/ DPRestart(d)
<1> USE DEF sysVars, linkVars
<1>1. CASE PoolChange /\ UNCHANGED linkVars
  BY <1>1 DEF PoolChange
<1>2. ASSUME NEW p \in Publisher, Prepares(p), UNCHANGED linkVars
      PROVE  UNCHANGED sysVars
  BY <1>2 DEF Prepares, SetOverride, SetSetting, Persist, PersistFails, Fetch, FetchFails,
              ReadOverrides, ReadSettings
<1>3. CASE Tick /\ UNCHANGED linkVars
  BY <1>3 DEF Tick
<1>4. ASSUME NEW p \in Publisher, Publish(p), UNCHANGED linkVars
      PROVE  UNCHANGED sysVars \/ \E m \in Set : Issues(m)
  <2>1. CASE UNCHANGED <<last, issued, chan, dropped>>
    BY <1>4, <2>1 DEF Publish
  <2>2. CASE PublishSet(ContentOf(pub[p]))
    <3>1. PICK m \in Set : m = [epoch |-> epoch, version |-> NextVersion,
                                content |-> ContentOf(pub[p])]
      BY NextSetType
    <3>2. m.content = ContentOf(pub[p])
      BY <3>1
    <3>3. Issues(m)
      BY <1>4, <2>2, <3>1, <3>2 DEF PublishSet, Publish, Issues
    <3> QED BY <3>3
  <2> QED BY <1>4, <2>1, <2>2 DEF Publish
<1>5. CASE UNCHANGED distVars
  BY <1>5 DEF distVars
<1> QED
  BY <1>1, <1>2, <1>3, <1>4, <1>5
  DEF DNext, CPNext, PublisherStep, Prepares, Publisher

(* A publication keeps the invariant: the new set gets the next number and *)
(* enters every channel that has room.                                     *)
LEMMA IssueStep ==
  ASSUME DIInv, DTypeInv', NEW m \in Set, Issues(m)
  PROVE  DIInv'
<1>1. m.epoch = epoch /\ m.version = NextVersion /\ m # NoSet
  BY NoSetAssumption DEF Issues
<1>2. m.version \in Nat \ {0} /\ \A n \in issued : n.version \in Nat /\ n.epoch \in Nat
  BY DEF DIInv, DTypeInv, Set
<1>3. \A n \in issued : n.epoch = epoch => n.version < m.version
  <2>1. last # NoSet => last.version \in Nat
    BY DEF DIInv, DTypeInv, Set
  <2> QED BY <1>1, <1>2, <2>1 DEF DIInv, NumberInv, NextVersion
<1>4. ASSUME NEW d \in DataPlane
      PROVE  /\ InTransit(d)' \subseteq InTransit(d) \cup {m}
             /\ d \in subs /\ Len(chan[d]) < ChanCap => m \in InTransit(d)'
             /\ Len(chan[d]') <= ChanCap
  <2>1. chan[d] \in Seq(Set) /\ Len(chan[d]) \in Nat /\ Len(chan[d]) <= ChanCap
    BY DEF DIInv, DTypeInv, StreamInv
  <2>2. wire' = wire
    BY DEF Issues
  <2>3. CASE d \in subs /\ Len(chan[d]) < ChanCap
    <3>1. chan[d]' = Append(chan[d], m)
      BY <2>3 DEF Issues
    <3>2. Elements(chan[d]') = Elements(chan[d]) \cup {m}
      BY <2>1, <3>1, ElementsAppend
    <3>3. Len(chan[d]') <= ChanCap
      BY <2>1, <2>3, <3>1, ControlPlaneAssumption
    <3> QED BY <2>2, <3>2, <3>3 DEF InTransit
  <2>4. CASE ~(d \in subs /\ Len(chan[d]) < ChanCap)
    <3>1. chan[d]' = chan[d]
      BY <2>4 DEF Issues
    <3> QED BY <2>1, <2>2, <2>4, <3>1 DEF InTransit
  <2> QED BY <2>3, <2>4
<1>5. IssuedInv'
  BY <1>4 DEF DIInv, IssuedInv, Issues
<1>6. NumberInv'
  <2>1. \A n \in issued' : n.epoch <= epoch' /\ (n.epoch = epoch' => n.version <= m.version)
    BY <1>1, <1>2, <1>3 DEF DIInv, NumberInv, Issues, DTypeInv
  <2>2. \A n, k \in issued' : n.epoch = k.epoch /\ n.version = k.version => n = k
    BY <1>1, <1>2, <1>3 DEF DIInv, NumberInv, Issues
  <2> QED BY <1>1, <2>1, <2>2 DEF NumberInv, Issues
<1>7. StreamInv'
  BY <1>4 DEF DIInv, StreamInv, Issues
<1>8. NoLostUpdate'
  <2> SUFFICES ASSUME NEW d \in DataPlane, conn[d]' = "open", ~dropped[d]'
               PROVE  m \in InTransit(d)'
    BY DEF NoLostUpdate, Issues
  <2>1. d \in subs
    BY DEF DIInv, StreamInv, Issues
  <2>2. Len(chan[d]) # ChanCap
    BY <2>1 DEF Issues
  <2>3. Len(chan[d]) < ChanCap
    BY <2>2, ControlPlaneAssumption DEF DIInv, StreamInv, DTypeInv
  <2> QED BY <1>4, <2>1, <2>3
<1> QED BY <1>5, <1>6, <1>7, <1>8 DEF DIInv

(* A crash keeps it: no stream is open and no number of the new lifetime   *)
(* is taken.                                                               *)
LEMMA CrashStep ==
  ASSUME DIInv, DTypeInv', CrashUnderStreams
  PROVE  DIInv'
<1>1. last' = NoSet /\ issued' = issued /\ epoch' = epoch + 1 /\ dp' = dp
  BY DEF CrashUnderStreams, Crash
<1>2. \A d \in DataPlane : InTransit(d)' \subseteq InTransit(d) /\ Len(chan[d]') <= ChanCap
  BY ElementsEmpty, ControlPlaneAssumption DEF CrashUnderStreams, Crash, InTransit
<1>3. IssuedInv'
  BY <1>1, <1>2 DEF DIInv, IssuedInv
<1>4. NumberInv'
  <2>1. \A m \in issued : m.epoch \in Nat /\ m.epoch <= epoch /\ epoch \in Nat
    BY DEF DIInv, NumberInv, DTypeInv, Set
  <2>2. \A m \in issued : m.epoch <= epoch + 1 /\ m.epoch # epoch + 1
    BY <2>1
  <2> QED BY <1>1, <2>2 DEF DIInv, NumberInv
<1>5. StreamInv'
  BY <1>2 DEF StreamInv, CrashUnderStreams
<1>6. NoLostUpdate'
  BY <1>1 DEF NoLostUpdate
<1> QED BY <1>3, <1>4, <1>5, <1>6 DEF DIInv

LEMMA VersionType ==
  /\ \A m \in Set : m.version \in Nat \ {0}
  /\ Nothing.version = 0
BY DEF Set, Nothing

(* The steps of a stream keep it. *)
LEMMA StreamKeeps ==
  ASSUME DIInv, DTypeInv', NEW d \in DataPlane, StreamStep(d) \/ Break(d) \/ DPRestart(d)
  PROVE  DIInv'
<1> USE DEF cpVars
<1>1. last' = last /\ issued' = issued /\ epoch' = epoch
  BY DEF StreamStep, Subscribe, SendCurrent, Forward, Receive, Hangup, Break, DPRestart
<1>2. NumberInv'
  BY <1>1 DEF DIInv, NumberInv
<1>3. wire \in [DataPlane -> Seq(Set)] /\ chan \in [DataPlane -> Seq(Set)]
  BY DEF DIInv, DTypeInv
<1>4. StreamInv'
  <2>1. CASE Forward(d)
    <3>1. Len(Tail(chan[d])) <= ChanCap
      <4>1. Len(Tail(chan[d])) = Len(chan[d]) - 1 /\ Len(chan[d]) \in Nat
        BY <1>3, <2>1 DEF Forward
      <4> QED BY <4>1, ControlPlaneAssumption DEF DIInv, StreamInv
    <3> QED BY <1>3, <2>1, <3>1 DEF Forward, DIInv, StreamInv
  <2>2. CASE Subscribe(d) \/ Break(d) \/ DPRestart(d)
    <3>1. chan' = [chan EXCEPT ![d] = <<>>]
      BY <2>2 DEF Subscribe, Break, DPRestart
    <3>2. \A e \in DataPlane : Len(chan'[e]) <= ChanCap
      BY <1>3, <3>1, ControlPlaneAssumption DEF DIInv, StreamInv
    <3>3. /\ conn \in [DataPlane -> {"down", "registered", "open", "broken"}]
          /\ \A e \in DataPlane : conn[e] \in {"registered", "open"} => e \in subs
      BY DEF DIInv, DTypeInv, StreamInv
    <3>4. \A e \in DataPlane : conn'[e] \in {"registered", "open"} => e \in subs'
      <4>1. CASE Subscribe(d)
        BY <3>3, <4>1 DEF Subscribe
      <4>2. CASE Break(d)
        BY <3>3, <4>2 DEF Break
      <4>3. CASE DPRestart(d)
        BY <3>3, <4>3 DEF DPRestart
      <4> QED BY <2>2, <4>1, <4>2, <4>3
    <3> QED BY <3>2, <3>4 DEF StreamInv
  <2>3. CASE SendCurrent(d) \/ Receive(d) \/ Hangup(d)
    BY <2>3 DEF SendCurrent, Receive, Hangup, DIInv, DTypeInv, StreamInv
  <2> QED BY <2>1, <2>2, <2>3 DEF StreamStep
<1>5. ASSUME NEW e \in DataPlane, e # d
      PROVE  /\ InTransit(e)' = InTransit(e) /\ dp[e]' = dp[e]
             /\ conn[e]' = conn[e] /\ dropped[e]' = dropped[e]
  <2>1. wire[e]' = wire[e] /\ chan[e]' = chan[e]
    BY <1>3, <1>5
    DEF StreamStep, Subscribe, SendCurrent, Forward, Receive, Hangup, Break, DPRestart
  <2>2. dp[e]' = dp[e] /\ conn[e]' = conn[e] /\ dropped[e]' = dropped[e]
    <3>1. /\ conn \in [DataPlane -> {"down", "registered", "open", "broken"}]
          /\ dp \in [DataPlane -> Set \cup {Nothing}]
          /\ dropped \in [DataPlane -> BOOLEAN]
      BY DEF DIInv, DTypeInv
    <3>2. CASE Subscribe(d) \/ SendCurrent(d) \/ Forward(d) \/ Hangup(d) \/ Break(d)
      BY <1>5, <3>1, <3>2 DEF Subscribe, SendCurrent, Forward, Hangup, Break
    <3>3. CASE Receive(d) \/ DPRestart(d)
      BY <1>5, <3>1, <3>3 DEF Receive, DPRestart
    <3> QED BY <3>2, <3>3 DEF StreamStep
  <2> QED BY <2>1, <2>2 DEF InTransit
<1>6. SUFFICES /\ InTransit(d)' \subseteq issued
               /\ dp[d]' \in issued \cup {Nothing}
               /\ conn[d]' = "open" /\ ~dropped[d]' /\ last # NoSet =>
                    last \in InTransit(d)' \/ dp[d]'.version >= last.version
  <2>1. IssuedInv'
    BY <1>1, <1>5, <1>6 DEF DIInv, IssuedInv
  <2>2. NoLostUpdate'
    BY <1>1, <1>5, <1>6 DEF DIInv, NoLostUpdate
  <2> QED BY <1>2, <1>4, <2>1, <2>2 DEF DIInv
<1>7. InTransit(d) \subseteq issued /\ dp[d] \in issued \cup {Nothing}
  BY DEF DIInv, IssuedInv
<1>8. CASE Subscribe(d) \/ Hangup(d) \/ Break(d) \/ DPRestart(d)
  <2>1. conn[d]' # "open"
    BY <1>8 DEF Subscribe, Hangup, Break, DPRestart, DIInv, DTypeInv
  <2>2. wire[d]' \in {wire[d], <<>>} /\ chan[d]' \in {chan[d], <<>>}
    BY <1>3, <1>8 DEF Subscribe, Hangup, Break, DPRestart
  <2>3. dp[d]' \in {dp[d], Nothing}
    BY <1>8 DEF Subscribe, Hangup, Break, DPRestart, DIInv, DTypeInv
  <2> QED BY <1>7, <2>1, <2>2, <2>3, ElementsEmpty DEF InTransit
<1>9. CASE SendCurrent(d)
  <2>1. dp' = dp /\ chan' = chan
    BY <1>9 DEF SendCurrent
  <2>2. CASE last = NoSet
    BY <1>3, <1>7, <1>9, <2>1, <2>2 DEF SendCurrent, InTransit
  <2>3. CASE last # NoSet
    <3>1. last \in Set /\ last \in issued
      BY <2>3 DEF DIInv, DTypeInv, IssuedInv
    <3>2. wire[d]' = Append(wire[d], last)
      BY <1>3, <1>9, <2>3 DEF SendCurrent
    <3>3. Elements(wire[d]') = Elements(wire[d]) \cup {last}
      BY <1>3, <3>1, <3>2, ElementsAppend
    <3> QED BY <1>7, <2>1, <3>1, <3>3 DEF InTransit
  <2> QED BY <2>2, <2>3
<1>10. CASE Forward(d)
  <2>1. wire[d]' = Append(wire[d], Head(chan[d])) /\ chan[d]' = Tail(chan[d])
    BY <1>3, <1>10 DEF Forward
  <2>2. chan[d] # <<>> /\ Head(chan[d]) \in Set
    BY <1>3, <1>10 DEF Forward
  <2>3. Elements(wire[d]') = Elements(wire[d]) \cup {Head(chan[d])}
    BY <1>3, <2>1, <2>2, ElementsAppend
  <2>4. Elements(chan[d]) = {Head(chan[d])} \cup Elements(chan[d]')
    BY <1>3, <2>1, <2>2, ElementsTail
  <2>5. InTransit(d)' = InTransit(d)
    BY <2>3, <2>4 DEF InTransit
  <2> QED BY <1>7, <1>10, <2>5 DEF Forward, DIInv, NoLostUpdate
<1>11. CASE Receive(d)
  <2> DEFINE h == Head(wire[d])
  <2>1. wire[d]' = Tail(wire[d]) /\ chan' = chan /\ wire[d] # <<>>
    BY <1>3, <1>11 DEF Receive
  <2>2. Elements(wire[d]) = {h} \cup Elements(wire[d]')
    BY <1>3, <2>1, ElementsTail
  <2>3. InTransit(d) = {h} \cup InTransit(d)'
    BY <2>1, <2>2 DEF InTransit
  <2>4. dp[d]' = IF Accepts(dp[d], h) THEN h ELSE dp[d]
    BY <1>11 DEF Receive, DIInv, DTypeInv
  <2>5. h \in issued /\ dp[d]' \in issued \cup {Nothing}
    BY <1>7, <2>3, <2>4
  <2>6. ASSUME conn[d]' = "open", ~dropped[d]', last # NoSet
        PROVE  last \in InTransit(d)' \/ dp[d]'.version >= last.version
    <3>1. last \in InTransit(d) \/ dp[d].version >= last.version
      BY <1>11, <2>6 DEF Receive, DIInv, NoLostUpdate
    <3>2. last.version \in Nat \ {0} /\ h.version \in Nat /\ dp[d].version \in Nat
      <4>1. last \in Set /\ h \in Set /\ dp[d] \in Set \cup {Nothing}
        BY <2>5, <2>6 DEF DIInv, DTypeInv
      <4> HIDE DEF h
      <4> QED BY <4>1, VersionType
    <3> HIDE DEF h
    <3>3. CASE last = h
      <4>1. CASE Accepts(dp[d], h)
        <5>1. dp[d]' = last
          BY <2>4, <3>3, <4>1
        <5> QED BY <3>2, <5>1
      <4>2. CASE ~Accepts(dp[d], h)
        <5>1. dp[d].version >= h.version
          BY <3>2, <4>2 DEF Accepts
        <5>2. dp[d]' = dp[d]
          BY <2>4, <4>2
        <5> QED BY <3>3, <5>1, <5>2
      <4> QED BY <4>1, <4>2
    <3>4. CASE dp[d].version >= last.version
      <4>1. CASE Accepts(dp[d], h)
        <5>1. h.version >= last.version
          BY <3>2, <3>4, <4>1 DEF Accepts
        <5> QED BY <2>4, <4>1, <5>1
      <4>2. CASE ~Accepts(dp[d], h)
        BY <2>4, <3>4, <4>2
      <4> QED BY <4>1, <4>2
    <3> QED BY <2>3, <3>1, <3>3, <3>4
  <2> QED BY <1>7, <2>3, <2>5, <2>6
<1> QED BY <1>8, <1>9, <1>10, <1>11 DEF StreamStep

LEMMA DIStep == DIInv /\ [DNext]_distVars => DIInv'
<1> SUFFICES ASSUME DIInv, [DNext]_distVars PROVE DIInv'
  OBVIOUS
<1>1. DTypeInv /\ DTypeInv'
  BY DTypeStep DEF DIInv
<1>2. CASE UNCHANGED sysVars
  BY <1>1, <1>2
  DEF sysVars, DIInv, IssuedInv, NumberInv, StreamInv, NoLostUpdate, InTransit
<1> QED BY <1>1, <1>2, StepKinds, IssueStep, CrashStep, StreamKeeps

LEMMA DIInit == DInit => DIInv
<1> SUFFICES ASSUME DInit PROVE DIInv
  OBVIOUS
<1>1. DTypeInv
  BY DTypeInit
<1>2. \A d \in DataPlane : InTransit(d) = {} /\ Len(chan[d]) = 0 /\ dp[d] = Nothing
  BY ElementsEmpty DEF DInit, CPInit, InTransit
<1>3. IssuedInv /\ NumberInv
  BY <1>2 DEF DInit, CPInit, IssuedInv, NumberInv
<1>4. StreamInv /\ NoLostUpdate
  BY <1>2, ControlPlaneAssumption DEF DInit, CPInit, StreamInv, NoLostUpdate
<1> QED BY <1>1, <1>3, <1>4 DEF DIInv

(* No update is lost between subscribing, sending the current set and      *)
(* forwarding, whatever the publishers do meanwhile.                       *)
THEOREM UpdatesNotLost == DSpec => []NoLostUpdate
<1>1. DIInv => NoLostUpdate
  BY DEF DIInv
<1> QED BY <1>1, DIInit, DIStep, PTL DEF DSpec

(* One lifetime never gives one number to two sets. *)
THEOREM NumbersUnique == DSpec => []VersionsUnique
<1>1. DIInv => VersionsUnique
  <2> SUFFICES ASSUME DIInv PROVE VersionsUnique
    OBVIOUS
  <2>1. \A n \in issued : n.epoch # Nothing.epoch
    BY DEF DIInv, DTypeInv, Set, Nothing
  <2> QED BY <2>1 DEF DIInv, IssuedInv, NumberInv, VersionsUnique
<1> QED BY <1>1, DIInit, DIStep, PTL DEF DSpec

-----------------------------------------------------------------------------
(* The register's value of latest. *)
Latest == IF last = NoSet THEN 0 ELSE last.version

LEMMA RegisterStep ==
  ASSUME DIInv, DIInv', [DNext]_distVars
  PROVE  [Register!RegNext]_(Register!regVars)
<1> USE DEF Register!regVars, cpVars
<1>1. CASE UNCHANGED sysVars
  BY <1>1 DEF sysVars
<1>2. ASSUME NEW m \in Set, Issues(m) PROVE Register!RegNext
  <2>1. m # NoSet /\ m.content \in Content
    BY NoSetAssumption DEF Set
  <2>2. m = [epoch |-> epoch, version |-> Latest + 1, content |-> m.content]
    BY <1>2 DEF Issues, NextVersion, Latest
  <2>3. Latest' = Latest + 1
    <3>1. m.version = Latest + 1
      BY <2>2
    <3> QED BY <1>2, <2>1, <3>1 DEF Issues, Latest
  <2>4. Register!Issue(m.content)
    BY <1>2, <2>2, <2>3 DEF Issues, Register!Issue, Latest
  <2> QED BY <2>1, <2>4 DEF Register!RegNext
<1>3. CASE CrashUnderStreams
  BY <1>3 DEF CrashUnderStreams, Crash, Register!Restart, Register!RegNext
<1>4. ASSUME NEW d \in DataPlane, DPRestart(d) PROVE Register!RegNext
  <2>1. Register!Forget(d)
    BY <1>4 DEF DPRestart, Register!Forget, Register!Nothing, Nothing
  <2> QED BY <2>1 DEF Register!RegNext
<1>5. ASSUME NEW d \in DataPlane,
             Subscribe(d) \/ SendCurrent(d) \/ Forward(d) \/ Hangup(d) \/ Break(d)
      PROVE  UNCHANGED <<epoch, last, issued, dp>>
  BY <1>5 DEF Subscribe, SendCurrent, Forward, Hangup, Break
<1>6. ASSUME NEW d \in DataPlane, Receive(d)
      PROVE  Register!RegNext \/ UNCHANGED <<epoch, last, issued, dp>>
  <2> DEFINE h == Head(wire[d])
  <2>1. h \in issued /\ h \in Set
    <3>1. wire[d] \in Seq(Set) /\ wire[d] # <<>>
      BY <1>6 DEF Receive, DIInv, DTypeInv
    <3>2. h \in Elements(wire[d])
      BY <3>1, ElementsTail
    <3> QED BY <3>2 DEF InTransit, DIInv, DTypeInv, IssuedInv
  <2>2. CASE Accepts(dp[d], h)
    <3>1. h.version > dp[d].version
      <4>1. dp[d] \in Set \cup {Nothing}
        BY DEF DIInv, DTypeInv
      <4> HIDE DEF h
      <4> QED BY <2>1, <2>2, <4>1, VersionType DEF Accepts
    <3>2. dp' = [dp EXCEPT ![d] = h] /\ UNCHANGED <<epoch, last, issued>>
      BY <1>6, <2>2 DEF Receive
    <3>3. Register!Adopt(d, h)
      BY <3>1, <3>2 DEF Register!Adopt
    <3> QED BY <2>1, <3>3 DEF Register!RegNext
  <2>3. CASE ~Accepts(dp[d], h)
    BY <1>6, <2>3 DEF Receive, DIInv, DTypeInv
  <2> QED BY <2>2, <2>3
<1>7. UNCHANGED <<epoch, last, issued, dp>> => UNCHANGED Register!regVars
  OBVIOUS
<1> QED
  BY <1>1, <1>2, <1>3, <1>4, <1>5, <1>6, <1>7, StepKinds DEF StreamStep, DIInv

(* Distribution implements the register: within a lifetime versions count  *)
(* up one by one, and a data plane only moves to an issued set with a      *)
(* higher version.                                                         *)
THEOREM DistributionImplementsRegister == DSpec => ImplementsRegister
<1>1. DInit => Register!RegInit
  BY DEF DInit, CPInit, Register!RegInit, Register!Nothing, Nothing
<1>2. DIInv /\ DIInv' /\ [DNext]_distVars => [Register!RegNext]_(Register!regVars)
  BY RegisterStep
<1> QED
  BY <1>1, <1>2, DIInit, DIStep, PTL DEF DSpec, ImplementsRegister, Register!RegSpec

=============================================================================
