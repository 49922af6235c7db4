---------------------------- MODULE ControlPlane ----------------------------
(***************************************************************************)
(* The control plane's view of one group (internal/controlplane/server.go  *)
(* and its stores): the provider's backends, the administrator's overrides *)
(* and settings, and the versioned set last published, with the reconcile  *)
(* loop and the administrator's handlers publishing concurrently.          *)
(*                                                                         *)
(* Grain of atomicity.  A publication reads the provider, then the         *)
(* overrides, then the settings, each under its own lock, and only then    *)
(* takes s.mu to number and send the result: Fetch, ReadOverrides,         *)
(* ReadSettings, Publish, with every other step allowed in between.        *)
(*                                                                         *)
(* Abstractions.  setting is the group's algorithm, sticky and rate-limit  *)
(* configuration together: each is stored, read, sent and left out of      *)
(* backendSetsEqual in the same way.  A store's Set changes memory and     *)
(* clones it under the store's lock, and writes the clone after unlocking. *)
(* The provider reports every address once, with weight one.               *)
(***************************************************************************)
EXTENDS Integers, FiniteSets, Sequences

CONSTANTS
  DataPlane,        \* data-plane instances
  Address,          \* addresses the provider may report
  Weight,           \* weights an override may set
  Setting,          \* values of the algorithm, sticky and rate-limit settings
  DefaultSetting,   \* what the stores return when nothing was set
  Admin,            \* concurrent administrator requests
  NoSet,            \* no set published yet
  ChanCap,          \* capacity of a subscriber's channel (4 in the code)
  FailuresPossible, \* may persisting and the provider fail?
  MaxChanges,       \* bound: changes of the pool and by administrators
  MaxCrashes        \* bound: control-plane crashes

ASSUME ControlPlaneAssumption ==
  /\ Weight \subseteq Nat
  /\ DefaultSetting \in Setting
  /\ ChanCap \in Nat \ {0}
  /\ FailuresPossible \in BOOLEAN
  /\ MaxChanges \in Nat /\ MaxCrashes \in Nat
  /\ "reconcile" \notin Admin

Publisher == {"reconcile"} \cup Admin

VARIABLES
  pool,        \* addresses the provider reports
  overrides,   \* address -> override in memory
  setting,     \* settings in memory
  disk,        \* what the stores have persisted
  last,        \* s.last[group]
  pub,         \* publisher -> its step and what it has read so far
  subs,        \* data planes whose stream is registered in s.subs[group]
  chan,        \* data plane -> its subscriber channel
  dropped,     \* history: did its channel drop an update of this stream?
  changes,     \* bound: changes so far
  epoch,       \* history: lifetimes of the process
  issued       \* history: every set ever published

cpVars == <<pool, overrides, setting, disk, last, pub, subs, chan, dropped,
            changes, epoch, issued>>

NoWeight == -1

NoOverride == [drained |-> FALSE, weight |-> NoWeight]

Drained == [drained |-> TRUE, weight |-> NoWeight]

(* What the drain, set_weight and clear actions leave for an address. *)
Override == {NoOverride, Drained} \cup [drained : {FALSE}, weight : Weight]

Overrides == [Address -> Override]

NoOverrides == [a \in Address |-> NoOverride]

(* A publisher at a step, with what it has read or has yet to write. *)
At(step, p, ov, s) == [step |-> step, pool |-> p, overrides |-> ov, setting |-> s]

Idle == At("idle", {}, NoOverrides, DefaultSetting)

-----------------------------------------------------------------------------
(* snapshotToBackendSet: drained addresses are left out, an overridden     *)
(* weight replaces the provider's.                                         *)
BackendsOf(p, ov) ==
  [a \in {b \in p : ~ov[b].drained} |-> IF ov[a].weight = NoWeight
                                   THEN 1 ELSE ov[a].weight]

ContentOf(r) == [backends |-> BackendsOf(r.pool, r.overrides), setting |-> r.setting]

(* Mutant: backends that are gone are not looked for. *)
BackendSetsCovered(prev, c) ==
  prev # NoSet /\ DOMAIN c.backends \subseteq DOMAIN prev.content.backends

(* backendSetsEqual: addresses and weights, nothing else. *)
BackendSetsEqual(prev, c) == prev # NoSet /\ prev.content.backends = c.backends

NextVersion == IF last = NoSet THEN 1 ELSE last.version + 1

CPInit ==
  /\ pool \in SUBSET Address
  /\ overrides = NoOverrides
  /\ setting = DefaultSetting
  /\ disk = [overrides |-> overrides, setting |-> setting]
  /\ last = NoSet
  /\ pub = [p \in Publisher |-> Idle]
  /\ subs = {}
  /\ chan = [d \in DataPlane |-> <<>>]
  /\ dropped = [d \in DataPlane |-> FALSE]
  /\ changes = 0
  /\ epoch = 1
  /\ issued = {}

(* Instances come and go. *)
PoolChange ==
  /\ changes < MaxChanges
  /\ \E p \in SUBSET Address : p # pool /\ pool' = p
  /\ changes' = changes + 1
  /\ UNCHANGED <<overrides, setting, disk, last, pub, subs, chan, dropped, epoch, issued>>

(* OverrideStore.Set and Clear up to the unlock: memory changes and the    *)
(* publisher holds the clone it has yet to write.                          *)
SetOverride(p, a, ov) ==
  /\ pub[p].step = "idle"
  /\ changes < MaxChanges
  /\ changes' = changes + 1
  /\ overrides' = [overrides EXCEPT ![a] = ov]
  /\ pub' = [pub EXCEPT ![p] = At("saveOverrides", {}, overrides', DefaultSetting)]
  /\ UNCHANGED <<pool, setting, disk, last, subs, chan, dropped, epoch, issued>>

(* The Set of the algorithm, sticky and rate-limit stores. *)
SetSetting(p, s) ==
  /\ pub[p].step = "idle"
  /\ changes < MaxChanges
  /\ changes' = changes + 1
  /\ setting' = s
  /\ pub' = [pub EXCEPT ![p] = At("saveSetting", {}, NoOverrides, s)]
  /\ UNCHANGED <<pool, overrides, disk, last, subs, chan, dropped, epoch, issued>>

(* persist renames the new file into place and the handler goes on to      *)
(* forceRepublish.                                                         *)
Persist(p) ==
  /\ pub[p].step \in {"saveOverrides", "saveSetting"}
  /\ disk' = IF pub[p].step = "saveOverrides"
             THEN [disk EXCEPT !.overrides = pub[p].overrides]
             ELSE [disk EXCEPT !.setting = pub[p].setting]
  /\ pub' = [pub EXCEPT ![p] = At("fetch", {}, NoOverrides, DefaultSetting)]
  /\ UNCHANGED <<pool, overrides, setting, last, subs, chan, dropped,
                 changes, epoch, issued>>

(* persist fails: the handler returns the error, memory stays changed and  *)
(* nothing is published.                                                   *)
PersistFails(p) ==
  /\ pub[p].step \in {"saveOverrides", "saveSetting"}
  /\ pub' = [pub EXCEPT ![p] = Idle]
  /\ UNCHANGED <<pool, overrides, setting, disk, last, subs, chan, dropped,
                 changes, epoch, issued>>

(* reconcileGroup starts on a tick; its publisher is otherwise idle. *)
Tick ==
  /\ pub["reconcile"].step = "idle"
  /\ pub' = [pub EXCEPT !["reconcile"] = At("fetch", {}, NoOverrides, DefaultSetting)]
  /\ UNCHANGED <<pool, overrides, setting, disk, last, subs, chan, dropped,
                 changes, epoch, issued>>

(* provider.Snapshot *)
Fetch(p) ==
  /\ pub[p].step = "fetch"
  /\ pub' = [pub EXCEPT ![p] = At("overrides", pool, NoOverrides, DefaultSetting)]
  /\ UNCHANGED <<pool, overrides, setting, disk, last, subs, chan, dropped,
                 changes, epoch, issued>>

(* provider.Snapshot fails: the publication is given up. *)
FetchFails(p) ==
  /\ pub[p].step = "fetch"
  /\ pub' = [pub EXCEPT ![p] = Idle]
  /\ UNCHANGED <<pool, overrides, setting, disk, last, subs, chan, dropped,
                 changes, epoch, issued>>

(* overrides.GroupOverrides *)
ReadOverrides(p) ==
  /\ pub[p].step = "overrides"
  /\ pub' = [pub EXCEPT ![p] = At("settings", pub[p].pool, overrides, DefaultSetting)]
  /\ UNCHANGED <<pool, overrides, setting, disk, last, subs, chan, dropped,
                 changes, epoch, issued>>

(* algorithms.Get, sticky.Get, rateLimits.Get *)
ReadSettings(p) ==
  /\ pub[p].step = "settings"
  /\ pub' = [pub EXCEPT ![p] = At("publish", pub[p].pool, pub[p].overrides, setting)]
  /\ UNCHANGED <<pool, overrides, setting, disk, last, subs, chan, dropped,
                 changes, epoch, issued>>

(* Number the set and offer it to every subscriber without blocking: a     *)
(* full channel drops it.                                                  *)
PublishSet(c) ==
  LET next == [epoch |-> epoch, version |-> NextVersion, content |-> c] IN
  /\ last' = next
  /\ issued' = issued \cup {next}
  /\ chan' = [d \in DataPlane |-> IF d \in subs /\ Len(chan[d]) < ChanCap
                                  THEN Append(chan[d], next) ELSE chan[d]]
  /\ dropped' = [d \in DataPlane |-> \/ dropped[d]
                                     \/ d \in subs /\ Len(chan[d]) = ChanCap]

(* forceRepublish for administrators, publishIfChanged for the loop. *)
Publish(p) ==
  /\ pub[p].step = "publish"
  /\ IF p = "reconcile" /\ BackendSetsEqual(last, ContentOf(pub[p]))
     THEN UNCHANGED <<last, issued, chan, dropped>>
     ELSE PublishSet(ContentOf(pub[p]))
  /\ pub' = [pub EXCEPT ![p] = Idle]
  /\ UNCHANGED <<pool, overrides, setting, disk, subs, changes, epoch>>

(* The process dies and starts again: the stores come back from disk, the  *)
(* published set and its version do not.                                   *)
Crash ==
  /\ epoch <= MaxCrashes
  /\ epoch' = epoch + 1
  /\ overrides' = disk.overrides
  /\ setting' = disk.setting
  /\ last' = NoSet
  /\ pub' = [p \in Publisher |-> Idle]
  /\ subs' = {}
  /\ chan' = [d \in DataPlane |-> <<>>]
  /\ dropped' = [d \in DataPlane |-> FALSE]
  /\ UNCHANGED <<pool, disk, changes, issued>>

PublisherStep(p) ==
  \/ Persist(p)
  \/ Fetch(p)
  \/ ReadOverrides(p)
  \/ ReadSettings(p)
  \/ Publish(p)

CPNext ==
  \/ PoolChange
  \/ \E p \in Admin : \/ \E a \in Address, ov \in Override : SetOverride(p, a, ov)
                      \/ \E s \in Setting : SetSetting(p, s)
  \/ Tick
  \/ \E p \in Publisher : PublisherStep(p)
  \/ FailuresPossible /\ \E p \in Publisher : PersistFails(p) \/ FetchFails(p)

=============================================================================
