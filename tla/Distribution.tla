---------------------------- MODULE Distribution ----------------------------
(***************************************************************************)
(* StreamBackends and its client together: the control plane of            *)
(* ControlPlane, one stream per data plane (server.go StreamBackends,      *)
(* internal/dataplane/subscriber.go) and the version rule of               *)
(* BackendList.Update at the far end.                                      *)
(*                                                                         *)
(* A stream is registered before the current set is read, and both are     *)
(* separate steps.  wire is what the transport holds; it is in order, and  *)
(* what it holds when the stream breaks may still be received.  The        *)
(* handler of a broken stream unregisters in the step that breaks it: its  *)
(* channel has no reader left, so nothing can tell.                        *)
(***************************************************************************)
EXTENDS ControlPlane

CONSTANTS
  NoContent,      \* what a data plane without a set has
  WireCap,        \* bound: messages in flight on one stream
  MaxBreaks,      \* bound: stream breaks and data-plane restarts
  MaxFaults       \* bound: breaks and crashes together

ASSUME DistributionAssumption == WireCap \in Nat \ {0} /\ MaxBreaks \in Nat /\ MaxFaults \in Nat

VARIABLES
  conn,           \* data plane -> state of its stream
  wire,           \* data plane -> messages sent and not yet received
  dp,             \* data plane -> the set it holds
  breaks          \* bound: breaks and restarts so far

linkVars == <<conn, wire, dp, breaks>>
distVars == <<pool, overrides, setting, disk, last, pub, subs, chan, dropped,
              changes, epoch, issued, conn, wire, dp, breaks>>

Nothing == [epoch |-> 0, version |-> 0, content |-> NoContent]

FaultLeft == breaks + epoch - 1 < MaxFaults

DInit ==
  /\ CPInit
  /\ conn = [d \in DataPlane |-> "down"]
  /\ wire = [d \in DataPlane |-> <<>>]
  /\ dp = [d \in DataPlane |-> Nothing]
  /\ breaks = 0

-----------------------------------------------------------------------------
(* StreamBackends: subscribe a fresh channel. *)
Subscribe(d) ==
  /\ conn[d] = "down"
  /\ conn' = [conn EXCEPT ![d] = "registered"]
  /\ subs' = subs \cup {d}
  /\ chan' = [chan EXCEPT ![d] = <<>>]
  /\ dropped' = [dropped EXCEPT ![d] = FALSE]
  /\ UNCHANGED <<pool, overrides, setting, disk, last, pub, changes, epoch, issued,
                 wire, dp, breaks>>

(* Mutant: the current set is not sent. *)
SendCurrentSkipped(d) ==
  /\ conn[d] = "registered"
  /\ conn' = [conn EXCEPT ![d] = "open"]
  /\ UNCHANGED <<cpVars, wire, dp, breaks>>

(* StreamBackends: send the current set, if there is one. *)
SendCurrent(d) ==
  /\ conn[d] = "registered"
  /\ conn' = [conn EXCEPT ![d] = "open"]
  /\ wire' = [wire EXCEPT ![d] = IF last = NoSet THEN @ ELSE Append(@, last)]
  /\ UNCHANGED <<cpVars, dp, breaks>>

(* StreamBackends: send what the channel holds; Send blocks while the      *)
(* transport is full.                                                      *)
Forward(d) ==
  /\ conn[d] = "open"
  /\ chan[d] # <<>>
  /\ Len(wire[d]) < WireCap
  /\ wire' = [wire EXCEPT ![d] = Append(@, Head(chan[d]))]
  /\ chan' = [chan EXCEPT ![d] = Tail(@)]
  /\ UNCHANGED <<pool, overrides, setting, disk, last, pub, subs, dropped,
                 changes, epoch, issued, conn, dp, breaks>>

(* Mutant: every set that arrives is taken. *)
AcceptsAll(held, m) == TRUE

(* BackendList.Update ignores a set that is not newer than the one held. *)
Accepts(held, m) == m.version > held.version \/ held.version = 0

(* streamOnce: Recv, then Update. *)
Receive(d) ==
  /\ wire[d] # <<>>
  /\ wire' = [wire EXCEPT ![d] = Tail(@)]
  /\ dp' = [dp EXCEPT ![d] = IF Accepts(@, Head(wire[d])) THEN Head(wire[d]) ELSE @]
  /\ UNCHANGED <<cpVars, conn, breaks>>

(* The connection is lost. *)
Break(d) ==
  /\ breaks < MaxBreaks /\ FaultLeft
  /\ breaks' = breaks + 1
  /\ conn[d] \in {"registered", "open"}
  /\ conn' = [conn EXCEPT ![d] = "broken"]
  /\ subs' = subs \ {d}
  /\ chan' = [chan EXCEPT ![d] = <<>>]
  /\ UNCHANGED <<pool, overrides, setting, disk, last, pub, dropped, changes,
                 epoch, issued, wire, dp>>

(* Recv returns the error, streamOnce closes the connection and Run backs  *)
(* off before the next attempt.                                            *)
Hangup(d) ==
  /\ conn[d] = "broken"
  /\ conn' = [conn EXCEPT ![d] = "down"]
  /\ wire' = [wire EXCEPT ![d] = <<>>]
  /\ UNCHANGED <<cpVars, dp, breaks>>

(* The data-plane process restarts with an empty list. *)
DPRestart(d) ==
  /\ breaks < MaxBreaks /\ FaultLeft
  /\ breaks' = breaks + 1
  /\ conn' = [conn EXCEPT ![d] = "down"]
  /\ wire' = [wire EXCEPT ![d] = <<>>]
  /\ dp' = [dp EXCEPT ![d] = Nothing]
  /\ subs' = subs \ {d}
  /\ chan' = [chan EXCEPT ![d] = <<>>]
  /\ UNCHANGED <<pool, overrides, setting, disk, last, pub, dropped, changes,
                 epoch, issued>>

(* The control plane crashes under its streams. *)
CrashUnderStreams ==
  /\ FaultLeft
  /\ Crash
  /\ conn' = [d \in DataPlane |-> IF conn[d] = "down" THEN "down" ELSE "broken"]
  /\ UNCHANGED <<wire, dp, breaks>>

StreamStep(d) ==
  \/ Subscribe(d)
  \/ SendCurrent(d)
  \/ Forward(d)
  \/ Receive(d)
  \/ Hangup(d)

DNext ==
  \/ CPNext /\ UNCHANGED linkVars
  \/ CrashUnderStreams
  \/ \E d \in DataPlane : StreamStep(d) \/ Break(d) \/ DPRestart(d)

DSpec == DInit /\ [][DNext]_distVars

(* The reconcile ticker keeps firing, handlers and streams run on, a data  *)
(* plane retries for ever (Run's loop), and a provider that is asked again *)
(* and again answers again and again.                                      *)
DFairSpec ==
  /\ DSpec
  /\ WF_distVars(Tick /\ UNCHANGED linkVars)
  /\ \A p \in Publisher :
       /\ WF_distVars(PublisherStep(p) /\ UNCHANGED linkVars)
       /\ SF_distVars(Fetch(p) /\ UNCHANGED linkVars)
  /\ \A d \in DataPlane : WF_distVars(StreamStep(d))

-----------------------------------------------------------------------------
(* Properties *)

Content == [backends : UNION {[S -> {1} \cup Weight] : S \in SUBSET Address},
            setting : Setting]

Set == [epoch : 1..(MaxCrashes + 1), version : Nat \ {0}, content : Content]

PubState == [step : {"idle", "saveOverrides", "saveSetting", "fetch", "overrides",
                     "settings", "publish"},
             pool : SUBSET Address, overrides : Overrides, setting : Setting]

(* Every variable has its type. *)
DTypeInv ==
  /\ pool \subseteq Address
  /\ overrides \in Overrides /\ setting \in Setting
  /\ disk \in [overrides : Overrides, setting : Setting]
  /\ last \in Set \cup {NoSet}
  /\ pub \in [Publisher -> PubState]
  /\ subs \subseteq DataPlane
  /\ chan \in [DataPlane -> Seq(Set)] /\ wire \in [DataPlane -> Seq(Set)]
  /\ dropped \in [DataPlane -> BOOLEAN]
  /\ changes \in 0..MaxChanges /\ epoch \in 1..(MaxCrashes + 1)
  /\ issued \subseteq Set
  /\ conn \in [DataPlane -> {"down", "registered", "open", "broken"}]
  /\ dp \in [DataPlane -> Set \cup {Nothing}]
  /\ breaks \in 0..MaxBreaks

(* The nil that stands for no published set is not a set. *)
ASSUME NoSetAssumption == NoSet \notin Set

(* The sets a sequence holds, and those on their way to a data plane. *)
Elements(s) == {s[i] : i \in 1..Len(s)}

InTransit(d) == Elements(wire[d]) \cup Elements(chan[d])

(* No lost update: on an open stream whose channel has dropped nothing,    *)
(* the set published last is on its way or the data plane already counts   *)
(* as up to date, whatever the order in which it subscribed, was sent the  *)
(* current set, and the publishers published.                              *)
NoLostUpdate ==
  \A d \in DataPlane :
    conn[d] = "open" /\ ~dropped[d] /\ last # NoSet =>
      last \in InTransit(d) \/ dp[d].version >= last.version

(* Sets with one epoch and number are one set: concurrent publishers never *)
(* give the same version to different contents, on the wire or in a data   *)
(* plane.                                                                  *)
VersionsUnique ==
  \A d \in DataPlane :
    \A m \in issued \cup {dp[d]} \cup InTransit(d), n \in issued :
      m.epoch = n.epoch /\ m.version = n.version => m = n

(* The control plane, its streams and the version rule implement the       *)
(* register: versions count up one by one within a lifetime, and a data    *)
(* plane only ever moves to an issued set with a higher version.           *)
Register == INSTANCE ConfigRegister WITH
  latest <- IF last = NoSet THEN 0 ELSE last.version,
  held <- dp

ImplementsRegister == Register!RegSpec

(* What the provider and the administrator say now. *)
Effective == BackendsOf(pool, overrides)

(* Once nothing changes any more, the published backends are the           *)
(* provider's with the overrides applied, although stale publications may  *)
(* win for a while and a failed persist publishes nothing.                 *)
BackendsConverge ==
  <>[](last # NoSet /\ last.content.backends = Effective)

(* A data plane whose stream stays open without dropping ends up with what *)
(* the control plane published last.                                       *)
CatchesUp ==
  \A d \in DataPlane :
    <>[](conn[d] = "open" /\ ~dropped[d]) =>
      <>[](last # NoSet /\ dp[d].content = last.content)

(* The same with restarts: such a data plane ends up with what was         *)
(* published last, or else with a set of an earlier lifetime whose version *)
(* the new one has not overtaken.                                          *)
CatchesUpOrAhead ==
  \A d \in DataPlane :
    <>[](conn[d] = "open" /\ ~dropped[d]) =>
      <>[](/\ last # NoSet
           /\ \/ dp[d].content = last.content
              \/ dp[d].epoch < last.epoch /\ dp[d].version >= last.version)

=============================================================================
