----------------------------- MODULE Providers ------------------------------
(***************************************************************************)
(* The providers that ask the outside world what to serve: Kubernetes      *)
(* endpoint slices, Azure scale sets and the simulated pool                *)
(* (internal/pool/kubernetes.go, azurevmss.go, fake.go), for one group     *)
(* each, while pods, instances and simulated backends come and go.         *)
(*                                                                         *)
(* Grain of atomicity.  A Kubernetes snapshot is one listing; an Azure     *)
(* snapshot is two, instances and then network interfaces, with changes in *)
(* between; a simulated scaling event and a snapshot each hold p.mu.       *)
(*                                                                         *)
(* Abstractions.  Pages of a listing are joined, and an instance has one   *)
(* interface.  A condition is TRUE, FALSE or Unset.  A group's port is     *)
(* left out of the addresses.                                              *)
(***************************************************************************)
EXTENDS Integers, Sequences, FiniteSetsExt

CONSTANTS
  IP,            \* addresses of pods and instances
  NoIP,          \* the empty address
  Unset,         \* a condition the API leaves out
  Instance,      \* instance IDs of the scale set
  IPConfigs,     \* configurations an interface may have: address, primary
  ConfigWeight,  \* weights a group may be configured with
  FakeGroup,     \* groups of the simulated pool
  InitialCount,  \* how many backends each of them starts with
  MinPerGroup,   \* bounds of the simulated scaling
  MaxPerGroup,
  MaxEvents      \* bound: changes of the outside world

ASSUME ProvidersAssumption ==
  /\ NoIP \notin IP
  /\ ConfigWeight \subseteq Int
  /\ IPConfigs \subseteq Seq([ip : IP \cup {NoIP}, primary : BOOLEAN])
  /\ IsFiniteSet(IP) /\ IsFiniteSet(Instance) /\ IsFiniteSet(FakeGroup)
  /\ MinPerGroup \in Nat /\ MaxPerGroup \in Nat /\ MaxEvents \in Nat
  /\ InitialCount \in [FakeGroup -> MinPerGroup..MaxPerGroup]

VARIABLES
  weight,    \* the group's weight, as configured
  slices,    \* the service's endpoint slices: IP, slice -> its endpoint
  vms,       \* instance -> provisioning, power, configurations of its interface
  asking,    \* the Azure snapshot under way: its step and running instances
  fake,      \* p.groups of the simulated pool: group -> ports
  report,    \* what the last snapshot of each provider reported
  events     \* bound: changes so far

pvVars == <<weight, slices, vms, asking, fake, report, events>>

Slice == {1, 2}
Condition == {TRUE, FALSE, Unset}
NoEndpoint == [ready |-> FALSE, terminating |-> Unset]
Gone == [provisioned |-> FALSE, running |-> FALSE, configs |-> <<>>]
NotAsking == [step |-> "idle", ids |-> {}]

(* Both constructors: a weight that is not positive is one. *)
GroupWeight == IF weight <= 0 THEN 1 ELSE weight

Backends(ips) == [i \in DOMAIN ips |-> [address |-> ips[i], weight |-> GroupWeight]]

(* The orders a map, a slice or a listing may give a set in. *)
Orders(S) == Injection(1..Cardinality(S), S)

(* append(s[:i], s[i+1:]...) *)
Without(s, i) == SubSeq(s, 1, i - 1) \o SubSeq(s, i + 1, Len(s))

(* NewFakeProvider numbers the ports of all groups in one sequence; the    *)
(* order of the groups is that of a map, and first are the groups' first   *)
(* ports in that order.                                                    *)
NumberedFrom(base, n) == [i \in 1..n |-> base + i - 1]

FirstPorts(order) ==
  {first \in [DOMAIN order -> 0..MaxPerGroup * Cardinality(FakeGroup)] :
     \A k \in DOMAIN order :
       first[k] = IF k = 1 THEN 0 ELSE first[k - 1] + InitialCount[order[k - 1]]}

PVInit ==
  /\ weight \in ConfigWeight
  /\ slices = [s \in Slice |-> [p \in IP |-> NoEndpoint]]
  /\ vms = [i \in Instance |-> Gone]
  /\ asking = NotAsking
  /\ \E order \in Orders(FakeGroup) : \E first \in FirstPorts(order) :
       fake = [g \in FakeGroup |-> LET k == CHOOSE k \in DOMAIN order : order[k] = g
                                  IN  NumberedFrom(first[k], InitialCount[g])]
  /\ report = [kube |-> <<>>, azure |-> <<>>]
  /\ events = 0

OutsideEvent == events < MaxEvents /\ events' = events + 1

-----------------------------------------------------------------------------
(* Kubernetes *)

(* The control loop of the cluster sets an endpoint in one of the slices; *)
(* the same address may be in both, with different conditions.            *)
EndpointChange(s, p) ==
  /\ OutsideEvent
  /\ \E r \in Condition, t \in Condition :
       slices' = [slices EXCEPT ![s][p] = [ready |-> r, terminating |-> t]]
  /\ UNCHANGED <<weight, vms, asking, fake, report>>

endpointReady(ep) == ep.ready # FALSE /\ ep.terminating # TRUE

(* Snapshot: the slices one after the other, each in its own order, an     *)
(* address already seen is skipped.                                        *)
KubernetesSnapshot ==
  LET inSlice(s) == {p \in IP : endpointReady(slices[s][p])} IN
  \E first \in Orders(inSlice(1)), more \in Orders(inSlice(2) \ inSlice(1)) :
    /\ report' = [report EXCEPT !.kube = Backends(first \o more)]
    /\ UNCHANGED <<weight, slices, vms, asking, fake, events>>

-----------------------------------------------------------------------------
(* Azure *)

Addresses(configs) == {c.ip : c \in Range(configs)} \ {NoIP}

(* An instance is created, provisioned, started, given an interface with   *)
(* free addresses, stopped or deleted.                                     *)
InstanceChange(i) ==
  /\ OutsideEvent
  /\ \E configs \in IPConfigs, p \in BOOLEAN, r \in BOOLEAN :
       /\ \A j \in Instance \ {i} : Addresses(configs) \cap Addresses(vms[j].configs) = {}
       /\ vms' = [vms EXCEPT ![i] = [provisioned |-> p, running |-> r, configs |-> configs]]
  /\ UNCHANGED <<weight, slices, asking, fake, report>>

isRunning(i) == vms[i].provisioned /\ vms[i].running

(* Snapshot: the instances that run. *)
ListRunning ==
  /\ asking.step = "idle"
  /\ asking' = [step |-> "interfaces", ids |-> {i \in Instance : isRunning(i)}]
  /\ UNCHANGED <<weight, slices, vms, fake, report, events>>

(* The primary configuration's address, or the first that has one. *)
primaryPrivateIP(configs) ==
  LET usable == {k \in DOMAIN configs : configs[k].ip # NoIP}
      primary == {k \in usable : configs[k].primary}
  IN  IF usable = {} THEN NoIP
      ELSE configs[Min(IF primary = {} THEN usable ELSE primary)].ip

listPrivateIPs == [i \in Instance |-> primaryPrivateIP(vms[i].configs)]

(* Snapshot: the interfaces, matched to those instances in the order they  *)
(* were listed in; one that has no address is skipped.                     *)
ListInterfaces ==
  LET ips == listPrivateIPs IN
  /\ asking.step = "interfaces"
  /\ \E found \in Orders({i \in asking.ids : ips[i] # NoIP}) :
       report' = [report EXCEPT !.azure = Backends([k \in DOMAIN found |-> ips[found[k]]])]
  /\ asking' = NotAsking
  /\ UNCHANGED <<weight, slices, vms, fake, events>>

(* Either listing fails. *)
ListingFails ==
  /\ asking' = NotAsking
  /\ asking.step = "interfaces"
  /\ UNCHANGED <<weight, slices, vms, fake, report, events>>

-----------------------------------------------------------------------------
(* The simulated pool *)

(* Mutant: only the group's own ports are looked at. *)
nextPortOwn(g) == CHOOSE n \in 0..Len(fake[g]) :
  /\ n \notin Range(fake[g])
  /\ \A m \in 0..n - 1 : m \in Range(fake[g])

(* The lowest port no group uses. *)
nextPortForGroup(g) ==
  LET used == UNION {Range(fake[h]) : h \in FakeGroup} IN
  CHOOSE n \in 0..Cardinality(used) : n \notin used /\ \A m \in 0..n - 1 : m \in used

(* mutateRandomGroup *)
ScaleUp(g) ==
  /\ OutsideEvent
  /\ Len(fake[g]) < MaxPerGroup
  /\ fake' = [fake EXCEPT ![g] = Append(@, nextPortForGroup(g))]
  /\ UNCHANGED <<weight, slices, vms, asking, report>>

ScaleDown(g) ==
  /\ OutsideEvent
  /\ Len(fake[g]) > MinPerGroup
  /\ \E i \in DOMAIN fake[g] : fake' = [fake EXCEPT ![g] = Without(@, i)]
  /\ UNCHANGED <<weight, slices, vms, asking, report>>

KubernetesNext ==
  \/ \E s \in Slice, p \in IP : EndpointChange(s, p)
  \/ KubernetesSnapshot

AzureNext ==
  \/ \E i \in Instance : InstanceChange(i)
  \/ ListRunning
  \/ ListInterfaces
  \/ ListingFails

FakeNext == \E g \in FakeGroup : ScaleUp(g) \/ ScaleDown(g)

PVNext == KubernetesNext \/ AzureNext \/ FakeNext

PVSpec == PVInit /\ [][PVNext]_pvVars

-----------------------------------------------------------------------------
(* Whatever moves between the two Azure listings, however an address is    *)
(* spread over endpoint slices, and after any sequence of scaling events,  *)
(* a report names every address at most once, never an empty one, and with *)
(* a positive weight; and no two simulated backends share a port.  The     *)
(* control plane, which keys overrides and comparisons by address, relies  *)
(* on it.                                                                  *)
ReportsDistinct ==
  /\ \A r \in {report.kube, report.azure} :
       /\ \A i, j \in DOMAIN r : r[i].address = r[j].address => i = j
       /\ \A i \in DOMAIN r : r[i].address # NoIP /\ r[i].weight > 0
  /\ \A g, h \in FakeGroup : \A i \in DOMAIN fake[g], j \in DOMAIN fake[h] :
       fake[g][i] = fake[h][j] => g = h /\ i = j

=============================================================================
