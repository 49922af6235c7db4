------------------------------- MODULE Fleet --------------------------------
(***************************************************************************)
(* What the control plane shows of its data planes: which are connected,   *)
(* whether a backend is healthy and how much traffic there is              *)
(* (internal/controlplane/server.go, metricshistory.go), fed by the        *)
(* streams and the periodic reports of the data planes                     *)
(* (internal/dataplane/healthreporter.go, metricsreporter.go).             *)
(*                                                                         *)
(* One group with one backend.  Time is in ticks of the report interval;   *)
(* a time stamp is kept as its age, up to the age from which on it makes   *)
(* no difference.  A report whose call timed out may be lost, or reach its *)
(* handler late.                                                           *)
(***************************************************************************)
EXTENDS Integers, Sequences, FiniteSetsExt

CONSTANTS
  Instance,
  None,
  ReportMaxAge,       \* healthReportMaxAge, metricsReportMaxAge
  historyBucketWidth,
  maxHistoryPoints,
  Mixes               \* bound: how much traffic goes with how many other events

ASSUME FleetAssumption == None \notin [connected : BOOLEAN, reported : BOOLEAN]

VARIABLES
  alive, healthy, served,  \* a data plane: it runs, its verdict, its counter
  due,                     \* its reporter has yet to report in this tick
  current, streams,        \* its stream, the handlers that have not returned
  overlap,                 \* a handler started before the last one returned
  instances,               \* the control plane's entry for it
  health, metrics,         \* its last reports
  late,                    \* health reports still on their way
  rpc,                     \* its ReportMetrics handler
  history, bucketAge,      \* the samples, the age of the last one
  disturbed,               \* totals may have gone backwards
  traffic, events

vars == <<alive, healthy, served, due, current, streams, overlap, instances, health,
          metrics, late, rpc, history, bucketAge, disturbed, traffic, events>>

planeVars == <<alive, healthy, served>>
streamVars == <<current, streams, overlap>>
metricsVars == <<metrics, rpc, history, bucketAge, disturbed>>
countVars == <<traffic, events>>

HandlerId == {1, 2}
OldAge == ReportMaxAge + 1
Idle == [step |-> "idle", total |-> 0]

FleetInit ==
  /\ alive = [i \in Instance |-> TRUE]
  /\ healthy = [i \in Instance |-> TRUE]
  /\ served = [i \in Instance |-> 0]
  /\ due = [i \in Instance |-> TRUE]
  /\ current = [i \in Instance |-> 0]
  /\ streams = [i \in Instance |-> {}]
  /\ overlap = [i \in Instance |-> FALSE]
  /\ instances = [i \in Instance |-> None]
  /\ health = [i \in Instance |-> None]
  /\ metrics = [i \in Instance |-> None]
  /\ late = {}
  /\ rpc = [i \in Instance |-> Idle]
  /\ history = <<>> /\ bucketAge = historyBucketWidth
  /\ disturbed = FALSE
  /\ traffic = 0 /\ events = 0

Traffic == <<traffic + 1, events>> \in Mixes /\ traffic' = traffic + 1 /\ UNCHANGED events
Event == <<traffic, events + 1>> \in Mixes /\ events' = events + 1 /\ UNCHANGED traffic

-----------------------------------------------------------------------------
(* Streams: the deferred call of a handler that returns marks the instance *)
(* disconnected, whichever handler marked it connected.                    *)

markInstanceConnected(i) ==
  instances' = [instances EXCEPT ![i] = [connected |-> TRUE, reported |-> FALSE]]

(* Mutant: a handler that returns leaves the entry as it is. *)
markNothing(i) == UNCHANGED instances

markInstanceDisconnected(i) ==
  instances' = [instances EXCEPT ![i] = IF @ = None THEN @ ELSE [@ EXCEPT !.connected = FALSE]]

StreamStarts(i) ==
  /\ alive[i] /\ current[i] = 0
  /\ \E n \in HandlerId \ streams[i] :
       /\ current' = [current EXCEPT ![i] = n]
       /\ streams' = [streams EXCEPT ![i] = @ \cup {n}]
  /\ overlap' = [overlap EXCEPT ![i] = @ \/ streams[i] # {}]
  /\ markInstanceConnected(i)
  /\ UNCHANGED <<planeVars, due, health, metricsVars, late, countVars>>

StreamBreaks(i) ==
  /\ current[i] # 0 /\ Event
  /\ current' = [current EXCEPT ![i] = 0]
  /\ UNCHANGED <<planeVars, due, streams, overlap, instances, health, metricsVars, late>>

HandlerReturns(i) ==
  /\ \E n \in streams[i] \ {current[i]} :
       streams' = [streams EXCEPT ![i] = @ \ {n}]
  /\ overlap' = [overlap EXCEPT ![i] = @ /\ streams'[i] # {}]
  /\ markInstanceDisconnected(i)
  /\ UNCHANGED <<planeVars, due, current, health, metricsVars, late, countVars>>

-----------------------------------------------------------------------------
(* Health reports *)

(* recordInstanceHealthReport *)
NoteReport(i) ==
  instances' = [instances EXCEPT ![i] = IF @ = None THEN @ ELSE [@ EXCEPT !.reported = TRUE]]

ReportHealth(i, verdict) ==
  /\ health' = [health EXCEPT ![i] = [healthy |-> verdict, age |-> 0]]
  /\ NoteReport(i)

(* reportOnce: the call succeeds, or it times out and is lost or late. *)
SendHealth(i) ==
  /\ alive[i] /\ due[i]
  /\ due' = [due EXCEPT ![i] = FALSE]
  /\ ReportHealth(i, healthy[i])
  /\ UNCHANGED <<planeVars, streamVars, metricsVars, late, countVars>>

HealthTimesOut(i) ==
  /\ alive[i] /\ due[i] /\ Event
  /\ due' = [due EXCEPT ![i] = FALSE]
  /\ late' \in {late, late \cup {<<i, healthy[i]>>}}
  /\ UNCHANGED <<planeVars, streamVars, instances, health, metricsVars>>

LateHealth(i, verdict) ==
  /\ <<i, verdict>> \in late
  /\ late' = late \ {<<i, verdict>>}
  /\ ReportHealth(i, verdict)
  /\ UNCHANGED <<planeVars, streamVars, due, metricsVars, countVars>>

Fresh(entry) == entry # None /\ entry.age <= ReportMaxAge

(* Mutant: reports do not expire. *)
ReportersNoExpiry == {i \in Instance : health[i] # None}

Reporters == {i \in Instance : health[i] # None /\ health[i].age <= ReportMaxAge}

(* healthForAddress: known when somebody reported lately, healthy when all *)
(* of them say so.                                                         *)
healthForAddress ==
  [known |-> Reporters # {}, healthy |-> \A i \in Reporters : health[i].healthy]

-----------------------------------------------------------------------------
(* Metrics reports and the history of their sums *)

MetricsSnapshot ==
  LET fresh == {i \in Instance : Fresh(metrics[i])}
  IN  MapThenSumSet(LAMBDA i : metrics[i].total, fresh)

(* ReportMetrics: the entry is stored, the entries are summed and the sum  *)
(* is recorded, each under a lock of its own.                              *)
ReportMetrics(i) ==
  /\ alive[i] /\ served[i] > 0 /\ rpc[i].step = "idle" /\ Traffic
  /\ metrics' = [metrics EXCEPT ![i] = [total |-> served[i], age |-> 0]]
  /\ rpc' = [rpc EXCEPT ![i].step = "stored"]
  /\ disturbed' = (disturbed \/ \E k \in Instance : rpc[k].step # "idle")
  /\ UNCHANGED <<planeVars, streamVars, due, instances, health, late, history, bucketAge>>

SumMetrics(i) ==
  /\ rpc[i].step = "stored"
  /\ rpc' = [rpc EXCEPT ![i] = [step |-> "summed", total |-> MetricsSnapshot]]
  /\ UNCHANGED <<planeVars, streamVars, due, instances, health, late, metrics, history,
                 bucketAge, disturbed, countVars>>

(* record: the last sample is replaced while its bucket lasts, and the     *)
(* oldest one is dropped at the limit.                                     *)
Sampled(total) ==
  IF history # <<>> /\ bucketAge < historyBucketWidth
  THEN [history EXCEPT ![Len(history)] = total]
  ELSE LET longer == Append(history, total)
       IN  IF Len(longer) > maxHistoryPoints THEN Tail(longer) ELSE longer

RecordSample(i) ==
  /\ rpc[i].step = "summed"
  /\ history' = Sampled(rpc[i].total)
  /\ bucketAge' = IF history # <<>> /\ bucketAge < historyBucketWidth THEN bucketAge ELSE 0
  /\ rpc' = [rpc EXCEPT ![i] = Idle]
  /\ UNCHANGED <<planeVars, streamVars, due, instances, health, late, metrics, disturbed,
                 countVars>>

(* Mutant: the first sample shown has no traffic even if one precedes it. *)
RecentZeroFirst(n) ==
  LET start == Max({0, Len(history) - n})
      delta(k) == IF k = start + 1 THEN 0 ELSE Max({0, history[k] - history[k - 1]})
  IN  [i \in 1..(Len(history) - start) |-> delta(start + i)]

(* Recent(n): what the chart shows for the last n samples. *)
Recent(n) ==
  LET start == Max({0, Len(history) - n})
      delta(k) == IF k = 1 THEN 0 ELSE Max({0, history[k] - history[k - 1]})
  IN  [i \in 1..(Len(history) - start) |-> delta(start + i)]

-----------------------------------------------------------------------------
(* The data planes *)

VerdictChanges(i) ==
  /\ alive[i] /\ Event
  /\ healthy' = [healthy EXCEPT ![i] = ~@]
  /\ UNCHANGED <<alive, served, due, streamVars, instances, health, metricsVars, late>>

Serve(i) ==
  /\ alive[i] /\ Traffic
  /\ served' = [served EXCEPT ![i] = @ + 1]
  /\ UNCHANGED <<alive, healthy, due, streamVars, instances, health, metricsVars, late>>

(* The process ends: its stream breaks, its counter is lost. *)
Dies(i) ==
  /\ alive[i] /\ Event
  /\ alive' = [alive EXCEPT ![i] = FALSE]
  /\ served' = [served EXCEPT ![i] = 0]
  /\ current' = [current EXCEPT ![i] = 0]
  /\ disturbed' = (disturbed \/ metrics[i] # None)
  /\ UNCHANGED <<healthy, due, streams, overlap, instances, health, metrics, rpc, history,
                 bucketAge, late>>

Starts(i) ==
  /\ ~alive[i] /\ Event
  /\ alive' = [alive EXCEPT ![i] = TRUE]
  /\ due' = [due EXCEPT ![i] = TRUE]
  /\ UNCHANGED <<healthy, served, streamVars, instances, health, metricsVars, late>>

(* One report interval passes; every reporter that runs had its turn. *)
Tick ==
  LET older(entry) == IF entry = None THEN None
                      ELSE [entry EXCEPT !.age = Min({@ + 1, OldAge})]
  IN  /\ \A i \in Instance : alive[i] => ~due[i]
      /\ due' = alive
      /\ health' = [i \in Instance |-> older(health[i])]
      /\ metrics' = [i \in Instance |-> older(metrics[i])]
      /\ bucketAge' = Min({bucketAge + 1, historyBucketWidth})
      /\ disturbed' = (disturbed \/ \E i \in Instance : Fresh(metrics[i]) /\ ~Fresh(metrics'[i]))
      /\ UNCHANGED <<planeVars, streamVars, instances, late, rpc, history, countVars>>

FleetNext ==
  \/ \E i \in Instance :
       \/ StreamStarts(i) \/ StreamBreaks(i) \/ HandlerReturns(i)
       \/ SendHealth(i) \/ HealthTimesOut(i)
       \/ \E verdict \in BOOLEAN : LateHealth(i, verdict)
       \/ ReportMetrics(i) \/ SumMetrics(i) \/ RecordSample(i)
       \/ VerdictChanges(i) \/ Serve(i) \/ Dies(i) \/ Starts(i)
  \/ Tick

FleetSpec == FleetInit /\ [][FleetNext]_vars

(* The reporters and subscribers keep running, handlers return once their  *)
(* stream is gone, and time passes.                                        *)
FleetFairness ==
  /\ WF_vars(Tick)
  /\ \A i \in Instance :
       /\ WF_vars(SendHealth(i)) /\ WF_vars(StreamStarts(i)) /\ WF_vars(HandlerReturns(i))
       /\ WF_vars(SumMetrics(i)) /\ WF_vars(RecordSample(i))

FleetFairSpec == FleetSpec /\ FleetFairness

-----------------------------------------------------------------------------
(* Properties *)

(* What the fleet page shows: every instance that ever had a stream. *)
FleetSnapshot == [i \in {j \in Instance : instances[j] # None} |-> instances[i]]

(* An instance shown as connected has a stream, and one with a stream is   *)
(* shown as connected unless a handler started before the one before it    *)
(* had returned.                                                           *)
ConnectedHonest ==
  \A i \in Instance :
    LET shown == i \in DOMAIN FleetSnapshot /\ FleetSnapshot[i].connected IN
      /\ shown => streams[i] # {}
      /\ streams[i] # {} /\ ~overlap[i] => shown

(* Once nothing happens to the data planes any more the dashboard tells    *)
(* their verdict: unknown when none runs, healthy when all that run agree. *)
(* Neither a dead instance's last word nor a late report stays.            *)
ViewConverges ==
  LET up == {i \in Instance : alive[i]} IN
    <>[](/\ healthForAddress.known = (up # {})
         /\ up # {} => healthForAddress.healthy = (\A i \in up : healthy[i]))

(* The chart adds up: as long as reports did not overlap, go stale or      *)
(* start again from zero, what it shows for any number of samples is the   *)
(* growth of the total since the sample before them, and the total is no   *)
(* more than was served.                                                   *)
ChartAddsUp ==
  ~disturbed /\ history # <<>> =>
    /\ history[Len(history)] <= MapThenSumSet(LAMBDA i : served[i], Instance)
    /\ \A n \in 1..maxHistoryPoints :
         SumFunction(Recent(n))
           = history[Len(history)] - history[Max({1, Len(history) - n})]

=============================================================================
