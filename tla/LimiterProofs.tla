---------------------------- MODULE LimiterProofs ---------------------------
(***************************************************************************)
(* The login limiter by itself, for any clients, handlers and limits, and  *)
(* what the fleet page shows as connected, for any instances and streams.  *)
(***************************************************************************)
EXTENDS LoginLimiter, Fleet, FiniteSetTheorems, TLAPS

USE ZenonT(10), SMTT(30)

-----------------------------------------------------------------------------
(* The login limiter *)

(* The requests in flight are finitely many, never more than there are     *)
(* handlers, and fewer by one without a given one of them.                 *)
LEMMA InFlightCount ==
  /\ IsFiniteSet(InFlight)
  /\ Cardinality(InFlight) \in Nat
  /\ Cardinality(Handler) \in Nat
  /\ Cardinality(InFlight) <= Cardinality(Handler)
  /\ \A h \in InFlight : Cardinality(InFlight \ {h}) = Cardinality(InFlight) - 1
<1>1. InFlight \subseteq Handler
  BY DEF InFlight
<1>2. /\ IsFiniteSet(InFlight)
      /\ Cardinality(InFlight) <= Cardinality(Handler)
  BY <1>1, LimiterAssumption, FS_Subset
<1>3. Cardinality(InFlight) \in Nat /\ Cardinality(Handler) \in Nat
  BY <1>2, LimiterAssumption, FS_CardinalityType
<1>4. \A h \in InFlight : Cardinality(InFlight \ {h}) = Cardinality(InFlight) - 1
  BY <1>2, FS_RemoveElement
<1>. QED
  BY <1>2, <1>3, <1>4

(* A failure is recorded by a request in flight, which then is no more:    *)
(* the entry it leaves satisfies the invariant.                            *)
LEMMA FailureKeepsInv ==
  ASSUME LimiterInv, NEW h \in Handler, RecordFailure(h)
  PROVE  LimiterInv'
<1>. DEFINE n == byIP'.failures
<1>0. /\ now \in Nat /\ now' = now /\ byIP.failures \in Nat
      /\ byIP.first \in Int /\ byIP.locked \in Int
      /\ MaxFailures \in Nat /\ MaxFailures > 0 /\ Window \in Nat /\ Lockout \in Nat
      /\ Window <= Lockout
  BY LimiterAssumption DEF LimiterInv, LimiterTypeOK, RecordFailure
<1>1. CASE byIP.failures = 0 \/ now - byIP.first > Window
  <2>1. byIP' = [failures |-> 1, first |-> now,
                 locked |-> IF 1 >= MaxFailures THEN now + Lockout ELSE -1]
    BY <1>1 DEF RecordFailure, Failed
  <2>2. LimiterTypeOK'
    BY <2>1, <1>0 DEF LimiterInv, LimiterTypeOK, RecordFailure
  <2>3. h \in InFlight /\ InFlight' = InFlight \ {h}
    BY DEF InFlight, RecordFailure, LimiterInv, LimiterTypeOK
  <2>4. Cardinality(InFlight') = Cardinality(InFlight) - 1
    BY <2>3, InFlightCount
  <2>5. /\ n = 1 /\ byIP'.first = now
        /\ n >= MaxFailures => byIP'.locked = now + Lockout
    BY <2>1
  <2>6. Cardinality(InFlight) >= 1
    BY <2>4, InFlightCount, <2>3, FS_EmptySet
  <2>7. n + Cardinality(InFlight)' < MaxFailures + Cardinality(Handler)
    BY <2>4, <2>5, <2>6, <1>0, InFlightCount
  <2>8. n < MaxFailures + Cardinality(Handler)
    BY <2>5, <2>6, <1>0, InFlightCount
  <2>. QED
    BY <2>2, <2>5, <2>7, <2>8, <1>0 DEF LimiterInv, GuessesBounded
<1>2. CASE ~(byIP.failures = 0 \/ now - byIP.first > Window)
  <2>1. byIP' = [failures |-> byIP.failures + 1, first |-> byIP.first,
                 locked |-> IF byIP.failures + 1 >= MaxFailures THEN now + Lockout
                            ELSE byIP.locked]
    BY <1>2 DEF RecordFailure, Failed
  <2>2. LimiterTypeOK'
    BY <2>1, <1>0 DEF LimiterInv, LimiterTypeOK, RecordFailure
  <2>3. h \in InFlight /\ InFlight' = InFlight \ {h}
    BY DEF InFlight, RecordFailure, LimiterInv, LimiterTypeOK
  <2>4. Cardinality(InFlight') = Cardinality(InFlight) - 1
    BY <2>3, InFlightCount
  <2>5. /\ n = byIP.failures + 1 /\ byIP'.first = byIP.first
        /\ n >= MaxFailures => byIP'.locked = now + Lockout
    BY <2>1
  <2>6. byIP.first <= now
    BY <1>2, <1>0 DEF LimiterInv
  <2>7. Cardinality(InFlight) >= 1
    BY <2>4, InFlightCount, <2>3, FS_EmptySet
  <2>8. n >= MaxFailures => n + Cardinality(InFlight)' < MaxFailures + Cardinality(Handler)
    <3>1. CASE byIP.failures >= MaxFailures
      <4>1. byIP.failures + Cardinality(InFlight) < MaxFailures + Cardinality(Handler)
        BY <3>1, <1>2 DEF LimiterInv
      <4>. QED
        BY <4>1, <2>4, <2>5, <1>0, InFlightCount
    <3>2. CASE byIP.failures < MaxFailures
      BY <3>2, <2>4, <2>5, <2>7, <1>0, InFlightCount
    <3>. QED
      BY <3>1, <3>2, <1>0
  <2>9. n < MaxFailures + Cardinality(Handler)
    BY <2>8, <2>4, <2>5, <2>7, <1>0, InFlightCount
  <2>10. n >= MaxFailures => byIP'.locked >= byIP'.first + Lockout
    BY <2>5, <2>6, <1>0
  <2>. QED
    BY <2>2, <2>5, <2>6, <2>8, <2>9, <2>10, <1>0 DEF LimiterInv, GuessesBounded
<1>. QED
  BY <1>1, <1>2

(* An entry that is empty satisfies the invariant. *)
LEMMA NoEntryInv ==
  ASSUME now \in Nat, byIP = NoEntry,
         attempt \in [Handler -> {"none", "verifying", "failure", "success"}]
  PROVE  LimiterInv
  BY LimiterAssumption, InFlightCount
     DEF LimiterInv, LimiterTypeOK, GuessesBounded, NoEntry

(* The limiter counts at most MaxFailures - 1 failures and one for each    *)
(* request in progress, for every number of handlers and every limit.      *)
THEOREM GuessesAreBounded == LimiterSpec => []GuessesBounded
<1>1. LimiterInit => LimiterInv
  BY NoEntryInv DEF LimiterInit
<1>2. LimiterInv /\ [LimiterNext]_limiterVars => LimiterInv'
  <2>. SUFFICES ASSUME LimiterInv, [LimiterNext]_limiterVars PROVE LimiterInv'
    OBVIOUS
  <2>0. /\ now \in Nat /\ byIP.failures \in Nat /\ byIP.first \in Int /\ byIP.locked \in Int
        /\ MaxFailures \in Nat /\ Window \in Nat /\ Lockout \in Nat /\ Window <= Lockout
    BY LimiterAssumption DEF LimiterInv, LimiterTypeOK
  <2>1. ASSUME NEW h \in Handler, Submit(h) PROVE LimiterInv'
    <3>1. byIP' = byIP /\ now' = now /\ LimiterTypeOK'
      BY <2>1 DEF Submit, LimiterInv, LimiterTypeOK
    <3>2. byIP.failures >= MaxFailures => now - byIP.first > Window
      BY <2>0, <2>1 DEF Submit, Allowed, LimiterInv
    <3>. QED
      BY <3>1, <3>2 DEF LimiterInv, GuessesBounded
  <2>2. ASSUME NEW h \in Handler, Verify(h) PROVE LimiterInv'
    <3>1. byIP' = byIP /\ now' = now /\ LimiterTypeOK'
      BY <2>2 DEF Verify, LimiterInv, LimiterTypeOK
    <3>2. h \in InFlight /\ (InFlight' = InFlight \/ InFlight' = InFlight \ {h})
      BY <2>2 DEF Verify, InFlight, LimiterInv, LimiterTypeOK
    <3>3. Cardinality(InFlight') \in Nat /\ Cardinality(InFlight') <= Cardinality(InFlight)
      BY <3>2, InFlightCount, FS_CardinalityType, FS_RemoveElement
    <3>4. byIP.failures + Cardinality(InFlight) < MaxFailures + Cardinality(Handler)
          => byIP.failures + Cardinality(InFlight)' < MaxFailures + Cardinality(Handler)
      BY <3>3, <2>0, InFlightCount
    <3>. QED
      BY <3>1, <3>4 DEF LimiterInv, GuessesBounded
  <2>3. ASSUME NEW h \in Handler, RecordFailure(h) PROVE LimiterInv'
    BY <2>3, FailureKeepsInv
  <2>4. CASE (\E h \in Handler : RecordSuccess(h)) \/ Forget
    <3>1. /\ now' \in Nat /\ byIP' = NoEntry
          /\ attempt' \in [Handler -> {"none", "verifying", "failure", "success"}]
      BY <2>4 DEF RecordSuccess, Forget, LimiterInv, LimiterTypeOK
    <3>2. Cardinality(Handler) \in Nat
      BY InFlightCount
    <3>3. /\ byIP' \in [failures : Nat, first : Int, locked : Int]
          /\ byIP'.failures = 0
      BY <3>1 DEF NoEntry
    <3>4. ~(byIP'.failures > 0) /\ ~(byIP'.failures >= MaxFailures)
      BY <3>3, LimiterAssumption
    <3>5. byIP'.failures < MaxFailures + Cardinality(Handler)
      BY <3>2, <3>3, LimiterAssumption
    <3>6. LimiterTypeOK'
      BY <3>1, <3>3 DEF LimiterTypeOK
    <3>. QED
      BY <3>4, <3>5, <3>6 DEF LimiterInv, GuessesBounded
  <2>5. CASE TimePasses
    <3>1. byIP' = byIP /\ now' \in Nat /\ now' > now /\ InFlight' = InFlight /\ LimiterTypeOK'
      BY <2>5 DEF TimePasses, InFlight, LimiterInv, LimiterTypeOK
    <3>2. byIP.failures >= MaxFailures =>
            \/ now' - byIP.first > Window
            \/ byIP.failures + Cardinality(InFlight) < MaxFailures + Cardinality(Handler)
      BY <3>1, <2>0 DEF LimiterInv
    <3>3. byIP.failures > 0 => byIP.first <= now'
      BY <3>1, <2>0 DEF LimiterInv
    <3>. QED
      BY <3>1, <3>2, <3>3 DEF LimiterInv, GuessesBounded
  <2>6. CASE UNCHANGED limiterVars
    BY <2>6 DEF limiterVars, LimiterInv, LimiterTypeOK, InFlight, GuessesBounded
  <2>. QED
    BY <2>1, <2>2, <2>3, <2>4, <2>5, <2>6 DEF LimiterNext
<1>3. LimiterInv => GuessesBounded
  BY DEF LimiterInv
<1>. QED
  BY <1>1, <1>2, <1>3, PTL DEF LimiterSpec

-----------------------------------------------------------------------------
(* The fleet page *)

Entries == [connected : BOOLEAN, reported : BOOLEAN]

IsShown(i) == instances[i] # None /\ instances[i].connected = TRUE

(* The inductive invariant: an instance is shown as connected only while a *)
(* handler of its runs; and while no handler started before the last one   *)
(* returned there is at most one, and it is shown.                         *)
FleetInv ==
  /\ instances \in [Instance -> Entries \cup {None}]
  /\ streams \in [Instance -> SUBSET HandlerId]
  /\ overlap \in [Instance -> BOOLEAN]
  /\ \A i \in Instance :
       /\ IsShown(i) => streams[i] # {}
       /\ overlap[i] = FALSE => \A m, n \in streams[i] : m = n
       /\ overlap[i] = FALSE /\ streams[i] # {} => IsShown(i)

(* A step that leaves the handlers and what is shown alone. *)
LEMMA FleetFrame ==
  ASSUME FleetInv, UNCHANGED <<streams, overlap>>,
         instances' \in [Instance -> Entries \cup {None}],
         \A i \in Instance : IsShown(i)' <=> IsShown(i)
  PROVE  FleetInv'
  BY DEF FleetInv

(* A report does not change whether an instance is shown as connected. *)
LEMMA NoteReportShows ==
  ASSUME FleetInv, NEW i \in Instance, NoteReport(i)
  PROVE  /\ instances' \in [Instance -> Entries \cup {None}]
         /\ \A k \in Instance : IsShown(k)' <=> IsShown(k)
<1>1. instances \in [Instance -> Entries \cup {None}]
  BY DEF FleetInv
<1>2. \A k \in Instance \ {i} : instances'[k] = instances[k]
  BY <1>1 DEF NoteReport
<1>3. CASE instances[i] = None
  <2>1. instances' = instances
    BY <1>1, <1>3 DEF NoteReport
  <2>. QED
    BY <1>1, <2>1 DEF IsShown
<1>4. CASE instances[i] # None
  <2>1. instances[i] \in Entries /\ instances'[i] = [instances[i] EXCEPT !.reported = TRUE]
    BY <1>1, <1>4 DEF NoteReport
  <2>2. instances'[i] \in Entries /\ instances'[i].connected = instances[i].connected
    BY <2>1, Zenon DEF Entries
  <2>3. instances'[i] # None
    BY <2>2, FleetAssumption DEF Entries
  <2>4. instances' \in [Instance -> Entries \cup {None}]
    BY <1>1, <2>1, <2>2, <1>4 DEF NoteReport
  <2>. QED
    BY <1>2, <1>4, <2>2, <2>3, <2>4 DEF IsShown
<1>. QED
  BY <1>3, <1>4

(* A handler starts: the instance is shown, and handlers overlap if one    *)
(* was there.                                                              *)
LEMMA StreamStartsKeeps ==
  ASSUME FleetInv, NEW i \in Instance, StreamStarts(i)
  PROVE  FleetInv'
<1>0. /\ instances \in [Instance -> Entries \cup {None}]
      /\ streams \in [Instance -> SUBSET HandlerId] /\ overlap \in [Instance -> BOOLEAN]
  BY DEF FleetInv
<1>1. PICK n \in HandlerId \ streams[i] : streams' = [streams EXCEPT ![i] = @ \cup {n}]
  BY Zenon DEF StreamStarts
<1>2. /\ streams' \in [Instance -> SUBSET HandlerId] /\ streams'[i] = streams[i] \cup {n}
      /\ \A k \in Instance \ {i} : streams'[k] = streams[k]
  BY <1>0, <1>1
<1>3. instances' = [instances EXCEPT ![i] = [connected |-> TRUE, reported |-> FALSE]]
  BY DEF StreamStarts, markInstanceConnected
<1>4. /\ instances' \in [Instance -> Entries \cup {None}]
      /\ \A k \in Instance \ {i} : instances'[k] = instances[k]
      /\ instances'[i] \in Entries /\ instances'[i].connected = TRUE
  BY <1>0, <1>3 DEF Entries
<1>5. instances'[i] # None
  BY <1>4, FleetAssumption DEF Entries
<1>6. /\ overlap' \in [Instance -> BOOLEAN]
      /\ \A k \in Instance \ {i} : overlap'[k] = overlap[k]
      /\ overlap'[i] = FALSE => streams[i] = {}
  BY <1>0, Zenon DEF StreamStarts
<1>7. ASSUME NEW k \in Instance
      PROVE  /\ IsShown(k)' => streams'[k] # {}
             /\ overlap'[k] = FALSE => \A a, b \in streams'[k] : a = b
             /\ overlap'[k] = FALSE /\ streams'[k] # {} => IsShown(k)'
  <2>1. CASE k = i
    BY <1>2, <1>4, <1>5, <1>6, <2>1 DEF IsShown
  <2>2. CASE k # i
    BY <1>2, <1>4, <1>6, <2>2 DEF IsShown, FleetInv
  <2>. QED
    BY <2>1, <2>2, Zenon
<1>. QED
  BY <1>2, <1>4, <1>6, <1>7, Zenon DEF FleetInv

(* A handler returns and the instance is shown as disconnected: it was the *)
(* only handler unless handlers overlapped.                                *)
LEMMA HandlerReturnsKeeps ==
  ASSUME FleetInv, NEW i \in Instance, HandlerReturns(i)
  PROVE  FleetInv'
<1>0. /\ instances \in [Instance -> Entries \cup {None}]
      /\ streams \in [Instance -> SUBSET HandlerId] /\ overlap \in [Instance -> BOOLEAN]
  BY DEF FleetInv
<1>1. PICK n \in streams[i] : streams' = [streams EXCEPT ![i] = @ \ {n}]
  BY Zenon DEF HandlerReturns
<1>2. /\ streams' \in [Instance -> SUBSET HandlerId] /\ streams'[i] = streams[i] \ {n}
      /\ \A k \in Instance \ {i} : streams'[k] = streams[k]
  BY <1>0, <1>1
<1>3. /\ instances' \in [Instance -> Entries \cup {None}]
      /\ \A k \in Instance \ {i} : instances'[k] = instances[k]
      /\ instances'[i] = None \/ instances'[i].connected = FALSE
  <2>1. CASE instances[i] = None
    BY <1>0, <2>1 DEF HandlerReturns, markInstanceDisconnected
  <2>2. CASE instances[i] # None
    <3>1. /\ instances[i] \in Entries
          /\ instances' = [instances EXCEPT ![i] = [instances[i] EXCEPT !.connected = FALSE]]
      BY <1>0, <2>2 DEF HandlerReturns, markInstanceDisconnected
    <3>2. [instances[i] EXCEPT !.connected = FALSE] \in Entries
      BY <3>1, Zenon DEF Entries
    <3>. QED
      BY <1>0, <3>1, <3>2 DEF Entries
  <2>. QED
    BY <2>1, <2>2, Zenon
<1>4. /\ overlap' \in [Instance -> BOOLEAN]
      /\ \A k \in Instance \ {i} : overlap'[k] = overlap[k]
      /\ overlap'[i] = FALSE => overlap[i] = FALSE \/ streams'[i] = {}
  BY <1>0 DEF HandlerReturns
<1>5. overlap'[i] = FALSE => streams'[i] = {}
  BY <1>1, <1>2, <1>4 DEF FleetInv
<1>6. ASSUME NEW k \in Instance
      PROVE  /\ IsShown(k)' => streams'[k] # {}
             /\ overlap'[k] = FALSE => \A a, b \in streams'[k] : a = b
             /\ overlap'[k] = FALSE /\ streams'[k] # {} => IsShown(k)'
  <2>1. CASE k = i
    BY <1>3, <1>5, <2>1 DEF IsShown
  <2>2. CASE k # i
    BY <1>2, <1>3, <1>4, <2>2 DEF IsShown, FleetInv
  <2>. QED
    BY <2>1, <2>2, Zenon
<1>. QED
  BY <1>2, <1>3, <1>4, <1>6, Zenon DEF FleetInv

(* An instance that the fleet page shows as connected has a stream         *)
(* handler, and one with a handler is shown as connected unless a handler  *)
(* started before the one before it had returned, for any number of        *)
(* instances, lost or late reports, and restarts.                          *)
THEOREM ConnectedIsHonest == FleetSpec => []ConnectedHonest
<1>1. FleetInit => FleetInv
  BY DEF FleetInit, FleetInv, IsShown
<1>2. FleetInv /\ [FleetNext]_vars => FleetInv'
  <2>. SUFFICES ASSUME FleetInv, [FleetNext]_vars PROVE FleetInv'
    OBVIOUS
  <2>1. ASSUME NEW i \in Instance, StreamStarts(i) PROVE FleetInv'
    BY <2>1, StreamStartsKeeps
  <2>2. ASSUME NEW i \in Instance, HandlerReturns(i) PROVE FleetInv'
    BY <2>2, HandlerReturnsKeeps
  <2>3. ASSUME NEW i \in Instance,
               SendHealth(i) \/ \E verdict \in BOOLEAN : LateHealth(i, verdict)
        PROVE  FleetInv'
    <3>1. NoteReport(i) /\ UNCHANGED <<streams, overlap>>
      BY <2>3, Zenon DEF SendHealth, LateHealth, ReportHealth, streamVars
    <3>. QED
      BY <3>1, NoteReportShows, FleetFrame
  <2>4. ASSUME UNCHANGED <<streams, overlap, instances>> PROVE FleetInv'
    BY <2>4 DEF FleetInv, IsShown
  <2>5. ASSUME NEW i \in Instance,
               \/ StreamBreaks(i) \/ HealthTimesOut(i) \/ ReportMetrics(i) \/ SumMetrics(i)
               \/ RecordSample(i) \/ VerdictChanges(i) \/ Serve(i) \/ Dies(i) \/ Starts(i)
        PROVE  UNCHANGED <<streams, overlap, instances>>
    BY <2>5 DEF StreamBreaks, HealthTimesOut, ReportMetrics, SumMetrics, RecordSample,
                VerdictChanges, Serve, Dies, Starts, streamVars
  <2>6. Tick \/ UNCHANGED vars => UNCHANGED <<streams, overlap, instances>>
    BY DEF Tick, vars, streamVars
  <2>. QED
    BY <2>1, <2>2, <2>3, <2>4, <2>5, <2>6 DEF FleetNext
<1>3. FleetInv => ConnectedHonest
  <2>. SUFFICES ASSUME FleetInv, NEW i \in Instance
                PROVE  LET shown == i \in DOMAIN FleetSnapshot /\ FleetSnapshot[i].connected
                       IN  /\ shown => streams[i] # {}
                           /\ streams[i] # {} /\ ~overlap[i] => shown
    BY DEF ConnectedHonest
  <2>1. /\ i \in DOMAIN FleetSnapshot <=> instances[i] # None
        /\ i \in DOMAIN FleetSnapshot => FleetSnapshot[i] = instances[i]
    BY DEF FleetSnapshot
  <2>2. overlap[i] \in BOOLEAN /\ (instances[i] # None => instances[i].connected \in BOOLEAN)
    BY DEF FleetInv, Entries
  <2>3. /\ IsShown(i) => streams[i] # {}
        /\ overlap[i] = FALSE /\ streams[i] # {} => IsShown(i)
    BY DEF FleetInv
  <2>. QED
    BY <2>1, <2>2, <2>3 DEF IsShown
<1>. QED
  BY <1>1, <1>2, <1>3, PTL DEF FleetSpec

=============================================================================
