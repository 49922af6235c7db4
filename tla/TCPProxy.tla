------------------------------ MODULE TCPProxy ------------------------------
(***************************************************************************)
(* The L4 proxy (internal/dataplane/tcpproxy.go) and its shutdown          *)
(* (cmd/dataplane/main.go, runTCP): the accept loop, one handler per       *)
(* connection, and the goroutine that closes the listener and drains.      *)
(*                                                                         *)
(* The idle channel is a generation number: connFinished closes channel g  *)
(* by moving to g + 1.  Which backend a connection gets is BackendList's   *)
(* business; here selection and dialling only succeed or fail.             *)
(***************************************************************************)
EXTENDS Integers, FiniteSets

CONSTANTS
  Conn,           \* connections clients may open
  NoConn,
  Grace           \* is the shutdown grace period positive?

ASSUME TCPAssumption ==
  IsFiniteSet(Conn) /\ NoConn \notin Conn /\ Grace \in BOOLEAN

VARIABLES
  conn,           \* connection -> its state
  flows,          \* connection -> directions still being copied
  accepting,      \* the connection Accept returned and Serve has yet to count
  serve,          \* the accept loop: "accept", "count" or "returned"
  inflight,       \* p.inflight
  idle,           \* generation of p.idle
  ctxDone,        \* has shutdown been requested?
  listener,       \* "open" or "closed"
  drain,          \* the shutdown goroutine
  captured,       \* generation of the channel Drain waits on
  exited          \* has the process ended?

tcpVars == <<conn, flows, accepting, serve, inflight, idle, ctxDone, listener,
             drain, captured, exited>>

Directions == {"in", "out"}

TCPInit ==
  /\ conn = [c \in Conn |-> "new"]
  /\ flows = [c \in Conn |-> {}]
  /\ accepting = NoConn
  /\ serve = "accept"
  /\ inflight = 0
  /\ idle = 0
  /\ ctxDone = FALSE
  /\ listener = "open"
  /\ drain = "off"
  /\ captured = 0
  /\ exited = FALSE

-----------------------------------------------------------------------------
(* Serve: Accept returns a connection. *)
Accept(c) ==
  /\ serve = "accept" /\ listener = "open" /\ conn[c] = "new"
  /\ conn' = [conn EXCEPT ![c] = "accepted"]
  /\ accepting' = c
  /\ serve' = "count"
  /\ UNCHANGED <<flows, inflight, idle, ctxDone, listener, drain, captured, exited>>

(* Serve: connStarted and the launch of handleConn. *)
Launch ==
  /\ serve = "count"
  /\ inflight' = inflight + 1
  /\ conn' = [conn EXCEPT ![accepting] = "selecting"]
  /\ accepting' = NoConn
  /\ serve' = "accept"
  /\ UNCHANGED <<flows, idle, ctxDone, listener, drain, captured, exited>>

(* Serve: Accept fails.  On a closed listener Serve returns nil, runTCP    *)
(* returns and the process ends; without a shutdown the error is fatal.    *)
AcceptFails ==
  /\ serve = "accept"
  /\ listener = "closed" \/ ~ctxDone
  /\ serve' = "returned"
  /\ exited' = TRUE
  /\ UNCHANGED <<conn, flows, accepting, inflight, idle, ctxDone, listener,
                 drain, captured>>

-----------------------------------------------------------------------------
(* handleConn: NextForKey found a backend. *)
Select(c) ==
  /\ conn[c] = "selecting"
  /\ conn' = [conn EXCEPT ![c] = "dialing"]
  /\ UNCHANGED <<flows, accepting, serve, inflight, idle, ctxDone, listener,
                 drain, captured, exited>>

(* handleConn: the dial succeeds; its context ends with the shutdown       *)
(* signal, so no dial succeeds after it.                                   *)
Dial(c) ==
  /\ conn[c] = "dialing" /\ ~ctxDone
  /\ conn' = [conn EXCEPT ![c] = "piping"]
  /\ flows' = [flows EXCEPT ![c] = Directions]
  /\ UNCHANGED <<accepting, serve, inflight, idle, ctxDone, listener, drain,
                 captured, exited>>

(* pipeBidirectional: one direction ends and half-closes its far side. *)
HalfClose(c, dir) ==
  /\ conn[c] = "piping" /\ dir \in flows[c]
  /\ flows' = [flows EXCEPT ![c] = @ \ {dir}]
  /\ UNCHANGED <<conn, accepting, serve, inflight, idle, ctxDone, listener,
                 drain, captured, exited>>

(* Mutant: the idle channel is not closed. *)
ConnFinishedSilently == inflight' = inflight - 1 /\ idle' = idle

(* connFinished *)
ConnFinished ==
  /\ inflight' = inflight - 1
  /\ idle' = IF inflight = 1 THEN idle + 1 ELSE idle

(* handleConn returns: no backend, a failed dial, or both directions done. *)
Finish(c) ==
  /\ \/ conn[c] \in {"selecting", "dialing"}
     \/ conn[c] = "piping" /\ flows[c] = {}
  /\ conn' = [conn EXCEPT ![c] = "done"]
  /\ ConnFinished
  /\ UNCHANGED <<flows, accepting, serve, ctxDone, listener, drain, captured, exited>>

-----------------------------------------------------------------------------
(* SIGTERM *)
Signal ==
  /\ ~ctxDone
  /\ ctxDone' = TRUE
  /\ drain' = "close"
  /\ UNCHANGED <<conn, flows, accepting, serve, inflight, idle, listener,
                 captured, exited>>

(* Mutant: draining begins while the listener still accepts. *)
CloseListenerLate ==
  /\ drain = "close"
  /\ drain' = "check"
  /\ UNCHANGED <<conn, flows, accepting, serve, inflight, idle, ctxDone, listener,
                 captured, exited>>

CloseListener ==
  /\ drain = "close"
  /\ listener' = "closed"
  /\ drain' = "check"
  /\ UNCHANGED <<conn, flows, accepting, serve, inflight, idle, ctxDone,
                 captured, exited>>

(* Drain up to its select. *)
DrainCheck ==
  /\ drain = "check"
  /\ drain' = IF inflight = 0 THEN "drained" ELSE IF Grace THEN "wait" ELSE "expired"
  /\ captured' = IF inflight = 0 THEN captured ELSE idle
  /\ UNCHANGED <<conn, flows, accepting, serve, inflight, idle, ctxDone, listener,
                 exited>>

IdleClosed == captured < idle

(* Drain: the captured channel was closed. *)
DrainIdle ==
  /\ drain = "wait" /\ IdleClosed
  /\ drain' = "drained"
  /\ UNCHANGED <<conn, flows, accepting, serve, inflight, idle, ctxDone, listener,
                 captured, exited>>

(* Drain: the grace period is over. *)
DrainTimeout ==
  /\ drain = "wait"
  /\ drain' = IF inflight = 0 THEN "drained" ELSE "expired"
  /\ UNCHANGED <<conn, flows, accepting, serve, inflight, idle, ctxDone, listener,
                 captured, exited>>

ServeStep == (\E c \in Conn : Accept(c)) \/ Launch \/ AcceptFails

Handle(c) == Select(c) \/ Dial(c) \/ (\E dir \in Directions : HalfClose(c, dir)) \/ Finish(c)

Shutdown == CloseListener \/ DrainCheck \/ DrainIdle \/ DrainTimeout

(* Nothing happens in a process that has ended. *)
TCPNext ==
  /\ ~exited
  /\ ServeStep \/ (\E c \in Conn : Handle(c)) \/ Signal \/ Shutdown

TCPSpec == TCPInit /\ [][TCPNext]_tcpVars

(* Goroutines run, the listener's close reaches Accept, and the grace      *)
(* timer fires.                                                            *)
TCPFairSpec ==
  /\ TCPSpec
  /\ WF_tcpVars(~exited /\ (Launch \/ (listener = "closed" /\ AcceptFails)))
  /\ WF_tcpVars(~exited /\ Shutdown)

-----------------------------------------------------------------------------
(* Properties *)

InFlight == {c \in Conn : conn[c] \in {"selecting", "dialing", "piping"}}

(* Every variable has its type, and the accept loop holds a connection     *)
(* exactly between Accept and connStarted.                                 *)
TCPTypeInv ==
  /\ conn \in [Conn -> {"new", "accepted", "selecting", "dialing", "piping", "done"}]
  /\ flows \in [Conn -> SUBSET Directions]
  /\ serve \in {"accept", "count", "returned"}
  /\ accepting \in Conn \cup {NoConn}
  /\ serve = "count" <=> accepting # NoConn
  /\ inflight \in Nat /\ idle \in Nat /\ captured \in Nat
  /\ ctxDone \in BOOLEAN /\ exited \in BOOLEAN
  /\ listener \in {"open", "closed"}
  /\ drain \in {"off", "close", "check", "wait", "drained", "expired"}

(* No lost wake-up: while Drain waits, the counter at zero means that the  *)
(* channel Drain captured has been closed, although connFinished installs  *)
(* a fresh channel each time.                                              *)
NoLostWakeup == drain = "wait" /\ inflight = 0 => IdleClosed

(* When Drain reports success at most one connection is left, the one the  *)
(* accept loop was holding: everything counted before has finished.        *)
DrainMissesAtMostOne ==
  drain = "drained" =>
    Cardinality(InFlight) + (IF accepting = NoConn THEN 0 ELSE 1) <= 1

(* README, connection draining: on shutdown the instance waits for the     *)
(* connections in flight, up to the grace period, before it ends.          *)
ExitAfterDrain ==
  exited /\ ctxDone /\ InFlight # {} => drain \in {"drained", "expired"}

(* A requested shutdown ends the process, whatever the connections do. *)
ShutdownCompletes == ctxDone ~> exited

=============================================================================
