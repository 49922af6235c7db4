------------------------------- MODULE Proxy -------------------------------
(***************************************************************************)
(* The L7 request path (internal/dataplane/proxy.go, retrywriter.go) over  *)
(* the backend list: Handler, selectBackend with session affinity,         *)
(* serveOnce and the retry loop of serveWithRetries.                       *)
(*                                                                         *)
(* A request begins past routing, edge authentication and rate limiting,   *)
(* which end it before a backend is selected.  What a backend does with an *)
(* attempt is one of four outcomes: a response below 500, a 5xx response,  *)
(* a connection-level failure (ErrorHandler), or a body that breaks off    *)
(* after the headers, which ReverseProxy turns into a panic.  tried and    *)
(* sent are history.                                                       *)
(***************************************************************************)
EXTENDS BackendList, Sequences

CONSTANTS
  Sticky,           \* is session affinity on for the group?
  MaxRetries        \* additional attempts of a retryable request

ASSUME ProxyAssumption == Sticky \in BOOLEAN /\ MaxRetries \in Nat

VARIABLES
  phase,            \* request -> step of serveWithRetries: free, pin, next,
                    \* serve, retry, done, backoff
  retryable,        \* request -> requestRetryable
  cookie,           \* request -> address in its affinity cookie
  attempt,          \* request -> attempts begun before this one
  tried,            \* history: request -> addresses attempted
  sent              \* history: request -> responses begun towards the client

pxVars == <<phase, retryable, cookie, attempt, tried, sent>>
proxyVars == <<entries, activeConns, version, slots, nextEjectExpiry, now,
               pc, checkedAt, snap, gen, target,
               phase, retryable, cookie, attempt, tried, sent>>

PXInit ==
  /\ Init
  /\ phase = [r \in Request |-> "free"]
  /\ retryable = [r \in Request |-> FALSE]
  /\ cookie = [r \in Request |-> NoAddress]
  /\ attempt = [r \in Request |-> 0]
  /\ tried = [r \in Request |-> <<>>]
  /\ sent = [r \in Request |-> 0]

-----------------------------------------------------------------------------
(* A request reaches serveWithRetries. *)
Begin(r) ==
  /\ phase[r] = "free"
  /\ phase' = [phase EXCEPT ![r] = "pin"]
  /\ \E b \in BOOLEAN : retryable' = [retryable EXCEPT ![r] = b]
  /\ \E a \in IF Sticky THEN Address \cup {NoAddress} ELSE {NoAddress} :
       cookie' = [cookie EXCEPT ![r] = a]
  /\ attempt' = [attempt EXCEPT ![r] = 0]
  /\ tried' = [tried EXCEPT ![r] = <<>>]
  /\ sent' = [sent EXCEPT ![r] = 0]
  /\ UNCHANGED vars

Attempted(r, a) ==
  /\ phase' = [phase EXCEPT ![r] = "serve"]
  /\ tried' = [tried EXCEPT ![r] = Append(@, a)]

(* Mutant: a cookie is honoured for any member of the group. *)
PinnedUnchecked(r) ==
  /\ phase[r] = "pin"
  /\ cookie[r] \in Members
  /\ activeConns' = [activeConns EXCEPT ![cookie[r]] = @ + 1]
  /\ pc' = [pc EXCEPT ![r] = "inflight"]
  /\ target' = [target EXCEPT ![r] = cookie[r]]
  /\ Attempted(r, cookie[r])
  /\ UNCHANGED <<entries, version, slots, nextEjectExpiry, now, checkedAt, snap, gen,
                 retryable, cookie, attempt, sent>>

(* selectBackend: the pinned backend is still selectable. *)
Pinned(r) ==
  /\ phase[r] = "pin"
  /\ cookie[r] # NoAddress
  /\ PinTo(r, cookie[r])
  /\ Attempted(r, cookie[r])
  /\ UNCHANGED <<retryable, cookie, attempt, sent>>

(* Mutant: a client whose backend is gone waits for it. *)
NotPinnedWaits(r) ==
  /\ phase[r] = "pin"
  /\ ~(cookie[r] \in Members /\ Selectable(entries[cookie[r]], now))
  /\ phase' = [phase EXCEPT ![r] = IF cookie[r] = NoAddress THEN "next" ELSE "backoff"]
  /\ UNCHANGED <<vars, retryable, cookie, attempt, tried, sent>>

(* selectBackend: no affinity, or PinTo refuses. *)
NotPinned(r) ==
  /\ phase[r] = "pin"
  /\ ~(cookie[r] \in Members /\ Selectable(entries[cookie[r]], now))
  /\ phase' = [phase EXCEPT ![r] = "next"]
  /\ UNCHANGED <<vars, retryable, cookie, attempt, tried, sent>>

(* selectBackend -> NextForKey; with no backend left Handler answers 503. *)
SelectNext(r) ==
  /\ phase[r] = "next"
  /\ \/ /\ CheckExpiry(r) \/ Rebuild(r)
        /\ UNCHANGED pxVars
     \/ /\ Snapshot(r)
        /\ IF pc'[r] = "idle"
           THEN /\ phase' = [phase EXCEPT ![r] = "free"]
                /\ sent' = [sent EXCEPT ![r] = @ + 1]
           ELSE UNCHANGED <<phase, sent>>
        /\ UNCHANGED <<retryable, cookie, attempt, tried>>
     \/ \E a \in Address :
          /\ Pick(r, a)
          /\ Attempted(r, a)
          /\ UNCHANGED <<retryable, cookie, attempt, sent>>

(* Mutant: the method and body of the request are not looked at. *)
HasRetryAny(r) == attempt[r] < MaxRetries

(* retryable && !lastAttempt: the attempt is buffered and may be retried. *)
HasRetry(r) == retryable[r] /\ attempt[r] < MaxRetries

(* Mutant: what a failed attempt wrote is sent all the same. *)
RespondsAlways(r, failed) == TRUE

(* Does the attempt's output reach the client?  A buffered failure's is    *)
(* discarded.                                                              *)
Responds(r, failed) == ~(failed /\ HasRetry(r))

(* serveOnce returns from ServeHTTP and records the result. *)
AttemptEnds(r, failed, below500) ==
  /\ phase[r] = "serve"
  /\ RecordResult(r, ~failed /\ below500)
  /\ sent' = [sent EXCEPT ![r] = IF Responds(r, failed) THEN @ + 1 ELSE @]
  /\ phase' = [phase EXCEPT ![r] = IF failed /\ HasRetry(r) THEN "retry" ELSE "done"]
  /\ UNCHANGED <<retryable, cookie, attempt, tried>>

(* ServeHTTP panics after the headers: nothing is recorded, the deferred   *)
(* Release runs; an unbuffered response had begun.                         *)
AttemptPanics(r) ==
  /\ phase[r] = "serve"
  /\ Release(r)
  /\ sent' = [sent EXCEPT ![r] = IF HasRetry(r) THEN @ ELSE @ + 1]
  /\ phase' = [phase EXCEPT ![r] = "free"]
  /\ UNCHANGED <<retryable, cookie, attempt, tried>>

(* serveOnce's deferred Release, then the loop goes on or ends. *)
AttemptReleased(r) ==
  /\ phase[r] \in {"retry", "done"}
  /\ Release(r)
  /\ phase' = [phase EXCEPT ![r] = IF phase[r] = "retry" THEN "backoff" ELSE "free"]
  /\ attempt' = [attempt EXCEPT ![r] = IF phase[r] = "retry" THEN @ + 1 ELSE @]
  /\ UNCHANGED <<retryable, cookie, tried, sent>>

(* The back-off is over, and selection starts again from the same cookie. *)
Retry(r) ==
  /\ phase[r] = "backoff"
  /\ phase' = [phase EXCEPT ![r] = "pin"]
  /\ UNCHANGED <<vars, retryable, cookie, attempt, tried, sent>>

(* The client went away during the back-off: nothing is written. *)
Abandon(r) ==
  /\ phase[r] = "backoff"
  /\ phase' = [phase EXCEPT ![r] = "free"]
  /\ UNCHANGED <<vars, retryable, cookie, attempt, tried, sent>>

RequestStep(r) ==
  \/ Pinned(r)
  \/ NotPinned(r)
  \/ SelectNext(r)
  \/ \E below500 \in BOOLEAN : AttemptEnds(r, FALSE, below500)
  \/ AttemptEnds(r, TRUE, FALSE)
  \/ AttemptPanics(r)
  \/ AttemptReleased(r)
  \/ Retry(r)
  \/ Abandon(r)

PXNext ==
  \/ \E r \in Request : Begin(r) \/ RequestStep(r)
  \/ /\ \/ \E v \in 1..MaxVersion, weights \in BackendSets : Update(v, weights)
        \/ \E a \in Address, h \in BOOLEAN : SetHealth(a, h)
        \/ Tick
     /\ UNCHANGED pxVars

PXSpec == PXInit /\ [][PXNext]_proxyVars

-----------------------------------------------------------------------------
(* Properties *)

(* The client sees one response at most: nothing of an attempt that is     *)
(* retried reaches it, whichever attempt ends how.                         *)
OneResponse == \A r \in Request : sent[r] <= 1

(* A request that may not be replayed reaches one backend at most, and any *)
(* request at most MaxRetries more.                                        *)
BoundedReplay ==
  \A r \in Request : Len(tried[r]) <= IF retryable[r] THEN MaxRetries + 1 ELSE 1

(* Every backend choice, result and release the handlers make is one       *)
(* BackendList allows: no attempt is released twice or recorded without    *)
(* being held.                                                             *)
ProxyImplementsList == Spec

(* Every request ends, whatever backends and updates do. *)
RequestsEnd == \A r \in Request : phase[r] # "free" ~> phase[r] = "free"

=============================================================================
