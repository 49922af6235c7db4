---------------------------- MODULE LoginLimiter ----------------------------
(***************************************************************************)
(* The admin login limiter and the login requests of one address           *)
(* (internal/admin/ratelimit.go, handleLoginSubmit): the check and the     *)
(* record are two sections under the lock, the password is verified        *)
(* between them.                                                           *)
(***************************************************************************)
EXTENDS Integers, FiniteSets

CONSTANTS
  Handler,      \* requests that can be in progress at once
  MaxFailures,  \* failures that lock the address out
  Window,       \* how long failures are counted together
  Lockout       \* how long the address stays locked out

ASSUME LimiterAssumption ==
  /\ MaxFailures \in Nat \ {0} /\ Window \in Nat /\ Lockout \in Nat
  /\ Window <= Lockout
  /\ IsFiniteSet(Handler)

VARIABLES
  now,
  byIP,    \* the entry of the address: failures, the first one, locked until
  attempt  \* where each login request is

limiterVars == <<now, byIP, attempt>>

(* No failure is recorded: every request is allowed. *)
NoEntry == [failures |-> 0, first |-> -1, locked |-> -1]

LimiterInit ==
  /\ now \in Nat
  /\ byIP = NoEntry
  /\ attempt = [h \in Handler |-> "none"]

(* Mutant: nobody is locked out. *)
AllowedAlways == now >= byIP.first

Allowed == now > byIP.locked

(* The entry after one more failure: a new one where the window of the old *)
(* one is over.                                                            *)
Failed ==
  LET fresh == byIP.failures = 0 \/ now - byIP.first > Window
      n == IF fresh THEN 1 ELSE byIP.failures + 1
  IN  [failures |-> n,
       first |-> IF fresh THEN now ELSE byIP.first,
       locked |-> IF n >= MaxFailures THEN now + Lockout
                  ELSE IF fresh THEN -1 ELSE byIP.locked]

Submit(h) ==
  /\ attempt[h] = "none"
  /\ Allowed
  /\ attempt' = [attempt EXCEPT ![h] = "verifying"]
  /\ UNCHANGED <<now, byIP>>

Verify(h) ==
  /\ attempt[h] = "verifying"
  /\ \E outcome \in {"failure", "success"} :
       attempt' = [attempt EXCEPT ![h] = outcome]
  /\ UNCHANGED <<now, byIP>>

RecordFailure(h) ==
  /\ attempt[h] = "failure"
  /\ byIP' = Failed
  /\ attempt' = [attempt EXCEPT ![h] = "none"]
  /\ UNCHANGED now

RecordSuccess(h) ==
  /\ attempt[h] = "success"
  /\ byIP' = NoEntry
  /\ attempt' = [attempt EXCEPT ![h] = "none"]
  /\ UNCHANGED now

(* A restart forgets the entry and ends every request. *)
Forget ==
  /\ byIP' = NoEntry
  /\ attempt' = [h \in Handler |-> "none"]
  /\ UNCHANGED now

TimePasses ==
  /\ now' \in Nat /\ now' > now
  /\ UNCHANGED <<byIP, attempt>>

LimiterNext ==
  \/ \E h \in Handler : Submit(h) \/ Verify(h) \/ RecordFailure(h) \/ RecordSuccess(h)
  \/ Forget
  \/ TimePasses

LimiterSpec == LimiterInit /\ [][LimiterNext]_limiterVars

-----------------------------------------------------------------------------
(* Properties *)

(* The entry counts at most the failures that lock it and those of the     *)
(* requests that were already past the check: between Allowed and          *)
(* RecordFailure the password is verified outside the lock.                *)
GuessesBounded == byIP.failures < MaxFailures + Cardinality(Handler)

(* The requests that may still record a failure. *)
InFlight == {h \in Handler : attempt[h] \in {"verifying", "failure"}}

LimiterTypeOK ==
  /\ now \in Nat
  /\ byIP \in [failures : Nat, first : Int, locked : Int]
  /\ attempt \in [Handler -> {"none", "verifying", "failure", "success"}]

(* The inductive invariant: a locked entry has counted some of the         *)
(* requests in flight already, or its window is over and the next failure  *)
(* starts a new one; and it stays locked at least as long as its window.   *)
LimiterInv ==
  /\ LimiterTypeOK
  /\ byIP.failures > 0 => byIP.first <= now
  /\ byIP.failures >= MaxFailures =>
       /\ byIP.locked >= byIP.first + Lockout
       /\ \/ now - byIP.first > Window
          \/ byIP.failures + Cardinality(InFlight) < MaxFailures + Cardinality(Handler)
  /\ GuessesBounded

=============================================================================
