------------------------------ MODULE MCProxy ------------------------------
(***************************************************************************)
(* Proxy and Edge on small instances.  They meet where a request begins    *)
(* and ends and share no other state, so that a behaviour exercises one of *)
(* them, side.                                                             *)
(***************************************************************************)
EXTENDS Proxy, Edge

VARIABLE side

mcVars == <<side, proxyVars, edgeVars>>

MCLimits == {[rps |-> 1, burst |-> 2], [rps |-> 1, burst |-> 0]}

MCInit == side \in {"edge", "serving"} /\ PXInit /\ EdgeInit

Serving(A) == side = "serving" /\ A /\ UNCHANGED <<side, edgeVars>>

MCNext ==
  \/ Serving(PXNext)
  \/ side = "edge" /\ EdgeNext /\ UNCHANGED <<side, proxyVars>>

(* Handlers run, and the connect and response timeouts end every attempt. *)
MCSpec ==
  /\ MCInit /\ [][MCNext]_mcVars
  /\ \A r \in Request : WF_mcVars(Serving(RequestStep(r)))
=============================================================================
