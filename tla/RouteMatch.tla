----------------------------- MODULE RouteMatch -----------------------------
(***************************************************************************)
(* A route table in its three forms and what it means for a request: the   *)
(* administrator's (internal/controlplane/routes.go), the one on the wire  *)
(* (publishRoutes, internal/controlplane/server.go) and the data plane's   *)
(* (internal/dataplane/router.go).                                         *)
(*                                                                         *)
(* Names are opaque; "" is the empty string.  Fold is equality up to case  *)
(* (strings.EqualFold, header canonicalisation).  A path is a sequence of  *)
(* symbols, "/" among them.  A header or query string maps names to sets   *)
(* of values.  A policy is its mode and its other fields in a sequence;    *)
(* the mode "" is no policy.  The headers a rewrite sets are pairs of name *)
(* and value.                                                              *)
(***************************************************************************)
EXTENDS Integers, Sequences, FiniteSetsExt

CONSTANT Fold(_)  \* a name with its case folded

Root == <<"/">>

NoRewrite == [strip |-> <<>>, add |-> <<>>, set |-> {}, remove |-> <<>>,
              response |-> {}]
NoAuth == [mode |-> "", policy |-> <<>>]

(* header.Values(name), query[name]: the values of a name, none if absent. *)
Values(pairs, name) == IF name \in DOMAIN pairs THEN pairs[name] ELSE {}

(* strings.HasPrefix *)
HasPrefix(s, prefix) == \E n \in 0..Len(s) : prefix = SubSeq(s, 1, n)

(* The position a scan stops at, 0 if it runs to the end. *)
FirstOf(hits) == IF hits = {} THEN 0 ELSE Min(hits)

-----------------------------------------------------------------------------
(* The control plane's matching *)

Matches(r, q) ==
  /\ r.host \in {"", "*"} \/ Fold(r.host) = Fold(q.host)
  /\ r.pathPrefix \in {<<>>, Root} \/ HasPrefix(q.path, r.pathPrefix)
  /\ r.methods = <<>> \/ \E m \in Range(r.methods) : Fold(m) = Fold(q.method)

(* headerMatches, queryMatches: presence, or the value wanted. *)
ConditionHolds(values, want) == IF want = "" THEN values # {} ELSE want \in values

MatchesRequest(r, q) ==
  /\ Matches(r, q)
  /\ \A c \in Range(r.headerMatches) :
       ConditionHolds(Values(q.header, Fold(c.name)), c.value)
  /\ \A c \in Range(r.queryMatches) :
       ConditionHolds(Values(q.query, c.name), c.value)

-----------------------------------------------------------------------------
(* publishRoutes: a route in wire form.  Targets and conditions without a  *)
(* name are left out, and so is a policy that asks for nothing.            *)

Named(conditions) == SelectSeq(conditions, LAMBDA c : c.name # "")

WireRoute(r) ==
  [r EXCEPT !.split = SelectSeq(@, LAMBDA t : t.group # ""),
            !.auth = IF @.mode \in {"", "none"} THEN NoAuth ELSE @,
            !.headerMatches = Named(@),
            !.queryMatches = Named(@)]

WireTable(routes) == [i \in DOMAIN routes |-> WireRoute(routes[i])]

-----------------------------------------------------------------------------
(* RouteTable.Update: a wire route in the data plane's form. *)

(* Mutant: a weight that is not set stays zero. *)
TargetUnweighted(t) == t

(* A target without a weight counts once. *)
Target(t) == [t EXCEPT !.weight = IF @ <= 0 THEN 1 ELSE @]

LocalSplit(split) ==
  LET named == SelectSeq(split, LAMBDA t : t.group # "")
  IN  [i \in DOMAIN named |-> Target(named[i])]

LocalRoute(r) ==
  [r EXCEPT !.split = LocalSplit(@),
            !.headerMatches = Named(@),
            !.queryMatches = Named(@)]

LocalTable(routes) == [i \in DOMAIN routes |-> LocalRoute(routes[i])]

-----------------------------------------------------------------------------
(* The data plane's matching and resolution *)

headerConditionMet(q, c) ==
  LET values == Values(q.header, Fold(c.name))
  IN  IF c.value = "" THEN values # {} ELSE c.value \in values

queryConditionMet(q, c) ==
  LET values == Values(q.query, c.name)
  IN  IF c.value = "" THEN c.name \in DOMAIN q.query ELSE c.value \in values

(* route.matches *)
dpMatches(r, q) ==
  /\ r.host \in {"", "*"} \/ Fold(r.host) = Fold(q.host)
  /\ r.pathPrefix \in {<<>>, Root} \/ HasPrefix(q.path, r.pathPrefix)
  /\ r.methods = <<>> \/ \E m \in Range(r.methods) : Fold(m) = Fold(q.method)
  /\ \A c \in Range(r.headerMatches) : headerConditionMet(q, c)
  /\ \A c \in Range(r.queryMatches) : queryConditionMet(q, c)

(* The weights of the first i targets together. *)
Cumulative(split, i) ==
  SumFunctionOnSet([j \in DOMAIN split |-> split[j].weight], 1..i)

(* pickSplit with the draw n: the first target whose cumulated weight      *)
(* exceeds it, the first target if there is nothing to draw from.          *)
pickSplit(split, n) ==
  IF Len(split) = 1 \/ Cumulative(split, Len(split)) <= 0
  THEN split[1].group
  ELSE split[Min({i \in DOMAIN split : n < Cumulative(split, i)})].group

(* The draws of Intn(total); one draw that is not used where there is no   *)
(* choice.                                                                 *)
Draws(split) ==
  IF Len(split) <= 1 \/ Cumulative(split, Len(split)) <= 0
  THEN {0}
  ELSE 0..(Cumulative(split, Len(split)) - 1)

(* resolveMatch: position of the first rule that matches, 0 if none. *)
MatchedRule(table, q) == FirstOf({i \in DOMAIN table : dpMatches(table[i], q)})

(* resolveMatch: group, rewrite and policy of the rule, the default group  *)
(* and neither without a rule.                                             *)
resolveMatch(table, q, default, n) ==
  LET i == MatchedRule(table, q)
  IN  IF i = 0
      THEN [group |-> default, rewrite |-> NoRewrite, auth |-> NoAuth]
      ELSE [group |-> IF table[i].split = <<>> THEN table[i].targetGroup
                      ELSE pickSplit(table[i].split, n),
            rewrite |-> table[i].rewrite,
            auth |-> table[i].auth]

(* TargetGroups: every group the table can resolve to. *)
TargetGroups(table, default) ==
  ({default} \cup UNION {{r.targetGroup} \cup {t.group : t \in Range(r.split)} :
                         r \in Range(table)}) \ ({""} \ {default})

(* applyRequest: the path the backend sees. *)
RewrittenPath(rw, path) ==
  LET strips == rw.strip # <<>> /\ HasPrefix(path, rw.strip)
      rest == SubSeq(path, Len(rw.strip) + 1, Len(path))
      stripped == IF ~strips THEN path
                  ELSE IF rest = <<>> \/ rest[1] # "/" THEN Root \o rest ELSE rest
  IN  rw.add \o stripped

-----------------------------------------------------------------------------
(* What a table means, from the administrator's form alone: the first rule *)
(* that matches decides, and a rule with targets sends each of them its    *)
(* weight out of the total, a weight that is not set counting once.        *)

Share(t) == IF t.weight > 0 THEN t.weight ELSE 1

MeantRule(routes, q) == FirstOf({i \in DOMAIN routes : MatchesRequest(routes[i], q)})

MeantShare(routes, q, default, g) ==
  LET i == MeantRule(routes, q)
      targets == {k \in DOMAIN routes[i].split : routes[i].split[k].group # ""}
  IN  IF i = 0 THEN IF g = default THEN 1 ELSE 0
      ELSE IF targets = {} THEN IF g = routes[i].targetGroup THEN 1 ELSE 0
      ELSE FoldSet(LAMBDA k, sum : IF routes[i].split[k].group = g
                                   THEN sum + Share(routes[i].split[k]) ELSE sum,
                   0, targets)

=============================================================================
