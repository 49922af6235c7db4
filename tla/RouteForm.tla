----------------------------- MODULE RouteForm ------------------------------
(***************************************************************************)
(* The routes page of the admin UI (internal/admin/handlers.go): a route   *)
(* table as rows of a form and a submitted form as a route table.          *)
(*                                                                         *)
(* A text field is the sequence of its comma or line separated parts, each *)
(* already cut at its separators; names contain no separator.  A weight is *)
(* NoWeight where a part has no colon and Malformed where it is no number. *)
(***************************************************************************)
EXTENDS RouteMatch, Settings

CONSTANT Upper(_)  \* strings.ToUpper

(* splitMethods: upper case, empty parts dropped. *)
splitMethods(parts) ==
  LET named == SelectSeq(parts, LAMBDA p : p # "")
  IN  [i \in DOMAIN named |-> Upper(named[i])]

-----------------------------------------------------------------------------
(* Split field *)

(* A part that is kept: it names a group, and its weight, if it has one,   *)
(* is a positive number.                                                   *)
KeptTarget(p) ==
  /\ p.group # ""
  /\ p.weight = NoWeight \/ (p.weight # Malformed /\ p.weight > 0)

parseSplit(parts) ==
  LET kept == SelectSeq(parts, KeptTarget)
  IN  [i \in DOMAIN kept |->
         [group |-> kept[i].group,
          weight |-> IF kept[i].weight = NoWeight THEN 1
                     ELSE Min({kept[i].weight, MaxInt32})]]

formatSplit(targets) ==
  [i \in DOMAIN targets |-> [targets[i] EXCEPT !.weight = IF @ <= 0 THEN 1 ELSE @]]

-----------------------------------------------------------------------------
(* Rewrite fields: a path prefix and lines that set or remove a header.    *)

(* Of two lines that set one header the later wins. *)
parseRewrite(strip, lines) ==
  LET sets == {i \in DOMAIN lines : lines[i].kind = "set" /\ lines[i].name # ""}
      removes == SelectSeq(lines, LAMBDA l : l.kind = "remove" /\ l.name # "")
  IN  [NoRewrite EXCEPT
         !.strip = strip,
         !.set = {<<lines[i].name, lines[i].value>> :
                    i \in {j \in sets : \A k \in sets :
                             k > j => lines[k].name # lines[j].name}},
         !.remove = [i \in DOMAIN removes |-> removes[i].name]]

(* The lines that set headers come first, sorted by name. *)
formatRewrite(rw) ==
  LET sets == CHOOSE s \in Bijection(1..Cardinality(rw.set), rw.set) : TRUE
  IN  [i \in DOMAIN sets |-> [kind |-> "set", name |-> sets[i][1], value |-> sets[i][2]]]
      \o [i \in DOMAIN rw.remove |-> [kind |-> "remove", name |-> rw.remove[i], value |-> ""]]

-----------------------------------------------------------------------------
(* Auth field: a scheme and its parts; anything else is an open route.     *)

OpenField == [scheme |-> "", parts |-> <<>>]

(* Part i, "" where the field ends before it. *)
PartAt(parts, i) == IF i \in DOMAIN parts THEN parts[i] ELSE ""

parseAuth(f) ==
  LET keys == SelectSeq(f.parts, LAMBDA k : k # "")
  IN  CASE f.scheme = "apikey" /\ keys # <<>> -> [mode |-> "api_key", policy |-> keys]
        [] f.scheme = "jwt:hmac" /\ PartAt(f.parts, 1) # "" ->
             [mode |-> "jwt", policy |-> [i \in 1..3 |-> PartAt(f.parts, i)]]
        [] OTHER -> NoAuth

(* Mutant: the audience is not written. *)
formatAuthNoAudience(a) ==
  CASE a.mode = "api_key" -> [scheme |-> "apikey", parts |-> a.policy]
    [] a.mode = "jwt" -> [scheme |-> "jwt:hmac", parts |-> SubSeq(a.policy, 1, 2)]
    [] OTHER -> OpenField

(* An RSA policy, which is not set through the form, is a policy of one    *)
(* part here and a marker in the field.                                    *)
formatAuth(a) ==
  CASE a.mode = "api_key" -> [scheme |-> "apikey", parts |-> a.policy]
    [] a.mode = "jwt" /\ Len(a.policy) = 1 -> [scheme |-> "jwt:rsa", parts |-> <<>>]
    [] a.mode = "jwt" /\ Len(a.policy) = 3 ->
         [scheme |-> "jwt:hmac",
          parts |-> IF a.policy[2] = "" /\ a.policy[3] = "" THEN <<a.policy[1]>>
                    ELSE a.policy]
    [] OTHER -> OpenField

-----------------------------------------------------------------------------
(* Match field: lines marked header or query; a bare line is a header.     *)

ConditionsOf(lines) ==
  LET named == SelectSeq(lines, LAMBDA l : l.name # "")
  IN  [i \in DOMAIN named |-> [name |-> named[i].name, value |-> named[i].value]]

parseMatchHeaders(lines) == ConditionsOf(SelectSeq(lines, LAMBDA l : l.kind # "query"))
parseMatchQueries(lines) == ConditionsOf(SelectSeq(lines, LAMBDA l : l.kind = "query"))

formatMatch(headers, queries) ==
  [i \in DOMAIN headers |->
     [kind |-> "header", name |-> headers[i].name, value |-> headers[i].value]]
  \o [i \in DOMAIN queries |->
        [kind |-> "query", name |-> queries[i].name, value |-> queries[i].value]]

-----------------------------------------------------------------------------
(* The page and the submission *)

routesToRows(routes) ==
  [i \in DOMAIN routes |->
     LET r == routes[i] IN
       [order |-> i - 1, action |-> "",
        host |-> r.host, pathPrefix |-> r.pathPrefix, methods |-> r.methods,
        targetGroup |-> r.targetGroup, split |-> formatSplit(r.split),
        strip |-> r.rewrite.strip, headers |-> formatRewrite(r.rewrite),
        auth |-> formatAuth(r.auth),
        match |-> formatMatch(r.headerMatches, r.queryMatches)]]

rowToRoute(row) ==
  [host |-> row.host, pathPrefix |-> row.pathPrefix,
   methods |-> splitMethods(row.methods),
   targetGroup |-> row.targetGroup, split |-> parseSplit(row.split),
   rewrite |-> parseRewrite(row.strip, row.headers), auth |-> parseAuth(row.auth),
   headerMatches |-> parseMatchHeaders(row.match),
   queryMatches |-> parseMatchQueries(row.match)]

(* handleRoutesSubmit: rows marked for deletion and rows without a target  *)
(* group are left out; the rest is sorted by its order field, rows with    *)
(* the same number as they were submitted.                                 *)
rowsToRoutes(rows) ==
  LET kept == {i \in DOMAIN rows : rows[i].action # "delete" /\ rows[i].targetGroup # ""}
      before(i, j) == rows[i].order < rows[j].order \/ (rows[i].order = rows[j].order /\ i < j)
      sorted == CHOOSE s \in Bijection(1..Cardinality(kept), kept) :
                  \A a, b \in DOMAIN s : a < b => before(s[a], s[b])
  IN  [k \in DOMAIN sorted |-> rowToRoute(rows[sorted[k]])]

=============================================================================
