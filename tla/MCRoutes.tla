------------------------------ MODULE MCRoutes ------------------------------
(* Routes on a small instance: three tables that use every field of a      *)
(* route, and requests on both sides of each of their conditions.          *)
EXTENDS Routes

MCFold(s) ==
  CASE s = "Web" -> "web" [] s = "GET" -> "get" [] s = "X-Canary" -> "x-canary"
    [] OTHER -> s

Plain == [host |-> "", pathPrefix |-> Root, methods |-> <<>>, headerMatches |-> <<>>,
          queryMatches |-> <<>>, targetGroup |-> "stable", split |-> <<>>,
          rewrite |-> NoRewrite, auth |-> NoAuth]

Api == <<"/", "api">>

(* Canary traffic by header and query, then the api split three to one     *)
(* with its prefix stripped and a policy, then the rest.                   *)
Canary ==
  << [Plain EXCEPT !.host = "Web", !.targetGroup = "canary",
                   !.headerMatches = << [name |-> "X-Canary", value |-> "1"] >>,
                   !.queryMatches = << [name |-> "beta", value |-> ""] >>],
     [Plain EXCEPT !.pathPrefix = Api, !.methods = <<"GET">>,
                   !.split = << [group |-> "stable", weight |-> 3],
                                [group |-> "", weight |-> 5],
                                [group |-> "canary", weight |-> 0] >>,
                   !.rewrite = [NoRewrite EXCEPT !.strip = Api],
                   !.auth = [mode |-> "jwt", policy |-> <<"s", "", "">>]],
     [Plain EXCEPT !.host = "*"] >>

(* One target twice, and a policy that asks for nothing. *)
Doubled ==
  << [Plain EXCEPT !.pathPrefix = <<>>, !.auth = [mode |-> "none", policy |-> <<>>],
                   !.split = << [group |-> "canary", weight |-> 1],
                                [group |-> "stable", weight |-> 1],
                                [group |-> "canary", weight |-> 1] >>] >>

MCTable == {Canary, Doubled}

Ask(host, path, method, canary, beta) ==
  [host |-> host, path |-> path, method |-> method,
   header |-> IF canary = {} THEN << >> ELSE [h \in {"x-canary"} |-> canary],
   query |-> IF beta THEN [p \in {"beta"} |-> {""}] ELSE << >>]

MCRequest ==
  {Ask("web", Root, "get", {"1"}, TRUE),
   Ask("web", Api, "get", {"1"}, FALSE),
   Ask("web", Api \o Root, "get", {"0"}, TRUE),
   Ask("other", Api \o <<"s">>, "GET", {}, FALSE),
   Ask("other", Api, "put", {}, TRUE)}

=============================================================================
