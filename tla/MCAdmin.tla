------------------------------ MODULE MCAdmin -------------------------------
(***************************************************************************)
(* Admin with two browsers.  The forms include fields that do not parse    *)
(* and a rate below one; the rows have every feature of the routes page,   *)
(* with malformed and repeated parts.                                      *)
(***************************************************************************)
EXTENDS Admin, TLC

(* Three logins, two with one other request, or two other requests. *)
MCMixes == {m \in (0..3) \X (0..2) : 2 * m[1] + 3 * m[2] <= 7}

Symmetry == Permutations(Password)

MCFold(name) == CASE name = "get" -> "GET" [] OTHER -> name
MCUpper(name) == CASE name = "get" -> "GET" [] OTHER -> name

MCForm ==
  { [store |-> "override", key |-> "b1", action |-> "drain", weight |-> Malformed],
    [store |-> "override", key |-> "b1", action |-> "clear", weight |-> Malformed],
    [store |-> "override", key |-> "b2", action |-> "set_weight", weight |-> 0],
    [store |-> "algorithm", key |-> "web", algorithm |-> "p2c"],
    [store |-> "algorithm", key |-> "web", algorithm |-> "fastest"],
    [store |-> "sticky", key |-> "web", enabled |-> TRUE, cookie |-> "", minutes |-> -1],
    [store |-> "ratelimit", key |-> "web", enabled |-> TRUE, rps |-> 5, burst |-> Malformed] }

Row == [order |-> 0, action |-> "", host |-> "", pathPrefix |-> <<>>, methods |-> <<>>,
        targetGroup |-> "web", split |-> <<>>, strip |-> <<>>, headers |-> <<>>,
        auth |-> OpenField, match |-> <<>>]

MCNewRow ==
  { [Row EXCEPT !.methods = <<"get", "", "PUT">>,
                !.split = << [group |-> "web", weight |-> NoWeight],
                             [group |-> "canary", weight |-> MaxInt32 + 1],
                             [group |-> "web", weight |-> Malformed],
                             [group |-> "", weight |-> 2] >>,
                !.auth = [scheme |-> "jwt:hmac", parts |-> <<"s", "", "aud">>]],
    [Row EXCEPT !.order = 5,
                !.pathPrefix = Root, !.strip = Root,
                !.headers = << [kind |-> "set", name |-> "X", value |-> "1"],
                               [kind |-> "remove", name |-> "Y", value |-> ""],
                               [kind |-> "set", name |-> "X", value |-> "2"],
                               [kind |-> "set", name |-> "W", value |-> ""] >>,
                !.auth = [scheme |-> "apikey", parts |-> <<"k1", "", "k2">>],
                !.match = << [kind |-> "query", name |-> "q", value |-> "1"],
                             [kind |-> "bare", name |-> "H", value |-> ""],
                             [kind |-> "header", name |-> "", value |-> "v"] >>] }

=============================================================================
