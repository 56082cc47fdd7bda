------------------------------ MODULE MCRules ------------------------------
(***************************************************************************)
(* RuleEngine with the conditions of module Conditions, on two families of *)
(* cases: files of one rule with one condition, for every kind of          *)
(* condition and all requests; and files of up to three rules of every     *)
(* action, for requests that differ in what those rules look at.           *)
(***************************************************************************)
EXTENDS RuleConditions, Conditions

MCEnv == "SET" :> <<"x">>
MCVars == ("${SET}" :> "SET") @@ ("${UNSET}" :> "UNSET")
MCLowercase == ("G" :> "g") @@ ("H" :> "h")
MCRegexes ==
    (<<"x.">> :> {<<"x", "x">>, <<"x", "y">>}) @@ (<<"1">> :> {<<"1">>})
        @@ (<<>> :> {<<>>, <<"x">>})
MCIpNets == <<"net">> :> {<<"ip1">>}
MCIndices == ("0" :> 0) @@ ("1" :> 1) @@ ("01" :> 1) @@ ("2" :> 2)
MCRedacted == <<"***REDACTED***">>

----------------------------------------------------------------------------
(* Requests.                                                                *)
Body ==
    Object(("a" :> Text(<<"x", "y">>)) @@ ("n" :> Number(1, FALSE)) @@ ("f" :> Number(1, TRUE))
           @@ ("o" :> Object("b" :> Bool(TRUE))) @@ ("z" :> Null)
           @@ ("l" :> Array(<<Text(<<"x">>), Object("b" :> Bool(FALSE))>>)))

Request(method, path, headers, ip, body, role, upgrade) ==
    [method |-> method, path |-> path, headers |-> headers, client_ip |-> ip, body |-> body,
     role |-> role, upgrade |-> upgrade]

Plain == Request(<<"G">>, <<"x">>, <<>>, <<"ip1">>, {Body}, "user", FALSE)

\* The requests that differ in what a condition on a field looks at.
RequestsFor(field) ==
    CASE field = "method"    -> {[Plain EXCEPT !.method = m] : m \in {<<"G">>, <<"d">>}}
      [] field = "path"      -> {[Plain EXCEPT !.path = p] : p \in {<<"x">>, <<"x", "y">>, <<"y">>}}
      [] field = "client_ip" -> {[Plain EXCEPT !.client_ip = ip] : ip \in {<<"ip1">>, <<"ip2">>}}
      [] field = "header"    -> {[Plain EXCEPT !.headers = h] :
                                    h \in {<<>>, <<"h">> :> <<"x">>, <<"h">> :> <<"y", "x">>}}
      [] OTHER -> {Plain, [Plain EXCEPT !.body = {}], [Plain EXCEPT !.upgrade = TRUE]}

----------------------------------------------------------------------------
(* Files of one rule.                                                       *)
Leaf(field, name, operator, value) ==
    [node |-> "leaf",
     condition |-> [field |-> field, name |-> name, operator |-> operator, value |-> value]]

Operators == Range(Negation) \cup DOMAIN Negation \cup {"starts_with", "ends_with", "unknown"}

Values ==
    {NoValue, Null, Bool(TRUE), Number(1, FALSE), Number(1, TRUE), Text(<<"x">>),
     Text(<<"${SET}", "y">>), Text(<<"${UNSET}">>), Text(<<"x.">>), Text(<<"g">>),
     Text(<<"ip1">>), Text(<<"net">>),
     Array(<<Text(<<"x">>), Number(1, FALSE)>>), Array(<<Text(<<"net">>), Text(<<"ip2">>)>>),
     Array(<<Text(<<"g">>), Text(<<"ip2">>)>>)}

Fields ==
    {<<"method", "">>, <<"path", "">>, <<"client_ip", "">>, <<"header", <<"H">>>>, <<"other", "">>}
        \cup {<<"body", p>> : p \in {<<"a">>, <<"z">>, <<"n">>, <<"f">>, <<"o">>, <<"o", "b">>,
                                     <<"l">>, <<"l", "0">>, <<"l", "2">>, <<"l", "">>, <<"a", "b">>}}

MCRule(name, action, priority, conditions, dry) ==
    [name |-> name, action |-> action, priority |-> priority, conditions |-> conditions,
     role |-> "ops", status |-> None, limited |-> TRUE, filters |-> None, dry |-> dry]

LeafFiles ==
    {<<MCRule("leaf", "deny", None, <<Leaf(f[1], f[2], op, v)>>, FALSE)>> :
        f \in Fields, op \in Operators, v \in Values}

----------------------------------------------------------------------------
(* Files of several rules.                                                  *)
OnPath == Leaf("path", "", "equals", Text(<<"x">>))
Grouped ==
    LET both == <<OnPath, Leaf("header", <<"h">>, "exists", NoValue)>> IN
    [node |-> "or", nodes |-> <<Leaf("method", "", "equals", Text(<<"d">>)),
                                [node |-> "and", nodes |-> both]>>]

Filter(field, action, replacement) ==
    [field |-> field, action |-> action, replacement |-> replacement]

FilterRule(name, conditions, fs) ==
    [MCRule(name, "response_filter", None, conditions, FALSE) EXCEPT !.filters = fs]

FilterRules ==
    {FilterRule("f1", <<OnPath>>,
                <<Filter(<<"a">>, "redact", None), Filter(<<"l", "1">>, "replace", <<"r">>)>>),
     FilterRule("f2", <<Grouped>>,
                <<Filter(<<"a", "b">>, "remove", None), Filter(<<"o">>, "remove", None)>>),
     FilterRule("f3", <<OnPath>>,
                <<Filter(<<"o", "b">>, "remove", None), Filter(<<"l", "01", "b">>, "remove", None)>>),
     [FilterRule("f4", <<OnPath>>,
                <<Filter(<<"l">>, "replace", None), Filter(<<"n">>, "unknown", None)>>)
        EXCEPT !.action = "allow", !.priority = 2]}

Verdicting ==
    {MCRule(action, action, priority, conditions, dry) :
        action \in {"deny", "allow", "require_role", "rate_limit"}, priority \in {None, 1},
        conditions \in {<<OnPath>>, <<Grouped>>}, dry \in BOOLEAN}

\* Rules that validate() or the compilation of regular expressions refuses, and
\* some that it accepts.
Odd ==
    LET r == MCRule("odd", "deny", None, <<OnPath>>, FALSE) IN
    {[r EXCEPT !.name = ""], [r EXCEPT !.action = ""], [r EXCEPT !.conditions = <<>>],
     [r EXCEPT !.action = "require_role", !.role = None],
     [r EXCEPT !.action = "rate_limit", !.limited = FALSE],
     [r EXCEPT !.action = "response_filter"],
     [r EXCEPT !.conditions = <<Leaf("path", "", "matches", Text(<<"broken">>))>>],
     [r EXCEPT !.action = "log"], [r EXCEPT !.status = 99], [r EXCEPT !.status = 451]}

RuleFiles ==
    {<<>>} \cup {<<a, b>> : a \in Verdicting \cup Odd, b \in Verdicting}
           \cup {<<a, b, c>> : a \in Verdicting, b \in {v \in Verdicting : v.conditions = <<OnPath>>},
                               c \in {v \in Verdicting : ~v.dry /\ v.conditions = <<OnPath>>}}
           \cup {<<a, b, c>> : a \in FilterRules,
                               b \in FilterRules \cup {v \in Verdicting : v.priority = None},
                               c \in FilterRules}

RuleRequests ==
    {Request(<<"G">>, <<"x">>, headers, <<"ip1">>, {}, role, FALSE) :
        headers \in {<<>>, <<"h">> :> <<"x">>}, role \in {"", "ops", "admin"}}

MCCases ==
    UNION {{file1} \X RequestsFor(file1[1].conditions[1].condition.field) : file1 \in LeafFiles}
        \cup (RuleFiles \X RuleRequests)

MCResponses ==
    {[json |-> TRUE, body |-> Body], [json |-> TRUE, body |-> Unparsed],
     [json |-> FALSE, body |-> Body]}

MCPaths ==
    {<<k>> : k \in {"a", "n", "f", "o", "z", "l"}} \cup {<<"o", "b">>, <<"l", "1", "b">>}
        \cup {<<"l", i>> : i \in DOMAIN Indices}

=============================================================================
