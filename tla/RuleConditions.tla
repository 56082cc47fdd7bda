--------------------------- MODULE RuleConditions ---------------------------
(***************************************************************************)
(* What the single conditions of the rules in force say of a request: the  *)
(* rules and the request of RuleEngine, the operators of Matching.         *)
(***************************************************************************)
EXTENDS RuleEngine, Matching

\* What serde and hyper give their types: a condition has its four fields, a path
\* into the body is a sequence of segments, and a request has at most one body.
ASSUME ConditionsAssumption ==
    \A case \in Cases :
        /\ "body" \in DOMAIN case[2]
        /\ \A b, d \in case[2].body : b = d
        /\ \A a \in DOMAIN case[1] : \A node \in Range(Prepare(case[1][a]).conditions) :
              node.node = "leaf" =>
                  /\ DOMAIN node.condition = {"field", "name", "operator", "value"}
                  /\ node.condition.field = "body" => node.condition.name \in Seq(STRING)

Negation == [equals |-> "not_equals", contains |-> "not_contains", matches |-> "not_matches",
             in |-> "not_in", exists |-> "not_exists"]

\* The conditions of the rules that are not groups of conditions.
Tested ==
    UNION {{node.condition : node \in {n \in Range(Rule(a).conditions) : n.node = "leaf"}} :
            a \in DOMAIN file}

\* The body as the condition sees it has the field.
Found(c) == \E b \in ctx.body : json_get(b, c.name) # {}

\* Where the code has both, a negative operator holds exactly when the positive one
\* does not, be its value a text, a number, a list or missing; of a field of the body
\* this is so if the field is there.  The regular expression of a condition with
\* neither matches nor not_matches is not compiled.
NegationsComplement ==
    pc \notin {"loading", "rejected"} =>
        \A c \in Tested : \A op \in DOMAIN Negation :
            LET With(operator) == evaluate_condition([c EXCEPT !.operator = operator], ctx)
                both == CASE c.field \in {"method", "client_ip"} -> op \in {"equals", "in"}
                          [] c.field = "path" ->
                                 /\ op # "exists"
                                 /\ op = "matches" => c.operator \in {op, Negation[op]}
                          [] c.field = "header" -> op # "matches"
                          [] c.field = "body"   -> op = "exists" \/ (op # "matches" /\ Found(c))
                          [] OTHER -> FALSE
            IN both => With(Negation[op]) = ~With(op)

=============================================================================
