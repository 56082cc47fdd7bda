----------------------------- MODULE RuleEngine -----------------------------
(***************************************************************************)
(* The rule engine: how src/config.rs checks and orders the rules of a     *)
(* file, how evaluate_request_detailed() in src/rules.rs decides on a      *)
(* request, and how the filters of the rules rewrite Docker's response.    *)
(*                                                                         *)
(* An action is one turn of a loop of the code.  How a rule's conditions   *)
(* match is a parameter: module Conditions defines it.  A rate limiter may *)
(* grant or refuse whenever it is asked: module RateLimiter models it.     *)
(***************************************************************************)
EXTENDS JsonPaths

CONSTANTS
    Cases,          \* <<file, request>>: rules as declared, and a request for them
    Responses,      \* Docker's responses: [json |-> its type is JSON, body |-> a document]
    Matches(_, _),  \* all conditions of a rule hold for a request
    Prepare(_),     \* a rule with the environment's variables in place
    Compiles(_),    \* its regular expressions are valid
    Paths,          \* the paths at which documents are compared
    Unparsed,       \* a body that is not JSON
    Redacted,       \* "***REDACTED***"
    None

VARIABLES
    file,       \* the rules, as declared
    order,      \* the evaluation order: a sequence of their places in the file
    ctx,        \* the EvaluationContext
    pc,
    next,       \* the place in the order of the next rule to evaluate
    asked,      \* the rules whose rate limiter was consulted
    refused,    \* the one whose limiter refused, or 0
    decision,
    original,   \* Docker's response body
    doc,        \* what is left of it
    filters     \* the filters still to apply

ruleVars == <<file, order, ctx>>
docVars == <<original, doc, filters>>
vars == <<ruleVars, pc, next, asked, refused, decision, docVars>>

Undecided == [result |-> "none", rule |-> 0, dry |-> FALSE, status |-> 0]

Init ==
    /\ \E case \in Cases :
          /\ file = case[1]
          \* the body of an upgrade request is never read
          /\ ctx = [case[2] EXCEPT !.body = IF case[2].upgrade THEN {} ELSE @]
    /\ order = <<>> /\ pc = "loading" /\ next = 1 /\ asked = {} /\ refused = 0
    /\ decision = Undecided
    /\ original = Unparsed /\ doc = Unparsed /\ filters = <<>>

----------------------------------------------------------------------------
(* Loading: resolve_env_vars, compile_regexes, validate and                 *)
(* sort_rules_by_priority.                                                  *)

\* Mutant: a rate_limit rule without its settings is accepted.
ValidRuleUnlimited(r) ==
    /\ r.name # "" /\ r.action # "" /\ r.conditions # <<>>
    /\ r.action = "require_role" => r.role # None
    /\ r.action = "response_filter" => r.filters # None

ValidRule(r) ==
    /\ r.name # "" /\ r.action # "" /\ r.conditions # <<>>
    /\ r.action = "require_role" => r.role # None
    /\ r.action = "rate_limit" => r.limited
    /\ r.action = "response_filter" => r.filters # None

Priority(r) == IF r.priority = None THEN 0 ELSE r.priority

\* A path that is split at its dots has a segment.
FilterEntries ==
    [field : Seq(STRING) \ {<<>>}, action : STRING, replacement : Seq(STRING) \cup {None}]

\* The rules of a file, as YAML gives them their types.
ASSUME FilesAssumption ==
    \A case \in Cases :
        /\ Len(case[1]) \in Nat /\ DOMAIN case[1] = 1..Len(case[1])
        /\ \A a \in DOMAIN case[1] :
              LET r == Prepare(case[1][a]) IN
              /\ Priority(r) \in Nat /\ r.dry \in BOOLEAN
              /\ r.filters # None => r.filters \in Seq(FilterEntries)

ASSUME PathsAssumption == Paths \subseteq Seq(STRING)

\* Mutant: rules of equal priority come in any order.
OrdersUnstable(rules) ==
    LET places == DOMAIN rules IN
    {p \in [places -> places] :
        /\ \A a \in places : \E i \in places : p[i] = a
        /\ \A i, j \in places : i < j => Priority(rules[p[i]]) >= Priority(rules[p[j]])}

\* sort_by_key is stable: the highest priority first, equal ones as declared.
Orders(rules) ==
    LET places == DOMAIN rules IN
    {p \in [places -> places] :
        /\ \A a \in places : \E i \in places : p[i] = a
        /\ \A i, j \in places : i < j =>
              \/ Priority(rules[p[i]]) > Priority(rules[p[j]])
              \/ Priority(rules[p[i]]) = Priority(rules[p[j]]) /\ p[i] < p[j]}

Load ==
    /\ pc = "loading"
    /\ LET rules == [a \in DOMAIN file |-> Prepare(file[a])] IN
       IF \A a \in DOMAIN rules : Compiles(rules[a]) /\ ValidRule(rules[a])
       THEN pc' = "evaluating" /\ order' \in Orders(rules)
       ELSE pc' = "rejected" /\ UNCHANGED order
    /\ UNCHANGED <<file, ctx, next, asked, refused, decision, docVars>>

----------------------------------------------------------------------------
(* evaluate_request_detailed                                                *)
Rule(a) == Prepare(file[a])

Fires(r) == r.conditions # <<>> /\ Matches(r, ctx)

Required(r) == IF r.role = None THEN "admin" ELSE r.role

\* A deny rule refuses, and a require_role rule a role that is neither admin nor the
\* one it asks for.
Refuses(r) ==
    \/ r.action = "deny"
    \/ r.action = "require_role" /\ ctx.role \notin {"admin", Required(r)}

\* check() is called: not for a dry-run rule.
Asks(r) == r.action = "rate_limit" /\ ~r.dry /\ r.limited

\* Mutant: the status of a rule that has none is left out.
StatusUnset(r) == r.status

\* The status of a refusal; a number that is no status code becomes 403.
Status(r) ==
    LET code == CASE r.status # None -> r.status
                  [] r.status = None -> IF r.action = "rate_limit" THEN 429 ELSE 403
    IN IF code \in 100..999 THEN code ELSE 403

Decide(result, a, dry, status) ==
    /\ decision' = [result |-> result, rule |-> a, dry |-> dry, status |-> status]
    /\ pc' = IF result = "allow" THEN "allowed" ELSE "denied"
    /\ UNCHANGED <<ruleVars, next, docVars>>

Evaluating == pc = "evaluating" /\ next \in DOMAIN order

\* A rule that does not match, or has nothing to say.
PassOver ==
    /\ Evaluating
    /\ LET r == Rule(order[next]) IN
       Fires(r) => ~Refuses(r) /\ r.action # "allow" /\ ~Asks(r)
    /\ next' = next + 1
    /\ UNCHANGED <<ruleVars, pc, asked, refused, decision, docVars>>

\* A dry-run refusal lets the request through, and ends the evaluation as well.
Refuse ==
    /\ Evaluating
    /\ LET a == order[next]  r == Rule(a) IN
       /\ Fires(r) /\ Refuses(r)
       /\ IF r.dry THEN Decide("allow", a, TRUE, 0) ELSE Decide("deny", a, FALSE, Status(r))
    /\ UNCHANGED <<asked, refused>>

Allow ==
    /\ Evaluating
    /\ LET a == order[next]  r == Rule(a) IN
       Fires(r) /\ r.action = "allow" /\ Decide("allow", a, FALSE, 0)
    /\ UNCHANGED <<asked, refused>>

Ask ==
    /\ Evaluating
    /\ LET a == order[next]  r == Rule(a) IN
       /\ Fires(r) /\ Asks(r)
       /\ asked' = asked \cup {a}
       /\ \/ /\ next' = next + 1
             /\ UNCHANGED <<ruleVars, pc, refused, decision, docVars>>
          \/ /\ refused' = a
             /\ Decide("deny", a, FALSE, Status(r))

\* No rule had a verdict.
Default ==
    /\ pc = "evaluating" /\ next \notin DOMAIN order
    /\ Decide("allow", 0, FALSE, 0)
    /\ UNCHANGED <<asked, refused>>

----------------------------------------------------------------------------
(* Response filters.                                                        *)

\* collect_response_filters: of every rule that matches, whatever its action, and
\* also of those behind the rule that decided.
Collected ==
    FlattenSeq([i \in DOMAIN order |->
        LET r == Rule(order[i]) IN
        IF Fires(r) /\ r.filters # None THEN r.filters ELSE <<>>])

Replacement(f) == IF f.replacement = None THEN <<>> ELSE f.replacement

\* Mutant: a path of one segment is left to json_remove, which wants two.
FilteredDeep(json, f) ==
    CASE f.action = "redact"  -> json_set(json, f.field, Text(Redacted))
      [] f.action = "replace" -> json_set(json, f.field, Text(Replacement(f)))
      [] f.action = "remove"  -> json_remove(json, f.field)
      [] OTHER -> json

\* One filter of apply_response_filters.
Filtered(json, f) ==
    CASE f.action = "redact"  -> json_set(json, f.field, Text(Redacted))
      [] f.action = "replace" -> json_set(json, f.field, Text(Replacement(f)))
      [] f.action = "remove" /\ Len(f.field) = 1 ->
             IF json.type = "object" THEN Without(json, f.field[1]) ELSE json
      [] f.action = "remove" /\ Len(f.field) > 1 -> json_remove(json, f.field)
      [] OTHER -> json

\* Docker answers.  An upgraded connection is not filtered, and no response is
\* whose type or body is not JSON.
Respond ==
    /\ pc = "allowed"
    /\ \E response \in Responses :
          /\ original' = response.body /\ doc' = response.body
          /\ IF ctx.upgrade \/ ~response.json \/ response.body = Unparsed
             THEN filters' = <<>> /\ pc' = "answered"
             ELSE filters' = Collected /\ pc' = "filtering"
    /\ UNCHANGED <<ruleVars, next, asked, refused, decision>>

ApplyFilter ==
    /\ pc = "filtering" /\ filters # <<>>
    /\ doc' = Filtered(doc, Head(filters))
    /\ filters' = Tail(filters)
    /\ UNCHANGED <<ruleVars, pc, next, asked, refused, decision, original>>

Answer ==
    /\ pc = "filtering" /\ filters = <<>>
    /\ pc' = "filtered"
    /\ UNCHANGED <<ruleVars, next, asked, refused, decision, docVars>>

Next ==
    \/ Load \/ PassOver \/ Refuse \/ Allow \/ Ask \/ Default
    \/ Respond \/ ApplyFilter \/ Answer

Spec == Init /\ [][Next]_vars

----------------------------------------------------------------------------
(* Properties.                                                              *)

Decided == pc \notin {"loading", "rejected", "evaluating"}

\* Every variable keeps its type, and a refusal carries a status code.
TypeOK ==
    /\ pc \in {"loading", "rejected", "evaluating", "allowed", "denied",
               "filtering", "filtered", "answered"}
    /\ Decided \/ pc = "evaluating" => order \in [DOMAIN file -> DOMAIN file]
    /\ next \in Nat \ {0}
    /\ asked \subseteq DOMAIN file /\ refused \in {0} \cup DOMAIN file
    /\ decision.result \in {"none", "allow", "deny"}
    /\ decision.rule \in {0} \cup DOMAIN file
    /\ decision.dry \in BOOLEAN
    /\ decision.status \in (IF decision.result = "deny" THEN 100..999 ELSE {0})

\* a is evaluated before b: it has the higher priority, or was declared first.
Ahead(a, b) ==
    \/ Priority(Rule(a)) > Priority(Rule(b))
    \/ Priority(Rule(a)) = Priority(Rule(b)) /\ a < b

\* A rule that matches and whose action is terminating.
Terminates(r) == Fires(r) /\ r.action \in {"deny", "allow", "require_role"}

\* These rules, and the rate_limit rule that was exceeded.
Terminating ==
    {a \in DOMAIN file : Terminates(Rule(a)) \/ (Fires(Rule(a)) /\ refused = a)}

\* The user has the role that the rule asks for.
Satisfied(r) == r.action = "require_role" /\ ~Refuses(r)

\* The first declared rule, by priority and then by place, that matches and whose
\* action is terminating decides on the request, unless it is a require_role rule
\* that the user's role satisfies: of that case nothing is said here.  Whichever rule
\* decides matches and is terminating, the result is the one it asks for, reported as
\* a dry run if it is one, and a request that no rule decides on is allowed.
FirstRuleDecides ==
    Decided =>
        /\ decision.rule = 0 => decision.result = "allow"
        /\ decision.rule # 0 =>
              LET r == Rule(decision.rule) IN
              /\ decision.rule \in Terminating
              /\ decision.result = IF r.action = "allow" \/ r.dry THEN "allow" ELSE "deny"
              /\ decision.dry = (r.action # "allow" /\ r.dry)
        /\ \A a \in Terminating :
              (\A b \in Terminating \ {a} : Ahead(a, b)) /\ ~Satisfied(Rule(a)) => decision.rule = a

\* README, "rules": the first matching rule with a terminating action (deny, allow,
\* require_role) wins; no later one decides.
TerminatingRuleWins ==
    Decided =>
        \A a, b \in {c \in DOMAIN file : Terminates(Rule(c))} :
            decision.rule = b => ~Ahead(a, b)

\* Every rate_limit rule that matches and is not a dry run is asked exactly when its
\* turn comes: a request takes a token from all those ahead of the rule that decides
\* it, even if it is then refused, and from none behind.
LimitersAskedInTurn ==
    Decided =>
        asked =
            {a \in DOMAIN file :
                LET r == Rule(a) IN
                /\ Fires(r) /\ r.action = "rate_limit" /\ ~r.dry
                /\ decision.rule \in {0, a} \/ Ahead(a, decision.rule)}

\* The filters of the declared rules that match.
Owed ==
    LET firing == {a \in DOMAIN file : Fires(Rule(a)) /\ Rule(a).filters # None}
    IN UNION {Range(Rule(a).filters) : a \in firing}

Masks == {Text(Redacted)} \cup {Text(Replacement(f)) : f \in Owed}

\* Whatever the filters of all the matching rules do to one another's paths, in the
\* end none of what they name shows: a field redacted or replaced shows a mask or is
\* gone, a member of an object that was removed stays gone.
NamedFieldsHidden ==
    pc = "filtered" =>
        \A f \in Owed :
            /\ f.action \in {"redact", "replace"} => json_get(doc, f.field) \subseteq Masks
            /\ f.action = "remove" /\ (\A p \in json_get(doc, Front(f.field)) : p.type # "array") =>
                  json_get(doc, f.field) = {}

\* Segments that may lead to the same place, a member or an element.
Alike(s, t) == s = t \/ Index(s) \cap Index(t) # {}

OnTheWay(p, q) == Len(p) <= Len(q) /\ \A i \in DOMAIN p : Alike(p[i], q[i])

\* Paths of which neither is on the way to the other.
Apart(p, q) == ~OnTheWay(p, q) /\ ~OnTheWay(q, p)

\* The filters touch nothing that they do not name.
OthersUntouched ==
    pc \in {"filtered", "answered"} /\ original # Unparsed =>
        \A p \in Paths :
            (pc = "answered" \/ \A f \in Owed : Apart(p, f.field)) =>
                json_get(doc, p) = json_get(original, p)

=============================================================================
