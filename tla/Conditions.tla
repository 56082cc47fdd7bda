----------------------------- MODULE Conditions -----------------------------
(***************************************************************************)
(* The conditions of a rule: how src/config.rs prepares them when it loads *)
(* a file, and how the trees that src/rules.rs builds of them match.       *)
(* Module Matching has the conditions that are their leaves.               *)
(***************************************************************************)
EXTENDS Matching, Environment

CONSTANT
    Env     \* the environment: a function from variable names to texts

----------------------------------------------------------------------------
(* Loading.                                                                 *)

\* expand_value_env: texts and the texts of a list, at any depth.
RECURSIVE expand_value_env(_)
expand_value_env(value) ==
    CASE value.type = "text"  -> Text(expand_env(Env, value.text))
      [] value.type = "array" ->
             Array([i \in DOMAIN value.items |-> expand_value_env(value.items[i])])
      [] OTHER -> value

RECURSIVE expand_node_env(_)
expand_node_env(node) ==
    IF node.node = "leaf" THEN [node EXCEPT !.condition.value = expand_value_env(@)]
    ELSE [node EXCEPT !.nodes = [i \in DOMAIN @ |-> expand_node_env(@[i])]]

\* compile_regex_in_condition succeeds: matches and not_matches have a valid
\* regular expression, or no text for one at all.
compile_regex_in_condition(c) ==
    c.operator \in {"matches", "not_matches"} => AsText(c.value) \subseteq DOMAIN Regexes

RECURSIVE compile_regexes_in_node(_)
compile_regexes_in_node(node) ==
    IF node.node = "leaf" THEN compile_regex_in_condition(node.condition)
    ELSE \A n \in Range(node.nodes) : compile_regexes_in_node(n)

\* What loading does to a rule's conditions: a variable that is not set is no error.
resolve_env_vars(r) == [r EXCEPT !.conditions = [i \in DOMAIN @ |-> expand_node_env(@[i])]]

compile_regexes(r) == \A i \in DOMAIN r.conditions : compile_regexes_in_node(r.conditions[i])

----------------------------------------------------------------------------
(* Matching.                                                                *)

\* to_string() of a document.
RECURSIVE Serialised(_)
Serialised(json) ==
    LET Joined(parts) ==
            FlattenSeq([i \in DOMAIN parts |-> IF i = 1 THEN parts[i] ELSE <<",">> \o parts[i]])
    IN CASE json.type = "text" -> <<"quote">> \o json.text \o <<"quote">>
         [] json.type = "null" -> <<"null">>
         [] json.type = "array" ->
                <<"[">> \o Joined([i \in DOMAIN json.items |-> Serialised(json.items[i])]) \o <<"]">>
         [] json.type = "object" ->
                LET keys == SetToSeq(DOMAIN json.map)
                    Member(k) == <<"quote", k, "quote", ":">> \o Serialised(json.map[k])
                IN <<"{">> \o Joined([i \in DOMAIN keys |-> Member(keys[i])]) \o <<"}">>
         [] OTHER -> CHOOSE t \in AsText(json) : TRUE

RECURSIVE evaluate_node(_, _)
evaluate_node(node, ctx) ==
    CASE node.node = "leaf" -> evaluate_condition(node.condition, ctx)
      [] node.node = "and"  -> \A n \in Range(node.nodes) : evaluate_node(n, ctx)
      [] node.node = "or"   -> \E n \in Range(node.nodes) : evaluate_node(n, ctx)

\* All conditions of a rule hold.
AllMatch(r, ctx) == \A i \in DOMAIN r.conditions : evaluate_node(r.conditions[i], ctx)

=============================================================================
