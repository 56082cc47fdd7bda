------------------------------ MODULE Matching ------------------------------
(***************************************************************************)
(* How src/rules.rs matches a single condition against a request.          *)
(*                                                                         *)
(* A text is a sequence of symbols.  A YAML value has the form of a JSON   *)
(* one, or is NoValue.  A condition names its field by a kind and, for a   *)
(* header or the body, a name or a path.                                   *)
(***************************************************************************)
EXTENDS JsonPaths

CONSTANTS
    Lowercase,  \* a function from the capital letters to the small ones
    Regexes,    \* the valid regular expressions: a function to what they match
    IpNets,     \* the texts that parse as a CIDR range: a function to its addresses
    ToJson(_)   \* to_string() of a document

NoValue == [type |-> "missing"]

\* yaml_value_to_string
AsText(value) ==
    CASE value.type = "text"   -> {value.text}
      [] value.type = "bool"   -> {<<ToString(value.bool)>>}
      [] value.type = "number" ->
             {<<ToString(value.number)>> \o (IF value.float THEN <<".0">> ELSE <<>>)}
      [] OTHER -> {}

Lower(text) ==
    [i \in DOMAIN text |-> IF text[i] \in DOMAIN Lowercase THEN Lowercase[text[i]] ELSE text[i]]

\* Texts are compared exactly, or with eq_ignore_ascii_case.
Same(a, b, caseless) == IF caseless THEN Lower(a) = Lower(b) ELSE a = b

\* The texts of a list; nothing for a value that is no list.
Listed(value) == IF value.type = "array" THEN UNION {AsText(v) : v \in Range(value.items)} ELSE {}

\* How a condition compares a text: the part that paths, methods and headers share.
Compare(c, s, caseless) ==
    LET val == AsText(c.value) IN
    CASE c.operator = "equals"       -> \E v \in val : Same(s, v, caseless)
      [] c.operator = "not_equals"   -> \A v \in val : ~Same(s, v, caseless)
      [] c.operator = "contains"     -> \E v \in val : v \in SubSeqs(s)
      [] c.operator = "not_contains" -> \A v \in val : v \notin SubSeqs(s)
      [] c.operator = "starts_with"  -> \E v \in val : IsPrefix(v, s)
      [] c.operator = "ends_with"    -> \E v \in val : IsSuffix(v, s)
      [] c.operator = "matches"      -> \E v \in val : s \in Regexes[v]
      [] c.operator = "not_matches"  -> \A v \in val : s \notin Regexes[v]
      [] c.operator = "in"           -> \E v \in Listed(c.value) : Same(s, v, caseless)
      [] c.operator = "not_in"       -> \A v \in Listed(c.value) : ~Same(s, v, caseless)
      [] OTHER -> FALSE

match_path_condition(c, path) == Compare(c, path, FALSE)

match_method_condition(c, method) ==
    /\ c.operator \in {"equals", "not_equals", "in", "not_in"}
    /\ Compare(c, method, TRUE)

Named(headers, name) == {headers[h] : h \in {k \in DOMAIN headers : Same(k, name, TRUE)}}

\* Mutant: a header has to be there for any operator to hold.
match_header_if_present(c, headers, name) ==
    LET present == Named(headers, name) IN
    CASE c.operator = "exists"      -> present # {}
      [] c.operator = "not_exists"  -> present = {}
      [] c.operator = "not_matches" -> FALSE
      [] OTHER -> \E s \in present : Compare(c, s, FALSE)

\* A header that is absent satisfies the negative operators; not_matches is none
\* of the operators for headers.
match_header_condition(c, headers, name) ==
    LET present == Named(headers, name) IN
    CASE c.operator = "exists"      -> present # {}
      [] c.operator = "not_exists"  -> present = {}
      [] c.operator = "not_matches" -> FALSE
      [] c.operator \in {"not_equals", "not_contains", "not_in"} ->
             \A s \in present : Compare(c, s, FALSE)
      [] OTHER -> \E s \in present : Compare(c, s, FALSE)

\* The client's address, a text that parses.  One CIDR range in the list and its
\* other entries no longer count.
match_ip_condition(c, ip) ==
    LET entries == IF c.value.type = "array" THEN Listed(c.value) ELSE AsText(c.value)
        nets == {IpNets[e] : e \in entries \cap DOMAIN IpNets}
        within == IF nets = {} THEN ip \in entries ELSE \E net \in nets : ip \in net
    IN CASE c.operator = "in"     -> within
         [] c.operator = "not_in" -> ~within
         [] c.operator \in {"equals", "not_equals"} -> Compare(c, ip, FALSE)
         [] OTHER -> FALSE

\* value_equal: a YAML integer equals a JSON float of its value, not the reverse.
value_equal(yaml, json) ==
    CASE yaml.type \in {"text", "bool", "null"} -> json = yaml
      [] yaml.type = "number" -> /\ json.type = "number" /\ json.number = yaml.number
                                 /\ ~json.float => ~yaml.float
      [] OTHER -> FALSE

\* The text that a body field is compared by: a string as it is, else its JSON.
FieldText(json) == IF json.type = "text" THEN json.text ELSE ToJson(json)

HasText(json, v) ==
    IF json.type = "array" THEN Text(v) \in Range(json.items) ELSE v \in SubSeqs(FieldText(json))

\* How a condition compares a field of the body.
CompareField(c, json) ==
    LET val == AsText(c.value) IN
    CASE c.operator = "equals"       -> c.value # NoValue /\ value_equal(c.value, json)
      [] c.operator = "not_equals"   -> c.value # NoValue => ~value_equal(c.value, json)
      [] c.operator = "contains"     -> \E v \in val : HasText(json, v)
      [] c.operator = "not_contains" -> \A v \in val : ~HasText(json, v)
      [] c.operator = "in"     -> /\ c.value.type = "array"
                                  /\ \E v \in Range(c.value.items) : value_equal(v, json)
      [] c.operator = "not_in" -> c.value.type = "array" =>
                                      \A v \in Range(c.value.items) : ~value_equal(v, json)
      [] c.operator = "starts_with" -> \E v \in val : IsPrefix(v, FieldText(json))
      [] c.operator = "matches"     -> \E v \in val : FieldText(json) \in Regexes[v]
      [] OTHER -> FALSE

\* A field that is missing satisfies not_exists and nothing else, negative or not.
match_body_condition(c, body, path) ==
    LET found == UNION {json_get(b, path) : b \in body}
    IN CASE c.operator = "exists"     -> found # {}
         [] c.operator = "not_exists" -> found = {}
         [] OTHER -> \E json \in found : CompareField(c, json)

evaluate_condition(c, ctx) ==
    CASE c.field = "method"    -> match_method_condition(c, ctx.method)
      [] c.field = "path"      -> match_path_condition(c, ctx.path)
      [] c.field = "client_ip" -> match_ip_condition(c, ctx.client_ip)
      [] c.field = "header"    -> match_header_condition(c, ctx.headers, c.name)
      [] c.field = "body"      -> match_body_condition(c, ctx.body, c.name)
      [] OTHER -> FALSE

=============================================================================
