----------------------------- MODULE JsonPaths -----------------------------
(***************************************************************************)
(* JSON documents and the dotted paths into them: json_get, json_get_mut   *)
(* and json_remove of src/rules.rs.                                        *)
(*                                                                         *)
(* A document is a tree of tagged records.  A path is the sequence of its  *)
(* segments.  An Option is a set of at most one element.                   *)
(***************************************************************************)
EXTENDS Integers, Sequences, SequencesExt, Functions, TLC

CONSTANT Indices    \* the index that a segment spells: that of "1", "01" and "+1" is 1

ASSUME IndicesAssumption == \A segment \in DOMAIN Indices : Indices[segment] \in Nat

Null == [type |-> "null"]
Bool(b) == [type |-> "bool", bool |-> b]
Number(n, float) == [type |-> "number", number |-> n, float |-> float]
Text(t) == [type |-> "text", text |-> t]
Array(items) == [type |-> "array", items |-> items]
Object(map) == [type |-> "object", map |-> map]

\* segment.parse::<usize>()
Index(segment) == {Indices[spelled] : spelled \in DOMAIN Indices \cap {segment}}

Members(value) ==
    CASE value.type = "object" -> value.map
      [] value.type = "array"  -> value.items
      [] OTHER -> <<>>

\* Where one segment leads: a member of an object or an element of an array.
Place(value, segment) ==
    IF segment = "" THEN {}
    ELSE DOMAIN Members(value) \cap
             (IF value.type = "object" THEN {segment} ELSE {i + 1 : i \in Index(segment)})

Child(value, segment) == {Members(value)[k] : k \in Place(value, segment)}

Further(found, segment) == UNION {Child(value, segment) : value \in found}

\* What is found after each segment of the path.
Walk(root, path) ==
    LET found[i \in 0..Len(path)] ==
            IF i = 0 THEN {root} ELSE Further(found[i - 1], path[i])
    IN found

\* json_get, and where json_get_mut leads.
json_get(root, path) == Walk(root, path)[Len(path)]

Like(value, members) == IF value.type = "object" THEN Object(members) ELSE Array(members)

\* Mutant: to json_get_mut array indices count from one.
PutFromOne(value, segment, new) ==
    LET place == IF value.type = "object" THEN Place(value, segment) ELSE Index(segment) IN
    Like(value, [k \in DOMAIN Members(value) |-> IF k \in place THEN new ELSE Members(value)[k]])

\* value with what its segment leads to replaced by new.
Put(value, segment, new) ==
    LET place == Place(value, segment) IN
    Like(value, [k \in DOMAIN Members(value) |-> IF k \in place THEN new ELSE Members(value)[k]])

At(root, path, i) == CHOOSE value \in Walk(root, path)[i] : TRUE

\* Every container on the way, rebuilt from the bottom around the new value.
Rebuild(root, path, new) ==
    LET rebuilt[i \in 0..Len(path)] ==
            IF i = Len(path) THEN new ELSE Put(At(root, path, i), path[i + 1], rebuilt[i + 1])
    IN rebuilt

\* An assignment through json_get_mut: nothing happens if the path leads nowhere.
json_set(root, path, new) ==
    IF json_get(root, path) = {} THEN root ELSE Rebuild(root, path, new)[0]

Without(object, key) == Object(Restrict(object.map, DOMAIN object.map \ {key}))

\* json_remove: only a member of an object goes, and only one that has a parent path.
json_remove(root, path) ==
    LET parents == IF Len(path) < 2 THEN {} ELSE json_get(root, Front(path)) IN
    IF \E p \in parents : p.type = "object"
    THEN json_set(root, Front(path), Without(CHOOSE p \in parents : TRUE, Last(path)))
    ELSE root

=============================================================================
