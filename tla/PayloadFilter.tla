--------------------------- MODULE PayloadFilter ---------------------------
(***************************************************************************)
(* Payloads and the filter language (crates/vex-core/src/payload.rs).      *)
(*                                                                         *)
(* A JSON value is a record whose one field tells its kind, so that an     *)
(* integer and a float of the same amount are different values, as in      *)
(* serde_json.  An optional value is a set of at most one.  A filter is a  *)
(* record with its name in op.                                             *)
(***************************************************************************)
EXTENDS Integers, Sequences, FiniteSets

JsonNull == [null |-> TRUE]
Integer(n) == [int |-> n]
Float(n) == [float |-> n]
Str(s) == [str |-> s]
Array(items) == [array |-> items]
Object(fields) == [object |-> fields]

Is(kind, v) == kind \in DOMAIN v

Eq(key, value) == [op |-> "eq", key |-> key, value |-> value]
Interval(key, gte, lte) == [op |-> "range", key |-> key, gte |-> gte, lte |-> lte]
In(key, values) == [op |-> "in", key |-> key, values |-> values]
Contains(key, value) == [op |-> "contains", key |-> key, value |-> value]
And(fs) == [op |-> "and", of |-> fs]
Or(fs) == [op |-> "or", of |-> fs]
Not(f) == [op |-> "not", of |-> f]

(* Mutant: a field that is not there reads as null. *)
FieldOrNull(payload, key) ==
  LET found == {p.object[key] : p \in {x \in payload : Is("object", x) /\ key \in DOMAIN x.object}}
  IN IF found = {} THEN {JsonNull} ELSE found

(* payload.and_then(|p| p.get(key)): only objects have fields. *)
Field(payload, key) ==
  {p.object[key] : p \in {x \in payload : Is("object", x) /\ key \in DOMAIN x.object}}

(* Value::as_f64 *)
AsF64(v) == IF Is("int", v) THEN {v.int} ELSE IF Is("float", v) THEN {v.float} ELSE {}

(* Mutant: a bound that is missing excludes everything. *)
InIntervalBounded(v, gte, lte) ==
  \E x \in AsF64(v) : (\E g \in gte : x >= g) /\ (\E l \in lte : x <= l)

InInterval(v, gte, lte) ==
  \E x \in AsF64(v) : (\A g \in gte : x >= g) /\ (\A l \in lte : x <= l)

(* An array holds its elements, any other value itself. *)
Holds(v, value) ==
  IF Is("array", v) THEN \E i \in 1 .. Len(v.array) : v.array[i] = value ELSE v = value

(* The filters that a filter is made of. *)
Parts(f) ==
  CASE f.op \in {"and", "or"} -> f.of
    [] f.op = "not"           -> {f.of}
    [] OTHER                  -> {}

(* Filter::matches, for a filter of whose parts those in matching match. *)
MatchesGiven(f, payload, matching) ==
  CASE f.op = "eq"       -> Field(payload, f.key) = {f.value}
    [] f.op = "range"    -> \E v \in Field(payload, f.key) : InInterval(v, f.gte, f.lte)
    [] f.op = "in"       -> \E v \in Field(payload, f.key) : v \in f.values
    [] f.op = "contains" -> \E v \in Field(payload, f.key) : Holds(v, f.value)
    [] f.op = "and"      -> f.of \subseteq matching
    [] f.op = "or"       -> f.of \cap matching # {}
    [] f.op = "not"      -> f.of \notin matching

=============================================================================
