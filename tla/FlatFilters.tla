---------------------------- MODULE FlatFilters ----------------------------
(***************************************************************************)
(* What the filters of crates/vex-core/src/payload.rs find in a FlatIndex. *)
(***************************************************************************)
EXTENDS FlatIndex

Json == INSTANCE PayloadFilter

CONSTANTS
  Query,       \* the vector that is searched for
  Queries,     \* filters without negations, and their parts
  Nesting(_),  \* how deep such a filter is
  Combined,    \* sets of filters that are combined
  Keys,        \* field names
  Numbers,     \* bounds of ranges
  Values       \* JSON values that fields are compared to

(* Option<&Payload> and Option<&Filter>: None *)
NoPayload == {}
NoFilter == [op |-> "none"]

(* Option<f64> *)
Bounds == {{}} \cup {{n} : n \in Numbers}

(* The filters that the properties below are about. *)
Asked ==
  Queries \cup (UNION Combined) \cup {Json!Not(f) : f \in Queries}
  \cup {Json!And(fs) : fs \in Combined} \cup {Json!Or(fs) : fs \in Combined}
  \cup {Json!Interval(key, gte, lte) :
          key \in Keys, gte \in Bounds, lte \in Bounds}
  \cup {Json!In(key, vs) : key \in Keys, vs \in SUBSET Values}
  \cup {Json!Eq(key, v) : key \in Keys, v \in Values}
  \cup {Json!Contains(key, v) : key \in Keys, v \in Values}

(***************************************************************************)
(* Matches is what the code computes: without a filter every payload       *)
(* matches, a filter is evaluated from its parts (payload.rs:63-83).  A    *)
(* vector has at most one payload, a filter is a finite tree               *)
(* (payload.rs:55-57).                                                     *)
(***************************************************************************)
ASSUME FilterAssumption ==
  /\ Query \in Vectors
  /\ \A pl \in Payloads :
       /\ \A x, y \in pl : x = y
       /\ Matches(NoFilter, pl)
       /\ \A f \in Asked :
            Matches(f, pl) <=> Json!MatchesGiven(f, pl, {g \in Json!Parts(f) : Matches(g, pl)})
  /\ \A f \in Queries :
       /\ f.op \in {"eq", "range", "in", "contains", "and", "or"}
       /\ Nesting(f) \in Nat
       /\ \A g \in Json!Parts(f) : g \in Queries /\ Nesting(g) < Nesting(f)

(* The ids a search that asks for everything finds. *)
Found(f) ==
  LET hits == Search(Query, Len(entries) + 1, f) IN {hits[i].key : i \in 1 .. Len(hits)}

(***************************************************************************)
(* payload.rs:22-56: filters combine like the sets of what they find,      *)
(* whatever fields the payloads have: a range finds what each of its       *)
(* bounds finds, in what eq finds of one of the values, contains no less   *)
(* than eq, and a negation all the rest, payloads without the field and    *)
(* absent ones included.                                                   *)
(***************************************************************************)
FiltersFindSets ==
  /\ Found(NoFilter) = DOMAIN id_to_pos
  /\ \A f \in Queries : Found(Json!Not(f)) = DOMAIN id_to_pos \ Found(f)
  /\ \A fs \in Combined :
       /\ Found(Json!And(fs)) = {id \in DOMAIN id_to_pos : \A f \in fs : id \in Found(f)}
       /\ Found(Json!Or(fs)) = UNION {Found(f) : f \in fs}
  /\ \A key \in Keys, low \in Numbers, high \in Numbers :
       Found(Json!Interval(key, {low}, {high})) =
         Found(Json!Interval(key, {low}, {})) \cap Found(Json!Interval(key, {}, {high}))
  /\ \A key \in Keys, vs \in SUBSET Values :
       Found(Json!In(key, vs)) = UNION {Found(Json!Eq(key, v)) : v \in vs}
  /\ \A key \in Keys, v \in Values :
       Json!Is("array", v) \/ Found(Json!Eq(key, v)) \subseteq Found(Json!Contains(key, v))

(***************************************************************************)
(* payload.rs:60-62, index.rs:28-29: a vector without a payload is found   *)
(* only by negations and by filters that find every vector, however they   *)
(* are nested.                                                             *)
(***************************************************************************)
BareVectorsNeedVacuousFilters ==
  \A f \in Queries :
    (\E id \in Found(f) : Entry(id).payload = NoPayload) => Found(f) = DOMAIN id_to_pos

=============================================================================
