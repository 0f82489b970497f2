---------------------------- MODULE MCFlatIndex ----------------------------
(***************************************************************************)
(* FlatIndex with vectors on a line, so that distances tie, and payloads   *)
(* that the filters tell apart.                                            *)
(***************************************************************************)
EXTENDS FlatReload, FlatFilters

MCDist(a, b) == (a - b) * (a - b)

(* Option<&Payload>: none, objects, and one that is not an object, and is
   too long to be saved. *)
Shoe == {Json!Object([price |-> Json!Integer(3), tags |-> Json!Array(<<Json!Str("red")>>)])}
Hat == {Json!Object([price |-> Json!Float(3), tags |-> Json!Str("red"),
                     colour |-> Json!Str("red")])}
Huge == {Json!Str("red")}
MCPayloads == {NoPayload, Shoe, Hat, Huge}
MCUnserialisable == {Huge}

(* Vectors of 0 to 24 components that differ in all of them, first, middle or
   last one more than the others. *)
MCComponents(v) ==
  UNION {{Kernels!Sample(n, odd, v) : odd \in {1, (n + 1) \div 2, n}} : n \in 0 .. 24}

(* Filter::matches *)
RECURSIVE FilterMatches(_, _)
FilterMatches(f, pl) ==
  Json!MatchesGiven(f, pl, {g \in Json!Parts(f) : FilterMatches(g, pl)})

MCMatches(f, pl) == f = NoFilter \/ FilterMatches(f, pl)

Cheap == Json!Interval("price", {}, {3})
Dear == Json!Interval("price", {4}, {})
AtThree == Json!Eq("price", Json!Integer(3))
Red == Json!Contains("tags", Json!Str("red"))
Named == Json!In("tags", {Json!Str("red"), Json!Str("blue")})
Unset == Json!Eq("colour", Json!JsonNull)
Vacuous == Json!Or({Json!And({}), Json!Or({})})
MCQueries == {Cheap, Dear, AtThree, Red, Named, Unset, Json!And({}), Json!Or({}),
              Json!And({Cheap, Red}), Json!Or({AtThree, Unset}), Vacuous}
MCNesting(f) == CASE f = Vacuous -> 2 [] Json!Parts(f) # {} -> 1 [] OTHER -> 0
MCCombined == {{Cheap, Red}, {AtThree, Unset}, {AtThree, Red, Json!Not(Dear)}}
MCKeys == {"price", "tags"}
MCValues == {Json!Str("red"), Json!Integer(3)}
MCFilters == {NoFilter, Cheap, Json!Not(Red)}

(* Id 1 comes with any payload, 2 and 3 with that of a shoe or none. *)
MayCarry(id, pl) ==
  CASE id = 1 -> TRUE [] id \in {2, 3} -> pl \in {NoPayload, Shoe} [] OTHER -> pl = NoPayload

(* Vectors 0 and 2 play the same role: a client adds 0 or 1 first. *)
Canonical(v) == entries = << >> => v < 2

MCNext ==
  \E id \in Ids :
    \/ \E v \in Vectors, pl \in Payloads : MayCarry(id, pl) /\ Canonical(v) /\ Add(id, v, pl)
    \/ Remove(id)

MCSpec == Init /\ [][MCNext]_vars

=============================================================================
