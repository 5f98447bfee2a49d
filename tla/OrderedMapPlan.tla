---------------------------- MODULE OrderedMapPlan ----------------------------
(***************************************************************************)
(* The one plan of the OrderedMap runner, contracts/ordered-map/           *)
(* conformance-plan.json, as semantic_packages/ordered_map_contract.py     *)
(* pins it, and what its words mean to the runner.                         *)
(*                                                                         *)
(* The binding of a step is its number; every empty and put of the plan    *)
(* binds.  Each step is also an observation of the effects declaration.    *)
(***************************************************************************)
EXTENDS Integers, Sequences

Keys        == {"A", "a", "B", "b", "C", "c"}
Values      == -2 .. 2
ClassTokens == {"a", "b", "c"}

Effects == "ordered-map-effects"

(* What an answer can say. *)
None       == [tag |-> "none", value |-> 0, entries |-> <<>>]
Some(v)    == [tag |-> "some", value |-> v, entries |-> <<>>]
Listed(es) == [tag |-> "entries", value |-> 0, entries |-> es]
MapGiven   == [tag |-> "map", value |-> 0, entries |-> <<>>]

Entry(c, v) == [class |-> c, value |-> v]

Step(op, source, key, value, expected, declaration) ==
  [op |-> op, source |-> source, key |-> key, value |-> value, expected |-> expected,
   declarations |-> declaration]

Empty           == Step("empty", 0, "A", 0, MapGiven, {})
Put(s, k, v)    == Step("put", s, k, v, MapGiven, {})
Lookup(s, k, expected, declaration) == Step("lookup", s, k, 0, expected, {declaration})
Entries(s, expected, declaration) == Step("entries", s, "A", 0, Listed(expected), {declaration})

Plan == <<
  << Empty, Lookup(1, "A", None, "lookup-empty") >>,
  << Empty, Put(1, "A", 1), Lookup(2, "a", Some(1), "lookup-put-same"),
     Put(2, "a", -1), Lookup(4, "A", Some(-1), "lookup-put-same") >>,
  << Empty, Put(1, "A", 1), Put(2, "B", 2), Lookup(3, "a", Some(1), "lookup-put-other") >>,
  << Empty, Put(1, "A", 1), Put(2, "B", 2), Put(3, "a", -1),
     Entries(4, <<Entry("a", -1), Entry("b", 2)>>, "put-existing-position") >>,
  << Empty, Put(1, "A", 1), Put(2, "B", 2), Put(3, "C", -2),
     Entries(4, <<Entry("a", 1), Entry("b", 2), Entry("c", -2)>>, "put-new-appends") >>,
  << Empty, Put(1, "A", 1), Put(2, "B", 2), Entries(2, <<Entry("a", 1)>>, "persistence") >>,
  << Empty, Put(1, "A", 1), Put(2, "B", 2), Put(3, "a", -1),
     Entries(3, <<Entry("a", 1), Entry("b", 2)>>, "persistence") >> >>

(* _case_declaration_ids. *)
DeclarationsOf(case) == {Effects} \cup UNION {case[i].declarations : i \in DOMAIN case}

Declarations == UNION {DeclarationsOf(Plan[c]) : c \in DOMAIN Plan}

(* An event is the sequence of the parts of its name between dots. *)
StartsWithIo(event) == Len(event) >= 2 /\ event[1] = "io"

(* _event_disposition, for the event contract of the plan: "io.*" asks for *)
(* something after the dot.                                                *)
Disposition_AnyIo(event) ==
  IF event[1] = "io" THEN "forbidden"
  ELSE IF event = <<"debug", "emit">> THEN "optional"
  ELSE "unspecified"

Disposition(event) ==
  IF StartsWithIo(event) /\ event # <<"io", "">> THEN "forbidden"
  ELSE IF event = <<"debug", "emit">> THEN "optional"
  ELSE "unspecified"

(* _validate_result. *)
ValidResult(op, result) ==
  CASE op \in {"empty", "put"} -> result.tag = "map"
    [] op = "lookup" -> \/ result.tag = "none"
                        \/ result.tag = "some" /\ result.value \in Values
    [] op = "entries" -> /\ result.tag = "entries"
                         /\ \A i \in DOMAIN result.entries :
                              /\ result.entries[i].class \in ClassTokens
                              /\ result.entries[i].value \in Values

=============================================================================
