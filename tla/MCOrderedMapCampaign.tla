------------------------- MODULE MCOrderedMapCampaign -------------------------
(* Values for TLC: the servers and the semantic modes of the fixture.      *)
EXTENDS OrderedMapCampaign

AllModes ==
  Faithful \cup Refusing
    \cup {"wrong-empty", "wrong-same", "wrong-other", "reorder-existing", "wrong-append",
          "destructive-new", "destructive-existing", "forbidden-event", "long-forbidden-event"}

(* The plan expects what a persistent map in order of insertion holds.     *)
ASSUME PlanExpectsTheReference ==
  \A c \in DOMAIN Plan :
    LET held[i \in DOMAIN Plan[c]] ==
          CASE Plan[c][i].op = "empty" -> <<>>
            [] Plan[c][i].op = "put" ->
                 PutIn(held[Plan[c][i].source], ClassOf(Plan[c][i].key), Plan[c][i].value)
            [] OTHER -> held[Plan[c][i].source]
    IN \A i \in DOMAIN Plan[c] :
         /\ Plan[c][i].op = "lookup" =>
              Plan[c][i].expected = LookupIn(held[i], ClassOf(Plan[c][i].key))
         /\ Plan[c][i].op = "entries" => Plan[c][i].expected = Listed(held[i])
=============================================================================
