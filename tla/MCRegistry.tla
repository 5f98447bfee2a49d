------------------------------ MODULE MCRegistry ------------------------------
(* A theory of one law and one effect, a realisation of it, a revision of  *)
(* both, and evidence of every sort about them.                            *)
EXTENDS Registry

Ref(kind, id, version) == [kind |-> kind, id |-> id, version |-> version]
Spec_(v)   == Ref("specification", "stack", v)
Real_(v)   == Ref("realization", "rust", v)
Claim_(d, v) == Ref("claim", d, v)
Profile    == Ref("realizationProfile", "default", 1)
Policy_(v) == Ref("consumerPolicy", "bounded", v)

SpecDoc(v) ==
  [address |-> Ref("specification", "stack", v), imports |-> {},
   laws |-> {"law"}, resources |-> {}, effects |-> {"effect"}, performance |-> {"cost"},
   forbidden |-> {"io"}, otherEvents |-> {}]

RealDoc(v) ==
  [address |-> Ref("realization", "rust", v), specification |-> Spec_(v),
   profiles |-> {Profile}, adapter |-> v]

ClaimDoc(d, v, state) ==
  [address |-> Ref("claim", d, v), subject |-> Real_(v), governing |-> Spec_(v),
   concern |-> IF d = "law" THEN "law.conformance" ELSE "effect.conformance",
   propositionSpec |-> Spec_(v), declaration |-> d, profiles |-> {Profile}, state |-> state]

EvidenceDoc(id, d, v, result) ==
  [address |-> Ref("evidence", id, v), claim |-> Claim_(d, v),
   specification |-> Spec_(v), scope |-> "realization", realization |-> Real_(v),
   adapter |-> v, mechanism |-> Campaign, result |-> result, review |-> "accepted",
   profiles |-> {Profile}, observed |-> d, plan |-> Wave4Plan]

Entry(concern, priority, mechanisms) ==
  [concern |-> concern, priority |-> priority, mechanisms |-> mechanisms, assurance |-> Assurance]

PolicyDoc(v) ==
  [address |-> Ref("consumerPolicy", "bounded", v),
   specification |-> Spec_(v), profile |-> Profile,
   concerns |-> {Entry("law.conformance", "required", {Campaign}),
                 Entry("effect.conformance", "required", {Campaign}),
                 Entry("performance", "optional", {"proof"})},
   prohibitions |-> {[specification |-> Spec_(v), declaration |-> "effect", pattern |-> "io",
                      scopes |-> {TraceScope}]}]

MCContent ==
  << \* the release
     SpecDoc(1), [address |-> Ref("realizationProfile", "default", 1)],
     RealDoc(1), PolicyDoc(1), ClaimDoc("law", 1, "active"), ClaimDoc("effect", 1, "active"),
     \* 7, 8: its campaign
     EvidenceDoc("law", "law", 1, "supports"), EvidenceDoc("effect", "effect", 1, "supports"),
     \* 9 - 13: the revision, and 14, 15: its campaign
     SpecDoc(2), RealDoc(2), PolicyDoc(2), ClaimDoc("law", 2, "active"), ClaimDoc("effect", 2, "active"),
     EvidenceDoc("law", "law", 2, "supports"), EvidenceDoc("effect", "effect", 2, "supports"),
     \* 16 - 20: evidence against, in error, of another plan, under review, by assertion
     EvidenceDoc("against", "law", 1, "challenges"),
     EvidenceDoc("broken", "effect", 1, "error"),
     [EvidenceDoc("other-plan", "effect", 1, "challenges") EXCEPT !.plan = "other"],
     [EvidenceDoc("unread", "law", 2, "challenges") EXCEPT !.review = "pending"],
     [EvidenceDoc("said", "law", 2, "supports") EXCEPT !.mechanism = "assertion"],
     \* 21, 22: the first law's evidence pointed at the second version
     [EvidenceDoc("stale", "law", 1, "supports") EXCEPT !.claim = Claim_("law", 2)],
     [EvidenceDoc("restamped", "law", 1, "supports") EXCEPT !.claim = Claim_("law", 2),
                                                            !.specification = Spec_(2)],
     \* 23, 24: other documents for addresses above
     ClaimDoc("law", 1, "withdrawn"), EvidenceDoc("law", "law", 1, "challenges"),
     \* 25: a second campaign for the first law
     EvidenceDoc("again", "law", 1, "supports") >>

MCInitial == 1 .. 8
MCPackets == {9 .. 13, {14, 15}} \cup {{16}, {17, 18}, {19, 20}, {21}, {22}, {25}}

MCHome ==
  [i \in DOMAIN MCContent |->
     CASE MCContent[i].address.kind \in {"specification", "realizationProfile"} -> "theory"
       [] MCContent[i].address.kind = "consumerPolicy" -> "consumers"
       [] OTHER -> "packages"]

Select(v) == [policy |-> Policy_(v), profile |-> Profile, specification |-> Spec_(v)]
MCOldSelection == Select(1)
MCNewSelection == Select(2)
=============================================================================
