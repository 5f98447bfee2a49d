-------------------------- MODULE OrderedMapResolver --------------------------
(***************************************************************************)
(* The three decisions made about OrderedMap from a captured graph: which  *)
(* realisations the accepted policy admits (ordered_map_resolution.py),    *)
(* what becomes of them under the successor specification                  *)
(* (ordered_map_maintenance.py) and the choice of a deployment profile for *)
(* each package (ordered_map_profile_choice.py).  Everything they look for *)
(* is an exact address.                                                    *)
(***************************************************************************)
EXTENDS TheoryViews, Sequences

CONSTANTS DeclarationConcern,  \* the concern of each declaration evidence is about
          SuccessorRecords     \* the source and digest of each successor record

Ref(kind, id, version) == [kind |-> kind, id |-> id, version |-> version]

Specification    == Ref("specification", "ordered-map", "0.1.0")
Successor        == Ref("specification", "ordered-map", "0.2.0")
AsciiFold        == Ref("realizationProfile", "ordered-map-ascii-fold", "0.1.0")
NativeProcess    == Ref("realizationProfile", "ordered-map-native-process", "0.1.0")
DenoSandbox      == Ref("realizationProfile", "ordered-map-deno-sandbox", "0.1.0")
BoundedPolicy(v) == Ref("consumerPolicy", "ordered-map-bounded-policy", v)
NativePolicy     == Ref("consumerPolicy", "ordered-map-native-process-policy", "0.1.0")
DenoPolicy       == Ref("consumerPolicy", "ordered-map-deno-sandbox-policy", "0.1.0")

AcceptedPlan == "conformance-plan"

(* _SUCCESSOR_RECORDS pins two records by their digests, and the policy    *)
(* these are the bytes of prohibits something.                             *)
ASSUME SuccessorAssumption ==
  /\ DOMAIN SuccessorRecords = {Successor, BoundedPolicy("0.2.0")}
  /\ Document[SuccessorRecords[BoundedPolicy("0.2.0")].digest].prohibitions # {}

Accepted     == [policy |-> BoundedPolicy("0.1.0"), profile |-> AsciiFold, specification |-> Specification]
Following    == [policy |-> BoundedPolicy("0.2.0"), profile |-> AsciiFold, specification |-> Successor]

-----------------------------------------------------------------------------
(* resolve_ordered_map. *)

(* _effect_scope_match: the evidence of the accepted campaign.             *)
InEffectScope(docs, sel, realization, entry, plan) ==
  {e \in OfKind(docs, "evidence") :
     /\ \E c \in EffectClaims(docs, sel, realization, entry) :
          e.claim = AddressOf(c) /\ c.state = "active" /\ c.profiles = {sel.profile} /\ e.profiles = c.profiles
     /\ e.scope = "realization"
     /\ e.specification = sel.specification
     /\ e.realization = realization
     /\ e.mechanism = Campaign
     /\ e.adapter = At(docs, realization).adapter
     /\ e.observed = entry.declaration
     /\ e.plan = plan}

(* The evidence that counts for a prohibition, and the bins of the rest.   *)
ProhibitionBins(docs, sel, realization, entry, scope) ==
  LET claims     == EffectClaims(docs, sel, realization, entry)
      applicable == Applicable(docs, sel, claims)
  IN  BinsOf(Linked(docs, claims), applicable,
             {e \in applicable : e.review = "accepted" /\ TraceScope \in entry.scopes /\ e \in scope})

(* What becomes of a prohibition with these bins; an incomplete one is not *)
(* looked into.                                                            *)
Prohibited(complete, bins, reasons) ==
  LET status == ProhibitionStatus(complete, bins.supporting, bins.challenging) IN
  [status  |-> status,
   blocks  |-> status # "satisfied",
   bins    |-> bins,
   reasons |-> IF complete THEN reasons ELSE {"policy-scope-incomplete"}]

AcceptedOf(evidence) == {e \in evidence : e.review = "accepted"}

OrderedMapReasons(docs, sel, entry, claims, bins) ==
  ClaimReasons(docs, sel, claims) \cup BinReasons(bins)
    \cup ScopeReasons(entry, AcceptedOf(bins.unselected))

OrderedMapProhibition(docs, sel, realization, entry) ==
  LET complete == ProhibitionComplete(sel, entry, At(docs, sel.specification))
      scope    == InEffectScope(docs, sel, realization, entry, AcceptedPlan)
      bins     == IF complete THEN ProhibitionBins(docs, sel, realization, entry, scope) ELSE NoBins
  IN
  Prohibited(complete, bins,
             OrderedMapReasons(docs, sel, entry, EffectClaims(docs, sel, realization, entry), bins))

(* The selectors are looked up in this order, then the policy is held to   *)
(* them.                                                                   *)
SelectionProblems(graph, sel, prefix) ==
  LET known == Addresses(Docs(graph)) IN
  IF ~Clean(graph) THEN {prefix \o "INVALID_GRAPH"}
  ELSE IF ~({sel.policy, sel.profile, sel.specification} \subseteq known)
       THEN {prefix \o "SELECTOR_NOT_FOUND"}
  ELSE IF PolicyMismatch(At(Docs(graph), sel.policy), sel)
       THEN {prefix \o "POLICY_SELECTOR_MISMATCH"}
  ELSE {}

Disposed(docs, sel, realization, prohibitions) ==
  [concerns     |-> {[entry |-> x, disposition |-> ConcernDisposition(docs, sel, realization, x)] :
                       x \in At(docs, sel.policy).concerns},
   prohibitions |-> prohibitions]

Admits(candidate) ==
  /\ \A x \in candidate.concerns : ~x.disposition.blocks
  /\ \A x \in candidate.prohibitions : ~x.blocks

ResolveOrderedMap(docs) ==
  [r \in Candidates(docs, Accepted) |->
     Disposed(docs, Accepted, r,
              {OrderedMapProhibition(docs, Accepted, r, x) : x \in At(docs, Accepted.policy).prohibitions})]

AcceptableOf(resolution) == {r \in DOMAIN resolution : Admits(resolution[r])}

-----------------------------------------------------------------------------
(* Maintenance under the successor specification. *)

(* _successor_prohibition: no successor evidence is authorised, so there   *)
(* is nothing that could satisfy it.                                       *)
SuccessorProhibition(docs, realization, entry) ==
  LET complete == ProhibitionComplete(Following, entry, At(docs, Successor))
      claims   == EffectClaims(docs, Following, realization, entry)
  IN
  [status  |-> IF complete THEN "unsupported" ELSE "policy-incomplete",
   blocks  |-> TRUE,
   bins    |-> NoBins,
   reasons |-> {IF ~complete THEN "policy-scope-incomplete"
                ELSE IF claims = {} THEN "missing-claim"
                ELSE "successor-evidence-not-authorized"}]

ResolveSuccessor(docs) ==
  [r \in Candidates(docs, Following) |->
     Disposed(docs, Following, r,
              {SuccessorProhibition(docs, r, x) : x \in At(docs, Following.policy).prohibitions})]

(* _observe_ordered_map_maintenance: the successor holds every record of   *)
(* its predecessor unchanged, the successor records exactly, and no other. *)
Exact(f) ==
  LET a == AddressOf(DocOf(f)) IN
  /\ a \in DOMAIN SuccessorRecords
  /\ f.source = SuccessorRecords[a].source
  /\ f.digest = SuccessorRecords[a].digest

DriftProblems_ByAddress(before, after) ==
  LET addresses(files) == {AddressOf(DocOf(f)) : f \in files} IN
  IF addresses(after) # addresses(before) \cup DOMAIN SuccessorRecords
  THEN {"ORDERED_MAP_SUCCESSOR_UNEXPECTED_MEMBERSHIP"} ELSE {}

DriftProblems(before, after) ==
  LET addresses(files) == {AddressOf(DocOf(f)) : f \in files}
      exact            == {AddressOf(DocOf(f)) : f \in {g \in after : Exact(g)}}
  IN
  IF ~(before \subseteq after) THEN {"ORDERED_MAP_SUCCESSOR_PREDECESSOR_DRIFT"}
  ELSE IF ~(addresses(after) \subseteq addresses(before) \cup DOMAIN SuccessorRecords)
       THEN {"ORDERED_MAP_SUCCESSOR_UNEXPECTED_MEMBERSHIP"}
  ELSE IF exact # DOMAIN SuccessorRecords THEN {"ORDERED_MAP_SUCCESSOR_CONTRACT_DRIFT"}
  ELSE {}

MaintenanceProblems(before, after) ==
  IF ~Clean(before) \/ ~Clean(after) THEN {"ORDERED_MAP_SUCCESSOR_INVALID_GRAPH"}
  ELSE IF DriftProblems(before.records, after.records) # {}
       THEN DriftProblems(before.records, after.records)
  ELSE SelectionProblems(before, Accepted, "ORDERED_MAP_RESOLUTION_")
         \cup SelectionProblems(after, Following, "ORDERED_MAP_SUCCESSOR_")
         \cup ProjectionProblems(after, Successor)

(* What was accepted is what one may go back to while nothing accepts the  *)
(* successor; all evidence of before is history.                           *)
Maintenance(before, after) ==
  LET old == AcceptableOf(ResolveOrderedMap(Docs(before)))
      new == AcceptableOf(ResolveSuccessor(Docs(after)))
  IN
  [stale    |-> {AddressOf(e) : e \in OfKind(Docs(before), "evidence")},
   new      |-> new,
   recovery |-> IF new = {} THEN old ELSE {},
   theory   |-> ProjectTheory(Docs(after), Successor)]

-----------------------------------------------------------------------------
(* The choice of profiles. *)

Packages ==
  [rust |->
     [id |-> "ordered-map-rust", profile |-> NativeProcess, policy |-> NativePolicy,
      plan |-> "native-plan", binding |-> "native-binding", report |-> "native-report",
      adapter |-> "rust-adapter"],
   typescript |->
     [id |-> "ordered-map-typescript", profile |-> DenoSandbox, policy |-> DenoPolicy,
      plan |-> "deno-plan", binding |-> "deno-binding", report |-> "deno-report",
      adapter |-> "typescript-adapter"]]

IdOf(package) == Packages[package].id

RealizationOf(package, version) == Ref("realization", IdOf(package), version)
ClaimOf(package, d, version)    == Ref("claim", IdOf(package) \o "-" \o d, version)
EvidenceOf(package, d, version) == Ref("evidence", IdOf(package) \o "-" \o d \o "-conformance", version)

PackageAddresses(package, version, kind) ==
  {IF kind = "claim" THEN ClaimOf(package, d, version) ELSE EvidenceOf(package, d, version) :
     d \in DOMAIN DeclarationConcern}

ExpectedAddresses ==
  {AsciiFold, NativeProcess, DenoSandbox, Specification, Successor,
   BoundedPolicy("0.1.0"), BoundedPolicy("0.2.0"), NativePolicy, DenoPolicy}
    \cup
  UNION {{RealizationOf(p, v)} \cup PackageAddresses(p, v, "claim") \cup PackageAddresses(p, v, "evidence") :
           p \in DOMAIN Packages, v \in {"0.1.0", "0.2.0"}}

ConcernEntry(concern, priority, mechanisms) ==
  [concern |-> concern, priority |-> priority, mechanisms |-> mechanisms, assurance |-> Assurance]

ExpectedConcerns ==
  {ConcernEntry(c, "required", {Campaign}) : c \in {"law.conformance", "resource.persistence", "effect.conformance"}}
    \cup {ConcernEntry("performance", "optional", {"proof", "proof-audit"})}

ExpectedProhibitions ==
  {[specification |-> Specification, declaration |-> "ordered-map-effects",
    pattern |-> "io.*", scopes |-> {TraceScope}]}

(* What _structural_diagnostics asks of the records of one package.        *)
RealizationInScope(docs, p) ==
  LET r == At(docs, RealizationOf(p, "0.2.0"))
  IN  r.specification = Specification /\ r.profiles = {Packages[p].profile}

ClaimInScope(docs, p, d) ==
  LET c == At(docs, ClaimOf(p, d, "0.2.0")) IN
  /\ c.subject = RealizationOf(p, "0.2.0")
  /\ c.governing = Specification
  /\ c.propositionSpec = Specification
  /\ c.declaration = d
  /\ c.concern = DeclarationConcern[d]
  /\ c.profiles = {Packages[p].profile}
  /\ c.state = "active"

EvidenceInScope_OriginOnly(docs, p, d) ==
  LET e == At(docs, EvidenceOf(p, d, "0.2.0")) IN
  /\ e.report = Packages[p].report
  /\ e.plan = Packages[p].plan
  /\ e.binding = Packages[p].binding

EvidenceInScope(docs, p, d) ==
  LET e == At(docs, EvidenceOf(p, d, "0.2.0")) IN
  /\ e.claim = ClaimOf(p, d, "0.2.0")
  /\ e.specification = Specification
  /\ e.realization = RealizationOf(p, "0.2.0")
  /\ e.adapter = Packages[p].adapter
  /\ e.profiles = {Packages[p].profile}
  /\ e.observed = d
  /\ e.report = Packages[p].report
  /\ e.plan = Packages[p].plan
  /\ e.binding = Packages[p].binding

StructuralProblems(graph) ==
  LET docs  == Docs(graph)
      known == Addresses(docs)
      each  == (DOMAIN Packages) \X (DOMAIN DeclarationConcern)
      bound(p) == LET q == At(docs, Packages[p].policy) IN
                  /\ q.specification = Specification
                  /\ q.profile = Packages[p].profile
                  /\ q.concerns = ExpectedConcerns
                  /\ q.prohibitions = ExpectedProhibitions
  IN
  IF ~Clean(graph) THEN {"PROFILE_CHOICE_INVALID_GRAPH"}
  ELSE IF Cardinality(known) # Cardinality(graph.records) THEN {"PROFILE_CHOICE_DUPLICATE_ADDRESS"}
  ELSE IF ~(known \subseteq ExpectedAddresses) THEN {"PROFILE_CHOICE_UNEXPECTED_ADDRESS"}
  ELSE IF ~(ExpectedAddresses \subseteq known) THEN {"PROFILE_CHOICE_MISSING_ADDRESS"}
  ELSE IF \E p \in DOMAIN Packages : ~bound(p) THEN {"PROFILE_CHOICE_POLICY_SELECTOR_MISMATCH"}
  ELSE IF \E x \in each : ~ClaimInScope(docs, x[1], x[2]) THEN {"PROFILE_CHOICE_CLAIM_SCOPE"}
  ELSE IF \E x \in each : ~EvidenceInScope(docs, x[1], x[2]) THEN {"PROFILE_CHOICE_EVIDENCE_SCOPE"}
  ELSE IF \E p \in DOMAIN Packages : ~RealizationInScope(docs, p) THEN {"PROFILE_CHOICE_REALIZATION_SCOPE"}
  ELSE {}

SelectionOf(p) ==
  [policy |-> Packages[p].policy, profile |-> Packages[p].profile, specification |-> Specification]

(* _effect_scope_match of a choice: the structure is already known.        *)
InChoiceScope(docs, sel, realization, package, entry) ==
  {e \in OfKind(docs, "evidence") :
     /\ \E c \in EffectClaims(docs, sel, realization, entry) :
          e.claim = AddressOf(c) /\ c.profiles = {package.profile}
     /\ e.scope = "realization"
     /\ e.mechanism = Campaign
     /\ e.profiles = {package.profile}
     /\ e.adapter = At(docs, realization).adapter
     /\ e.observed = entry.declaration
     /\ e.plan = package.plan}

(* _prohibition_disposition of a choice says less about what it passes by. *)
ChoiceReasons(docs, sel, claims, bins) ==
  (ClaimReasons(docs, sel, claims) \ {"inapplicable-claim"})
    \cup (BinReasons(bins) \ {"inapplicable-evidence"})
    \cup {IF e.mechanism = Campaign THEN "unaccepted-scope" ELSE "unacceptable-mechanism" :
            e \in AcceptedOf(bins.unselected)}

ChoiceProhibition(docs, sel, realization, package, entry) ==
  LET complete == ProhibitionComplete(sel, entry, At(docs, Specification))
      scope    == InChoiceScope(docs, sel, realization, package, entry)
      bins     == IF complete THEN ProhibitionBins(docs, sel, realization, entry, scope) ELSE NoBins
  IN
  Prohibited(complete, bins,
             ChoiceReasons(docs, sel, EffectClaims(docs, sel, realization, entry), bins))

(* _ledger: whatever is not the package's own is inapplicable.             *)
Ledger(docs, p, kind) ==
  LET present == {AddressOf(d) : d \in OfKind(docs, kind)}
      own     == PackageAddresses(p, "0.2.0", kind)
  IN  [selected |-> present \cap own, inapplicable |-> present \ own]

(* _inapplicable_for_concern. *)
InapplicableFor(docs, p, concern) ==
  {a \in Ledger(docs, p, "evidence").inapplicable :
     \E c \in OfKind(docs, "claim") : At(docs, a).claim = AddressOf(c) /\ c.concern = concern}

ChoiceConcern(docs, p, sel, entry) ==
  LET disposition == ConcernDisposition(docs, sel, RealizationOf(p, "0.2.0"), entry) IN
  [disposition EXCEPT
     !.bins.inapplicable = {AddressOf(e) : e \in @} \cup InapplicableFor(docs, p, entry.concern)]

(* resolve_ordered_map_profile_choices: one decision for each package.     *)
Chosen(docs, p, candidate) ==
  [candidate  |-> candidate,
   acceptable |-> Admits(candidate),
   claims     |-> Ledger(docs, p, "claim"),
   evidence   |-> Ledger(docs, p, "evidence")]

Choice(docs, p, package, sel) ==
  LET policy == At(docs, sel.policy) IN
  Chosen(docs, p,
    [concerns     |-> {[entry |-> x, disposition |-> ChoiceConcern(docs, p, sel, x)] : x \in policy.concerns},
     prohibitions |-> {ChoiceProhibition(docs, sel, RealizationOf(p, "0.2.0"), package, x) :
                         x \in policy.prohibitions}])

ResolveChoices(docs) ==
  [p \in DOMAIN Packages |-> Choice(docs, p, Packages[p], SelectionOf(p))]

=============================================================================
