------------------------------- MODULE Resolver -------------------------------
(***************************************************************************)
(* semantic_packages/resolver.py: what a consumer's policy makes of the    *)
(* candidates of one captured graph.  A selection is the policy, profile   *)
(* and specification asked for.  A disposition keeps the bins evidence is  *)
(* put in and the reasons given; the assumptions and exclusions displayed  *)
(* with it are left out.                                                   *)
(***************************************************************************)
EXTENDS RecordGraph

Campaign   == "bounded-conformance-campaign"
Assurance  == "per-declaration-one-accepted-applicable-support-no-selected-challenge"
TraceScope == "adapter-invocation-trace"
Wave4Plan  == "wave4"

OfKind(docs, kind) == {d \in docs : d.address.kind = kind}

(* What a concern covers is read off the specification, not off the claims. *)
Concerns == {"law.conformance", "resource.persistence", "effect.conformance", "performance"}

Covered(spec, concern) ==
  CASE concern = "law.conformance"      -> spec.laws
    [] concern = "resource.persistence" -> spec.resources
    [] concern = "effect.conformance"   -> spec.effects
    [] concern = "performance"          -> spec.performance
    [] OTHER                            -> {}

TargetClaims(docs, sel, realization, concern, declaration) ==
  {c \in OfKind(docs, "claim") :
     /\ c.subject = realization
     /\ c.governing = sel.specification
     /\ c.concern = concern
     /\ c.propositionSpec = sel.specification
     /\ c.declaration = declaration}

Selected(sel, claims) == {c \in claims : c.state = "active" /\ sel.profile \in c.profiles}

(* The evidence linked to some of the claims. *)
Linked(docs, claims) ==
  {e \in OfKind(docs, "evidence") : \E c \in claims : e.claim = AddressOf(c)}

(* It applies if its claim is selected and it names the profile itself.    *)
Applicable(docs, sel, claims) ==
  {e \in Linked(docs, Selected(sel, claims)) : sel.profile \in e.profiles}

(* What is said of a declaration's claims before their evidence is read.   *)
ClaimReasons_NoAbsence(docs, sel, claims) ==
  (IF claims = {} THEN {"missing-claim"} ELSE {})
    \cup (IF claims # {} /\ Selected(sel, claims) = {} THEN {"inapplicable-claim"} ELSE {})

ClaimReasons(docs, sel, claims) ==
  (IF claims = {} THEN {"missing-claim"} ELSE {})
    \cup (IF claims # {} /\ Selected(sel, claims) = {} THEN {"inapplicable-claim"} ELSE {})
    \cup (IF \E c \in Selected(sel, claims) : Linked(docs, {c}) = {} THEN {"absent-evidence"} ELSE {})

(* The bins of the evidence that is read, and what is said of them.        *)
BinsOf(linked, applicable, admitted) ==
  [supporting   |-> {e \in admitted : e.result = "supports"},
   challenging  |-> {e \in admitted : e.result = "challenges"},
   inconclusive |-> {e \in admitted : e.result = "inconclusive"},
   error        |-> {e \in admitted : e.result = "error"},
   inapplicable |-> linked \ applicable,
   unselected   |-> applicable \ admitted]

NoBins == BinsOf({}, {}, {})

BinReasons(bins) ==
  (IF bins.inapplicable # {} THEN {"inapplicable-evidence"} ELSE {})
    \cup (IF bins.inconclusive # {} THEN {"inconclusive-evidence"} ELSE {})
    \cup (IF bins.error # {} THEN {"error-evidence"} ELSE {})
    \cup (IF \E e \in bins.unselected : e.review # "accepted"
          THEN {"unaccepted-review-state"} ELSE {})

-----------------------------------------------------------------------------
(* Concerns. *)

(* An entry without mechanisms is incomplete; one with none accepts none.  *)
ConcernComplete(entry) ==
  /\ entry.concern \in Concerns
  /\ entry.mechanisms # {"unspecified"}
  /\ entry.assurance = Assurance

ConcernAdmitted_Outvoted(docs, sel, claims, entry) ==
  {e \in Applicable(docs, sel, claims) :
     /\ e.review = "accepted"
     /\ e.mechanism \in entry.mechanisms
     /\ LET of(result) == {x \in Applicable(docs, sel, claims) : x.claim = e.claim /\ x.result = result}
        IN  e.result = "challenges" => Cardinality(of("challenges")) >= Cardinality(of("supports"))}

ConcernAdmitted(docs, sel, claims, entry) ==
  {e \in Applicable(docs, sel, claims) : e.review = "accepted" /\ e.mechanism \in entry.mechanisms}

Supported(admitted, claims) ==
  \E e \in admitted : e.result = "supports" /\ \E c \in claims : e.claim = AddressOf(c)

(* Of the statuses, an adverse result outranks a missing one.              *)
ConcernStatus_SupportWins(complete, covered, missing, challenging) ==
  IF ~complete THEN "policy-incomplete"
  ELSE IF covered = {} THEN "no-coverage"
  ELSE IF missing # {} THEN IF challenging # {} THEN "contested" ELSE "unsupported"
  ELSE "satisfied"

ConcernStatus(complete, covered, missing, challenging) ==
  IF ~complete THEN "policy-incomplete"
  ELSE IF covered = {} THEN "no-coverage"
  ELSE IF challenging # {} THEN "contested"
  ELSE IF missing # {} THEN "unsupported"
  ELSE "satisfied"

(* The claims about each covered declaration.                              *)
TargetsOf(docs, sel, realization, entry) ==
  [d \in Covered(At(docs, sel.specification), entry.concern) |->
     TargetClaims(docs, sel, realization, entry.concern, d)]

AllOf(targets) == UNION {targets[d] : d \in DOMAIN targets}

Missing(admitted, targets) == {d \in DOMAIN targets : ~Supported(admitted, targets[d])}

AllClaimReasons(docs, sel, targets) ==
  UNION {ClaimReasons(docs, sel, targets[d]) : d \in DOMAIN targets}

ConcernReasons(complete, entry, covered, claimReasons, bins) ==
  IF ~complete THEN
    {IF entry.mechanisms = {"unspecified"} THEN "mechanism-unspecified" ELSE "assurance-unspecified"}
  ELSE IF covered = {} THEN {"no-declarations"}
  ELSE (IF entry.mechanisms = {} THEN {"accept-none"} ELSE {})
         \cup claimReasons
         \cup BinReasons(bins)
         \cup (IF \E e \in bins.unselected : e.review = "accepted"
               THEN {"unacceptable-mechanism"} ELSE {})

ConcernDisposition(docs, sel, realization, entry) ==
  LET targets  == TargetsOf(docs, sel, realization, entry)
      covered  == DOMAIN targets
      claims   == AllOf(targets)
      complete == ConcernComplete(entry)
      admitted == ConcernAdmitted(docs, sel, claims, entry)
      bins     == IF complete
                  THEN BinsOf(Linked(docs, claims), Applicable(docs, sel, claims), admitted)
                  ELSE NoBins
      missing  == IF complete THEN Missing(admitted, targets) ELSE covered
      status   == ConcernStatus(complete, covered, missing, bins.challenging)
  IN
  [status  |-> status,
   blocks  |-> entry.priority = "required" /\ status # "satisfied",
   missing |-> missing,
   bins    |-> bins,
   reasons |-> ConcernReasons(complete, entry, covered, AllClaimReasons(docs, sel, targets), bins)]

-----------------------------------------------------------------------------
(* Prohibitions. *)

EffectClaims(docs, sel, realization, entry) ==
  TargetClaims(docs, sel, realization, "effect.conformance", entry.declaration)

(* _effect_scope_match: inside the boundary of the accepted campaign, for  *)
(* evidence whose claim is selected.                                       *)
ScopeMatches(docs, sel, realization, entry, e) ==
  /\ \E c \in EffectClaims(docs, sel, realization, entry) :
       e.claim = AddressOf(c) /\ c.profiles = {sel.profile} /\ e.profiles = c.profiles
  /\ e.scope = "realization"
  /\ e.specification = sel.specification
  /\ e.realization = realization
  /\ e.mechanism = Campaign
  /\ e.adapter = At(docs, realization).adapter
  /\ e.observed = entry.declaration
  /\ e.plan = Wave4Plan

ProhibitionAdmitted(docs, sel, realization, entry) ==
  {e \in Applicable(docs, sel, EffectClaims(docs, sel, realization, entry)) :
     /\ e.review = "accepted"
     /\ TraceScope \in entry.scopes
     /\ ScopeMatches(docs, sel, realization, entry, e)}

ProhibitionComplete(sel, entry, spec) ==
  /\ entry.specification = sel.specification
  /\ entry.declaration \in spec.effects
  /\ entry.pattern \in spec.forbidden

ProhibitionStatus(complete, supporting, challenging) ==
  IF ~complete THEN "policy-incomplete"
  ELSE IF challenging # {} THEN "contested"
  ELSE IF supporting = {} THEN "unsupported"
  ELSE "satisfied"

(* Why accepted evidence that applies is not selected. *)
ScopeReasons(entry, unselected) ==
  IF unselected = {} THEN {}
  ELSE IF entry.scopes = {} THEN {"accept-none-scope"}
  ELSE IF TraceScope \notin entry.scopes THEN {"unaccepted-scope-token"}
  ELSE {IF e.mechanism = Campaign THEN "unaccepted-scope" ELSE "unacceptable-mechanism" : e \in unselected}

ProhibitionDisposition(docs, sel, realization, entry) ==
  LET complete == ProhibitionComplete(sel, entry, At(docs, sel.specification))
      claims   == EffectClaims(docs, sel, realization, entry)
      bins     == IF complete
                  THEN BinsOf(Linked(docs, claims), Applicable(docs, sel, claims),
                              ProhibitionAdmitted(docs, sel, realization, entry))
                  ELSE NoBins
      status   == ProhibitionStatus(complete, bins.supporting, bins.challenging)
  IN
  [status  |-> status,
   blocks  |-> status # "satisfied",
   bins    |-> bins,
   reasons |->
     IF ~complete THEN {"policy-scope-incomplete"}
     ELSE ClaimReasons(docs, sel, claims)
            \cup BinReasons(bins)
            \cup ScopeReasons(entry, {e \in bins.unselected : e.review = "accepted"})]

-----------------------------------------------------------------------------
(* resolve_stack. *)

SelectorProblem(docs, ref, kind) ==
  IF ref \notin Addresses(docs) THEN {"RESOLUTION_SELECTOR_NOT_FOUND"}
  ELSE IF ref.kind # kind THEN {"RESOLUTION_SELECTOR_KIND"}
  ELSE {}

PolicyMismatch(policy, sel) ==
  policy.specification # sel.specification \/ policy.profile # sel.profile

ResolutionDiagnostics(graph, sel) ==
  LET docs          == Docs(graph)
      policy        == SelectorProblem(docs, sel.policy, "consumerPolicy")
      profile       == SelectorProblem(docs, sel.profile, "realizationProfile")
      specification == SelectorProblem(docs, sel.specification, "specification")
  IN
  IF ~Clean(graph) THEN {"RESOLUTION_INVALID_GRAPH"}
  ELSE IF policy # {} THEN policy
  ELSE IF profile # {} THEN profile
  ELSE IF specification # {} THEN specification
  ELSE IF PolicyMismatch(At(docs, sel.policy), sel) THEN {"RESOLUTION_POLICY_SELECTOR_MISMATCH"}
  ELSE {}

Candidates(docs, sel) ==
  {AddressOf(r) : r \in {x \in OfKind(docs, "realization") :
                            x.specification = sel.specification /\ sel.profile \in x.profiles}}

Blocked(docs, sel, realization) ==
  LET policy == At(docs, sel.policy) IN
  \/ \E entry \in policy.concerns : ConcernDisposition(docs, sel, realization, entry).blocks
  \/ \E entry \in policy.prohibitions : ProhibitionDisposition(docs, sel, realization, entry).blocks

(* The candidates of a resolution that are acceptable; none if its inputs  *)
(* are unusable.                                                           *)
Acceptable(graph, sel) ==
  IF ResolutionDiagnostics(graph, sel) # {} THEN {}
  ELSE {r \in Candidates(Docs(graph), sel) : ~Blocked(Docs(graph), sel, r)}

=============================================================================
