----------------------------- MODULE RecordGraph -----------------------------
(***************************************************************************)
(* The records of a registry, the links between them and their manifest:   *)
(* check_graph of scripts/record_check.py and the membership of            *)
(* semantic_packages/graph.py.                                             *)
(*                                                                         *)
(* A file is a path under a source root and the digest of what is in it;   *)
(* two contents never have one digest.  All contents are schema-valid      *)
(* documents.  A reference is an exact address: kind, id and version.  A   *)
(* diagnostic is its code and the path it is reported at.  Checks inside   *)
(* one specification or one profile are left out, and so are the workloads *)
(* of performance propositions.                                            *)
(***************************************************************************)
EXTENDS Naturals, FiniteSets

CONSTANT Content   \* the document of each digest

Results == {"supports", "challenges", "inconclusive", "error"}

(* What the schemas say of evidence. *)
ASSUME ContentAssumption ==
  \A i \in DOMAIN Content :
    Content[i].address.kind = "evidence" =>
      /\ Content[i].claim.kind = "claim"
      /\ Content[i].result \in Results

AddressOf(doc) == doc.address

(* The document of a file. *)
Document == [d \in DOMAIN Content |-> Content[d]]

DocOf(f) == Document[f.digest]

(* Of several files with one address, the first by path is the record and  *)
(* the others are duplicates.                                              *)
Duplicates(files) ==
  {f \in files : \E g \in files : AddressOf(DocOf(g)) = AddressOf(DocOf(f)) /\ g.path < f.path}

Addresses(docs) == {AddressOf(d) : d \in docs}

At(docs, ref) == CHOOSE d \in docs : AddressOf(d) = ref

(* Graph.resolve: nothing, or the near misses, or a dangling reference.    *)
Resolve(docs, ref) ==
  LET known == Addresses(docs)
      near  == (IF \E a \in known : a.kind = ref.kind /\ a.id = ref.id
                THEN {"LINK_VERSION_MISMATCH"} ELSE {})
               \cup
               (IF \E a \in known : a.id = ref.id /\ a.version = ref.version
                THEN {"LINK_WRONG_KIND_REFERENCE"} ELSE {})
  IN  IF ref \in known THEN {}
      ELSE IF near = {} THEN {"LINK_DANGLING_REFERENCE"} ELSE near

ResolveAll(docs, refs) == UNION {Resolve(docs, ref) : ref \in refs}

(* A code, when the condition it reports holds.                            *)
When(condition, code) == IF condition THEN {code} ELSE {}

Declared(spec) == spec.laws \cup spec.resources \cup spec.effects \cup spec.performance

RealizationLinks(docs, r) == ResolveAll(docs, {r.specification} \cup r.profiles)

ClaimLinks(docs, c) ==
  LET known == Addresses(docs) IN
  ResolveAll(docs, {c.subject, c.governing, c.propositionSpec} \cup c.profiles)
    \cup When(c.subject.kind = "specification" /\ c.governing # c.subject,
              "LINK_CLAIM_SPECIFICATION_MISMATCH")
    \cup When(/\ c.subject.kind = "realization"
              /\ c.subject \in known
              /\ c.governing # At(docs, c.subject).specification,
              "LINK_CLAIM_SPECIFICATION_MISMATCH")
    \cup When(c.propositionSpec \in known /\ c.propositionSpec # c.governing,
              "LINK_CLAIM_PROPOSITION_SPECIFICATION_MISMATCH")
    \cup When(/\ c.propositionSpec \in known
              /\ c.declaration \notin Declared(At(docs, c.propositionSpec)),
              "LINK_DANGLING_DECLARATION")

(* Evidence of scope "realization" names its realization and its adapter,  *)
(* by its schema; other evidence names neither.                            *)
EvidenceLinks_AnyVersion(docs, e) ==
  ResolveAll(docs, {e.claim, e.specification} \cup e.profiles)

EvidenceLinks(docs, e) ==
  LET known    == Addresses(docs)
      claimed  == e.claim \in known
      claim    == At(docs, e.claim)
      about    == claimed /\ claim.subject.kind = "realization"
      realized == e.scope = "realization"
      found    == realized /\ e.realization \in known
  IN
  ResolveAll(docs, {e.claim, e.specification} \cup e.profiles
                     \cup (IF realized THEN {e.realization} ELSE {}))
    \cup When(about /\ ~realized, "LINK_EVIDENCE_RUNTIME_SCOPE_REQUIRED")
    \cup When(claimed /\ e.specification \in known /\ e.specification # claim.governing,
              "LINK_EVIDENCE_SPECIFICATION_MISMATCH")
    \cup When(found /\ about /\ e.realization # claim.subject,
              "LINK_EVIDENCE_REALIZATION_MISMATCH")
    \cup When(/\ found
              /\ e.specification \in known
              /\ At(docs, e.realization).specification # e.specification,
              "LINK_EVIDENCE_REALIZATION_SPECIFICATION_MISMATCH")
    \cup When(found /\ e.adapter # At(docs, e.realization).adapter,
              "LINK_EVIDENCE_ADAPTER_MISMATCH")
    \cup When(claimed /\ e.profiles # claim.profiles, "LINK_EVIDENCE_PROFILE_MISMATCH")

(* Only a prohibition that selects an event pattern needs an effect.       *)
ProhibitionLinks(docs, p, entry) ==
  LET known == Addresses(docs)
      spec  == At(docs, entry.specification)
  IN
  IF entry.specification \notin known THEN Resolve(docs, entry.specification)
  ELSE IF entry.specification # p.specification THEN {"LINK_POLICY_SPECIFICATION_MISMATCH"}
  ELSE IF entry.declaration \notin Declared(spec) THEN {"LINK_DANGLING_DECLARATION"}
  ELSE IF entry.pattern = "none" THEN {}
  ELSE IF entry.declaration \notin spec.effects THEN {"LINK_DECLARATION_KIND_MISMATCH"}
  ELSE When(entry.pattern \notin spec.forbidden \cup spec.otherEvents,
            "LINK_POLICY_EVENT_PATTERN_MISMATCH")

PolicyLinks(docs, p) ==
  ResolveAll(docs, {p.specification, p.profile})
    \cup UNION {ProhibitionLinks(docs, p, entry) : entry \in p.prohibitions}

Links(docs, doc) ==
  CASE doc.address.kind = "specification"  -> ResolveAll(docs, doc.imports)
    [] doc.address.kind = "realization"    -> RealizationLinks(docs, doc)
    [] doc.address.kind = "claim"          -> ClaimLinks(docs, doc)
    [] doc.address.kind = "evidence"       -> EvidenceLinks(docs, doc)
    [] doc.address.kind = "consumerPolicy" -> PolicyLinks(docs, doc)
    [] OTHER                       -> {}

(* check_graph: only the record an address stands for is checked.          *)
CheckGraph(files) ==
  LET duplicates == Duplicates(files)
      docs       == {DocOf(f) : f \in files \ duplicates}
  IN
  {[code |-> "LINK_DUPLICATE_ADDRESS", path |-> f.path] : f \in duplicates}
    \cup
  UNION {{[code |-> c, path |-> f.path] : c \in Links(docs, DocOf(f))} : f \in files \ duplicates}

-----------------------------------------------------------------------------
(* Manifests: the sources whose roots are read, and the members each must  *)
(* hold, with their digests.                                               *)

Member(f) == [source |-> f.source, address |-> AddressOf(DocOf(f)), digest |-> f.digest]

(* _parse_manifest. *)
ManifestDiagnostics(m) ==
  {[code |-> "MANIFEST_DUPLICATE_MEMBER_ADDRESS", path |-> 0] :
     x \in {y \in m.members : \E z \in m.members \ {y} : z.address = y.address}}
    \cup
  {[code |-> "MANIFEST_UNKNOWN_SOURCE", path |-> 0] :
     x \in {y \in m.members : y.source \notin m.sources}}

(* _membership_diagnostics. *)
MembershipDiagnostics_NoDigest(files, members) ==
  LET expected == {<<x.source, x.address>> : x \in members}
      observed == {<<f.source, AddressOf(DocOf(f))>> : f \in files}
  IN
  IF expected = observed THEN {} ELSE {[code |-> "GRAPH_MISSING_MEMBER", path |-> 0]}

MembershipDiagnostics(files, members) ==
  LET key(x)   == <<x.source, x.address>>
      expected == {key(x) : x \in members}
      observed == {key(Member(f)) : f \in files}
  IN
  {[code |-> "GRAPH_MISSING_MEMBER", path |-> 0] : k \in expected \ observed}
    \cup
  {[code |-> "GRAPH_UNEXPECTED_MEMBER", path |-> f.path] :
     f \in {g \in files : key(Member(g)) \notin expected}}
    \cup
  {[code |-> "GRAPH_DIGEST_MISMATCH", path |-> f.path] :
     f \in {g \in files : key(Member(g)) \in expected /\ Member(g) \notin members}}

(* inspect_manifest_graph: the phases in order, each only if those before  *)
(* it found nothing.                                                       *)
Observation(m, files) ==
  LET read   == {f \in files : f.source \in m.sources}
      links  == CheckGraph(read)
  IN
  IF ManifestDiagnostics(m) # {}
  THEN [records |-> {}, diagnostics |-> ManifestDiagnostics(m)]
  ELSE [records |-> read,
        diagnostics |-> IF links # {} THEN links ELSE MembershipDiagnostics(read, m.members)]

Clean(observation) == observation.diagnostics = {}

Docs(observation) == {DocOf(f) : f \in observation.records}

=============================================================================
