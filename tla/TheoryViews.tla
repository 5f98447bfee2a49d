------------------------------ MODULE TheoryViews ------------------------------
(***************************************************************************)
(* What is read off a registry besides the whole graph: the publication of *)
(* a theory (publication.py), the registration of a package with it        *)
(* (registration.py) and the observations made of a specification          *)
(* (theory_projection.py).                                                 *)
(*                                                                         *)
(* The files of a source at rest are records with a source, a path and a   *)
(* digest.  An authority is a manifest: its sources, the roles each may    *)
(* hold, and its members.                                                  *)
(***************************************************************************)
EXTENDS Resolver

TheoryRoles  == {"theory-authored", "dependency"}
PackageRoles == {"package-authored"}

From(files, source) == {f \in files : f.source = source}

Approved(m, source) == {x \in m.members : x.source = source}

(* Every exact address a record asks the linker for.                       *)
References(doc) ==
  CASE doc.address.kind = "specification"  -> doc.imports
    [] doc.address.kind = "realization"    -> {doc.specification} \cup doc.profiles
    [] doc.address.kind = "claim"          -> {doc.subject, doc.governing, doc.propositionSpec} \cup doc.profiles
    [] doc.address.kind = "evidence"       ->
         {doc.claim, doc.specification} \cup doc.profiles
           \cup (IF doc.scope = "realization" THEN {doc.realization} ELSE {})
    [] doc.address.kind = "consumerPolicy" ->
         {doc.specification, doc.profile} \cup {p.specification : p \in doc.prohibitions}
    [] OTHER                               -> {}

Unresolved(files) ==
  LET docs == {DocOf(f) : f \in files}
  IN  (UNION {References(d) : d \in docs}) \ Addresses(docs)

SameRecord(a, b) == a.kind = b.kind /\ a.id = b.id

(* _publication_diagnostics.  What the linker already reported is not said *)
(* twice: a missing address some record asks for, and another version of   *)
(* the address asked for.                                                  *)
PublicationDiagnostics(files, approved) ==
  LET observed == {AddressOf(DocOf(f)) : f \in files}
      expected == {x.address : x \in approved}
      said(f)  == \E a \in expected \cap Unresolved(files) : SameRecord(a, AddressOf(DocOf(f)))
  IN
  {"PUBLICATION_MISSING_ADDRESS" : a \in (expected \ observed) \ Unresolved(files)}
    \cup
  {"PUBLICATION_UNEXPECTED_ADDRESS" : f \in {g \in files : AddressOf(DocOf(g)) \notin expected /\ ~said(g)}}
    \cup
  {IF AddressOf(DocOf(f)).kind \in {"claim", "specification"}
   THEN "PUBLICATION_PROOF_INPUT_DIGEST_MISMATCH" ELSE "PUBLICATION_SOURCE_DIGEST_MISMATCH" :
     f \in {g \in files : AddressOf(DocOf(g)) \in expected /\ Member(g) \notin approved}}

(* A problem with the source an inspection was pointed at.                 *)
SelectorProblems(m, source, roles, unknown, mismatch) ==
  IF source \notin m.sources THEN {unknown}
  ELSE IF ~(m.roles[source] \subseteq roles) THEN {mismatch}
  ELSE {}

TheorySelector(m, source) ==
  SelectorProblems(m, source, TheoryRoles, "PUBLICATION_UNKNOWN_SOURCE", "PUBLICATION_SOURCE_ROLE_MISMATCH")

Codes(diagnostics) == {d.code : d \in diagnostics}

(* inspect_theory_publication: nothing is concluded from part of a source. *)
Publication(m, files, problems, source) ==
  IF TheorySelector(m, source) # {} THEN TheorySelector(m, source)
  ELSE IF problems # {} THEN problems
  ELSE Codes(CheckGraph(From(files, source)))
         \cup PublicationDiagnostics(From(files, source), Approved(m, source))

(* _project_theory_publication: the same source of a captured graph.       *)
ProjectPublication(graph, m, source) ==
  IF TheorySelector(m, source) # {} THEN TheorySelector(m, source)
  ELSE IF ~Clean(graph) THEN Codes(graph.diagnostics)
  ELSE {}

(* _registration_diagnostics: an address is only at home under its root.   *)
RegistrationDiagnostics_AnyRoot(files, theory, package) ==
  LET approved == {[address |-> x.address, digest |-> x.digest] : x \in theory \cup package}
      observed == {[address |-> AddressOf(DocOf(f)), digest |-> f.digest] : f \in files}
  IN  IF approved = observed THEN {} ELSE {"REGISTRATION_MISSING_ADDRESS"}

RegistrationDiagnostics(files, theory, package) ==
  LET key(x)   == <<x.source, x.address>>
      approved == theory \cup package
      observed == {key(Member(f)) : f \in files}
  IN
  {"REGISTRATION_MISSING_ADDRESS" : k \in {key(x) : x \in approved} \ observed}
    \cup
  {"REGISTRATION_UNEXPECTED_ADDRESS" : k \in observed \ {key(x) : x \in approved}}
    \cup
  {"REGISTRATION_SOURCE_DIGEST_MISMATCH" :
     f \in {g \in files : key(Member(g)) \in {key(x) : x \in approved} /\ Member(g) \notin approved}}

RegistrationSelector(m, theory, package) ==
  LET first == SelectorProblems(m, theory, TheoryRoles, "REGISTRATION_UNKNOWN_THEORY_SOURCE",
                                "REGISTRATION_THEORY_SOURCE_ROLE_MISMATCH")
  IN
  IF first # {} THEN first
  ELSE SelectorProblems(m, package, PackageRoles, "REGISTRATION_UNKNOWN_PACKAGE_SOURCE",
                        "REGISTRATION_PACKAGE_SOURCE_ROLE_MISMATCH")

(* inspect_package_registration: the union of a theory and a package.      *)
Registration(m, files, problems, theory, package) ==
  LET union == From(files, theory) \cup From(files, package) IN
  IF RegistrationSelector(m, theory, package) # {} THEN RegistrationSelector(m, theory, package)
  ELSE IF problems # {} THEN problems
  ELSE Codes(CheckGraph(union))
         \cup RegistrationDiagnostics(union, Approved(m, theory), Approved(m, package))

(* _project_package_registration. *)
ProjectRegistration(graph, m, theory, package) ==
  IF RegistrationSelector(m, theory, package) # {} THEN RegistrationSelector(m, theory, package)
  ELSE IF ~Clean(graph) THEN Codes(graph.diagnostics)
  ELSE {}

-----------------------------------------------------------------------------
(* The theory of one specification: what claims about it and their         *)
(* evidence say of each declaration.  Claims about realisations do not     *)
(* count.                                                                  *)

TheoryClaims(docs, specification, declaration) ==
  {c \in OfKind(docs, "claim") :
     /\ c.subject = specification
     /\ c.governing = specification
     /\ c.propositionSpec = specification
     /\ c.declaration = declaration}

(* _observation: a challenge outranks a support; a pending review is none. *)
ObservationOf(docs, claims) ==
  LET active   == {c \in claims : c.state = "active"}
      accepted == {e \in Linked(docs, active) : e.review = "accepted"}
  IN
  IF active = {} THEN "unclaimed"
  ELSE IF \E e \in accepted : e.result = "challenges" THEN "contested-observation"
  ELSE IF \E e \in accepted : e.result = "supports" THEN "supported-observation"
  ELSE "undetermined"

ProjectionProblems(graph, specification) ==
  IF ~Clean(graph) THEN Codes(graph.diagnostics)
  ELSE IF specification \notin Addresses(Docs(graph)) THEN {"PROJECTION_SELECTOR_NOT_FOUND"}
  ELSE IF specification.kind # "specification" THEN {"PROJECTION_SELECTOR_KIND"}
  ELSE {}

(* project_theory. *)
ProjectTheory(docs, specification) ==
  LET spec     == At(docs, specification)
      about(d) == TheoryClaims(docs, specification, d)
      said     == [d \in Declared(spec) |-> ObservationOf(docs, about(d))]
  IN
  [imports        |-> [a \in spec.imports |-> a \in Addresses(docs)],
   observations   |-> said,
   unknowns       |-> {d \in Declared(spec) : said[d] \in {"unclaimed", "undetermined"}},
   contradictions |-> {AddressOf(e) : e \in {x \in Linked(docs, UNION {about(d) : d \in Declared(spec)}) :
                                               x.review = "accepted" /\ x.result = "challenges"}}]

=============================================================================
