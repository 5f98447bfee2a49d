---------------------------- MODULE OrderedMapReplay ----------------------------
(***************************************************************************)
(* The four commands that replay OrderedMap from its pinned files:         *)
(* ordered_map_theory_source.py, ordered_map_inspection.py with the        *)
(* product of ordered_map_product.py, ordered_map_maintenance.py and       *)
(* ordered_map_profile_choice.py.  A command reads file after file while   *)
(* other processes edit them; then it decides.  Between the two a caller   *)
(* that is not the command may put other records in the captured graphs,   *)
(* as the repository's tests do: a control.                                *)
(*                                                                         *)
(* A root is listed in one step, a file is read in one step.               *)
(***************************************************************************)
EXTENDS OrderedMapResolver, SourceCapture

CONSTANTS
  Released,      \* the body of each pinned file and schema
  Contracts,     \* the digest of the manifest a contract names
  Manifests,     \* the manifest each meaning is
  Rank,          \* of each source, where its root sorts
  SourceOf,      \* the source whose root each path is under
  ReleasedFiles, \* the digest of each path that is a record's at release
  Variants,      \* other digests a record may come to have, under its address
  BodyEdits,     \* other bodies a pinned file or a schema may come to have
  RootEdits,     \* what a root may become
  EditBudget,    \* the edits made during each command
  MaxControls    \* the records a control touches

VARIABLES disk, edits, controls, command, pc, stage, text, contract, authority,
          todo, found, faults, graphs, report

vars == <<disk, edits, controls, command, pc, stage, text, contract, authority,
          todo, found, faults, graphs, report>>

external == <<disk, edits, controls>>

-----------------------------------------------------------------------------
(* What each command reads, in order. *)

Stages ==
  [theory      |-> <<[kind |-> "contract", name |-> "theory-contract"],
                     [kind |-> "named", name |-> "theory-manifest"]>>,
   inspect     |-> <<[kind |-> "contract", name |-> "contract"],
                     [kind |-> "named", name |-> "manifest"]>>,
   maintenance |-> <<[kind |-> "contract", name |-> "contract"],
                     [kind |-> "named", name |-> "manifest"],
                     [kind |-> "pinned", name |-> "successor"]>>,
   profiles    |-> <<[kind |-> "pinned", name |-> "choice"]>>]

Commands == DOMAIN Stages

(* The constants, once for all. *)
Bodies     == [a \in DOMAIN Released |-> Released[a]]
Authority  == [x \in DOMAIN Manifests |-> Manifests[x]]
Home       == [p \in DOMAIN SourceOf |-> SourceOf[p]]
PathsUnder == [s \in DOMAIN Rank |-> {p \in DOMAIN SourceOf : SourceOf[p] = s}]
AtRelease  == [p \in DOMAIN ReleasedFiles |-> ReleasedFiles[p]]

SchemaOf(s) == IF s.kind = "contract" THEN "contract-schema" ELSE "manifest-schema"

(* The files each command is to find, and the sources it is to read.       *)
Names ==
  [c \in Commands |->
     {Stages[c][i].name : i \in DOMAIN Stages[c]} \cup {SchemaOf(Stages[c][i]) : i \in DOMAIN Stages[c]}]

Reads ==
  [c \in Commands |->
     UNION {Manifests[Released[a].meaning].sources :
              a \in {b \in Names[c] : Released[b].meaning \in DOMAIN Manifests}}]

Current == Stages[command][stage]

(* A contract is pinned by what it says, a manifest by its bytes: either   *)
(* the contract names them or the program does.                            *)
Pin ==
  CASE Current.kind = "contract" -> [kind |-> "canonical", digest |-> CanonicalDigest(Bodies[Current.name])]
    [] Current.kind = "named"    -> [kind |-> "raw", digest |-> Contracts[contract]]
    [] Current.kind = "pinned"   -> [kind |-> "raw", digest |-> RawDigest(Bodies[Current.name])]

Wanted == IF pc \in {"look", "open"} THEN Current.name ELSE SchemaOf(Current)

(* The sources still to be listed, in the order of their roots.            *)
FirstOf(sources) == CHOOSE s \in sources : \A t \in sources : Rank[s] <= Rank[t]

FirstPath(paths) == CHOOSE p \in paths : \A q \in paths : p <= q

-----------------------------------------------------------------------------
Theory           == "ordered-map-theory"
RustSource       == "ordered-map-rust"
TypescriptSource == "ordered-map-typescript"
ConsumerSource   == "ordered-map-consumer"

(* inspect_product_candidate, once its graph is captured.                  *)
ProductProblems(graph, m) ==
  LET registered(package) == ProjectRegistration(graph, m, Theory, package)
      registrations       == registered(RustSource) \cup registered(TypescriptSource)
  IN
  IF ~Clean(graph) THEN Codes(graph.diagnostics)
  ELSE IF ProjectPublication(graph, m, Theory) # {} THEN ProjectPublication(graph, m, Theory)
  ELSE IF registrations # {} THEN registrations
  ELSE ProjectionProblems(graph, Specification)

(* inspect_theory_source, likewise, but for the projection it decides by. *)
TheoryProblems(graph, m) ==
  IF ~Clean(graph) THEN Codes(graph.diagnostics)
  ELSE ProjectPublication(graph, m, Theory)

CaptureProblems(graph, m) ==
  CASE Current.name = "theory-manifest" -> TheoryProblems(graph, m)
    [] Current.name = "manifest"        -> ProductProblems(graph, m)
    [] OTHER                            -> Codes(graph.diagnostics)

DecisionProblems(c, g) ==
  CASE c = "theory"      -> ProjectionProblems(g[1], Specification)
    [] c = "inspect"     -> SelectionProblems(g[1], Accepted, "ORDERED_MAP_RESOLUTION_")
    [] c = "maintenance" -> MaintenanceProblems(g[1], g[2])
    [] c = "profiles"    -> StructuralProblems(g[1])

(* A refusal decides nothing. *)
Decision(c, g) ==
  CASE c = "theory"      -> ProjectTheory(Docs(g[1]), Specification)
    [] c = "inspect"     -> ResolveOrderedMap(Docs(g[1]))
    [] c = "maintenance" -> Maintenance(g[1], g[2])
    [] c = "profiles"    -> ResolveChoices(Docs(g[1]))

-----------------------------------------------------------------------------
(* What the pins stand for. *)

PinnedManifest(name) == Authority[Bodies[name].meaning]

GraphAtRelease(name) ==
  LET m == PinnedManifest(name) IN
  [records     |-> {[source |-> Home[p], path |-> p, digest |-> AtRelease[p]] :
                      p \in {q \in DOMAIN AtRelease : Home[q] \in m.sources}},
   diagnostics |-> {}]

GraphsAtRelease ==
  [theory      |-> <<GraphAtRelease("theory-manifest")>>,
   inspect     |-> <<GraphAtRelease("manifest")>>,
   maintenance |-> <<GraphAtRelease("manifest"), GraphAtRelease("successor")>>,
   profiles    |-> <<GraphAtRelease("choice")>>]

DecisionAtRelease == [c \in Commands |-> Decision(c, GraphsAtRelease[c])]

Members(graph) == {Member(f) : f \in graph.records}

-----------------------------------------------------------------------------
(* The repository is at rest as its own tests have it: every pinned file   *)
(* can be read, every contract names the manifest beside it, every         *)
(* manifest lists the records under its sources and no other, and each     *)
(* command decides.                                                        *)

ReleasedBodies ==
  /\ \A c \in Commands : \A a \in Names[c] :
       /\ a \in DOMAIN Released
       /\ ParseProblems(Released[a]) = {}
       /\ Released[a].syntax \notin {"too-large", "not-utf8"}
  /\ \A a \in {"contract-schema", "manifest-schema"} : Released[a].meaning \notin {"no-schema", "rejects"}

ReleasedContracts ==
  \A c \in Commands :
    Stages[c][1].kind = "contract" =>
      /\ Released[Stages[c][1].name].meaning \in DOMAIN Contracts
      /\ Contracts[Released[Stages[c][1].name].meaning] = RawDigest(Released[Stages[c][2].name])

ReleasedPaths ==
  /\ Rank \in [DOMAIN Rank -> Nat]
  /\ DOMAIN SourceOf \subseteq Nat
  /\ \A p \in DOMAIN SourceOf : SourceOf[p] \in DOMAIN Rank
  /\ DOMAIN ReleasedFiles \subseteq DOMAIN SourceOf
  /\ \A p \in DOMAIN ReleasedFiles :
       ReleasedFiles[p] \in DOMAIN Content /\ ReleasedFiles[p] \notin DOMAIN Broken

PinnedManifests == {"theory-manifest", "manifest", "successor", "choice"}

ReleasedManifests ==
  \A name \in PinnedManifests :
    LET m == PinnedManifest(name) IN
    /\ Released[name].meaning \in DOMAIN Manifests
    /\ m.sources # {} /\ m.sources \subseteq DOMAIN Rank
    /\ ManifestDiagnostics(m) = {}
    /\ m.members # {} /\ m.members = Members(GraphAtRelease(name))
    /\ CheckGraph(GraphAtRelease(name).records) = {}

(* What was said of the version before, pointed at this one: a claim about *)
(* its realization, or evidence for a claim of it.                         *)
Repointed(docs, p) ==
  \/ \E c \in OfKind(docs, "claim") :
       c.subject = RealizationOf(p, "0.2.0") /\ c.address.version # "0.2.0"
  \/ \E e \in OfKind(docs, "evidence") :
       e.claim \in PackageAddresses(p, "0.2.0", "claim") /\ e.address.version # "0.2.0"

ReleasedDecisions ==
  /\ \A p \in DOMAIN Packages : ~Repointed(Docs(GraphAtRelease("choice")), p)
  /\ TheoryProblems(GraphAtRelease("theory-manifest"), PinnedManifest("theory-manifest")) = {}
  /\ ProductProblems(GraphAtRelease("manifest"), PinnedManifest("manifest")) = {}
  /\ \A c \in Commands : DecisionProblems(c, GraphsAtRelease[c]) = {}

(* A theory stands by itself, and so does a package with its theory.       *)
ReleasedViews ==
  LET m        == PinnedManifest("manifest")
      files(S) == {f \in GraphAtRelease("manifest").records : f.source \in S}
  IN
  /\ m.sources = {Theory, RustSource, TypescriptSource, ConsumerSource}
  /\ \A s \in m.sources : Approved(m, s) # {}
  /\ CheckGraph(files({Theory})) = {}
  /\ \A p \in {RustSource, TypescriptSource} : CheckGraph(files({Theory, p})) = {}

ASSUME ReleaseAssumption ==
  /\ ReleasedBodies
  /\ ReleasedContracts
  /\ ReleasedPaths
  /\ ReleasedManifests
  /\ ReleasedDecisions
  /\ ReleasedViews

(* What a record may come to be is some contents under its own address.    *)
ASSUME VariantsAssumption ==
  /\ Variants \in [DOMAIN Content -> SUBSET DOMAIN Content]
  /\ \A x \in DOMAIN Variants : \A d \in Variants[x] : AddressOf(Document[d]) = AddressOf(Document[x])

-----------------------------------------------------------------------------
File(type, digest) == [type |-> type, digest |-> digest]

ReleasedDisk ==
  [artifacts |-> [a \in DOMAIN Bodies |-> [type |-> "file", body |-> Bodies[a]]],
   roots     |-> [s \in DOMAIN Rank |-> "directory"],
   files     |-> [p \in DOMAIN Home |->
                    IF p \in DOMAIN AtRelease THEN File("file", AtRelease[p]) ELSE File("absent", 0)]]

NoReport == [problems |-> {}, decision |-> <<>>]

Init ==
  /\ command \in Commands
  /\ disk = ReleasedDisk
  /\ edits = 0
  /\ controls = 0
  /\ pc = "look"
  /\ stage = 1
  /\ text = <<>>
  /\ contract = ""
  /\ authority = <<>>
  /\ todo = {}
  /\ found = {}
  /\ faults = {}
  /\ graphs = <<>>
  /\ report = NoReport

Refuse(problems) ==
  /\ pc' = "done"
  /\ report' = [problems |-> problems, decision |-> <<>>]

(* inspect_json_artifact: a file is looked at, opened and read, then its   *)
(* schema is; both are decoded without further input.                      *)
Look ==
  /\ pc \in {"look", "look-schema"}
  /\ LET problems == LexicalProblems(disk.artifacts[Wanted]) IN
     IF problems # {} THEN Refuse(problems)
     ELSE /\ pc' = IF pc = "look" THEN "open" ELSE "open-schema"
          /\ UNCHANGED report
  /\ UNCHANGED <<external, command, stage, text, contract, authority, todo, found, faults, graphs>>

Open ==
  /\ pc = "open"
  /\ LET entry == disk.artifacts[Wanted] IN
     IF OpenProblems(entry) # {} THEN Refuse(OpenProblems(entry)) /\ UNCHANGED text
     ELSE /\ pc' = "look-schema"
          /\ text' = entry.body
          /\ UNCHANGED report
  /\ UNCHANGED <<external, command, stage, contract, authority, todo, found, faults, graphs>>

OpenSchema ==
  /\ pc = "open-schema"
  /\ LET entry    == disk.artifacts[Wanted]
         problems == IF OpenProblems(entry) # {} THEN OpenProblems(entry)
                     ELSE DecodeProblems(text, entry.body, Pin)
     IN
     \/ /\ problems # {}
        /\ Refuse(problems)
        /\ UNCHANGED <<stage, contract, authority, todo, found, faults>>
     \/ /\ problems = {}
        /\ Current.kind = "contract"
        /\ contract' = text.meaning
        /\ stage' = stage + 1
        /\ pc' = "look"
        /\ UNCHANGED <<authority, todo, found, faults, report>>
     \/ /\ problems = {}
        /\ Current.kind # "contract"
        /\ LET m == Authority[text.meaning] IN
           IF ManifestDiagnostics(m) # {}
           THEN /\ Refuse(Codes(ManifestDiagnostics(m)))
                /\ UNCHANGED <<authority, todo, found, faults>>
           ELSE /\ authority' = m
                /\ todo' = m.sources
                /\ found' = {}
                /\ faults' = {}
                /\ pc' = "list"
                /\ UNCHANGED report
        /\ UNCHANGED <<stage, contract>>
  /\ text' = <<>>
  /\ UNCHANGED <<external, command, graphs>>

(* _observe_finite_source lists every root, then opens what it has found.  *)
(* While it lists, found holds the paths.                                  *)
List ==
  /\ pc = "list"
  /\ LET s      == FirstOf(todo)
         below  == [p \in PathsUnder[s] |-> disk.files[p]]
         listed == Discovered(disk.roots[s], below)
         paths  == found \cup listed.paths
         met    == faults \cup listed.problems
     IN
     IF todo \ {s} # {}
     THEN /\ todo' = todo \ {s}
          /\ found' = paths
          /\ faults' = met
          /\ UNCHANGED pc
     ELSE /\ todo' = paths
          /\ found' = {}
          /\ faults' = met \cup EmptyProblems(paths, met)
          /\ pc' = "read"
  /\ UNCHANGED <<external, command, stage, text, contract, authority, graphs, report>>

Read ==
  /\ pc = "read"
  /\ todo # {}
  /\ LET p     == FirstPath(todo)
         entry == disk.files[p]
     IN
     /\ todo' = todo \ {p}
     /\ faults' = faults \cup RecordProblems(entry)
     /\ found' = IF RecordProblems(entry) # {} THEN found
                 ELSE found \cup {[source |-> Home[p], path |-> p, digest |-> entry.digest]}
  /\ UNCHANGED <<external, command, pc, stage, text, contract, authority, graphs, report>>

(* inspect_manifest_graph concludes, and so do the views of the product.   *)
CapturedGraph(m, records, problems) ==
  IF problems # {}
  THEN [records |-> records, diagnostics |-> {[code |-> c, path |-> 0] : c \in problems}]
  ELSE Observation(m, records)

Conclude(graph, problems) ==
  IF problems # {}
  THEN Refuse(problems) /\ UNCHANGED <<stage, graphs>>
  ELSE /\ graphs' = Append(graphs, graph)
       /\ IF stage < Len(Stages[command]) THEN stage' = stage + 1 /\ pc' = "look"
          ELSE pc' = "decide" /\ UNCHANGED stage
       /\ UNCHANGED report

Check ==
  /\ pc = "read"
  /\ todo = {}
  /\ LET graph == CapturedGraph(authority, found, faults)
     IN  Conclude(graph, CaptureProblems(graph, authority))
  /\ authority' = <<>>
  /\ found' = {}
  /\ faults' = {}
  /\ UNCHANGED <<external, command, text, contract, todo>>

Reported(problems, decision) ==
  [problems |-> problems, decision |-> IF problems = {} THEN decision ELSE <<>>]

Decide ==
  /\ pc = "decide"
  /\ pc' = "done"
  /\ report' = Reported(DecisionProblems(command, graphs), Decision(command, graphs))
  /\ UNCHANGED <<external, command, stage, text, contract, authority, todo, found, faults, graphs>>

-----------------------------------------------------------------------------
(* What others do. *)

MayEdit == pc \notin {"decide", "done"} /\ edits < EditBudget[command]

Edit(changed) ==
  /\ changed # disk
  /\ disk' = changed
  /\ edits' = edits + 1
  /\ UNCHANGED <<controls, command, pc, stage, text, contract, authority, todo, found, faults, graphs, report>>

(* Entries a path may come to hold. *)
BodyEntries ==
  [a \in DOMAIN Released |->
     {[type |-> t, body |-> Released[a]] : t \in {"file", "absent", "link", "under-a-link", "directory"}}
       \cup {[type |-> "file", body |-> b] : b \in BodyEdits[a]}]

FileEntries ==
  [p \in DOMAIN ReleasedFiles |->
     {File(t, ReleasedFiles[p]) : t \in {"file", "absent", "link"}}
       \cup {File(t, d) : t \in {"file", "link"}, d \in Variants[ReleasedFiles[p]]}
       \cup {File("file", d) : d \in DOMAIN Broken}]

Free == (DOMAIN SourceOf) \ DOMAIN ReleasedFiles

OthersOf == [d \in DOMAIN Variants |-> Variants[d]]

EditArtifact ==
  /\ MayEdit
  /\ \E a \in Names[command] : \E entry \in BodyEntries[a] : Edit([disk EXCEPT !.artifacts[a] = entry])

EditRoot ==
  /\ MayEdit
  /\ \E s \in Reads[command] : \E type \in RootEdits \cup {"directory"} : Edit([disk EXCEPT !.roots[s] = type])

EditFile ==
  /\ MayEdit
  /\ \E p \in {q \in DOMAIN AtRelease : Home[q] \in Reads[command]} :
       \E entry \in FileEntries[p] : Edit([disk EXCEPT !.files[p] = entry])

Move ==
  /\ MayEdit
  /\ \E p \in {r \in DOMAIN AtRelease : Home[r] \in Reads[command]}, q \in Free :
       /\ Home[q] \in Reads[command]
       /\ Edit([disk EXCEPT !.files[p] = File("absent", AtRelease[p]), !.files[q] = disk.files[p]])

(* Whoever changed something may put it back at any time. *)
Restore ==
  /\ pc \notin {"decide", "done"}
  /\ edits > 0
  /\ disk # ReleasedDisk
  /\ disk' = ReleasedDisk
  /\ UNCHANGED <<edits, controls, command, pc, stage, text, contract, authority, todo, found, faults, graphs, report>>

(* A control gives a record other contents, takes it away or adds one to   *)
(* some of the graphs: in each it puts records in the place of the one of  *)
(* that address.  (Only the choice of profiles looks for two records of    *)
(* one address; the other commands never capture such a graph.)            *)
Controlled(graph, f, digests) ==
  [graph EXCEPT
     !.records = {g \in @ : AddressOf(DocOf(g)) # AddressOf(DocOf(f))}
                   \cup {[source |-> f.source, path |-> f.path, digest |-> d] : d \in digests}]

Control ==
  /\ pc = "decide"
  /\ edits = 0
  /\ controls < MaxControls
  /\ controls' = controls + 1
  /\ \E which \in (SUBSET DOMAIN graphs) \ {{}}, i \in DOMAIN graphs :
       \E f \in graphs[i].records :
         \E digests \in {{d} : d \in OthersOf[f.digest]} \cup {{}}
                          \cup {{f.digest, d} : d \in IF command = "profiles" THEN OthersOf[f.digest] ELSE {}} :
           graphs' = [j \in DOMAIN graphs |->
                        IF j \in which THEN Controlled(graphs[j], f, digests) ELSE graphs[j]]
  /\ UNCHANGED <<disk, edits, command, pc, stage, text, contract, authority, todo, found, faults, report>>

Next ==
  \/ Look \/ Open \/ OpenSchema \/ List \/ Read \/ Check \/ Decide
  \/ EditArtifact \/ EditRoot \/ EditFile \/ Move \/ Restore \/ Control

Spec == Init /\ [][Next]_vars

-----------------------------------------------------------------------------
(* The files as they lie. *)

ListedAt(s) == Discovered(disk.roots[s], [p \in PathsUnder[s] |-> disk.files[p]])

PathsAt(sources) == UNION {ListedAt(s).paths : s \in sources}

FileAt(p) == [source |-> Home[p], path |-> p, digest |-> disk.files[p].digest]

AtRest(sources) ==
  LET listing == UNION {ListedAt(s).problems : s \in sources}
      reading == UNION {RecordProblems(disk.files[p]) : p \in PathsAt(sources)}
  IN
  [files    |-> {FileAt(p) : p \in {q \in PathsAt(sources) : RecordProblems(disk.files[q]) = {}}},
   problems |-> listing \cup reading \cup EmptyProblems(PathsAt(sources), listing)]

Decided == pc = "done" /\ report.problems = {}

(* Whatever is edited while a command reads, and whenever, a decision is   *)
(* the one the pins stand for, from exactly the records they stand for;    *)
(* and with no edit the command decides.  (The windows between listing and *)
(* opening, and between a manifest and what it lists.)                     *)
ReplayIsPinned ==
  /\ Decided /\ controls = 0 =>
       /\ report.decision = DecisionAtRelease[command]
       /\ \A i \in DOMAIN graphs : Members(graphs[i]) = Members(GraphsAtRelease[command][i])
  /\ pc = "done" /\ edits = 0 /\ controls = 0 => report.problems = {}

(* What it is for the views to agree, and each of them at rest.            *)
Agree(published, registered, consumed, whole) ==
  LET all == \A p \in DOMAIN registered : registered[p] IN
  /\ (\E p \in DOMAIN registered : registered[p]) => published
  /\ whole <=> published /\ all /\ consumed

IsPublished(m, rest) == Publication(m, rest.files, rest.problems, Theory) = {}

IsRegistered(m, rest, p) == Registration(m, rest.files, rest.problems, Theory, p) = {}

IsConsumed(m, rest, source) ==
  rest.problems = {} /\ Duplicates(rest.files) = {} /\ {Member(f) : f \in rest.files} = Approved(m, source)

IsWhole(m, rest) == Clean(CapturedGraph(m, rest.files, rest.problems))

(* Over any files at rest, the views of the product agree: no package is   *)
(* registered with a theory that is not published, and the whole graph is  *)
(* as declared exactly if the theory is published, both packages are       *)
(* registered and the consumer's source is as declared.                    *)
ViewsAgree ==
  LET m == PinnedManifest("manifest") IN
  command = "inspect" /\ stage = 1 /\ pc = "look" =>
    Agree(IsPublished(m, AtRest({Theory})),
          [p \in {RustSource, TypescriptSource} |-> IsRegistered(m, AtRest({Theory, p}), p)],
          IsConsumed(m, AtRest({ConsumerSource}), ConsumerSource),
          IsWhole(m, AtRest(m.sources)))

(* What a control has changed in a graph. *)
Touched(graph, original) ==
  {AddressOf(DocOf(f)) : f \in (graph.records \ original.records) \cup (original.records \ graph.records)}

OwnOf(p) ==
  {Packages[p].policy, Packages[p].profile, Specification, RealizationOf(p, "0.2.0")}
    \cup PackageAddresses(p, "0.2.0", "claim") \cup PackageAddresses(p, "0.2.0", "evidence")

Verdict(d) ==
  [acceptable |-> d.acceptable,
   concerns   |-> {<<x.entry.concern, x.disposition.status>> : x \in d.candidate.concerns},
   claims     |-> d.claims.selected,
   evidence   |-> d.evidence.selected]

(* The choice made for a package does not depend on what is said of the    *)
(* other, nor on what was said of the version before, as long as none of   *)
(* that is pointed at this version.                                        *)
ChoicesStayApart ==
  Decided /\ command = "profiles" =>
    \A p \in DOMAIN Packages :
      Touched(graphs[1], GraphsAtRelease.profiles[1]) \cap OwnOf(p) = {} /\ ~Repointed(Docs(graphs[1]), p) =>
        Verdict(report.decision[p]) = Verdict(DecisionAtRelease.profiles[p])

(* An active claim under the accepted profile that realization r does what *)
(* the specification declares as d.                                        *)
Asserts(c, r, concern, d) ==
  /\ c.address.kind = "claim"
  /\ c.state = "active"
  /\ Accepted.profile \in c.profiles
  /\ c.subject = r
  /\ c.governing = Specification /\ c.propositionSpec = Specification
  /\ c.concern = concern /\ c.declaration = d

(* Accepted evidence for such a claim, under the accepted profile.         *)
AcceptedFor(docs, r, concern, d) ==
  {e \in OfKind(docs, "evidence") :
     /\ e.review = "accepted"
     /\ Accepted.profile \in e.profiles
     /\ e.claim \in Addresses(docs)
     /\ Asserts(At(docs, e.claim), r, concern, d)}

(* Of that, what the accepted campaign observed of r itself and nothing    *)
(* else, under no other profile.                                           *)
ObservedOf(docs, r, d) ==
  {e \in AcceptedFor(docs, r, "effect.conformance", d) :
     /\ e.scope = "realization" /\ e.realization = r /\ e.specification = Specification
     /\ e.mechanism = Campaign /\ e.plan = AcceptedPlan
     /\ e.adapter = At(docs, r).adapter
     /\ e.observed = d
     /\ e.profiles = {Accepted.profile} /\ At(docs, e.claim).profiles = {Accepted.profile}}

Upheld(evidence) ==
  (\E e \in evidence : e.result = "supports") /\ \A e \in evidence : e.result # "challenges"

(* What the accepted policy asks before it admits a realization: for each  *)
(* declaration of each required concern, and for each prohibition, that    *)
(* something it admits supports it and nothing it admits challenges it.    *)
Grounded(docs, r) ==
  LET policy      == At(docs, Accepted.policy)
      covered(x)  == Covered(At(docs, Specification), x.concern)
      admitted(x, d) == {e \in AcceptedFor(docs, r, x.concern, d) : e.mechanism \in x.mechanisms}
  IN
  /\ \A x \in policy.concerns :
       x.priority = "required" => covered(x) # {} /\ \A d \in covered(x) : Upheld(admitted(x, d))
  /\ \A x \in policy.prohibitions : Upheld(ObservedOf(docs, r, x.declaration))

(* What the accepted policy admits has its grounds in the records.  A      *)
(* recovery goes back to what was there: maintenance only decides when     *)
(* everything before is carried over unchanged, nothing is acceptable      *)
(* under the successor, all earlier evidence is history, and what it may   *)
(* recover to is, in the successor's registry as well, what the accepted   *)
(* policy admits, on those grounds.                                        *)
RecoveryIsGrounded ==
  /\ Decided /\ command = "inspect" =>
       \A r \in AcceptableOf(report.decision) : Grounded(Docs(graphs[1]), r)
  /\ Decided /\ command = "maintenance" =>
       LET after == Docs(graphs[2]) IN
       /\ graphs[1].records \subseteq graphs[2].records
       /\ report.decision.new = {}
       /\ report.decision.stale = {AddressOf(e) : e \in OfKind(after, "evidence")}
       /\ report.decision.recovery = AcceptableOf(ResolveOrderedMap(after))
       /\ \A r \in report.decision.recovery : Grounded(after, r)

=============================================================================
