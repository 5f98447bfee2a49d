---------------------------- MODULE RegistryProofs ----------------------------
(***************************************************************************)
(* Theorems about Registry, for every content and every sequence of edits. *)
(*                                                                         *)
(* All rest on what a clean observation is: its records are exactly the    *)
(* members of its manifest, no two of them have one address, and none has  *)
(* a link that fails.  That is true of an observation when it is made, and *)
(* the manifest it was made under does not change afterwards.              *)
(***************************************************************************)
EXTENDS Registry, TLAPS

FileSet ==
  [source : HomeSources \cup {"successors"}, path : Nat, digest : DOMAIN Content]

PathsUnique(F) == \A f, g \in F : f.path = g.path => f = g

Distinct(records) ==
  \A f, g \in records : AddressOf(DocOf(f)) = AddressOf(DocOf(g)) => f = g

LinksHold(o) == \A f \in o.records : Links(Docs(o), DocOf(f)) = {}

Sound(o, m) ==
  Clean(o) =>
    /\ o.records \subseteq FileSet
    /\ {Member(f) : f \in o.records} = m.members
    /\ Distinct(o.records)
    /\ LinksHold(o)

-----------------------------------------------------------------------------
(* Observations. *)

(* A manifest without diagnostics has no two members of one address.       *)
LEMMA ManifestUnique ==
  ASSUME NEW m, ManifestDiagnostics(m) = {}
  PROVE  \A x, y \in m.members : x.address = y.address => x = y
<1> SUFFICES ASSUME NEW x \in m.members, NEW y \in m.members,
                    x.address = y.address, x # y
             PROVE  FALSE
    OBVIOUS
<1>1. x \in {z \in m.members : \E w \in m.members \ {z} : w.address = z.address}
    OBVIOUS
<1>2. [code |-> "MANIFEST_DUPLICATE_MEMBER_ADDRESS", path |-> 0] \in ManifestDiagnostics(m)
    BY <1>1 DEF ManifestDiagnostics
<1> QED BY <1>2

(* A graph without diagnostics has one record of each address, and every   *)
(* link of every record holds.                                             *)
LEMMA GraphSound ==
  ASSUME NEW F, F \subseteq FileSet, PathsUnique(F), CheckGraph(F) = {}
  PROVE  /\ Distinct(F)
         /\ \A f \in F : Links({DocOf(g) : g \in F}, DocOf(f)) = {}
<1>1. Duplicates(F) = {}
  <2> SUFFICES ASSUME NEW f \in Duplicates(F) PROVE FALSE
      OBVIOUS
  <2>1. [code |-> "LINK_DUPLICATE_ADDRESS", path |-> f.path] \in CheckGraph(F)
      BY DEF CheckGraph
  <2> QED BY <2>1
<1>2. Distinct(F)
  <2> SUFFICES ASSUME NEW f \in F, NEW g \in F, AddressOf(DocOf(f)) = AddressOf(DocOf(g))
               PROVE  f = g
      BY DEF Distinct
  <2>1. ~(f.path < g.path) /\ ~(g.path < f.path)
      BY <1>1 DEF Duplicates
  <2>2. f.path \in Nat /\ g.path \in Nat
      BY DEF FileSet
  <2> QED BY <2>1, <2>2 DEF PathsUnique
<1>3. F \ Duplicates(F) = F
    BY <1>1
<1>4. ASSUME NEW f \in F PROVE Links({DocOf(g) : g \in F}, DocOf(f)) = {}
  <2> DEFINE codes == Links({DocOf(g) : g \in F}, DocOf(f))
  <2> SUFFICES ASSUME NEW c \in codes PROVE FALSE
      OBVIOUS
  <2> HIDE DEF codes
  <2>1. [code |-> c, path |-> f.path] \in {[code |-> x, path |-> f.path] : x \in codes}
      OBVIOUS
  <2>2. {[code |-> x, path |-> f.path] : x \in codes} \subseteq CheckGraph(F)
      BY <1>3 DEF CheckGraph, codes
  <2> QED BY <2>1, <2>2
<1> QED BY <1>2, <1>4

(* Records without membership diagnostics are the members.                 *)
LEMMA MembershipExact ==
  ASSUME NEW F, NEW m, ManifestDiagnostics(m) = {}, MembershipDiagnostics(F, m.members) = {}
  PROVE  {Member(f) : f \in F} = m.members
<1> DEFINE key(x) == <<x.source, x.address>>
           expected == {key(x) : x \in m.members}
           observed == {key(Member(f)) : f \in F}
<1>1. ASSUME NEW f \in F PROVE Member(f) \in m.members
  <2>1. key(Member(f)) \in expected
    <3> SUFFICES ASSUME key(Member(f)) \notin expected PROVE FALSE
        OBVIOUS
    <3>1. [code |-> "GRAPH_UNEXPECTED_MEMBER", path |-> f.path] \in MembershipDiagnostics(F, m.members)
        BY DEF MembershipDiagnostics
    <3> QED BY <3>1
  <2> SUFFICES ASSUME Member(f) \notin m.members PROVE FALSE
      OBVIOUS
  <2>2. [code |-> "GRAPH_DIGEST_MISMATCH", path |-> f.path] \in MembershipDiagnostics(F, m.members)
      BY <2>1 DEF MembershipDiagnostics
  <2> QED BY <2>2
<1>2. ASSUME NEW x \in m.members PROVE \E f \in F : Member(f) = x
  <2>1. key(x) \in observed
    <3> SUFFICES ASSUME key(x) \notin observed PROVE FALSE
        OBVIOUS
    <3>1. [code |-> "GRAPH_MISSING_MEMBER", path |-> 0] \in MembershipDiagnostics(F, m.members)
        BY DEF MembershipDiagnostics
    <3> QED BY <3>1
  <2>2. PICK f \in F : key(Member(f)) = key(x)
      BY <2>1
  <2>3. Member(f).address = x.address
      BY <2>2
  <2>4. Member(f) = x
      BY <1>1, <2>3, ManifestUnique
  <2> QED BY <2>4
<1> QED BY <1>1, <1>2

(* What is observed is sound when it is observed.                          *)
LEMMA ObservationSound ==
  ASSUME NEW F, NEW m, F \subseteq FileSet, PathsUnique(F)
  PROVE  Sound(Observation(m, F), m)
<1> DEFINE o == Observation(m, F)
           read == {f \in F : f.source \in m.sources}
<1> SUFFICES ASSUME Clean(o)
             PROVE  /\ o.records \subseteq FileSet
                    /\ {Member(f) : f \in o.records} = m.members
                    /\ Distinct(o.records)
                    /\ LinksHold(o)
    BY DEF Sound
<1>1. ManifestDiagnostics(m) = {}
    BY DEF Clean, Observation
<1>2. /\ o.records = read
      /\ CheckGraph(read) = {}
      /\ MembershipDiagnostics(read, m.members) = {}
    BY <1>1 DEF Clean, Observation
<1>3. read \subseteq FileSet /\ PathsUnique(read)
    BY DEF PathsUnique
<1>4. {Member(f) : f \in read} = m.members
    BY <1>1, <1>2, MembershipExact
<1>5. Distinct(read) /\ \A f \in read : Links({DocOf(g) : g \in read}, DocOf(f)) = {}
    BY <1>2, <1>3, GraphSound
<1>6. Docs(o) = {DocOf(g) : g \in read}
    BY <1>2 DEF Docs
<1> QED BY <1>2, <1>3, <1>4, <1>5, <1>6 DEF LinksHold

-----------------------------------------------------------------------------
(* The inductive invariant. *)

FilesOK ==
  /\ files \subseteq FileSet
  /\ \A f \in files : f.path \in DOMAIN Content \cup SpareNames
  /\ PathsUnique(files)
  /\ ~Released => \A f \in files : f.source \in HomeSources

ManifestsOK ==
  /\ \A m \in {predecessor, successor} : \A x \in m.members :
       x.source \in m.sources /\ x.address = AddressOf(Document[x.digest])
  /\ Released => predecessor.sources = HomeSources
  /\ ~Released => old = NoObservation
  /\ ~Revised => new = NoObservation

(* Only what is asked of an observation when it is clean is kept, and      *)
(* never which files it was made of: they are gone when it is used.        *)
IInv ==
  /\ FilesOK
  /\ ManifestsOK
  /\ published \subseteq Packets
  /\ drift \in 0 .. MaxDrift
  /\ Sound(old, predecessor)
  /\ Sound(new, successor)

LEMMA NotClean == ASSUME NEW m PROVE Sound(NoObservation, m)
BY DEF Sound, Clean, NoObservation

LEMMA InitIInv == Init => IInv
<1> SUFFICES ASSUME Init PROVE IInv
    OBVIOUS
<1> USE RegistryAssumption DEF Init
<1>1. \A f \in files : \E i \in DOMAIN Content : f = FileOf(i, Home[i])
    OBVIOUS
<1>2. FilesOK
    BY <1>1 DEF FilesOK, FileOf, FileSet, PathsUnique, HomeSources
<1>3. ManifestsOK
    BY DEF ManifestsOK, NoManifest, Released, Revised
<1>4. drift \in 0 .. MaxDrift
    OBVIOUS
<1> QED BY <1>2, <1>3, <1>4, NotClean DEF IInv

(* Files of a packet, none of whose names is taken. *)
LEMMA PublishFiles ==
  ASSUME IInv, NEW packet \in Packets, NEW apart \in BOOLEAN, Publish(packet, apart)
  PROVE  FilesOK'
<1> USE RegistryAssumption
<1> DEFINE source(i) == IF apart THEN "successors" ELSE Home[i]
           added == {FileOf(i, source(i)) : i \in packet}
<1>1. /\ files' = files \cup added
      /\ packet \cap Paths = {}
      /\ apart => Released
      /\ predecessor' = predecessor
    BY DEF Publish
<1>2. \A i \in packet : source(i) \in HomeSources \cup {"successors"}
    OBVIOUS
<1>3. added \subseteq FileSet
    BY <1>2 DEF FileSet, FileOf
<1>4. \A f \in added : f.path \in packet /\ f.path = f.digest /\ f = FileOf(f.path, source(f.path))
    BY DEF FileOf
<1>5. PathsUnique(files')
  <2>1. \A f, g \in added : f.path = g.path => f = g
      BY <1>4
  <2>2. \A f \in files, g \in added : f.path # g.path
      BY <1>1, <1>4 DEF Paths
  <2> QED BY <1>1, <2>1, <2>2 DEF PathsUnique, IInv, FilesOK
<1>6. ~Released' => \A f \in files' : f.source \in HomeSources
  <2> SUFFICES ASSUME ~Released PROVE \A f \in files' : f.source \in HomeSources
      BY <1>1 DEF Released
  <2>1. \A f \in added : f.source \in HomeSources
      BY <1>1 DEF FileOf
  <2> QED BY <1>1, <2>1 DEF IInv, FilesOK
<1>7. \A f \in files' : f.path \in DOMAIN Content \cup SpareNames
    BY <1>1, <1>4 DEF IInv, FilesOK
<1> QED BY <1>1, <1>3, <1>5, <1>6, <1>7 DEF IInv, FilesOK

(* A released file that is edited, renamed or removed. *)
LEMMA DriftFiles ==
  ASSUME IInv, NEW f \in files,
         \/ \E name \in SpareNames : Rename(f, name)
         \/ Remove(f)
         \/ \E i \in DOMAIN Content : Edit(f, i)
  PROVE  FilesOK'
<1> USE RegistryAssumption DEF IInv, FilesOK
<1>1. f \in FileSet /\ Released /\ predecessor' = predecessor
    BY DEF Rename, Remove, Edit, Drift
<1>2. ASSUME NEW name \in SpareNames, Rename(f, name) PROVE FilesOK'
  <2>1. files' = (files \ {f}) \cup {[f EXCEPT !.path = name]} /\ name \notin Paths
      BY <1>2 DEF Rename
  <2>2. [f EXCEPT !.path = name] \in FileSet /\ [f EXCEPT !.path = name].path = name
      BY <1>1 DEF FileSet
  <2> QED BY <1>1, <2>1, <2>2 DEF Paths, PathsUnique, Released
<1>3. CASE Remove(f)
  <2>1. files' = files \ {f}
      BY <1>3 DEF Remove
  <2> QED BY <1>1, <2>1 DEF PathsUnique, Released
<1>4. ASSUME NEW i \in DOMAIN Content, Edit(f, i) PROVE FilesOK'
  <2>1. files' = (files \ {f}) \cup {[f EXCEPT !.digest = i]}
      BY <1>4 DEF Edit
  <2>2. [f EXCEPT !.digest = i] \in FileSet /\ [f EXCEPT !.digest = i].path = f.path
      BY <1>1 DEF FileSet
  <2> QED BY <1>1, <2>1, <2>2 DEF PathsUnique, Released
<1> QED BY <1>2, <1>3, <1>4

LEMMA NextIInv == IInv /\ [Next]_vars => IInv'
<1> SUFFICES ASSUME IInv, [Next]_vars PROVE IInv'
    OBVIOUS
<1> USE RegistryAssumption
<1>1. ASSUME NEW packet \in Packets, NEW apart \in BOOLEAN, Publish(packet, apart) PROVE IInv'
  <2>1. FilesOK'
      BY <1>1, PublishFiles
  <2>2. UNCHANGED <<predecessor, successor, old, new, drift>> /\ published' \subseteq Packets
      BY <1>1 DEF Publish, IInv
  <2> QED BY <2>1, <2>2 DEF IInv, ManifestsOK, Released, Revised, Sound, Clean, LinksHold, Distinct, Docs
<1>2. CASE Release
  <2>1. /\ UNCHANGED <<files, published, successor, old, new, drift>>
        /\ ~Released
        /\ predecessor' = [sources |-> HomeSources, members |-> {Member(f) : f \in files}]
      BY <1>2 DEF Release
  <2>2. FilesOK'
      BY <2>1 DEF IInv, FilesOK, PathsUnique, Released, NoManifest, HomeSources
  <2>3. old = NoObservation
      BY <2>1 DEF IInv, ManifestsOK
  <2>4. ManifestsOK'
    <3>1. \A f \in files : f.source \in HomeSources
        BY <2>1 DEF IInv, FilesOK
    <3>2. Released'
        BY <2>1 DEF Released, NoManifest, HomeSources
    <3>3. \A x \in predecessor'.members :
            x.source \in predecessor'.sources /\ x.address = AddressOf(Document[x.digest])
        BY <2>1, <3>1 DEF Member, DocOf
    <3> QED BY <2>1, <3>2, <3>3 DEF IInv, ManifestsOK, Revised
  <2>5. Sound(old, predecessor)'
      BY <2>1, <2>3, NotClean
  <2>6. Sound(new, successor)'
      BY <2>1 DEF IInv, Sound, Clean, LinksHold, Distinct, Docs
  <2> QED BY <2>1, <2>2, <2>4, <2>5, <2>6 DEF IInv
<1>3. ASSUME NEW f \in files,
             \/ \E name \in SpareNames : Rename(f, name)
             \/ Remove(f)
             \/ \E i \in DOMAIN Content : Edit(f, i)
      PROVE  IInv'
  <2>1. FilesOK'
      BY <1>3, DriftFiles
  <2>2. Drift
      BY <1>3 DEF Rename, Remove, Edit
  <2>3. drift' \in 0 .. MaxDrift
      BY <2>2 DEF Drift, IInv
  <2> QED BY <2>1, <2>2, <2>3
          DEF Drift, IInv, ManifestsOK, Released, Revised, Sound, Clean, LinksHold, Distinct, Docs
<1>4. ASSUME NEW members, Revise(members),
             \A x \in members : /\ x.source \in HomeSources \cup {"successors"}
                                /\ x.address = AddressOf(Document[x.digest])
      PROVE  IInv'
  <2>1. /\ UNCHANGED <<files, published, predecessor, old, new, drift>>
        /\ Released /\ ~Revised
        /\ successor' = [sources |-> predecessor.sources \cup {"successors"}, members |-> members]
      BY <1>4 DEF Revise
  <2>2. FilesOK'
      BY <2>1 DEF IInv, FilesOK, PathsUnique, Released
  <2>3. new = NoObservation
      BY <2>1 DEF IInv, ManifestsOK
  <2>4. predecessor.sources = HomeSources
      BY <2>1 DEF IInv, ManifestsOK
  <2>5. ManifestsOK'
      BY <1>4, <2>1, <2>3, <2>4 DEF IInv, ManifestsOK, Released
  <2>6. Sound(new, successor)'
      BY <2>1, <2>3, NotClean
  <2>7. Sound(old, predecessor)'
      BY <2>1 DEF IInv, Sound, Clean, LinksHold, Distinct, Docs
  <2> QED BY <2>1, <2>2, <2>5, <2>6, <2>7 DEF IInv
<1>5. ASSUME NEW f \in files
      PROVE  /\ Member(f).source \in HomeSources \cup {"successors"}
             /\ Member(f).address = AddressOf(Document[Member(f).digest])
    BY DEF Member, DocOf, IInv, FilesOK, FileSet
<1>6. CASE AppendMembers
  <2>1. Released
      BY <1>6 DEF AppendMembers, Revise
  <2>2. \A x \in predecessor.members : /\ x.source \in HomeSources
                                       /\ x.address = AddressOf(Document[x.digest])
      BY <2>1 DEF IInv, ManifestsOK
  <2> QED BY <1>4, <1>5, <1>6, <2>2 DEF AppendMembers
<1>7. CASE Regenerate
    BY <1>4, <1>5, <1>7 DEF Regenerate
<1>8. files \subseteq FileSet /\ PathsUnique(files)
    BY DEF IInv, FilesOK
<1>9. CASE ObserveOld
  <2>1. Sound(Observation(predecessor, files), predecessor)
      BY <1>8, ObservationSound
  <2> QED BY <1>9, <2>1
          DEF ObserveOld, IInv, FilesOK, ManifestsOK, PathsUnique, Released, Revised,
              Sound, Clean, LinksHold, Distinct, Docs
<1>10. CASE ObserveNew
  <2>1. Sound(Observation(successor, files), successor)
      BY <1>8, ObservationSound
  <2> QED BY <1>10, <2>1
          DEF ObserveNew, IInv, FilesOK, ManifestsOK, PathsUnique, Released, Revised,
              Sound, Clean, LinksHold, Distinct, Docs
<1>11. CASE UNCHANGED vars
    BY <1>11
       DEF vars, IInv, FilesOK, ManifestsOK, PathsUnique, Released, Revised,
           Sound, Clean, LinksHold, Distinct, Docs
<1> QED BY <1>1, <1>2, <1>3, <1>6, <1>7, <1>9, <1>10, <1>11 DEF Next, Document

(* The invariant holds throughout. *)
LEMMA Invariance == Spec => []IInv
BY InitIInv, NextIInv, PTL DEF Spec

(* Every variable keeps its type; no two files have one name; and the      *)
(* records of a clean observation are exactly the members of its manifest  *)
(* (inspect_manifest_graph).                                               *)
THEOREM TypeCorrect == Spec => []TypeOK
<1>1. IInv => TypeOK
    BY DEF IInv, FilesOK, FileSet, ManifestsOK, PathsUnique, Sound, TypeOK, Document
<1> QED BY <1>1, Invariance, PTL

(* Nothing released is lost without a diagnostic (compare_manifest_revisions, *)
(* inspect_stack_successor), although the files are read at two moments.   *)
THEOREM NothingLost == Spec => []HistoryKept
<1>1. IInv => HistoryKept
  <2> SUFFICES ASSUME IInv,
                      Inspected,
                      InspectionDiagnostics = {}
                        \/ (Clean(new) /\ RevisionDrift(predecessor, successor) = {}),
                      NEW m \in predecessor.members
               PROVE  \E f \in new.records : Member(f) = m
      BY DEF HistoryKept
  <2>1. CASE InspectionDiagnostics = {}
    <3>1. Clean(old) /\ Preserved
        BY <2>1 DEF InspectionDiagnostics
    <3>2. PICK f \in old.records : Member(f) = m
        BY <3>1 DEF IInv, Sound
    <3> QED BY <3>1, <3>2 DEF Preserved
  <2>2. CASE Clean(new) /\ RevisionDrift(predecessor, successor) = {}
    <3>1. predecessor.members \subseteq successor.members
        BY <2>2 DEF RevisionDrift
    <3>2. {Member(f) : f \in new.records} = successor.members
        BY <2>2 DEF IInv, Sound
    <3> QED BY <3>1, <3>2
  <2> QED BY <2>1, <2>2
<1> QED BY <1>1, Invariance, PTL

-----------------------------------------------------------------------------
(* What a clean graph says of its documents. *)

Unique(docs) == \A d, e \in docs : AddressOf(d) = AddressOf(e) => d = e

WellLinked(docs) == Unique(docs) /\ \A d \in docs : Links(docs, d) = {}

LEMMA SoundDocs ==
  ASSUME NEW o, NEW m, Sound(o, m), Clean(o)
  PROVE  WellLinked(Docs(o))
BY DEF Sound, Distinct, LinksHold, Docs, Unique, WellLinked

LEMMA CleanDocs ==
  ASSUME IInv, NEW o \in {old, new}, Clean(o)
  PROVE  WellLinked(Docs(o))
BY SoundDocs DEF IInv

LEMMA AtAddress ==
  ASSUME NEW docs, Unique(docs), NEW d \in docs
  PROVE  At(docs, AddressOf(d)) = d
BY DEF At, Unique

LEMMA AtKnown ==
  ASSUME NEW docs, NEW ref \in Addresses(docs)
  PROVE  At(docs, ref) \in docs /\ AddressOf(At(docs, ref)) = ref
BY DEF At, Addresses

(* A reference without a diagnostic is to a record of the graph. *)
LEMMA ResolvesToKnown ==
  ASSUME NEW docs, NEW refs, ResolveAll(docs, refs) = {}, NEW ref \in refs
  PROVE  ref \in Addresses(docs)
<1>1. Resolve(docs, ref) = {}
    BY DEF ResolveAll
<1> QED BY <1>1 DEF Resolve

LEMMA WhenNot ==
  ASSUME NEW condition \in BOOLEAN, NEW code, When(condition, code) = {}
  PROVE  ~condition
BY DEF When

(* What the links of an evidence record of a realization's claim say.      *)
LEMMA EvidenceFacts ==
  ASSUME NEW docs, WellLinked(docs), NEW e \in docs, NEW c \in docs,
         e.address.kind = "evidence", e.claim = AddressOf(c),
         c.subject.kind = "realization"
  PROVE  /\ e.specification = c.governing
         /\ e.scope = "realization"
         /\ e.realization = c.subject
         /\ e.adapter = At(docs, c.subject).adapter
         /\ e.profiles = c.profiles
<1>1. EvidenceLinks(docs, e) = {}
    BY DEF WellLinked, Links
<1>2. At(docs, e.claim) = c /\ e.claim \in Addresses(docs)
    BY AtAddress DEF WellLinked, Addresses
<1>3. e.specification \in Addresses(docs)
  <2>1. ResolveAll(docs, {e.claim, e.specification} \cup e.profiles
                           \cup (IF e.scope = "realization" THEN {e.realization} ELSE {})) = {}
      BY <1>1 DEF EvidenceLinks
  <2> QED BY <2>1, ResolvesToKnown
<1>4. e.scope = "realization"
    BY <1>1, <1>2 DEF EvidenceLinks, When
<1>5. e.realization \in Addresses(docs)
  <2>1. ResolveAll(docs, {e.claim, e.specification} \cup e.profiles \cup {e.realization}) = {}
      BY <1>1, <1>4 DEF EvidenceLinks
  <2> QED BY <2>1, ResolvesToKnown
<1>6. e.specification = c.governing
    BY <1>1, <1>2, <1>3 DEF EvidenceLinks, When
<1>7. e.realization = c.subject
    BY <1>1, <1>2, <1>4, <1>5 DEF EvidenceLinks, When
<1>8. e.adapter = At(docs, e.realization).adapter
    BY <1>1, <1>4, <1>5 DEF EvidenceLinks, When
<1>9. e.profiles = c.profiles
    BY <1>1, <1>2 DEF EvidenceLinks, When
<1> QED BY <1>4, <1>6, <1>7, <1>8, <1>9

(* Evidence that is admitted was linked to a selected claim of the target. *)
LEMMA BinsLinked ==
  ASSUME NEW docs, NEW sel, NEW r, NEW entry,
         NEW d \in {ConcernDisposition(docs, sel, r, entry), ProhibitionDisposition(docs, sel, r, entry)},
         NEW e \in d.bins.supporting \cup d.bins.challenging
  PROVE  /\ e \in OfKind(docs, "evidence")
         /\ \E c \in OfKind(docs, "claim") :
              e.claim = AddressOf(c) /\ c.subject = r /\ c.governing = sel.specification
<1>1. \A claims : \A x \in Applicable(docs, sel, claims) :
        x \in OfKind(docs, "evidence") /\ \E c \in claims : x.claim = AddressOf(c)
    BY DEF Applicable, Linked, Selected
<1>2. \A linked, applicable, admitted :
        BinsOf(linked, applicable, admitted).supporting
          \cup BinsOf(linked, applicable, admitted).challenging \subseteq admitted
    BY DEF BinsOf
<1>3. NoBins.supporting = {} /\ NoBins.challenging = {}
    BY DEF NoBins, BinsOf
<1>4. CASE d = ConcernDisposition(docs, sel, r, entry)
  <2> DEFINE claims == AllOf(TargetsOf(docs, sel, r, entry))
  <2>1. e \in ConcernAdmitted(docs, sel, claims, entry)
      BY <1>2, <1>3, <1>4 DEF ConcernDisposition
  <2>2. e \in Applicable(docs, sel, claims)
      BY <2>1 DEF ConcernAdmitted
  <2>3. \A c \in claims : c \in OfKind(docs, "claim") /\ c.subject = r /\ c.governing = sel.specification
      BY DEF AllOf, TargetsOf, TargetClaims
  <2> QED BY <1>1, <2>2, <2>3
<1>5. CASE d = ProhibitionDisposition(docs, sel, r, entry)
  <2>1. e \in ProhibitionAdmitted(docs, sel, r, entry)
      BY <1>2, <1>3, <1>5 DEF ProhibitionDisposition
  <2>2. e \in Applicable(docs, sel, EffectClaims(docs, sel, r, entry))
      BY <2>1 DEF ProhibitionAdmitted
  <2> QED BY <1>1, <2>2 DEF EffectClaims, TargetClaims
<1> QED BY <1>4, <1>5

LEMMA StaleUntilRerunHolds == IInv => StaleUntilRerun
<1> SUFFICES ASSUME IInv PROVE StaleUntilRerun
    OBVIOUS
<1> SUFFICES ASSUME NEW x \in Resolutions,
                    NEW r \in Candidates(Docs(x[1]), x[2]),
                    NEW d \in Dispositions(Docs(x[1]), x[2], r),
                    NEW e \in d.bins.supporting \cup d.bins.challenging
             PROVE  /\ e.specification = x[2].specification
                    /\ e.scope = "realization"
                    /\ e.realization = r
                    /\ e.adapter = At(Docs(x[1]), r).adapter
    BY DEF StaleUntilRerun
<1> DEFINE docs == Docs(x[1])
           sel == x[2]
<1>1. x[1] \in {old, new} /\ Clean(x[1])
    BY DEF Resolutions, ResolutionDiagnostics
<1>2. WellLinked(docs)
    BY <1>1, CleanDocs
<1>3. PICK entry : d \in {ConcernDisposition(docs, sel, r, entry), ProhibitionDisposition(docs, sel, r, entry)}
    BY DEF Dispositions
<1>4. PICK c \in OfKind(docs, "claim") :
        e.claim = AddressOf(c) /\ c.subject = r /\ c.governing = sel.specification
    BY <1>3, BinsLinked
<1>5. e \in docs /\ e.address.kind = "evidence"
    BY <1>3, BinsLinked DEF OfKind
<1>6. c \in docs /\ c.subject.kind = "realization"
    BY <1>4 DEF Candidates, OfKind, AddressOf
<1> QED BY <1>2, <1>4, <1>5, <1>6, EvidenceFacts

(* Evidence that counts was made of the very candidate and specification   *)
(* asked for (_check_evidence and _claim_targets together).                *)
THEOREM OldEvidenceIsStale == Spec => []StaleUntilRerun
BY StaleUntilRerunHolds, Invariance, PTL

-----------------------------------------------------------------------------
(* More records never turn a challenge away. *)

LEMMA AtSame ==
  ASSUME NEW docs, NEW more, docs \subseteq more, Unique(more), NEW ref \in Addresses(docs)
  PROVE  At(docs, ref) = At(more, ref)
<1>1. At(docs, ref) \in more /\ AddressOf(At(docs, ref)) = ref
    BY AtKnown
<1> QED BY <1>1, AtAddress

LEMMA ApplicableGrows ==
  ASSUME NEW docs, NEW more, docs \subseteq more, NEW sel,
         NEW claims, NEW moreClaims, claims \subseteq moreClaims
  PROVE  Applicable(docs, sel, claims) \subseteq Applicable(more, sel, moreClaims)
BY DEF Applicable, Linked, Selected, OfKind

LEMMA TargetsGrow ==
  ASSUME NEW docs, NEW more, docs \subseteq more, NEW sel, NEW r, NEW concern, NEW declaration
  PROVE  TargetClaims(docs, sel, r, concern, declaration)
           \subseteq TargetClaims(more, sel, r, concern, declaration)
BY DEF TargetClaims, OfKind

LEMMA ConcernStaysContested ==
  ASSUME NEW docs, NEW more, docs \subseteq more, Unique(more), NEW sel, NEW r, NEW entry,
         sel.specification \in Addresses(docs),
         ConcernDisposition(docs, sel, r, entry).status = "contested"
  PROVE  ConcernDisposition(more, sel, r, entry).status = "contested"
<1> DEFINE covered == Covered(At(docs, sel.specification), entry.concern)
           targets(D) == TargetsOf(D, sel, r, entry)
           claims(D) == AllOf(targets(D))
           admitted(D) == ConcernAdmitted(D, sel, claims(D), entry)
<1>1. DOMAIN targets(docs) = covered /\ DOMAIN targets(more) = covered
    BY AtSame DEF TargetsOf
<1>2. /\ ConcernComplete(entry)
      /\ covered # {}
      /\ {e \in admitted(docs) : e.result = "challenges"} # {}
    BY <1>1 DEF ConcernDisposition, ConcernStatus, BinsOf, NoBins
<1>3. claims(docs) \subseteq claims(more)
    BY <1>1, TargetsGrow DEF AllOf, TargetsOf
<1>4. Applicable(docs, sel, claims(docs)) \subseteq Applicable(more, sel, claims(more))
    BY <1>3, ApplicableGrows
<1>5. admitted(docs) \subseteq admitted(more)
    BY <1>4 DEF ConcernAdmitted
<1>6. {e \in admitted(more) : e.result = "challenges"} # {}
    BY <1>2, <1>5
<1> QED BY <1>1, <1>2, <1>6 DEF ConcernDisposition, ConcernStatus, BinsOf

LEMMA ProhibitionStaysContested ==
  ASSUME NEW docs, NEW more, docs \subseteq more, Unique(more), NEW sel, NEW r, NEW entry,
         sel.specification \in Addresses(docs), r \in Addresses(docs),
         ProhibitionDisposition(docs, sel, r, entry).status = "contested"
  PROVE  ProhibitionDisposition(more, sel, r, entry).status = "contested"
<1> DEFINE claims(D) == EffectClaims(D, sel, r, entry)
           admitted(D) == ProhibitionAdmitted(D, sel, r, entry)
<1>1. /\ At(more, sel.specification) = At(docs, sel.specification)
      /\ At(more, r) = At(docs, r)
    BY AtSame
<1>2. /\ ProhibitionComplete(sel, entry, At(docs, sel.specification))
      /\ {e \in admitted(docs) : e.result = "challenges"} # {}
    BY DEF ProhibitionDisposition, ProhibitionStatus, BinsOf, NoBins
<1>3. claims(docs) \subseteq claims(more)
    BY TargetsGrow DEF EffectClaims
<1>4. Applicable(docs, sel, claims(docs)) \subseteq Applicable(more, sel, claims(more))
    BY <1>3, ApplicableGrows
<1>5. \A e : ScopeMatches(docs, sel, r, entry, e) => ScopeMatches(more, sel, r, entry, e)
    BY <1>1, <1>3 DEF ScopeMatches
<1>6. admitted(docs) \subseteq admitted(more)
    BY <1>4, <1>5 DEF ProhibitionAdmitted
<1>7. {e \in admitted(more) : e.result = "challenges"} # {}
    BY <1>2, <1>6
<1> QED BY <1>1, <1>2, <1>7 DEF ProhibitionDisposition, ProhibitionStatus, BinsOf

LEMMA AdverseStaysHolds == IInv => AdverseStays
<1> SUFFICES ASSUME IInv PROVE AdverseStays
    OBVIOUS
<1> DEFINE docs == Docs(old)
           more == Docs(new)
<1> SUFFICES ASSUME Clean(old), Clean(new), docs \subseteq more,
                    NEW sel \in {OldSelection, NewSelection},
                    ResolutionDiagnostics(old, sel) = {},
                    NEW r \in Candidates(docs, sel),
                    NEW d \in Dispositions(docs, sel, r), d.blocks, d.status = "contested"
             PROVE  r \notin Acceptable(new, sel)
    BY DEF AdverseStays
<1>1. Unique(more)
    BY CleanDocs DEF WellLinked
<1>2. sel.policy \in Addresses(docs) /\ sel.specification \in Addresses(docs)
    BY DEF ResolutionDiagnostics, SelectorProblem
<1>3. r \in Addresses(docs)
    BY DEF Candidates, OfKind, Addresses
<1>4. At(docs, sel.policy) = At(more, sel.policy)
    BY <1>1, <1>2, AtSame
<1>5. Blocked(more, sel, r)
  <2>1. ASSUME NEW entry \in At(docs, sel.policy).concerns, d = ConcernDisposition(docs, sel, r, entry)
        PROVE  ConcernDisposition(more, sel, r, entry).blocks
    <3>1. ConcernDisposition(more, sel, r, entry).status = "contested"
        BY <1>1, <1>2, <2>1, ConcernStaysContested
    <3>2. entry.priority = "required"
        BY <2>1 DEF ConcernDisposition
    <3> QED BY <3>1, <3>2 DEF ConcernDisposition
  <2>2. ASSUME NEW entry \in At(docs, sel.policy).prohibitions,
               d = ProhibitionDisposition(docs, sel, r, entry)
        PROVE  ProhibitionDisposition(more, sel, r, entry).blocks
    <3>1. ProhibitionDisposition(more, sel, r, entry).status = "contested"
        BY <1>1, <1>2, <1>3, <2>2, ProhibitionStaysContested
    <3> QED BY <3>1 DEF ProhibitionDisposition
  <2> QED BY <1>4, <2>1, <2>2 DEF Dispositions, Blocked
<1> QED BY <1>5 DEF Acceptable

(* Whatever is added, a candidate refused for adverse evidence stays       *)
(* refused (resolve_stack over a graph and a larger one).                  *)
THEOREM AdverseRemains == Spec => []AdverseStays
BY AdverseStaysHolds, Invariance, PTL

-----------------------------------------------------------------------------
(* Every challenge the policy would accept is found. *)

LEMMA ClaimFacts ==
  ASSUME NEW docs, WellLinked(docs), NEW c \in docs,
         c.address.kind = "claim", c.subject.kind = "realization"
  PROVE  /\ c.governing = At(docs, c.subject).specification
         /\ c.propositionSpec = c.governing
<1>1. ClaimLinks(docs, c) = {}
    BY DEF WellLinked, Links
<1>2. ResolveAll(docs, {c.subject, c.governing, c.propositionSpec} \cup c.profiles) = {}
    BY <1>1 DEF ClaimLinks
<1>3. c.subject \in Addresses(docs) /\ c.propositionSpec \in Addresses(docs)
    BY <1>2, ResolvesToKnown
<1>4. c.governing = At(docs, c.subject).specification
    BY <1>1, <1>3 DEF ClaimLinks, When
<1>5. c.propositionSpec = c.governing
    BY <1>1, <1>3 DEF ClaimLinks, When
<1> QED BY <1>4, <1>5

(* The claim of a record of evidence is a claim of the graph. *)
LEMMA ClaimOf ==
  ASSUME NEW o, NEW m, Sound(o, m), Clean(o), NEW e \in OfKind(Docs(o), "evidence")
  PROVE  /\ At(Docs(o), e.claim) \in OfKind(Docs(o), "claim")
         /\ e.claim = AddressOf(At(Docs(o), e.claim))
         /\ e.result \in Results
<1> DEFINE docs == Docs(o)
<1>1. EvidenceLinks(docs, e) = {}
    BY SoundDocs DEF WellLinked, Links, OfKind
<1>2. ResolveAll(docs, {e.claim, e.specification} \cup e.profiles
                         \cup (IF e.scope = "realization" THEN {e.realization} ELSE {})) = {}
    BY <1>1 DEF EvidenceLinks
<1>3. e.claim \in Addresses(docs)
    BY <1>2, ResolvesToKnown
<1>4. At(docs, e.claim) \in docs /\ AddressOf(At(docs, e.claim)) = e.claim
    BY <1>3, AtKnown
<1>5. PICK f \in o.records : e = Document[f.digest] /\ f.digest \in DOMAIN Content
    BY DEF OfKind, Docs, DocOf, Sound, FileSet
<1>6. e.claim.kind = "claim" /\ e.result \in Results
    BY <1>5, ContentAssumption DEF Document, OfKind
<1> QED BY <1>4, <1>6 DEF OfKind, AddressOf

LEMMA NoCherryPickingHolds == IInv => NoCherryPicking
<1> SUFFICES ASSUME IInv PROVE NoCherryPicking
    OBVIOUS
<1> SUFFICES ASSUME NEW x \in Resolutions,
                    NEW entry \in At(Docs(x[1]), x[2].policy).concerns,
                    NEW e \in OfKind(Docs(x[1]), "evidence"),
                    entry.priority = "required",
                    e.result = "challenges",
                    e.review = "accepted",
                    e.mechanism \in entry.mechanisms,
                    x[2].profile \in e.profiles,
                    At(Docs(x[1]), e.claim).state = "active",
                    At(Docs(x[1]), e.claim).subject = e.realization,
                    At(Docs(x[1]), e.claim).concern = entry.concern,
                    At(Docs(x[1]), e.claim).declaration
                      \in Covered(At(Docs(x[1]), x[2].specification), entry.concern),
                    e.realization \in Acceptable(x[1], x[2])
             PROVE  FALSE
    BY DEF NoCherryPicking
<1> DEFINE docs == Docs(x[1])
           sel == x[2]
           r == e.realization
           c == At(docs, e.claim)
           claims == AllOf(TargetsOf(docs, sel, r, entry))
<1>1. x[1] \in {old, new} /\ Clean(x[1])
    BY DEF Resolutions, ResolutionDiagnostics
<1>2. WellLinked(docs)
    BY <1>1, CleanDocs
<1>3. c \in OfKind(docs, "claim") /\ e.claim = AddressOf(c)
    BY <1>1, ClaimOf DEF IInv
<1>4. r \in Candidates(docs, sel) /\ ~Blocked(docs, sel, r)
    BY DEF Acceptable
<1>5. PICK y \in OfKind(docs, "realization") : r = AddressOf(y) /\ y.specification = sel.specification
    BY <1>4 DEF Candidates
<1>6. At(docs, r) = y /\ r.kind = "realization"
    BY <1>2, <1>5, AtAddress DEF WellLinked, OfKind, AddressOf
<1>7. c.governing = sel.specification /\ c.propositionSpec = sel.specification
    BY <1>2, <1>3, <1>5, <1>6, ClaimFacts DEF OfKind
<1>8. c \in claims
  <2>1. c \in TargetClaims(docs, sel, r, entry.concern, c.declaration)
      BY <1>3, <1>7 DEF TargetClaims
  <2> QED BY <2>1 DEF AllOf, TargetsOf
<1>9. e.profiles = c.profiles
    BY <1>2, <1>3, <1>6, EvidenceFacts DEF OfKind
<1>10. e \in ConcernAdmitted(docs, sel, claims, entry)
    BY <1>3, <1>8, <1>9 DEF ConcernAdmitted, Applicable, Linked, Selected
<1>11. ConcernDisposition(docs, sel, r, entry).status # "satisfied"
  <2>1. CASE ~ConcernComplete(entry)
      BY <2>1 DEF ConcernDisposition, ConcernStatus
  <2>2. CASE ConcernComplete(entry)
    <3>1. {z \in ConcernAdmitted(docs, sel, claims, entry) : z.result = "challenges"} # {}
        BY <1>10
    <3> QED BY <2>2, <3>1 DEF ConcernDisposition, ConcernStatus, BinsOf
  <2> QED BY <2>1, <2>2
<1>12. ConcernDisposition(docs, sel, r, entry).blocks
    BY <1>11 DEF ConcernDisposition
<1> QED BY <1>4, <1>12 DEF Blocked

(* No support is picked over a challenge (resolve_stack and check_graph):  *)
(* an accepted challenge to an active claim about a candidate always       *)
(* reaches the disposition of the concern it is about.                     *)
THEOREM NothingCherryPicked == Spec => []NoCherryPicking
BY NoCherryPickingHolds, Invariance, PTL

-----------------------------------------------------------------------------
(* Every record that is read leaves a trace. *)

(* A claim that is selected has evidence, and a record of it is put in a   *)
(* bin that counts or that has a reason.                                   *)
LEMMA SilentBins ==
  ASSUME NEW docs, NEW sel, NEW claims, NEW all, claims \subseteq all,
         NEW admitted, admitted \subseteq Applicable(docs, sel, all),
         \A e \in OfKind(docs, "evidence") : e.result \in Results,
         ClaimReasons(docs, sel, claims) = {},
         BinReasons(BinsOf(Linked(docs, all), Applicable(docs, sel, all), admitted)) = {}
  PROVE  \/ \E e \in Applicable(docs, sel, all) \ admitted : e.review = "accepted"
         \/ \E e \in admitted : e.result = "challenges"
         \/ Supported(admitted, claims)
<1> DEFINE bins == BinsOf(Linked(docs, all), Applicable(docs, sel, all), admitted)
<1>1. claims # {} /\ Selected(sel, claims) # {}
    BY DEF ClaimReasons
<1>2. PICK c \in Selected(sel, claims) : Linked(docs, {c}) # {}
    BY <1>1 DEF ClaimReasons
<1>3. PICK e \in Linked(docs, {c}) : TRUE
    BY <1>2
<1>4. /\ c \in claims
      /\ e \in OfKind(docs, "evidence")
      /\ e.claim = AddressOf(c)
      /\ e \in Linked(docs, all)
    BY <1>3 DEF Linked, Selected
<1>5. /\ bins.inapplicable = {}
      /\ bins.inconclusive = {}
      /\ bins.error = {}
      /\ \A u \in bins.unselected : u.review = "accepted"
    BY DEF BinReasons
<1>6. e \in Applicable(docs, sel, all)
    BY <1>4, <1>5 DEF BinsOf
<1>7. CASE e \notin admitted
    BY <1>5, <1>6, <1>7 DEF BinsOf
<1>8. CASE e \in admitted
  <2>1. e.result # "inconclusive" /\ e.result # "error"
      BY <1>5, <1>8 DEF BinsOf
  <2>2. e.result = "supports" \/ e.result = "challenges"
      BY <1>4, <2>1 DEF Results
  <2> QED BY <1>4, <1>8, <2>2 DEF Supported
<1> QED BY <1>7, <1>8

LEMMA ConcernExplained ==
  ASSUME NEW docs, NEW sel, NEW r, NEW entry,
         \A e \in OfKind(docs, "evidence") : e.result \in Results,
         ConcernDisposition(docs, sel, r, entry).reasons = {},
         ConcernDisposition(docs, sel, r, entry).status # "satisfied"
  PROVE  /\ ConcernDisposition(docs, sel, r, entry).status = "contested"
         /\ ConcernDisposition(docs, sel, r, entry).bins.challenging # {}
<1> DEFINE targets == TargetsOf(docs, sel, r, entry)
           covered == DOMAIN targets
           claims == AllOf(targets)
           admitted == ConcernAdmitted(docs, sel, claims, entry)
           applicable == Applicable(docs, sel, claims)
           bins == BinsOf(Linked(docs, claims), applicable, admitted)
           missing == Missing(admitted, targets)
           disposition == ConcernDisposition(docs, sel, r, entry)
<1>1. ConcernComplete(entry) /\ covered # {}
    BY DEF ConcernDisposition, ConcernReasons
<1>2. /\ disposition.bins = bins
      /\ disposition.status = ConcernStatus(TRUE, covered, missing, bins.challenging)
    BY <1>1 DEF ConcernDisposition
<1>3. /\ \A d \in covered : ClaimReasons(docs, sel, targets[d]) = {}
      /\ BinReasons(bins) = {}
      /\ ~\E e \in bins.unselected : e.review = "accepted"
    BY <1>1 DEF ConcernDisposition, ConcernReasons, AllClaimReasons
<1>4. bins.challenging # {}
  <2> SUFFICES ASSUME bins.challenging = {} PROVE FALSE
      OBVIOUS
  <2>1. PICK d \in covered : ~Supported(admitted, targets[d])
      BY <1>1, <1>2 DEF ConcernStatus, Missing
  <2>2. targets[d] \subseteq claims /\ admitted \subseteq applicable
      BY <2>1 DEF AllOf, ConcernAdmitted
  <2>3. \/ \E e \in applicable \ admitted : e.review = "accepted"
        \/ \E e \in admitted : e.result = "challenges"
      BY <1>3, <2>1, <2>2, SilentBins
  <2> QED BY <1>3, <2>3 DEF BinsOf
<1> QED BY <1>1, <1>2, <1>4 DEF ConcernStatus

LEMMA ProhibitionExplained ==
  ASSUME NEW docs, NEW sel, NEW r, NEW entry,
         \A e \in OfKind(docs, "evidence") : e.result \in Results,
         ProhibitionDisposition(docs, sel, r, entry).reasons = {},
         ProhibitionDisposition(docs, sel, r, entry).status # "satisfied"
  PROVE  /\ ProhibitionDisposition(docs, sel, r, entry).status = "contested"
         /\ ProhibitionDisposition(docs, sel, r, entry).bins.challenging # {}
<1> DEFINE claims == EffectClaims(docs, sel, r, entry)
           admitted == ProhibitionAdmitted(docs, sel, r, entry)
           applicable == Applicable(docs, sel, claims)
           bins == BinsOf(Linked(docs, claims), applicable, admitted)
           disposition == ProhibitionDisposition(docs, sel, r, entry)
<1>1. ProhibitionComplete(sel, entry, At(docs, sel.specification))
    BY DEF ProhibitionDisposition
<1>2. /\ disposition.bins = bins
      /\ disposition.status = ProhibitionStatus(TRUE, bins.supporting, bins.challenging)
    BY <1>1 DEF ProhibitionDisposition
<1>3. /\ ClaimReasons(docs, sel, claims) = {}
      /\ BinReasons(bins) = {}
      /\ ScopeReasons(entry, {e \in bins.unselected : e.review = "accepted"}) = {}
    BY <1>1 DEF ProhibitionDisposition
<1>4. ~\E e \in bins.unselected : e.review = "accepted"
    BY <1>3 DEF ScopeReasons
<1>5. bins.challenging # {}
  <2> SUFFICES ASSUME bins.challenging = {} PROVE FALSE
      OBVIOUS
  <2>1. bins.supporting = {}
      BY <1>2 DEF ProhibitionStatus
  <2>2. ~Supported(admitted, claims)
      BY <2>1 DEF Supported, BinsOf
  <2>3. admitted \subseteq applicable
      BY DEF ProhibitionAdmitted
  <2>4. \/ \E e \in applicable \ admitted : e.review = "accepted"
        \/ \E e \in admitted : e.result = "challenges"
      BY <1>3, <2>2, <2>3, SilentBins
  <2> QED BY <1>4, <2>4 DEF BinsOf
<1> QED BY <1>1, <1>2, <1>5 DEF ProhibitionStatus

LEMMA RefusalExplainedHolds == IInv => RefusalExplained
<1> SUFFICES ASSUME IInv PROVE RefusalExplained
    OBVIOUS
<1> SUFFICES ASSUME NEW x \in Resolutions, NEW r,
                    NEW d \in Dispositions(Docs(x[1]), x[2], r),
                    d.status # "satisfied", d.reasons = {}
             PROVE  d.status = "contested" /\ d.bins.challenging # {}
    BY DEF RefusalExplained
<1>1. x[1] \in {old, new} /\ Clean(x[1])
    BY DEF Resolutions, ResolutionDiagnostics
<1>2. \A e \in OfKind(Docs(x[1]), "evidence") : e.result \in Results
    BY <1>1, ClaimOf DEF IInv
<1>3. PICK entry : \/ d = ConcernDisposition(Docs(x[1]), x[2], r, entry)
                   \/ d = ProhibitionDisposition(Docs(x[1]), x[2], r, entry)
    BY DEF Dispositions
<1> QED BY <1>2, <1>3, ConcernExplained, ProhibitionExplained

(* No candidate is refused without a reason or the evidence against it     *)
(* (_concern_disposition and _prohibition_disposition).                    *)
THEOREM RefusalsExplained == Spec => []RefusalExplained
BY RefusalExplainedHolds, Invariance, PTL

-----------------------------------------------------------------------------
(* What says nothing of a specification changes nothing for it. *)

SilentAdditions(docs, more, specification) ==
  /\ docs \subseteq more
  /\ \A d \in more \ docs : Silent(d, specification)

LEMMA SameTargets ==
  ASSUME NEW docs, NEW more, NEW sel, SilentAdditions(docs, more, sel.specification),
         NEW r, NEW concern, NEW declaration
  PROVE  TargetClaims(more, sel, r, concern, declaration) = TargetClaims(docs, sel, r, concern, declaration)
BY DEF SilentAdditions, Silent, TargetClaims, OfKind

(* Evidence for one of its claims would be of the specification. *)
LEMMA NoNewEvidence ==
  ASSUME NEW docs, NEW more, NEW sel, SilentAdditions(docs, more, sel.specification),
         WellLinked(more), NEW r, r.kind = "realization",
         NEW c \in docs, c.subject = r, c.governing = sel.specification,
         NEW e \in OfKind(more, "evidence"), e.claim = AddressOf(c)
  PROVE  e \in OfKind(docs, "evidence")
<1>1. e \in more /\ e.address.kind = "evidence" /\ c \in more
    BY DEF OfKind, SilentAdditions
<1>2. e.specification = c.governing
    BY <1>1, EvidenceFacts
<1> QED BY <1>1, <1>2 DEF SilentAdditions, Silent, OfKind

LEMMA SameEvidence ==
  ASSUME NEW docs, NEW more, NEW sel, SilentAdditions(docs, more, sel.specification),
         WellLinked(more), NEW r, r.kind = "realization",
         NEW claims, \A c \in claims : c \in docs /\ c.subject = r /\ c.governing = sel.specification
  PROVE  /\ Linked(more, claims) = Linked(docs, claims)
         /\ Applicable(more, sel, claims) = Applicable(docs, sel, claims)
         /\ ClaimReasons(more, sel, claims) = ClaimReasons(docs, sel, claims)
<1>1. ASSUME NEW c \in claims, NEW e \in OfKind(more, "evidence"), e.claim = AddressOf(c)
      PROVE  e \in OfKind(docs, "evidence")
  <2>1. c \in docs /\ c.subject = r /\ c.governing = sel.specification
      OBVIOUS
  <2> QED BY <1>1, <2>1, NoNewEvidence
<1>2. ASSUME NEW some, some \subseteq claims PROVE Linked(more, some) = Linked(docs, some)
  <2>1. OfKind(docs, "evidence") \subseteq OfKind(more, "evidence")
      BY DEF OfKind, SilentAdditions
  <2> QED BY <1>1, <1>2, <2>1 DEF Linked
<1>3. Selected(sel, claims) \subseteq claims
    BY DEF Selected
<1>4. \A c \in Selected(sel, claims) : Linked(more, {c}) = Linked(docs, {c})
    BY <1>2, <1>3
<1> QED BY <1>2, <1>3, <1>4 DEF Applicable, ClaimReasons

LEMMA SameConcern ==
  ASSUME NEW docs, NEW more, NEW sel, SilentAdditions(docs, more, sel.specification),
         WellLinked(more), NEW r, r.kind = "realization", NEW entry,
         sel.specification \in Addresses(docs)
  PROVE  ConcernDisposition(more, sel, r, entry) = ConcernDisposition(docs, sel, r, entry)
<1> DEFINE targets == TargetsOf(docs, sel, r, entry)
           claims == AllOf(targets)
<1>1. TargetsOf(more, sel, r, entry) = targets
  <2>1. At(more, sel.specification) = At(docs, sel.specification)
      BY AtSame DEF WellLinked, SilentAdditions
  <2> QED BY <2>1, SameTargets DEF TargetsOf
<1>2. \A d \in DOMAIN targets : \A c \in targets[d] :
        c \in docs /\ c.subject = r /\ c.governing = sel.specification
    BY DEF TargetsOf, TargetClaims, OfKind
<1>3. \A c \in claims : c \in docs /\ c.subject = r /\ c.governing = sel.specification
    BY <1>2 DEF AllOf
<1>4. /\ Linked(more, claims) = Linked(docs, claims)
      /\ Applicable(more, sel, claims) = Applicable(docs, sel, claims)
    BY <1>3, SameEvidence
<1>5. ConcernAdmitted(more, sel, claims, entry) = ConcernAdmitted(docs, sel, claims, entry)
    BY <1>4 DEF ConcernAdmitted
<1>6. AllClaimReasons(more, sel, targets) = AllClaimReasons(docs, sel, targets)
  <2>1. \A d \in DOMAIN targets : ClaimReasons(more, sel, targets[d]) = ClaimReasons(docs, sel, targets[d])
      BY <1>2, SameEvidence
  <2> QED BY <2>1 DEF AllClaimReasons
<1> QED BY <1>1, <1>4, <1>5, <1>6, Zenon DEF ConcernDisposition

LEMMA SameProhibition ==
  ASSUME NEW docs, NEW more, NEW sel, SilentAdditions(docs, more, sel.specification),
         WellLinked(more), NEW r, r.kind = "realization", NEW entry,
         sel.specification \in Addresses(docs), r \in Addresses(docs)
  PROVE  ProhibitionDisposition(more, sel, r, entry) = ProhibitionDisposition(docs, sel, r, entry)
<1> DEFINE claims == EffectClaims(docs, sel, r, entry)
<1>1. /\ At(more, sel.specification) = At(docs, sel.specification)
      /\ At(more, r) = At(docs, r)
    BY AtSame DEF WellLinked, SilentAdditions
<1>2. EffectClaims(more, sel, r, entry) = claims
    BY SameTargets DEF EffectClaims
<1>3. \A c \in claims : c \in docs /\ c.subject = r /\ c.governing = sel.specification
    BY DEF EffectClaims, TargetClaims, OfKind
<1>4. /\ Linked(more, claims) = Linked(docs, claims)
      /\ Applicable(more, sel, claims) = Applicable(docs, sel, claims)
    BY <1>3, SameEvidence
<1>5. \A e : ScopeMatches(more, sel, r, entry, e) <=> ScopeMatches(docs, sel, r, entry, e)
    BY <1>1, <1>2 DEF ScopeMatches
<1>6. ProhibitionAdmitted(more, sel, r, entry) = ProhibitionAdmitted(docs, sel, r, entry)
    BY <1>2, <1>4, <1>5 DEF ProhibitionAdmitted
<1>7. ClaimReasons(more, sel, claims) = ClaimReasons(docs, sel, claims)
    BY <1>3, SameEvidence
<1> QED BY <1>1, <1>2, <1>4, <1>6, <1>7, Zenon DEF ProhibitionDisposition

LEMMA RecoveryIsPredecessorsHolds == IInv => RecoveryIsPredecessors
<1> SUFFICES ASSUME IInv PROVE RecoveryIsPredecessors
    OBVIOUS
<1> DEFINE docs == Docs(old)
           more == Docs(new)
           sel == OldSelection
<1> SUFFICES ASSUME InspectionDiagnostics = {},
                    ResolutionDiagnostics(old, sel) = {},
                    \A d \in more \ docs : Silent(d, sel.specification)
             PROVE  Acceptable(new, sel) = Acceptable(old, sel)
    BY DEF RecoveryIsPredecessors, RecoveryCandidates
<1>1. Clean(old) /\ Clean(new) /\ Preserved /\ ResolutionDiagnostics(new, sel) = {}
    BY DEF InspectionDiagnostics
<1>2. SilentAdditions(docs, more, sel.specification)
    BY <1>1 DEF Preserved, Docs, SilentAdditions
<1>3. WellLinked(more)
    BY <1>1, CleanDocs
<1>4. sel.policy \in Addresses(docs) /\ sel.specification \in Addresses(docs)
    BY DEF ResolutionDiagnostics, SelectorProblem
<1>5. At(more, sel.policy) = At(docs, sel.policy)
    BY <1>2, <1>3, <1>4, AtSame DEF WellLinked, SilentAdditions
<1>6. Candidates(more, sel) = Candidates(docs, sel)
    BY <1>2 DEF Candidates, OfKind, SilentAdditions, Silent
<1>7. ASSUME NEW r \in Candidates(docs, sel) PROVE Blocked(more, sel, r) <=> Blocked(docs, sel, r)
  <2>1. r.kind = "realization" /\ r \in Addresses(docs)
      BY DEF Candidates, OfKind, AddressOf, Addresses
  <2> HIDE DEF docs, more, sel
  <2>2. ASSUME NEW entry
        PROVE  ConcernDisposition(more, sel, r, entry) = ConcernDisposition(docs, sel, r, entry)
      BY <1>2, <1>3, <1>4, <2>1, SameConcern
  <2>3. ASSUME NEW entry
        PROVE  ProhibitionDisposition(more, sel, r, entry) = ProhibitionDisposition(docs, sel, r, entry)
      BY <1>2, <1>3, <1>4, <2>1, SameProhibition
  <2> QED BY <1>5, <2>2, <2>3 DEF Blocked
<1> QED BY <1>1, <1>6, <1>7 DEF Acceptable

(* Recovery offers what was acceptable before, when nothing of the         *)
(* successor is (inspect_stack_successor), though it is computed from the  *)
(* successor's graph.                                                      *)
THEOREM RecoveryFaithful == Spec => []RecoveryIsPredecessors
BY RecoveryIsPredecessorsHolds, Invariance, PTL

=============================================================================
