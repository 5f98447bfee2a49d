------------------------------- MODULE Registry -------------------------------
(***************************************************************************)
(* A registry that is released once, revised once and inspected: the       *)
(* maintainer's edits of files and manifests, the two observations, and    *)
(* what semantic_packages/maintenance.py makes of them.                    *)
(*                                                                         *)
(* The two observations are taken at different moments, and files may      *)
(* change, be renamed or vanish in between.  The maintainer may append to  *)
(* the first manifest, as ADR 0014 has it, or write the second one anew    *)
(* from the files found.                                                   *)
(***************************************************************************)
EXTENDS Resolver

CONSTANTS
  Initial,        \* the digests of what is there from the start
  Packets,        \* sets of digests of what is published together
  Home,           \* of each digest, the source its document belongs to
  SpareNames,     \* names a file can be renamed to
  MaxPackets,     \* bound: packets published
  MaxDrift,       \* bound: edits, renames and removals after the release
  OldSelection,   \* the policy, profile and specification asked for,
  NewSelection    \*   of the predecessor and of the successor

HomeSources == {"theory", "packages", "consumers"}

ASSUME RegistryAssumption ==
  /\ DOMAIN Content \subseteq Nat
  /\ SpareNames \subseteq Nat
  /\ Initial \subseteq DOMAIN Content
  /\ \A p \in Packets : p \subseteq DOMAIN Content
  /\ MaxPackets \in Nat
  /\ MaxDrift \in Nat
  /\ Home \in [DOMAIN Content -> HomeSources]

VARIABLES
  files,        \* the files under the source roots
  published,    \* the packets put there
  predecessor,  \* the manifest of the release
  successor,    \* the manifest of the revision
  old, new,     \* what was observed under each
  drift         \* changes made to released files

vars == <<files, published, predecessor, successor, old, new, drift>>

NoManifest    == [sources |-> {}, members |-> {}]
NoObservation == [records |-> {}, diagnostics |-> {"none"}]

FileOf(i, source) == [source |-> source, path |-> i, digest |-> i]

Init ==
  /\ files = {FileOf(i, Home[i]) : i \in Initial}
  /\ published = {}
  /\ predecessor = NoManifest
  /\ successor = NoManifest
  /\ old = NoObservation
  /\ new = NoObservation
  /\ drift = 0

Paths == {f.path : f \in files}

Released  == predecessor # NoManifest
Revised   == successor # NoManifest
Inspected == old # NoObservation /\ new # NoObservation

-----------------------------------------------------------------------------
(* The maintainer. *)

(* Documents are added, each in a file of its own.  After the release they *)
(* should go to a root of their own, but may be put beside the released    *)
(* ones.                                                                   *)
Publish(packet, apart) ==
  /\ ~Revised
  /\ packet \notin published
  /\ Cardinality(published) < MaxPackets
  /\ apart => Released
  /\ packet \cap Paths = {}
  /\ published' = published \cup {packet}
  /\ files' = files \cup
       {FileOf(i, IF apart THEN "successors" ELSE Home[i]) : i \in packet}
  /\ UNCHANGED <<predecessor, successor, old, new, drift>>

Release ==
  /\ ~Released
  /\ predecessor' = [sources |-> HomeSources, members |-> {Member(f) : f \in files}]
  /\ UNCHANGED <<files, published, successor, old, new, drift>>

(* What happens after the inspection no longer matters to it.              *)
Drift ==
  /\ Released
  /\ ~Inspected
  /\ drift < MaxDrift
  /\ drift' = drift + 1
  /\ UNCHANGED <<published, predecessor, successor, old, new>>

(* A file's document is replaced by another of the same address. *)
Edit(f, i) ==
  /\ Drift
  /\ i # f.digest
  /\ AddressOf(Document[i]) = AddressOf(DocOf(f))
  /\ files' = (files \ {f}) \cup {[f EXCEPT !.digest = i]}

Rename(f, name) ==
  /\ Drift
  /\ name \notin Paths
  /\ files' = (files \ {f}) \cup {[f EXCEPT !.path = name]}

Remove(f) ==
  /\ Drift
  /\ files' = files \ {f}

Revise(members) ==
  /\ Released
  /\ ~Revised
  /\ successor' = [sources |-> predecessor.sources \cup {"successors"}, members |-> members]
  /\ UNCHANGED <<files, published, predecessor, old, new, drift>>

AppendMembers ==
  Revise(predecessor.members \cup {Member(f) : f \in {g \in files : g.source = "successors"}})

Regenerate == Revise({Member(f) : f \in files})

-----------------------------------------------------------------------------
(* The inspection. *)

ObserveOld ==
  /\ Released
  /\ old = NoObservation
  /\ old' = Observation(predecessor, files)
  /\ UNCHANGED <<files, published, predecessor, successor, new, drift>>

ObserveNew ==
  /\ Revised
  /\ new = NoObservation
  /\ new' = Observation(successor, files)
  /\ UNCHANGED <<files, published, predecessor, successor, old, drift>>

(* compare_manifest_revisions: sources and members are repeated exactly.   *)
RevisionDrift_AddressesOnly(p, s) ==
  (IF p.sources \subseteq s.sources THEN {} ELSE {"SUCCESSOR_PREDECESSOR_SOURCE_DRIFT"})
    \cup
  (IF \A m \in p.members : \E n \in s.members : n.address = m.address
   THEN {} ELSE {"SUCCESSOR_PREDECESSOR_MEMBER_DRIFT"})

RevisionDrift(p, s) ==
  (IF p.sources \subseteq s.sources THEN {} ELSE {"SUCCESSOR_PREDECESSOR_SOURCE_DRIFT"})
    \cup
  (IF p.members \subseteq s.members THEN {} ELSE {"SUCCESSOR_PREDECESSOR_MEMBER_DRIFT"})

(* inspect_stack_successor.  Records are compared with their paths, and    *)
(* both resolutions are made in the successor's graph.  The addresses the  *)
(* code compares by are unique in a clean graph; what else the projections *)
(* of the two theories may report is left out.                             *)
Preserved == old.records \subseteq new.records

RecoveryCandidates_Always ==
  Acceptable(new, OldSelection)

RecoveryCandidates ==
  IF Acceptable(new, NewSelection) = {} THEN Acceptable(new, OldSelection) ELSE {}

InspectionDiagnostics ==
  (IF ~Clean(old) \/ ~Clean(new)
   THEN {"graph"}
   ELSE ResolutionDiagnostics(new, OldSelection) \cup ResolutionDiagnostics(new, NewSelection))
    \cup (IF Preserved THEN {} ELSE {"SUCCESSOR_PREDECESSOR_RECORD_DRIFT"})

Next ==
  \/ \E packet \in Packets, apart \in BOOLEAN : Publish(packet, apart)
  \/ Release
  \/ \E f \in {g \in files : Member(g) \in predecessor.members} :
       \/ \E name \in SpareNames : Rename(f, name)
       \/ Remove(f)
       \/ \E i \in DOMAIN Document : Edit(f, i)
  \/ AppendMembers \/ Regenerate
  \/ ObserveOld \/ ObserveNew

Spec == Init /\ [][Next]_vars

-----------------------------------------------------------------------------
(* Properties. *)

(* Every variable keeps its type, paths are not used twice, and the        *)
(* records of a clean observation are the members of its manifest.         *)
TypeOK ==
  /\ \A f \in files :
       /\ f.source \in HomeSources \cup {"successors"}
       /\ f.path \in DOMAIN Document \cup SpareNames
       /\ f.digest \in DOMAIN Document
  /\ \A f, g \in files : f.path = g.path => f = g
  /\ published \subseteq Packets
  /\ drift \in 0 .. MaxDrift
  /\ \A m \in {predecessor, successor} : \A x \in m.members :
       x.source \in m.sources /\ x.address = AddressOf(Document[x.digest])
  /\ Clean(old) => {Member(f) : f \in old.records} = predecessor.members
  /\ Clean(new) => {Member(f) : f \in new.records} = successor.members

(* The resolutions that can be made of what was inspected. *)
Resolutions ==
  {x \in (IF Inspected THEN {old, new} ELSE {}) \X {OldSelection, NewSelection} :
     ResolutionDiagnostics(x[1], x[2]) = {}}

Dispositions(docs, sel, r) ==
  LET policy == At(docs, sel.policy) IN
  {ConcernDisposition(docs, sel, r, entry) : entry \in policy.concerns}
    \cup {ProhibitionDisposition(docs, sel, r, entry) : entry \in policy.prohibitions}

(* Evidence that counts for or against a candidate was made of that        *)
(* candidate, by its adapter, under the very version of the specification  *)
(* asked for: old evidence is stale until it is rerun, even when it is     *)
(* pointed at a claim of the successor.                                    *)
StaleUntilRerun ==
  \A x \in Resolutions :
    LET docs == Docs(x[1])  sel == x[2] IN
    \A r \in Candidates(docs, sel) : \A d \in Dispositions(docs, sel, r) :
      \A e \in d.bins.supporting \cup d.bins.challenging :
        /\ e.specification = sel.specification
        /\ e.scope = "realization"
        /\ e.realization = r
        /\ e.adapter = At(docs, r).adapter

(* A supporting record is never picked over an adverse one: a candidate is *)
(* not acceptable if the policy would accept a challenge to an active      *)
(* claim about it.                                                         *)
NoCherryPicking ==
  \A x \in Resolutions :
    LET docs == Docs(x[1])  sel == x[2]  policy == At(docs, sel.policy) IN
    \A entry \in policy.concerns, e \in OfKind(docs, "evidence") :
      ( /\ entry.priority = "required"
        /\ e.result = "challenges"
        /\ e.review = "accepted"
        /\ e.mechanism \in entry.mechanisms
        /\ sel.profile \in e.profiles
        /\ At(docs, e.claim).state = "active"
        /\ At(docs, e.claim).subject = e.realization
        /\ At(docs, e.claim).concern = entry.concern
        /\ At(docs, e.claim).declaration \in Covered(At(docs, sel.specification), entry.concern) )
      => e.realization \notin Acceptable(x[1], sel)

(* A candidate that is refused is refused with a reason, or with the       *)
(* evidence against it.                                                    *)
RefusalExplained ==
  \A x \in Resolutions :
    \A r \in Candidates(Docs(x[1]), x[2]) : \A d \in Dispositions(Docs(x[1]), x[2], r) :
      d.status # "satisfied" =>
        d.reasons # {} \/ (d.status = "contested" /\ d.bins.challenging # {})

(* A revision that keeps the released records cannot turn what was refused *)
(* for adverse evidence into something acceptable.                         *)
AdverseStays ==
  (Inspected /\ Clean(old) /\ Clean(new) /\ Docs(old) \subseteq Docs(new)) =>
    \A sel \in {OldSelection, NewSelection} :
      ResolutionDiagnostics(old, sel) = {} =>
        \A r \in Candidates(Docs(old), sel) :
          (\E d \in Dispositions(Docs(old), sel, r) : d.blocks /\ d.status = "contested")
            => r \notin Acceptable(new, sel)

(* No released record is lost, changed or moved to another source without  *)
(* a diagnostic, neither by the comparison of the two manifests nor by the *)
(* inspection, although the files are read at two moments.                 *)
HistoryKept ==
  (Inspected /\ (InspectionDiagnostics = {} \/ (Clean(new) /\ RevisionDrift(predecessor, successor) = {})))
    => \A m \in predecessor.members : \E f \in new.records : Member(f) = m

(* ADR 0014: a revision that says nothing of the old specification leaves  *)
(* its resolution as it was, so that while nothing of the new one is       *)
(* acceptable one can recover to exactly what was acceptable before.       *)
Silent(doc, specification) ==
  /\ doc.address.kind = "realization" => doc.specification # specification
  /\ doc.address.kind = "claim"       => doc.governing # specification
  /\ doc.address.kind = "evidence"    => doc.specification # specification

RecoveryIsPredecessors ==
  (/\ Inspected
   /\ InspectionDiagnostics = {}
   /\ ResolutionDiagnostics(old, OldSelection) = {}
   /\ \A d \in Docs(new) \ Docs(old) : Silent(d, OldSelection.specification))
  => RecoveryCandidates = IF Acceptable(new, NewSelection) = {}
                          THEN Acceptable(old, OldSelection) ELSE {}

=============================================================================
