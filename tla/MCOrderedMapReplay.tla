-------------------------- MODULE MCOrderedMapReplay --------------------------
(* One declaration of each required concern, and everything the four       *)
(* commands read: 37 records, each with other contents it may come to      *)
(* have, on 37 paths and two that are free.                                *)
EXTENDS OrderedMapReplay, SequencesExt, TLC

MCDeclarationConcern ==
  ("put" :> "law.conformance") @@ ("persistence" :> "resource.persistence")
    @@ ("ordered-map-effects" :> "effect.conformance")

Laws(v) == IF v = "0.1.0" THEN {"put"} ELSE {"put", "size-put"}

SpecDoc(v) ==
  [address |-> Ref("specification", "ordered-map", v), imports |-> {},
   laws |-> Laws(v), resources |-> {"persistence"}, effects |-> {"ordered-map-effects"}, performance |-> {},
   forbidden |-> {"io.*"}, otherEvents |-> {}]

ProfileDoc(a) == [address |-> a]

(* A package at each version: its profile and what its campaign bound.     *)
ProfileAt(package, v) == IF v = "0.1.0" THEN AsciiFold ELSE package.profile

RealDoc(p, package, v) ==
  [address |-> RealizationOf(p, v), specification |-> Specification,
   profiles |-> {ProfileAt(package, v)}, adapter |-> package.adapter]

ClaimDoc(p, package, d, v) ==
  [address |-> ClaimOf(p, d, v), subject |-> RealizationOf(p, v), governing |-> Specification,
   concern |-> DeclarationConcern[d], propositionSpec |-> Specification, declaration |-> d,
   profiles |-> {ProfileAt(package, v)}, state |-> "active"]

EvidenceDoc(p, package, d, v) ==
  [address |-> EvidenceOf(p, d, v), claim |-> ClaimOf(p, d, v), specification |-> Specification,
   scope |-> "realization", realization |-> RealizationOf(p, v), adapter |-> package.adapter,
   mechanism |-> Campaign, result |-> "supports", review |-> "accepted",
   profiles |-> {ProfileAt(package, v)}, observed |-> d,
   plan |-> IF v = "0.1.0" THEN AcceptedPlan ELSE package.plan,
   binding |-> package.binding, report |-> package.report]

PolicyDoc(a, spec, profile) ==
  [address |-> a, specification |-> spec, profile |-> profile, concerns |-> ExpectedConcerns,
   prohibitions |-> {[specification |-> spec, declaration |-> "ordered-map-effects",
                      pattern |-> "io.*", scopes |-> {TraceScope}]}]

Ordered == <<"put", "persistence", "ordered-map-effects">>

OfPackage(p, package, v) ==
  <<RealDoc(p, package, v)>> \o [i \in 1 .. 3 |-> ClaimDoc(p, package, Ordered[i], v)]
                            \o [i \in 1 .. 3 |-> EvidenceDoc(p, package, Ordered[i], v)]

(* By source: theory 1-2, rust 3-9, typescript 10-16, consumer 17,         *)
(* successor theory 18 and consumer 19, profiles 20-21, rust 22-28,        *)
(* typescript 29-35, consumers 36-37.                                      *)
With(packages) ==
  <<ProfileDoc(AsciiFold), SpecDoc("0.1.0")>>
    \o packages[1]
    \o <<PolicyDoc(BoundedPolicy("0.1.0"), Specification, AsciiFold),
         SpecDoc("0.2.0"), PolicyDoc(BoundedPolicy("0.2.0"), Successor, AsciiFold),
         ProfileDoc(DenoSandbox), ProfileDoc(NativeProcess)>>
    \o packages[2]
    \o <<PolicyDoc(DenoPolicy, Specification, DenoSandbox), PolicyDoc(NativePolicy, Specification, NativeProcess)>>

ReleasedDocs ==
  With([i \in 1 .. 2 |->
          FlattenSeq([k \in 1 .. 2 |->
            LET p == <<"rust", "typescript">>[k] IN OfPackage(p, Packages[p], <<"0.1.0", "0.2.0">>[i])])])

Size == 37

ASSUME SizeIsOfReleased == Len(ReleasedDocs) = Size

(* Evidence turned against the package p at its version.                   *)
ChallengeTo(p, doc) ==
  LET v == doc.address.version IN
  [doc EXCEPT !.claim = ClaimOf(p, doc.observed, v), !.realization = RealizationOf(p, v),
              !.adapter = Packages[p].adapter, !.result = "challenges"]

(* Other contents of a record: six of evidence, one of the rest.  The      *)
(* fourth of evidence points it at a claim of the rust package under its   *)
(* later profile; the fifth and the sixth at one of the same version, the  *)
(* sixth by a mechanism that no required concern admits.                   *)
Other(doc, n) ==
  CASE doc.address.kind = "evidence" /\ n = 1 -> [doc EXCEPT !.result = "challenges"]
    [] doc.address.kind = "evidence" /\ n = 2 -> [doc EXCEPT !.review = "pending"]
    [] doc.address.kind = "evidence" /\ n = 3 -> [doc EXCEPT !.mechanism = "assertion"]
    [] doc.address.kind = "evidence" /\ n = 4 ->
         [doc EXCEPT !.claim = ClaimOf("rust", doc.observed, "0.2.0"),
                     !.profiles = {NativeProcess}, !.result = "challenges"]
    [] doc.address.kind = "evidence" /\ n = 5 -> ChallengeTo("rust", doc)
    [] doc.address.kind = "evidence" /\ n = 6 -> [ChallengeTo("rust", doc) EXCEPT !.mechanism = "assertion"]
    [] doc.address.kind = "claim" /\ n = 1         -> [doc EXCEPT !.state = "withdrawn"]
    [] doc.address.kind = "realization" /\ n = 1   -> [doc EXCEPT !.adapter = "another"]
    [] doc.address.kind = "specification" /\ n = 1 -> [doc EXCEPT !.laws = @ \cup {"another"}]
    [] doc.address.kind = "consumerPolicy" /\ n = 1 -> [doc EXCEPT !.prohibitions = {}]
    [] OTHER -> doc

Others(i) == IF i \in (7 .. 9) \cup (14 .. 16) \cup (26 .. 28) \cup (33 .. 35) THEN 1 .. 6 ELSE {1}

ASSUME EvidenceHasOthers ==
  \A i \in 1 .. Size : ReleasedDocs[i].address.kind = "evidence" <=> Others(i) = 1 .. 6

(* The digest of contents n of record i. *)
Digest(i, n) == 100 * n + i

MCContent ==
  [x \in UNION {{Digest(i, n) : n \in Others(i) \cup {0}} : i \in 1 .. Size} |->
     Other(ReleasedDocs[x % 100], x \div 100)]

MCVariants ==
  [x \in DOMAIN MCContent |-> {Digest(x % 100, n) : n \in Others(x % 100)} \ {x}]

MCBroken == (901 :> "INPUT_INVALID_JSON") @@ (902 :> "SCHEMA_INVALID")

SourceIs(i) ==
  CASE i \in 1 .. 2   -> "ordered-map-theory"
    [] i \in 3 .. 9   -> "ordered-map-rust"
    [] i \in 10 .. 16 -> "ordered-map-typescript"
    [] i = 17         -> "ordered-map-consumer"
    [] i = 18         -> "ordered-map-successor-theory"
    [] i = 19         -> "ordered-map-successor-consumer"
    [] i \in 20 .. 21 -> "ordered-map-profile-choice-profiles"
    [] i \in 22 .. 28 -> "ordered-map-profile-choice-rust"
    [] i \in 29 .. 35 -> "ordered-map-profile-choice-typescript"
    [] i \in 36 .. 37 -> "ordered-map-profile-choice-consumer"
    [] i = 38         -> "ordered-map-theory"
    [] i = 39         -> "ordered-map-rust"

MCSourceOf == [i \in 1 .. Size + 2 |-> SourceIs(i)]
MCReleasedFiles == [i \in 1 .. Size |-> i]

MCRank == [s \in {SourceIs(i) : i \in 1 .. Size} |-> CHOOSE i \in 1 .. Size : SourceIs(i) = s /\ \A j \in 1 .. i - 1 : SourceIs(j) # s]

RolesOf(s) ==
  CASE s = "ordered-map-theory"                  -> {"theory-authored", "dependency"}
    [] s = "ordered-map-successor-theory"        -> {"theory-authored"}
    [] s = "ordered-map-profile-choice-profiles" -> {"dependency"}
    [] s \in {"ordered-map-consumer", "ordered-map-successor-consumer",
              "ordered-map-profile-choice-consumer"} -> {"package-consumer-authored"}
    [] OTHER                                     -> {"package-authored"}

(* The manifest that lists the first n records, one with a digest given.   *)
Manifest(n, one, given) ==
  LET sources == {SourceIs(i) : i \in 1 .. n} IN
  [sources |-> sources,
   roles   |-> [s \in sources |-> RolesOf(s)],
   members |-> {[source |-> SourceIs(i), address |-> ReleasedDocs[i].address, digest |-> IF i = one THEN given ELSE i] : i \in 1 .. n}]

MCManifests ==
  [x \in {"theory-manifest", "manifest", "challenged-manifest", "successor", "choice"} |->
     Manifest(CASE x = "theory-manifest" -> 2
                [] x = "successor"       -> 19
                [] x = "choice"          -> Size
                [] OTHER                 -> 17,
              5, IF x = "challenged-manifest" THEN Digest(5, 1) ELSE 5)]

Body(syntax, meaning, layout) == [syntax |-> syntax, meaning |-> meaning, layout |-> layout]

Schemas == {"contract-schema", "manifest-schema"}
Pinned == {"theory-contract", "contract", "theory-manifest", "manifest", "successor", "choice"}

MCReleased ==
  [a \in Pinned \cup Schemas |->
     Body("json", IF a \in Schemas THEN "admits" ELSE a, "as-released")]

MCContracts ==
  [c \in {"theory-contract", "contract", "another-contract"} |->
     CASE c = "theory-contract"  -> RawDigest(MCReleased["theory-manifest"])
       [] c = "contract"         -> RawDigest(MCReleased["manifest"])
       [] c = "another-contract" -> <<"challenged-manifest", "as-released">>]

(* The same said otherwise, another saying, and what cannot be read.       *)
MCBodyEdits ==
  [a \in Pinned \cup Schemas |->
     {Body(s, MCReleased[a].meaning, "as-released") :
        s \in {"malformed", "duplicate-member", "nested", "not-utf8", "too-large"}}
       \cup {Body("json", MCReleased[a].meaning, "indented")}
       \cup {Body("json", m, "as-released") :
               m \in CASE a \in Schemas -> {"rejects", "no-schema"}
                       [] a \in {"theory-contract", "contract"} -> {"another-contract"}
                       [] OTHER -> {"challenged-manifest"}}]

MCSuccessorRecords ==
  (Successor :> [source |-> "ordered-map-successor-theory", digest |-> 18])
    @@ (BoundedPolicy("0.2.0") :> [source |-> "ordered-map-successor-consumer", digest |-> 19])

MCEditBudget == [c \in Commands |-> IF c \in {"theory"} THEN 2 ELSE 1]
=============================================================================
