------------------------ MODULE OrderedMapReplayProofs ------------------------
(***************************************************************************)
(* What OrderedMapReplay is proved to do, for every repository that its    *)
(* own commands accept, any other contents of its files and any number of  *)
(* edits and controls.                                                     *)
(***************************************************************************)
EXTENDS OrderedMapReplay, ProofLemmas, FiniteSetTheorems

(* How many contracts a command reads before its manifests.                *)
Contracted(c) == IF Stages[c][1].kind = "contract" THEN 1 ELSE 0

(* The manifest of each graph a command captures, and how many it has      *)
(* captured before a stage.                                                *)
NameOf(c, i)  == Stages[c][i + Contracted(c)].name
Before(c, k)  == IF k = 1 THEN 0 ELSE k - 1 - Contracted(c)
Captures(c)   == Len(Stages[c]) - Contracted(c)

Underway  == pc \notin {"decide", "done"}
Observing == pc \in {"list", "read"}
Decoding  == pc \in {"look-schema", "open-schema"}

(* A sequence of whatever. *)
IsSequence(s) == \E S : s \in Seq(S)

(* Where the command is. *)
Position ==
  /\ command \in Commands
  /\ stage \in DOMAIN Stages[command]
  /\ pc \in {"look", "open", "look-schema", "open-schema", "list", "read", "decide", "done"}
  /\ edits \in Nat /\ controls \in Nat
  /\ IsSequence(graphs)
  /\ Underway => Len(graphs) = Before(command, stage)
  /\ pc = "decide" \/ Decided => Len(graphs) = Captures(command)

(* What it goes by is what the pins stand for.                             *)
Authorised ==
  /\ stage > 1 /\ Contracted(command) = 1 => contract = Bodies[Stages[command][1].name].meaning
  /\ Observing => Current.kind # "contract" /\ authority = PinnedManifest(Current.name)

(* No address stands for two documents.                                    *)
OneEach(docs) == \A a, b \in docs : AddressOf(a) = AddressOf(b) => a = b

(* The records of a graph are known, and unless a command looks for two of *)
(* one address it has one of each.                                         *)
Known(graph) == \A f \in graph.records : f.digest \in DOMAIN Content

Sound(c, graph) == Known(graph) /\ (c # "profiles" => OneEach(Docs(graph)))

(* What it has captured is what they list, and a control leaves it sound.  *)
Captured ==
  /\ controls = 0 => \A i \in DOMAIN graphs : Members(graphs[i]) = PinnedManifest(NameOf(command, i)).members
  /\ \A i \in DOMAIN graphs : Sound(command, graphs[i])

(* It decides by that, and only if nothing is wrong with it.               *)
DecidedSo ==
  Decided => /\ DecisionProblems(command, graphs) = {}
             /\ report.decision = Decision(command, graphs)

(* There are only so many records.                                         *)
HasFinitelyMany(graph) == "records" \in DOMAIN graph /\ IsFiniteSet(graph.records)

Finite ==
  /\ pc = "read" => IsFiniteSet(found)
  /\ \A i \in DOMAIN graphs : HasFinitelyMany(graphs[i])

(* While nothing is edited it finds what is there.                         *)
PathsOf(sources) == {p \in DOMAIN AtRelease : Home[p] \in sources}

RecordAt(p) == [source |-> Home[p], path |-> p, digest |-> AtRelease[p]]

Undisturbed ==
  edits = 0 =>
    /\ disk = ReleasedDisk
    /\ Decoding => text = Bodies[Current.name]
    /\ Observing => faults = {}
    /\ pc = "list" => /\ todo # {} /\ todo \subseteq authority.sources
                      /\ found = PathsOf(authority.sources \ todo)
    /\ pc = "read" => /\ todo \subseteq PathsOf(authority.sources)
                      /\ found = {RecordAt(p) : p \in PathsOf(authority.sources) \ todo}
    /\ controls = 0 => \A i \in DOMAIN graphs : graphs[i] = GraphAtRelease(NameOf(command, i))
    /\ controls = 0 /\ pc = "done" => report.problems = {}

IInv == Position /\ Authorised /\ Captured /\ DecidedSo /\ Finite /\ Undisturbed

-----------------------------------------------------------------------------
(* The stages of the commands. *)

(* There are four commands, of one to three stages.                        *)
LEMMA FourCommands ==
  /\ Commands = {"theory", "inspect", "maintenance", "profiles"}
  /\ Stages["theory"] = <<[kind |-> "contract", name |-> "theory-contract"],
                          [kind |-> "named", name |-> "theory-manifest"]>>
  /\ Stages["inspect"] = <<[kind |-> "contract", name |-> "contract"],
                           [kind |-> "named", name |-> "manifest"]>>
  /\ Stages["maintenance"] = <<[kind |-> "contract", name |-> "contract"],
                               [kind |-> "named", name |-> "manifest"],
                               [kind |-> "pinned", name |-> "successor"]>>
  /\ Stages["profiles"] = <<[kind |-> "pinned", name |-> "choice"]>>
BY DEF Commands, Stages

(* A contract comes first, and the manifest it names after it.             *)
LEMMA StageKinds ==
  ASSUME NEW c \in Commands, NEW k \in DOMAIN Stages[c]
  PROVE  /\ Len(Stages[c]) \in Nat /\ DOMAIN Stages[c] = 1 .. Len(Stages[c])
         /\ 1 \in DOMAIN Stages[c]
         /\ Contracted(c) \in {0, 1}
         /\ Stages[c][k].kind \in {"contract", "named", "pinned"}
         /\ Stages[c][k].kind = "contract" => k = 1 /\ Contracted(c) = 1 /\ 2 \in DOMAIN Stages[c]
         /\ Stages[c][k].kind = "named" => k = 2 /\ Stages[c][1].kind = "contract"
         /\ Stages[c][k].kind # "contract" => Stages[c][k].name \in PinnedManifests
         /\ k = 1 /\ Stages[c][k].kind # "contract" => Contracted(c) = 0
<1>1. CASE c = "theory"
    BY <1>1, FourCommands DEF Contracted, PinnedManifests
<1>2. CASE c = "inspect"
    BY <1>2, FourCommands DEF Contracted, PinnedManifests
<1>3. CASE c = "maintenance"
    BY <1>3, FourCommands DEF Contracted, PinnedManifests
<1>4. CASE c = "profiles"
    BY <1>4, FourCommands DEF Contracted, PinnedManifests
<1> QED BY <1>1, <1>2, <1>3, <1>4, FourCommands

(* A stage that is no contract's captures the next graph.                  *)
LEMMA StageCaptures ==
  ASSUME NEW c \in Commands, NEW k \in DOMAIN Stages[c]
  PROVE  /\ Before(c, k) \in Nat
         /\ Stages[c][k].kind = "contract" => Before(c, k) = 0 /\ Before(c, k + 1) = 0
         /\ Stages[c][k].kind # "contract" =>
              /\ NameOf(c, Before(c, k) + 1) = Stages[c][k].name
              /\ Before(c, k + 1) = Before(c, k) + 1
              /\ k = Len(Stages[c]) => Captures(c) = Before(c, k) + 1
<1>1. /\ k \in Nat /\ k >= 1 /\ Contracted(c) \in {0, 1} /\ Len(Stages[c]) \in Nat
      /\ Stages[c][k].kind = "contract" => k = 1 /\ Contracted(c) = 1
      /\ k = 1 /\ Stages[c][k].kind # "contract" => Contracted(c) = 0
    BY StageKinds
<1> DEFINE o == Contracted(c)
           l == Len(Stages[c])
<1>2. /\ Before(c, k) = IF k = 1 THEN 0 ELSE k - 1 - o
      /\ Before(c, k + 1) = k - o
      /\ Captures(c) = l - o
    BY <1>1 DEF Before, Captures
<1>3. \A i : NameOf(c, i) = Stages[c][i + o].name
    BY DEF NameOf
<1>4. /\ o \in {0, 1} /\ l \in Nat
      /\ Stages[c][k].kind = "contract" => k = 1 /\ o = 1
      /\ k = 1 /\ Stages[c][k].kind # "contract" => o = 0
    BY <1>1
<1> HIDE DEF o, l
<1>5. Before(c, k) \in Nat
    BY <1>1, <1>2, <1>4
<1>6. Stages[c][k].kind # "contract" => Before(c, k) + 1 + o = k
    BY <1>1, <1>2, <1>4
<1>7. Stages[c][k].kind # "contract" => NameOf(c, Before(c, k) + 1) = Stages[c][k].name
    BY <1>3, <1>6
<1>8. Stages[c][k].kind # "contract" =>
        Before(c, k + 1) = Before(c, k) + 1 /\ (k = l => Captures(c) = Before(c, k) + 1)
    BY <1>1, <1>2, <1>4
<1>9. Stages[c][k].kind = "contract" => Before(c, k) = 0 /\ Before(c, k + 1) = 0
    BY <1>1, <1>2, <1>4
<1> QED BY <1>5, <1>7, <1>8, <1>9 DEF l

(* The graphs at release are those of the manifests of the stages.         *)
LEMMA GraphsOfStages ==
  ASSUME NEW c \in Commands
  PROVE  /\ Captures(c) \in Nat
         /\ GraphsAtRelease[c] = [i \in 1 .. Captures(c) |-> GraphAtRelease(NameOf(c, i))]
         /\ \A i \in 1 .. Captures(c) : NameOf(c, i) \in PinnedManifests
<1>1. CASE c = "theory"
  <2>1. Captures(c) = 1 /\ NameOf(c, 1) = "theory-manifest"
      BY <1>1, FourCommands DEF Captures, Contracted, NameOf
  <2> QED BY <1>1, <2>1 DEF GraphsAtRelease, PinnedManifests
<1>2. CASE c = "inspect"
  <2>1. Captures(c) = 1 /\ NameOf(c, 1) = "manifest"
      BY <1>2, FourCommands DEF Captures, Contracted, NameOf
  <2> QED BY <1>2, <2>1 DEF GraphsAtRelease, PinnedManifests
<1>3. CASE c = "maintenance"
  <2>1. Captures(c) = 2 /\ NameOf(c, 1) = "manifest" /\ NameOf(c, 2) = "successor"
      BY <1>3, FourCommands DEF Captures, Contracted, NameOf
  <2> QED BY <1>3, <2>1 DEF GraphsAtRelease, PinnedManifests
<1>4. CASE c = "profiles"
  <2>1. Captures(c) = 1 /\ NameOf(c, 1) = "choice"
      BY <1>4, FourCommands DEF Captures, Contracted, NameOf
  <2> QED BY <1>4, <2>1 DEF GraphsAtRelease, PinnedManifests
<1> QED BY <1>1, <1>2, <1>3, <1>4, FourCommands

(* The files a stage reads are among those the command is to find.         *)
LEMMA StageNames ==
  ASSUME NEW c \in Commands, NEW k \in DOMAIN Stages[c]
  PROVE  Stages[c][k].name \in Names[c] /\ SchemaOf(Stages[c][k]) \in Names[c]
BY DEF Names

-----------------------------------------------------------------------------
(* What a pin and a manifest hold a command to. *)

(* The operators of constants are the constants.                           *)
LEMMA Same ==
  /\ \A a \in DOMAIN Released : Bodies[a] = Released[a]
  /\ \A x \in DOMAIN Manifests : Authority[x] = Manifests[x]
  /\ \A p \in DOMAIN SourceOf : Home[p] = SourceOf[p]
  /\ \A p \in DOMAIN ReleasedFiles : AtRelease[p] = ReleasedFiles[p]
  /\ DOMAIN Bodies = DOMAIN Released /\ DOMAIN Authority = DOMAIN Manifests
  /\ DOMAIN Home = DOMAIN SourceOf /\ DOMAIN AtRelease = DOMAIN ReleasedFiles
BY DEF Bodies, Authority, Home, AtRelease

(* What passes a pin of either kind has its digest.                        *)
LEMMA PinHolds ==
  ASSUME NEW body, NEW schema, NEW pin, DecodeProblems(body, schema, pin) = {}
  PROVE  /\ pin.kind = "canonical" => CanonicalDigest(body) = pin.digest
         /\ pin.kind = "raw" => RawDigest(body) = pin.digest
<1>1. ParseProblems(body) = {} /\ ParseProblems(schema) = {}
    BY DEF DecodeProblems
<1> QED BY <1>1 DEF DecodeProblems

(* The digest of its bytes tells what a file means.                        *)
LEMMA RawMeaning ==
  ASSUME NEW a, NEW b, RawDigest(a) = RawDigest(b)
  PROVE  a.meaning = b.meaning
BY DEF RawDigest

(* The pin of a file is the released one, if the contract is.              *)
LEMMA PinAtRelease ==
  ASSUME Position, Authorised
  PROVE  \/ Pin = [kind |-> "canonical", digest |-> CanonicalDigest(Bodies[Current.name])]
         \/ /\ Current.kind # "contract"
            /\ Pin = [kind |-> "raw", digest |-> RawDigest(Bodies[Current.name])]
<1>1. command \in Commands /\ stage \in DOMAIN Stages[command]
    BY DEF Position
<1>2. Current.kind \in {"contract", "named", "pinned"}
    BY <1>1, StageKinds DEF Current
<1>3. CASE Current.kind = "contract"
    BY <1>3 DEF Pin
<1>4. CASE Current.kind = "named"
  <2>1. Pin = [kind |-> "raw", digest |-> Contracts[contract]]
      BY <1>4 DEF Pin
  <2>2. stage = 2 /\ Stages[command][1].kind = "contract"
      BY <1>1, <1>4, StageKinds DEF Current
  <2>3. contract = Bodies[Stages[command][1].name].meaning
      BY <2>2 DEF Authorised, Contracted
  <2>4. /\ Stages[command][1].name \in DOMAIN Released
        /\ Stages[command][2].name \in DOMAIN Released
    <3>1. 1 \in DOMAIN Stages[command] /\ 2 \in DOMAIN Stages[command]
        BY <1>1, <2>2, StageKinds
    <3>2. Stages[command][1].name \in Names[command] /\ Stages[command][2].name \in Names[command]
        BY <1>1, <3>1, StageNames
    <3> QED BY <1>1, <3>2, ReleaseAssumption DEF ReleasedBodies
  <2>5. Contracts[contract] = RawDigest(Bodies[Current.name])
      BY <1>1, <2>2, <2>3, <2>4, Same, ReleaseAssumption DEF ReleasedContracts, Current
  <2> QED BY <1>4, <2>1, <2>5
<1>5. CASE Current.kind = "pinned"
    BY <1>5 DEF Pin
<1> QED BY <1>2, <1>3, <1>4, <1>5

(* What passes it says what the pinned file says.                          *)
LEMMA PinnedText ==
  ASSUME Position, Authorised, NEW schema, DecodeProblems(text, schema, Pin) = {}
  PROVE  text.meaning = Bodies[Current.name].meaning
<1>1. CASE Pin = [kind |-> "canonical", digest |-> CanonicalDigest(Bodies[Current.name])]
    BY <1>1, PinHolds DEF CanonicalDigest
<1>2. CASE Pin = [kind |-> "raw", digest |-> RawDigest(Bodies[Current.name])]
    BY <1>2, PinHolds, RawMeaning
<1> QED BY <1>1, <1>2, PinAtRelease

(* The pinned file passes it.                                              *)
LEMMA ReleaseDecodes ==
  ASSUME Position, Authorised
  PROVE  DecodeProblems(Bodies[Current.name], Bodies[SchemaOf(Current)], Pin) = {}
<1> DEFINE body == Bodies[Current.name]
           schema == Bodies[SchemaOf(Current)]
<1>1. command \in Commands /\ Current.name \in Names[command] /\ SchemaOf(Current) \in Names[command]
    BY StageNames DEF Position, Current
<1>2. ParseProblems(body) = {} /\ ParseProblems(schema) = {}
    BY <1>1, Same, ReleaseAssumption DEF ReleasedBodies
<1>3. schema.meaning \notin {"no-schema", "rejects"}
  <2>1. SchemaOf(Current) \in {"contract-schema", "manifest-schema"}
      BY DEF SchemaOf
  <2>2. SchemaOf(Current) \in DOMAIN Released
      BY <1>1, ReleaseAssumption DEF ReleasedBodies
  <2> QED BY <2>1, <2>2, Same, ReleaseAssumption DEF ReleasedBodies
<1>4. /\ Pin.kind = "canonical" => Pin.digest = CanonicalDigest(body)
      /\ Pin.kind = "raw" => Pin.digest = RawDigest(body)
    BY PinAtRelease
<1> HIDE DEF body, schema
<1>5. DecodeProblems(body, schema, Pin) = {}
    BY <1>2, <1>3, <1>4 DEF DecodeProblems
<1> QED BY <1>5 DEF body, schema

(* Records of which nothing is said in the end are those the manifest      *)
(* lists, each in its source and with its digest.                          *)
LEMMA MembersListed ==
  ASSUME NEW files, NEW m, ManifestDiagnostics(m) = {}, MembershipDiagnostics(files, m.members) = {}
  PROVE  {Member(f) : f \in files} = m.members
<1> DEFINE Key(x) == <<x.source, x.address>>
<1>1. \A x \in m.members : \E f \in files : Key(Member(f)) = Key(x)
  <2>1. {Key(x) : x \in m.members} \ {Key(Member(f)) : f \in files} = {}
      BY DEF MembershipDiagnostics
  <2> QED BY <2>1
<1>2. \A f \in files : Key(Member(f)) \in {Key(x) : x \in m.members}
    BY DEF MembershipDiagnostics
<1>3. \A f \in files : Key(Member(f)) \in {Key(x) : x \in m.members} => Member(f) \in m.members
    BY DEF MembershipDiagnostics
<1>4. \A x, y \in m.members : x.address = y.address => x = y
    BY DEF ManifestDiagnostics
<1>5. ASSUME NEW x \in m.members PROVE \E f \in files : Member(f) = x
  <2>1. PICK f \in files : Key(Member(f)) = Key(x)
      BY <1>1
  <2>2. Member(f) \in m.members
      BY <1>2, <1>3
  <2>3. Member(f).address = x.address
      BY <2>1
  <2> QED BY <1>4, <2>2, <2>3
<1> QED BY <1>2, <1>3, <1>5

(* So a graph that is captured without a word holds what is listed.        *)
LEMMA CapturedListed ==
  ASSUME NEW m, NEW files, NEW problems, Clean(CapturedGraph(m, files, problems))
  PROVE  Members(CapturedGraph(m, files, problems)) = m.members
<1>1. problems = {}
  <2>1. SUFFICES ASSUME problems # {} PROVE FALSE
      OBVIOUS
  <2>2. CapturedGraph(m, files, problems).diagnostics = {[code |-> c, path |-> 0] : c \in problems}
      BY <2>1 DEF CapturedGraph
  <2> QED BY <2>1, <2>2 DEF Clean
<1> DEFINE g == Observation(m, files)
           read == {f \in files : f.source \in m.sources}
<1>2. CapturedGraph(m, files, problems) = g
    BY <1>1 DEF CapturedGraph
<1>3. g.diagnostics = {}
    BY <1>2 DEF Clean
<1>4. ManifestDiagnostics(m) = {}
    BY <1>3 DEF Observation
<1>5. g = [records |-> read,
           diagnostics |-> IF CheckGraph(read) # {} THEN CheckGraph(read)
                           ELSE MembershipDiagnostics(read, m.members)]
    BY <1>4 DEF Observation
<1>6. g.records = read /\ MembershipDiagnostics(read, m.members) = {}
    BY <1>3, <1>5
<1> HIDE DEF g, read
<1> QED BY <1>2, <1>4, <1>6, MembersListed DEF Members

(* Of a graph something is said of, the command has something to say.      *)
LEMMA CaptureClean ==
  ASSUME NEW graph, NEW m, CaptureProblems(graph, m) = {}
  PROVE  Clean(graph)
<1>1. Codes(graph.diagnostics) = {} => graph.diagnostics = {}
    BY DEF Codes
<1> QED BY <1>1 DEF CaptureProblems, TheoryProblems, ProductProblems, Clean

(* What is decided depends on nothing but the members.                     *)
LEMMA DocsOfMembers ==
  ASSUME NEW g, NEW h, Members(g) = Members(h)
  PROVE  Docs(g) = Docs(h)
<1>1. ASSUME NEW a, NEW b, Members(a) = Members(b) PROVE Docs(a) \subseteq Docs(b)
  <2>1. ASSUME NEW f \in a.records PROVE \E e \in b.records : DocOf(e) = DocOf(f)
    <3>1. PICK e \in b.records : Member(e) = Member(f)
        BY <1>1 DEF Members
    <3>2. e.digest = f.digest
        BY <3>1 DEF Member
    <3> QED BY <3>2 DEF DocOf
  <2> QED BY <2>1 DEF Docs
<1> QED BY <1>1

(* A graph with the members a pinned manifest lists has one of each        *)
(* address, and they are the records of the release.                       *)
LEMMA ListedSound ==
  ASSUME NEW name \in PinnedManifests, NEW g, Members(g) = PinnedManifest(name).members
  PROVE  Known(g) /\ OneEach(Docs(g))
<1> DEFINE m == PinnedManifest(name)
           r == GraphAtRelease(name)
<1>1. ManifestDiagnostics(m) = {} /\ m.members = Members(r)
    BY ReleaseAssumption DEF ReleasedManifests
<1>2. \A x, y \in m.members : x.address = y.address => x = y
    BY <1>1 DEF ManifestDiagnostics
<1>3. \A h \in r.records : h.digest \in DOMAIN Content
  <2>1. \A q \in DOMAIN AtRelease : AtRelease[q] \in DOMAIN Content
      BY Same, ReleaseAssumption DEF ReleasedPaths
  <2> QED BY <2>1 DEF GraphAtRelease
<1> HIDE DEF m, r
<1>4. Known(g)
  <2>1. SUFFICES ASSUME NEW f \in g.records PROVE f.digest \in DOMAIN Content
      BY DEF Known
  <2>2. Member(f) \in Members(r)
      BY <1>1 DEF Members, m
  <2>3. PICK h \in r.records : Member(h) = Member(f)
      BY <2>2 DEF Members
  <2>4. h.digest = f.digest
      BY <2>3 DEF Member
  <2> QED BY <1>3, <2>4
<1>5. ASSUME NEW a \in Docs(g), NEW b \in Docs(g), AddressOf(a) = AddressOf(b)
      PROVE  a = b
  <2>1. PICK f \in g.records : DocOf(f) = a
      BY DEF Docs
  <2>2. PICK h \in g.records : DocOf(h) = b
      BY DEF Docs
  <2>3. Member(f) \in m.members /\ Member(h) \in m.members
      BY DEF Members, m
  <2>4. Member(f).address = Member(h).address
      BY <1>5, <2>1, <2>2 DEF Member
  <2>5. Member(f) = Member(h)
      BY <1>2, <2>3, <2>4
  <2>6. f.digest = h.digest
      BY <2>5 DEF Member
  <2> QED BY <2>1, <2>2, <2>6 DEF DocOf
<1> QED BY <1>4, <1>5 DEF OneEach

-----------------------------------------------------------------------------
(* The steps that look for and open the pinned files. *)

(* While nothing is edited, a pinned file can be looked at and opened.     *)
LEMMA FileAtRelease ==
  ASSUME Position, Undisturbed, edits = 0, NEW a \in Names[command]
  PROVE  /\ disk.artifacts[a] = [type |-> "file", body |-> Bodies[a]]
         /\ LexicalProblems(disk.artifacts[a]) = {}
         /\ OpenProblems(disk.artifacts[a]) = {}
<1>1. /\ a \in DOMAIN Released
      /\ Released[a].syntax \notin {"too-large", "not-utf8"}
    BY ReleaseAssumption DEF ReleasedBodies, Position
<1>2. disk.artifacts[a] = [type |-> "file", body |-> Bodies[a]]
    BY <1>1, Same DEF Undisturbed, ReleasedDisk
<1>3. Bodies[a].syntax \notin {"too-large", "not-utf8"}
    BY <1>1, Same
<1>4. LexicalProblems(disk.artifacts[a]) = {}
    BY <1>2 DEF LexicalProblems
<1>5. OpenProblems(disk.artifacts[a]) = {}
    BY <1>2, <1>3 DEF OpenProblems
<1> QED BY <1>2, <1>4, <1>5

(* What a stage looks for is one of its files.                             *)
LEMMA WantedName ==
  ASSUME Position
  PROVE  Wanted \in Names[command]
<1>1. Current.name \in Names[command] /\ SchemaOf(Current) \in Names[command]
    BY StageNames DEF Position, Current
<1> QED BY <1>1 DEF Wanted

(* A refusal is for something that was edited.                             *)
LEMMA RefuseKeeps ==
  ASSUME IInv, NEW problems, problems # {}, edits # 0, Refuse(problems),
         UNCHANGED <<external, command, stage, contract, graphs>>
  PROVE  IInv'
<1>1. pc' = "done" /\ report'.problems # {}
    BY DEF Refuse
<1>2. UNCHANGED <<disk, edits, controls, command, stage, contract, graphs>>
    BY DEF external
<1>3. ~Decided' /\ ~Underway' /\ ~Observing' /\ pc' # "decide"
    BY <1>1 DEF Decided, Underway, Observing
<1>4. Position'
    BY <1>1, <1>2, <1>3 DEF IInv, Position
<1>5. Authorised'
    BY <1>2, <1>3 DEF IInv, Authorised
<1>6. Captured'
    BY <1>2 DEF IInv, Captured
<1>7. DecidedSo' /\ Finite'
    BY <1>1, <1>2, <1>3 DEF IInv, DecidedSo, Finite
<1>8. Undisturbed'
    BY <1>2 DEF Undisturbed
<1> QED BY <1>4, <1>5, <1>6, <1>7, <1>8 DEF IInv

(* A step to another file of the same stage keeps what is known.           *)
LEMMA StageKeeps ==
  ASSUME IInv, Underway, pc' \in {"look", "open", "look-schema", "open-schema"},
         UNCHANGED <<external, command, stage, contract, graphs>>,
         edits = 0 /\ Decoding' => text' = Bodies[Current.name]
  PROVE  IInv'
<1>1. UNCHANGED <<disk, edits, controls, command, stage, contract, graphs>> /\ Current' = Current
    BY DEF external, Current
<1>2. ~Decided' /\ Underway' /\ ~Observing' /\ pc' \notin {"decide", "done", "list", "read"}
    BY DEF Decided, Underway, Observing
<1>3. Position'
    BY <1>1, <1>2 DEF IInv, Position
<1>4. Authorised'
    BY <1>1, <1>2 DEF IInv, Authorised
<1>5. Captured'
    BY <1>1 DEF IInv, Captured
<1>6. DecidedSo' /\ Finite'
    BY <1>1, <1>2 DEF IInv, DecidedSo, Finite
<1>7. Undisturbed'
    BY <1>1, <1>2 DEF IInv, Undisturbed
<1> QED BY <1>3, <1>4, <1>5, <1>6, <1>7 DEF IInv

(* A file is looked at.                                                    *)
LEMMA LookKeeps ==
  ASSUME IInv, Look
  PROVE  IInv'
<1> DEFINE problems == LexicalProblems(disk.artifacts[Wanted])
<1>1. /\ pc \in {"look", "look-schema"}
      /\ UNCHANGED <<external, command, stage, text, contract, graphs>>
    BY DEF Look
<1>2. CASE problems # {}
  <2>1. Refuse(problems)
      BY <1>2 DEF Look
  <2>2. edits # 0
      BY <1>2, WantedName, FileAtRelease DEF IInv
  <2> QED BY <1>1, <1>2, <2>1, <2>2, RefuseKeeps
<1>3. CASE problems = {}
  <2>1. pc' = IF pc = "look" THEN "open" ELSE "open-schema"
      BY <1>3 DEF Look
  <2>2. Decoding' => Decoding
      BY <1>1, <2>1 DEF Decoding
  <2>3. edits = 0 /\ Decoding' => text' = Bodies[Current.name]
      BY <1>1, <2>2 DEF IInv, Undisturbed
  <2> QED BY <1>1, <2>1, <2>3, StageKeeps DEF Underway
<1> QED BY <1>2, <1>3

(* A pinned file is opened.                                                *)
LEMMA OpenKeeps ==
  ASSUME IInv, Open
  PROVE  IInv'
<1> DEFINE entry == disk.artifacts[Wanted]
<1>1. pc = "open" /\ UNCHANGED <<external, command, stage, contract, graphs>>
    BY DEF Open
<1>2. edits = 0 => OpenProblems(entry) = {} /\ entry.body = Bodies[Current.name]
  <2>1. Wanted = Current.name
      BY <1>1 DEF Wanted
  <2>2. Position /\ Undisturbed /\ Wanted \in Names[command]
      BY WantedName DEF IInv
  <2>3. edits = 0 => entry = [type |-> "file", body |-> Bodies[Wanted]] /\ OpenProblems(entry) = {}
      BY <2>2, FileAtRelease
  <2> QED BY <2>1, <2>3
<1>3. CASE OpenProblems(entry) # {}
  <2>1. Refuse(OpenProblems(entry))
      BY <1>3 DEF Open
  <2> QED BY <1>1, <1>2, <1>3, <2>1, RefuseKeeps
<1>4. CASE OpenProblems(entry) = {}
  <2>1. pc' = "look-schema" /\ text' = entry.body
      BY <1>4 DEF Open
  <2> QED BY <1>1, <1>2, <2>1, StageKeeps DEF Underway
<1> QED BY <1>3, <1>4

(* The manifest of a stage is one that is pinned, and whole.               *)
LEMMA PinnedWhole ==
  ASSUME Position, Current.kind # "contract"
  PROVE  /\ Current.name \in PinnedManifests
         /\ ManifestDiagnostics(PinnedManifest(Current.name)) = {}
<1>1. Current.name \in PinnedManifests
    BY StageKinds DEF Position, Current
<1> QED BY <1>1, ReleaseAssumption DEF ReleasedManifests

(* The schema of a contract or a manifest is opened, and both are decoded. *)
LEMMA OpenSchemaKeeps ==
  ASSUME IInv, OpenSchema
  PROVE  IInv'
<1> DEFINE entry == disk.artifacts[Wanted]
           problems == IF OpenProblems(entry) # {} THEN OpenProblems(entry)
                       ELSE DecodeProblems(text, entry.body, Pin)
           m == Authority[text.meaning]
<1>1. pc = "open-schema" /\ UNCHANGED <<external, command, graphs>>
    BY DEF OpenSchema
<1>2. /\ UNCHANGED <<disk, edits, controls, command, graphs>>
      /\ Underway
    BY <1>1 DEF external, Underway
<1>3. CASE problems # {}
  <2>1. Refuse(problems) /\ UNCHANGED <<stage, contract>>
      BY <1>3 DEF OpenSchema
  <2>2. ASSUME edits = 0 PROVE FALSE
    <3>1. Wanted = SchemaOf(Current) /\ Wanted \in Names[command]
        BY <1>1, WantedName DEF Wanted, IInv
    <3>2. entry = [type |-> "file", body |-> Bodies[Wanted]] /\ OpenProblems(entry) = {}
        BY <2>2, <3>1, FileAtRelease DEF IInv
    <3>3. text = Bodies[Current.name]
        BY <1>1, <2>2 DEF IInv, Undisturbed, Decoding
    <3>4. DecodeProblems(text, entry.body, Pin) = {}
        BY <3>1, <3>2, <3>3, ReleaseDecodes DEF IInv
    <3> QED BY <1>3, <3>2, <3>4
  <2> HIDE DEF problems
  <2>3. edits # 0
      BY <2>2
  <2> QED BY <1>1, <1>3, <2>1, <2>3, RefuseKeeps
<1>4. ASSUME problems = {} PROVE text.meaning = Bodies[Current.name].meaning
    BY <1>4, PinnedText DEF IInv
<1>5. CASE problems = {} /\ Current.kind = "contract"
  <2>1. contract' = text.meaning /\ stage' = stage + 1 /\ pc' = "look"
      BY <1>5 DEF OpenSchema
  <2>2. /\ command \in Commands /\ stage \in DOMAIN Stages[command]
        /\ stage = 1 /\ stage + 1 \in DOMAIN Stages[command]
      BY <1>5, StageKinds DEF IInv, Position, Current
  <2>3. Before(command, stage) = Before(command, stage + 1)
      BY <1>5, <2>2, StageCaptures DEF Current
  <2>4. Underway' /\ ~Observing' /\ ~Decoding' /\ ~Decided' /\ pc' \notin {"decide", "done", "list", "read"}
      BY <2>1 DEF Underway, Observing, Decoding, Decided
  <2>5. Position'
      BY <1>2, <2>1, <2>2, <2>3, <2>4 DEF IInv, Position
  <2>6. Authorised'
      BY <1>2, <1>4, <1>5, <2>1, <2>2, <2>4 DEF Authorised, Current
  <2>7. Captured' /\ DecidedSo' /\ Finite'
      BY <1>2, <2>4 DEF IInv, Captured, DecidedSo, Finite
  <2>8. Undisturbed'
      BY <1>2, <2>4 DEF IInv, Undisturbed
  <2> QED BY <2>5, <2>6, <2>7, <2>8 DEF IInv
<1>6. CASE problems = {} /\ Current.kind # "contract"
  <2>1. m = PinnedManifest(Current.name) /\ ManifestDiagnostics(m) = {}
      BY <1>4, <1>6, PinnedWhole DEF PinnedManifest, IInv
  <2>2. /\ authority' = m /\ todo' = m.sources /\ found' = {} /\ faults' = {} /\ pc' = "list"
        /\ UNCHANGED <<stage, contract>>
      BY <1>6, <2>1 DEF OpenSchema
  <2>3. Underway' /\ Observing' /\ ~Decoding' /\ ~Decided' /\ pc' \notin {"decide", "done", "read"}
      BY <2>2 DEF Underway, Observing, Decoding, Decided
  <2>4. Current' = Current
      BY <1>2, <2>2 DEF Current
  <2>5. Position'
      BY <1>2, <2>2, <2>3 DEF IInv, Position
  <2>6. Authorised'
      BY <1>2, <1>6, <2>1, <2>2, <2>4 DEF IInv, Authorised
  <2>7. Captured' /\ DecidedSo' /\ Finite'
      BY <1>2, <2>3 DEF IInv, Captured, DecidedSo, Finite
  <2>8. m.sources # {} /\ PathsOf(m.sources \ m.sources) = {}
    <3>1. m.sources # {}
        BY <1>6, <2>1, PinnedWhole, ReleaseAssumption DEF ReleasedManifests, IInv
    <3> QED BY <3>1 DEF PathsOf
  <2>9. Undisturbed'
      BY <1>2, <2>2, <2>3, <2>8 DEF IInv, Undisturbed, PathsOf
  <2> QED BY <2>5, <2>6, <2>7, <2>9 DEF IInv
<1> QED BY <1>3, <1>5, <1>6

-----------------------------------------------------------------------------
(* The steps that list the roots and read the records. *)

(* What is found so far, of the sources that are listed and the records    *)
(* that are read.                                                          *)
Progress ==
  /\ faults = {}
  /\ pc = "list" => /\ todo # {} /\ todo \subseteq authority.sources
                    /\ found = PathsOf(authority.sources \ todo)
  /\ pc = "read" => /\ todo \subseteq PathsOf(authority.sources)
                    /\ found = {RecordAt(p) : p \in PathsOf(authority.sources) \ todo}

(* Such a step keeps what is known, if it goes through what is there.      *)
LEMMA ObserveKeeps ==
  ASSUME IInv, Observing, Observing',
         UNCHANGED <<external, command, stage, text, contract, authority, graphs, report>>,
         edits = 0 => Progress', pc' = "read" => IsFiniteSet(found')
  PROVE  IInv'
<1>1. UNCHANGED <<disk, edits, controls, command, stage, contract, authority, graphs>> /\ Current' = Current
    BY DEF external, Current
<1>2. Underway /\ Underway' /\ ~Decided' /\ ~Decoding' /\ pc' \in {"list", "read"}
    BY DEF Underway, Decided, Observing, Decoding
<1>3. Position'
    BY <1>1, <1>2 DEF IInv, Position
<1>4. Authorised'
    BY <1>1 DEF IInv, Authorised
<1>5. Captured' /\ DecidedSo' /\ Finite'
    BY <1>1, <1>2 DEF IInv, Captured, DecidedSo, Finite
<1>6. Undisturbed'
  <2>1. SUFFICES ASSUME edits' = 0 PROVE Undisturbed'
      BY DEF Undisturbed
  <2>2. Progress'
      BY <1>1, <2>1
  <2>3. Undisturbed /\ edits = 0
      BY <1>1, <2>1 DEF IInv
  <2> QED BY <1>1, <1>2, <2>2, <2>3 DEF Undisturbed, Progress
<1> QED BY <1>3, <1>4, <1>5, <1>6 DEF IInv

(* Of some sources one sorts first, and of some paths.                     *)
LEMMA FirstSource ==
  ASSUME NEW sources, sources # {}, sources \subseteq DOMAIN Rank
  PROVE  FirstOf(sources) \in sources
<1>1. Rank \in [DOMAIN Rank -> Nat]
    BY ReleaseAssumption DEF ReleasedPaths
<1> DEFINE ranks == {Rank[s] : s \in sources}
<1>2. ranks \subseteq Nat /\ ranks # {}
    BY <1>1
<1>3. PICK n \in ranks : \A k \in ranks : n <= k
    BY <1>2, LeastNumber
<1>4. \E s \in sources : \A t \in sources : Rank[s] <= Rank[t]
    BY <1>3
<1> QED BY <1>4 DEF FirstOf

(* And of some paths.                                                      *)
LEMMA FirstOfPaths ==
  ASSUME NEW paths, paths # {}, paths \subseteq DOMAIN SourceOf
  PROVE  FirstPath(paths) \in paths
<1>1. paths \subseteq Nat
    BY ReleaseAssumption DEF ReleasedPaths
<1>2. \E p \in paths : \A q \in paths : p <= q
    BY <1>1, LeastNumber
<1> QED BY <1>2 DEF FirstPath

(* What the manifest of a stage stands for.                                *)
LEMMA ManifestAtRelease ==
  ASSUME NEW name \in PinnedManifests, NEW m, m = PinnedManifest(name)
  PROVE  /\ m.sources \subseteq DOMAIN Rank /\ PathsOf(m.sources) # {}
         /\ m.members = Members(GraphAtRelease(name))
         /\ ManifestDiagnostics(m) = {}
         /\ GraphAtRelease(name) =
              [records |-> {RecordAt(p) : p \in PathsOf(m.sources)}, diagnostics |-> {}]
         /\ CheckGraph(GraphAtRelease(name).records) = {}
<1>1. /\ m.sources \subseteq DOMAIN Rank
      /\ m.members # {} /\ m.members = Members(GraphAtRelease(name))
      /\ ManifestDiagnostics(m) = {}
      /\ CheckGraph(GraphAtRelease(name).records) = {}
    BY ReleaseAssumption DEF ReleasedManifests
<1>2. GraphAtRelease(name) =
        [records |-> {RecordAt(p) : p \in PathsOf(m.sources)}, diagnostics |-> {}]
    BY DEF GraphAtRelease, RecordAt, PathsOf
<1>3. PathsOf(m.sources) # {}
    BY <1>1, <1>2 DEF Members
<1> QED BY <1>1, <1>2, <1>3

(* A root at rest holds its records and nothing else.                      *)
LEMMA RootAtRelease ==
  ASSUME NEW s \in DOMAIN Rank
  PROVE  Discovered(ReleasedDisk.roots[s], [p \in PathsUnder[s] |-> ReleasedDisk.files[p]])
           = [paths |-> PathsOf({s}), problems |-> {}]
<1> DEFINE below == [p \in PathsUnder[s] |-> ReleasedDisk.files[p]]
<1>1. ReleasedDisk.roots[s] = "directory"
    BY DEF ReleasedDisk
<1>2. PathsUnder[s] = {p \in DOMAIN SourceOf : SourceOf[p] = s}
    BY DEF PathsUnder
<1>3. \A p \in PathsUnder[s] :
        below[p] = IF p \in DOMAIN AtRelease THEN File("file", AtRelease[p]) ELSE File("absent", 0)
    BY <1>2, Same DEF ReleasedDisk
<1>4. \A p \in PathsUnder[s] : below[p].type = IF p \in DOMAIN AtRelease THEN "file" ELSE "absent"
  <2> HIDE DEF below
  <2> SUFFICES ASSUME NEW p \in PathsUnder[s]
               PROVE  below[p].type = IF p \in DOMAIN AtRelease THEN "file" ELSE "absent"
      OBVIOUS
  <2>1. CASE p \in DOMAIN AtRelease
    <3>1. below[p] = File("file", AtRelease[p])
        BY <1>3, <2>1, Zenon
    <3>2. below[p].type = "file"
        BY <3>1 DEF File
    <3> QED BY <2>1, <3>2, Zenon
  <2>2. CASE p \notin DOMAIN AtRelease
    <3>1. below[p] = File("absent", 0)
        BY <1>3, <2>2, Zenon
    <3>2. below[p].type = "absent"
        BY <3>1 DEF File
    <3> QED BY <2>2, <3>2, Zenon
  <2> QED BY <2>1, <2>2
<1>5. PathsOf({s}) = {p \in PathsUnder[s] : p \in DOMAIN AtRelease}
    BY <1>2, Same, ReleaseAssumption DEF PathsOf, ReleasedPaths
<1>6. DOMAIN below = PathsUnder[s]
    OBVIOUS
<1> HIDE DEF below
<1>7. RootProblems("directory") = {}
    BY DEF RootProblems
<1>8. {p \in DOMAIN below : below[p].type = "file"} = PathsOf({s})
    BY <1>4, <1>5, <1>6
<1>9. ~\E p \in DOMAIN below : below[p].type = "link"
    BY <1>4, <1>6
<1>10. Discovered("directory", below) = [paths |-> PathsOf({s}), problems |-> {}]
    BY <1>7, <1>8, <1>9 DEF Discovered
<1> QED BY <1>1, <1>10 DEF below

(* A root is listed.                                                       *)
LEMMA ListKeeps ==
  ASSUME IInv, List
  PROVE  IInv'
<1> DEFINE s == FirstOf(todo)
           below == [p \in PathsUnder[s] |-> disk.files[p]]
           listed == Discovered(disk.roots[s], below)
           paths == found \cup listed.paths
           met == faults \cup listed.problems
<1>1. /\ pc = "list" /\ pc' \in {"list", "read"}
      /\ UNCHANGED <<external, command, stage, text, contract, authority, graphs, report>>
    BY DEF List
<1>2. ASSUME edits = 0 PROVE Progress'
  <2> DEFINE m == authority
             rest == todo \ {s}
  <2>1. /\ disk = ReleasedDisk /\ faults = {} /\ todo # {} /\ todo \subseteq m.sources
        /\ found = PathsOf(m.sources \ todo)
      BY <1>1, <1>2 DEF IInv, Undisturbed, Observing
  <2>2. /\ Current.name \in PinnedManifests /\ m = PinnedManifest(Current.name)
      BY <1>1, PinnedWhole DEF IInv, Authorised, Observing
  <2>3. m.sources \subseteq DOMAIN Rank /\ PathsOf(m.sources) # {}
      BY <2>2, ManifestAtRelease
  <2>4. s \in todo /\ s \in DOMAIN Rank
      BY <2>1, <2>3, FirstSource
  <2>5. listed = [paths |-> PathsOf({s}), problems |-> {}]
      BY <2>1, <2>4, RootAtRelease
  <2>6. paths = PathsOf(m.sources \ rest) /\ met = {}
    <3>1. m.sources \ rest = (m.sources \ todo) \cup {s}
        BY <2>1, <2>4
    <3>2. PathsOf((m.sources \ todo) \cup {s}) = PathsOf(m.sources \ todo) \cup PathsOf({s})
        BY DEF PathsOf
    <3>3. listed.paths = PathsOf({s}) /\ listed.problems = {}
        BY <2>5
    <3>4. faults = {} /\ found = PathsOf(m.sources \ todo)
        BY <2>1
    <3> HIDE DEF listed, s, m, rest
    <3>5. met = {}
        BY <3>3, <3>4
    <3>6. paths = PathsOf(m.sources \ todo) \cup PathsOf({s})
        BY <3>3, <3>4
    <3>7. paths = PathsOf(m.sources \ rest)
        BY <3>1, <3>2, <3>6
    <3> QED BY <3>5, <3>7
  <2> HIDE DEF paths, met, listed, s
  <2>7. authority' = m
      BY <1>1
  <2>8. CASE rest # {}
    <3>1. todo' = rest /\ found' = paths /\ faults' = met /\ pc' = "list"
        BY <1>1, <2>8 DEF List, paths, met, listed, s
    <3>2. rest \subseteq m.sources
        BY <2>1
    <3> HIDE DEF rest
    <3> QED BY <2>6, <2>7, <2>8, <3>1, <3>2 DEF Progress
  <2>9. CASE rest = {}
    <3>1. todo' = paths /\ found' = {} /\ faults' = met \cup EmptyProblems(paths, met) /\ pc' = "read"
        BY <2>9 DEF List, paths, met, listed, s
    <3>2. paths = PathsOf(m.sources)
        BY <2>6, <2>9
    <3>3. EmptyProblems(paths, met) = {}
        BY <2>3, <3>2 DEF EmptyProblems
    <3>4. PathsOf(m.sources) \ paths = {}
        BY <3>2
    <3> QED BY <2>6, <2>7, <3>1, <3>2, <3>3, <3>4 DEF Progress
  <2> QED BY <2>8, <2>9
<1>3. pc' = "read" => found' = {}
    BY <1>1 DEF List
<1>4. pc' = "read" => IsFiniteSet(found')
    BY <1>3, FS_EmptySet
<1> QED BY <1>1, <1>2, <1>4, ObserveKeeps DEF Observing

(* A record is opened and read.                                            *)
LEMMA ReadKeeps ==
  ASSUME IInv, Read
  PROVE  IInv'
<1> DEFINE p == FirstPath(todo)
           entry == disk.files[p]
<1>1. /\ pc = "read" /\ todo # {} /\ pc' = "read"
      /\ todo' = todo \ {p}
      /\ faults' = faults \cup RecordProblems(entry)
      /\ found' = IF RecordProblems(entry) # {} THEN found
                  ELSE found \cup {[source |-> Home[p], path |-> p, digest |-> entry.digest]}
      /\ UNCHANGED <<external, command, stage, text, contract, authority, graphs, report>>
    BY DEF Read
<1>2. ASSUME edits = 0 PROVE Progress'
  <2> DEFINE all == PathsOf(authority.sources)
  <2>1. /\ disk = ReleasedDisk /\ faults = {} /\ todo \subseteq all
        /\ found = {RecordAt(q) : q \in all \ todo}
      BY <1>1, <1>2 DEF IInv, Undisturbed, Observing
  <2>2. all \subseteq DOMAIN AtRelease /\ DOMAIN AtRelease \subseteq DOMAIN SourceOf
      BY Same, ReleaseAssumption DEF PathsOf, ReleasedPaths
  <2>3. p \in todo
      BY <1>1, <2>1, <2>2, FirstOfPaths
  <2>4. p \in DOMAIN AtRelease /\ p \in DOMAIN Home
      BY <2>1, <2>2, <2>3, Same
  <2>5. entry = [type |-> "file", digest |-> AtRelease[p]]
      BY <2>1, <2>4 DEF ReleasedDisk, File
  <2>6. AtRelease[p] \notin DOMAIN Broken
      BY <2>4, Same, ReleaseAssumption DEF ReleasedPaths
  <2>7. RecordProblems(entry) = {}
      BY <2>5, <2>6 DEF RecordProblems
  <2>8. found' = found \cup {RecordAt(p)}
      BY <1>1, <2>5, <2>7 DEF RecordAt
  <2>9. faults' = {} /\ authority' = authority
      BY <1>1, <2>1, <2>7
  <2>10. all \ (todo \ {p}) = (all \ todo) \cup {p}
      BY <2>1, <2>3
  <2> HIDE DEF all, p
  <2>11. found' = {RecordAt(q) : q \in all \ todo'}
      BY <1>1, <2>1, <2>8, <2>10
  <2>12. todo' \subseteq all
      BY <1>1, <2>1
  <2> QED BY <1>1, <2>9, <2>11, <2>12 DEF Progress, all
<1>3. IsFiniteSet(found')
  <2>1. IsFiniteSet(found)
      BY <1>1 DEF IInv, Finite
  <2> QED BY <1>1, <2>1, FS_AddElement
<1> QED BY <1>1, <1>2, <1>3, ObserveKeeps DEF Observing

-----------------------------------------------------------------------------
(* The steps that conclude. *)

(* A graph more. *)
LEMMA OneMore ==
  ASSUME NEW s, IsSequence(s), NEW x
  PROVE  /\ IsSequence(Append(s, x))
         /\ Len(s) \in Nat /\ DOMAIN s = 1 .. Len(s)
         /\ Len(Append(s, x)) = Len(s) + 1
         /\ DOMAIN Append(s, x) = (DOMAIN s) \cup {Len(s) + 1}
         /\ \A i \in DOMAIN s : Append(s, x)[i] = s[i]
         /\ Append(s, x)[Len(s) + 1] = x
<1>0. PICK S : s \in Seq(S)
    BY DEF IsSequence
<1> DEFINE U == S \cup {x}
<1>1. s \in Seq(U)
    BY <1>0
<1>2. x \in U
    OBVIOUS
<1> HIDE DEF U
<1>3. Append(s, x) \in Seq(U)
    BY <1>1, <1>2
<1>4. IsSequence(Append(s, x))
    BY <1>3 DEF IsSequence
<1>5. /\ Len(s) \in Nat /\ DOMAIN s = 1 .. Len(s)
      /\ Len(Append(s, x)) = Len(s) + 1
    BY <1>0
<1>6. DOMAIN Append(s, x) = 1 .. Len(s) + 1
    BY <1>3, <1>5
<1>7. DOMAIN Append(s, x) = (DOMAIN s) \cup {Len(s) + 1}
    BY <1>5, <1>6
<1>8. \A i \in DOMAIN s : Append(s, x)[i] = s[i]
    BY <1>0
<1>9. Append(s, x)[Len(s) + 1] = x
    BY <1>0
<1> QED BY <1>4, <1>5, <1>7, <1>8, <1>9

(* The records of a manifest at rest make its graph, and nothing is said   *)
(* of it.                                                                  *)
LEMMA CaptureAtRelease ==
  ASSUME Position, Current.kind # "contract",
         NEW m, m = PinnedManifest(Current.name),
         NEW files, files = {RecordAt(p) : p \in PathsOf(m.sources)}
  PROVE  /\ CapturedGraph(m, files, {}) = GraphAtRelease(Current.name)
         /\ CaptureProblems(GraphAtRelease(Current.name), m) = {}
<1> DEFINE g == GraphAtRelease(Current.name)
<1>1. Current.name \in PinnedManifests
    BY PinnedWhole
<1>2. /\ ManifestDiagnostics(m) = {}
      /\ g = [records |-> files, diagnostics |-> {}]
      /\ m.members = Members(g)
      /\ CheckGraph(files) = {}
  <2>1. /\ ManifestDiagnostics(m) = {} /\ m.members = Members(g) /\ CheckGraph(g.records) = {}
        /\ g = [records |-> {RecordAt(p) : p \in PathsOf(m.sources)}, diagnostics |-> {}]
      BY <1>1, ManifestAtRelease, Zenon
  <2> HIDE DEF g
  <2>2. g = [records |-> files, diagnostics |-> {}]
      BY <2>1, Zenon
  <2>3. g.records = files
      BY <2>2
  <2> QED BY <2>1, <2>2, <2>3
<1>3. {f \in files : f.source \in m.sources} = files
    BY DEF RecordAt, PathsOf
<1>4. m.members = {Member(f) : f \in files}
    BY <1>2 DEF Members
<1>5. MembershipDiagnostics(files, m.members) = {}
    BY <1>4 DEF MembershipDiagnostics
<1>6. Observation(m, files) = [records |-> files, diagnostics |-> {}]
    BY <1>2, <1>3, <1>5 DEF Observation
<1>7. CapturedGraph(m, files, {}) = g
    BY <1>2, <1>6 DEF CapturedGraph
<1>8. Codes(g.diagnostics) = {}
    BY <1>2 DEF Codes
<1>9. CaptureProblems(g, m) = {}
    BY <1>8, ReleaseAssumption DEF CaptureProblems, ReleasedDecisions
<1> QED BY <1>7, <1>9

(* A graph holds no more than was found.                                   *)
LEMMA CapturedFinite ==
  ASSUME NEW m, NEW files, IsFiniteSet(files), NEW problems
  PROVE  HasFinitelyMany(CapturedGraph(m, files, problems))
<1>1. CapturedGraph(m, files, problems).records \subseteq files
  <2>1. CASE problems # {}
      BY <2>1 DEF CapturedGraph
  <2>2. Observation(m, files).records \subseteq files
      BY DEF Observation
  <2>3. problems = {} => CapturedGraph(m, files, problems) = Observation(m, files)
      BY DEF CapturedGraph
  <2> QED BY <2>1, <2>2, <2>3
<1>2. "records" \in DOMAIN CapturedGraph(m, files, problems)
    BY DEF CapturedGraph, Observation
<1> QED BY <1>1, <1>2, FS_Subset DEF HasFinitelyMany

(* A capture concludes.                                                    *)
LEMMA CheckKeeps ==
  ASSUME IInv, Check
  PROVE  IInv'
<1> DEFINE graph == CapturedGraph(authority, found, faults)
           problems == CaptureProblems(graph, authority)
           k == Len(graphs) + 1
<1>1. /\ pc = "read" /\ todo = {}
      /\ Conclude(graph, problems)
      /\ UNCHANGED <<external, command, text, contract>>
    BY DEF Check
<1>2. UNCHANGED <<disk, edits, controls, command, contract>>
    BY <1>1 DEF external
<1>3. /\ Position /\ Current.kind # "contract" /\ authority = PinnedManifest(Current.name)
      /\ command \in Commands /\ stage \in DOMAIN Stages[command]
    BY <1>1 DEF IInv, Authorised, Observing, Position
<1>4. edits = 0 => graph = GraphAtRelease(Current.name) /\ problems = {}
  <2>1. edits = 0 => faults = {} /\ found = {RecordAt(p) : p \in PathsOf(authority.sources)}
      BY <1>1 DEF IInv, Undisturbed, Observing
  <2> QED BY <1>3, <2>1, CaptureAtRelease
<1>5. problems = {} => Members(graph) = authority.members
    BY CaptureClean, CapturedListed
<1>8. HasFinitelyMany(graph)
  <2>1. IsFiniteSet(found)
      BY <1>1 DEF IInv, Finite
  <2> QED BY <2>1, CapturedFinite
<1> HIDE DEF graph, problems
<1>6. CASE problems # {}
  <2>1. Refuse(problems) /\ UNCHANGED <<stage, graphs>> /\ edits # 0
      BY <1>1, <1>4, <1>6 DEF Conclude
  <2> QED BY <1>1, <1>6, <2>1, RefuseKeeps
<1>7. CASE problems = {}
  <2>1. /\ graphs' = Append(graphs, graph)
        /\ IF stage < Len(Stages[command]) THEN stage' = stage + 1 /\ pc' = "look"
           ELSE pc' = "decide" /\ UNCHANGED stage
        /\ UNCHANGED report
      BY <1>1, <1>7 DEF Conclude
  <2>2. IsSequence(graphs)
      BY <1>3 DEF Position
  <2>3. /\ IsSequence(graphs')
        /\ Len(graphs') = k /\ DOMAIN graphs' = DOMAIN graphs \cup {k}
        /\ \A i \in DOMAIN graphs : graphs'[i] = graphs[i]
        /\ graphs'[k] = graph
    <3>1. graphs' = Append(graphs, graph)
        BY <2>1
    <3>2. /\ IsSequence(Append(graphs, graph))
          /\ Len(Append(graphs, graph)) = k /\ DOMAIN Append(graphs, graph) = DOMAIN graphs \cup {k}
          /\ \A i \in DOMAIN graphs : Append(graphs, graph)[i] = graphs[i]
          /\ Append(graphs, graph)[k] = graph
        BY <2>2, OneMore
    <3> HIDE DEF k
    <3> QED BY <3>1, <3>2, Zenon
  <2>4. Len(graphs) = Before(command, stage)
      BY <1>1, <1>3 DEF Position, Underway
  <2>5. /\ NameOf(command, k) = Current.name
        /\ k = Before(command, stage + 1)
        /\ stage = Len(Stages[command]) => k = Captures(command)
      BY <1>3, <2>4, StageCaptures DEF Current
  <2>6. /\ DOMAIN Stages[command] = 1 .. Len(Stages[command]) /\ Len(Stages[command]) \in Nat
        /\ stage = 1 => Contracted(command) = 0
      BY <1>3, StageKinds DEF Current
  <2>7. stage < Len(Stages[command]) \/ stage = Len(Stages[command])
      BY <1>3, <2>6
  <2> HIDE DEF k
  <2>8. /\ ~Observing' /\ ~Decoding' /\ pc' \notin {"list", "read", "done"} /\ ~Decided'
        /\ stage' \in DOMAIN Stages[command] /\ pc' \in {"look", "decide"}
        /\ Underway' => k = Before(command, stage')
        /\ pc' = "decide" => k = Captures(command)
    <3>1. CASE stage < Len(Stages[command])
      <4>1. stage' = stage + 1 /\ pc' = "look"
          BY <2>1, <3>1
      <4>2. stage + 1 \in DOMAIN Stages[command]
          BY <1>3, <2>6, <3>1
      <4> QED BY <2>5, <4>1, <4>2 DEF Observing, Decoding, Underway, Decided
    <3>2. CASE stage = Len(Stages[command])
      <4>1. stage' = stage /\ pc' = "decide"
          BY <2>1, <2>6, <3>2
      <4> QED BY <1>3, <2>5, <3>2, <4>1 DEF Observing, Decoding, Underway, Decided
    <3> QED BY <2>7, <3>1, <3>2
  <2>9. Position'
      BY <1>2, <1>3, <2>3, <2>8 DEF Position
  <2>10. Authorised'
    <3>1. stage' > 1 /\ Contracted(command) = 1 => stage > 1
        BY <1>3, <2>1, <2>6
    <3> QED BY <1>2, <2>8, <3>1 DEF IInv, Authorised
  <2>11. Captured'
    <3>1. Captured /\ Members(graph) = PinnedManifest(NameOf(command, k)).members
        BY <1>3, <1>5, <1>7, <2>5 DEF IInv
    <3>2. NameOf(command, k) \in PinnedManifests
        BY <1>3, <2>5, StageKinds DEF Current
    <3>3. Sound(command, graph)
        BY <3>1, <3>2, ListedSound DEF Sound
    <3> QED BY <1>2, <2>3, <3>1, <3>3 DEF Captured
  <2>12. DecidedSo' /\ Finite'
      BY <1>8, <2>3, <2>8 DEF IInv, DecidedSo, Finite
  <2>13. Undisturbed'
    <3>1. Undisturbed /\ (edits = 0 => graph = GraphAtRelease(NameOf(command, k)))
        BY <1>4, <2>5 DEF IInv
    <3> QED BY <1>2, <2>3, <2>8, <3>1 DEF Undisturbed
  <2> QED BY <2>9, <2>10, <2>11, <2>12, <2>13 DEF IInv
<1> QED BY <1>6, <1>7

(* Graphs that are those of the manifests are those of the release.        *)
LEMMA GraphsAreReleased ==
  ASSUME Position, Len(graphs) = Captures(command),
         \A i \in DOMAIN graphs : graphs[i] = GraphAtRelease(NameOf(command, i))
  PROVE  graphs = GraphsAtRelease[command]
<1>1. PICK S : graphs \in Seq(S)
    BY DEF Position, IsSequence
<1>2. /\ GraphsAtRelease[command] = [i \in 1 .. Captures(command) |-> GraphAtRelease(NameOf(command, i))]
    BY GraphsOfStages DEF Position
<1> DEFINE n == Captures(command)
           graph(i) == GraphAtRelease(NameOf(command, i))
<1>3. graphs = [i \in 1 .. Len(graphs) |-> graphs[i]] /\ DOMAIN graphs = 1 .. Len(graphs)
    BY <1>1
<1>4. \A i \in 1 .. n : graphs[i] = graph(i)
    BY <1>3
<1> HIDE DEF n, graph
<1>5. graphs = [i \in 1 .. n |-> graphs[i]]
    BY <1>3 DEF n
<1>6. graphs = [i \in 1 .. n |-> graph(i)]
    BY <1>4, <1>5
<1> QED BY <1>2, <1>6 DEF n, graph

(* The command decides.                                                    *)
LEMMA DecideKeeps ==
  ASSUME IInv, Decide
  PROVE  IInv'
<1> DEFINE problems == DecisionProblems(command, graphs)
           decision == Decision(command, graphs)
<1>1. /\ pc = "decide" /\ pc' = "done" /\ report' = Reported(problems, decision)
      /\ UNCHANGED <<external, command, stage, contract, graphs>>
    BY DEF Decide
<1>2. UNCHANGED <<disk, edits, controls, command, stage, contract, graphs>>
    BY <1>1 DEF external
<1>3. edits = 0 /\ controls = 0 => problems = {}
  <2>1. SUFFICES ASSUME edits = 0, controls = 0 PROVE problems = {}
      OBVIOUS
  <2>2. \A i \in DOMAIN graphs : graphs[i] = GraphAtRelease(NameOf(command, i))
      BY <2>1 DEF IInv, Undisturbed
  <2>3. Len(graphs) = Captures(command) /\ command \in Commands
      BY <1>1 DEF IInv, Position
  <2>4. graphs = GraphsAtRelease[command]
      BY <2>2, <2>3, GraphsAreReleased DEF IInv
  <2> QED BY <2>3, <2>4, ReleaseAssumption DEF ReleasedDecisions
<1> HIDE DEF problems, decision
<1>4. report'.problems = problems /\ (problems = {} => report'.decision = decision)
    BY <1>1 DEF Reported
<1>5. ~Underway' /\ ~Observing' /\ ~Decoding' /\ pc' = "done"
    BY <1>1 DEF Underway, Observing, Decoding
<1>6. Position'
    BY <1>1, <1>2, <1>5 DEF IInv, Position
<1>7. Authorised' /\ Captured'
    BY <1>2, <1>5 DEF IInv, Authorised, Captured
<1>8. DecidedSo' /\ Finite'
  <2>1. Decision(command, graphs)' = decision /\ DecisionProblems(command, graphs)' = problems
      BY <1>2 DEF decision, problems
  <2> QED BY <1>2, <1>4, <1>5, <2>1 DEF IInv, DecidedSo, Decided, Finite
<1>9. Undisturbed'
    BY <1>2, <1>3, <1>4, <1>5 DEF IInv, Undisturbed
<1> QED BY <1>6, <1>7, <1>8, <1>9 DEF IInv

-----------------------------------------------------------------------------
(* What others do. *)

(* An edit is one more, while the command is under way.                    *)
LEMMA EditKeeps ==
  ASSUME IInv, MayEdit, NEW changed, Edit(changed)
  PROVE  IInv'
<1>1. /\ edits' = edits + 1 /\ edits \in Nat /\ pc' = pc /\ pc \notin {"decide", "done"}
      /\ UNCHANGED <<controls, command, stage, contract, authority, found, graphs, report>>
    BY DEF MayEdit, Edit, IInv, Position
<1>2. ~Decided' /\ Underway' = Underway /\ Observing' = Observing /\ Current' = Current
    BY <1>1 DEF Decided, Underway, Observing, Current
<1>3. Position'
    BY <1>1, <1>2 DEF IInv, Position
<1>4. Authorised'
    BY <1>1, <1>2 DEF IInv, Authorised
<1>5. Captured' /\ DecidedSo' /\ Finite'
    BY <1>1, <1>2 DEF IInv, Captured, DecidedSo, Finite
<1>6. Undisturbed'
    BY <1>1 DEF Undisturbed
<1> QED BY <1>3, <1>4, <1>5, <1>6 DEF IInv

(* What is put back had been edited.                                       *)
LEMMA RestoreKeeps ==
  ASSUME IInv, Restore
  PROVE  IInv'
<1>1. /\ edits' = edits /\ edits > 0 /\ edits \in Nat /\ pc' = pc /\ pc \notin {"decide", "done"}
      /\ UNCHANGED <<controls, command, stage, contract, authority, found, graphs, report>>
    BY DEF Restore, IInv, Position
<1>2. ~Decided' /\ Underway' = Underway /\ Observing' = Observing /\ Current' = Current
    BY <1>1 DEF Decided, Underway, Observing, Current
<1>3. Position'
    BY <1>1, <1>2 DEF IInv, Position
<1>4. Authorised'
    BY <1>1, <1>2 DEF IInv, Authorised
<1>5. Captured' /\ DecidedSo' /\ Finite'
    BY <1>1, <1>2 DEF IInv, Captured, DecidedSo, Finite
<1>6. Undisturbed'
    BY <1>1 DEF Undisturbed
<1> QED BY <1>3, <1>4, <1>5, <1>6 DEF IInv

(* A control leaves finitely many records: it puts at most two in.         *)
LEMMA ControlledFinite ==
  ASSUME NEW graph, HasFinitelyMany(graph), NEW f, NEW digests,
         digests = {} \/ \E d, e : digests = {d, e}
  PROVE  HasFinitelyMany(Controlled(graph, f, digests))
<1> DEFINE put(d) == [source |-> f.source, path |-> f.path, digest |-> d]
           left == {g \in graph.records : AddressOf(DocOf(g)) # AddressOf(DocOf(f))}
           new == left \cup {put(d) : d \in digests}
<1>1. IsFiniteSet(left)
    BY FS_Subset DEF HasFinitelyMany
<1>2. IsFiniteSet(new)
  <2>1. CASE digests = {}
    <3>1. new = left
        BY <2>1
    <3> QED BY <1>1, <3>1
  <2>2. CASE \E d, e : digests = {d, e}
    <3>1. PICK d, e : digests = {d, e}
        BY <2>2
    <3>2. new = (left \cup {put(d)}) \cup {put(e)}
        BY <3>1
    <3> HIDE DEF left, put, new
    <3>3. IsFiniteSet(left \cup {put(d)})
        BY <1>1, FS_AddElement
    <3>4. IsFiniteSet((left \cup {put(d)}) \cup {put(e)})
        BY <3>3, FS_AddElement
    <3> QED BY <3>2, <3>4
  <2> QED BY <2>1, <2>2
<1>3. Controlled(graph, f, digests) = [graph EXCEPT !.records = new]
    BY DEF Controlled
<1> HIDE DEF new
<1> QED BY <1>2, <1>3 DEF HasFinitelyMany

(* What a control puts in are known records, of the address it puts them   *)
(* at; if it is one at most, there is still one of each address.           *)
LEMMA ControlledSound ==
  ASSUME NEW c, NEW graph, HasFinitelyMany(graph), Sound(c, graph), NEW f, NEW digests,
         \A d \in digests : d \in DOMAIN Content /\ AddressOf(Document[d]) = AddressOf(DocOf(f)),
         c # "profiles" => \A d, e \in digests : d = e
  PROVE  Sound(c, Controlled(graph, f, digests))
<1> DEFINE put(d) == [source |-> f.source, path |-> f.path, digest |-> d]
           left == {g \in graph.records : AddressOf(DocOf(g)) # AddressOf(DocOf(f))}
           new == left \cup {put(d) : d \in digests}
           after == Controlled(graph, f, digests)
<1>1. after.records = new
    BY DEF Controlled, HasFinitelyMany
<1>2. \A g \in new : g \in graph.records \/ g.digest \in digests
    OBVIOUS
<1> HIDE DEF after
<1>3. Known(after)
  <2> HIDE DEF new
  <2> QED BY <1>1, <1>2 DEF Known, Sound
<1>4. \A b \in Docs(after) :
        \/ b \in Docs(graph) /\ AddressOf(b) # AddressOf(DocOf(f))
        \/ \E d \in digests : b = Document[d]
  <2>1. ASSUME NEW b \in Docs(after)
        PROVE  \/ b \in Docs(graph) /\ AddressOf(b) # AddressOf(DocOf(f))
               \/ \E d \in digests : b = Document[d]
    <3>1. PICK g \in new : b = DocOf(g)
        BY <1>1 DEF Docs
    <3>2. CASE g \in left
        BY <3>1, <3>2 DEF Docs
    <3>3. CASE \E d \in digests : g = put(d)
        BY <3>1, <3>3 DEF DocOf
    <3> QED BY <3>2, <3>3
  <2> QED BY <2>1
<1>5. c # "profiles" => OneEach(Docs(after))
  <2>1. SUFFICES ASSUME c # "profiles", NEW a \in Docs(after), NEW b \in Docs(after),
                        AddressOf(a) = AddressOf(b)
                 PROVE  a = b
      BY DEF OneEach
  <2>2. CASE a \in Docs(graph) /\ AddressOf(a) # AddressOf(DocOf(f))
    <3>1. b \in Docs(graph)
        BY <1>4, <2>1, <2>2
    <3> QED BY <2>1, <2>2, <3>1 DEF Sound, OneEach
  <2>3. CASE \E d \in digests : a = Document[d]
    <3>1. \E d \in digests : b = Document[d]
        BY <1>4, <2>1, <2>3
    <3> QED BY <2>1, <2>3, <3>1
  <2> QED BY <1>4, <2>2, <2>3
<1> QED BY <1>3, <1>5 DEF Sound, after

(* A control is one more, and the captured graphs are as many.             *)
LEMMA ControlKeeps ==
  ASSUME IInv, Control
  PROVE  IInv'
<1>1. /\ pc = "decide" /\ controls' = controls + 1 /\ controls \in Nat
      /\ UNCHANGED <<disk, edits, command, pc, stage, contract, authority, faults, todo, found, report>>
    BY DEF Control, IInv, Position
<1> DEFINE AtMostTwo(ds) == ds = {} \/ \E d, e : ds = {d, e}
           OfTheAddress(f, ds) ==
             \A d \in ds : d \in DOMAIN Content /\ AddressOf(Document[d]) = AddressOf(DocOf(f))
           OneUnlessChoosing(ds) == command # "profiles" => \A d, e \in ds : d = e
           After(which, f, ds) ==
             [j \in DOMAIN graphs |-> IF j \in which THEN Controlled(graphs[j], f, ds) ELSE graphs[j]]
<1>2. PICK which, f, digests :
        AtMostTwo(digests) /\ OfTheAddress(f, digests) /\ OneUnlessChoosing(digests)
          /\ graphs' = After(which, f, digests)
  <2>1. PICK which \in SUBSET DOMAIN graphs, i \in DOMAIN graphs :
          \E f \in graphs[i].records :
            \E digests \in {{d} : d \in OthersOf[f.digest]} \cup {{}}
                             \cup {{f.digest, d} : d \in IF command = "profiles" THEN OthersOf[f.digest] ELSE {}} :
              graphs' = [j \in DOMAIN graphs |->
                           IF j \in which THEN Controlled(graphs[j], f, digests) ELSE graphs[j]]
      BY DEF Control
  <2>2. PICK f \in graphs[i].records :
          \E digests \in {{d} : d \in OthersOf[f.digest]} \cup {{}}
                           \cup {{f.digest, d} : d \in IF command = "profiles" THEN OthersOf[f.digest] ELSE {}} :
            graphs' = [j \in DOMAIN graphs |->
                         IF j \in which THEN Controlled(graphs[j], f, digests) ELSE graphs[j]]
      BY <2>1
  <2>3. PICK digests \in {{d} : d \in OthersOf[f.digest]} \cup {{}}
                           \cup {{f.digest, d} : d \in IF command = "profiles" THEN OthersOf[f.digest] ELSE {}} :
          graphs' = [j \in DOMAIN graphs |->
                       IF j \in which THEN Controlled(graphs[j], f, digests) ELSE graphs[j]]
      BY <2>2
  <2>4. digests = {} \/ (\E d : digests = {d}) \/ (\E d : digests = {f.digest, d})
      BY <2>3
  <2>5. digests # {} => \E d, e : digests = {d, e}
    <3>1. ASSUME NEW d, digests = {d} PROVE digests = {d, d}
        BY <3>1
    <3> QED BY <2>4, <3>1
  <2>6. AtMostTwo(digests)
      BY <2>5
  <2>7. graphs' = After(which, f, digests)
      BY <2>3
  <2>8. OfTheAddress(f, digests)
    <3>1. f.digest \in DOMAIN Content
        BY <2>1, <2>2 DEF IInv, Captured, Sound, Known
    <3>2. \A d \in OthersOf[f.digest] : d \in DOMAIN Content /\ AddressOf(Document[d]) = AddressOf(DocOf(f))
        BY <3>1, VariantsAssumption DEF OthersOf, DocOf
    <3>3. \A d \in digests : d = f.digest \/ d \in OthersOf[f.digest]
        BY <2>3
    <3> QED BY <3>1, <3>2, <3>3 DEF DocOf
  <2>9. OneUnlessChoosing(digests)
    <3>1. command # "profiles" => digests = {} \/ \E d : digests = {d}
        BY <2>3
    <3> QED BY <3>1
  <2> HIDE DEF AtMostTwo, After, OfTheAddress, OneUnlessChoosing
  <2> QED BY <2>6, <2>7, <2>8, <2>9
<1>3. PICK S : graphs \in Seq(S)
    BY DEF IInv, Position, IsSequence
<1>4. DOMAIN graphs = 1 .. Len(graphs) /\ Len(graphs) \in Nat
    BY <1>3
<1> DEFINE n == Len(graphs)
           U == {graphs'[j] : j \in 1 .. n}
<1> HIDE DEF n
<1>5. DOMAIN graphs' = 1 .. n /\ n \in Nat
    BY <1>2, <1>4 DEF n
<1>6. graphs' \in Seq(U) /\ Len(graphs') = n
  <2>1. graphs' = [j \in 1 .. n |-> graphs'[j]]
      BY <1>2, <1>4 DEF n
  <2>2. graphs' \in [1 .. n -> U]
      BY <2>1
  <2> HIDE DEF U
  <2> QED BY <1>5, <2>2
<1>7. IsSequence(graphs')
  <2> HIDE DEF U
  <2> QED BY <1>6 DEF IsSequence
<1>8. ~Decided' /\ ~Underway' /\ ~Observing' /\ ~Decoding' /\ pc' = "decide" /\ controls' # 0
    BY <1>1 DEF Decided, Underway, Observing, Decoding
<1>9. Position'
  <2>1. Len(graphs') = Captures(command)
      BY <1>1, <1>6 DEF IInv, Position, n
  <2> QED BY <1>1, <1>7, <1>8, <2>1 DEF IInv, Position
<1>10. Authorised'
    BY <1>1, <1>8 DEF IInv, Authorised
<1>11. Captured' /\ DecidedSo'
  <2>1. ASSUME NEW j \in DOMAIN graphs PROVE Sound(command, graphs'[j])
    <3>1. Sound(command, graphs[j]) /\ HasFinitelyMany(graphs[j])
        BY DEF IInv, Captured, Finite
    <3>2. graphs'[j] = IF j \in which THEN Controlled(graphs[j], f, digests) ELSE graphs[j]
        BY <1>2
    <3>3. Sound(command, Controlled(graphs[j], f, digests))
        BY <1>2, <3>1, ControlledSound
    <3> QED BY <3>1, <3>2, <3>3
  <2> QED BY <1>1, <1>4, <1>5, <1>8, <2>1 DEF Captured, DecidedSo, n
<1>13. Finite'
  <2>1. ASSUME NEW j \in DOMAIN graphs PROVE HasFinitelyMany(graphs'[j])
    <3>1. HasFinitelyMany(graphs[j])
        BY DEF IInv, Finite
    <3>2. graphs'[j] = IF j \in which THEN Controlled(graphs[j], f, digests) ELSE graphs[j]
        BY <1>2
    <3>3. HasFinitelyMany(Controlled(graphs[j], f, digests))
        BY <1>2, <3>1, ControlledFinite
    <3> QED BY <3>1, <3>2, <3>3
  <2> QED BY <1>4, <1>5, <1>8, <2>1 DEF Finite, n
<1>12. Undisturbed'
    BY <1>1, <1>8 DEF IInv, Undisturbed
<1> QED BY <1>9, <1>10, <1>11, <1>12, <1>13 DEF IInv

-----------------------------------------------------------------------------
(* It holds at first. *)
LEMMA InitHolds ==
  ASSUME Init
  PROVE  IInv
<1>1. /\ command \in Commands /\ stage = 1 /\ pc = "look" /\ graphs = <<>>
      /\ edits = 0 /\ controls = 0 /\ disk = ReleasedDisk /\ report = NoReport
    BY DEF Init
<1>2. 1 \in DOMAIN Stages[command]
    BY <1>1, FourCommands
<1>3. ~Decided /\ Underway /\ ~Observing /\ ~Decoding
    BY <1>1 DEF Decided, Underway, Observing, Decoding
<1>4. IsSequence(graphs) /\ Len(graphs) = 0 /\ DOMAIN graphs = {}
  <2>1. graphs \in Seq({})
      BY <1>1
  <2> QED BY <1>1, <2>1 DEF IsSequence
<1>5. Position
    BY <1>1, <1>2, <1>3, <1>4 DEF Position, Before
<1>6. Authorised /\ Captured /\ DecidedSo /\ Finite
    BY <1>1, <1>3, <1>4 DEF Authorised, Captured, DecidedSo, Finite
<1>7. Undisturbed
    BY <1>1, <1>3, <1>4 DEF Undisturbed
<1> QED BY <1>5, <1>6, <1>7 DEF IInv

(* Every step keeps it. *)
LEMMA StepHolds ==
  ASSUME IInv, [Next]_vars
  PROVE  IInv'
<1>1. CASE Look
    BY <1>1, LookKeeps
<1>2. CASE Open
    BY <1>2, OpenKeeps
<1>3. CASE OpenSchema
    BY <1>3, OpenSchemaKeeps
<1>4. CASE List
    BY <1>4, ListKeeps
<1>5. CASE Read
    BY <1>5, ReadKeeps
<1>6. CASE Check
    BY <1>6, CheckKeeps
<1>7. CASE Decide
    BY <1>7, DecideKeeps
<1>8. CASE EditArtifact
    BY <1>8, EditKeeps DEF EditArtifact
<1>9. CASE EditRoot
    BY <1>9, EditKeeps DEF EditRoot
<1>10. CASE EditFile
    BY <1>10, EditKeeps DEF EditFile
<1>11. CASE Move
    BY <1>11, EditKeeps DEF Move
<1>12. CASE Restore
    BY <1>12, RestoreKeeps
<1>13. CASE Control
    BY <1>13, ControlKeeps
<1>14. CASE UNCHANGED vars
  <2>1. UNCHANGED <<disk, edits, controls, command, pc, stage, text, contract, authority,
                    todo, found, faults, graphs, report>>
      BY <1>14 DEF vars
  <2>2. Position' /\ Authorised' /\ Captured'
      BY <2>1 DEF IInv, Position, Authorised, Captured, Underway, Observing, Decided, Current
  <2>3. DecidedSo' /\ Finite' /\ Undisturbed'
      BY <2>1 DEF IInv, DecidedSo, Finite, Undisturbed, Observing, Decoding, Decided, Current
  <2> QED BY <2>2, <2>3 DEF IInv
<1> QED BY <1>1, <1>2, <1>3, <1>4, <1>5, <1>6, <1>7, <1>8, <1>9, <1>10, <1>11, <1>12, <1>13, <1>14 DEF Next

(* What a command goes by is pinned at every moment, and what it finds     *)
(* while nothing is edited is what is there.                               *)
THEOREM Invariance == Spec => []IInv
<1>1. Init => IInv
    BY InitHolds
<1>2. IInv /\ [Next]_vars => IInv'
    BY StepHolds
<1> QED BY <1>1, <1>2, PTL DEF Spec

(* What is decided is decided of documents, and those are the members'.    *)
LEMMA DecisionOfMembers ==
  ASSUME NEW c \in Commands, NEW g, NEW h,
         \A i \in 1 .. Captures(c) : Members(g[i]) = Members(h[i])
  PROVE  Decision(c, g) = Decision(c, h)
<1>1. 1 \in 1 .. Captures(c) /\ (c = "maintenance" => 2 \in 1 .. Captures(c))
  <2>1. CASE c = "theory"
      BY <2>1, FourCommands DEF Captures, Contracted
  <2>2. CASE c = "inspect"
      BY <2>2, FourCommands DEF Captures, Contracted
  <2>3. CASE c = "maintenance"
      BY <2>3, FourCommands DEF Captures, Contracted
  <2>4. CASE c = "profiles"
      BY <2>4, FourCommands DEF Captures, Contracted
  <2> QED BY <2>1, <2>2, <2>3, <2>4, FourCommands
<1>2. Docs(g[1]) = Docs(h[1]) /\ (c = "maintenance" => Docs(g[2]) = Docs(h[2]))
    BY <1>1, DocsOfMembers
<1>3. CASE c = "theory"
    BY <1>2, <1>3 DEF Decision
<1>4. CASE c = "inspect"
    BY <1>2, <1>4 DEF Decision
<1>5. CASE c = "maintenance"
  <2>1. Maintenance(g[1], g[2]) = Maintenance(h[1], h[2])
      BY <1>2, <1>5 DEF Maintenance
  <2> QED BY <1>5, <2>1 DEF Decision
<1>6. CASE c = "profiles"
    BY <1>2, <1>6 DEF Decision
<1> QED BY <1>3, <1>4, <1>5, <1>6, FourCommands

(* Whatever is edited while a command reads, and whenever, what it decides *)
(* is what the pins stand for; and with no edit it decides.                *)
(* (inspect_json_artifact, _observe_finite_source, inspect_manifest_graph) *)
THEOREM Pinned == Spec => []ReplayIsPinned
<1>1. IInv => ReplayIsPinned
  <2> SUFFICES ASSUME IInv PROVE ReplayIsPinned
      OBVIOUS
  <2>1. ASSUME Decided, controls = 0
        PROVE  /\ report.decision = DecisionAtRelease[command]
               /\ \A i \in DOMAIN graphs : Members(graphs[i]) = Members(GraphsAtRelease[command][i])
    <3>1. command \in Commands /\ Len(graphs) = Captures(command) /\ DOMAIN graphs = 1 .. Captures(command)
      <4>1. PICK S : graphs \in Seq(S)
          BY DEF IInv, Position, IsSequence
      <4> QED BY <2>1, <4>1 DEF IInv, Position
    <3>2. ASSUME NEW i \in 1 .. Captures(command)
          PROVE  Members(graphs[i]) = Members(GraphsAtRelease[command][i])
      <4>1. Members(graphs[i]) = PinnedManifest(NameOf(command, i)).members
          BY <2>1, <3>1 DEF IInv, Captured
      <4>2. NameOf(command, i) \in PinnedManifests
          BY <3>1, GraphsOfStages
      <4>3. PinnedManifest(NameOf(command, i)).members = Members(GraphAtRelease(NameOf(command, i)))
          BY <4>2, ManifestAtRelease
      <4>4. GraphsAtRelease[command][i] = GraphAtRelease(NameOf(command, i))
          BY <3>1, GraphsOfStages
      <4> QED BY <4>1, <4>3, <4>4
    <3>3. Decision(command, graphs) = Decision(command, GraphsAtRelease[command])
        BY <3>1, <3>2, DecisionOfMembers
    <3>4. report.decision = DecisionAtRelease[command]
        BY <2>1, <3>1, <3>3 DEF IInv, DecidedSo, DecisionAtRelease
    <3> QED BY <3>1, <3>2, <3>4
  <2>2. pc = "done" /\ edits = 0 /\ controls = 0 => report.problems = {}
      BY DEF IInv, Undisturbed
  <2> QED BY <2>1, <2>2 DEF ReplayIsPinned
<1> QED BY <1>1, Invariance, PTL

-----------------------------------------------------------------------------
(* The views of the product, over files at rest. *)

Product == PinnedManifest("manifest")

(* What some sources are to hold, and what they held at release.           *)
MembersOf(sources) == {x \in Product.members : x.source \in sources}

ReleasedIn(sources) == {f \in GraphAtRelease("manifest").records : f.source \in sources}

(* No two files have one address. *)
Distinct(files) == \A f, g \in files : AddressOf(DocOf(f)) = AddressOf(DocOf(g)) => f = g

(* They hold exactly that, each once, and nothing went wrong.              *)
InOrderAt(sources) ==
  /\ AtRest(sources).problems = {}
  /\ Distinct(AtRest(sources).files)
  /\ {Member(f) : f \in AtRest(sources).files} = MembersOf(sources)

(* What is found in some sources is what is found in each of them.         *)
LEMMA RestFiles ==
  ASSUME NEW sources, sources \subseteq DOMAIN Rank
  PROVE  \A f : f \in AtRest(sources).files <=>
           /\ f.source \in sources
           /\ f.path \in ListedAt(f.source).paths
           /\ RecordProblems(disk.files[f.path]) = {}
           /\ f = FileAt(f.path)
<1> DEFINE good == {p \in PathsAt(sources) : RecordProblems(disk.files[p]) = {}}
<1>1. AtRest(sources).files = {FileAt(p) : p \in good}
    BY DEF AtRest
<1>2. ASSUME NEW s \in sources, NEW p \in ListedAt(s).paths PROVE FileAt(p).source = s
  <2>1. p \in PathsUnder[s]
      BY <1>2 DEF ListedAt, Discovered
  <2>2. s \in DOMAIN Rank
      OBVIOUS
  <2>3. p \in DOMAIN SourceOf /\ SourceOf[p] = s
      BY <2>1, <2>2 DEF PathsUnder
  <2> QED BY <2>3, Same DEF FileAt
<1>3. \A p : FileAt(p).path = p
    BY DEF FileAt
<1>4. ASSUME NEW p \in good
      PROVE  /\ FileAt(p).source \in sources
             /\ FileAt(p).path \in ListedAt(FileAt(p).source).paths
             /\ RecordProblems(disk.files[FileAt(p).path]) = {}
             /\ FileAt(p) = FileAt(FileAt(p).path)
  <2>1. PICK s \in sources : p \in ListedAt(s).paths
      BY <1>4 DEF PathsAt
  <2> QED BY <1>2, <1>3, <1>4, <2>1
<1>5. ASSUME NEW f, f.source \in sources, f.path \in ListedAt(f.source).paths,
             RecordProblems(disk.files[f.path]) = {}, f = FileAt(f.path)
      PROVE  f \in AtRest(sources).files
  <2>1. f.path \in good
      BY <1>5 DEF PathsAt
  <2> QED BY <1>1, <1>5, <2>1
<1> QED BY <1>1, <1>4, <1>5

(* Nothing went wrong in some sources if nothing did in each, and they are *)
(* not empty together.                                                     *)
LEMMA RestProblems ==
  ASSUME NEW sources
  PROVE  AtRest(sources).problems = {} <=>
           /\ PathsAt(sources) # {}
           /\ \A s \in sources :
                /\ ListedAt(s).problems = {}
                /\ \A p \in ListedAt(s).paths : RecordProblems(disk.files[p]) = {}
<1> DEFINE paths == PathsAt(sources)
           listed == UNION {ListedAt(s).problems : s \in sources}
           read == UNION {RecordProblems(disk.files[p]) : p \in paths}
<1>1. AtRest(sources).problems = listed \cup read \cup EmptyProblems(paths, listed)
    BY DEF AtRest
<1>2. listed = {} <=> \A s \in sources : ListedAt(s).problems = {}
    OBVIOUS
<1>3. read = {} <=> \A s \in sources : \A p \in ListedAt(s).paths : RecordProblems(disk.files[p]) = {}
  <2>1. paths = UNION {ListedAt(s).paths : s \in sources}
      BY DEF PathsAt
  <2> HIDE DEF paths
  <2>2. \A p : p \in paths <=> \E s \in sources : p \in ListedAt(s).paths
      BY <2>1
  <2>3. read = {} <=> \A p \in paths : RecordProblems(disk.files[p]) = {}
      OBVIOUS
  <2> QED BY <2>2, <2>3
<1> HIDE DEF paths, listed, read
<1>4. listed = {} => (EmptyProblems(paths, listed) = {} <=> paths # {})
    BY DEF EmptyProblems
<1> QED BY <1>1, <1>2, <1>3, <1>4 DEF paths

(* A path is listed at one source, and is a number.                        *)
LEMMA RestPaths ==
  ASSUME NEW sources, sources \subseteq DOMAIN Rank
  PROVE  /\ \A f \in AtRest(sources).files : f.path \in Nat
         /\ \A f, g \in AtRest(sources).files : f.path = g.path => f = g
<1>1. ASSUME NEW f \in AtRest(sources).files PROVE f.path \in Nat /\ f = FileAt(f.path)
  <2>1. f.source \in DOMAIN Rank /\ f.path \in ListedAt(f.source).paths /\ f = FileAt(f.path)
      BY RestFiles
  <2>2. f.path \in PathsUnder[f.source]
      BY <2>1 DEF ListedAt, Discovered
  <2>3. f.path \in DOMAIN SourceOf
      BY <2>1, <2>2 DEF PathsUnder
  <2> QED BY <2>1, <2>3, ReleaseAssumption DEF ReleasedPaths
<1>2. ASSUME NEW f \in AtRest(sources).files, NEW g \in AtRest(sources).files, f.path = g.path PROVE f = g
  <2>1. f = FileAt(f.path) /\ g = FileAt(g.path)
      BY <1>1
  <2> QED BY <1>2, <2>1
<1> QED BY <1>1, <1>2

(* Files have no duplicates exactly if no two have one address.            *)
LEMMA DuplicatesDistinct ==
  ASSUME NEW files, \A f \in files : f.path \in Nat, \A f, g \in files : f.path = g.path => f = g
  PROVE  Duplicates(files) = {} <=> Distinct(files)
<1>1. ASSUME Duplicates(files) = {}, NEW f \in files, NEW g \in files, AddressOf(DocOf(f)) = AddressOf(DocOf(g))
      PROVE  f = g
  <2>1. ~(g.path < f.path) /\ ~(f.path < g.path)
      BY <1>1 DEF Duplicates
  <2>2. f.path \in Nat /\ g.path \in Nat
      OBVIOUS
  <2>3. f.path = g.path
      BY <2>1, <2>2
  <2> QED BY <2>3
<1>2. ASSUME Distinct(files), NEW f \in files, NEW g \in files, AddressOf(DocOf(g)) = AddressOf(DocOf(f)),
             g.path < f.path
      PROVE  FALSE
  <2>1. f = g
      BY <1>2 DEF Distinct
  <2>2. f.path \in Nat /\ g.path \in Nat /\ f.path = g.path
      BY <2>1
  <2> QED BY <1>2, <2>2
<1> QED BY <1>1, <1>2 DEF Duplicates, Distinct

(* The linker finds nothing exactly if there are no duplicates and every   *)
(* record's links hold.                                                    *)
LEMMA LinksHold ==
  ASSUME NEW files
  PROVE  CheckGraph(files) = {} <=>
           /\ Duplicates(files) = {}
           /\ \A f \in files : Links({DocOf(g) : g \in files}, DocOf(f)) = {}
<1> DEFINE duplicates == Duplicates(files)
           rest == files \ duplicates
           docs == {DocOf(f) : f \in rest}
           A == {[code |-> "LINK_DUPLICATE_ADDRESS", path |-> f.path] : f \in duplicates}
           B(f) == {[code |-> c, path |-> f.path] : c \in Links(docs, DocOf(f))}
<1>1. CheckGraph(files) = A \cup UNION {B(f) : f \in rest}
    BY DEF CheckGraph
<1>2. A = {} <=> duplicates = {}
    OBVIOUS
<1>3. \A f : B(f) = {} <=> Links(docs, DocOf(f)) = {}
    OBVIOUS
<1>4. duplicates = {} => rest = files /\ docs = {DocOf(g) : g \in files}
    OBVIOUS
<1> HIDE DEF duplicates, rest, docs, A, B
<1>5. CheckGraph(files) = {} <=> A = {} /\ \A f \in rest : B(f) = {}
    BY <1>1
<1> QED BY <1>2, <1>3, <1>4, <1>5 DEF duplicates

(* Files that hold what was released of some sources pass the linker       *)
(* exactly if they hold it once, if what was released passes it.           *)
LEMMA LinkedOnce ==
  ASSUME NEW sources, sources \subseteq Product.sources, CheckGraph(ReleasedIn(sources)) = {},
         {Member(f) : f \in AtRest(sources).files} = MembersOf(sources)
  PROVE  CheckGraph(AtRest(sources).files) = {} <=> Distinct(AtRest(sources).files)
<1> DEFINE files == AtRest(sources).files
           released == ReleasedIn(sources)
<1>1. sources \subseteq DOMAIN Rank
    BY ManifestAtRelease DEF Product, PinnedManifests
<1>2. Duplicates(files) = {} <=> Distinct(files)
    BY <1>1, RestPaths, DuplicatesDistinct
<1>3. \A f \in released : Links({DocOf(g) : g \in released}, DocOf(f)) = {}
    BY LinksHold
<1>4. {Member(f) : f \in released} = MembersOf(sources)
  <2>1. Product.members = {Member(f) : f \in GraphAtRelease("manifest").records}
      BY ManifestAtRelease DEF Product, PinnedManifests, Members
  <2>2. \A f : Member(f).source = f.source
      BY DEF Member
  <2> QED BY <2>1, <2>2 DEF ReleasedIn, MembersOf
<1>5. \A f \in files : \E g \in released : Member(f) = Member(g)
    BY <1>4
<1>6. \A g \in released : \E f \in files : Member(f) = Member(g)
    BY <1>4
<1>7. \A f, g : Member(f) = Member(g) => DocOf(f) = DocOf(g)
    BY DEF Member, DocOf
<1> HIDE DEF files, released
<1>8. {DocOf(f) : f \in files} = {DocOf(g) : g \in released}
    BY <1>5, <1>6, <1>7
<1>9. \A f \in files : Links({DocOf(g) : g \in files}, DocOf(f)) = {}
    BY <1>3, <1>5, <1>7, <1>8
<1>10. CheckGraph(files) = {} <=> Distinct(files)
    BY <1>2, <1>9, LinksHold
<1> QED BY <1>10 DEF files

(* The product's manifest is one that is pinned, and each theory and       *)
(* package has a role.                                                     *)
LEMMA ProductAtRelease ==
  /\ Product.sources = {Theory, RustSource, TypescriptSource, ConsumerSource}
  /\ Product.sources \subseteq DOMAIN Rank
  /\ ManifestDiagnostics(Product) = {}
  /\ \A x, y \in Product.members : x.address = y.address => x = y
  /\ \A s \in Product.sources : MembersOf({s}) # {}
  /\ MembersOf(Product.sources) = Product.members
  /\ CheckGraph(ReleasedIn({Theory})) = {}
  /\ \A p \in {RustSource, TypescriptSource} : CheckGraph(ReleasedIn({Theory, p})) = {}
  /\ CheckGraph(ReleasedIn(Product.sources)) = {}
<1>1. "manifest" \in PinnedManifests
    BY DEF PinnedManifests
<1>2. /\ Product.sources \subseteq DOMAIN Rank
      /\ ManifestDiagnostics(Product) = {}
      /\ CheckGraph(GraphAtRelease("manifest").records) = {}
      /\ GraphAtRelease("manifest").records = {RecordAt(p) : p \in PathsOf(Product.sources)}
    BY <1>1, ManifestAtRelease DEF Product
<1>3. /\ Product.sources = {Theory, RustSource, TypescriptSource, ConsumerSource}
      /\ \A s \in Product.sources : Approved(Product, s) # {}
      /\ CheckGraph(ReleasedIn({Theory})) = {}
      /\ \A p \in {RustSource, TypescriptSource} : CheckGraph(ReleasedIn({Theory, p})) = {}
    BY ReleaseAssumption DEF ReleasedViews, Product, ReleasedIn
<1>4. \A s : Approved(Product, s) = MembersOf({s})
    BY DEF Approved, MembersOf
<1>5. \A x, y \in Product.members : x.address = y.address => x = y
    BY <1>2 DEF ManifestDiagnostics
<1>6. \A x \in Product.members : x.source \in Product.sources
    BY <1>2 DEF ManifestDiagnostics
<1>7. MembersOf(Product.sources) = Product.members
    BY <1>6 DEF MembersOf
<1>8. ReleasedIn(Product.sources) = GraphAtRelease("manifest").records
    BY <1>2 DEF ReleasedIn, RecordAt, PathsOf
<1> QED BY <1>2, <1>3, <1>4, <1>5, <1>7, <1>8

(* Nothing is in the way of publishing the theory or registering a package *)
(* but the files.                                                          *)
LEMMA SelectorsPass ==
  /\ TheorySelector(Product, Theory) = {}
  /\ \A p \in {RustSource, TypescriptSource} : RegistrationSelector(Product, Theory, p) = {}
<1> DEFINE g == GraphAtRelease("manifest")
           registered(p) == ProjectRegistration(g, Product, Theory, p)
<1>1. ProductProblems(g, Product) = {}
    BY ReleaseAssumption DEF ReleasedDecisions, Product
<1>2. /\ ProjectPublication(g, Product, Theory) = {}
      /\ registered(RustSource) = {} /\ registered(TypescriptSource) = {}
  <2>1. Clean(g)
      BY DEF Clean, GraphAtRelease
  <2> HIDE DEF g
  <2> QED BY <1>1, <2>1 DEF ProductProblems
<1> HIDE DEF g
<1>3. TheorySelector(Product, Theory) = {}
    BY <1>2 DEF ProjectPublication
<1>4. \A p \in {RustSource, TypescriptSource} : RegistrationSelector(Product, Theory, p) = {}
    BY <1>2 DEF ProjectRegistration
<1> QED BY <1>3, <1>4

(* The whole graph is as declared exactly if all sources are in order.     *)
LEMMA WholeInOrder ==
  IsWhole(Product, AtRest(Product.sources)) <=> InOrderAt(Product.sources)
<1> DEFINE all == Product.sources
           rest == AtRest(all)
           files == rest.files
<1>1. /\ all \subseteq DOMAIN Rank /\ ManifestDiagnostics(Product) = {}
      /\ MembersOf(all) = Product.members /\ CheckGraph(ReleasedIn(all)) = {}
    BY ProductAtRelease
<1>2. {f \in files : f.source \in all} = files
    BY <1>1, RestFiles
<1>3. Observation(Product, files).diagnostics =
        IF CheckGraph(files) # {} THEN CheckGraph(files) ELSE MembershipDiagnostics(files, Product.members)
  <2> HIDE DEF files, all
  <2>1. Observation(Product, files) =
          [records |-> files,
           diagnostics |-> IF CheckGraph(files) # {} THEN CheckGraph(files)
                           ELSE MembershipDiagnostics(files, Product.members)]
      BY <1>1, <1>2 DEF Observation, all
  <2> QED BY <2>1
<1>4. MembershipDiagnostics(files, Product.members) = {} <=> {Member(f) : f \in files} = Product.members
  <2>1. ASSUME {Member(f) : f \in files} = Product.members
        PROVE  MembershipDiagnostics(files, Product.members) = {}
    <3> DEFINE members == Product.members
    <3> HIDE DEF files, members
    <3>1. {Member(f) : f \in files} = members
        BY <2>1 DEF members
    <3>2. MembershipDiagnostics(files, members) = {}
        BY <3>1 DEF MembershipDiagnostics
    <3> QED BY <3>2 DEF members
  <2> QED BY <1>1, <2>1, MembersListed
<1>5. rest.problems # {} => ~IsWhole(Product, rest)
  <2> HIDE DEF rest, files
  <2>1. SUFFICES ASSUME rest.problems # {} PROVE ~IsWhole(Product, rest)
      OBVIOUS
  <2>2. CapturedGraph(Product, rest.files, rest.problems).diagnostics
          = {[code |-> c, path |-> 0] : c \in rest.problems}
      BY <2>1 DEF CapturedGraph
  <2> QED BY <2>1, <2>2 DEF IsWhole, Clean
<1>6. rest.problems = {} => (IsWhole(Product, rest) <=> Observation(Product, files).diagnostics = {})
    BY DEF IsWhole, Clean, CapturedGraph
<1>7. ASSUME {Member(f) : f \in files} = Product.members
      PROVE  CheckGraph(files) = {} <=> Distinct(files)
    BY <1>1, <1>7, LinkedOnce
<1> HIDE DEF rest, files
<1>8. IsWhole(Product, rest) <=>
        rest.problems = {} /\ Distinct(files) /\ {Member(f) : f \in files} = Product.members
    BY <1>3, <1>4, <1>5, <1>6, <1>7
<1> QED BY <1>1, <1>8 DEF InOrderAt, rest, files

(* The files of some sources are among those of more.                      *)
LEMMA Among ==
  ASSUME NEW sources, sources \subseteq DOMAIN Rank, NEW some, some \subseteq sources
  PROVE  AtRest(some).files = {f \in AtRest(sources).files : f.source \in some}
<1> DEFINE Good(f) == /\ f.path \in ListedAt(f.source).paths
                      /\ RecordProblems(disk.files[f.path]) = {}
                      /\ f = FileAt(f.path)
<1>1. \A f : f \in AtRest(sources).files <=> f.source \in sources /\ Good(f)
    BY RestFiles
<1>2. \A f : f \in AtRest(some).files <=> f.source \in some /\ Good(f)
  <2>1. some \subseteq DOMAIN Rank
      OBVIOUS
  <2> QED BY <2>1, RestFiles
<1> HIDE DEF Good
<1> QED BY <1>1, <1>2

(* A package is registered exactly if its theory and it are in order.      *)
LEMMA RegisteredInOrder ==
  ASSUME NEW p \in {RustSource, TypescriptSource}
  PROVE  IsRegistered(Product, AtRest({Theory, p}), p) <=> InOrderAt({Theory, p})
<1> DEFINE both == {Theory, p}
           rest == AtRest(both)
           files == rest.files
           union == From(files, Theory) \cup From(files, p)
           approved == Approved(Product, Theory) \cup Approved(Product, p)
           Key(x) == <<x.source, x.address>>
<1>1. /\ both \subseteq Product.sources /\ both \subseteq DOMAIN Rank
      /\ CheckGraph(ReleasedIn(both)) = {}
    BY ProductAtRelease
<1>2. union = files
  <2>1. \A f \in files : f.source \in both
      BY <1>1, RestFiles
  <2> HIDE DEF files
  <2> QED BY <2>1 DEF From
<1>3. approved = MembersOf(both)
    BY DEF Approved, MembersOf
<1>4. \A x, y \in approved : x.address = y.address => x = y
    BY <1>3, ProductAtRelease DEF MembersOf
<1>5. RegistrationDiagnostics(files, Approved(Product, Theory), Approved(Product, p)) = {}
        <=> {Member(f) : f \in files} = approved
  <2> DEFINE observed == {Key(Member(f)) : f \in files}
             expected == {Key(x) : x \in approved}
  <2>1. RegistrationDiagnostics(files, Approved(Product, Theory), Approved(Product, p)) =
          {"REGISTRATION_MISSING_ADDRESS" : k \in expected \ observed}
            \cup {"REGISTRATION_UNEXPECTED_ADDRESS" : k \in observed \ expected}
            \cup {"REGISTRATION_SOURCE_DIGEST_MISMATCH" :
                    f \in {g \in files : Key(Member(g)) \in expected /\ Member(g) \notin approved}}
      BY DEF RegistrationDiagnostics
  <2> HIDE DEF files, approved
  <2>2. RegistrationDiagnostics(files, Approved(Product, Theory), Approved(Product, p)) = {} <=>
          /\ expected = observed
          /\ \A g \in files : Key(Member(g)) \in expected => Member(g) \in approved
      BY <2>1
  <2>3. ASSUME expected = observed, \A g \in files : Key(Member(g)) \in expected => Member(g) \in approved
        PROVE  {Member(f) : f \in files} = approved
    <3>1. \A f \in files : Member(f) \in approved
        BY <2>3
    <3>2. ASSUME NEW x \in approved PROVE \E f \in files : Member(f) = x
      <4>1. PICK f \in files : Key(Member(f)) = Key(x)
          BY <2>3
      <4>2. Member(f).address = x.address
          BY <4>1
      <4> QED BY <1>4, <3>1, <4>2
    <3> QED BY <3>1, <3>2
  <2>4. ASSUME {Member(f) : f \in files} = approved
        PROVE  /\ expected = observed
               /\ \A g \in files : Key(Member(g)) \in expected => Member(g) \in approved
      BY <2>4
  <2> QED BY <2>2, <2>3, <2>4
<1>6. ASSUME {Member(f) : f \in files} = approved
      PROVE  CheckGraph(files) = {} <=> Distinct(files)
    BY <1>1, <1>3, <1>6, LinkedOnce
<1>7. Codes(CheckGraph(files)) = {} <=> CheckGraph(files) = {}
    BY DEF Codes
<1>8. IsRegistered(Product, rest, p) <=>
        /\ rest.problems = {}
        /\ CheckGraph(files) = {}
        /\ RegistrationDiagnostics(files, Approved(Product, Theory), Approved(Product, p)) = {}
    BY <1>2, <1>7, SelectorsPass DEF IsRegistered, Registration
<1> HIDE DEF rest, files, approved
<1> QED BY <1>3, <1>5, <1>6, <1>8 DEF InOrderAt, rest, files

(* A theory in order is published.                                         *)
LEMMA PublishedInOrder ==
  ASSUME InOrderAt({Theory})
  PROVE  IsPublished(Product, AtRest({Theory}))
<1> DEFINE rest == AtRest({Theory})
           files == rest.files
           approved == Approved(Product, Theory)
<1>1. /\ {Theory} \subseteq Product.sources /\ {Theory} \subseteq DOMAIN Rank
      /\ CheckGraph(ReleasedIn({Theory})) = {}
    BY ProductAtRelease
<1>2. From(files, Theory) = files
  <2>1. \A f \in files : f.source \in {Theory}
      BY <1>1, RestFiles
  <2> HIDE DEF files
  <2> QED BY <2>1 DEF From
<1>3. approved = MembersOf({Theory})
    BY DEF Approved, MembersOf
<1>4. rest.problems = {} /\ Distinct(files) /\ {Member(f) : f \in files} = approved
    BY <1>3 DEF InOrderAt
<1>5. CheckGraph(files) = {}
    BY <1>1, <1>3, <1>4, LinkedOnce
<1> HIDE DEF rest, files, approved
<1>6. PublicationDiagnostics(files, approved) = {}
  <2>1. {AddressOf(DocOf(f)) : f \in files} = {x.address : x \in approved}
    <3>1. \A f : Member(f).address = AddressOf(DocOf(f))
        BY DEF Member
    <3> QED BY <1>4, <3>1
  <2>2. \A f \in files : Member(f) \in approved
      BY <1>4
  <2> QED BY <2>1, <2>2 DEF PublicationDiagnostics
<1>7. Codes(CheckGraph(files)) = {}
    BY <1>5 DEF Codes
<1>8. Publication(Product, files, rest.problems, Theory) = {}
    BY <1>2, <1>4, <1>6, <1>7, SelectorsPass DEF Publication, approved
<1> QED BY <1>8 DEF IsPublished, rest, files

(* The consumer's source is as declared exactly if it is in order.         *)
LEMMA ConsumedInOrder ==
  IsConsumed(Product, AtRest({ConsumerSource}), ConsumerSource) <=> InOrderAt({ConsumerSource})
<1> DEFINE files == AtRest({ConsumerSource}).files
<1>1. {ConsumerSource} \subseteq DOMAIN Rank
    BY ProductAtRelease
<1>2. Duplicates(files) = {} <=> Distinct(files)
    BY <1>1, RestPaths, DuplicatesDistinct
<1>3. Approved(Product, ConsumerSource) = MembersOf({ConsumerSource})
    BY DEF Approved, MembersOf
<1> HIDE DEF files
<1> QED BY <1>2, <1>3 DEF IsConsumed, InOrderAt, files

(* Of sources that are in order some are.                                  *)
LEMMA SomeInOrder ==
  ASSUME NEW sources, sources \subseteq Product.sources, InOrderAt(sources),
         NEW some, some \subseteq sources, some # {}
  PROVE  InOrderAt(some)
<1> DEFINE files == AtRest(sources).files
           few == AtRest(some).files
<1>1. sources \subseteq DOMAIN Rank /\ some \subseteq DOMAIN Rank
    BY ProductAtRelease
<1>2. few = {f \in files : f.source \in some}
    BY <1>1, Among
<1>3. Distinct(files) /\ {Member(f) : f \in files} = MembersOf(sources)
    BY DEF InOrderAt
<1> HIDE DEF files, few
<1>4. {Member(f) : f \in few} = MembersOf(some)
  <2>1. \A f : Member(f).source = f.source
      BY DEF Member
  <2>2. \A x \in MembersOf(some) : x \in MembersOf(sources) /\ x.source \in some
      BY DEF MembersOf
  <2>3. \A x \in MembersOf(sources) : x.source \in some => x \in MembersOf(some)
      BY DEF MembersOf
  <2> QED BY <1>2, <1>3, <2>1, <2>2, <2>3
<1>5. Distinct(few)
    BY <1>2, <1>3 DEF Distinct
<1>6. AtRest(some).problems = {}
  <2>1. \A s \in sources :
          /\ ListedAt(s).problems = {}
          /\ \A p \in ListedAt(s).paths : RecordProblems(disk.files[p]) = {}
      BY RestProblems DEF InOrderAt
  <2>2. PathsAt(some) # {}
    <3>1. PICK s \in some : TRUE
        OBVIOUS
    <3>2. PICK x : x \in MembersOf({s})
        BY <3>1, ProductAtRelease
    <3>3. x \in MembersOf(some)
        BY <3>1, <3>2 DEF MembersOf
    <3>4. PICK f \in few : Member(f) = x
        BY <1>4, <3>3
    <3>5. f.source \in some /\ f.path \in ListedAt(f.source).paths
        BY <1>1, <3>4, RestFiles DEF few
    <3> QED BY <3>5 DEF PathsAt
  <2> QED BY <2>1, <2>2, RestProblems
<1> QED BY <1>4, <1>5, <1>6 DEF InOrderAt, few

(* Sources that are each in order are in order together: no two of them    *)
(* are to hold one address.                                                *)
LEMMA AllInOrder ==
  ASSUME NEW sources, sources \subseteq Product.sources, sources # {},
         \A s \in sources : InOrderAt({s})
  PROVE  InOrderAt(sources)
<1> DEFINE files == AtRest(sources).files
           Few(s) == AtRest({s}).files
<1>1. sources \subseteq DOMAIN Rank
    BY ProductAtRelease
<1>2. ASSUME NEW s \in sources PROVE Few(s) = {f \in files : f.source = s}
  <2>1. {s} \subseteq sources
      OBVIOUS
  <2>2. Few(s) = {f \in files : f.source \in {s}}
      BY <1>1, <2>1, Among
  <2> QED BY <2>2
<1>3. \A f \in files : f.source \in sources
    BY <1>1, RestFiles
<1>4. \A s \in sources : Distinct(Few(s)) /\ {Member(f) : f \in Few(s)} = MembersOf({s})
    BY DEF InOrderAt
<1> HIDE DEF files, Few
<1>5. {Member(f) : f \in files} = MembersOf(sources)
  <2>1. ASSUME NEW f \in files PROVE Member(f) \in MembersOf(sources)
    <3>1. f.source \in sources /\ f \in Few(f.source)
        BY <1>2, <1>3
    <3>2. Member(f) \in MembersOf({f.source})
        BY <1>4, <3>1
    <3> QED BY <3>1, <3>2 DEF MembersOf
  <2>2. ASSUME NEW x \in MembersOf(sources) PROVE \E f \in files : Member(f) = x
    <3>1. x.source \in sources /\ x \in MembersOf({x.source})
        BY DEF MembersOf
    <3>2. PICK f \in Few(x.source) : Member(f) = x
        BY <1>4, <3>1
    <3> QED BY <1>2, <3>1, <3>2
  <2> QED BY <2>1, <2>2
<1>6. Distinct(files)
  <2>1. SUFFICES ASSUME NEW f \in files, NEW g \in files, AddressOf(DocOf(f)) = AddressOf(DocOf(g))
                 PROVE  f = g
      BY DEF Distinct
  <2>2. Member(f) \in Product.members /\ Member(g) \in Product.members
      BY <1>5 DEF MembersOf
  <2>3. Member(f).address = Member(g).address
      BY <2>1 DEF Member
  <2>4. Member(f) = Member(g)
      BY <2>2, <2>3, ProductAtRelease
  <2>5. f.source = g.source
      BY <2>4 DEF Member
  <2>6. f \in Few(f.source) /\ g \in Few(f.source) /\ f.source \in sources
      BY <1>2, <1>3, <2>5
  <2> QED BY <1>4, <2>1, <2>6 DEF Distinct
<1>7. AtRest(sources).problems = {}
  <2>1. \A s \in sources :
          /\ PathsAt({s}) # {}
          /\ ListedAt(s).problems = {}
          /\ \A p \in ListedAt(s).paths : RecordProblems(disk.files[p]) = {}
      BY RestProblems DEF InOrderAt
  <2>2. PathsAt(sources) # {}
      BY <2>1 DEF PathsAt
  <2> QED BY <2>1, <2>2, RestProblems
<1> QED BY <1>5, <1>6, <1>7 DEF InOrderAt, files

(* Over any files, the views of the product agree.                         *)
LEMMA AgreeAtRest == ViewsAgree
<1> DEFINE packages == {RustSource, TypescriptSource}
           all == Product.sources
           published == IsPublished(Product, AtRest({Theory}))
           registered == [p \in packages |-> IsRegistered(Product, AtRest({Theory, p}), p)]
           consumed == IsConsumed(Product, AtRest({ConsumerSource}), ConsumerSource)
           whole == IsWhole(Product, AtRest(all))
<1>1. all = {Theory, RustSource, TypescriptSource, ConsumerSource}
    BY ProductAtRelease
<1>2. ASSUME NEW p \in packages PROVE registered[p] <=> InOrderAt({Theory, p})
    BY RegisteredInOrder
<1>3. ASSUME NEW p \in packages, registered[p]
      PROVE  InOrderAt({Theory}) /\ InOrderAt({p}) /\ published
  <2>1. InOrderAt({Theory, p}) /\ {Theory, p} \subseteq all
      BY <1>1, <1>2, <1>3
  <2> HIDE DEF all
  <2>2. InOrderAt({Theory}) /\ InOrderAt({p})
      BY <2>1, SomeInOrder DEF all
  <2> QED BY <2>2, PublishedInOrder
<1>4. ASSUME whole PROVE published /\ consumed /\ \A p \in packages : registered[p]
  <2>1. InOrderAt(all)
      BY <1>4, WholeInOrder
  <2>2. InOrderAt({ConsumerSource}) /\ \A p \in packages : InOrderAt({Theory, p})
      BY <1>1, <2>1, SomeInOrder
  <2>3. \A p \in packages : registered[p]
      BY <1>2, <2>2
  <2>4. published
      BY <1>3, <2>3
  <2> QED BY <2>2, <2>3, <2>4, ConsumedInOrder
<1>5. ASSUME consumed, \A p \in packages : registered[p] PROVE whole
  <2>1. InOrderAt({ConsumerSource})
      BY <1>5, ConsumedInOrder
  <2>2. InOrderAt({Theory}) /\ \A p \in packages : InOrderAt({p})
      BY <1>3, <1>5
  <2>3. \A s \in all : InOrderAt({s})
      BY <1>1, <2>1, <2>2
  <2>4. InOrderAt(all)
      BY <1>1, <2>3, AllInOrder
  <2> QED BY <2>4, WholeInOrder
<1>6. DOMAIN registered = packages
    OBVIOUS
<1> HIDE DEF packages, all, published, registered, consumed, whole
<1>7. Agree(published, registered, consumed, whole)
    BY <1>3, <1>4, <1>5, <1>6, Zenon DEF Agree
<1> QED BY <1>7 DEF ViewsAgree, Product, packages, all, published, registered, consumed, whole

(* The publication of a theory, the registration of each package with it   *)
(* and the inspection of the whole graph never disagree, whatever the      *)
(* files are when they are taken (publication.py, registration.py,         *)
(* inspect_manifest_graph).                                                *)
THEOREM ViewsNeverDisagree == Spec => []ViewsAgree
<1>1. ViewsAgree
    BY AgreeAtRest
<1> QED BY <1>1, PTL

-----------------------------------------------------------------------------
(* The choices made for the two packages. *)

(* What is a package's own among some documents.                           *)
OwnDocs(docs, p) == {d \in docs : AddressOf(d) \in OwnOf(p)}

(* The package's own is there, and what is said of its realization, or for *)
(* what is said of it, is its own too.                                     *)
KeepsToItself(docs, p) ==
  /\ OneEach(docs)
  /\ OwnOf(p) \subseteq Addresses(docs)
  /\ \A c \in OfKind(docs, "claim") :
       c.subject = RealizationOf(p, "0.2.0") => AddressOf(c) \in PackageAddresses(p, "0.2.0", "claim")
  /\ \A e \in OfKind(docs, "evidence") :
       e.claim \in PackageAddresses(p, "0.2.0", "claim") =>
         AddressOf(e) \in PackageAddresses(p, "0.2.0", "evidence")

(* What _structural_diagnostics leaves to rely on.                         *)
LEMMA StructureHolds ==
  ASSUME NEW graph, StructuralProblems(graph) = {}
  PROVE  /\ Addresses(Docs(graph)) = ExpectedAddresses
         /\ Cardinality(Addresses(Docs(graph))) = Cardinality(graph.records)
         /\ \A p \in DOMAIN Packages, d \in DOMAIN DeclarationConcern :
              ClaimInScope(Docs(graph), p, d) /\ EvidenceInScope(Docs(graph), p, d)
<1> DEFINE known == Addresses(Docs(graph))
           each == (DOMAIN Packages) \X (DOMAIN DeclarationConcern)
<1>1. known \subseteq ExpectedAddresses /\ ExpectedAddresses \subseteq known
    BY DEF StructuralProblems
<1>2. Cardinality(known) = Cardinality(graph.records)
    BY DEF StructuralProblems
<1>3. \A x \in each : ClaimInScope(Docs(graph), x[1], x[2]) /\ EvidenceInScope(Docs(graph), x[1], x[2])
    BY DEF StructuralProblems
<1>4. ASSUME NEW p \in DOMAIN Packages, NEW d \in DOMAIN DeclarationConcern
      PROVE  ClaimInScope(Docs(graph), p, d) /\ EvidenceInScope(Docs(graph), p, d)
  <2>1. <<p, d>> \in each
      OBVIOUS
  <2> HIDE DEF each
  <2> QED BY <1>3, <2>1
<1> QED BY <1>1, <1>2, <1>4

(* As many addresses as records leave no two records one address.          *)
LEMMA CountedOnce ==
  ASSUME NEW graph, IsFiniteSet(graph.records),
         Cardinality(Addresses(Docs(graph))) = Cardinality(graph.records)
  PROVE  OneEach(Docs(graph))
<1> DEFINE S == graph.records
           T == Addresses(Docs(graph))
           address == [f \in S |-> AddressOf(DocOf(f))]
<1>1. \A f \in S : AddressOf(DocOf(f)) \in T
    BY DEF Addresses, Docs
<1>2. \A t \in T : \E f \in S : AddressOf(DocOf(f)) = t
    BY DEF Addresses, Docs
<1>3. IsFiniteSet(S) /\ Cardinality(S) = Cardinality(T)
    OBVIOUS
<1>4. address \in Surjection(S, T)
  <2> HIDE DEF T, S
  <2> QED BY <1>1, <1>2 DEF Surjection
<1>5. address \in Injection(S, T)
  <2> HIDE DEF S, T, address
  <2> QED BY <1>3, <1>4, FS_SurjSameCardinalityImpliesInj
<1>6. \A f, g \in S : address[f] = address[g] => f = g
  <2> HIDE DEF S, T, address
  <2>1. address \in [S -> T]
      BY <1>5 DEF Injection
  <2> QED BY <1>5, <2>1 DEF Injection, IsInjective
<1>7. ASSUME NEW a \in Docs(graph), NEW b \in Docs(graph), AddressOf(a) = AddressOf(b)
      PROVE  a = b
  <2>1. PICK f \in S : DocOf(f) = a
      BY DEF Docs
  <2>2. PICK g \in S : DocOf(g) = b
      BY DEF Docs
  <2>3. address[f] = address[g]
      BY <1>7, <2>1, <2>2
  <2> HIDE DEF address
  <2> QED BY <1>6, <2>1, <2>2, <2>3
<1> QED BY <1>7 DEF OneEach

(* The release has one document of each address, for its manifest has.     *)
LEMMA ReleasedOnce ==
  ASSUME NEW name \in PinnedManifests
  PROVE  OneEach(Docs(GraphAtRelease(name)))
<1>1. Members(GraphAtRelease(name)) = PinnedManifest(name).members
    BY ReleaseAssumption DEF ReleasedManifests
<1> QED BY <1>1, ListedSound

(* An address stands for the document that has it.                         *)
LEMMA AtOf ==
  ASSUME NEW docs, OneEach(docs), NEW d \in docs
  PROVE  At(docs, AddressOf(d)) = d
<1>1. At(docs, AddressOf(d)) \in docs /\ AddressOf(At(docs, AddressOf(d))) = AddressOf(d)
    BY DEF At
<1> QED BY <1>1 DEF OneEach

(* Claims and evidence there are of both packages, at both versions.       *)
LEMMA ExpectedKinds ==
  ASSUME NEW a \in ExpectedAddresses
  PROVE  /\ a.kind = "claim" =>
              \E p \in DOMAIN Packages, v \in {"0.1.0", "0.2.0"}, d \in DOMAIN DeclarationConcern :
                a = ClaimOf(p, d, v)
         /\ a.kind = "evidence" =>
              \E p \in DOMAIN Packages, v \in {"0.1.0", "0.2.0"}, d \in DOMAIN DeclarationConcern :
                a = EvidenceOf(p, d, v)
<1>1. CASE a \in {AsciiFold, NativeProcess, DenoSandbox, Specification, Successor,
                  BoundedPolicy("0.1.0"), BoundedPolicy("0.2.0"), NativePolicy, DenoPolicy}
    BY <1>1 DEF AsciiFold, NativeProcess, DenoSandbox, Specification, Successor,
                BoundedPolicy, NativePolicy, DenoPolicy, Ref
<1>2. CASE \E p \in DOMAIN Packages, v \in {"0.1.0", "0.2.0"} :
             a \in {RealizationOf(p, v)} \cup PackageAddresses(p, v, "claim") \cup PackageAddresses(p, v, "evidence")
  <2>1. PICK p \in DOMAIN Packages, v \in {"0.1.0", "0.2.0"} :
          a \in {RealizationOf(p, v)} \cup PackageAddresses(p, v, "claim") \cup PackageAddresses(p, v, "evidence")
      BY <1>2
  <2>2. CASE a = RealizationOf(p, v)
      BY <2>2 DEF RealizationOf, Ref
  <2>3. CASE a \in PackageAddresses(p, v, "claim")
    <3>1. PICK d \in DOMAIN DeclarationConcern : a = ClaimOf(p, d, v)
        BY <2>3 DEF PackageAddresses
    <3>2. a.kind = "claim"
        BY <3>1 DEF ClaimOf, Ref
    <3> QED BY <3>1, <3>2
  <2>4. CASE a \in PackageAddresses(p, v, "evidence")
    <3>1. PICK d \in DOMAIN DeclarationConcern : a = EvidenceOf(p, d, v)
        BY <2>4 DEF PackageAddresses
    <3>2. a.kind = "evidence"
        BY <3>1 DEF EvidenceOf, Ref
    <3> QED BY <3>1, <3>2
  <2> QED BY <2>1, <2>2, <2>3, <2>4
<1> QED BY <1>1, <1>2 DEF ExpectedAddresses

(* A package's own is among what is expected.                              *)
LEMMA OwnExpected ==
  ASSUME NEW p \in DOMAIN Packages
  PROVE  OwnOf(p) \subseteq ExpectedAddresses
<1>1. Packages[p].policy \in {NativePolicy, DenoPolicy} /\ Packages[p].profile \in {NativeProcess, DenoSandbox}
    BY DEF Packages
<1>2. {Packages[p].policy, Packages[p].profile, Specification} \subseteq ExpectedAddresses
    BY <1>1 DEF ExpectedAddresses
<1>3. {RealizationOf(p, "0.2.0")} \cup PackageAddresses(p, "0.2.0", "claim")
        \cup PackageAddresses(p, "0.2.0", "evidence") \subseteq ExpectedAddresses
  <2> DEFINE some(q, v) ==
        {RealizationOf(q, v)} \cup PackageAddresses(q, v, "claim") \cup PackageAddresses(q, v, "evidence")
  <2>1. UNION {some(q, v) : q \in DOMAIN Packages, v \in {"0.1.0", "0.2.0"}} \subseteq ExpectedAddresses
      BY DEF ExpectedAddresses
  <2> HIDE DEF some
  <2>2. some(p, "0.2.0") \subseteq ExpectedAddresses
      BY <2>1
  <2> QED BY <2>2 DEF some
<1> QED BY <1>2, <1>3 DEF OwnOf

(* The realizations of the packages are two.                               *)
LEMMA TwoRealizations ==
  ASSUME NEW p \in DOMAIN Packages, NEW q \in DOMAIN Packages, NEW v,
         RealizationOf(p, v) = RealizationOf(q, v)
  PROVE  p = q
<1>1. IdOf(p) = IdOf(q)
    BY DEF RealizationOf, Ref
<1>2. DOMAIN Packages = {"rust", "typescript"} /\ IdOf("rust") # IdOf("typescript")
    BY DEF Packages, IdOf
<1> QED BY <1>1, <1>2

(* If nothing of the version before is pointed at this one, each package   *)
(* keeps to itself.                                                        *)
LEMMA PackagesApart ==
  ASSUME NEW graph, StructuralProblems(graph) = {}, OneEach(Docs(graph)),
         NEW p \in DOMAIN Packages, ~Repointed(Docs(graph), p)
  PROVE  KeepsToItself(Docs(graph), p)
<1> DEFINE docs == Docs(graph)
<1>1. /\ Addresses(docs) = ExpectedAddresses
      /\ \A q \in DOMAIN Packages, d \in DOMAIN DeclarationConcern :
           ClaimInScope(docs, q, d) /\ EvidenceInScope(docs, q, d)
    BY StructureHolds
<1>2. OneEach(docs) /\ ~Repointed(docs, p)
    OBVIOUS
<1> HIDE DEF docs
<1>3. OwnOf(p) \subseteq Addresses(docs)
    BY <1>1, OwnExpected
<1>4. \A d \in docs : AddressOf(d) \in ExpectedAddresses /\ At(docs, AddressOf(d)) = d
    BY <1>1, <1>2, AtOf DEF Addresses
<1>5. ASSUME NEW c \in OfKind(docs, "claim"), c.subject = RealizationOf(p, "0.2.0")
      PROVE  AddressOf(c) \in PackageAddresses(p, "0.2.0", "claim")
  <2>1. c \in docs /\ AddressOf(c).kind = "claim" /\ AddressOf(c) = c.address
      BY DEF OfKind, AddressOf
  <2>2. c.address.version = "0.2.0"
      BY <1>2, <1>5 DEF Repointed
  <2>3. PICK q \in DOMAIN Packages, v \in {"0.1.0", "0.2.0"}, d \in DOMAIN DeclarationConcern :
          AddressOf(c) = ClaimOf(q, d, v)
      BY <1>4, <2>1, ExpectedKinds
  <2>4. v = "0.2.0"
      BY <2>1, <2>2, <2>3 DEF ClaimOf, Ref
  <2>5. c.subject = RealizationOf(q, "0.2.0")
      BY <1>1, <1>4, <2>1, <2>3, <2>4 DEF ClaimInScope
  <2>6. q = p
      BY <1>5, <2>5, TwoRealizations
  <2> QED BY <2>3, <2>4, <2>6 DEF PackageAddresses
<1>6. ASSUME NEW e \in OfKind(docs, "evidence"), e.claim \in PackageAddresses(p, "0.2.0", "claim")
      PROVE  AddressOf(e) \in PackageAddresses(p, "0.2.0", "evidence")
  <2>1. e \in docs /\ AddressOf(e).kind = "evidence" /\ AddressOf(e) = e.address
      BY DEF OfKind, AddressOf
  <2>2. e.address.version = "0.2.0"
      BY <1>2, <1>6 DEF Repointed
  <2>3. PICK q \in DOMAIN Packages, v \in {"0.1.0", "0.2.0"}, d \in DOMAIN DeclarationConcern :
          AddressOf(e) = EvidenceOf(q, d, v)
      BY <1>4, <2>1, ExpectedKinds
  <2>4. v = "0.2.0"
      BY <2>1, <2>2, <2>3 DEF EvidenceOf, Ref
  <2>5. e.claim = ClaimOf(q, d, "0.2.0")
      BY <1>1, <1>4, <2>1, <2>3, <2>4 DEF EvidenceInScope
  <2>6. PICK other \in DOMAIN DeclarationConcern : e.claim = ClaimOf(p, other, "0.2.0")
      BY <1>6 DEF PackageAddresses
  <2>7. At(docs, e.claim).subject = RealizationOf(q, "0.2.0")
      BY <1>1, <2>5 DEF ClaimInScope
  <2>8. At(docs, e.claim).subject = RealizationOf(p, "0.2.0")
      BY <1>1, <2>6 DEF ClaimInScope
  <2>9. q = p
      BY <2>7, <2>8, TwoRealizations
  <2> QED BY <2>3, <2>4, <2>9 DEF PackageAddresses
<1>7. KeepsToItself(docs, p)
    BY <1>2, <1>3, <1>5, <1>6 DEF KeepsToItself
<1> QED BY <1>7 DEF docs

(* Two sets of documents that have a package's own in common, and leave it *)
(* to itself, agree on all that is asked about the package.                *)
Alike(docs, other, p) ==
  /\ KeepsToItself(docs, p)
  /\ KeepsToItself(other, p)
  /\ OwnDocs(docs, p) = OwnDocs(other, p)

(* What an address of its own stands for.                                  *)
LEMMA AlikeAt ==
  ASSUME NEW docs, NEW other, NEW p, Alike(docs, other, p), NEW a \in OwnOf(p)
  PROVE  At(docs, a) = At(other, a)
<1>1. PICK d \in docs : AddressOf(d) = a
    BY DEF Alike, KeepsToItself, Addresses
<1>2. d \in other
    BY <1>1 DEF Alike, OwnDocs
<1>3. OneEach(docs) /\ OneEach(other)
    BY DEF Alike, KeepsToItself
<1> QED BY <1>1, <1>2, <1>3, AtOf

(* Its addresses of either kind are its own.                               *)
LEMMA OwnKinds ==
  ASSUME NEW p
  PROVE  /\ PackageAddresses(p, "0.2.0", "claim") \subseteq OwnOf(p)
         /\ PackageAddresses(p, "0.2.0", "evidence") \subseteq OwnOf(p)
         /\ {Packages[p].policy, Specification, RealizationOf(p, "0.2.0")} \subseteq OwnOf(p)
BY DEF OwnOf

(* The claims about its realization are the same.                          *)
LEMMA AlikeClaims ==
  ASSUME NEW docs, NEW other, NEW p, Alike(docs, other, p), NEW sel, NEW concern, NEW d
  PROVE  /\ TargetClaims(docs, sel, RealizationOf(p, "0.2.0"), concern, d)
              = TargetClaims(other, sel, RealizationOf(p, "0.2.0"), concern, d)
         /\ \A c \in TargetClaims(docs, sel, RealizationOf(p, "0.2.0"), concern, d) :
              AddressOf(c) \in PackageAddresses(p, "0.2.0", "claim")
<1> DEFINE real == RealizationOf(p, "0.2.0")
           claims == PackageAddresses(p, "0.2.0", "claim")
<1>1. ASSUME NEW x, NEW y, KeepsToItself(x, p), OwnDocs(x, p) = OwnDocs(y, p),
             NEW c \in TargetClaims(x, sel, real, concern, d)
      PROVE  c \in TargetClaims(y, sel, real, concern, d) /\ AddressOf(c) \in claims
  <2>1. c \in OfKind(x, "claim") /\ c.subject = real
      BY DEF TargetClaims
  <2>2. AddressOf(c) \in claims
      BY <1>1, <2>1 DEF KeepsToItself
  <2>3. c \in x /\ c.address.kind = "claim"
      BY <2>1 DEF OfKind
  <2>4. c \in y
      BY <1>1, <2>2, <2>3, OwnKinds DEF OwnDocs
  <2>5. c \in OfKind(y, "claim")
      BY <2>3, <2>4 DEF OfKind
  <2> QED BY <2>2, <2>5 DEF TargetClaims
<1> HIDE DEF real, claims
<1>2. \A c \in TargetClaims(docs, sel, real, concern, d) :
        c \in TargetClaims(other, sel, real, concern, d) /\ AddressOf(c) \in claims
    BY <1>1 DEF Alike
<1>3. \A c \in TargetClaims(other, sel, real, concern, d) : c \in TargetClaims(docs, sel, real, concern, d)
    BY <1>1 DEF Alike
<1> QED BY <1>2, <1>3 DEF real, claims

(* The evidence for claims of its own is the same.                         *)
LEMMA AlikeEvidence ==
  ASSUME NEW docs, NEW other, NEW p, Alike(docs, other, p),
         NEW claims, \A c \in claims : AddressOf(c) \in PackageAddresses(p, "0.2.0", "claim")
  PROVE  Linked(docs, claims) = Linked(other, claims)
<1>1. ASSUME NEW x, NEW y, KeepsToItself(x, p), OwnDocs(x, p) = OwnDocs(y, p), NEW e \in Linked(x, claims)
      PROVE  e \in Linked(y, claims)
  <2>1. PICK c \in claims : e.claim = AddressOf(c)
      BY DEF Linked
  <2>2. e \in OfKind(x, "evidence")
      BY DEF Linked
  <2>3. AddressOf(e) \in PackageAddresses(p, "0.2.0", "evidence")
      BY <1>1, <2>1, <2>2 DEF KeepsToItself
  <2>4. e \in x /\ e.address.kind = "evidence"
      BY <2>2 DEF OfKind
  <2>5. e \in y
      BY <1>1, <2>3, <2>4, OwnKinds DEF OwnDocs
  <2>6. e \in OfKind(y, "evidence")
      BY <2>4, <2>5 DEF OfKind
  <2> QED BY <2>1, <2>6 DEF Linked
<1>2. \A e \in Linked(docs, claims) : e \in Linked(other, claims)
    BY <1>1 DEF Alike
<1>3. \A e \in Linked(other, claims) : e \in Linked(docs, claims)
    BY <1>1 DEF Alike
<1> QED BY <1>2, <1>3

(* And so is what applies.                                                 *)
LEMMA AlikeApplicable ==
  ASSUME NEW docs, NEW other, NEW p, Alike(docs, other, p), NEW sel,
         NEW claims, \A c \in claims : AddressOf(c) \in PackageAddresses(p, "0.2.0", "claim")
  PROVE  Applicable(docs, sel, claims) = Applicable(other, sel, claims)
<1>1. \A c \in Selected(sel, claims) : AddressOf(c) \in PackageAddresses(p, "0.2.0", "claim")
    BY DEF Selected
<1> DEFINE selected == Selected(sel, claims)
<1> HIDE DEF selected
<1>2. Linked(docs, selected) = Linked(other, selected)
    BY <1>1, AlikeEvidence DEF selected
<1> QED BY <1>2 DEF Applicable, selected

(* So is what is said of the claims.                                       *)
LEMMA AlikeReasons ==
  ASSUME NEW docs, NEW other, NEW p, Alike(docs, other, p), NEW sel,
         NEW claims, \A c \in claims : AddressOf(c) \in PackageAddresses(p, "0.2.0", "claim")
  PROVE  ClaimReasons(docs, sel, claims) = ClaimReasons(other, sel, claims)
<1>1. ASSUME NEW c \in Selected(sel, claims) PROVE Linked(docs, {c}) = Linked(other, {c})
  <2>1. \A x \in {c} : AddressOf(x) \in PackageAddresses(p, "0.2.0", "claim")
      BY DEF Selected
  <2> QED BY <2>1, AlikeEvidence
<1> QED BY <1>1 DEF ClaimReasons

(* What is found of a concern is the same.                                 *)
LEMMA AlikeConcern ==
  ASSUME NEW docs, NEW other, NEW p \in DOMAIN Packages, Alike(docs, other, p), NEW entry
  PROVE  ConcernDisposition(docs, SelectionOf(p), RealizationOf(p, "0.2.0"), entry)
           = ConcernDisposition(other, SelectionOf(p), RealizationOf(p, "0.2.0"), entry)
<1> DEFINE sel == SelectionOf(p)
           real == RealizationOf(p, "0.2.0")
           targets == TargetsOf(docs, sel, real, entry)
           claims == AllOf(targets)
           own == PackageAddresses(p, "0.2.0", "claim")
           covered == Covered(At(docs, Specification), entry.concern)
           about(x, d) == TargetClaims(x, sel, real, entry.concern, d)
<1>1. At(docs, Specification) = At(other, Specification)
    BY AlikeAt, OwnKinds
<1>2. sel.specification = Specification
    BY DEF SelectionOf
<1>3. \A d : about(docs, d) = about(other, d) /\ \A c \in about(docs, d) : AddressOf(c) \in own
    BY AlikeClaims
<1>4. targets = [d \in covered |-> about(docs, d)]
    BY <1>2 DEF TargetsOf
<1>5. TargetsOf(other, sel, real, entry) = [d \in covered |-> about(other, d)]
    BY <1>1, <1>2 DEF TargetsOf
<1> HIDE DEF sel, real, targets, own, about, covered
<1>6. TargetsOf(other, sel, real, entry) = targets
    BY <1>3, <1>4, <1>5
<1>7. \A c \in claims : AddressOf(c) \in own
    BY <1>3, <1>4 DEF AllOf
<1> HIDE DEF claims
<1>8. /\ Linked(docs, claims) = Linked(other, claims)
      /\ Applicable(docs, sel, claims) = Applicable(other, sel, claims)
    BY <1>7, AlikeEvidence, AlikeApplicable DEF own
<1>9. ConcernAdmitted(docs, sel, claims, entry) = ConcernAdmitted(other, sel, claims, entry)
    BY <1>8 DEF ConcernAdmitted
<1>10. AllClaimReasons(docs, sel, targets) = AllClaimReasons(other, sel, targets)
  <2>1. ASSUME NEW d \in DOMAIN targets
        PROVE  ClaimReasons(docs, sel, targets[d]) = ClaimReasons(other, sel, targets[d])
    <3>1. \A c \in targets[d] : AddressOf(c) \in own
        BY <1>3, <1>4
    <3> QED BY <3>1, AlikeReasons DEF own
  <2> QED BY <2>1 DEF AllClaimReasons
<1>11. ConcernDisposition(docs, sel, real, entry) = ConcernDisposition(other, sel, real, entry)
    BY <1>6, <1>8, <1>9, <1>10 DEF ConcernDisposition, claims, targets
<1> QED BY <1>11 DEF sel, real

(* What is found of a prohibition is the same.                             *)
LEMMA AlikeProhibition ==
  ASSUME NEW docs, NEW other, NEW p \in DOMAIN Packages, Alike(docs, other, p), NEW entry
  PROVE  ChoiceProhibition(docs, SelectionOf(p), RealizationOf(p, "0.2.0"), Packages[p], entry)
           = ChoiceProhibition(other, SelectionOf(p), RealizationOf(p, "0.2.0"), Packages[p], entry)
<1> DEFINE sel == SelectionOf(p)
           real == RealizationOf(p, "0.2.0")
           package == Packages[p]
           claims == EffectClaims(docs, sel, real, entry)
           scope(x) == InChoiceScope(x, sel, real, package, entry)
<1>1. At(docs, Specification) = At(other, Specification) /\ At(docs, real) = At(other, real)
    BY AlikeAt, OwnKinds
<1> HIDE DEF sel, package
<1>2. /\ EffectClaims(other, sel, real, entry) = claims
      /\ \A c \in claims : AddressOf(c) \in PackageAddresses(p, "0.2.0", "claim")
    BY AlikeClaims DEF EffectClaims
<1> HIDE DEF claims
<1>3. /\ Linked(docs, claims) = Linked(other, claims)
      /\ Applicable(docs, sel, claims) = Applicable(other, sel, claims)
      /\ ClaimReasons(docs, sel, claims) = ClaimReasons(other, sel, claims)
    BY <1>2, AlikeEvidence, AlikeApplicable, AlikeReasons
<1>4. scope(docs) = scope(other)
  <2> DEFINE fits(e) ==
        /\ \E c \in claims : e.claim = AddressOf(c) /\ c.profiles = {package.profile}
        /\ e.scope = "realization"
        /\ e.mechanism = Campaign
        /\ e.profiles = {package.profile}
        /\ e.adapter = At(docs, real).adapter
        /\ e.observed = entry.declaration
        /\ e.plan = package.plan
  <2>1. scope(docs) = {e \in OfKind(docs, "evidence") : fits(e)}
      BY DEF InChoiceScope, claims
  <2>2. scope(other) = {e \in OfKind(other, "evidence") : fits(e)}
      BY <1>1, <1>2 DEF InChoiceScope
  <2>3. \A e : fits(e) => \E c \in claims : e.claim = AddressOf(c)
      OBVIOUS
  <2> HIDE DEF fits, scope
  <2>4. scope(docs) = {e \in Linked(docs, claims) : fits(e)}
      BY <2>1, <2>3 DEF Linked
  <2>5. scope(other) = {e \in Linked(other, claims) : fits(e)}
      BY <2>2, <2>3 DEF Linked
  <2> QED BY <1>3, <2>4, <2>5
<1> HIDE DEF real, scope
<1>5. \A s : ProhibitionBins(docs, sel, real, entry, s) = ProhibitionBins(other, sel, real, entry, s)
    BY <1>2, <1>3 DEF ProhibitionBins, claims
<1>6. \A bins : ChoiceReasons(docs, sel, claims, bins) = ChoiceReasons(other, sel, claims, bins)
    BY <1>3 DEF ChoiceReasons
<1>7. ChoiceProhibition(docs, sel, real, package, entry) = ChoiceProhibition(other, sel, real, package, entry)
    BY <1>1, <1>2, <1>4, <1>5, <1>6 DEF ChoiceProhibition, claims, scope
<1> QED BY <1>7 DEF sel, real, package

(* What of its ledgers is its own is the same.                             *)
LEMMA AlikeLedger ==
  ASSUME NEW docs, NEW other, NEW p, Alike(docs, other, p), NEW kind \in {"claim", "evidence"}
  PROVE  Ledger(docs, p, kind).selected = Ledger(other, p, kind).selected
<1> DEFINE own == PackageAddresses(p, "0.2.0", kind)
           present(x) == {AddressOf(d) : d \in OfKind(x, kind)}
<1>1. own \subseteq OwnOf(p)
    BY OwnKinds
<1>2. ASSUME NEW x, NEW y, OwnDocs(x, p) = OwnDocs(y, p), NEW a \in present(x) \cap own
      PROVE  a \in present(y)
  <2>1. PICK d \in OfKind(x, kind) : a = AddressOf(d)
      BY <1>2
  <2>2. d \in y
      BY <1>1, <1>2, <2>1 DEF OfKind, OwnDocs
  <2> QED BY <2>1, <2>2 DEF OfKind
<1>3. \A x : Ledger(x, p, kind).selected = present(x) \cap own
    BY DEF Ledger
<1> HIDE DEF own, present
<1>4. present(docs) \cap own = present(other) \cap own
  <2>1. \A a \in present(docs) \cap own : a \in present(other)
      BY <1>2 DEF Alike
  <2>2. \A a \in present(other) \cap own : a \in present(docs)
      BY <1>2 DEF Alike
  <2> QED BY <2>1, <2>2
<1> QED BY <1>3, <1>4

(* What a choice shows of a concern is what is found of it, with more that *)
(* does not apply.                                                         *)
LEMMA ConcernShown ==
  ASSUME NEW docs, NEW p, NEW sel, NEW entry
  PROVE  LET shown == ChoiceConcern(docs, p, sel, entry)
             disposed == ConcernDisposition(docs, sel, RealizationOf(p, "0.2.0"), entry)
         IN  shown.status = disposed.status /\ shown.blocks = disposed.blocks
BY DEF ChoiceConcern

(* So the verdict on the package is the same.                              *)
LEMMA AlikeVerdict ==
  ASSUME NEW docs, NEW other, NEW p \in DOMAIN Packages, Alike(docs, other, p)
  PROVE  Verdict(ResolveChoices(docs)[p]) = Verdict(ResolveChoices(other)[p])
<1> DEFINE sel == SelectionOf(p)
           package == Packages[p]
           real == RealizationOf(p, "0.2.0")
           policy == At(docs, package.policy)
           shown(x, entry) == ChoiceConcern(x, p, sel, entry)
           held(x, entry) == ChoiceProhibition(x, sel, real, package, entry)
           row(x, entry) == [entry |-> entry, disposition |-> shown(x, entry)]
           concerns(x) == {row(x, e) : e \in policy.concerns}
           prohibitions(x) == {held(x, e) : e \in policy.prohibitions}
           candidate(x) == [concerns |-> concerns(x), prohibitions |-> prohibitions(x)]
           stated(x) == {<<e.entry.concern, e.disposition.status>> : e \in concerns(x)}
<1>1. At(other, package.policy) = policy
    BY AlikeAt, OwnKinds
<1>2. \A e : shown(docs, e).status = shown(other, e).status /\ shown(docs, e).blocks = shown(other, e).blocks
    BY ConcernShown, AlikeConcern
<1>3. \A e : held(docs, e) = held(other, e)
    BY AlikeProhibition
<1>4. sel.policy = package.policy
    BY DEF SelectionOf
<1>5. /\ ResolveChoices(docs)[p] = Chosen(docs, p, candidate(docs))
      /\ ResolveChoices(other)[p] = Chosen(other, p, candidate(other))
    BY <1>1, <1>4 DEF ResolveChoices, Choice
<1> HIDE DEF sel, package, real, policy, shown, held
<1>13. \A x, e : row(x, e).entry = e /\ row(x, e).disposition = shown(x, e)
    OBVIOUS
<1> HIDE DEF row
<1>6. stated(docs) = stated(other)
  <2> DEFINE line(r) == <<r.entry.concern, r.disposition.status>>
  <2>1. \A e : line(row(docs, e)) = line(row(other, e))
      BY <1>2, <1>13
  <2>2. stated(docs) = {line(r) : r \in concerns(docs)} /\ stated(other) = {line(r) : r \in concerns(other)}
      OBVIOUS
  <2> HIDE DEF line, stated
  <2>3. \A x : {line(r) : r \in concerns(x)} = {line(row(x, e)) : e \in policy.concerns}
      OBVIOUS
  <2> HIDE DEF concerns
  <2>4. {line(row(docs, e)) : e \in policy.concerns} = {line(row(other, e)) : e \in policy.concerns}
      BY <2>1
  <2> QED BY <2>2, <2>3, <2>4
<1>7. prohibitions(docs) = prohibitions(other)
    BY <1>3
<1>8. \A x : (\A y \in concerns(x) : ~y.disposition.blocks)  <=> \A e \in policy.concerns : ~shown(x, e).blocks
    BY <1>13
<1> HIDE DEF concerns, prohibitions, stated
<1>9. Admits(candidate(docs)) = Admits(candidate(other))
    BY <1>2, <1>7, <1>8 DEF Admits
<1>10. /\ Ledger(docs, p, "claim").selected = Ledger(other, p, "claim").selected
       /\ Ledger(docs, p, "evidence").selected = Ledger(other, p, "evidence").selected
    BY AlikeLedger
<1>11. \A x : Verdict(Chosen(x, p, candidate(x))) =
              [acceptable |-> Admits(candidate(x)),
               concerns   |-> stated(x),
               claims     |-> Ledger(x, p, "claim").selected,
               evidence   |-> Ledger(x, p, "evidence").selected]
    BY DEF Verdict, Chosen, stated
<1> HIDE DEF candidate
<1>12. /\ Verdict(Chosen(docs, p, candidate(docs))) =
              [acceptable |-> Admits(candidate(docs)),
               concerns   |-> stated(docs),
               claims     |-> Ledger(docs, p, "claim").selected,
               evidence   |-> Ledger(docs, p, "evidence").selected]
       /\ Verdict(Chosen(other, p, candidate(other))) =
              [acceptable |-> Admits(candidate(other)),
               concerns   |-> stated(other),
               claims     |-> Ledger(other, p, "claim").selected,
               evidence   |-> Ledger(other, p, "evidence").selected]
    BY <1>11
<1> QED BY <1>5, <1>6, <1>9, <1>10, <1>12

(* A control that leaves a package's own alone leaves it in the documents. *)
LEMMA OwnUntouched ==
  ASSUME NEW g, NEW h, NEW p, Touched(g, h) \cap OwnOf(p) = {}
  PROVE  OwnDocs(Docs(g), p) = OwnDocs(Docs(h), p)
<1>1. ASSUME NEW d \in OwnDocs(Docs(g), p) PROVE d \in OwnDocs(Docs(h), p)
  <2>1. PICK f \in g.records : d = DocOf(f)
      BY DEF OwnDocs, Docs
  <2>2. AddressOf(DocOf(f)) \in OwnOf(p)
      BY <2>1 DEF OwnDocs
  <2>3. f \in h.records
      BY <2>2 DEF Touched
  <2> QED BY <2>1, <2>2, <2>3 DEF OwnDocs, Docs
<1>2. ASSUME NEW d \in OwnDocs(Docs(h), p) PROVE d \in OwnDocs(Docs(g), p)
  <2>1. PICK f \in h.records : d = DocOf(f)
      BY DEF OwnDocs, Docs
  <2>2. AddressOf(DocOf(f)) \in OwnOf(p)
      BY <2>1 DEF OwnDocs
  <2>3. f \in g.records
      BY <2>2 DEF Touched
  <2> QED BY <2>1, <2>2, <2>3 DEF OwnDocs, Docs
<1> QED BY <1>1, <1>2

(* What is put into the captured graph by others than the command changes  *)
(* the choice for a package only where it is about that package.           *)
(* (resolve_ordered_map_profile_choices, _structural_diagnostics)          *)
THEOREM ChoicesApart == Spec => []ChoicesStayApart
<1>1. IInv => ChoicesStayApart
  <2> DEFINE g == graphs[1]
             h == GraphAtRelease("choice")
  <2>1. SUFFICES ASSUME IInv, Decided, command = "profiles",
                        NEW p \in DOMAIN Packages,
                        Touched(g, GraphsAtRelease.profiles[1]) \cap OwnOf(p) = {}, ~Repointed(Docs(g), p)
                 PROVE  Verdict(report.decision[p]) = Verdict(DecisionAtRelease.profiles[p])
      BY DEF ChoicesStayApart
  <2>2. /\ GraphsAtRelease.profiles = <<h>> /\ GraphsAtRelease["profiles"] = <<h>>
        /\ "profiles" \in Commands /\ "choice" \in PinnedManifests
      BY FourCommands DEF GraphsAtRelease, PinnedManifests
  <2>3. 1 \in DOMAIN graphs
    <3>1. Len(graphs) = 1
        BY <2>1, FourCommands DEF IInv, Position, Captures, Contracted
    <3>2. PICK S : graphs \in Seq(S)
        BY <2>1 DEF IInv, Position, IsSequence
    <3> QED BY <3>1, <3>2
  <2>4. StructuralProblems(g) = {} /\ report.decision = ResolveChoices(Docs(g))
      BY <2>1 DEF IInv, DecidedSo, DecisionProblems, Decision
  <2>5. StructuralProblems(h) = {} /\ DecisionAtRelease.profiles = ResolveChoices(Docs(h))
        /\ ~Repointed(Docs(h), p)
    <3>1. DecisionProblems("profiles", <<h>>) = {}
        BY <2>2, ReleaseAssumption DEF ReleasedDecisions
    <3>2. DecisionAtRelease.profiles = Decision("profiles", <<h>>)
        BY <2>2 DEF DecisionAtRelease
    <3>3. ~Repointed(Docs(h), p)
        BY <2>1, ReleaseAssumption DEF ReleasedDecisions
    <3> QED BY <3>1, <3>2, <3>3 DEF DecisionProblems, Decision
  <2> HIDE DEF g, h
  <2>6. OneEach(Docs(g))
    <3>1. IsFiniteSet(g.records)
        BY <2>1, <2>3 DEF IInv, Finite, HasFinitelyMany, g
    <3> QED BY <2>4, <3>1, StructureHolds, CountedOnce
  <2>7. OneEach(Docs(h))
      BY <2>2, ReleasedOnce DEF h
  <2>8. OwnDocs(Docs(g), p) = OwnDocs(Docs(h), p)
    <3>1. Touched(g, h) \cap OwnOf(p) = {}
        BY <2>1, <2>2
    <3> QED BY <3>1, OwnUntouched
  <2>9. Alike(Docs(g), Docs(h), p)
    <3>1. KeepsToItself(Docs(g), p)
        BY <2>1, <2>4, <2>6, PackagesApart
    <3>2. KeepsToItself(Docs(h), p)
        BY <2>1, <2>5, <2>7, PackagesApart
    <3> QED BY <2>8, <3>1, <3>2 DEF Alike
  <2>10. Verdict(ResolveChoices(Docs(g))[p]) = Verdict(ResolveChoices(Docs(h))[p])
      BY <2>1, <2>9, AlikeVerdict
  <2> QED BY <2>4, <2>5, <2>10
<1> QED BY <1>1, Invariance, PTL

-----------------------------------------------------------------------------
(* What is accepted, and what is gone back to. *)

(* Accepted evidence for a claim is what applies to the claims asked for,  *)
(* as long as an address is one claim's.                                   *)
LEMMA AcceptedApplies ==
  ASSUME NEW docs, OneEach(docs), NEW r, NEW concern, NEW d
  PROVE  LET claims == TargetClaims(docs, Accepted, r, concern, d) IN
         /\ AcceptedFor(docs, r, concern, d) = AcceptedOf(Applicable(docs, Accepted, claims))
         /\ \A e \in AcceptedFor(docs, r, concern, d) : At(docs, e.claim) \in Selected(Accepted, claims)
<1> DEFINE claims == TargetClaims(docs, Accepted, r, concern, d)
<1>1. ASSUME NEW e \in AcceptedFor(docs, r, concern, d)
      PROVE  /\ At(docs, e.claim) \in Selected(Accepted, claims)
             /\ e \in AcceptedOf(Applicable(docs, Accepted, claims))
  <2> DEFINE c == At(docs, e.claim)
  <2>1. /\ e \in OfKind(docs, "evidence") /\ e.review = "accepted" /\ Accepted.profile \in e.profiles
        /\ e.claim \in Addresses(docs) /\ Asserts(c, r, concern, d)
      BY DEF AcceptedFor
  <2>2. c \in docs /\ AddressOf(c) = e.claim
      BY <2>1 DEF At, Addresses
  <2> HIDE DEF c
  <2>3. c \in Selected(Accepted, claims)
      BY <2>1, <2>2 DEF Asserts, TargetClaims, Selected, OfKind, Accepted
  <2>4. e \in Linked(docs, Selected(Accepted, claims))
      BY <2>1, <2>2, <2>3 DEF Linked
  <2> QED BY <2>1, <2>3, <2>4 DEF Applicable, AcceptedOf, c
<1>2. ASSUME NEW e \in AcceptedOf(Applicable(docs, Accepted, claims))
      PROVE  e \in AcceptedFor(docs, r, concern, d)
  <2>1. /\ e \in Linked(docs, Selected(Accepted, claims))
        /\ Accepted.profile \in e.profiles /\ e.review = "accepted"
      BY DEF AcceptedOf, Applicable
  <2>2. PICK c \in Selected(Accepted, claims) : e.claim = AddressOf(c)
      BY <2>1 DEF Linked
  <2>3. c \in docs /\ Asserts(c, r, concern, d)
      BY <2>2 DEF Selected, TargetClaims, OfKind, Asserts, Accepted
  <2>4. At(docs, e.claim) = c /\ e.claim \in Addresses(docs)
      BY <2>2, <2>3, AtOf DEF Addresses
  <2>5. e \in OfKind(docs, "evidence")
      BY <2>1 DEF Linked
  <2> QED BY <2>1, <2>3, <2>4, <2>5 DEF AcceptedFor
<1> QED BY <1>1, <1>2

(* A required concern that does not block is upheld for each declaration.  *)
LEMMA ConcernUpheld ==
  ASSUME NEW docs, OneEach(docs), NEW r, NEW x, x.priority = "required",
         ~ConcernDisposition(docs, Accepted, r, x).blocks,
         NEW d \in Covered(At(docs, Specification), x.concern)
  PROVE  Upheld({e \in AcceptedFor(docs, r, x.concern, d) : e.mechanism \in x.mechanisms})
<1> DEFINE targets == TargetsOf(docs, Accepted, r, x)
           claims == AllOf(targets)
           admitted == ConcernAdmitted(docs, Accepted, claims, x)
           target == TargetClaims(docs, Accepted, r, x.concern, d)
           accepted == AcceptedFor(docs, r, x.concern, d)
           bins == IF ConcernComplete(x)
                   THEN BinsOf(Linked(docs, claims), Applicable(docs, Accepted, claims), admitted)
                   ELSE NoBins
           missing == IF ConcernComplete(x) THEN Missing(admitted, targets) ELSE DOMAIN targets
<1>1. ConcernStatus(ConcernComplete(x), DOMAIN targets, missing, bins.challenging) = "satisfied"
    BY DEF ConcernDisposition
<1>2. ConcernComplete(x) /\ bins.challenging = {} /\ missing = {}
    BY <1>1 DEF ConcernStatus
<1>3. Missing(admitted, targets) = {} /\ \A e \in admitted : e.result # "challenges"
    BY <1>2 DEF BinsOf
<1>4. d \in DOMAIN targets /\ targets[d] = target
    BY DEF TargetsOf, Accepted
<1>5. /\ accepted = AcceptedOf(Applicable(docs, Accepted, target))
      /\ \A e \in accepted : At(docs, e.claim) \in Selected(Accepted, target)
    BY AcceptedApplies
<1>6. \A c \in claims : c \in docs
    BY DEF AllOf, TargetsOf, TargetClaims, OfKind
<1>7. \A c \in target : c \in claims
    BY <1>4 DEF AllOf
<1> HIDE DEF targets, claims, target, accepted
<1>8. ASSUME NEW e \in accepted, e.mechanism \in x.mechanisms
      PROVE  e \in admitted
  <2>1. e \in Applicable(docs, Accepted, target) /\ e.review = "accepted"
      BY <1>5, <1>8 DEF AcceptedOf
  <2>2. e \in Applicable(docs, Accepted, claims)
      BY <1>7, <2>1 DEF Applicable, Linked, Selected
  <2> QED BY <1>8, <2>1, <2>2 DEF ConcernAdmitted
<1>9. \E e \in accepted : e.mechanism \in x.mechanisms /\ e.result = "supports"
  <2>1. Supported(admitted, target)
      BY <1>3, <1>4 DEF Missing
  <2>2. PICK e \in admitted : e.result = "supports" /\ \E c \in target : e.claim = AddressOf(c)
      BY <2>1 DEF Supported
  <2>3. PICK c \in target : e.claim = AddressOf(c)
      BY <2>2
  <2>4. /\ e \in Linked(docs, Selected(Accepted, claims))
        /\ Accepted.profile \in e.profiles /\ e.review = "accepted" /\ e.mechanism \in x.mechanisms
      BY DEF ConcernAdmitted, Applicable
  <2>5. PICK b \in Selected(Accepted, claims) : e.claim = AddressOf(b)
      BY <2>4 DEF Linked
  <2>6. b = c
      BY <1>6, <1>7, <2>3, <2>5 DEF Selected, OneEach
  <2>7. c \in Selected(Accepted, target)
      BY <2>5, <2>6 DEF Selected
  <2>8. e \in Applicable(docs, Accepted, target)
      BY <2>3, <2>4, <2>7 DEF Applicable, Linked
  <2> QED BY <1>5, <2>2, <2>4, <2>8 DEF AcceptedOf
<1>10. \A e \in accepted : e.mechanism \in x.mechanisms => e.result # "challenges"
    BY <1>3, <1>8
<1> QED BY <1>9, <1>10 DEF Upheld, accepted

(* A concern that covers nothing blocks, if it is required.                *)
LEMMA ConcernCovers ==
  ASSUME NEW docs, NEW r, NEW x, x.priority = "required",
         ~ConcernDisposition(docs, Accepted, r, x).blocks
  PROVE  Covered(At(docs, Specification), x.concern) # {}
<1> DEFINE targets == TargetsOf(docs, Accepted, r, x)
           bins == IF ConcernComplete(x)
                   THEN BinsOf(Linked(docs, AllOf(targets)), Applicable(docs, Accepted, AllOf(targets)),
                               ConcernAdmitted(docs, Accepted, AllOf(targets), x))
                   ELSE NoBins
           missing == IF ConcernComplete(x)
                      THEN Missing(ConcernAdmitted(docs, Accepted, AllOf(targets), x), targets)
                      ELSE DOMAIN targets
<1>1. ConcernStatus(ConcernComplete(x), DOMAIN targets, missing, bins.challenging) = "satisfied"
    BY DEF ConcernDisposition
<1>2. DOMAIN targets # {}
    BY <1>1 DEF ConcernStatus
<1> QED BY <1>2 DEF TargetsOf, Accepted

(* A prohibition that does not block is upheld by what was observed.       *)
LEMMA ProhibitionUpheld ==
  ASSUME NEW docs, OneEach(docs), NEW r, NEW x, ~OrderedMapProhibition(docs, Accepted, r, x).blocks
  PROVE  Upheld(ObservedOf(docs, r, x.declaration))
<1> DEFINE complete == ProhibitionComplete(Accepted, x, At(docs, Accepted.specification))
           claims == EffectClaims(docs, Accepted, r, x)
           scope == InEffectScope(docs, Accepted, r, x, AcceptedPlan)
           applicable == Applicable(docs, Accepted, claims)
           admitted == {e \in applicable : e.review = "accepted" /\ TraceScope \in x.scopes /\ e \in scope}
           bins == IF complete THEN ProhibitionBins(docs, Accepted, r, x, scope) ELSE NoBins
           accepted == AcceptedFor(docs, r, "effect.conformance", x.declaration)
<1>1. ProhibitionStatus(complete, bins.supporting, bins.challenging) = "satisfied"
    BY DEF OrderedMapProhibition, Prohibited
<1>2. complete /\ bins.supporting # {} /\ bins.challenging = {}
    BY <1>1 DEF ProhibitionStatus
<1>3. bins = BinsOf(Linked(docs, claims), applicable, admitted)
    BY <1>2 DEF ProhibitionBins
<1>4. (\E e \in admitted : e.result = "supports") /\ \A e \in admitted : e.result # "challenges"
    BY <1>2, <1>3 DEF BinsOf
<1>5. /\ accepted = AcceptedOf(applicable)
      /\ \A e \in accepted : At(docs, e.claim) \in Selected(Accepted, claims)
    BY AcceptedApplies DEF EffectClaims
<1>6. \A c \in claims : c \in docs
    BY DEF EffectClaims, TargetClaims, OfKind
<1>7. TraceScope \in x.scopes
    BY <1>4
<1> HIDE DEF claims, applicable, accepted, scope
<1>8. ASSUME NEW e \in admitted PROVE e \in ObservedOf(docs, r, x.declaration)
  <2>1. e \in accepted
      BY <1>5 DEF AcceptedOf
  <2>2. /\ \E c \in claims :
             e.claim = AddressOf(c) /\ c.state = "active" /\ c.profiles = {Accepted.profile} /\ e.profiles = c.profiles
        /\ e.scope = "realization" /\ e.specification = Accepted.specification
        /\ e.realization = r /\ e.mechanism = Campaign /\ e.adapter = At(docs, r).adapter
        /\ e.observed = x.declaration /\ e.plan = AcceptedPlan
      BY DEF InEffectScope, scope, claims
  <2>3. PICK c \in claims :
          e.claim = AddressOf(c) /\ c.profiles = {Accepted.profile} /\ e.profiles = c.profiles
      BY <2>2
  <2>4. At(docs, e.claim) = c
      BY <1>6, <2>3, AtOf
  <2>5. Accepted.specification = Specification
      BY DEF Accepted
  <2> QED BY <2>1, <2>2, <2>3, <2>4, <2>5 DEF ObservedOf, accepted
<1>9. ASSUME NEW e \in ObservedOf(docs, r, x.declaration) PROVE e \in admitted
  <2> DEFINE c == At(docs, e.claim)
  <2>1. /\ e \in accepted
        /\ e.scope = "realization" /\ e.realization = r /\ e.specification = Specification
        /\ e.mechanism = Campaign /\ e.plan = AcceptedPlan
        /\ e.adapter = At(docs, r).adapter /\ e.observed = x.declaration
        /\ e.profiles = {Accepted.profile} /\ c.profiles = {Accepted.profile}
      BY DEF ObservedOf, accepted
  <2>2. e \in OfKind(docs, "evidence") /\ e.claim \in Addresses(docs)
      BY <2>1 DEF AcceptedFor, accepted
  <2>3. AddressOf(c) = e.claim
      BY <2>2 DEF At, Addresses
  <2>4. c \in claims /\ c.state = "active"
      BY <1>5, <2>1 DEF Selected
  <2> HIDE DEF c
  <2>5. e \in scope
      BY <2>1, <2>2, <2>3, <2>4 DEF InEffectScope, scope, Accepted, claims
  <2> QED BY <1>5, <1>7, <2>1, <2>5 DEF AcceptedOf
<1> HIDE DEF admitted
<1>10. \A e : e \in admitted <=> e \in ObservedOf(docs, r, x.declaration)
    BY <1>8, <1>9
<1> QED BY <1>4, <1>10 DEF Upheld

(* So whatever the accepted policy admits has its grounds.                 *)
LEMMA AdmittedGrounded ==
  ASSUME NEW docs, OneEach(docs), NEW r \in AcceptableOf(ResolveOrderedMap(docs))
  PROVE  Grounded(docs, r)
<1> DEFINE policy == At(docs, Accepted.policy)
           concern(x) == [entry |-> x, disposition |-> ConcernDisposition(docs, Accepted, r, x)]
           prohibition(x) == OrderedMapProhibition(docs, Accepted, r, x)
           candidate == Disposed(docs, Accepted, r, {prohibition(x) : x \in policy.prohibitions})
<1>1. Admits(candidate)
    BY DEF AcceptableOf, ResolveOrderedMap
<1>2. /\ candidate.concerns = {concern(x) : x \in policy.concerns}
      /\ candidate.prohibitions = {prohibition(x) : x \in policy.prohibitions}
    BY DEF Disposed
<1> HIDE DEF candidate, policy
<1>3. /\ \A x \in policy.concerns : ~concern(x).disposition.blocks
      /\ \A x \in policy.prohibitions : ~prohibition(x).blocks
    BY <1>1, <1>2 DEF Admits
<1>4. \A x \in policy.concerns : x.priority = "required" =>
        /\ Covered(At(docs, Specification), x.concern) # {}
        /\ \A d \in Covered(At(docs, Specification), x.concern) :
             Upheld({e \in AcceptedFor(docs, r, x.concern, d) : e.mechanism \in x.mechanisms})
    BY <1>3, ConcernCovers, ConcernUpheld
<1>5. \A x \in policy.prohibitions : Upheld(ObservedOf(docs, r, x.declaration))
    BY <1>3, ProhibitionUpheld
<1> QED BY <1>4, <1>5 DEF Grounded, policy

(* What is found of the accepted policy is the same in other documents, if *)
(* they hold the same claims, evidence and realizations, and its addresses *)
(* stand for the same.                                                     *)
HoldsTheSame(docs, other) ==
  /\ \A kind \in {"claim", "evidence", "realization"} : OfKind(other, kind) = OfKind(docs, kind)
  /\ \A a \in {Accepted.policy, Specification} \cup Candidates(docs, Accepted) : At(other, a) = At(docs, a)

(* The claims and what applies to them are the same.                       *)
LEMMA CarriedClaims ==
  ASSUME NEW docs, NEW other, HoldsTheSame(docs, other), NEW sel
  PROVE  /\ \A r, concern, d : TargetClaims(other, sel, r, concern, d) = TargetClaims(docs, sel, r, concern, d)
         /\ \A claims : Linked(other, claims) = Linked(docs, claims)
         /\ \A claims : Applicable(other, sel, claims) = Applicable(docs, sel, claims)
         /\ \A claims : ClaimReasons(other, sel, claims) = ClaimReasons(docs, sel, claims)
<1>1. OfKind(other, "claim") = OfKind(docs, "claim") /\ OfKind(other, "evidence") = OfKind(docs, "evidence")
    BY DEF HoldsTheSame
<1>2. \A r, concern, d : TargetClaims(other, sel, r, concern, d) = TargetClaims(docs, sel, r, concern, d)
    BY <1>1 DEF TargetClaims
<1>3. \A claims : Linked(other, claims) = Linked(docs, claims)
    BY <1>1 DEF Linked
<1>4. \A claims : Applicable(other, sel, claims) = Applicable(docs, sel, claims)
    BY <1>3 DEF Applicable
<1>5. \A claims : ClaimReasons(other, sel, claims) = ClaimReasons(docs, sel, claims)
    BY <1>3 DEF ClaimReasons
<1> QED BY <1>2, <1>3, <1>4, <1>5

(* So is what is found of a concern.                                       *)
LEMMA CarriedConcern ==
  ASSUME NEW docs, NEW other, HoldsTheSame(docs, other), NEW r, NEW x
  PROVE  ConcernDisposition(other, Accepted, r, x) = ConcernDisposition(docs, Accepted, r, x)
<1>1. At(other, Accepted.specification) = At(docs, Accepted.specification)
    BY DEF HoldsTheSame, Accepted
<1>2. TargetsOf(other, Accepted, r, x) = TargetsOf(docs, Accepted, r, x)
    BY <1>1, CarriedClaims DEF TargetsOf
<1> DEFINE targets == TargetsOf(docs, Accepted, r, x)
           claims == AllOf(targets)
<1> HIDE DEF targets
<1>3. /\ Linked(other, claims) = Linked(docs, claims)
      /\ Applicable(other, Accepted, claims) = Applicable(docs, Accepted, claims)
    BY CarriedClaims
<1>4. ConcernAdmitted(other, Accepted, claims, x) = ConcernAdmitted(docs, Accepted, claims, x)
    BY <1>3 DEF ConcernAdmitted
<1>5. AllClaimReasons(other, Accepted, targets) = AllClaimReasons(docs, Accepted, targets)
    BY CarriedClaims DEF AllClaimReasons
<1> HIDE DEF claims
<1>6. ASSUME NEW o, TargetsOf(o, Accepted, r, x) = targets
      PROVE  ConcernDisposition(o, Accepted, r, x)
               = LET complete == ConcernComplete(x)
                     admitted == ConcernAdmitted(o, Accepted, claims, x)
                     bins     == IF complete
                                 THEN BinsOf(Linked(o, claims), Applicable(o, Accepted, claims), admitted)
                                 ELSE NoBins
                     missing  == IF complete THEN Missing(admitted, targets) ELSE DOMAIN targets
                     status   == ConcernStatus(complete, DOMAIN targets, missing, bins.challenging)
                 IN
                 [status  |-> status,
                  blocks  |-> x.priority = "required" /\ status # "satisfied",
                  missing |-> missing,
                  bins    |-> bins,
                  reasons |-> ConcernReasons(complete, x, DOMAIN targets,
                                             AllClaimReasons(o, Accepted, targets), bins)]
    BY <1>6 DEF ConcernDisposition, claims
<1>7. TargetsOf(other, Accepted, r, x) = targets /\ TargetsOf(docs, Accepted, r, x) = targets
    BY <1>2 DEF targets
<1> QED BY <1>3, <1>4, <1>5, <1>6, <1>7

(* And of a prohibition, for a candidate.                                  *)
LEMMA CarriedProhibition ==
  ASSUME NEW docs, NEW other, HoldsTheSame(docs, other), NEW r \in Candidates(docs, Accepted), NEW x
  PROVE  OrderedMapProhibition(other, Accepted, r, x) = OrderedMapProhibition(docs, Accepted, r, x)
<1>1. /\ At(other, Accepted.specification) = At(docs, Accepted.specification)
      /\ At(other, r) = At(docs, r)
      /\ OfKind(other, "evidence") = OfKind(docs, "evidence")
    BY DEF HoldsTheSame, Accepted
<1>2. EffectClaims(other, Accepted, r, x) = EffectClaims(docs, Accepted, r, x)
    BY CarriedClaims DEF EffectClaims
<1>3. InEffectScope(other, Accepted, r, x, AcceptedPlan) = InEffectScope(docs, Accepted, r, x, AcceptedPlan)
    BY <1>1, <1>2 DEF InEffectScope
<1>4. \A scope : ProhibitionBins(other, Accepted, r, x, scope) = ProhibitionBins(docs, Accepted, r, x, scope)
    BY <1>2, CarriedClaims DEF ProhibitionBins
<1>5. \A claims, bins :
        OrderedMapReasons(other, Accepted, x, claims, bins) = OrderedMapReasons(docs, Accepted, x, claims, bins)
    BY CarriedClaims DEF OrderedMapReasons
<1> QED BY <1>1, <1>2, <1>3, <1>4, <1>5 DEF OrderedMapProhibition

(* So the accepted policy resolves them alike.                             *)
LEMMA CarriedResolution ==
  ASSUME NEW docs, NEW other, HoldsTheSame(docs, other)
  PROVE  ResolveOrderedMap(other) = ResolveOrderedMap(docs)
<1> DEFINE policy == At(docs, Accepted.policy)
           among(o) == Candidates(o, Accepted)
           shown(o, r) == Disposed(o, Accepted, r, {OrderedMapProhibition(o, Accepted, r, x) : x \in policy.prohibitions})
<1>1. At(other, Accepted.policy) = policy
    BY DEF HoldsTheSame
<1>2. among(other) = among(docs)
    BY DEF HoldsTheSame, Candidates
<1>3. ASSUME NEW r \in among(docs) PROVE shown(other, r) = shown(docs, r)
  <2>1. \A x : OrderedMapProhibition(other, Accepted, r, x) = OrderedMapProhibition(docs, Accepted, r, x)
      BY CarriedProhibition
  <2>2. \A x : ConcernDisposition(other, Accepted, r, x) = ConcernDisposition(docs, Accepted, r, x)
      BY CarriedConcern
  <2> DEFINE concerns(o) == {[entry |-> x, disposition |-> ConcernDisposition(o, Accepted, r, x)] : x \in policy.concerns}
             prohibitions(o) == {OrderedMapProhibition(o, Accepted, r, x) : x \in policy.prohibitions}
  <2>3. concerns(other) = concerns(docs)
    <3> HIDE DEF policy
    <3> QED BY <2>2
  <2>4. prohibitions(other) = prohibitions(docs)
    <3> HIDE DEF policy
    <3> QED BY <2>1
  <2>5. shown(other, r) = [concerns |-> concerns(other), prohibitions |-> prohibitions(other)]
      BY <1>1, Zenon DEF Disposed
  <2>6. shown(docs, r) = [concerns |-> concerns(docs), prohibitions |-> prohibitions(docs)]
      BY Zenon DEF Disposed
  <2> HIDE DEF shown, concerns, prohibitions
  <2> QED BY <2>3, <2>4, <2>5, <2>6
<1>4. ResolveOrderedMap(other) = [r \in among(other) |-> shown(other, r)]
    BY <1>1 DEF ResolveOrderedMap
<1>5. ResolveOrderedMap(docs) = [r \in among(docs) |-> shown(docs, r)]
    BY DEF ResolveOrderedMap
<1> HIDE DEF among, shown
<1> QED BY <1>2, <1>3, <1>4, <1>5

(* What may come of successor records.                                     *)
LEMMA SuccessorKinds ==
  /\ DOMAIN SuccessorRecords = {Successor, BoundedPolicy("0.2.0")}
  /\ \A a \in DOMAIN SuccessorRecords :
       /\ a.kind \notin {"claim", "evidence", "realization"}
       /\ a # Specification /\ a # Accepted.policy
BY SuccessorAssumption DEF Successor, BoundedPolicy, Specification, Accepted, Ref

(* Maintenance that reports nothing has found the earlier graph in the     *)
(* later one, the successor records as they are pinned, and no other.      *)
LEMMA MaintenanceFinds ==
  ASSUME NEW before, NEW after, MaintenanceProblems(before, after) = {}
  PROVE  /\ before.records \subseteq after.records
         /\ \A f \in after.records :
              \/ AddressOf(DocOf(f)) \in DOMAIN SuccessorRecords
              \/ \E g \in before.records : AddressOf(DocOf(g)) = AddressOf(DocOf(f))
         /\ \A a \in DOMAIN SuccessorRecords :
              \E f \in after.records : AddressOf(DocOf(f)) = a /\ f.digest = SuccessorRecords[a].digest
         /\ {Accepted.policy, Specification} \subseteq Addresses(Docs(before))
<1> DEFINE old == before.records
           new == after.records
           addresses(files) == {AddressOf(DocOf(f)) : f \in files}
           exact == {f \in new : Exact(f)}
<1>1. /\ Clean(before) /\ DriftProblems(old, new) = {}
      /\ SelectionProblems(before, Accepted, "ORDERED_MAP_RESOLUTION_") = {}
    BY DEF MaintenanceProblems
<1>2. /\ old \subseteq new
      /\ addresses(new) \subseteq addresses(old) \cup DOMAIN SuccessorRecords
      /\ addresses(exact) = DOMAIN SuccessorRecords
    BY <1>1 DEF DriftProblems
<1>3. {Accepted.policy, Accepted.specification} \subseteq Addresses(Docs(before))
    BY <1>1 DEF SelectionProblems
<1>4. Accepted.specification = Specification
    BY DEF Accepted
<1>5. \A f \in new : AddressOf(DocOf(f)) \in DOMAIN SuccessorRecords
                       \/ \E g \in old : AddressOf(DocOf(g)) = AddressOf(DocOf(f))
    BY <1>2
<1>6. ASSUME NEW a \in DOMAIN SuccessorRecords
      PROVE  \E f \in new : AddressOf(DocOf(f)) = a /\ f.digest = SuccessorRecords[a].digest
  <2>1. PICK f \in exact : AddressOf(DocOf(f)) = a
      BY <1>2
  <2> QED BY <2>1 DEF Exact
<1> QED BY <1>2, <1>3, <1>4, <1>5, <1>6

(* What was carried over is what the accepted policy goes by.              *)
LEMMA MaintenanceCarries ==
  ASSUME NEW before, NEW after, MaintenanceProblems(before, after) = {}, OneEach(Docs(after))
  PROVE  HoldsTheSame(Docs(before), Docs(after))
<1> DEFINE old == Docs(before)
           new == Docs(after)
<1>1. old \subseteq new
    BY MaintenanceFinds DEF Docs
<1>2. ASSUME NEW d \in new, AddressOf(d) \notin DOMAIN SuccessorRecords
      PROVE  d \in old
  <2>1. PICK f \in after.records : d = DocOf(f)
      BY DEF Docs
  <2>2. PICK g \in before.records : AddressOf(DocOf(g)) = AddressOf(d)
      BY <1>2, <2>1, MaintenanceFinds
  <2>3. DocOf(g) \in old
      BY DEF Docs
  <2> QED BY <1>1, <2>2, <2>3 DEF OneEach
<1> HIDE DEF old, new
<1>3. ASSUME NEW kind \in {"claim", "evidence", "realization"}
      PROVE  OfKind(new, kind) = OfKind(old, kind)
  <2>1. \A d \in OfKind(new, kind) : AddressOf(d) \notin DOMAIN SuccessorRecords
      BY SuccessorKinds DEF OfKind, AddressOf
  <2> QED BY <1>1, <1>2, <2>1 DEF OfKind
<1>4. OneEach(old) /\ OneEach(new)
    BY <1>1 DEF OneEach, new
<1>5. ASSUME NEW a \in Addresses(old) PROVE At(new, a) = At(old, a)
  <2>1. PICK d \in old : AddressOf(d) = a
      BY DEF Addresses
  <2>2. d \in new
      BY <1>1
  <2> QED BY <1>4, <2>1, <2>2, AtOf
<1>6. {Accepted.policy, Specification} \cup Candidates(old, Accepted) \subseteq Addresses(old)
    BY MaintenanceFinds DEF Candidates, OfKind, Addresses, old
<1>7. \A a \in {Accepted.policy, Specification} \cup Candidates(old, Accepted) : At(new, a) = At(old, a)
    BY <1>5, <1>6
<1>8. HoldsTheSame(old, new)
    BY <1>3, <1>7 DEF HoldsTheSame
<1> QED BY <1>8 DEF old, new

(* The policy of the successor prohibits something, and nothing satisfies  *)
(* a prohibition of the successor.                                         *)
LEMMA NothingFollows ==
  ASSUME NEW before, NEW after, MaintenanceProblems(before, after) = {}, OneEach(Docs(after))
  PROVE  AcceptableOf(ResolveSuccessor(Docs(after))) = {}
<1> DEFINE a == BoundedPolicy("0.2.0")
           docs == Docs(after)
           policy == At(docs, Following.policy)
<1>1. a \in DOMAIN SuccessorRecords /\ Following.policy = a
    BY SuccessorKinds DEF Following
<1>2. PICK f \in after.records : AddressOf(DocOf(f)) = a /\ f.digest = SuccessorRecords[a].digest
    BY <1>1, MaintenanceFinds
<1>3. DocOf(f) \in docs
    BY DEF Docs
<1>4. At(docs, a) = DocOf(f)
    BY <1>2, <1>3, AtOf
<1>5. policy.prohibitions # {}
    BY <1>1, <1>2, <1>4, SuccessorAssumption DEF DocOf
<1>6. PICK x : x \in policy.prohibitions
    BY <1>5
<1> DEFINE prohibition(r, y) == SuccessorProhibition(docs, r, y)
           candidate(r) == Disposed(docs, Following, r, {prohibition(r, y) : y \in policy.prohibitions})
<1> HIDE DEF docs, policy
<1>7. \A r : prohibition(r, x).blocks
    BY DEF SuccessorProhibition
<1>8. \A r : candidate(r).prohibitions = {prohibition(r, y) : y \in policy.prohibitions}
    BY DEF Disposed
<1> HIDE DEF prohibition, candidate
<1>9. \A r : ~Admits(candidate(r))
    BY <1>6, <1>7, <1>8 DEF Admits
<1>10. ResolveSuccessor(docs) = [r \in Candidates(docs, Following) |-> candidate(r)]
    BY DEF ResolveSuccessor, candidate, policy, prohibition
<1>11. AcceptableOf(ResolveSuccessor(docs)) = {}
    BY <1>9, <1>10 DEF AcceptableOf
<1> QED BY <1>11 DEF docs

(* What a command decides to accept, and what it may recover to, is        *)
(* grounded in the records it captured, for any controls: the evidence the *)
(* accepted policy asks for is there, none that it admits speaks against   *)
(* it, and the successor's registry still says so.                         *)
(* (resolve_ordered_map, _observe_ordered_map_maintenance)                 *)
THEOREM RecoversToGround == Spec => []RecoveryIsGrounded
<1>1. ASSUME IInv, Decided, command = "inspect", NEW r \in AcceptableOf(report.decision)
      PROVE  Grounded(Docs(graphs[1]), r)
  <2>1. 1 \in DOMAIN graphs
    <3>1. Len(graphs) = Captures("inspect")
        BY <1>1 DEF IInv, Position
    <3>2. Captures("inspect") = 1
        BY FourCommands DEF Captures, Contracted
    <3>3. PICK S : graphs \in Seq(S)
        BY <1>1 DEF IInv, Position, IsSequence
    <3> QED BY <3>1, <3>2, <3>3
  <2>2. OneEach(Docs(graphs[1]))
      BY <1>1, <2>1 DEF IInv, Captured, Sound
  <2>3. report.decision = ResolveOrderedMap(Docs(graphs[1]))
      BY <1>1 DEF IInv, DecidedSo, Decision
  <2> QED BY <2>2, <2>3, AdmittedGrounded
<1>2. ASSUME IInv, Decided, command = "maintenance"
      PROVE  LET after == Docs(graphs[2]) IN
             /\ graphs[1].records \subseteq graphs[2].records
             /\ report.decision.new = {}
             /\ report.decision.stale = {AddressOf(e) : e \in OfKind(after, "evidence")}
             /\ report.decision.recovery = AcceptableOf(ResolveOrderedMap(after))
             /\ \A r \in report.decision.recovery : Grounded(after, r)
  <2> DEFINE before == Docs(graphs[1])
             after == Docs(graphs[2])
  <2>1. 2 \in DOMAIN graphs
    <3>1. Len(graphs) = Captures("maintenance")
        BY <1>2 DEF IInv, Position
    <3>2. Captures("maintenance") = 2
        BY FourCommands DEF Captures, Contracted
    <3>3. PICK S : graphs \in Seq(S)
        BY <1>2 DEF IInv, Position, IsSequence
    <3> QED BY <3>1, <3>2, <3>3
  <2>2. OneEach(after)
      BY <1>2, <2>1 DEF IInv, Captured, Sound
  <2>3. /\ MaintenanceProblems(graphs[1], graphs[2]) = {}
        /\ report.decision = Maintenance(graphs[1], graphs[2])
      BY <1>2 DEF IInv, DecidedSo, DecisionProblems, Decision
  <2>4. HoldsTheSame(before, after)
      BY <2>2, <2>3, MaintenanceCarries
  <2>5. AcceptableOf(ResolveSuccessor(after)) = {}
      BY <2>2, <2>3, NothingFollows
  <2>6. ResolveOrderedMap(after) = ResolveOrderedMap(before)
      BY <2>4, CarriedResolution
  <2>7. OfKind(after, "evidence") = OfKind(before, "evidence")
      BY <2>4 DEF HoldsTheSame
  <2>8. /\ report.decision.new = {}
        /\ report.decision.stale = {AddressOf(e) : e \in OfKind(after, "evidence")}
        /\ report.decision.recovery = AcceptableOf(ResolveOrderedMap(after))
      BY <2>3, <2>5, <2>6, <2>7 DEF Maintenance
  <2>9. graphs[1].records \subseteq graphs[2].records
      BY <2>3, MaintenanceFinds
  <2>10. \A r \in report.decision.recovery : Grounded(after, r)
      BY <2>2, <2>8, AdmittedGrounded
  <2> QED BY <2>8, <2>9, <2>10
<1>3. IInv => RecoveryIsGrounded
    BY <1>1, <1>2 DEF RecoveryIsGrounded
<1> QED BY <1>3, Invariance, PTL

=============================================================================
