------------------------- MODULE ReportWriterProofs -------------------------
(***************************************************************************)
(* Theorems about ReportWriter, for any commands over any directory, any   *)
(* number of edits, and failures and losses of power anywhere.             *)
(***************************************************************************)
EXTENDS ReportWriter, SequenceTheorems, TLAPS

Labels == {"inspect", "write", "sync", "replace", "clean",
           "written", "failed", "raised", "killed"}

Entries == {File(i) : i \in Inodes} \cup {Link(n) : n \in Names} \cup {NoEntry}

(* What the writers keep: a file has its name only when it is whole and on *)
(* the disk, and a temporary file is gone unless its command is busy with  *)
(* it, was stopped, or was refused.                                        *)
Types ==
  /\ entry \in [Names -> Entries]
  /\ content \in [Inodes -> Nat]
  /\ synced \subseteq Inodes
  /\ refused \subseteq temporary
  /\ temporary \subseteq Commands
  /\ pc \in [Commands -> Labels]

Durable ==
  /\ \A n \in Names : n \in synced /\ content[n] # Torn
  /\ \A c \in Commands :
       /\ pc[c] \in {"sync", "replace", "written"} => content[c] # Torn
       /\ pc[c] \in {"replace", "written"} => c \in synced

Named == \A n \in Names, c \in Commands : entry[n] = File(c) => pc[c] = "written"

Tidy ==
  /\ \A c \in temporary : pc[c] # "inspect" /\ (pc[c] = "failed" => c \in refused)
  /\ \A c \in Commands : pc[c] \in {"write", "sync", "replace", "clean"} => c \in temporary
  /\ \A c \in refused : pc[c] = "failed"

IInv == Types /\ Durable /\ Named /\ Tidy

LEMMA FileIsFile ==
  /\ \A i, j : File(i) = File(j) => i = j
  /\ \A i, n : File(i) # Link(n) /\ File(i) # NoEntry /\ Link(n) # NoEntry
  /\ \A i : File(i).kind = "file" /\ File(i).at = i
  /\ \A n : Link(n).kind = "link" /\ Link(n).at = n
  /\ NoEntry.kind = "none"
BY DEF File, Link, NoEntry

(* A name that exists leads to a file.                                     *)
LEMMA InodeType ==
  ASSUME Types, NEW n \in Names
  PROVE  /\ Final(n) \in Names
         /\ Exists(n) => Inode(n) \in Inodes /\ entry[Final(n)] = File(Inode(n))
<1>1. \A m \in Names : Hop(m) \in Names
    BY FileIsFile DEF Types, Entries, Hop
<1>2. Final(n) \in Names
    BY <1>1 DEF Final
<1> QED BY <1>2, FileIsFile DEF Types, Entries, Exists, Inode

LEMMA InitIInv == Init => IInv
<1> SUFFICES ASSUME Init PROVE IInv
    OBVIOUS
<1>1. Types
    BY WriterAssumption DEF Init, Types, Entries, Labels, Inodes, Torn
<1>2. Durable
    BY DEF Init, Durable, Torn, Inodes
<1>3. Named
    BY WriterAssumption, FileIsFile DEF Init, Named
<1> QED BY <1>1, <1>2, <1>3 DEF Init, IInv, Tidy

LEMMA NextIInv == IInv /\ [Next]_vars => IInv'
<1> SUFFICES ASSUME IInv, [Next]_vars PROVE IInv'
    OBVIOUS
<1> USE DEF Labels
<1>1. ASSUME NEW c \in Commands, Inspect(c) PROVE IInv'
    BY <1>1 DEF Inspect, IInv, Types, Durable, Named, Tidy, disk, hands
<1>2. ASSUME NEW c \in Commands, InspectFails(c) PROVE IInv'
    BY <1>2 DEF InspectFails, End, IInv, Types, Durable, Named, Tidy, disk, hands
<1>3. ASSUME NEW c \in Commands, Create(c) PROVE IInv'
    BY <1>3 DEF Create, Goto, IInv, Types, Durable, Named, Tidy
<1>4. ASSUME NEW c \in Commands, Write(c) PROVE IInv'
    BY <1>4, WriterAssumption DEF Write, Goto, IInv, Types, Durable, Named, Tidy, Torn, Inodes
<1>5. ASSUME NEW c \in Commands, Sync(c) PROVE IInv'
    BY <1>5 DEF Sync, Goto, IInv, Types, Durable, Named, Tidy, Inodes
<1>6. ASSUME NEW c \in Commands, Replace(c) PROVE IInv'
  <2>1. Types'
      BY <1>6, WriterAssumption DEF Replace, Goto, IInv, Types, Entries, Inodes, Tidy
  <2>2. Named'
      BY <1>6, FileIsFile DEF Replace, Goto, IInv, Types, Named
  <2> QED BY <1>6, <2>1, <2>2 DEF Replace, Goto, IInv, Types, Durable, Tidy
<1>7. ASSUME NEW c \in Commands, WriteFails(c) PROVE IInv'
    BY <1>7 DEF WriteFails, Goto, IInv, Types, Durable, Named, Tidy, disk
<1>8. ASSUME NEW c \in Commands, WriteRaises(c) PROVE IInv'
    BY <1>8 DEF WriteRaises, End, Goto, IInv, Types, Durable, Named, Tidy, disk
<1>9. ASSUME NEW c \in Commands, Clean(c) PROVE IInv'
    BY <1>9 DEF Clean, End, IInv, Types, Durable, Named, Tidy
<1>10. ASSUME NEW c \in Commands, CleanRefused(c) PROVE IInv'
    BY <1>10 DEF CleanRefused, End, IInv, Types, Durable, Named, Tidy
<1>11. ASSUME NEW c \in Commands, Kill(c) PROVE IInv'
    BY <1>11 DEF Kill, Writing, End, IInv, Types, Durable, Named, Tidy, disk
<1>12. CASE PowerLoss
    BY <1>12, WriterAssumption
       DEF PowerLoss, Running, Writing, End, IInv, Types, Durable, Named, Tidy, Torn, Inodes
<1>13. ASSUME NEW n \in Names, Edit(n) PROVE IInv'
  <2>1. Inode(n) \in Inodes
      BY <1>13, InodeType DEF Edit, IInv
  <2>2. \A i \in Inodes : content[i] # Torn => content'[i] # Torn
      BY <1>13, <2>1 DEF Edit, IInv, Types, Torn
  <2> QED BY <1>13, <2>1, <2>2 DEF Edit, IInv, Types, Durable, Named, Tidy, Inodes
<1>14. ASSUME NEW c \in Commands, NEW n \in Names, Relink(c, n) PROVE IInv'
  <2>1. entry[n] \in Entries /\ Link(n) \in Entries /\ Output[c] \in Names
      BY WriterAssumption DEF IInv, Types, Entries
  <2>2. Types'
      BY <1>14, <2>1 DEF Relink, IInv, Types
  <2>3. Named'
      BY <1>14, <2>1, FileIsFile DEF Relink, IInv, Types, Named
  <2> QED BY <1>14, <2>2, <2>3 DEF Relink, IInv, Durable, Tidy
<1>15. CASE UNCHANGED vars
    BY <1>15 DEF vars, IInv, Types, Durable, Named, Tidy
<1> QED
    BY <1>1, <1>2, <1>3, <1>4, <1>5, <1>6, <1>7, <1>8, <1>9, <1>10, <1>11, <1>12, <1>13, <1>14, <1>15
       DEF Next

(* The invariant holds throughout. *)
LEMMA Invariance == Spec => []IInv
BY InitIInv, NextIInv, PTL DEF Spec

(* Every variable keeps its type. *)
THEOREM TypeCorrect == Spec => []TypeOK
<1>1. IInv => TypeOK
    BY DEF IInv, Types, Tidy, TypeOK, Entries, Labels
<1> QED BY <1>1, Invariance, PTL

(* Publication is atomic, whatever fails (_write_atomically). *)
THEOREM PublicationAtomic == Spec => []OutputWhole
<1>1. IInv => OutputWhole
  <2> SUFFICES ASSUME IInv, NEW n \in Names, Exists(n) PROVE content[Inode(n)] # Torn
      BY DEF OutputWhole
  <2>1. /\ Final(n) \in Names
        /\ Inode(n) \in Inodes
        /\ entry[Final(n)] = File(Inode(n))
      BY InodeType DEF IInv
  <2> QED BY <2>1 DEF IInv, Durable, Named, Inodes
<1> QED BY <1>1, Invariance, PTL

(* A failed run leaves no output and no file it could remove               *)
(* (_write_atomically).                                                    *)
THEOREM FailureLeavesNothing == Spec => []FailedRunLeavesNothing
<1>1. IInv => FailedRunLeavesNothing
    BY DEF IInv, Named, Tidy, FailedRunLeavesNothing
<1> QED BY <1>1, Invariance, PTL

-----------------------------------------------------------------------------
(* Programs. *)

LEMMA InspectSteps ==
  ASSUME NEW c \in Commands, Kind[c] = "inspect"
  PROVE  /\ Len(Program[c]) \in Nat \ {0}
         /\ Program[c][1] = Check(c)
         /\ \A k \in 1 .. Len(Program[c]) : Program[c][k].op \in {"check", "both"}
<1> DEFINE steps == [k \in DOMAIN Inputs[c] |-> Both(Inputs[c][k])]
           S == {Check(c)} \cup {Both(n) : n \in Names}
<1>1. Program[c] = <<Check(c)>> \o steps
    BY DEF Program, InspectProgram
<1>2. Inputs[c] \in Seq(Names)
    BY WriterAssumption
<1>3. steps \in Seq(S) /\ <<Check(c)>> \in Seq(S) /\ Len(<<Check(c)>>) = 1
    BY <1>2
<1> HIDE DEF steps
<1>4. /\ Len(Program[c]) = 1 + Len(steps)
      /\ Len(steps) \in Nat
      /\ \A k \in 1 .. Len(Program[c]) : Program[c][k] \in S
      /\ Program[c][1] = Check(c)
    BY <1>1, <1>3
<1>5. \A s \in S : s.op \in {"check", "both"}
    BY DEF Check, Both, Step
<1> QED BY <1>4, <1>5

LEMMA SecondAfter ==
  ASSUME NEW n \in Nat, NEW f, NEW g, NEW h,
         \A k \in 1 .. n + 2 : f[k] = IF k <= n THEN g[k] ELSE h[k - n]
  PROVE  f[n + 2] = h[2]
<1>1. n + 2 \in 1 .. n + 2 /\ ~(n + 2 <= n) /\ n + 2 - n = 2
    OBVIOUS
<1> QED BY <1>1

LEMMA LastOfConcat ==
  ASSUME NEW S, NEW s \in Seq(S), NEW t \in Seq(S), Len(t) = 2
  PROVE  Len(s \o t) \in Nat \ {0} /\ (s \o t)[Len(s \o t)] = t[2]
<1>1. Len(s) \in Nat
    BY LenProperties
<1>2. /\ Len(s \o t) = Len(s) + Len(t)
      /\ \A k \in 1 .. Len(s) + Len(t) :
           (s \o t)[k] = IF k <= Len(s) THEN s[k] ELSE t[k - Len(s)]
    BY ConcatProperties
<1>3. \A k \in 1 .. Len(s) + 2 :
        (s \o t)[k] = IF k <= Len(s) THEN s[k] ELSE t[k - Len(s)]
    BY <1>2
<1>4. (s \o t)[Len(s) + 2] = t[2]
  <2> DEFINE whole == s \o t
             n == Len(s)
  <2>1. n \in Nat /\ \A k \in 1 .. n + 2 : whole[k] = IF k <= n THEN s[k] ELSE t[k - n]
      BY <1>1, <1>3
  <2> HIDE DEF whole, n
  <2>2. whole[n + 2] = t[2]
      BY <2>1, SecondAfter
  <2> QED BY <2>2 DEF whole, n
<1> QED BY <1>1, <1>2, <1>4

LEMMA PackageSteps ==
  ASSUME NEW c \in Commands, Kind[c] = "package"
  PROVE  /\ Len(Program[c]) \in Nat \ {0}
         /\ Program[c][Len(Program[c])] = Check(c)
<1> DEFINE pinned == SubSeq(Inputs[c], 3, Len(Inputs[c]))
           first  == <<Step("check", {Inputs[c][1]}), Take(Inputs[c][1]), Both(Inputs[c][2])>>
           middle == InPairs(pinned, Pinned, Take)
           last   == <<Bind(Inputs[c][1]), Check(c)>>
           S      == {first[1], first[2], first[3], last[1], last[2]}
                       \cup {Pinned(n) : n \in Names} \cup {Take(n) : n \in Names}
<1>1. Program[c] = first \o middle \o last
    BY DEF Program, PackageProgram
<1>2. Inputs[c] \in Seq(Names) /\ Len(Inputs[c]) >= 2
    BY WriterAssumption
<1>3. pinned \in Seq(Names)
    BY <1>2
<1>4. middle \in Seq(S)
  <2>1. ASSUME NEW k \in 1 .. 2 * Len(pinned) PROVE pinned[(k + 1) \div 2] \in Names
      BY <1>3
  <2> HIDE DEF pinned
  <2>2. \A k \in 1 .. 2 * Len(pinned) : middle[k] \in S
      BY <2>1 DEF InPairs
  <2>3. 2 * Len(pinned) \in Nat /\ DOMAIN middle = 1 .. 2 * Len(pinned)
      BY <1>3 DEF InPairs
  <2>4. middle = [k \in 1 .. 2 * Len(pinned) |-> middle[k]]
      BY DEF InPairs
  <2> HIDE DEF middle, S
  <2> QED BY <2>2, <2>3, <2>4
<1>5. first \in Seq(S) /\ last \in Seq(S) /\ Len(last) = 2 /\ last[2] = Check(c)
    OBVIOUS
<1> HIDE DEF first, middle, last, S
<1>6. first \o middle \in Seq(S)
    BY <1>4, <1>5, ConcatProperties
<1> QED BY <1>1, <1>5, <1>6, LastOfConcat

-----------------------------------------------------------------------------
(* Digests. *)

(* An inspection binds what it takes, at the same moment. *)
Bound ==
  /\ done \in [Commands -> Nat]
  /\ basis = [c \in Commands |-> basis[c]]
  /\ digest = [c \in Commands |-> digest[c]]
  /\ \A c \in Commands : Kind[c] = "inspect" => digest[c] = basis[c]

LEMMA NextBound == Bound /\ [Next]_vars => Bound'
<1> SUFFICES ASSUME Bound, [Next]_vars PROVE Bound'
    OBVIOUS
<1>1. ASSUME NEW c \in Commands, Inspect(c) PROVE Bound'
  <2> DEFINE step == Program[c][done[c] + 1]
             taken == [n \in Names |->
               IF n \in step.names /\ step.op \in {"take", "both"} THEN Seen(n) ELSE basis[c][n]]
             bound == [n \in Names |->
               IF n \in step.names /\ step.op \in {"bind", "both", "pinned"} THEN Seen(n) ELSE digest[c][n]]
  <2>1. /\ basis' = [basis EXCEPT ![c] = taken]
        /\ digest' = [digest EXCEPT ![c] = bound]
        /\ done' = [done EXCEPT ![c] = @ + 1]
      BY <1>1 DEF Inspect
  <2>2. ASSUME Kind[c] = "inspect" PROVE bound = taken
    <3>1. done[c] + 1 \in 1 .. Len(Program[c])
        BY <1>1, <2>2, InspectSteps DEF Inspect, Bound
    <3>2. step.op \in {"check", "both"}
        BY <2>2, <3>1, InspectSteps
    <3> QED BY <2>2, <3>2 DEF Bound
  <2> HIDE DEF step, taken, bound
  <2>3. done' \in [Commands -> Nat]
      BY <2>1 DEF Bound
  <2>4. /\ basis' = [b \in Commands |-> IF b = c THEN taken ELSE basis[b]]
        /\ digest' = [b \in Commands |-> IF b = c THEN bound ELSE digest[b]]
    <3>1. DOMAIN basis = Commands /\ DOMAIN digest = Commands
        BY DEF Bound
    <3> QED BY <2>1, <3>1, Zenon
  <2> QED BY <2>2, <2>3, <2>4 DEF Bound
<1>2. ASSUME NEW cs \in SUBSET Commands, NEW label, End(cs, label) PROVE Bound'
    BY <1>2 DEF End, Bound
<1>3. ASSUME UNCHANGED <<done, report>> PROVE Bound'
    BY <1>3 DEF report, Bound
<1> QED
  BY <1>1, <1>2, <1>3
     DEF Next, InspectFails, Create, Write, Sync, Replace, WriteFails, WriteRaises, Clean,
         CleanRefused, Kill, PowerLoss, Running, Writing, Edit, Relink, vars, report

(* The digests of a refinement or a resource algebra are of the bytes that *)
(* were inspected (run_inspection, run_resource_inspection).               *)
THEOREM DigestsBind == Spec => []DigestsOfWhatWasRead
<1>1. Init => Bound
    BY DEF Init, Bound
<1>2. Bound => DigestsOfWhatWasRead
    BY DEF Bound, DigestsOfWhatWasRead
<1> QED BY <1>1, <1>2, NextBound, PTL DEF Spec

-----------------------------------------------------------------------------
(* Inputs. *)

(* A link to a link is one to an output that somebody made a link.         *)
Chains ==
  \A n \in Names : entry[n].kind = "link" =>
    LET m == entry[n].at IN
    \/ entry[m].kind # "link"
    \/ m \in Outputs /\ entry[m].at \notin Outputs /\ entry[entry[m].at].kind = "file"

(* No input is reached through the entry of the output. *)
Clear(c) ==
  \A n \in InputSet(c) :
    n # Output[c] /\ Hop(n) # Output[c] /\ Hop(Hop(n)) # Output[c]

Checked(c) == \E k \in 1 .. done[c] : Program[c][k] = Check(c)

Guarded ==
  /\ done \in [Commands -> Nat]
  /\ \A c \in Commands :
       /\ pc[c] \in {"write", "sync", "replace"} => done[c] = Len(Program[c])
       /\ Checked(c) => Clear(c)

LEMMA InputsAreNames ==
  ASSUME NEW c \in Commands
  PROVE  InputSet(c) \subseteq Names /\ Output[c] \in Names /\ Output[c] \in Outputs
BY WriterAssumption, ElementOfSeq, LenProperties DEF InputSet, Outputs

(* The check finds every way to reach an input through the output.         *)
LEMMA CheckClears ==
  ASSUME Types, Chains, NEW c \in Commands,
         \A n \in InputSet(c) : ~Aliases(Output[c], n)
  PROVE  Clear(c)
<1> DEFINE o == Output[c]
<1> SUFFICES ASSUME NEW n \in InputSet(c)
             PROVE  n # o /\ Hop(n) # o /\ Hop(Hop(n)) # o
    BY DEF Clear
<1>1. n \in Names /\ o \in Names
    BY InputsAreNames
<1>2. Hop(Hop(o)) # Hop(Hop(n))
    BY DEF Aliases, Final
<1>3. \A m \in Names : Hop(m) \in Names
    BY FileIsFile DEF Types, Entries, Hop
<1>4. ASSUME NEW m \in Names, Hop(m) = o, m # o PROVE Hop(Hop(o)) = Hop(o)
  <2>1. entry[m].kind = "link" /\ entry[m].at = o
      BY <1>4 DEF Hop
  <2>2. CASE entry[o].kind # "link"
      BY <2>2 DEF Hop
  <2>3. CASE entry[o].kind = "link"
    <3>1. entry[entry[o].at].kind = "file"
        BY <2>1, <2>3 DEF Chains
    <3> QED BY <2>3, <3>1 DEF Hop
  <2> QED BY <2>2, <2>3
<1>5. ASSUME NEW m \in Names, entry[m].kind = "link", Hop(Hop(m)) = o, Hop(m) # o
      PROVE  Hop(o) = o
  <2>1. /\ entry[entry[m].at].kind = "link"
        /\ entry[entry[m].at].at = o
      BY <1>5 DEF Hop
  <2>2. entry[o].kind = "file"
      BY <1>5, <2>1 DEF Chains
  <2> QED BY <2>2 DEF Hop
<1>6. n # o
    BY <1>2
<1>7. Hop(n) # o
    BY <1>1, <1>2, <1>4, <1>6
<1>8. Hop(Hop(n)) # o
  <2> SUFFICES ASSUME Hop(Hop(n)) = o PROVE FALSE
      OBVIOUS
  <2>1. entry[n].kind = "link"
      BY <1>7 DEF Hop
  <2>2. Hop(o) = o
      BY <1>1, <1>5, <1>7, <2>1
  <2> QED BY <1>2, <2>2
<1> QED BY <1>6, <1>7, <1>8

(* An output that becomes a file, or a link to a file that is no output.   *)
Moved(o, e) ==
  /\ entry' = [entry EXCEPT ![o] = e]
  /\ \/ e.kind = "file"
     \/ e.kind = "link" /\ e.at \notin Outputs /\ entry[e.at].kind = "file"

LEMMA MovedKeeps ==
  ASSUME Types, Chains, NEW o \in Outputs \cap Names, NEW e, Moved(o, e)
  PROVE  Chains' /\ \A c \in Commands : Clear(c) => Clear(c)'
<1>1. \A m \in Names : entry'[m] = IF m = o THEN e ELSE entry[m]
    BY DEF Moved, Types
<1>2. \A m \in Names : entry[m].kind = "link" => entry[m].at \in Names
    BY FileIsFile DEF Types, Entries
<1>3. e.kind = "link" => e.at # o
    BY DEF Moved
<1>4. ASSUME NEW n \in Names, entry'[n].kind = "link"
      PROVE  LET m == entry'[n].at IN
             \/ entry'[m].kind # "link"
             \/ m \in Outputs /\ entry'[m].at \notin Outputs /\ entry'[entry'[m].at].kind = "file"
  <2>1. CASE n = o
    <3>1. e.kind = "link" /\ entry'[n].at = e.at
        BY <1>1, <1>4, <2>1
    <3>2. entry[e.at].kind = "file" /\ e.at # o
        BY <3>1 DEF Moved
    <3>3. entry'[e.at] = entry[e.at]
        BY <3>2 DEF Moved, Types
    <3> QED BY <3>1, <3>2, <3>3
  <2>2. CASE n # o
    <3> DEFINE m == entry[n].at
    <3>1. entry'[n] = entry[n] /\ entry[n].kind = "link" /\ m \in Names
        BY <1>1, <1>2, <1>4, <2>2
    <3>2. CASE m = o
      <4>1. entry'[m] = e
          BY <1>1, <3>1, <3>2
      <4>2. CASE e.kind = "link"
        <5>1. entry'[e.at] = entry[e.at] /\ e.at \notin Outputs /\ entry[e.at].kind = "file"
            BY <1>3, <4>2 DEF Moved, Types
        <5> QED BY <3>1, <3>2, <4>1, <5>1
      <4> QED BY <3>1, <4>1, <4>2
    <3>3. CASE m # o
      <4>1. entry'[m] = entry[m]
          BY <1>1, <3>1, <3>3
      <4>2. CASE entry[m].kind = "link"
        <5>1. m \in Outputs /\ entry[m].at \notin Outputs /\ entry[entry[m].at].kind = "file"
            BY <3>1, <4>2 DEF Chains
        <5>2. entry'[entry[m].at] = entry[entry[m].at]
            BY <1>1, <1>2, <3>1, <4>2, <5>1
        <5> QED BY <3>1, <4>1, <5>1, <5>2
      <4> QED BY <3>1, <4>1, <4>2
    <3> QED BY <3>2, <3>3
  <2> QED BY <2>1, <2>2
<1>5. ASSUME NEW c \in Commands, Clear(c), NEW n \in InputSet(c)
      PROVE  n # Output[c] /\ Hop(n)' # Output[c] /\ Hop(Hop(n))' # Output[c]
  <2> DEFINE out == Output[c]
  <2>1. n \in Names /\ out \in Outputs /\ n # out /\ Hop(n) # out /\ Hop(Hop(n)) # out
      BY <1>5, InputsAreNames DEF Clear
  <2>2. Hop(n) \in Names
      BY <1>2, <2>1 DEF Hop
  <2>3. ASSUME NEW m \in Names, m # out, Hop(m) # out PROVE Hop(m)' # out
    <3>1. CASE m = o
      <4>1. entry'[m] = e
          BY <1>1, <3>1
      <4> QED BY <2>1, <2>3, <4>1 DEF Hop, Moved
    <3>2. CASE m # o
        BY <1>1, <2>3, <3>2 DEF Hop
    <3> QED BY <3>1, <3>2
  <2>4. Hop(n)' # out
      BY <2>1, <2>3
  <2>5. PICK x : x = Hop(n)'
      OBVIOUS
  <2>6. PICK y : y = Hop(Hop(n))'
      OBVIOUS
  <2>7. x = IF entry'[n].kind = "link" THEN entry'[n].at ELSE n
      BY <2>5 DEF Hop
  <2>8. y = IF entry'[x].kind = "link" THEN entry'[x].at ELSE x
      BY <2>5, <2>6 DEF Hop
  <2>9. ASSUME n = o PROVE y # out
    <3>1. entry'[n] = e
        BY <1>1, <2>1, <2>9
    <3>2. CASE e.kind = "link"
      <4>1. entry'[e.at] = entry[e.at] /\ entry[e.at].kind = "file" /\ e.at \notin Outputs
          BY <1>3, <3>2 DEF Moved, Types
      <4> QED BY <2>1, <2>7, <2>8, <3>1, <3>2, <4>1
    <3>3. CASE e.kind # "link"
        BY <2>1, <2>7, <2>8, <3>1, <3>3
    <3> QED BY <3>2, <3>3
  <2>10. ASSUME n # o PROVE y # out
    <3>1. entry'[n] = entry[n]
        BY <1>1, <2>1, <2>10
    <3>2. x = Hop(n)
        BY <2>7, <3>1 DEF Hop
    <3>3. CASE x = o
      <4>1. entry'[x] = e
          BY <1>1, <2>2, <3>2, <3>3
      <4> QED BY <2>1, <2>8, <3>2, <4>1 DEF Moved
    <3>4. CASE x # o
      <4>1. entry'[x] = entry[x]
          BY <1>1, <2>2, <3>2, <3>4
      <4>2. y = Hop(x)
          BY <2>8, <4>1 DEF Hop
      <4> QED BY <2>1, <3>2, <4>2
    <3> QED BY <3>3, <3>4
  <2>11. y # out
      BY <2>9, <2>10
  <2> QED BY <2>1, <2>4, <2>6, <2>11
<1>6. Chains'
    BY <1>4 DEF Chains
<1> QED BY <1>5, <1>6 DEF Clear

Reach == Chains /\ Guarded

LEMMA InitReach == Init => Reach
<1> SUFFICES ASSUME Init PROVE Reach
    OBVIOUS
<1>1. Chains
    BY WriterAssumption DEF Init, Chains
<1> QED BY <1>1 DEF Init, Reach, Guarded, Checked

(* What is checked stays so while no entry and no command moves.           *)
LEMMA EntryKept ==
  ASSUME Reach, UNCHANGED entry
  PROVE  Chains' /\ \A c \in Commands : Clear(c) => Clear(c)'
BY DEF Reach, Chains, Clear, Hop

LEMMA StepReach ==
  ASSUME Reach,
         Chains' /\ \A c \in Commands : Clear(c) => Clear(c)',
         NEW cs \in SUBSET Commands,
         \A c \in Commands \ cs : pc'[c] = pc[c] /\ done'[c] = done[c],
         done' \in [Commands -> Nat],
         \A c \in cs :
           /\ pc'[c] \in {"write", "sync", "replace"} => done'[c] = Len(Program[c])
           /\ Checked(c)' => Checked(c)
  PROVE  Reach'
<1>1. \A c \in Commands \ cs : Checked(c)' => Checked(c)
    BY DEF Checked
<1> QED BY <1>1 DEF Reach, Guarded

LEMMA NextReach == IInv /\ Reach /\ [Next]_vars => Reach'
<1> SUFFICES ASSUME IInv, Reach, [Next]_vars PROVE Reach'
    OBVIOUS
<1>1. ASSUME NEW c \in Commands, Inspect(c) PROVE Reach'
  <2> DEFINE step == Program[c][done[c] + 1]
  <2>1. /\ pc[c] = "inspect" /\ UNCHANGED <<entry, pc>>
        /\ step.op = "check" => \A n \in step.names : ~Aliases(Output[c], n)
        /\ done' = [done EXCEPT ![c] = @ + 1]
      BY <1>1 DEF Inspect, disk
  <2>2. done' \in [Commands -> Nat] /\ done'[c] = done[c] + 1 /\ done[c] \in Nat
      BY <2>1 DEF Reach, Guarded
  <2>3. \A b \in Commands \ {c} : done'[b] = done[b]
      BY <2>1 DEF Reach, Guarded
  <2>4. Chains' /\ \A b \in Commands : Clear(b) => Clear(b)'
      BY <2>1, EntryKept
  <2>5. ASSUME Checked(c)' PROVE Clear(c)
    <3>1. PICK k \in 1 .. done[c] + 1 : Program[c][k] = Check(c)
        BY <2>2, <2>5 DEF Checked
    <3>2. CASE k \in 1 .. done[c]
        BY <3>1, <3>2 DEF Checked, Reach, Guarded
    <3>3. CASE k = done[c] + 1
      <4>1. step.op = "check" /\ step.names = InputSet(c)
          BY <3>1, <3>3 DEF Check, Step
      <4> QED BY <2>1, <4>1, CheckClears DEF IInv, Reach
    <3> QED BY <2>2, <3>2, <3>3
  <2>6. \A b \in Commands \ {c} : Checked(b)' => Checked(b)
      BY <2>3 DEF Checked
  <2> QED BY <2>1, <2>2, <2>3, <2>4, <2>5, <2>6 DEF Reach, Guarded
<1>2. ASSUME NEW cs \in SUBSET Commands, NEW label \in {"failed", "raised", "killed"},
             End(cs, label), UNCHANGED entry
      PROVE  Reach'
  <2>1. /\ \A c \in Commands \ cs : pc'[c] = pc[c] /\ done'[c] = done[c]
        /\ \A c \in cs : pc'[c] = label /\ done'[c] = 0
        /\ done' \in [Commands -> Nat]
      BY <1>2 DEF End, Reach, Guarded
  <2>2. \A c \in cs : ~Checked(c)'
      BY <2>1 DEF Checked
  <2> QED BY <1>2, <2>1, <2>2, EntryKept, StepReach
<1>3. ASSUME NEW c \in Commands, NEW label, Goto(c, label), UNCHANGED done,
             label \in {"write", "sync", "replace"} => done[c] = Len(Program[c]),
             Chains' /\ \A b \in Commands : Clear(b) => Clear(b)'
      PROVE  Reach'
  <2>1. /\ \A b \in Commands \ {c} : pc'[b] = pc[b] /\ done'[b] = done[b]
        /\ pc'[c] = label
      BY <1>3 DEF Goto, IInv, Types
  <2>2. Checked(c)' => Checked(c)
      BY <1>3 DEF Checked
  <2>3. \A b \in {c} :
          /\ pc'[b] \in {"write", "sync", "replace"} => done'[b] = Len(Program[b])
          /\ Checked(b)' => Checked(b)
      BY <1>3, <2>1, <2>2
  <2>4. done' \in [Commands -> Nat] /\ {c} \in SUBSET Commands
      BY <1>3 DEF Reach, Guarded
  <2> QED BY <1>3, <2>1, <2>3, <2>4, StepReach
<1>4. ASSUME UNCHANGED <<pc, done>>, Chains' /\ \A b \in Commands : Clear(b) => Clear(b)'
      PROVE  Reach'
    BY <1>4 DEF Reach, Guarded, Checked
<1>5. ASSUME NEW c \in Commands, Create(c) \/ Write(c) \/ Sync(c) PROVE Reach'
    BY <1>3, <1>5, EntryKept DEF Create, Write, Sync, Reach, Guarded
<1>6. ASSUME NEW c \in Commands, Replace(c) PROVE Reach'
  <2>1. Moved(Output[c], File(c))
      BY <1>6, FileIsFile DEF Replace, Moved
  <2>2. Chains' /\ \A b \in Commands : Clear(b) => Clear(b)'
      BY <2>1, InputsAreNames, MovedKeeps DEF IInv, Reach
  <2> QED BY <1>3, <1>6, <2>2 DEF Replace
<1>7. ASSUME NEW c \in Commands, WriteFails(c) PROVE Reach'
    BY <1>3, <1>7, EntryKept DEF WriteFails, disk
<1>8. ASSUME NEW c \in Commands, WriteRaises(c) PROVE Reach'
    BY <1>2, <1>3, <1>8, EntryKept DEF WriteRaises, disk
<1>9. ASSUME NEW c \in Commands,
             InspectFails(c) \/ Clean(c) \/ CleanRefused(c) \/ Kill(c)
      PROVE  Reach'
    BY <1>2, <1>9 DEF InspectFails, Clean, CleanRefused, Kill, disk
<1>10. CASE PowerLoss
    BY <1>2, <1>10 DEF PowerLoss, Running, Writing
<1>11. ASSUME NEW n \in Names, Edit(n) PROVE Reach'
    BY <1>4, <1>11, EntryKept DEF Edit
<1>12. ASSUME NEW c \in Commands, NEW n \in Names, Relink(c, n) PROVE Reach'
  <2>1. \E e : Moved(Output[c], e)
      BY <1>12, FileIsFile DEF Relink, Moved
  <2>2. Chains' /\ \A b \in Commands : Clear(b) => Clear(b)'
      BY <2>1, InputsAreNames, MovedKeeps DEF IInv, Reach
  <2> QED BY <1>4, <1>12, <2>2 DEF Relink
<1>13. CASE UNCHANGED vars
    BY <1>4, <1>13, EntryKept DEF vars
<1> QED
    BY <1>1, <1>5, <1>6, <1>7, <1>8, <1>9, <1>10, <1>11, <1>12, <1>13 DEF Next

(* A program that compares its output does so before it is over.           *)
LEMMA ChecksAll ==
  ASSUME NEW c \in Commands, Kind[c] # "author", done[c] = Len(Program[c])
  PROVE  Checked(c)
<1>1. Kind[c] \in {"inspect", "package"}
    BY WriterAssumption
<1> QED BY <1>1, InspectSteps, PackageSteps DEF Checked

(* The rename of a command that compared its output with its inputs        *)
(* changes none of them (_aliases_input, _aliases, os.replace).            *)
THEOREM InputsKept == Spec => InputsUntouched
<1>1. IInv /\ Reach /\ [Next]_vars => [Untouched]_vars
  <2> SUFFICES ASSUME IInv, Reach, Next,
                      NEW c \in Commands, pc[c] # "written", pc'[c] = "written",
                      Kind[c] # "author",
                      NEW n \in InputSet(c)
               PROVE  Seen(n)' = Seen(n)
      BY DEF Untouched
  <2>1. Replace(c)
      BY DEF Next, Inspect, InspectFails, Create, Write, Sync, Replace, WriteFails, WriteRaises,
             Clean, CleanRefused, Kill, PowerLoss, Edit, Relink, Goto, End, IInv, Types
  <2>2. Clear(c)
      BY <2>1, ChecksAll DEF Replace, Reach, Guarded
  <2>3. /\ n \in Names
        /\ n # Output[c] /\ Hop(n) # Output[c] /\ Hop(Hop(n)) # Output[c]
        /\ Hop(n) \in Names /\ Final(n) \in Names
      BY <2>2, InputsAreNames, FileIsFile DEF Clear, Hop, Final, IInv, Types, Entries
  <2>4. /\ \A m \in Names : m # Output[c] => entry'[m] = entry[m]
        /\ content' = content
      BY <2>1 DEF Replace, IInv, Types
  <2>5. Hop(n)' = Hop(n)
      BY <2>3, <2>4 DEF Hop
  <2>6. Final(n)' = Final(n)
      BY <2>3, <2>4, <2>5 DEF Final, Hop
  <2>7. entry'[Final(n)] = entry[Final(n)]
      BY <2>3, <2>4 DEF Final
  <2> QED BY <2>4, <2>6, <2>7 DEF Seen, Exists, Inode
<1> QED BY <1>1, InitReach, NextReach, Invariance, PTL DEF Spec, InputsUntouched

=============================================================================
