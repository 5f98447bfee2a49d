---------------------------- MODULE ReportWriter ----------------------------
(***************************************************************************)
(* The commands that read files and leave one report: author_command.py,   *)
(* refinement_command.py, resource_algebra.py, effect_separation.py,       *)
(* lease_session.py and numerical_kernel.py, run at the same time over one *)
(* directory that people edit, and killed at any point.                    *)
(*                                                                         *)
(* A name is an entry of the directory: a file or a link to another name.  *)
(* A file's content is its version, and 0 is a torn one; what is in the    *)
(* document is left out, and so is every reason to refuse it.  A command's *)
(* temporary file is the file named after the command.                     *)
(***************************************************************************)
EXTENDS Naturals, Sequences

CONSTANTS
  Names,        \* the entries commands are given
  Commands,     \* the commands that are run
  Kind,         \* of each: "author", "inspect" or "package"
  Inputs,       \* of each: the names it reads, in order
  Output,       \* of each: the name of its report
  Directories,  \* the directories there may be at the start
  MaxEdits,     \* bound: edits of files
  MaxRelinks    \* bound: changes of entries by hand

File(i)  == [kind |-> "file", at |-> i]
Link(n)  == [kind |-> "link", at |-> n]
NoEntry  == [kind |-> "none", at |-> "nothing"]
Inodes   == Names \cup Commands
Outputs  == {Output[c] : c \in Commands}
Torn     == 0

ASSUME WriterAssumption ==
  /\ Names \cap Commands = {}
  /\ Kind \in [Commands -> {"author", "inspect", "package"}]
  /\ Inputs \in [Commands -> Seq(Names)]
  /\ \A c \in Commands : Kind[c] = "package" => Len(Inputs[c]) >= 2
  /\ Output \in [Commands -> Names]
  /\ Directories \subseteq
       [Names -> {File(i) : i \in Names} \cup {Link(n) : n \in Names} \cup {NoEntry}]
  /\ \A d \in Directories, n \in Names :
       d[n].kind = "link" => d[d[n].at].kind # "link"
  /\ MaxEdits \in Nat
  /\ MaxRelinks \in Nat

VARIABLES
  entry,     \* the directory
  content,   \* of each file, its version
  synced,    \* the files whose content is on the disk
  temporary, \* the commands whose temporary file has its name still
  refused,   \* the commands that could not remove it
  pc,        \* where each command is
  done,      \* the steps of its inspection that are behind it
  basis,     \* of each command and name, what was inspected
  digest,    \* of each command and name, what the report names
  edits, relinks

vars == <<entry, content, synced, temporary, refused, pc, done, basis, digest, edits, relinks>>

disk   == <<entry, content, synced, temporary, refused>>
report == <<basis, digest>>
hands  == <<edits, relinks>>

-----------------------------------------------------------------------------
(* Names and files. *)

Hop(n) == IF entry[n].kind = "link" THEN entry[n].at ELSE n

(* Links are followed; there is never a chain of more than two. *)
Final(n) == Hop(Hop(n))

Exists(n) == entry[Final(n)].kind = "file"

Inode(n) == entry[Final(n)].at

(* A file and its version: what a reader sees, and what a digest tells.    *)
Seen(n) == IF Exists(n) THEN <<Inode(n), content[Inode(n)]>> ELSE <<>>

(* samefile if both exist; otherwise the resolved paths are compared.      *)
Aliases_ByName(o, n) == o = n

Aliases(o, n) ==
  \/ Final(o) = Final(n)
  \/ Exists(o) /\ Exists(n) /\ Inode(o) = Inode(n)

-----------------------------------------------------------------------------
(* The inspection: checks of aliases, and reads.  A file is taken when its *)
(* bytes are inspected, and bound when its digest goes into the report.    *)

Step(op, names) == [op |-> op, names |-> names]

InputSet(c) == {Inputs[c][k] : k \in DOMAIN Inputs[c]}

Check(c)  == Step("check", InputSet(c))
Take(n)   == Step("take", {n})
Bind(n)   == Step("bind", {n})
Both(n)   == Step("both", {n})    \* of the same bytes
Pinned(n) == Step("pinned", {n})  \* bound, if it is the file that evidence or plan names

AuthorProgram(c) == [k \in DOMAIN Inputs[c] |-> Take(Inputs[c][k])]

(* For each of the names two steps, in this order. *)
InPairs(names, F(_), G(_)) ==
  [k \in 1 .. 2 * Len(names) |->
     LET n == names[(k + 1) \div 2] IN IF k % 2 = 1 THEN F(n) ELSE G(n)]

InspectProgram_ReadAgain(c) == <<Check(c)>> \o InPairs(Inputs[c], Take, Bind)

InspectProgram(c) == <<Check(c)>> \o [k \in DOMAIN Inputs[c] |-> Both(Inputs[c][k])]

(* The manifest, a member, and then the plan and the sources, each hashed  *)
(* and opened again.  The manifest is hashed when all is done, and the     *)
(* output compared with everything that was read.                          *)
PackageProgram(c) ==
  LET manifest == Inputs[c][1]
      pinned   == SubSeq(Inputs[c], 3, Len(Inputs[c]))
  IN  <<Step("check", {manifest}), Take(manifest), Both(Inputs[c][2])>>
        \o InPairs(pinned, Pinned, Take)
        \o <<Bind(manifest), Check(c)>>

(* author compares its output with nothing and its document has no digest. *)
Program ==
  [c \in Commands |->
     CASE Kind[c] = "author"  -> AuthorProgram(c)
       [] Kind[c] = "inspect" -> InspectProgram(c)
       [] Kind[c] = "package" -> PackageProgram(c)]

Nothing == [n \in Names |-> <<>>]

Init ==
  /\ entry \in Directories
  /\ content = [i \in Inodes |-> IF i \in Names THEN 1 ELSE Torn]
  /\ synced = Names
  /\ temporary = {}
  /\ refused = {}
  /\ pc = [c \in Commands |-> "inspect"]
  /\ done = [c \in Commands |-> 0]
  /\ basis = [c \in Commands |-> Nothing]
  /\ digest = [c \in Commands |-> Nothing]
  /\ edits = 0
  /\ relinks = 0

Goto(c, label) == pc' = [pc EXCEPT ![c] = label]

(* These commands end without a report, and what they knew is forgotten.   *)
End(cs, label) ==
  /\ pc'     = [c \in Commands |-> IF c \in cs THEN label ELSE pc[c]]
  /\ done'   = [c \in Commands |-> IF c \in cs THEN 0 ELSE done[c]]
  /\ basis'  = [c \in Commands |-> IF c \in cs THEN Nothing ELSE basis[c]]
  /\ digest' = [c \in Commands |-> IF c \in cs THEN Nothing ELSE digest[c]]

(* A check that finds an alias, a file that is not there or is not the one *)
(* that was pinned, content that is refused, and death before there is any *)
(* file: all end the command.                                              *)
InspectFails(c) ==
  /\ pc[c] = "inspect"
  /\ End({c}, "failed")
  /\ UNCHANGED <<disk, hands>>

Inspect(c) ==
  /\ pc[c] = "inspect"
  /\ done[c] < Len(Program[c])
  /\ LET step == Program[c][done[c] + 1] IN
       /\ step.op = "check"  => \A n \in step.names : ~Aliases(Output[c], n)
       /\ step.op # "check"  => \A n \in step.names : Exists(n)
       /\ step.op = "pinned" => \A n \in step.names : Seen(n) = <<n, 1>>
       /\ basis' = [basis EXCEPT ![c] = [n \in Names |->
            IF n \in step.names /\ step.op \in {"take", "both"} THEN Seen(n) ELSE @[n]]]
       /\ digest' = [digest EXCEPT ![c] = [n \in Names |->
            IF n \in step.names /\ step.op \in {"bind", "both", "pinned"} THEN Seen(n) ELSE @[n]]]
  /\ done' = [done EXCEPT ![c] = @ + 1]
  /\ UNCHANGED <<disk, pc, hands>>

-----------------------------------------------------------------------------
(* _write_atomically. *)

Create(c) ==
  /\ pc[c] = "inspect"
  /\ done[c] = Len(Program[c])
  /\ temporary' = temporary \cup {c}
  /\ Goto(c, "write")
  /\ UNCHANGED <<entry, content, synced, refused, done, report, hands>>

Write(c) ==
  /\ pc[c] = "write"
  /\ content' = [content EXCEPT ![c] = 1]
  /\ Goto(c, "sync")
  /\ UNCHANGED <<entry, synced, temporary, refused, done, report, hands>>

Sync_Forgotten(c) ==
  /\ pc[c] = "sync"
  /\ Goto(c, "replace")
  /\ UNCHANGED <<disk, done, report, hands>>

Sync(c) ==
  /\ pc[c] = "sync"
  /\ synced' = synced \cup {c}
  /\ Goto(c, "replace")
  /\ UNCHANGED <<entry, content, temporary, refused, done, report, hands>>

(* os.replace takes the place of the entry itself, be it a link. *)
Replace(c) ==
  /\ pc[c] = "replace"
  /\ entry' = [entry EXCEPT ![Output[c]] = File(c)]
  /\ temporary' = temporary \ {c}
  /\ Goto(c, "written")
  /\ UNCHANGED <<content, synced, refused, done, report, hands>>

WriteFails_Retried(c) ==
  /\ pc[c] \in {"write", "sync", "replace"}
  /\ Goto(c, "inspect")
  /\ UNCHANGED <<disk, done, report, hands>>

WriteFails(c) ==
  /\ pc[c] \in {"write", "sync", "replace"}
  /\ Goto(c, "clean")
  /\ UNCHANGED <<disk, done, report, hands>>

(* A report that has no UTF-8 form is a ValueError, which the two package  *)
(* commands do not catch.                                                  *)
WriteRaises(c) ==
  /\ pc[c] = "write"
  /\ IF Kind[c] = "package" THEN End({c}, "raised")
     ELSE Goto(c, "clean") /\ UNCHANGED <<done, report>>
  /\ UNCHANGED <<disk, hands>>

Clean_OnceWritten(c) ==
  /\ pc[c] = "clean"
  /\ temporary' = IF content[c] = Torn THEN temporary ELSE temporary \ {c}
  /\ End({c}, "failed")
  /\ UNCHANGED <<entry, content, synced, refused, hands>>

Clean(c) ==
  /\ pc[c] = "clean"
  /\ temporary' = temporary \ {c}
  /\ End({c}, "failed")
  /\ UNCHANGED <<entry, content, synced, refused, hands>>

CleanRefused(c) ==
  /\ pc[c] = "clean"
  /\ refused' = refused \cup {c}
  /\ End({c}, "failed")
  /\ UNCHANGED <<entry, content, synced, temporary, hands>>

-----------------------------------------------------------------------------
(* The world around the commands. *)

Writing == {c \in Commands : pc[c] \in {"write", "sync", "replace", "clean"}}

Kill(c) ==
  /\ c \in Writing
  /\ End({c}, "killed")
  /\ UNCHANGED <<disk, hands>>

(* People act only while something runs: after that nothing is read.      *)
Running == Writing \cup {c \in Commands : pc[c] = "inspect"}

(* The power fails: what was not synced may be lost.  A rename that is     *)
(* lost leaves a directory there was before.                               *)
PowerLoss ==
  /\ Running # {}
  /\ \E lost \in SUBSET (Commands \ synced) :
       content' = [i \in Inodes |-> IF i \in lost THEN Torn ELSE content[i]]
  /\ End(Running, "killed")
  /\ UNCHANGED <<entry, synced, temporary, refused, hands>>

(* Somebody saves another version of an input. *)
Edit(n) ==
  /\ \E c \in Commands : n \in InputSet(c)
  /\ edits < MaxEdits /\ Running # {}
  /\ Exists(n)
  /\ content' = [content EXCEPT ![Inode(n)] = @ + 1]
  /\ edits' = edits + 1
  /\ UNCHANGED <<entry, synced, temporary, refused, pc, done, report, relinks>>

(* Somebody makes an output a link, symbolic or hard, to an input. *)
Relink(c, n) ==
  /\ relinks < MaxRelinks /\ Running # {}
  /\ n \in InputSet(c) \ Outputs
  /\ entry[n].kind = "file"
  /\ entry' \in {[entry EXCEPT ![Output[c]] = Link(n)], [entry EXCEPT ![Output[c]] = entry[n]]}
  /\ relinks' = relinks + 1
  /\ UNCHANGED <<content, synced, temporary, refused, pc, done, report, edits>>

Next ==
  \/ \E c \in Commands :
       \/ Inspect(c) \/ InspectFails(c)
       \/ Create(c) \/ Write(c) \/ Sync(c) \/ Replace(c)
       \/ WriteFails(c) \/ WriteRaises(c) \/ Clean(c) \/ CleanRefused(c)
       \/ Kill(c)
  \/ PowerLoss
  \/ \E n \in Names : Edit(n)
  \/ \E c \in Commands, n \in Names : Relink(c, n)

Spec == Init /\ [][Next]_vars

-----------------------------------------------------------------------------
(* Properties. *)

(* Every variable keeps its type. *)
TypeOK ==
  /\ entry \in [Names -> {File(i) : i \in Inodes} \cup {Link(n) : n \in Names} \cup {NoEntry}]
  /\ content \in [Inodes -> Nat]
  /\ synced \subseteq Inodes
  /\ refused \subseteq temporary
  /\ temporary \subseteq Commands
  /\ pc \in [Commands -> {"inspect", "write", "sync", "replace", "clean",
                          "written", "failed", "raised", "killed"}]
  /\ \A c \in Commands : pc[c] # "inspect" \/ c \notin temporary

(* Publication is atomic: whatever fails and whenever, no name stands for  *)
(* a document written in part (_write_atomically).                         *)
OutputWhole ==
  \A n \in Names : Exists(n) => content[Inode(n)] # Torn

(* A failed run creates no output, does not alter the one there was, and   *)
(* leaves no temporary file that it could remove.                          *)
FailedRunLeavesNothing ==
  \A c \in Commands :
    /\ pc[c] \in {"failed", "raised", "killed"} => \A n \in Names : entry[n] # File(c)
    /\ pc[c] = "failed" /\ c \in temporary => c \in refused

Untouched ==
  \A c \in Commands :
    (pc[c] # "written" /\ pc'[c] = "written" /\ Kind[c] # "author") =>
      \A n \in InputSet(c) : Seen(n)' = Seen(n)

(* A command that compares its output with its inputs touches none of      *)
(* them, although the output may become a link to one meanwhile.           *)
InputsUntouched == [][Untouched]_vars

(* The digests in a report of a refinement or a resource algebra are of    *)
(* the very bytes that were inspected, whoever edits them.                 *)
DigestsOfWhatWasRead ==
  \A c \in Commands :
    (pc[c] = "written" /\ Kind[c] = "inspect") =>
      \A n \in InputSet(c) : digest[c][n] = basis[c][n]

(* README.md:321: the command authenticates one campaign plan: the plan    *)
(* and the sources a package inspection used are those its report names.   *)
PlanIsAuthenticated ==
  \A c \in Commands :
    (pc[c] = "written" /\ Kind[c] = "package") =>
      \A k \in 3 .. Len(Inputs[c]) :
        digest[c][Inputs[c][k]] = basis[c][Inputs[c][k]]

=============================================================================
