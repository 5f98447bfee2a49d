# Semantic packages: a verification project

TLA+ models of the program in this repository, the TLC runs that check them on
small instances, and proofs, checked by TLAPS, of what holds for every value of
their constants. `PROJECT.json` is the index: components, runs, the mutants that
show each property can fail, the source lines every definition stands for, the
hazards, and the theorems.

Run from this directory:

    tlc -workers 2 -config MCStackSession.cfg MCStackSession.tla
    tlc -workers 2 -config MCRegistry.cfg MCRegistry.tla
    tlc -workers 2 -config MCReportWriter.cfg MCReportWriter.tla
    tlc -workers 2 -config MCOrderedMapReplay.cfg MCOrderedMapReplay.tla
    tlapm ProofLemmas.tla
    tlapm StackSessionProofs.tla
    tlapm OrderedMapRunnerProofs.tla
    tlapm StackCampaignProofs.tla
    tlapm LeaseInspectionProofs.tla
    tlapm OrderedMapReplayProofs.tla
    tlapm RegistryProofs.tla
    tlapm ReportWriterProofs.tla

## 1. The system

The repository publishes theories (`specs/*.pspec`), registers providers that
claim to realise them, gathers evidence by running the providers, and decides for
a consumer's policy whether a provider is acceptable. It is a set of command
line programs over files. What runs concurrently is a runner and its child
process, and two commands over the same files; everything else is a sequential
decision over an immutable set of records.

| component | source | state it keeps | operations | what makes it correct |
|---|---|---|---|---|
| Stack conformance session | `stack_runner.py` `_Runner`, `_LineReader` | read buffer, end-of-file flag, sequence number, causes; the child process and its three streams; the thread that reads stderr | start, call (write, read, peek), close, terminate | the verdict agrees with what the child did; the session ends; nothing stays running |
| Stack plans | `stack_runner.py` plans | none | validate, generate, default plan | the expected observations are those of the reference stack |
| Stack campaign | `stack_runner.py` `run_campaign`, summary | handle per binding, baselines, records of observations | one call per step, watched observations, summary | blame falls on the law that was broken; support means everything was looked at |
| Stack adapters | `implementations/`, `fixtures/adapters/` | a heap of stacks | empty, push, pop; 20 modes of the fixture | each broken mode breaks one law; a server breaks none |
| OrderedMap session | `ordered_map_runner.py` `_Session`, `_LineReader` | as the Stack session, with looks at stdout before and after each request | handshake, calls, close | as the Stack session; a look loses nothing |
| OrderedMap campaign and adapters | `ordered_map_runner.py`, `implementations/ordered-map-*`, `fixtures/adapters/` | handles, dispositions, the steps done | the one plan, request by request | blame falls on the law that was broken; an incomplete campaign is an error |
| OrderedMap decisions | `ordered_map_resolution.py`, `ordered_map_maintenance.py`, `ordered_map_profile_choice.py` | none: functions of captured graphs | resolve, compare with the successor, choose profiles | exact addresses decide; no package's evidence counts for another; recovery is to what was accepted |
| Capture and product commands | `canonical_artifact.py`, `_finite_source.py`, `ordered_map_product.py`, `ordered_map_theory_source.py`, `ordered_map_inspection.py` | what was read so far | look, open, decode, list, read, decide | a decision is over the bytes that are pinned |
| Lease study | `lease_session.py`, two adapters, a breaker | the protocol of one lease per scenario; the plan and sources read | capture, hash, load, run, report | the scenarios decide; the report binds what was run |
| Resolver | `resolver.py` | none: a function of policy, candidate and evidence | select, filter, dispose concerns, prohibitions, boundaries | acceptable exactly if nothing blocks; adverse evidence is never hidden |
| Records and links | `scripts/record_check.py`, `graph.py` | the record graph | load, link, close | every reference resolves exactly once; the manifest is the membership |
| Theory and package views | `publication.py`, `registration.py`, `theory_projection.py` | none | inspect a root, project it from a captured graph, project a theory | the views of one registry agree |
| Maintenance | `maintenance.py` | two observations of a registry | observe, compare, resolve both | a predecessor is preserved; recovery is reported only when it is due |
| Report writers | `author_command.py` and five more | the output file, a temporary file | alias check, write, rename | the output is whole; inputs are never touched; no temporary file stays |
| Finite refinements, resource algebra, effect separation, stable norm | `refinement.py`, `resource_algebra.py`, `effect_separation.py`, `numerical_kernel.py` | none | check a proposal, an algebra, a probe, a kernel | a bounded check says what it checked |
| Authoring | `authoring.py`, `canonical_artifact.py` | none | parse, serialise | a document or diagnostics, not both |
| Proof boundary | `scripts/proof_check.py` | a process group | run the proof checker | the group ends |
| Repository checks | `scripts/check_repo.py` and others | none | check files, commit messages | |

How they interact: `run_stack_conformance` makes one session, and the campaign
makes its calls through it; the report becomes an evidence record; the resolver
reads evidence records through the graph; maintenance runs the resolver on the
old and the new graph; each command ends in a writer. The OrderedMap commands
share one capture: a contract pins a manifest, the manifest pins the records,
and what is read is checked against the pin before anything is decided.

What is hard: a child may write early, late, too much or not at all, close one
stream and keep another, ignore a signal, or leave a process behind that keeps a
pipe open; a deadline may expire while the answer is on its way; a broken
provider spoils the observations that follow its first wrong answer; a crash or
another command may come between two steps of a writer; files change between the
listing of a directory and the reading of what was listed, or between a digest
and the use of what it stood for. `PROJECT.json` lists
each of these at the line where it bites.

## 2. Modules

| module | models | EXTENDS / INSTANCE |
|---|---|---|
| `LockstepSession` | the promise of a session: calls answered in order, one verdict, no child left running | |
| `StackSession` | `_Runner` and `_LineReader` against an arbitrary child | refines `LockstepSession` |
| `ProofLemmas` | induction over naturals and sequences, recursive functions, lines numbered in their order, the measure of a session | `SequenceTheorems`, `WellFoundedInduction`, `TLAPS` |
| `StackSessionProofs` | theorems about it | `StackSession`, `ProofLemmas` |
| `OrderedMapSession` | `_Session` and `_LineReader` of the OrderedMap runner against an arbitrary child | refines `LockstepSession` |
| `OrderedMapRunnerProofs` | theorems about it, and about the report of the campaign | `OrderedMapSession`, `ProofLemmas`, `OrderedMapCampaign` (instance) |
| `StackPlan` | plans, their validation and the generated default plan | |
| `StackServer` | the Python, Rust and TypeScript servers: handles, refusals and their stacks | |
| `StackAdapter` | the fixture adapters' answers, one operator per request | `StackServer` |
| `StackCampaign` | `run_campaign` and the summary, with an adapter in place of the session | `StackPlan`, `StackAdapter` |
| `StackCampaignProofs` | theorems about it, for every valid plan | `StackCampaign`, `ProofLemmas` |
| `OrderedMapPlan` | the one conformance plan and its expectations | |
| `OrderedMapAdapter` | the two servers' maps and the fixture's modes | `OrderedMapPlan` |
| `OrderedMapCampaign` | `run_ordered_map_conformance`, with an adapter in place of the session | `OrderedMapAdapter` |
| `LeaseSession` | the oracle of the lease protocol, the adapters, the breaker, the scenarios | |
| `LeaseInspection` | `inspect_protocol_package` and the checks of a protocol, over files that change | `LeaseSession` |
| `LeaseInspectionProofs` | theorems about it | `LeaseInspection`, `ProofLemmas` |
| `RecordGraph` | records, links, manifests, and the observation of a manifest over files | |
| `Resolver` | the dispositions of a candidate, acceptability, a resolution's diagnostics | `RecordGraph` |
| `Registry` | the life of a registry: publication, release, drift, revision, and the inspection of a revision | `Resolver` |
| `RegistryProofs` | theorems about it | `Registry`, `TLAPS` |
| `TheoryViews` | publication, registration and projection, from files and from a captured graph | `Resolver` |
| `OrderedMapResolver` | the three OrderedMap decisions | `TheoryViews` |
| `SourceCapture` | what the look at, the opening, the decoding and the listing of a file refuse | |
| `OrderedMapReplay` | the four OrderedMap commands, read by read, over files that change | `OrderedMapResolver`, `SourceCapture` |
| `OrderedMapReplayProofs` | theorems about it, for every released repository | `OrderedMapReplay`, `ProofLemmas` |
| `ReportWriter` | the six commands that read files and leave one report, over one directory | |
| `ReportWriterProofs` | theorems about it | `ReportWriter`, `TLAPS` |
| `MC...` | instances for TLC | the module they name |

### StackSession

`pc` is the place in the runner's control, and each action is the code from one
point where the runner may wait, or the child may act, to the next:

| action | code |
|---|---|
| `Start`, `StartFails` | `start()`, Popen or OSError |
| `Send`, `CampaignDone` | `_send()`; no call left |
| `ReadChunk`, `ReadEof` | one turn of the loop in `read_line()` |
| `ReceiveTimeout`, `ReceiveEof`, `Receive` | the three ends of `read_line()` in `_receive()` and the checks of the envelope |
| `PeekPending`, `Accept` | `has_pending()`, then the rest of `_call()` |
| `Classify`, `ClassifyTimeout` | `_classify_exit()` |
| `CloseStdin`, `Drain*`, `Wait*` | `close()` and `_await_clean_exit()` |
| `Poll`, `GraceExit`, `Kill` | `_ensure_terminated()` |
| `CloseStderr`, `Report` | the end of `close()`, the report |
| `DrainEnds` | the end of the thread that reads stderr |

`ChildWrite`, `ChildClose`, `ChildExit` and `HolderExit` are the environment: any
child, and a process it may have left behind. A line is abstracted to its
sequence number, the verdict of the checks on its content, and whether it
reports a forbidden event. `faults` is a history variable that the runner never
reads: it says what the child's side did outside the protocol, and the
properties compare the report with it.

The child may write more to stderr than a pipe holds before each of its steps, and
so it only goes on while the thread reads: `Blocked` says that it cannot, and a
deadline that expires then is not the child's fault (`Expire`).

Not modelled: the contents of requests; that bytes the runner wrote may be lost in
a pipe nobody reads any more; and that the thread gives the lock of stderr back
for a moment whenever 65536 bytes have come, so that `close()` may get it before
the end of stderr if a process left behind writes that much.

### OrderedMapSession

The same transport, written again, with differences that matter, and each is in
the model: `_before_request` looks at stdout (`OutputBefore`, `QuietBefore`), and so does the check
after an answer (`ExtraAfter`, `Accept`); a look takes what it finds into the buffer
(`LookTakes`) and so end of file is not output; a first answer of a wrong shape is
looked at again before it is called one (`JudgeFirst`); the marks of an answer
that ends the session are not kept; stderr is closed at the level of the file
descriptor after a join with a grace (`CloseStreams`), which waits for nobody. Once
`close()` has its cause nobody reads stdout, and the model leaves out what the
child does with its streams after that (`StillRead`); after a failure it only writes lines of
one content, as only their number is looked at (`Writable`).

A line that is written between the look and the write of the request is taken as
its answer if it carries the right number. `docs/design/adapter-protocol.md:23-26`
asks for lockstep requests, each answered by exactly one object; the code cannot
tell such a line from an early answer, and `CleanEnd` does not forbid it.

### StackPlan, StackServer, StackAdapter, StackCampaign

A plan is a sequence of cases; a case is a history (empty, push, pop with the
bindings they act on) and the observations to be made of it. `StackPlan` computes
the generated history exactly, 32-bit arithmetic included, on halves of 16 bits
because TLC's integers are 32 bits wide and signed. `StackServer` has the servers in
Python, Rust and TypeScript: the handles they have given out, the sequence number
each keeps or checks, what each refuses and what ends it. Rust keeps a stack bottom
first, the others top first, and the model does too. `StackAdapter` adds the modes of the
fixture. `StackCampaign` makes one call of the adapter per action. Observing a
stack means popping it to its end, one `Look` per pop, and so an adapter may
answer differently while it is watched. `SessionFails` may happen in any state:
every way a session fails is `StackSession`'s subject, and here it is only that
no further call is answered.

### OrderedMapPlan, OrderedMapAdapter, OrderedMapCampaign

The runner has one plan, and `OrderedMapPlan` is it, with what its words mean.
`OrderedMapAdapter` has the Rust server and the fixture, which keep a map as a list
of entries, and the TypeScript server, which keeps an order and values.

| action | code |
|---|---|
| `Capture`, `PlanNotAuthentic` | the plan is read, and accepted only by its digest |
| `Invoke`, `AdapterFails` | one step of a case; an answer that is an error or of the wrong type ends the campaign |
| `NextCase` | the next case |
| `SessionFails` | any failure of the session, at any request |
| `Close`, `Report` | the end of the session; the dispositions and the summary |

An observation counts for the declarations its step names and, always, for the
effects declaration.

### LeaseSession, LeaseInspection

`LeaseSession` has the oracle of the protocol (available, held, completed,
expired), the table and the object adapter, the breaker, and adapters with one mistake
in one transition; a scenario is a sequence of messages, run from a fresh process.
`LeaseInspection` is the inspection over files:

| action | code |
|---|---|
| `Capture` | the manifest and the records, if they are the ones it pins, and the checks of protocol, claims, evidence and policy |
| `HashPlan`, `LoadPlan` | the plan's digest is compared with the evidence; the plan is opened again |
| `HashSource` | the same comparison for the source of the next candidate |
| `RunScenario` | the source is started, once per scenario |
| `Report` | the manifest is hashed again, the report is made |
| `Edit` | another process publishes a registry, or saves a plan or a source |

The variables `touched` and `raced` are history: which files changed after their
digest was taken, and which of those were used afterwards. The properties say what a
report binds outside these windows; finding 3 is about the windows.

### TheoryViews, OrderedMapResolver, SourceCapture, OrderedMapReplay

`TheoryViews` computes the publication of a theory, the registration of a package and
the projection of a specification, each from the files of a root or from a graph that
was captured. `OrderedMapResolver` computes the three decisions from captured
graphs, where everything is found by exact address. `SourceCapture` says what
each way to read refuses: a look at the path, an opening that does not follow a
link at the end, the decoding, the pin, and the listing of a root.

`OrderedMapReplay` puts them in the order of each of four commands:

| action | code |
|---|---|
| `Look`, `Open`, `OpenSchema` | a contract or a manifest: look at its path, open it and compare the digest, open its schema and decode |
| `List`, `Read` | list a root, read each file listed |
| `Check` | a digest or a membership that is not the manifest's, the links, the views that must agree |
| `Decide` | the decision, or the diagnostics |
| `EditArtifact`, `EditRoot`, `EditFile`, `Move`, `Restore` | other processes change a pinned file, a root or a record, move a record, or put back what was there |
| `Control` | a caller other than the command replaces, removes or adds a record in captured graphs, as the repository's tests do |

### RecordGraph, Resolver, Registry

A file is a source root, a path and the digest of its content, and a digest
identifies one document. `CheckGraph` is `check_graph`: of several files with one
address the first by path is the record, and each record's references are
resolved. `Observation` is `inspect_manifest_graph` with its phases in order: the
manifest itself, the links, the membership; a later phase runs only if those
before it found nothing.

`Resolver` translates the selection of claims and evidence, the bins evidence is
put in, the status of a concern and of a prohibition, and the diagnostics of a
resolution as functions of the documents; nothing in the code keeps state there.

`Registry` gives these functions the states they meet:

| action | what it stands for |
|---|---|
| `Publish(packet, apart)` | documents are added to the registry, in their usual root or in a `successors` root |
| `Release` | the manifest of the first release is generated from the files |
| `Edit`, `Rename`, `Remove` | drift of a released file |
| `AppendMembers`, `Regenerate` | the manifest of the revision: the predecessor's and the added files, or one generated anew |
| `ObserveOld`, `ObserveNew` | the two graphs of `inspect_stack_successor`, read at two moments |

The publisher's actions are not code: they are every way the repository's own
procedure lets files and manifests change, and drift is what the inspection
exists to detect. The manifests, the comparison of two revisions
(`RevisionDrift`), the inspection's diagnostics and the recovery candidates are
translated from `maintenance.py`. `Preserved` compares records with their
paths, as the code does, and so reports a renamed file as drift.

Not modelled here: that files are JSON and are not links (`SourceCapture` has that);
the checks inside one specification or profile; workloads of performance
propositions; the theory projections the inspection compares besides the records;
the assumptions and exclusions displayed with a disposition.

Two things the properties do not say, because the code does not. A claim whose
concern does not match the category of its declaration is never looked at: the
resolver asks for the claims of a concern about the declarations the concern
covers. And a challenge to a claim whose subject is the specification, not the
realisation, does not count against the realisation.

### ReportWriter

The directory gives each name a file, a link to another name, or nothing; a name
leads to a file over at most two links. Two names of one file are a hard link. A
file's content is its version, 0 for one that was written in part, and a digest
tells versions (and files) apart. Any number of commands run at once.

What a command does before it writes is a program of steps, one action
`Inspect` per step: `check` compares the output with names, `take` reads a file
that is then inspected, `bind` reads one for its digest, `both` does the two with
the same bytes, and `pinned` accepts a file only if it is the one that evidence
or plan names. There are three shapes:

| kind | commands | program |
|---|---|---|
| `author` | `author_command.py` | reads its inputs; compares the output with none |
| `inspect` | `refinement_command.py`, `resource_algebra.py` | compares the output with every input, then reads each once |
| `package` | `lease_session.py`, `numerical_kernel.py` | compares the output with the manifest, reads it and its members, accepts plan and sources by their digest and opens them again, hashes the manifest again, compares the output with all |

Then all of them run `_write_atomically`: `Create`, `Write`, `Sync`, `Replace`, or
`WriteFails` and `Clean` (`CleanRefused` if the file cannot be removed).
`WriteRaises` is a report without a UTF-8 form, which the two package commands do
not catch: they end with their temporary file in place. `effect_separation.py`
has the same writer; what it protects is a set of directories, and its inspection
starts child processes, so only its writer is this model's.

`Kill`, `PowerLoss`, `Edit` and `Relink` are the world. At a power failure any
content that was not synced may be lost. The rename may be lost too, as no
command syncs the directory; then the directory is one there was before, and what
is stated of every state already holds of it.

`InputsUntouched` says nothing of `author`, which makes no comparison:
`author x --output x` replaces its own source. No text in the repository says
otherwise.

## 3. Runs

| run | instance | shows |
|---|---|---|
| `stack_session` | 2 calls, 3 pieces of output, 4 kinds of content, a process left behind may hold stdout | type, agreement of the report with the child's conduct, refinement of `LockstepSession`, termination |
| `session_eof` | 1 call | the finding on `EXTRA_STDOUT` |
| `session_stderr` | 1 call, stderr may be held | the finding on `close()` |
| `campaign_default` | the default plan, the three servers and the fixture modes that keep the protocol | which law each mode is blamed for, completeness of support, termination |
| `campaign_small` | every valid plan of one history of at most 4 steps over 2 values, the same adapters | types; no faithful adapter is challenged; blame is deserved |
| `registry` | one theory of a law, an effect and a cost, its realisation and campaign, a revision of each, and evidence in every state | stale evidence does not count; adverse evidence is neither hidden nor undone by a revision; refusals are explained; history is kept; recovery is to what was acceptable before |
| `report_writer` | an author, an inspection that reads what the author writes, a package inspection that writes the same report; two directories, one edit, one new link, power failure anywhere | no part of a document ever has a name, failed runs leave nothing, inputs stay, digests are of what was inspected |
| `report_writer_package` | the package inspection alone, one edit | the finding on the plan |
| `ordered_map_session` | 2 calls, 3 pieces of output, stderr may be held by a process left behind | agreement of causes and verdict with the child's conduct, refinement of `LockstepSession`, termination |
| `ordered_map_campaign` | the one plan, two servers and seventeen fixture modes, a session that may fail at any request | which law each mode is blamed for; what is not an error is a whole campaign |
| `lease_inspection` | a registry that is sound or has one defect, two edits | the scenarios decide; a report binds what it was made of; acceptance names the program that was checked |
| `ordered_map_replay` | four commands, 37 records and two free paths, one edit (two in the theory command) which may be undone, or one controlled record | a decision is the one that was pinned; the views of one registry agree; the profile choices stay apart; recovery is to what the accepted policy admits, on grounds that are still there |

Bounds. Two calls are the least that tell an answer to the previous request from
one to this; three pieces of output allow an extra line before, between or after
two answers, or a fragment. One content stands for each outcome of the checks
(accepted, refused by the adapter, refused by its shape, not JSON); wrong
encoding and a wrong envelope take the path of not JSON. A history of four steps
can push, pop, and pop again or branch from a retained stack.
In `registry` 25 documents exist, 8 of them published at the start; two further
packets are published, out of the revision, its campaign, and six packets of
evidence (against, in error, of another plan, unaccepted, by an unaccepted
mechanism, pointed at the new claim with and without the new specification, a
second support); one file drifts. Two packets are the least that revise the
theory and say something more, in either order and before or after the release;
one drift is enough to make either observation differ from its manifest. One
spare name is enough for a rename.

In `report_writer` the three commands are one of each kind, placed so that two write
one name and one reads what another writes; of the two directories one has
nothing published, one has a link; a second name for an input is what `Relink` may
make. One edit is
enough to come between two reads, one link to come between comparison and
rename.

In `ordered_map_session` the contents of a line are an answer that is accepted, one that
reports an error, one with a result of the wrong shape, and one that is no envelope. `ordered_map_campaign` has no
bound: the plan is the repository's. In `lease_inspection` a
package may bind the repository's adapter or any that gets one transition wrong, and
an edit may put another adapter, a mistaken one, one that exits, or nothing in a
source's place; two edits may come in one window or in two. One of the
plans has a lease expire that nobody holds. In
`ordered_map_replay` the records are abstractions of the repository's 37 with the
addresses and links they have; one edit may come before any read, and an edit that is undone
is what shows a command to have read a file once. Two edits are only tried where few
files are read. Among the contents a record may be controlled to have are an adverse
result, an unaccepted one, and a challenge by a mechanism the policy admits and by one it
does not.

Fairness. `StackSession` assumes weak fairness of the runner's own steps and none
of the child: the operating system runs the runner, and its deadlines expire. The
thread that reads stderr has weak fairness of its own, as it is scheduled for
itself; in the run `session_stderr` that does not help, since what it waits for is
not there. `OrderedMapSession` assumes weak fairness of the runner's steps only,
and needs no more: nothing there waits for the thread without a grace.
`StackCampaign` assumes that each call is answered or fails, which is what
`StackSession` shows.

Every plan of `campaign_small` is one that validation accepts, those included that
watch a stack with elements for pop-empty; such a plan blames pop-empty for whatever
is wrong with the elements, and `BlameDeserved` says so (`WatchesEmptiness`).

## 4. Proofs

`StackSessionProofs` proves, for every `NumCalls`, `MaxItems`, `Bodies` and
`Heritable` that satisfy `SessionAssumption`: `TypeCorrect`, `NeverBlocked`,
`ChildReaped`, `EndsClean`, `AccusesRightly`, `AnswersAll`, `Implements` and `SessionIsFinite`. The properties are not inductive: that a report is
clean follows from what was true when stdout ended. `IInv` adds, for each region
of the runner's control, what is known there: before the start nothing runs; no
failure is recorded while calls are made, and afterwards either one is or all
calls were made; once end of file is seen the pipe is empty and no one can
write; a close without a cause saw the exit status zero; and the thread reads stderr
from the start until its end, so that the child never waits for room there. `Implements`
takes the steps of the runner and child to steps of `LockstepSession` or to stutters.

That every line was answered and every cause has a ground needs more, since both
compare what the runner decided with what the child did, possibly long before. The
second invariant, `Account`, is about the output that is written and not yet
accepted (`Unread`: a line being checked, the buffer and the pipe). As long as
nothing failed, `faults` has "malformed" exactly if that output is out of order or unusable,
and otherwise its lines are numbered from the requests answered to the lines written
(`OrderKept`); "refused" exactly if it carries an error of the adapter; and
without "unasked" it is part of one answer. `DeadlinesKept`, `StatusSeen` and
`LeftSeen` do the same for deadlines, the exit status and closed streams. What is
written goes to the end of this output and what is taken comes from its front, so
that the lemmas of `ProofLemmas` about numbered lines (`AppendInOrder`,
`TakeInOrder`, `TakeOnly`) carry it over every step without counting.

`SessionIsFinite` is the part of `SessionEnds` that needs no fairness. Every step, of
the runner, of the thread, of the child or of what it leaves behind, raises `Spent`,
which never exceeds `54 + 2 * MaxItems + 4 * NumCalls`: it weighs the child's life,
the streams given up, the pieces written, what was found of stdout, and the runner's
phase, calls and place in a call, so that a piece of output counts more than the empty pipe it
undoes. The bound grows with what the child writes; a child that writes without
end meets the deadline, which may expire at any read. Left to TLC is that before the
report the runner always has a step to make, and makes it.

`OrderedMapRunnerProofs` proves, under `OrderedMapSessionAssumption`, `TypeCorrect`,
`NeverBlocked`, `EndsClean`, `AccusesRightly`, `Implements` and `SessionIsFinite`. The
invariants have the same shape; what is different is that a look may find end of file
before an answer was asked for, that a look moves output from the pipe to the buffer (and
so leaves their sum as it is), and that a report may have a second cause. Its last part is about
the campaign: `ReportsWhole` proves `ReportIsWhole` of an instance of
`OrderedMapCampaign`, with variables of its own, for any adapters. It uses nothing of what an adapter
answers. The invariant counts: each declaration of a case was observed once for each
step made that observes it (`CountsRight`), it has a cause over all the cases exactly
if it has one in some (`BlamedTogether`), and a campaign that did not fail leaves its
loop only after the last step of the last case (`Placed`). That no result is then
"inconclusive" follows since each declaration of the plan has a step.

`StackCampaignProofs` proves, for every set of valid plans of whatever length and every
set of adapters, under `PlansAssumption`: `TypeCorrect`, `NeverBlamesFaithful`,
`BlamesRightly`, `SupportedInFull`, `GoesOn` and `GoesNoFurther`. The assumption is what
`validate_stack_conformance_plan` leaves to the run, with the values of the profile;
the bounds a plan states of its depth and length are not used. The argument has three
parts.

- What an adapter answers. `Contents` is the stack behind a handle, top first
  whichever way a server keeps it. `AnswerEmpty`, `AnswerPush` and `AnswerPop` say of
  every adapter, mode by mode, that its answer is typed, and of a steady one that
  no stack it handed out changes (`Retains`) and which stack the new handle stands for.
  `Told` is what an adapter tells of a stack that is popped to its end, computed
  without recursion, and `ToldUnrolls` ties it to one pop.
- What a history is planned to bind. `TopFirst` is recursive, and a step takes only
  from earlier ones; `TopFirstUnfolds` shows from the library's theorem on recursion
  over a well-founded order that it satisfies its equation.
- The invariant. `BlameDeserved` is not inductive: it says nothing of a look that is
  under way. `HandlesFit` says of each handle how its stack compares with the planned one
  (the same for an adapter that is exact, no longer for one that ends);
  `LookFits` that what was seen and what is left to tell are together what the
  binding tells; `BaselinesFit` that a complete baseline is what the binding tells
  still, so that a second look by a steady adapter can not differ; `Position` and
  `LookPlaced` where the campaign is and at which binding it looks;
  `WatchesRecorded` that each watch it is past left a record, which with
  `ReportFits` gives `SupportsIsComplete`; and `EventsOwned` which adapters
  refuse or report events. TLC checked the invariant on the instances of both campaign runs.

Two further theorems are the part of `CampaignEnds` that needs no fairness; the run
`campaign_default` checks it for one plan. `GoesOn` says that every step takes the
campaign further in its plan: at the first of seven measures in which its place before
and after differ (whether the report is near, the case, its part, the step or
observation, the place in that, the elements seen, the end of a look) the later one is greater. It holds
of every adapter, since a look is one pop longer than the stack it expects at most
(`LookFits`), also when the stack never becomes empty. `GoesNoFurther` says that the measures have
a bound that the plan sets (`Extent`), and that nothing below it gets later for ever
(`NotForEver`: each measure stays where it is from some point on, one after the other). Left to TLC is that a step can be made
until the report is there, and is.

`LeaseInspectionProofs` proves every property of the run `lease_inspection` for any
registries, plans and programs and any number of edits: `BindsWhatItRan`,
`AcceptsWhatIsBound` and `DecidesRightly`. `EditsAssumption` bounds nothing but the
type of the bound, `ProtocolsAssumption` says that the lists of a protocol are lists,
and `PlansAssumption` that a plan accepted by the checks of `_plan` has scenarios, made
of requests. The invariant says for each file what is known of it from its digest
until it is edited (`CapturedSound`, `PlanBound`, `SourceHashed`), and of each
candidate that its results are the verdicts on programs it ran, one for each
scenario (`ResultsKept`, `VerdictsKept`). `CampaignDecides` then is about the
operators: as long as an adapter makes none of its mistakes its process and the
oracle's are in one state, and at its first mistake the answers differ; the oracle
itself keeps the promises of a lease. Both go over a scenario of any length, by a least
counterexample.

`OrderedMapReplayProofs` proves every property of the run
`ordered_map_replay`: `Pinned`, `ViewsNeverDisagree`, `ChoicesApart` and `RecoversToGround`,
for any contents, any edits and controls, and any number of either. `ReleaseAssumption` is about the
repository before anybody edits it, and says what the repository's own tests hold it
to: its pinned files can be read and its schemas admit them, a contract names the
manifest beside it, a manifest is well formed and lists exactly the records under its
sources, none of which is linked wrongly, and each command decides. `ReleasedViews`
adds that the theory stands without the packages and each package without the other,
and `ReleasedDecisions` that nothing of version 0.1.0 is pointed at 0.2.0. TLC evaluates
it on the 37 records.

- `Pinned`. `IInv` says what a command goes by at each moment: the contract and the
  manifest it has read mean what the pinned ones mean (`Authorised`), since the digest of
  its text was compared, and a captured graph has the members of that manifest
  (`Captured`, from `MembershipDiagnostics`). Nothing is said of the disk, which may have
  changed at any moment in between. Only `Undisturbed`, for the second half of the
  property, follows the disk: while nothing is edited, what was found and what is still to
  be read are together what is there. A decision is a function of the documents, and
  those are the members' (`DocsOfMembers`).
- `ViewsNeverDisagree` is about any state of the files at rest. Each view says of its own
  sources that they are in order: everything reads, no two files have one address, and the
  members are those listed (`InOrderAt`). That a view says no more is the converse, and
  needs that a link which holds at release holds when the records are those of the
  release. Some sources are in order exactly if each of them is, and no address
  is in two (`AllInOrder`, `SomeInOrder`).
- `ChoicesApart`. A graph that passes `_structural_diagnostics` has one document of
  each address, since it has as many addresses as records and finitely many of them
  (`CountedOnce`; `Finite` is in the invariant for that), and each package keeps to
  itself in it: a claim about its realization has one of its own addresses, and so has the
  evidence for such a claim (`PackagesApart`). Two graphs that have its own records
  in common then agree on the claims, the evidence and the policy the choice is made
  from, bin by bin.

- `RecoversToGround`. The decisions take evidence together by the claim, the mechanism or
  the observation it is of; that what they admit is `Grounded` needs that each address
  stands for one document, which the invariant has of each graph it captures (`Sound`, from
  the listing of pinned paths and from `_control_record`, which replaces by address; a
  control keeps the address by `VariantsAssumption`). `MaintenanceFinds` is what the
  checks of `_observe_ordered_map_maintenance` establish when they let it decide: every
  record before is there after, unchanged, so the claims and evidence the accepted
  policy looks at are carried over (`CarriedConcern`, `CarriedProhibition`,
  `CarriedResolution`) and the resolution of the earlier policy is the same over the
  larger graph. Nothing is acceptable under the successor (`NothingFollows`), since its policy
  prohibits something and no prohibition of the successor is ever satisfied; that
  it prohibits something is `SuccessorAssumption`, the content of a record the code has by digest.

The proofs corrected three of the formulas. `RecoveryIsGrounded` first asked that nothing
accepted contests what is recovered to, which is so of the repository's own records only: an
accepted challenge by a mechanism the policy does not admit keeps nothing from being
acceptable, and no check refuses a registry with one. The property now goes by what the policy
admits, and the run has such a challenge. `IsConsumed` asked of the consumer's source only
that its members are those listed, which two files with the same record satisfy although
`check_graph` reports them. `Repointed` only spoke of evidence; a claim of the
earlier version whose subject is this version's realization counts for this
version as well, since the claims are found by subject.

`ProofLemmas` has what these share. The library's induction theorems take an operator
and cannot be used here; `Induction` and `RecursionExists` say the same of a set of
numbers, and follow from the well-foundedness of `<`.

`RegistryProofs` proves every property of the run `registry`, for every content,
every set of packets, every selection and any number of publications and edits:
`TypeCorrect`, `OldEvidenceIsStale`, `NothingCherryPicked`,
`RefusalsExplained`, `AdverseRemains`, `NothingLost` and `RecoveryFaithful`. The
assumptions are `ContentAssumption` (what the evidence schema says of a claim
reference and a result) and `RegistryAssumption` (the initial documents and the
packets have documents and roots, and paths are comparable). The properties
speak of an observation long after it was made, when the files may have changed
again; the invariant therefore says of each clean observation what was true when
it was made: its records are exactly the members of the manifest it was made
under (which does not change afterwards), no two have one address, and every
link of each holds. From that the resolver's properties follow without
reference to the steps, and the lemmas are about the operators: what a link
check that reports nothing says of a claim, of evidence and of a policy, and that
a disposition only depends on the records that speak of its specification. The
last is what makes recovery safe, and needs that the new records are silent on the old
specification; without that premise a revision may of course change the old
resolution, and the code says so by resolving again.

`ReportWriterProofs` proves every property of the run `report_writer`, for any
number of commands, names, edits and links: `TypeCorrect`, `PublicationAtomic`,
`FailureLeavesNothing`, `DigestsBind` and `InputsKept`. `WriterAssumption` says that
no command's temporary file has a name that commands are given, and that at the
start no link leads to a link. The invariant follows each temporary file: until it
is whole and synced no name stands for it, and so a power failure takes nothing
from what a name stands for. For `InputsKept` it also bounds the links:
a link leads to a name that is no link, or to an output that is one and leads to
a name that is none (`Chains`), and once a command is about to replace its output no
input leads through it (`Clear`, `Guarded`): the comparison showed that, and a link
made later goes from an output to a name that is not one.

Model-checked only: that a session or campaign which is not over makes its next step, and so
`SessionEnds` of both sessions and `CampaignEnds` as a whole (liveness, which the prover cannot state
facts of under fairness; that neither can go on for ever is proved, see
`SessionIsFinite`, `GoesOn` and `GoesNoFurther`); `DefaultBlameDeserved` and
`BreakageFound`, which are about the default plan, where TLC visits every state
there is; and `BlameDeserved` and `BreakageFound` of the OrderedMap campaign, whose plan and
adapters are constants of the program, for the same reason: a proof would be TLC's
enumeration written out.

## 5. Findings

1. `stack_runner.py:639`: select reports end of file as readable, and so a child
   that answers and closes its stdout is reported as `EXTRA_STDOUT`.
2. `stack_runner.py:737`: closing stderr takes a lock that the drain thread holds
   until the last writer has gone; a process the child left behind delays the
   report without a bound.
3. `lease_session.py:223`: the plan is hashed and then opened again, and so are the
   adapters' sources; saved in between, another plan is inspected than the report
   names. `numerical_kernel.py` has the same shape.

The first two never make a report say `supports` or `challenges` where it should
not; the third may, of a plan or a source that the report does not name.

What reading and modelling showed besides, none of it against a text of the repository:

- Lease: no scenario makes the holder renew while the lease is held, so an adapter
  that is wrong in that transition alone is accepted. The breaker expires a lease
  that nobody holds as readily as one that is held (`resurrection_breaker.py:41-43`), and
  none of the plan's scenarios has that request. A candidate whose `state` is no
  object ends the inspection with an AttributeError (`lease_session.py:180`). The object
  adapter differs from the oracle only on messages without a token, which no plan sends
  (`Requests`).
- Stack campaign: the fixture's mode `wrong-generated-terminal-remainder` answers a
  stack of eight elements differently the second time it is popped. A valid plan
  that watches this stack for persistence blames persistence, which the mode was not made to
  break; the default plan watches it once. `Steady` leaves the mode to
  `DefaultBlameDeserved`.
- Plan validation takes any integers as element domain
  (`stack_runner.py:408-414`), and two of the servers refuse what is outside
  the profile's; a plan with such values blames nobody but ends in an error. `PlansAssumption`
  has the profile's domain.
- Replay: a link put in the place of a record after the listing is followed, and what it
  leads to is then held against the digest; schema files have no pin.
- Profile choice: evidence for a predecessor's claim, pointed again at the 0.2.0 claim with the native profile,
  counts in the decision and is listed as inapplicable at once;
  `docs/design/ordered-map-profile-choice.md:94-98` has predecessor evidence be
  inapplicable. It takes a graph that is not the pinned one, and
  `ChoicesStayApart` leaves such graphs out (`Repointed`).
- OrderedMap runner: the `request_count` of a case is the number of planned requests even
  if the session failed before them (`ordered_map_runner.py:115-120`).
- The publication view suppresses a diagnostic on the first approved address of a kind
  and id (`publication.py`), which matters only if two versions are approved.

## 6. Not modelled

- `scripts/proof_check.py`: Lean decides; around it are comparisons of texts, and one
  handler that ends a process group.
- `scripts/proof_fixture_check.py`, `record_check.py` beyond its links, and the other
  checks of the repository's own files: stateless comparisons with constants
  written in them. Schema validation is a library's.
- `authoring.py`: a parser and a printer of one document; a model would be the
  program again. The JSON parsers of the Rust servers likewise.
- `numerical_kernel.py`: its outcome compares floating-point numbers.
- `refinement.py` and the checks in `resource_algebra.py`: quantifiers over finite
  tables, the same in the model as in the code. `effect_separation.py`: ten campaigns
  held against constants.
- Rendering of reports, the sentences that explain a decision, and what a report
  displays without deciding by it.

## 7. What is left to do

The theory projections in the comparison of two revisions.
