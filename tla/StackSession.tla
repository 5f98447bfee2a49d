----------------------------- MODULE StackSession -----------------------------
(***************************************************************************)
(* One session of the Stack conformance runner: class _Runner of           *)
(* semantic_packages/stack_runner.py with its _LineReader, and the tail of *)
(* run_stack_conformance, against an arbitrary child process.              *)
(*                                                                         *)
(* The runner writes one request, reads one line, checks that nothing else *)
(* is waiting on stdout, and repeats; it then closes the child's stdin,    *)
(* reads stdout to its end, waits for the child, terminates or kills what  *)
(* is left, and reports.  What the calls ask is abstracted: a line is the  *)
(* sequence number it carries, the verdict of the checks on its content,   *)
(* and whether it reports a forbidden event.                               *)
(*                                                                         *)
(* The child may write anything at any time, close its streams, exit with  *)
(* any status, ignore SIGTERM, or hang; a process it leaves behind may     *)
(* keep its stdout or stderr open.  It may write more to stderr than the   *)
(* pipe holds: it gets no further than the drain thread reads.  Every      *)
(* deadline may expire while the runner waits.                             *)
(***************************************************************************)
EXTENDS Naturals, Sequences

CONSTANTS
  NumCalls,    \* requests of the campaign
  MaxItems,    \* bound: pieces of output the child's side ever writes
  Bodies,      \* the contents of a line the child may write
  Heritable    \* streams a process left behind by the child may hold open

(* The contents of a line, by what the runner's checks make of it. *)
Judged    == {"supports", "challenges", "inconclusive"}
Enveloped == Judged \cup {"adapter-error", "bad-result"}
Unusable  == {"bad-utf8", "bad-json", "bad-envelope"}

ASSUME SessionAssumption ==
  /\ NumCalls \in Nat
  /\ MaxItems \in Nat
  /\ Bodies \subseteq Enveloped \cup Unusable
  /\ Heritable \subseteq {"stdout", "stderr"}

VARIABLES
  pc,        \* where the runner is
  seq,       \* _Runner._seq: answers accepted so far
  line,      \* the line being checked
  buffer,    \* _LineReader._buffer
  eof,       \* _LineReader._eof
  stdinOpen, \* the runner's end of the child's stdin
  marks,     \* what the accepted answers said against the specification
  failure,   \* the _AdapterError cause, or "none"
  closure,   \* the cause close() returned, or "none"
  result,    \* the report's result, "none" before it
  drainer,   \* the thread that reads stderr: "none", "reading" or "ended"
  child,     \* "none", "running", or the exit status "zero" / "nonzero"
  fds,       \* of stdin and stdout, what the child holds open
  held,      \* of Heritable, what a process left behind holds open
  pipe,      \* written to stdout and not read
  written,   \* history: pieces written so far
  lines,     \* history: of them, those that end a line
  faults     \* history: what the child's side did outside the protocol

runnerVars == <<pc, seq, line, buffer, eof, stdinOpen, marks, failure, closure, result>>
childVars  == <<child, fds, held, pipe, written, lines>>
vars       == <<runnerVars, drainer, childVars, faults>>

(* A piece of output: a line, or bytes without an LF. *)
Fragment == [seq |-> 0, body |-> "fragment", forbidden |-> FALSE]
Items    == [seq : 0 .. NumCalls + MaxItems, body : Bodies \cup {"fragment"},
             forbidden : BOOLEAN]

Causes == {"PROCESS_START", "PROCESS_EXIT", "UNEXPECTED_EOF", "TIMEOUT",
           "RESPONSE_ENCODING", "RESPONSE_JSON", "RESPONSE_SHAPE",
           "SEQUENCE_MISMATCH", "EXTRA_STDOUT", "ADAPTER_ERROR"}

Exited     == child \in {"zero", "nonzero"}
StdoutOpen == (child = "running" /\ "stdout" \in fds) \/ "stdout" \in held
StderrOpen == child = "running" \/ "stderr" \in held

IsLine(item) == item.body # "fragment"

(* A buffer holds a line when it holds an LF; what precedes the LF, pieces *)
(* written without one included, is that line.                             *)
HasLine(b)      == \E i \in DOMAIN b : IsLine(b[i])
EndsLine(b, i)  == IsLine(b[i]) /\ \A j \in 1 .. i - 1 : ~IsLine(b[j])

(* Requests written so far. *)
Sent == IF pc \in {"read", "peek"} THEN seq + 1 ELSE seq

-----------------------------------------------------------------------------
(* The runner. *)

Init ==
  /\ pc = "start"
  /\ seq = 0
  /\ line = Fragment
  /\ buffer = <<>>
  /\ eof = FALSE
  /\ stdinOpen = TRUE
  /\ marks = {}
  /\ failure = "none"
  /\ closure = "none"
  /\ result = "none"
  /\ drainer = "none"
  /\ child = "none"
  /\ fds = {}
  /\ held = {}
  /\ pipe = <<>>
  /\ written = 0
  /\ lines = 0
  /\ faults = {}

(* start(): Popen and the thread that drains stderr, or OSError. *)
Start ==
  /\ pc = "start"
  /\ pc' = "call"
  /\ child' = "running"
  /\ fds' = {"stdin", "stdout"}
  /\ held' \in SUBSET Heritable
  /\ drainer' = "reading"
  /\ UNCHANGED <<seq, line, buffer, eof, stdinOpen, marks, failure, closure,
                 result, pipe, written, lines, faults>>

StartFails ==
  /\ pc = "start"
  /\ pc' = "report"
  /\ failure' = "PROCESS_START"
  /\ faults' = faults \cup {"start"}
  /\ UNCHANGED <<seq, line, buffer, eof, stdinOpen, marks, closure, result,
                 drainer, childVars>>

(* The session fails with a cause and is closed. *)
FailWith(cause) ==
  /\ failure' = cause
  /\ pc' = "close"

(* The campaign has a call left to make. *)
CallLeft_OneMore == seq <= NumCalls

CallLeft == seq < NumCalls

(* _send(): the request is written, or nobody holds the other end. *)
Send ==
  /\ pc = "call"
  /\ CallLeft
  /\ pc' = IF child = "running" /\ "stdin" \in fds THEN "read" ELSE "classify"
  /\ UNCHANGED <<seq, line, buffer, eof, stdinOpen, marks, failure, closure,
                 result, drainer, childVars, faults>>

(* The campaign has made its last call. *)
CampaignDone ==
  /\ pc = "call"
  /\ ~CallLeft
  /\ pc' = "close"
  /\ UNCHANGED <<seq, line, buffer, eof, stdinOpen, marks, failure, closure,
                 result, drainer, childVars, faults>>

(* read_line() without a line in the buffer: select, then os.read. *)
Reading == pc \in {"read", "drain"} /\ ~HasLine(buffer)

ReadChunk ==
  /\ Reading
  /\ ~eof
  /\ pipe # <<>>
  /\ buffer' = buffer \o pipe
  /\ pipe' = <<>>
  /\ UNCHANGED <<pc, seq, line, eof, stdinOpen, marks, failure, closure, result,
                 drainer, child, fds, held, written, lines, faults>>

ReadEof ==
  /\ Reading
  /\ ~eof
  /\ pipe = <<>>
  /\ ~StdoutOpen
  /\ eof' = TRUE
  /\ UNCHANGED <<pc, seq, line, buffer, stdinOpen, marks, failure, closure,
                 result, drainer, childVars, faults>>

(* The child may write more to stderr than the pipe holds before each of   *)
(* its steps: it gets no further than the thread reads.                    *)
Blocked == child = "running" /\ drainer # "reading"

(* A deadline expires.  The child is to blame unless it could not go on.   *)
Expire == faults' = faults \cup (IF Blocked THEN {} ELSE {"slow"})

(* _receive(): no line before the deadline; the answer may still come. *)
ReceiveTimeout ==
  /\ pc = "read"
  /\ Reading
  /\ ~eof
  /\ FailWith("TIMEOUT")
  /\ Expire
  /\ UNCHANGED <<seq, line, buffer, eof, stdinOpen, marks, closure, result,
                 drainer, childVars>>

(* _receive(): end of stdout before a line. *)
ReceiveEof ==
  /\ pc = "read"
  /\ Reading
  /\ eof
  /\ pc' = "classify"
  /\ UNCHANGED <<seq, line, buffer, eof, stdinOpen, marks, failure, closure,
                 result, drainer, childVars, faults>>

(* _receive(): a line is decoded, parsed and its envelope checked. *)
EnvelopeCause_AnySeq(l) ==
  IF l.body = "bad-utf8" THEN "RESPONSE_ENCODING"
  ELSE IF l.body = "bad-json" THEN "RESPONSE_JSON"
  ELSE IF l.body = "bad-envelope" THEN "RESPONSE_SHAPE"
  ELSE "none"

EnvelopeCause(l) ==
  IF l.body = "bad-utf8" THEN "RESPONSE_ENCODING"
  ELSE IF l.body = "bad-json" THEN "RESPONSE_JSON"
  ELSE IF l.body = "bad-envelope" THEN "RESPONSE_SHAPE"
  ELSE IF l.seq # seq THEN "SEQUENCE_MISMATCH"
  ELSE "none"

Receive ==
  /\ pc = "read"
  /\ \E i \in DOMAIN buffer :
       /\ EndsLine(buffer, i)
       /\ line' = buffer[i]
       /\ buffer' = SubSeq(buffer, i + 1, Len(buffer))
       /\ IF EnvelopeCause(buffer[i]) = "none"
          THEN pc' = "peek" /\ UNCHANGED failure
          ELSE FailWith(EnvelopeCause(buffer[i]))
  /\ UNCHANGED <<seq, eof, stdinOpen, marks, closure, result, drainer, childVars, faults>>

(* has_pending(): the buffer holds more, or select calls stdout readable,  *)
(* which it also does at end of file.                                      *)
HasPending ==
  \/ buffer # <<>>
  \/ ~eof /\ (pipe # <<>> \/ ~StdoutOpen)

PeekPending ==
  /\ pc = "peek"
  /\ HasPending
  /\ FailWith("EXTRA_STDOUT")
  /\ UNCHANGED <<seq, line, buffer, eof, stdinOpen, marks, closure, result,
                 drainer, childVars, faults>>

(* _call() after _receive(): the events are recorded before the status and *)
(* the shape of the result are looked at.                                  *)
MarksOf(l) ==
  (IF l.forbidden THEN {"challenges"} ELSE {})
    \cup ({l.body} \cap {"challenges", "inconclusive"})

Accept ==
  /\ pc = "peek"
  /\ ~HasPending
  /\ seq' = seq + 1
  /\ marks' = marks \cup MarksOf(line)
  /\ \/ line.body = "adapter-error" /\ FailWith("ADAPTER_ERROR")
     \/ line.body = "bad-result" /\ FailWith("RESPONSE_SHAPE")
     \/ line.body \in Judged /\ pc' = "call" /\ UNCHANGED failure
  /\ UNCHANGED <<line, buffer, eof, stdinOpen, closure, result, drainer, childVars, faults>>

(* The cause a process exit is reported with, when the status is zero. *)
ExitCause(ifZero) == IF child = "nonzero" THEN "PROCESS_EXIT" ELSE ifZero

(* _classify_exit(): wait for the status, no longer than the timeout. *)
Classify ==
  /\ pc = "classify"
  /\ Exited
  /\ FailWith(ExitCause("UNEXPECTED_EOF"))
  /\ UNCHANGED <<seq, line, buffer, eof, stdinOpen, marks, closure, result,
                 drainer, childVars, faults>>

ClassifyTimeout_Never == FALSE

ClassifyTimeout ==
  /\ pc = "classify"
  /\ child = "running"
  /\ FailWith("UNEXPECTED_EOF")
  /\ UNCHANGED <<seq, line, buffer, eof, stdinOpen, marks, closure, result,
                 drainer, childVars, faults>>

(* close(): stdin is closed, then stdout is read to its end. *)
CloseStdin ==
  /\ pc = "close"
  /\ stdinOpen' = FALSE
  /\ pc' = "drain"
  /\ UNCHANGED <<seq, line, buffer, eof, marks, failure, closure, result,
                 drainer, childVars, faults>>

(* _await_clean_exit() returns. *)
CloseWith(cause) ==
  /\ closure' = cause
  /\ pc' = "poll"

DrainTimeout ==
  /\ pc = "drain"
  /\ Reading
  /\ ~eof
  /\ CloseWith("TIMEOUT")
  /\ Expire
  /\ UNCHANGED <<seq, line, buffer, eof, stdinOpen, marks, failure, result,
                 drainer, childVars>>

(* A line after the last answer, or at the end of stdout a piece without LF. *)
Leftover_LinesOnly == HasLine(buffer)

Leftover == HasLine(buffer) \/ (eof /\ buffer # <<>>)

DrainExtra ==
  /\ pc = "drain"
  /\ Leftover
  /\ CloseWith("EXTRA_STDOUT")
  /\ UNCHANGED <<seq, line, buffer, eof, stdinOpen, marks, failure, result,
                 drainer, childVars, faults>>

DrainClean ==
  /\ pc = "drain"
  /\ eof
  /\ ~Leftover
  /\ pc' = "wait"
  /\ UNCHANGED <<seq, line, buffer, eof, stdinOpen, marks, failure, closure,
                 result, drainer, childVars, faults>>

WaitExit ==
  /\ pc = "wait"
  /\ Exited
  /\ CloseWith(ExitCause("none"))
  /\ UNCHANGED <<seq, line, buffer, eof, stdinOpen, marks, failure, result,
                 drainer, childVars, faults>>

WaitTimeout ==
  /\ pc = "wait"
  /\ child = "running"
  /\ CloseWith("TIMEOUT")
  /\ Expire
  /\ UNCHANGED <<seq, line, buffer, eof, stdinOpen, marks, failure, result,
                 drainer, childVars>>

(* _ensure_terminated(): poll, terminate, one grace, kill. *)
AfterPoll_NoSignal == "stderr"

AfterPoll == IF Exited THEN "stderr" ELSE "grace"

Poll ==
  /\ pc = "poll"
  /\ pc' = AfterPoll
  /\ UNCHANGED <<seq, line, buffer, eof, stdinOpen, marks, failure, closure,
                 result, drainer, childVars, faults>>

GraceExit ==
  /\ pc = "grace"
  /\ Exited
  /\ pc' = "stderr"
  /\ UNCHANGED <<seq, line, buffer, eof, stdinOpen, marks, failure, closure,
                 result, drainer, childVars, faults>>

Kill ==
  /\ pc = "grace"
  /\ child = "running"
  /\ child' = "nonzero"
  /\ fds' = {}
  /\ pc' = "stderr"
  /\ UNCHANGED <<seq, line, buffer, eof, stdinOpen, marks, failure, closure,
                 result, drainer, held, pipe, written, lines, faults>>

(* close(): closing stderr waits for the lock the drain thread holds while *)
(* it reads, that is until the thread has met the end of stderr.           *)
CloseStderr ==
  /\ pc = "stderr"
  /\ drainer = "ended"
  /\ pc' = "report"
  /\ UNCHANGED <<seq, line, buffer, eof, stdinOpen, marks, failure, closure,
                 result, drainer, childVars, faults>>

(* summarize_stack_conformance(): an execution cause outranks what the     *)
(* answers said, and a challenge outranks an observation left open.        *)
Verdict_ChallengesFirst(f, m) ==
  IF "challenges" \in m THEN "challenges"
  ELSE IF f THEN "error"
  ELSE IF m = {} THEN "supports"
  ELSE "inconclusive"

Verdict(f, m) ==
  IF f THEN "error"
  ELSE IF "challenges" \in m THEN "challenges"
  ELSE IF m = {} THEN "supports"
  ELSE "inconclusive"

Failed == failure # "none" \/ closure # "none"

Report ==
  /\ pc = "report"
  /\ pc' = "done"
  /\ result' = Verdict(Failed, marks)
  /\ UNCHANGED <<seq, line, buffer, eof, stdinOpen, marks, failure, closure,
                 drainer, childVars, faults>>

RunnerStep ==
  \/ Start \/ StartFails
  \/ Send \/ CampaignDone
  \/ ReadChunk \/ ReadEof
  \/ ReceiveTimeout \/ ReceiveEof \/ Receive
  \/ PeekPending \/ Accept
  \/ Classify \/ ClassifyTimeout
  \/ CloseStdin
  \/ DrainTimeout \/ DrainExtra \/ DrainClean
  \/ WaitExit \/ WaitTimeout
  \/ Poll \/ GraceExit \/ Kill
  \/ CloseStderr \/ Report

-----------------------------------------------------------------------------
(* _drain(): the thread reads until there is no writer left. *)

(* read() returns b"": end of file, and not merely nothing for now. *)
NothingMore_ForNow == drainer = "reading"

NothingMore == ~StderrOpen

DrainEnds ==
  /\ drainer = "reading"
  /\ NothingMore
  /\ drainer' = "ended"
  /\ UNCHANGED <<runnerVars, childVars, faults>>

-----------------------------------------------------------------------------
(* The child, and what it leaves behind. *)

(* The n-th line, counted from 0: with the number its place asks for, or   *)
(* with a number no request carries; an unusable line; or bytes without LF. *)
Writable(n) ==
  [seq : {n}, body : Bodies \cap Enveloped, forbidden : BOOLEAN]
    \cup {[seq |-> NumCalls, body |-> b, forbidden |-> FALSE] : b \in Bodies \cap {"supports"}}
    \cup {[seq |-> 0, body |-> b, forbidden |-> FALSE] : b \in Bodies \cap Unusable}
    \cup {Fragment}

(* Output is asked for while fewer lines were written than requests. *)
ChildWrite ==
  /\ StdoutOpen
  /\ ~Blocked
  /\ written < MaxItems
  /\ \E item \in Writable(lines) :
       /\ pipe' = Append(pipe, item)
       /\ written' = written + 1
       /\ lines' = IF IsLine(item) THEN lines + 1 ELSE lines
       /\ faults' = faults
            \cup (IF lines >= Sent THEN {"unasked"} ELSE {})
            \cup (IF IsLine(item) /\ (item.body \in Unusable \cup {"bad-result"} \/ item.seq # lines)
                  THEN {"malformed"} ELSE {})
            \cup (IF item.body = "adapter-error" THEN {"refused"} ELSE {})
  /\ UNCHANGED <<runnerVars, drainer, child, fds, held>>

ChildClose(fd) ==
  /\ child = "running"
  /\ ~Blocked
  /\ fd \in fds
  /\ fds' = fds \ {fd}
  /\ faults' = IF stdinOpen THEN faults \cup {"left"} ELSE faults
  /\ UNCHANGED <<runnerVars, drainer, child, held, pipe, written, lines>>

(* After SIGTERM the status no longer tells anything of the child.  One    *)
(* that waits for room in the pipe ends by a signal only.                  *)
ChildExit(status) ==
  /\ child = "running"
  /\ Blocked => status = "nonzero"
  /\ child' = status
  /\ fds' = {}
  /\ faults' = faults
       \cup (IF stdinOpen THEN {"left"} ELSE {})
       \cup (IF status = "nonzero" /\ pc # "grace" THEN {"status"} ELSE {})
  /\ UNCHANGED <<runnerVars, drainer, held, pipe, written, lines>>

(* The process left behind ends. *)
HolderExit ==
  /\ held # {}
  /\ held' = {}
  /\ UNCHANGED <<runnerVars, drainer, child, fds, pipe, written, lines, faults>>

ChildStep ==
  \/ ChildWrite
  \/ \E fd \in {"stdin", "stdout"} : ChildClose(fd)
  \/ \E status \in {"zero", "nonzero"} : ChildExit(status)
  \/ HolderExit

Next == RunnerStep \/ DrainEnds \/ ChildStep

Spec == Init /\ [][Next]_vars

(* Neither the runner nor its thread is stopped for ever, and deadlines do *)
(* expire; the child owes nothing.                                         *)
FairSpec == Spec /\ WF_vars(RunnerStep) /\ WF_vars(DrainEnds)

-----------------------------------------------------------------------------
(* Properties. *)

(* Every variable keeps its type. *)
TypeOK ==
  /\ pc \in {"start", "call", "read", "peek", "classify", "close", "drain",
             "wait", "poll", "grace", "stderr", "report", "done"}
  /\ seq \in 0 .. NumCalls
  /\ line \in Items
  /\ buffer \in Seq(Items)
  /\ eof \in BOOLEAN
  /\ stdinOpen \in BOOLEAN
  /\ marks \subseteq {"challenges", "inconclusive"}
  /\ failure \in Causes \cup {"none"}
  /\ closure \in Causes \cup {"none"}
  /\ result \in {"none", "error", "challenges", "supports", "inconclusive"}
  /\ drainer \in {"none", "reading", "ended"}
  /\ child \in {"none", "running", "zero", "nonzero"}
  /\ fds \subseteq {"stdin", "stdout"}
  /\ held \subseteq Heritable
  /\ pipe \in Seq(Items)
  /\ written \in 0 .. MaxItems
  /\ lines \in 0 .. MaxItems
  /\ faults \subseteq {"start", "slow", "unasked", "malformed", "refused", "left", "status"}

(* A session that is not an error has read everything the child will ever  *)
(* write, and the child has ended with status zero: nothing that would     *)
(* have made it an error can still arrive after the verdict.               *)
CleanEnd ==
  result \in {"supports", "challenges", "inconclusive"} =>
    /\ seq = NumCalls
    /\ child = "zero"
    /\ eof
    /\ ~StdoutOpen
    /\ buffer = <<>>
    /\ pipe = <<>>

(* A session that is not an error accepted every line the child wrote, one *)
(* for each request and in order: none was skipped, taken twice, late,     *)
(* malformed or an adapter error.                                          *)
EveryLineAnswered ==
  result \in {"supports", "challenges", "inconclusive"} =>
    /\ lines = NumCalls
    /\ faults \cap {"slow", "malformed", "refused", "status"} = {}

(* _ensure_terminated: whatever the child does with SIGTERM, it is gone    *)
(* before the report is made.                                              *)
NothingLeftRunning ==
  pc \in {"stderr", "report", "done"} => child # "running"

(* What the child's side did, or a deadline, that can be the ground of a   *)
(* reported cause.                                                         *)
Grounds(cause) ==
  CASE cause = "PROCESS_START"     -> {"start"}
    [] cause = "PROCESS_EXIT"      -> {"status"}
    [] cause = "UNEXPECTED_EOF"    -> {"left"}
    [] cause = "TIMEOUT"           -> {"slow"}
    [] cause = "EXTRA_STDOUT"      -> {"unasked", "left"}
    [] cause = "ADAPTER_ERROR"     -> {"refused"}
    [] OTHER                       -> {"malformed"}

(* The runner accuses nobody falsely: each cause of a report is grounded   *)
(* in something the child's side did or in a deadline that expired while   *)
(* nothing kept the child from answering, so a child that keeps the        *)
(* protocol in time, however much it writes to stderr, is never reported   *)
(* as an error.  After a first failure, EXTRA_STDOUT at the close may be   *)
(* the answer that came late or was left unread.                           *)
CausesGrounded ==
  /\ failure # "none" => faults \cap Grounds(failure) # {}
  /\ (closure # "none" /\ ~(closure = "EXTRA_STDOUT" /\ failure # "none"))
       => faults \cap (Grounds(closure) \ {"left"}) # {}

(* The session implements the promise of LockstepSession. *)
Lockstep == INSTANCE LockstepSession WITH
  accepted <- seq,
  failed   <- Failed,
  running  <- child = "running",
  verdict  <- result

LockstepSpec == Lockstep!Spec

(* Whatever the child does, the session comes to its report. *)
SessionEnds == <>(pc = "done")

(* stack_runner.py:607 says _LineReader exposes "whether more is already   *)
(* waiting": EXTRA_STDOUT during a call means bytes nobody asked for.      *)
ExtraStdoutIsOutput ==
  failure = "EXTRA_STDOUT" => "unasked" \in faults

=============================================================================
