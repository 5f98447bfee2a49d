-------------------------- MODULE OrderedMapSession --------------------------
(***************************************************************************)
(* One session of the OrderedMap conformance runner: class _Session of     *)
(* semantic_packages/ordered_map_runner.py with its _LineReader, against   *)
(* an arbitrary child process.                                             *)
(*                                                                         *)
(* It differs from StackSession where the code does: stdout is looked at   *)
(* before each request too, the look takes what it finds into the buffer,  *)
(* so that end of file is not output, a first answer of a wrong shape is   *)
(* told apart from output nobody asked for, the stderr of the child is     *)
(* drained by a thread the runner waits for only so long, and the answers  *)
(* of a call that failed are not judged.                                   *)
(*                                                                         *)
(* A line is the number it carries, what the checks make of its content,   *)
(* and whether it reports a forbidden event.  The child may write more to  *)
(* stderr than the pipe holds before each piece of output: it gets no      *)
(* further than the thread reads.                                          *)
(***************************************************************************)
EXTENDS Naturals, Sequences

CONSTANTS
  NumCalls,    \* requests of the campaign
  MaxItems,    \* bound: pieces of output the child's side ever writes
  Bodies,      \* the contents of a line the child may write
  Heritable    \* streams a process left behind by the child may hold open

(* The contents of a line, by what the runner's checks make of it: the     *)
(* shape is looked at before the number, the events after it.              *)
Judged    == {"supports", "challenges"}
Enveloped == Judged \cup {"adapter-error", "bad-result"}
Unusable  == {"bad-utf8", "duplicate-member", "bad-json", "bad-shape", "bad-events"}

ASSUME OrderedMapSessionAssumption ==
  /\ NumCalls \in Nat
  /\ MaxItems \in Nat
  /\ {"supports"} \subseteq Bodies /\ Bodies \subseteq Enveloped \cup Unusable
  /\ Heritable \subseteq {"stdout", "stderr"}

VARIABLES
  pc,        \* where the runner is
  seq,       \* answers completed; _completed_responses is one more at "peek"
  line,      \* the answer being checked, at "peek"
  buffer,    \* _LineReader._buffer
  eof,       \* _LineReader._eof
  stdinOpen, \* the runner's end of the child's stdin
  marks,     \* what the judged answers said against the specification
  causes,    \* execution_causes, in order
  result,    \* the report's result, "none" before it
  drainer,   \* the thread that reads stderr: "none", "reading" or "ended"
  child,     \* "none", "running", or the exit status "zero" / "nonzero"
  fds,       \* of stdin and stdout, what the child holds open
  held,      \* of Heritable, what a process left behind holds open
  pipe,      \* written to stdout and not read
  written,   \* history: pieces written so far
  lines,     \* history: of them, those that end a line
  faults     \* history: what the child's side did outside the protocol

input      == <<line, buffer, eof>>
outcome    == <<marks, causes, result>>
streams    == <<fds, held, pipe>>
history    == <<written, lines>>
childVars  == <<child, streams, history>>
vars       == <<pc, seq, input, stdinOpen, outcome, drainer, childVars, faults>>

Fragment == [seq |-> 0, body |-> "fragment", forbidden |-> FALSE]
Items    == [seq : 0 .. NumCalls + MaxItems, body : Bodies \cup {"fragment"},
             forbidden : BOOLEAN]

Causes == {"PROCESS_START", "PROCESS_EXIT", "UNEXPECTED_EOF", "TIMEOUT",
           "RESPONSE_ENCODING", "RESPONSE_DUPLICATE_MEMBER", "RESPONSE_JSON",
           "RESPONSE_SHAPE", "SEQUENCE_MISMATCH", "UNEXPECTED_OUTPUT",
           "EXTRA_STDOUT", "ADAPTER_ERROR"}

Exited     == child \in {"zero", "nonzero"}
StdoutOpen == (child = "running" /\ "stdout" \in fds) \/ "stdout" \in held
StderrOpen == child = "running" \/ "stderr" \in held

IsLine(item)   == item.body # "fragment"
HasLine(b)     == \E i \in DOMAIN b : IsLine(b[i])
EndsLine(b, i) == IsLine(b[i]) /\ \A j \in 1 .. i - 1 : ~IsLine(b[j])

Failed == causes # <<>>

(* A request is out and not answered. *)
Sent == IF pc \in {"read", "second", "peek"} THEN seq + 1 ELSE seq

-----------------------------------------------------------------------------
(* The runner. *)

Init ==
  /\ pc = "start" /\ seq = 0
  /\ line = Fragment /\ buffer = <<>> /\ eof = FALSE
  /\ stdinOpen = TRUE
  /\ marks = {} /\ causes = <<>> /\ result = "none"
  /\ drainer = "none"
  /\ child = "none" /\ fds = {} /\ held = {} /\ pipe = <<>>
  /\ written = 0 /\ lines = 0
  /\ faults = {}

(* start(): Popen and the thread, or an OSError; close() then does nothing. *)
Start ==
  /\ pc = "start"
  /\ pc' = "call"
  /\ child' = "running"
  /\ fds' = {"stdin", "stdout"}
  /\ held' \in SUBSET Heritable
  /\ drainer' = "reading"
  /\ UNCHANGED <<seq, input, stdinOpen, outcome, pipe, history, faults>>

StartFails ==
  /\ pc = "start"
  /\ pc' = "report"
  /\ causes' = <<"PROCESS_START">>
  /\ faults' = {"start"}
  /\ UNCHANGED <<seq, input, stdinOpen, marks, result, drainer, childVars>>

(* A _ProtocolFailure leaves the loop over the cases; close() follows. *)
FailWith(cause) ==
  /\ causes' = Append(causes, cause)
  /\ pc' = "close"
  /\ UNCHANGED <<marks, result>>

GoTo(next) == pc' = next /\ UNCHANGED outcome

(* has_output(): at most one read, and end of file is not output. *)
Readable      == ~eof /\ pipe # <<>>
HasOutput_EofToo == buffer # <<>> \/ (~eof /\ (pipe # <<>> \/ ~StdoutOpen))
HasOutput     == buffer # <<>> \/ Readable

(* has_output() leaves what it read in the buffer. *)
LookTakes ==
  IF buffer = <<>> /\ Readable
  THEN buffer' = pipe /\ pipe' = <<>> /\ UNCHANGED eof
  ELSE /\ eof' = (eof \/ (buffer = <<>> /\ pipe = <<>> /\ ~StdoutOpen))
       /\ UNCHANGED <<buffer, pipe>>

(* _before_request(): no answer was completed yet, or one answer too many. *)
OutputBefore ==
  /\ pc = "call"
  /\ seq < NumCalls
  /\ HasOutput
  /\ LookTakes
  /\ FailWith(IF seq = 0 THEN "UNEXPECTED_OUTPUT" ELSE "EXTRA_STDOUT")
  /\ UNCHANGED <<seq, line, stdinOpen, drainer, child, fds, held, history, faults>>

QuietBefore ==
  /\ pc = "call"
  /\ seq < NumCalls
  /\ ~HasOutput
  /\ LookTakes
  /\ GoTo("write")
  /\ UNCHANGED <<seq, line, stdinOpen, drainer, child, fds, held, history, faults>>

(* _write_request(): the request is written, or nobody holds the other end. *)
WriteRequest ==
  /\ pc = "write"
  /\ GoTo(IF child = "running" /\ "stdin" \in fds THEN "read" ELSE "classify")
  /\ UNCHANGED <<seq, input, stdinOpen, drainer, childVars, faults>>

(* The last step of the last case is done. *)
CampaignDone ==
  /\ pc = "call"
  /\ seq = NumCalls
  /\ GoTo("close")
  /\ UNCHANGED <<seq, input, stdinOpen, drainer, childVars, faults>>

(* read_line() without a line in the buffer: select, then os.read. *)
Reading == pc \in {"read", "drain"} /\ ~HasLine(buffer)

ReadChunk ==
  /\ Reading
  /\ Readable
  /\ buffer' = buffer \o pipe
  /\ pipe' = <<>>
  /\ UNCHANGED <<pc, seq, line, eof, stdinOpen, outcome, drainer, child, fds, held,
                 history, faults>>

ReadEof ==
  /\ Reading
  /\ ~eof
  /\ pipe = <<>>
  /\ ~StdoutOpen
  /\ eof' = TRUE
  /\ UNCHANGED <<pc, seq, line, buffer, stdinOpen, outcome, drainer, childVars, faults>>

(* The child waits for room in a pipe that nobody empties. *)
Blocked == child = "running" /\ drainer # "reading"

(* A deadline expires.  The child is to blame unless it could not go on.   *)
Expire == faults' = faults \cup (IF Blocked THEN {} ELSE {"slow"})

ReceiveTimeout ==
  /\ pc = "read"
  /\ Reading
  /\ ~eof
  /\ FailWith("TIMEOUT")
  /\ Expire
  /\ UNCHANGED <<seq, input, stdinOpen, drainer, childVars>>

(* read_line() returns None at end of file. *)
ReceiveEof ==
  /\ pc = "read"
  /\ Reading
  /\ eof
  /\ GoTo("classify")
  /\ UNCHANGED <<seq, input, stdinOpen, drainer, childVars, faults>>

(* _read_response() and _validate_envelope(), in their order. *)
EnvelopeCause(l) ==
  CASE l.body = "bad-utf8"         -> "RESPONSE_ENCODING"
    [] l.body = "duplicate-member" -> "RESPONSE_DUPLICATE_MEMBER"
    [] l.body = "bad-json"         -> "RESPONSE_JSON"
    [] l.body = "bad-shape"        -> "RESPONSE_SHAPE"
    [] l.body \notin {"bad-utf8", "duplicate-member", "bad-json", "bad-shape"}
         /\ l.seq # seq            -> "SEQUENCE_MISMATCH"
    [] l.body = "bad-events" /\ l.seq = seq -> "RESPONSE_SHAPE"
    [] OTHER                       -> "none"

Receive ==
  /\ pc = "read"
  /\ \E i \in DOMAIN buffer :
       /\ EndsLine(buffer, i)
       /\ line' = IF EnvelopeCause(buffer[i]) = "none" THEN buffer[i] ELSE Fragment
       /\ buffer' = SubSeq(buffer, i + 1, Len(buffer))
       /\ LET cause == EnvelopeCause(buffer[i]) IN
          IF cause = "none" THEN GoTo("peek")
          ELSE IF cause = "RESPONSE_SHAPE" /\ seq = 0 THEN GoTo("second")
          ELSE FailWith(cause)
  /\ UNCHANGED <<seq, eof, stdinOpen, drainer, childVars, faults>>

(* A first answer of a wrong shape: if more is waiting, it was not the     *)
(* answer but a frame nobody asked for.                                    *)
JudgeFirst ==
  /\ pc = "second"
  /\ LookTakes
  /\ FailWith(IF HasOutput THEN "UNEXPECTED_OUTPUT" ELSE "RESPONSE_SHAPE")
  /\ UNCHANGED <<seq, line, stdinOpen, drainer, child, fds, held, history, faults>>

(* One answer for one request: nothing more may be waiting. *)
ExtraAfter ==
  /\ pc = "peek"
  /\ HasOutput
  /\ LookTakes
  /\ FailWith("EXTRA_STDOUT")
  /\ line' = Fragment
  /\ UNCHANGED <<seq, stdinOpen, drainer, child, fds, held, history, faults>>

(* invoke() and the body of the loop: only an answer whose status and      *)
(* result are in order is compared, its events with it.                    *)
MarksOf(l) ==
  IF l.body = "challenges" \/ l.forbidden THEN {"challenges"} ELSE {}

Accept ==
  /\ pc = "peek"
  /\ ~HasOutput
  /\ LookTakes
  /\ seq' = seq + 1
  /\ \/ line.body = "adapter-error" /\ FailWith("ADAPTER_ERROR")
     \/ line.body = "bad-result" /\ FailWith("RESPONSE_SHAPE")
     \/ /\ line.body \in Judged
        /\ pc' = "call"
        /\ marks' = marks \cup MarksOf(line)
        /\ UNCHANGED <<causes, result>>
  /\ line' = Fragment
  /\ UNCHANGED <<stdinOpen, drainer, child, fds, held, history, faults>>

(* _classify_exit(): wait for the status, no longer than the timeout. *)
ExitCause(ifZero) == IF child = "nonzero" THEN "PROCESS_EXIT" ELSE ifZero

Classify ==
  /\ pc = "classify"
  /\ Exited
  /\ FailWith(ExitCause("UNEXPECTED_EOF"))
  /\ UNCHANGED <<seq, input, stdinOpen, drainer, childVars, faults>>

ClassifyTimeout ==
  /\ pc = "classify"
  /\ child = "running"
  /\ FailWith("TIMEOUT")
  /\ Expire
  /\ UNCHANGED <<seq, input, stdinOpen, drainer, childVars>>

(* close(): stdin is closed, then stdout is read to its end. *)
CloseStdin ==
  /\ pc = "close"
  /\ stdinOpen' = FALSE
  /\ GoTo("drain")
  /\ UNCHANGED <<seq, input, drainer, childVars, faults>>

(* close() has its closure_cause, "none" for None; _unique() keeps one of  *)
(* two equal causes.                                                       *)
CloseWith(cause) ==
  /\ causes' = IF cause = "none" \/ \E i \in DOMAIN causes : causes[i] = cause
               THEN causes ELSE Append(causes, cause)
  /\ pc' = "poll"
  /\ UNCHANGED <<marks, result>>

(* A line after the last answer, or at end of file a piece without LF. *)
Leftover_LinesOnly == HasLine(buffer)
Leftover           == HasLine(buffer) \/ (eof /\ buffer # <<>>)

DrainTimeout ==
  /\ pc = "drain"
  /\ Reading
  /\ ~eof
  /\ CloseWith("TIMEOUT")
  /\ Expire
  /\ UNCHANGED <<seq, input, stdinOpen, drainer, childVars>>

DrainExtra ==
  /\ pc = "drain"
  /\ Leftover
  /\ CloseWith("EXTRA_STDOUT")
  /\ UNCHANGED <<seq, input, stdinOpen, drainer, childVars, faults>>

DrainClean ==
  /\ pc = "drain"
  /\ eof
  /\ ~Leftover
  /\ GoTo("wait")
  /\ UNCHANGED <<seq, input, stdinOpen, drainer, childVars, faults>>

WaitExit ==
  /\ pc = "wait"
  /\ Exited
  /\ CloseWith(ExitCause("none"))
  /\ UNCHANGED <<seq, input, stdinOpen, drainer, childVars, faults>>

WaitTimeout ==
  /\ pc = "wait"
  /\ child = "running"
  /\ CloseWith("TIMEOUT")
  /\ Expire
  /\ UNCHANGED <<seq, input, stdinOpen, drainer, childVars>>

(* _ensure_terminated(): poll, terminate, one grace, kill. *)
AfterPoll_NoSignal == "stderr"
AfterPoll          == IF Exited THEN "stderr" ELSE "grace"

Poll ==
  /\ pc = "poll"
  /\ GoTo(AfterPoll)
  /\ UNCHANGED <<seq, input, stdinOpen, drainer, childVars, faults>>

GraceExit ==
  /\ pc = "grace"
  /\ Exited
  /\ GoTo("stderr")
  /\ UNCHANGED <<seq, input, stdinOpen, drainer, childVars, faults>>

Kill ==
  /\ pc = "grace"
  /\ child = "running"
  /\ child' = "nonzero"
  /\ fds' = {}
  /\ GoTo("stderr")
  /\ UNCHANGED <<seq, input, stdinOpen, drainer, held, pipe, history, faults>>

(* The thread is joined, or the grace is over: both ends are closed.  The  *)
(* pipe is unbuffered: closing it waits for nobody.                        *)
JoinStderr_ToEof == drainer = "ended"
JoinStderr       == TRUE

CloseStreams ==
  /\ pc = "stderr"
  /\ JoinStderr
  /\ drainer' = "ended"
  /\ GoTo("report")
  /\ UNCHANGED <<seq, input, stdinOpen, childVars, faults>>

(* The tail of run_ordered_map_conformance(). *)
Verdict(f, m) ==
  IF f THEN "error"
  ELSE IF "challenges" \in m THEN "challenges"
  ELSE "supports"

Report ==
  /\ pc = "report"
  /\ pc' = "done"
  /\ result' = Verdict(Failed, marks)
  /\ UNCHANGED <<seq, input, stdinOpen, marks, causes, drainer, childVars, faults>>

RunnerStep ==
  \/ Start \/ StartFails
  \/ OutputBefore \/ QuietBefore \/ WriteRequest \/ CampaignDone
  \/ ReadChunk \/ ReadEof
  \/ ReceiveTimeout \/ ReceiveEof \/ Receive
  \/ JudgeFirst \/ ExtraAfter \/ Accept
  \/ Classify \/ ClassifyTimeout
  \/ CloseStdin
  \/ DrainTimeout \/ DrainExtra \/ DrainClean
  \/ WaitExit \/ WaitTimeout
  \/ Poll \/ GraceExit \/ Kill
  \/ CloseStreams \/ Report

-----------------------------------------------------------------------------
(* drain(): the thread reads until there is no writer left. *)

(* read() returns b"": end of file, and not merely nothing for now. *)
NothingMore == ~StderrOpen

DrainEnds ==
  /\ drainer = "reading"
  /\ NothingMore
  /\ drainer' = "ended"
  /\ UNCHANGED <<pc, seq, input, stdinOpen, outcome, childVars, faults>>

-----------------------------------------------------------------------------
(* The child, and what it leaves behind. *)

(* After close() has its cause nobody reads stdout any more: what the      *)
(* child then does with its streams is left out.                           *)
StillRead == pc \notin {"poll", "grace", "stderr", "report", "done"}

(* The n-th line, counted from 0, or bytes without LF.  Once the session   *)
(* has failed, only whether there is a line is looked at.                  *)
Writable(n) ==
  IF Failed THEN {[Fragment EXCEPT !.body = "supports"], Fragment} ELSE
  [seq : {n}, body : Bodies \cap (Enveloped \cup {"bad-events"}), forbidden : {FALSE}]
    \cup [seq : {n}, body : Bodies \cap {"supports", "adapter-error"}, forbidden : {TRUE}]
    \cup {[seq |-> NumCalls, body |-> b, forbidden |-> FALSE] : b \in Bodies \cap {"supports"}}
    \cup {[seq |-> 0, body |-> b, forbidden |-> FALSE] :
            b \in Bodies \cap (Unusable \ {"bad-events"})}
    \cup {Fragment}

(* Output is asked for while fewer lines were written than requests. *)
ChildWrite ==
  /\ StdoutOpen
  /\ ~Blocked
  /\ StillRead
  /\ written < MaxItems
  /\ \E item \in Writable(lines) :
       /\ pipe' = Append(pipe, item)
       /\ written' = written + 1
       /\ lines' = IF IsLine(item) THEN lines + 1 ELSE lines
       /\ faults' = faults
            \cup (IF lines >= Sent THEN {"unasked"} ELSE {})
            \cup (IF IsLine(item) /\ (item.body \in Unusable \cup {"bad-result"} \/ item.seq # lines)
                     /\ ~Failed
                  THEN {"malformed"} ELSE {})
            \cup (IF item.body = "adapter-error" THEN {"refused"} ELSE {})
  /\ UNCHANGED <<pc, seq, input, stdinOpen, outcome, drainer, child, fds, held>>

ChildClose(fd) ==
  /\ child = "running"
  /\ ~Blocked
  /\ StillRead
  /\ fd \in fds
  /\ fds' = fds \ {fd}
  /\ faults' = IF stdinOpen THEN faults \cup {"left"} ELSE faults
  /\ UNCHANGED <<pc, seq, input, stdinOpen, outcome, drainer, child, held, pipe, history>>

(* After SIGTERM the status no longer tells anything of the child.  One    *)
(* that waits for room in the pipe ends by a signal only.                  *)
ChildExit(status) ==
  /\ child = "running"
  /\ Blocked => status = "nonzero"
  /\ child' = status
  /\ fds' = {}
  /\ faults' = faults
       \cup (IF stdinOpen THEN {"left"} ELSE {})
       \cup (IF status = "nonzero" /\ pc # "grace" THEN {"status"} ELSE {})
  /\ UNCHANGED <<pc, seq, input, stdinOpen, outcome, drainer, held, pipe, history>>

(* The process left behind ends. *)
HolderExit ==
  /\ held # {}
  /\ held' = {}
  /\ UNCHANGED <<pc, seq, input, stdinOpen, outcome, drainer, child, fds, pipe,
                 history, faults>>

ChildStep ==
  \/ ChildWrite
  \/ \E fd \in {"stdin", "stdout"} : ChildClose(fd)
  \/ \E status \in {"zero", "nonzero"} : ChildExit(status)
  \/ HolderExit

Next == RunnerStep \/ DrainEnds \/ ChildStep

Spec == Init /\ [][Next]_vars

(* The runner is never stopped for ever, and its deadlines do expire; the  *)
(* child owes nothing.                                                     *)
FairSpec == Spec /\ WF_vars(RunnerStep)

-----------------------------------------------------------------------------
(* Properties. *)

(* Every variable keeps its type. *)
TypeOK ==
  /\ pc \in {"start", "call", "write", "read", "second", "peek", "classify", "close",
             "drain", "wait", "poll", "grace", "stderr", "report", "done"}
  /\ seq \in 0 .. NumCalls
  /\ line \in Items
  /\ buffer \in Seq(Items)
  /\ eof \in BOOLEAN
  /\ stdinOpen \in BOOLEAN
  /\ marks \subseteq {"challenges"}
  /\ causes \in Seq(Causes) /\ Len(causes) <= 2
  /\ result \in {"none", "error", "challenges", "supports"}
  /\ drainer \in {"none", "reading", "ended"}
  /\ child \in {"none", "running", "zero", "nonzero"}
  /\ fds \subseteq {"stdin", "stdout"}
  /\ held \subseteq Heritable
  /\ pipe \in Seq(Items)
  /\ written \in 0 .. MaxItems
  /\ lines \in 0 .. MaxItems
  /\ faults \subseteq {"start", "slow", "unasked", "malformed", "refused", "left", "status"}

(* A report that is not an error comes after the child has ended with      *)
(* status zero and all it ever wrote was read and taken, one line for each *)
(* request and in order, although the runner looks at stdout in places     *)
(* where the look itself consumes what it finds.                           *)
CleanEnd ==
  result \in {"supports", "challenges"} =>
    /\ seq = NumCalls /\ lines = NumCalls
    /\ child = "zero"
    /\ eof /\ ~StdoutOpen
    /\ buffer = <<>> /\ pipe = <<>>
    /\ faults \cap {"slow", "malformed", "refused", "status"} = {}

(* What can be the ground of a reported cause. *)
Grounds(cause) ==
  CASE cause = "PROCESS_START"     -> {"start"}
    [] cause = "PROCESS_EXIT"      -> {"status"}
    [] cause = "UNEXPECTED_EOF"    -> {"left"}
    [] cause = "TIMEOUT"           -> {"slow"}
    [] cause = "EXTRA_STDOUT"      -> {"unasked"}
    [] cause = "UNEXPECTED_OUTPUT" -> {"unasked"}
    [] cause = "ADAPTER_ERROR"     -> {"refused"}
    [] OTHER                       -> {"malformed"}

(* The runner accuses nobody falsely: each cause has its ground in what    *)
(* the child's side did or in a deadline that expired while nothing kept   *)
(* the child from answering.  In particular end of file is never taken for *)
(* extra output, and a child that writes much to stderr is never blocked   *)
(* until its time is over.  After a first failure, EXTRA_STDOUT at the     *)
(* close may be the answer that came late or was left unread.              *)
CausesGrounded ==
  \A i \in DOMAIN causes :
    \/ faults \cap Grounds(causes[i]) # {}
    \/ i > 1 /\ causes[i] = "EXTRA_STDOUT"

(* The session implements the promise of LockstepSession. *)
Lockstep == INSTANCE LockstepSession WITH
  accepted <- seq,
  failed   <- Failed,
  running  <- child = "running",
  verdict  <- result

LockstepSpec == Lockstep!Spec

(* Whatever the child does, and whoever keeps its streams open, the        *)
(* session comes to its report.                                            *)
SessionEnds == <>(pc = "done")

=============================================================================
