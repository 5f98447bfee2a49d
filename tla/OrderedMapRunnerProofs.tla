------------------------ MODULE OrderedMapRunnerProofs -------------------------
(***************************************************************************)
(* For every number of calls, every set of contents a child may write and  *)
(* every bound on its output: the OrderedMap session keeps its types,      *)
(* never lets its child wait for room in stderr, reads all its child wrote *)
(* before a report that is not an error, comes to an end, and implements   *)
(* LockstepSession.  Of the campaign, OrderedMapCampaign: whatever the     *)
(* adapter answers, what it reports is an error or of all its requests.    *)
(***************************************************************************)
EXTENDS OrderedMapSession, ProofLemmas, FiniteSetTheorems, TLAPS

(* What holds at each point of the runner's control. *)
Asked  == {"write", "read", "second", "peek", "classify"}
Closed == {"poll", "grace", "stderr", "report", "done"}

NotStarted ==
  pc = "start" => /\ child = "none"
                  /\ drainer = "none"
                  /\ held = {}
                  /\ ~eof
                  /\ pipe = <<>>
                  /\ seq = 0
                  /\ causes = <<>>

(* A request is made only while nothing failed and a call is left.  What   *)
(* is left without a cause has made every call.                            *)
CallsInOrder ==
  /\ pc \in Asked => seq < NumCalls
  /\ pc \in Asked \cup {"call"} => causes = <<>>
  /\ (pc \notin Asked \cup {"start", "call"} /\ causes = <<>>) => seq = NumCalls
  /\ pc \in {"close", "drain", "wait"} => Len(causes) <= 1

(* While there is a child, somebody reads what it writes to stderr.        *)
StderrIsRead == child = "running" => drainer = "reading"

(* A look, too, meets the end of stdout only when nothing is left of it.   *)
AtEof == eof => pipe = <<>> /\ ~StdoutOpen

ClosedClean ==
  /\ pc = "wait" => eof /\ buffer = <<>>
  /\ pc \in Closed /\ causes = <<>> => child = "zero" /\ eof /\ buffer = <<>>

Reaped == pc \in {"stderr", "report", "done"} => child # "running"

ReportedOnce ==
  /\ pc # "done" => result = "none"
  /\ pc = "done" => result = Verdict(Failed, marks)

IInv ==
  /\ TypeOK
  /\ lines <= written
  /\ NotStarted
  /\ CallsInOrder
  /\ StderrIsRead
  /\ AtEof
  /\ ClosedClean
  /\ Reaped
  /\ ReportedOnce

-----------------------------------------------------------------------------
(* What the child's side did, as far as the runner still has to find out.  *)

Bad == Unusable \cup {"bad-result"}

(* Output that was written and not accepted, the line being checked first. *)
Waiting == buffer \o pipe
Unread  == IF pc = "peek" THEN <<line>> \o Waiting ELSE Waiting

(* Until the session fails, whatever was wrong in the child's output is    *)
(* still unread, and lines are the lines accepted and those unread.        *)
OrderKept ==
  /\ "malformed" \in faults <=> ~InOrder(Unread, seq, Bad)
  /\ "malformed" \notin faults => LeadsTo(Unread, seq, lines)

RefusalUnread == "refused" \in faults <=> Carries(Unread, "adapter-error")

LinesCounted == lines >= seq /\ (AnyLine(Unread) => lines > seq)

(* Without output nobody asked for, what is unread is part of one answer.  *)
NothingAhead ==
  "unasked" \notin faults =>
    /\ pc \in {"read", "peek"} => OneLine(Unread)
    /\ pc \notin {"read", "peek", "classify"} => Unread = <<>>

OutputAccount ==
  ~Failed /\ pc # "second" => OrderKept /\ RefusalUnread /\ LinesCounted /\ NothingAhead

(* A first answer of a wrong shape is taken and not accepted: it failed    *)
(* the session, and the next look only says under which name.              *)
FirstRefused ==
  pc = "second" =>
    /\ "malformed" \in faults
    /\ lines > seq
    /\ "unasked" \notin faults => Waiting = <<>>

LineChecked == pc = "peek" => IsLine(line) /\ EnvelopeCause(line) = "none"

(* How the child left, and which deadlines expired.                        *)
DeadlinesKept == "slow" \in faults => Failed

StatusSeen ==
  /\ "status" \in faults => child = "nonzero"
  /\ child = "nonzero" /\ pc \notin {"grace", "stderr", "report", "done"} => "status" \in faults

StdinKept ==
  /\ pc \in Asked \cup {"start", "call", "close"} => stdinOpen
  /\ pc \in {"drain", "wait", "poll", "grace", "stderr"} => ~stdinOpen

LeftSeen ==
  /\ pc \in Asked \cup {"call"} => child # "none"
  /\ stdinOpen /\ child # "none" /\ (child # "running" \/ fds # {"stdin", "stdout"})
       => "left" \in faults
  /\ pc = "classify" => "left" \in faults

Account ==
  /\ OutputAccount
  /\ FirstRefused
  /\ LineChecked
  /\ DeadlinesKept
  /\ StatusSeen
  /\ StdinKept
  /\ LeftSeen
  /\ CausesGrounded

(* Bytes without an LF are a piece of output. *)
LEMMA FragmentIsItem == Fragment \in Items
  BY OrderedMapSessionAssumption DEF Fragment, Items

(* Whatever the child writes as its n-th line is a piece of output.        *)
LEMMA WritableIsItem ==
  ASSUME NEW n \in 0 .. MaxItems, NEW item \in Writable(n)
  PROVE  item \in Items
<1> USE OrderedMapSessionAssumption DEF Items
<1>1. ASSUME Failed PROVE item \in Items
    BY <1>1, FragmentIsItem DEF Writable, Fragment
<1>2. ASSUME ~Failed PROVE item \in Items
  <2>1. ASSUME NEW f \in SUBSET BOOLEAN, NEW B \in SUBSET Bodies,
               item \in [seq : {n}, body : B, forbidden : f]
        PROVE  item \in Items
    <3>1. [seq : {n}, body : B, forbidden : f] \subseteq [seq : 0 .. NumCalls + MaxItems, body : Bodies \cup {"fragment"}, forbidden : BOOLEAN]
      <4>1. {n} \subseteq 0 .. NumCalls + MaxItems
          OBVIOUS
      <4>2. B \subseteq Bodies \cup {"fragment"} /\ f \subseteq BOOLEAN
          OBVIOUS
      <4> QED BY <4>1, <4>2, Zenon
    <3> QED BY <2>1, <3>1
  <2>2. ASSUME NEW b \in Bodies, NEW m \in {0, NumCalls},
               item = [seq |-> m, body |-> b, forbidden |-> FALSE]
        PROVE  item \in Items
      BY <2>2
  <2>3. CASE item = Fragment
      BY <2>3, FragmentIsItem
  <2>4. {FALSE} \in SUBSET BOOLEAN /\ {TRUE} \in SUBSET BOOLEAN
      BY Zenon
  <2>5. \A S : Bodies \cap S \in SUBSET Bodies
      BY Zenon
  <2> HIDE DEF Items
  <2> QED BY <1>2, <2>1, <2>2, <2>3, <2>4, <2>5 DEF Writable
<1> QED BY <1>1, <1>2

(* A look at stdout loses nothing and keeps the types of what it moves.    *)
LEMMA LookKeeps ==
  ASSUME TypeOK, AtEof, LookTakes, UNCHANGED <<child, fds, held>>
  PROVE  /\ buffer' \in Seq(Items)
         /\ pipe' \in Seq(Items)
         /\ eof' \in BOOLEAN
         /\ AtEof'
  BY DEF TypeOK, AtEof, LookTakes, Readable, StdoutOpen

(* Appending a cause to none or one gives one or two.                      *)
LEMMA OneMoreCause ==
  ASSUME NEW s \in Seq(Causes), Len(s) <= 1, NEW c \in Causes
  PROVE  /\ Append(s, c) \in Seq(Causes)
         /\ Len(Append(s, c)) <= 2
         /\ Append(s, c) # <<>>
         /\ s = <<>> => Len(Append(s, c)) = 1
  OBVIOUS

(* The first failure of a session.                                         *)
LEMMA FirstFailure ==
  ASSUME causes = <<>>, NEW c \in Causes, FailWith(c)
  PROVE  /\ causes' \in Seq(Causes)
         /\ Len(causes') = 1
         /\ causes' # <<>>
         /\ pc' = "close"
         /\ UNCHANGED <<marks, result>>
<1>1. <<>> \in Seq(Causes) /\ Len(<<>>) = 0
    OBVIOUS
<1>2. causes' = Append(<<>>, c)
    BY DEF FailWith
<1> QED BY <1>1, <1>2 DEF FailWith

(* The invariant holds before the child is started.                        *)
LEMMA InitIInv == Init => IInv
<1> SUFFICES ASSUME Init PROVE IInv
    OBVIOUS
<1>1. TypeOK
  <2>1. <<>> \in Seq(Items) /\ <<>> \in Seq(Causes) /\ Len(<<>>) = 0
      OBVIOUS
  <2>2. 0 \in 0 .. NumCalls /\ 0 \in 0 .. MaxItems
      BY OrderedMapSessionAssumption
  <2>3. causes \in Seq(Causes) /\ Len(causes) <= 2
      BY <2>1 DEF Init
  <2> QED
      BY <2>1, <2>2, <2>3, FragmentIsItem DEF Init, TypeOK
<1> QED
    BY <1>1 DEF Init, IInv, NotStarted, CallsInOrder, StderrIsRead, AtEof, ClosedClean,
       Reaped, ReportedOnce, Asked, Closed, StdoutOpen

(* One step of the proof per action: each says which parts of the          *)
(* invariant its assignments reach.                                        *)
LEMMA StepIInv == IInv /\ [Next]_vars => IInv'
<1> SUFFICES ASSUME IInv, [Next]_vars PROVE IInv'
    OBVIOUS
<1> USE OrderedMapSessionAssumption, FragmentIsItem
        DEF IInv, TypeOK, NotStarted, CallsInOrder, StderrIsRead, AtEof, ClosedClean, Reaped,
        ReportedOnce, Asked, Closed, Causes, FailWith, CloseWith, GoTo, Failed, StdoutOpen,
        input, outcome, streams, history, childVars
<1>1. CASE Start
    BY <1>1 DEF Start
<1>2. CASE StartFails
    BY <1>2 DEF StartFails
<1>3. CASE OutputBefore
  <2>1. TypeOK /\ AtEof /\ LookTakes /\ UNCHANGED <<child, fds, held>>
      BY <1>3 DEF OutputBefore
  <2>2. buffer' \in Seq(Items) /\ pipe' \in Seq(Items) /\ eof' \in BOOLEAN /\ AtEof'
      BY <2>1, LookKeeps
  <2>3. PICK c \in Causes : FailWith(c)
      BY <1>3 DEF OutputBefore
  <2>4. /\ causes' \in Seq(Causes) /\ Len(causes') = 1 /\ causes' # <<>>
        /\ pc' = "close" /\ UNCHANGED <<marks, result>>
      BY <1>3, <2>3, FirstFailure DEF OutputBefore
  <2> HIDE DEF Causes, FailWith
  <2> QED BY <1>3, <2>2, <2>4 DEF OutputBefore
<1>4. CASE QuietBefore
  <2>1. TypeOK /\ AtEof /\ LookTakes /\ UNCHANGED <<child, fds, held>>
      BY <1>4 DEF QuietBefore
  <2>2. buffer' \in Seq(Items) /\ pipe' \in Seq(Items) /\ eof' \in BOOLEAN /\ AtEof'
      BY <2>1, LookKeeps
  <2> QED
      BY <1>4, <2>2 DEF QuietBefore, HasOutput, Readable
<1>5. CASE WriteRequest
    BY <1>5 DEF WriteRequest
<1>6. CASE CampaignDone
    BY <1>6 DEF CampaignDone
<1>7. CASE ReadChunk
    BY <1>7 DEF ReadChunk, Readable, Reading
<1>8. CASE ReadEof
    BY <1>8 DEF ReadEof, Reading
<1>9. CASE ReceiveTimeout
    BY <1>9 DEF ReceiveTimeout, Reading, Expire
<1>10. CASE ReceiveEof
    BY <1>10 DEF ReceiveEof
<1>11. CASE Receive
  <2> PICK i \in DOMAIN buffer :
          /\ line' = IF EnvelopeCause(buffer[i]) = "none" THEN buffer[i] ELSE Fragment
          /\ buffer' = SubSeq(buffer, i + 1, Len(buffer))
          /\ LET cause == EnvelopeCause(buffer[i]) IN
             IF cause = "none" THEN GoTo("peek")
             ELSE IF cause = "RESPONSE_SHAPE" /\ seq = 0 THEN GoTo("second")
             ELSE FailWith(cause)
      BY <1>11 DEF Receive
  <2>1. line' \in Items /\ buffer' \in Seq(Items)
      OBVIOUS
  <2>2. EnvelopeCause(buffer[i]) \in Causes \cup {"none"}
      BY Zenon DEF EnvelopeCause
  <2>3. CASE pc' = "peek" /\ UNCHANGED outcome
      BY <1>11, <2>1, <2>3 DEF Receive
  <2>4. CASE pc' = "second" /\ UNCHANGED outcome
      BY <1>11, <2>1, <2>4 DEF Receive
  <2>5. ASSUME NEW c \in Causes, FailWith(c) PROVE IInv'
    <3>1. /\ causes' \in Seq(Causes) /\ Len(causes') = 1 /\ causes' # <<>>
          /\ pc' = "close" /\ UNCHANGED <<marks, result>>
        BY <1>11, <2>5, FirstFailure DEF Receive
    <3> HIDE DEF Causes, FailWith
    <3> QED BY <1>11, <2>1, <3>1 DEF Receive
  <2> QED
      BY <2>2, <2>3, <2>4, <2>5
<1>12. CASE JudgeFirst
  <2>1. TypeOK /\ AtEof /\ LookTakes /\ UNCHANGED <<child, fds, held>>
      BY <1>12 DEF JudgeFirst
  <2>2. buffer' \in Seq(Items) /\ pipe' \in Seq(Items) /\ eof' \in BOOLEAN /\ AtEof'
      BY <2>1, LookKeeps
  <2>3. PICK c \in Causes : FailWith(c)
      BY <1>12 DEF JudgeFirst
  <2>4. /\ causes' \in Seq(Causes) /\ Len(causes') = 1 /\ causes' # <<>>
        /\ pc' = "close" /\ UNCHANGED <<marks, result>>
      BY <1>12, <2>3, FirstFailure DEF JudgeFirst
  <2> HIDE DEF Causes, FailWith
  <2> QED BY <1>12, <2>2, <2>4 DEF JudgeFirst
<1>13. CASE ExtraAfter
  <2>1. TypeOK /\ AtEof /\ LookTakes /\ UNCHANGED <<child, fds, held>>
      BY <1>13 DEF ExtraAfter
  <2>2. buffer' \in Seq(Items) /\ pipe' \in Seq(Items) /\ eof' \in BOOLEAN /\ AtEof'
      BY <2>1, LookKeeps
  <2>3. PICK c \in Causes : FailWith(c)
      BY <1>13 DEF ExtraAfter
  <2>4. /\ causes' \in Seq(Causes) /\ Len(causes') = 1 /\ causes' # <<>>
        /\ pc' = "close" /\ UNCHANGED <<marks, result>>
      BY <1>13, <2>3, FirstFailure DEF ExtraAfter
  <2> HIDE DEF Causes, FailWith
  <2> QED BY <1>13, <2>2, <2>4 DEF ExtraAfter
<1>14. CASE Accept
  <2>1. TypeOK /\ AtEof /\ LookTakes /\ UNCHANGED <<child, fds, held>>
      BY <1>14 DEF Accept
  <2>2. buffer' \in Seq(Items) /\ pipe' \in Seq(Items) /\ eof' \in BOOLEAN /\ AtEof'
      BY <2>1, LookKeeps
  <2>3. ASSUME NEW c \in Causes, FailWith(c) PROVE IInv'
    <3>1. /\ causes' \in Seq(Causes) /\ Len(causes') = 1 /\ causes' # <<>>
          /\ pc' = "close" /\ UNCHANGED <<marks, result>>
        BY <1>14, <2>3, FirstFailure DEF Accept
    <3> HIDE DEF Causes, FailWith
    <3> QED BY <1>14, <2>2, <3>1 DEF Accept
  <2>4. CASE pc' = "call" /\ marks' = marks \cup MarksOf(line) /\ UNCHANGED <<causes, result>>
    <3>1. marks' \subseteq {"challenges"}
        BY <2>4 DEF MarksOf
    <3> QED
        BY <1>14, <2>2, <2>4, <3>1 DEF Accept
  <2> QED
      BY <1>14, <2>3, <2>4 DEF Accept
<1>15. CASE Classify
    BY <1>15 DEF Classify, ExitCause, Exited
<1>16. CASE ClassifyTimeout
    BY <1>16 DEF ClassifyTimeout, Expire
<1>17. CASE CloseStdin
    BY <1>17 DEF CloseStdin
<1>18. CASE DrainTimeout
    BY <1>18 DEF DrainTimeout, Reading, Expire
<1>19. CASE DrainExtra
    BY <1>19 DEF DrainExtra, Leftover
<1>20. CASE DrainClean
    BY <1>20 DEF DrainClean, Leftover, HasLine
<1>21. CASE WaitExit
    BY <1>21 DEF WaitExit, ExitCause, Exited
<1>22. CASE WaitTimeout
    BY <1>22 DEF WaitTimeout, Expire
<1>23. CASE Poll
    BY <1>23 DEF Poll, AfterPoll, Exited
<1>24. CASE GraceExit
    BY <1>24 DEF GraceExit, Exited
<1>25. CASE Kill
    BY <1>25 DEF Kill
<1>26. CASE CloseStreams
    BY <1>26 DEF CloseStreams
<1>27. CASE Report
    BY <1>27 DEF Report, Verdict
<1>28. CASE DrainEnds
    BY <1>28 DEF DrainEnds, NothingMore, StderrOpen, Verdict
<1>29. CASE ChildWrite
  <2> PICK item \in Writable(lines) :
          /\ pipe' = Append(pipe, item)
          /\ lines' = IF IsLine(item) THEN lines + 1 ELSE lines
      BY <1>29 DEF ChildWrite
  <2>1. item \in Items
      BY WritableIsItem
  <2>2. pipe' \in Seq(Items)
      BY <2>1
  <2> QED
      BY <1>29, <2>2 DEF ChildWrite
<1>30. ASSUME NEW fd \in {"stdin", "stdout"}, ChildClose(fd) PROVE IInv'
    BY <1>30 DEF ChildClose
<1>31. ASSUME NEW status \in {"zero", "nonzero"}, ChildExit(status) PROVE IInv'
    BY <1>31 DEF ChildExit
<1>32. CASE HolderExit
    BY <1>32 DEF HolderExit
<1>33. CASE UNCHANGED vars
    BY <1>33 DEF vars, Verdict
<1> QED BY <1>1, <1>2, <1>3, <1>4, <1>5, <1>6, <1>7, <1>8, <1>9, <1>10, <1>11, <1>12, <1>13, <1>14, <1>15, <1>16, <1>17, <1>18, <1>19, <1>20, <1>21, <1>22, <1>23, <1>24, <1>25, <1>26, <1>27, <1>28, <1>29, <1>30, <1>31, <1>32, <1>33 DEF Next, RunnerStep, ChildStep

(* The invariant holds for ever.                                            *)
LEMMA SpecIInv == Spec => []IInv
<1>1. Init => IInv
    BY InitIInv
<1>2. IInv /\ [Next]_vars => IInv'
    BY StepIInv
<1> QED BY <1>1, <1>2, PTL DEF Spec

(* Every variable of the session keeps its type, and no more than two      *)
(* causes are ever reported.                                               *)
THEOREM TypeCorrect == Spec => []TypeOK
<1>1. IInv => TypeOK
    BY DEF IInv
<1> QED BY <1>1, SpecIInv, PTL

(* The child never waits for room in its stderr: whatever it writes there, *)
(* and whoever else holds it open, the thread reads as long as it runs.    *)
THEOREM NeverBlocked == Spec => []~Blocked
<1>1. IInv => ~Blocked
    BY DEF IInv, StderrIsRead, Blocked
<1> QED BY <1>1, SpecIInv, PTL

(* A report that is not an error comes after every request was answered,   *)
(* the child has ended with status zero and stdout was read to its end:    *)
(* nothing is left that could contradict it.                               *)
THEOREM NothingUnread ==
  Spec => [](result \in {"supports", "challenges"} =>
               /\ seq = NumCalls
               /\ child = "zero"
               /\ eof /\ ~StdoutOpen
               /\ buffer = <<>> /\ pipe = <<>>)
<1>1. ASSUME IInv, result \in {"supports", "challenges"}
      PROVE  /\ seq = NumCalls
             /\ child = "zero"
             /\ eof /\ ~StdoutOpen
             /\ buffer = <<>> /\ pipe = <<>>
  <2>1. pc = "done" /\ causes = <<>>
      BY <1>1 DEF IInv, ReportedOnce, Verdict, Failed
  <2> QED
      BY <1>1, <2>1 DEF IInv, CallsInOrder, AtEof, ClosedClean, Asked, Closed
<1> QED BY <1>1, SpecIInv, PTL

-----------------------------------------------------------------------------
(* Nothing is written, taken or accepted in a step, and no failure ends the *)
(* account.                                                                *)
LEMMA OutputUnmoved ==
  ASSUME OutputAccount, causes' = causes, Unread' = Unread, seq' = seq, lines' = lines,
         \A f \in {"malformed", "refused", "unasked"} : f \in faults' <=> f \in faults,
         pc # "second",
         pc' \in {pc, "classify"} \/ pc \notin {"read", "peek", "classify"}
  PROVE  OutputAccount'
<1> SUFFICES ASSUME ~Failed
             PROVE  (OrderKept /\ RefusalUnread /\ LinesCounted /\ NothingAhead)'
    BY DEF OutputAccount, Failed
<1>1. OrderKept'
    BY DEF OutputAccount, OrderKept
<1>2. RefusalUnread'
    BY DEF OutputAccount, RefusalUnread
<1>3. LinesCounted'
    BY DEF OutputAccount, LinesCounted
<1>4. NothingAhead'
    BY DEF OutputAccount, NothingAhead, OneLine
<1> QED BY <1>1, <1>2, <1>3, <1>4

(* What is unread is a sequence of pieces.                                  *)
LEMMA UnreadIsOutput == IInv => Waiting \in Seq(Items) /\ Unread \in Seq(Items)
<1> SUFFICES ASSUME IInv PROVE Waiting \in Seq(Items) /\ Unread \in Seq(Items)
    OBVIOUS
<1>1. buffer \in Seq(Items) /\ pipe \in Seq(Items) /\ line \in Items
    BY DEF IInv, TypeOK
<1>2. Waiting \in Seq(Items)
    BY <1>1 DEF Waiting
<1> QED BY <1>1, <1>2 DEF Unread

(* A look at stdout moves output, and takes none of it.                     *)
LEMMA LookMovesNothing ==
  ASSUME IInv, LookTakes
  PROVE  Waiting' = Waiting
<1>1. buffer \in Seq(Items) /\ pipe \in Seq(Items)
    BY DEF IInv, TypeOK
<1>2. pipe \o <<>> = pipe /\ <<>> \o pipe = pipe
    BY <1>1, ConcatEmptySeq
<1>3. CASE buffer = <<>> /\ buffer' = pipe /\ pipe' = <<>>
    BY <1>2, <1>3 DEF Waiting
<1>4. CASE UNCHANGED <<buffer, pipe>>
    BY <1>4 DEF Waiting
<1> QED BY <1>3, <1>4 DEF LookTakes

(* A look that finds nothing leaves nothing, and one that finds something   *)
(* finds it.                                                                *)
LEMMA LookIsRight == IInv => (HasOutput <=> Waiting # <<>>)
<1> SUFFICES ASSUME IInv PROVE HasOutput <=> Waiting # <<>>
    OBVIOUS
<1>1. buffer \in Seq(Items) /\ pipe \in Seq(Items)
    BY DEF IInv, TypeOK
<1>2. HasOutput <=> ~(buffer = <<>> /\ pipe = <<>>)
    BY DEF HasOutput, Readable, IInv, AtEof
<1>3. Len(buffer \o pipe) = Len(buffer) + Len(pipe) /\ Len(buffer) \in Nat /\ Len(pipe) \in Nat
    BY <1>1, ConcatProperties
<1>4. buffer \o pipe = <<>> => Len(buffer) = 0 /\ Len(pipe) = 0
    BY <1>3
<1>5. <<>> \o <<>> = <<>>
    OBVIOUS
<1> QED BY <1>1, <1>2, <1>4, <1>5 DEF Waiting

(* What the child writes is added at the end.                               *)
LEMMA WriteAppends ==
  ASSUME IInv, NEW item \in Items, pipe' = Append(pipe, item), UNCHANGED <<pc, line, buffer>>
  PROVE  Unread' = Append(Unread, item) /\ Waiting' = Append(Waiting, item)
<1>1. buffer \in Seq(Items) /\ pipe \in Seq(Items) /\ <<line>> \in Seq(Items)
    BY DEF IInv, TypeOK
<1>2. Waiting' = Append(Waiting, item)
  <2>1. Append(pipe, item) = pipe \o <<item>> /\ Append(Waiting, item) = Waiting \o <<item>>
      BY <1>1, UnreadIsOutput, AppendIsConcat
  <2>2. buffer \o (pipe \o <<item>>) = (buffer \o pipe) \o <<item>>
      BY <1>1, ConcatAssociative
  <2> QED BY <2>1, <2>2 DEF Waiting
<1>3. <<line>> \o (Waiting \o <<item>>) = (<<line>> \o Waiting) \o <<item>>
    BY <1>1, UnreadIsOutput, ConcatAssociative
<1>4. \A s \in Seq(Items) : Append(s, item) = s \o <<item>>
    BY AppendIsConcat
<1>5. <<line>> \o Waiting \in Seq(Items)
    BY <1>1, UnreadIsOutput
<1> QED BY <1>2, <1>3, <1>4, <1>5, UnreadIsOutput DEF Unread

(* The child writes: what it does wrong is now unread, and what it is not   *)
(* asked for is noted.                                                      *)
LEMMA WriteAccounted ==
  ASSUME IInv, OutputAccount, ChildWrite
  PROVE  OutputAccount'
<1> SUFFICES ASSUME ~Failed, pc # "second"
             PROVE  (OrderKept /\ RefusalUnread /\ LinesCounted /\ NothingAhead)'
    BY DEF OutputAccount, ChildWrite, outcome, Failed
<1>1. OrderKept /\ RefusalUnread /\ LinesCounted /\ NothingAhead
    BY DEF OutputAccount
<1> PICK item \in Writable(lines) :
      /\ pipe' = Append(pipe, item)
      /\ lines' = IF IsLine(item) THEN lines + 1 ELSE lines
      /\ faults' = faults
           \cup (IF lines >= Sent THEN {"unasked"} ELSE {})
           \cup (IF IsLine(item) /\ (item.body \in Unusable \cup {"bad-result"} \/ item.seq # lines)
                    /\ ~Failed
                 THEN {"malformed"} ELSE {})
           \cup (IF item.body = "adapter-error" THEN {"refused"} ELSE {})
    BY DEF ChildWrite
<1>2. UNCHANGED <<pc, line, buffer, seq>>
    BY DEF ChildWrite, input
<1>3. item \in Items /\ lines \in Nat /\ seq \in Nat
    BY WritableIsItem, OrderedMapSessionAssumption DEF IInv, TypeOK
<1>4. Unread \in Seq(Items) /\ Unread' = Append(Unread, item)
    BY <1>2, <1>3, UnreadIsOutput, WriteAppends
<1>5. /\ "malformed" \in faults' <=>
            "malformed" \in faults \/ (Ends(item) /\ (item.body \in Bad \/ item.seq # lines))
      /\ "refused" \in faults' <=> "refused" \in faults \/ item.body = "adapter-error"
      /\ "unasked" \in faults' <=> "unasked" \in faults \/ lines >= Sent
    BY DEF Bad, IsLine, Ends
<1>6. "fragment" \notin Bad
    BY DEF Bad, Unusable
<1>7. OrderKept'
  <2>1. CASE "malformed" \in faults
    <3>1. ~InOrder(Unread, seq, Bad)
        BY <1>1, <2>1 DEF OrderKept
    <3>2. ~InOrder(Append(Unread, item), seq, Bad)
        BY <1>3, <1>4, <3>1, DisorderStays
    <3> QED BY <1>2, <1>4, <1>5, <2>1, <3>2 DEF OrderKept
  <2>2. CASE "malformed" \notin faults
    <3>1. InOrder(Unread, seq, Bad) /\ LeadsTo(Unread, seq, lines)
        BY <1>1, <2>2 DEF OrderKept
    <3>2. InOrder(Append(Unread, item), seq, Bad)
            <=> (Ends(item) => item.body \notin Bad /\ item.seq = lines)
        BY <1>3, <1>4, <1>6, <3>1, AppendInOrder
    <3>3. "malformed" \notin faults' => LeadsTo(Append(Unread, item), seq, lines')
        BY <1>3, <1>4, <1>5, <3>1, AppendLeadsTo DEF IsLine, Ends
    <3> QED BY <1>2, <1>4, <1>5, <2>2, <3>2, <3>3 DEF OrderKept
  <2> QED BY <2>1, <2>2
<1> DEFINE e == Len(Unread) + 1
<1>8. /\ DOMAIN Unread' = DOMAIN Unread \cup {e}
      /\ \A i \in DOMAIN Unread : Unread'[i] = Unread[i]
      /\ Unread'[e] = item
      /\ Len(Unread') = e /\ Len(Unread) \in Nat /\ DOMAIN Unread = 1 .. Len(Unread)
    BY <1>3, <1>4
<1>9. RefusalUnread'
    BY <1>1, <1>5, <1>8 DEF RefusalUnread, Carries
<1>10. LinesCounted'
  <2>1. lines' >= lines /\ (Ends(item) => lines' = lines + 1)
      BY <1>3 DEF IsLine, Ends
  <2>2. AnyLine(Unread)' => AnyLine(Unread) \/ Ends(item)
      BY <1>8 DEF AnyLine
  <2> QED BY <1>1, <1>2, <1>3, <2>1, <2>2 DEF LinesCounted
<1>11. NothingAhead'
  <2> SUFFICES ASSUME "unasked" \notin faults'
               PROVE  /\ pc \in {"read", "peek"} => OneLine(Unread')
                      /\ pc \notin {"read", "peek", "classify"} => Unread' = <<>>
      BY <1>2 DEF NothingAhead
  <2>1. lines < Sent
      BY <1>3, <1>5 DEF Sent
  <2>2. pc \in {"read", "peek"} /\ ~AnyLine(Unread)
      BY <1>1, <1>3, <2>1 DEF LinesCounted, Sent
  <2>3. OneLine(Unread')
      BY <1>8, <2>2 DEF OneLine, AnyLine
  <2> QED BY <2>2, <2>3
<1> QED BY <1>7, <1>9, <1>10, <1>11

(* What the checks of an answer up to its envelope make of it.              *)
LEMMA EnvelopeChecked ==
  ASSUME NEW l \in Items
  PROVE  /\ EnvelopeCause(l) = "none" <=> l.body \notin Unusable /\ l.seq = seq
         /\ EnvelopeCause(l) = "RESPONSE_SHAPE" => l.body \in Unusable
         /\ EnvelopeCause(l) \in {"none", "RESPONSE_ENCODING", "RESPONSE_DUPLICATE_MEMBER",
                                  "RESPONSE_JSON", "RESPONSE_SHAPE", "SEQUENCE_MISMATCH"}
<1>1. CASE l.body = "bad-utf8"
    BY <1>1 DEF EnvelopeCause, Unusable
<1>2. CASE l.body = "duplicate-member"
    BY <1>2 DEF EnvelopeCause, Unusable
<1>3. CASE l.body = "bad-json"
    BY <1>3 DEF EnvelopeCause, Unusable
<1>4. CASE l.body = "bad-shape"
    BY <1>4 DEF EnvelopeCause, Unusable
<1>5. CASE l.body \notin {"bad-utf8", "duplicate-member", "bad-json", "bad-shape"} /\ l.seq # seq
    BY <1>5 DEF EnvelopeCause, Unusable
<1>6. CASE l.body = "bad-events" /\ l.seq = seq
    BY <1>6 DEF EnvelopeCause, Unusable
<1>7. CASE /\ l.body \notin {"bad-utf8", "duplicate-member", "bad-json", "bad-shape", "bad-events"}
           /\ l.seq = seq
    BY <1>7 DEF EnvelopeCause, Unusable
<1> QED BY <1>1, <1>2, <1>3, <1>4, <1>5, <1>6, <1>7

(* A line is taken from the buffer: what came before it ends no line.  One  *)
(* that the checks refuse was malformed when it was written.                *)
LEMMA ReceiveAccounted ==
  ASSUME IInv, OutputAccount, Receive
  PROVE  /\ OutputAccount'
         /\ FirstRefused'
         /\ LineChecked'
         /\ pc' = "peek" \/ "malformed" \in faults
<1>1. pc = "read" /\ UNCHANGED <<pipe, seq, lines, faults>> /\ ~Failed
    BY DEF Receive, childVars, streams, history, IInv, CallsInOrder, Asked, Failed
<1>2. OrderKept /\ RefusalUnread /\ LinesCounted /\ NothingAhead
    BY <1>1 DEF OutputAccount
<1>3. PICK f \in DOMAIN buffer :
        /\ EndsLine(buffer, f)
        /\ line' = IF EnvelopeCause(buffer[f]) = "none" THEN buffer[f] ELSE Fragment
        /\ buffer' = SubSeq(buffer, f + 1, Len(buffer))
        /\ LET cause == EnvelopeCause(buffer[f]) IN
           IF cause = "none" THEN GoTo("peek")
           ELSE IF cause = "RESPONSE_SHAPE" /\ seq = 0 THEN GoTo("second")
           ELSE FailWith(cause)
    BY DEF Receive
<1>4. buffer \in Seq(Items) /\ pipe \in Seq(Items) /\ buffer[f] \in Items /\ causes \in Seq(Causes)
    BY DEF IInv, TypeOK
<1>5. FirstLine(buffer, f)
    BY <1>3 DEF EndsLine, FirstLine, NoLineWithin, IsLine, Ends
<1>6. "fragment" \notin Bad
    BY DEF Bad, Unusable
<1>7. Unread = Joined(buffer, pipe)
    BY <1>1 DEF Unread, Waiting, Joined
<1>8. AnyLine(Unread)
    BY <1>4, <1>5, <1>7, TakeInOrder
<1>9. CASE EnvelopeCause(buffer[f]) = "none"
  <2>1. pc' = "peek" /\ line' = buffer[f]
      BY <1>3, <1>9 DEF GoTo
  <2>2. Unread' = Taken(buffer, f, pipe)
      BY <1>1, <1>3, <2>1 DEF Unread, Waiting, Taken
  <2>3. "adapter-error" # "fragment"
      OBVIOUS
  <2>4. /\ InOrder(Taken(buffer, f, pipe), seq, Bad) <=> InOrder(Joined(buffer, pipe), seq, Bad)
        /\ LeadsTo(Joined(buffer, pipe), seq, lines) => LeadsTo(Taken(buffer, f, pipe), seq, lines)
        /\ OneLine(Joined(buffer, pipe)) => OneLine(Taken(buffer, f, pipe))
        /\ Carries(Taken(buffer, f, pipe), "adapter-error")
             <=> Carries(Joined(buffer, pipe), "adapter-error")
      BY <1>4, <1>5, <1>6, <2>3, TakeInOrder
  <2>5. OrderKept'
      BY <1>1, <1>2, <1>7, <2>2, <2>4 DEF OrderKept
  <2>6. RefusalUnread'
      BY <1>1, <1>2, <1>7, <2>2, <2>4 DEF RefusalUnread
  <2>7. LinesCounted'
      BY <1>1, <1>2, <1>8 DEF LinesCounted
  <2>8. NothingAhead'
      BY <1>1, <1>2, <1>7, <2>1, <2>2, <2>4 DEF NothingAhead
  <2>9. LineChecked'
      BY <1>1, <1>3, <1>9, <2>1 DEF LineChecked, EnvelopeCause, EndsLine
  <2> QED BY <2>1, <2>5, <2>6, <2>7, <2>8, <2>9 DEF OutputAccount, FirstRefused
<1>10. CASE EnvelopeCause(buffer[f]) # "none"
  <2>1. pc' \in {"second", "close"} /\ (pc' = "second" \/ Failed')
    <3>1. CASE GoTo("second")
        BY <3>1 DEF GoTo
    <3>2. CASE FailWith(EnvelopeCause(buffer[f]))
      <4>1. Append(causes, EnvelopeCause(buffer[f])) # <<>>
          BY <1>4
      <4> QED BY <3>2, <4>1 DEF FailWith, Failed
    <3> QED BY <1>3, <1>10, <3>1, <3>2
  <2>2. f \in DOMAIN Unread /\ Unread[f] = buffer[f]
      BY <1>4, <1>7, TakeLine
  <2>3. FirstLine(Unread, f)
    <3>1. DOMAIN buffer = 1 .. Len(buffer) /\ Len(buffer) \in Nat
        BY <1>4
    <3>2. \A j \in 1 .. f - 1 : j \in DOMAIN buffer
        BY <3>1
    <3>3. \A j \in DOMAIN buffer : Unread[j] = buffer[j]
        BY <1>4, <1>7, TakeLine
    <3> QED BY <1>5, <3>2, <3>3 DEF FirstLine, NoLineWithin
  <2>4. buffer[f].body \in Unusable \/ buffer[f].seq # seq
      BY <1>4, <1>10, EnvelopeChecked
  <2>5. ~InOrder(Unread, seq, Bad)
      BY <2>2, <2>3, <2>4 DEF InOrder, Bad
  <2>6. "malformed" \in faults
      BY <1>2, <2>5 DEF OrderKept
  <2>7. "unasked" \notin faults => Waiting' = <<>>
    <3> SUFFICES ASSUME "unasked" \notin faults PROVE Waiting' = <<>>
        OBVIOUS
    <3>1. OneLine(Joined(buffer, pipe))
        BY <1>1, <1>2, <1>7 DEF NothingAhead
    <3>2. Ends(buffer[f])
        BY <1>5 DEF FirstLine
    <3>3. SubSeq(buffer, f + 1, Len(buffer)) \o pipe = <<>>
        BY <1>4, <3>1, <3>2, TakeOnly
    <3> QED BY <1>1, <1>3, <3>3 DEF Waiting
  <2>8. FirstRefused'
      BY <1>1, <1>2, <1>8, <2>6, <2>7 DEF FirstRefused, LinesCounted
  <2> QED BY <2>1, <2>6, <2>8 DEF OutputAccount, LineChecked
<1> QED BY <1>9, <1>10

(* An answer is accepted when it is all that is unread, and was in order.   *)
LEMMA AcceptAccounted ==
  ASSUME IInv, OutputAccount, LineChecked, Accept
  PROVE  /\ OutputAccount'
         /\ line.body = "adapter-error" => "refused" \in faults
         /\ line.body = "bad-result" => "malformed" \in faults
<1>1. /\ pc = "peek" /\ seq' = seq + 1 /\ ~Failed /\ ~HasOutput /\ LookTakes
      /\ UNCHANGED <<lines, faults>>
    BY DEF Accept, history, IInv, CallsInOrder, Asked, Failed
<1>2. OrderKept /\ RefusalUnread /\ LinesCounted /\ NothingAhead
    BY <1>1 DEF OutputAccount
<1>3. Waiting = <<>> /\ Waiting' = <<>>
    BY <1>1, LookIsRight, LookMovesNothing
<1>4. line \in Items /\ seq \in Nat /\ lines \in Nat /\ causes \in Seq(Causes)
    BY OrderedMapSessionAssumption DEF IInv, TypeOK
<1>5. DOMAIN Unread = {1} /\ Unread[1] = line /\ Len(Unread) = 1
  <2>1. Unread = <<line>> \o <<>>
      BY <1>1, <1>3 DEF Unread
  <2>2. <<line>> \o <<>> = <<line>>
      OBVIOUS
  <2> QED BY <2>1, <2>2
<1>6. Ends(line) /\ line.seq = seq
    BY <1>1, <1>4, EnvelopeChecked DEF LineChecked, IsLine, Ends
<1>7. line.body = "adapter-error" => "refused" \in faults
    BY <1>2, <1>5 DEF RefusalUnread, Carries
<1>8. line.body = "bad-result" => "malformed" \in faults
    BY <1>2, <1>5 DEF OrderKept, InOrder, Bad
<1>9. ASSUME ~Failed' PROVE (OrderKept /\ RefusalUnread /\ LinesCounted /\ NothingAhead)'
  <2>1. pc' = "call" /\ line.body \in Judged
    <3>1. {"ADAPTER_ERROR", "RESPONSE_SHAPE"} \subseteq Causes
        BY DEF Causes
    <3>2. Append(causes, "ADAPTER_ERROR") # <<>> /\ Append(causes, "RESPONSE_SHAPE") # <<>>
        BY <1>4, <3>1, AddedTo
    <3> QED BY <1>9, <3>2 DEF Accept, FailWith, Failed
  <2>2. line.body \notin Bad /\ line.body # "adapter-error"
      BY <2>1 DEF Judged, Bad, Unusable
  <2>3. InOrder(Unread, seq, Bad)
      BY <1>5, <1>6, <2>2 DEF InOrder, NextLine
  <2>4. LeadsTo(Unread, seq, lines) => lines = seq + 1
      BY <1>5, <1>6 DEF LeadsTo, AnyLine
  <2>5. "malformed" \notin faults /\ lines = seq + 1
      BY <1>2, <2>3, <2>4 DEF OrderKept
  <2>6. Unread' = <<>>
      BY <1>3, <2>1 DEF Unread
  <2>7. DOMAIN Unread' = {}
      BY <2>6
  <2>8. OrderKept'
      BY <1>1, <2>5, <2>7 DEF OrderKept, InOrder, LeadsTo, AnyLine
  <2>9. RefusalUnread'
      BY <1>1, <1>2, <1>5, <2>2, <2>7 DEF RefusalUnread, Carries
  <2>10. LinesCounted'
      BY <1>1, <1>4, <2>5, <2>7 DEF LinesCounted, AnyLine
  <2>11. NothingAhead'
      BY <1>1, <2>1, <2>6 DEF NothingAhead
  <2> QED BY <2>8, <2>9, <2>10, <2>11
<1> QED BY <1>7, <1>8, <1>9 DEF OutputAccount

(* The account holds before the child is started.                          *)
LEMMA InitAccount == Init => Account
<1> SUFFICES ASSUME Init PROVE Account
    OBVIOUS
<1>1. Unread = <<>>
    BY DEF Init, Unread, Waiting
<1>2. OutputAccount
    BY <1>1 DEF Init, OutputAccount, OrderKept, RefusalUnread, LinesCounted, NothingAhead,
       InOrder, LeadsTo, AnyLine, Carries
<1>3. FirstRefused /\ LineChecked /\ DeadlinesKept /\ StatusSeen /\ StdinKept /\ LeftSeen
    BY DEF Init, FirstRefused, LineChecked, DeadlinesKept, StatusSeen, StdinKept, LeftSeen, Asked
<1>4. CausesGrounded
    BY DEF Init, CausesGrounded
<1> QED BY <1>2, <1>3, <1>4 DEF Account

(* A child that runs got as far as it did by itself: a deadline that        *)
(* expires is its own.                                                      *)
LEMMA ExpireIsSlow == IInv /\ Expire => faults' = faults \cup {"slow"}
  BY DEF IInv, StderrIsRead, Expire, Blocked

(* A step that fails the session ends the account of its output.            *)
LEMMA FailureEnds ==
  ASSUME IInv, NEW c \in Causes, FailWith(c)
  PROVE  Failed' /\ OutputAccount' /\ pc' = "close"
<1>1. causes \in Seq(Causes)
    BY DEF IInv, TypeOK
<1>2. Append(causes, c) # <<>>
    BY <1>1, AddedTo
<1> QED BY <1>2 DEF FailWith, Failed, OutputAccount

(* The steps that move, take or add no output, up to closing.               *)
LEMMA QuietSteps ==
  ASSUME IInv, OutputAccount,
         \/ Start \/ QuietBefore \/ WriteRequest \/ CampaignDone \/ ReadChunk \/ ReadEof
         \/ ReceiveEof \/ CloseStdin
  PROVE  OutputAccount'
<1> USE DEF GoTo, outcome, input, streams, history, childVars
<1>1. CASE Start \/ CampaignDone \/ ReadEof \/ ReceiveEof \/ CloseStdin
    BY <1>1, OutputUnmoved DEF Start, CampaignDone, ReadEof, Reading, ReceiveEof, CloseStdin,
       Unread, Waiting
<1>2. CASE QuietBefore
  <2>1. Waiting' = Waiting
      BY <1>2, LookMovesNothing DEF QuietBefore
  <2> QED BY <1>2, <2>1, OutputUnmoved DEF QuietBefore, Unread
<1>3. CASE ReadChunk
  <2>1. buffer \in Seq(Items) /\ pipe \in Seq(Items)
      BY DEF IInv, TypeOK
  <2>2. (buffer \o pipe) \o <<>> = buffer \o pipe
      BY <2>1, ConcatEmptySeq
  <2>3. Unread' = Unread
      BY <1>3, <2>2 DEF ReadChunk, Unread, Waiting
  <2> QED BY <1>3, <2>3, OutputUnmoved DEF ReadChunk, Reading
<1>4. CASE WriteRequest
  <2>1. /\ Unread' = Unread /\ UNCHANGED <<causes, seq, lines, faults>>
        /\ pc = "write" /\ pc' \in {"read", "classify"}
      BY <1>4 DEF WriteRequest, Unread, Waiting
  <2>2. "unasked" \notin faults /\ ~Failed => OneLine(Unread)
      BY <2>1 DEF OutputAccount, NothingAhead, OneLine
  <2> QED BY <2>1, <2>2 DEF OutputAccount, OrderKept, RefusalUnread, LinesCounted, NothingAhead, Failed
<1> QED BY <1>1, <1>2, <1>3, <1>4

(* What was written and not accepted is accounted for after every step.     *)
LEMMA StepOutput ==
  ASSUME IInv, OutputAccount, FirstRefused, LineChecked, [Next]_vars
  PROVE  OutputAccount'
<1>1. CASE ChildWrite
    BY <1>1, WriteAccounted
<1>2. CASE Receive
    BY <1>2, ReceiveAccounted
<1>3. CASE Accept
    BY <1>3, AcceptAccounted
<1>4. CASE Start \/ QuietBefore \/ WriteRequest \/ CampaignDone \/ ReadChunk \/ ReadEof
           \/ ReceiveEof \/ CloseStdin
    BY <1>4, QuietSteps
<1>5. CASE OutputBefore \/ ReceiveTimeout \/ JudgeFirst \/ ExtraAfter \/ Classify \/ ClassifyTimeout
  <2>1. \E c \in Causes : FailWith(c)
      BY <1>5 DEF OutputBefore, ReceiveTimeout, JudgeFirst, ExtraAfter, Classify, ClassifyTimeout,
         ExitCause, Causes
  <2> QED BY <2>1, FailureEnds
<1>6. CASE StartFails
    BY <1>6 DEF StartFails, OutputAccount, Failed
<1>7. CASE DrainTimeout \/ DrainExtra \/ WaitExit \/ WaitTimeout
  <2>1. causes \in Seq(Causes)
      BY DEF IInv, TypeOK
  <2>2. PICK c \in Causes \cup {"none"} : CloseWith(c)
      BY <1>7 DEF DrainTimeout, DrainExtra, WaitExit, WaitTimeout, ExitCause, Causes
  <2>3. causes' = causes \/ Failed'
    <3>1. \A x \in Causes : Append(causes, x) # <<>>
        BY <2>1, AddedTo
    <3> QED BY <2>2, <3>1 DEF CloseWith, Failed
  <2>4. Unread' = Unread /\ UNCHANGED <<seq, lines>> /\ pc \notin {"read", "second", "peek", "classify"}
      BY <1>7 DEF DrainTimeout, DrainExtra, WaitExit, WaitTimeout, CloseWith, Unread, Waiting, input,
         childVars, streams, history
  <2>5. \A f \in {"malformed", "refused", "unasked"} : f \in faults' <=> f \in faults
      BY <1>7 DEF DrainTimeout, DrainExtra, WaitExit, WaitTimeout, Expire
  <2>6. CASE Failed'
      BY <2>6 DEF OutputAccount
  <2>7. CASE causes' = causes
      BY <2>4, <2>5, <2>7, OutputUnmoved
  <2> QED BY <2>3, <2>6, <2>7
<1>8. CASE DrainClean \/ Poll \/ GraceExit \/ Kill \/ CloseStreams \/ Report
  <2> USE DEF Unread, Waiting, GoTo, AfterPoll, outcome, input, streams, history, childVars
  <2>1. CASE DrainClean \/ Poll \/ GraceExit
      BY <2>1, OutputUnmoved DEF DrainClean, Poll, GraceExit
  <2>2. CASE Kill \/ CloseStreams \/ Report
      BY <2>2, OutputUnmoved DEF Kill, CloseStreams, Report
  <2> QED BY <1>8, <2>1, <2>2
<1>9. CASE DrainEnds \/ HolderExit \/ UNCHANGED vars
  <2>1. UNCHANGED <<pc, causes, Unread, seq, lines, faults>>
      BY <1>9 DEF DrainEnds, HolderExit, vars, Unread, Waiting, outcome, input, streams, history, childVars
  <2> QED BY <2>1, OutputUnmoved DEF OutputAccount
<1>10. CASE \/ \E fd \in {"stdin", "stdout"} : ChildClose(fd)
            \/ \E status \in {"zero", "nonzero"} : ChildExit(status)
  <2>1. UNCHANGED <<pc, causes, Unread, seq, lines>>
      BY <1>10 DEF ChildClose, ChildExit, Unread, Waiting, outcome, input, streams, history, childVars
  <2>2. \A f \in {"malformed", "refused", "unasked"} : f \in faults' <=> f \in faults
      BY <1>10 DEF ChildClose, ChildExit
  <2> QED BY <2>1, <2>2, OutputUnmoved DEF OutputAccount
<1> QED BY <1>1, <1>2, <1>3, <1>4, <1>5, <1>6, <1>7, <1>8, <1>9, <1>10 DEF Next, RunnerStep, ChildStep

(* No step but a failed start forgets what the child's side did.            *)
LEMMA FaultsStay ==
  ASSUME [Next]_vars
  PROVE  StartFails \/ faults \subseteq faults'
<1> USE DEF Expire
<1>1. CASE RunnerStep
    BY <1>1 DEF RunnerStep, Start, OutputBefore, QuietBefore, WriteRequest, CampaignDone,
       ReadChunk, ReadEof, ReceiveTimeout, ReceiveEof, Receive, JudgeFirst, ExtraAfter, Accept,
       Classify, ClassifyTimeout, CloseStdin, DrainTimeout, DrainExtra, DrainClean, WaitExit,
       WaitTimeout, Poll, GraceExit, Kill, CloseStreams, Report
<1>2. CASE ChildStep
    BY <1>2 DEF ChildStep, ChildWrite, ChildClose, ChildExit, HolderExit
<1> QED BY <1>1, <1>2 DEF Next, DrainEnds, vars

(* While a refused first answer is judged, whatever else the child writes   *)
(* is output nobody asked for.                                              *)
LEMMA StepRefused ==
  ASSUME IInv, OutputAccount, FirstRefused, [Next]_vars
  PROVE  FirstRefused'
<1>1. CASE Receive
    BY <1>1, ReceiveAccounted
<1>2. CASE ChildWrite
  <2>1. /\ UNCHANGED <<pc, seq>> /\ lines' >= lines
        /\ pc = "second" /\ lines > seq => "unasked" \in faults'
        /\ faults \subseteq faults'
    <3>1. lines \in Nat /\ seq \in Nat
        BY OrderedMapSessionAssumption DEF IInv, TypeOK
    <3> QED BY <1>2, <3>1 DEF ChildWrite, Sent
  <2>2. lines \in Nat /\ lines' \in Nat /\ seq \in Nat
      BY <1>2, OrderedMapSessionAssumption DEF ChildWrite, IInv, TypeOK
  <2> QED BY <2>1, <2>2 DEF FirstRefused
<1>3. CASE ~Receive /\ ~ChildWrite
  <2>1. pc' = "second" => pc = "second" /\ UNCHANGED <<seq, lines, Waiting>> /\ faults \subseteq faults'
    <3> USE DEF GoTo, FailWith, CloseWith, AfterPoll, Waiting, input, outcome, streams, history, childVars
    <3>1. CASE RunnerStep
        BY <1>3, <3>1 DEF RunnerStep, Start, StartFails, OutputBefore, QuietBefore, WriteRequest,
           CampaignDone, ReadChunk, ReadEof, Reading, ReceiveTimeout, ReceiveEof, JudgeFirst,
           ExtraAfter, Accept, Classify, ClassifyTimeout, CloseStdin, DrainTimeout, DrainExtra,
           DrainClean, WaitExit, WaitTimeout, Poll, GraceExit, Kill, CloseStreams, Report
    <3>2. CASE ChildStep
        BY <1>3, <3>2 DEF ChildStep, ChildClose, ChildExit, HolderExit
    <3> QED BY <3>1, <3>2 DEF Next, DrainEnds, vars
  <2> QED BY <2>1 DEF FirstRefused
<1> QED BY <1>1, <1>2, <1>3

(* So is how the child left, and which deadlines expired.                   *)
LEMMA StepConduct ==
  ASSUME IInv, OutputAccount, LineChecked, DeadlinesKept, StatusSeen, StdinKept, LeftSeen,
         [Next]_vars
  PROVE  (LineChecked /\ DeadlinesKept /\ StatusSeen /\ StdinKept /\ LeftSeen)'
<1> DEFINE Conduct == LineChecked /\ DeadlinesKept /\ StatusSeen /\ StdinKept /\ LeftSeen
<1> SUFFICES Conduct'
    OBVIOUS
<1>0. /\ child \in {"none", "running", "zero", "nonzero"} /\ fds \subseteq {"stdin", "stdout"}
      /\ pc = "start" => child = "none"
      /\ pc \in Asked \cup {"start", "call"} => ~Failed
      /\ Reaped /\ stdinOpen \in BOOLEAN
      /\ eof => ~StdoutOpen
    BY DEF IInv, TypeOK, NotStarted, CallsInOrder, AtEof, Failed
<1>a. ASSUME NEW c \in Causes, FailWith(c) PROVE Failed' /\ pc' = "close"
    BY <1>a, FailureEnds
<1>b. ASSUME NEW c \in Causes \cup {"none"}, CloseWith(c)
      PROVE  (c # "none" \/ Failed => Failed') /\ pc' = "poll"
  <2>1. causes \in Seq(Causes)
      BY DEF IInv, TypeOK
  <2>2. \A x \in Causes : Append(causes, x) # <<>>
      BY <2>1, AddedTo
  <2>3. causes = <<>> => DOMAIN causes = {}
      OBVIOUS
  <2> QED BY <1>b, <2>2, <2>3 DEF CloseWith, Failed
<1>c. {"TIMEOUT", "EXTRA_STDOUT", "UNEXPECTED_OUTPUT", "RESPONSE_SHAPE", "ADAPTER_ERROR",
       "PROCESS_EXIT", "UNEXPECTED_EOF"} \subseteq Causes
    BY DEF Causes
<1>d. UNCHANGED causes => Failed' = Failed
    BY DEF Failed
<1>e. UNCHANGED line /\ UNCHANGED seq /\ UNCHANGED pc => LineChecked'
    BY DEF LineChecked, EnvelopeCause
<1> USE <1>0 DEF DeadlinesKept, StatusSeen, StdinKept, LeftSeen, Asked, Reaped, GoTo,
        input, outcome, streams, history, childVars
<1>1. CASE Start
    BY <1>1, <1>d DEF Start, LineChecked
<1>2. CASE StartFails
    BY <1>2 DEF StartFails, LineChecked
<1>3. CASE OutputBefore
    BY <1>3, <1>a, <1>c DEF OutputBefore, LineChecked
<1>4. CASE QuietBefore
    BY <1>4, <1>d DEF QuietBefore, LineChecked
<1>5. CASE WriteRequest
    BY <1>5, <1>d DEF WriteRequest, LineChecked
<1>6. CASE CampaignDone
    BY <1>6, <1>d DEF CampaignDone, LineChecked
<1>7. CASE ReadChunk
    BY <1>7, <1>d, <1>e DEF ReadChunk, Reading
<1>8. CASE ReadEof
    BY <1>8, <1>d, <1>e DEF ReadEof, Reading
<1>9. CASE ReceiveTimeout
    BY <1>9, <1>a, <1>c DEF ReceiveTimeout, LineChecked, Expire
<1>10. CASE ReceiveEof
    BY <1>10, <1>d DEF ReceiveEof, LineChecked, StdoutOpen
<1>11. CASE Receive
  <2>1. LineChecked'
      BY <1>11, ReceiveAccounted
  <2>2. pc' \in {"peek", "second", "close"} /\ pc = "read"
      BY <1>11 DEF Receive, FailWith
  <2>3. UNCHANGED <<stdinOpen, child, fds, faults>>
      BY <1>11 DEF Receive
  <2>4. "slow" \notin faults
      BY <2>2
  <2> QED BY <2>1, <2>2, <2>3, <2>4
<1>12. CASE JudgeFirst
    BY <1>12, <1>a, <1>c DEF JudgeFirst, LineChecked
<1>13. CASE ExtraAfter
    BY <1>13, <1>a, <1>c DEF ExtraAfter, LineChecked
<1>14. CASE Accept
  <2>1. pc' \in {"close", "call"} /\ pc = "peek"
      BY <1>14 DEF Accept, FailWith
  <2> QED BY <1>14, <2>1 DEF Accept, LineChecked
<1>15. CASE Classify
    BY <1>15, <1>a, <1>c DEF Classify, ExitCause, Exited, LineChecked
<1>16. CASE ClassifyTimeout
    BY <1>16, <1>a, <1>c DEF ClassifyTimeout, Expire, LineChecked
<1>17. CASE CloseStdin
    BY <1>17, <1>d DEF CloseStdin, LineChecked
<1>18. CASE DrainTimeout
    BY <1>18, <1>b, <1>c DEF DrainTimeout, Expire, LineChecked
<1>19. CASE DrainExtra
    BY <1>19, <1>b, <1>c DEF DrainExtra, LineChecked
<1>20. CASE DrainClean
    BY <1>20, <1>d DEF DrainClean, LineChecked
<1>21. CASE WaitExit
    BY <1>21, <1>b, <1>c DEF WaitExit, ExitCause, Exited, LineChecked
<1>22. CASE WaitTimeout
    BY <1>22, <1>b, <1>c DEF WaitTimeout, Expire, LineChecked
<1>23. CASE Poll
    BY <1>23, <1>d DEF Poll, AfterPoll, Exited, LineChecked
<1>24. CASE GraceExit
    BY <1>24, <1>d DEF GraceExit, Exited, LineChecked
<1>25. CASE Kill
    BY <1>25, <1>d DEF Kill, LineChecked
<1>26. CASE CloseStreams
    BY <1>26, <1>d DEF CloseStreams, LineChecked
<1>27. CASE Report
    BY <1>27, <1>d DEF Report, LineChecked
<1>28. CASE ChildWrite
    BY <1>28, <1>d, <1>e DEF ChildWrite
<1>29. ASSUME NEW fd \in {"stdin", "stdout"}, ChildClose(fd) PROVE Conduct'
    BY <1>29, <1>d, <1>e DEF ChildClose
<1>30. ASSUME NEW status \in {"zero", "nonzero"}, ChildExit(status) PROVE Conduct'
    BY <1>30, <1>d, <1>e DEF ChildExit
<1>31. CASE HolderExit
    BY <1>31, <1>d, <1>e DEF HolderExit
<1>32. CASE DrainEnds
    BY <1>32, <1>d, <1>e DEF DrainEnds
<1>33. CASE UNCHANGED vars
    BY <1>33, <1>d, <1>e DEF vars
<1> QED BY <1>1, <1>2, <1>3, <1>4, <1>5, <1>6, <1>7, <1>8, <1>9, <1>10, <1>11, <1>12, <1>13, <1>14, <1>15, <1>16, <1>17, <1>18, <1>19, <1>20, <1>21, <1>22, <1>23, <1>24, <1>25, <1>26, <1>27, <1>28, <1>29, <1>30, <1>31, <1>32, <1>33 DEF Next, RunnerStep, ChildStep

(* A cause that has its ground, or is excused, is added to grounded ones.   *)
LEMMA CauseAdded ==
  ASSUME IInv, CausesGrounded, faults \subseteq faults', NEW c \in Causes,
         causes' = Append(causes, c),
         faults' \cap Grounds(c) # {} \/ (causes # <<>> /\ c = "EXTRA_STDOUT")
  PROVE  CausesGrounded'
<1>1. causes \in Seq(Causes)
    BY DEF IInv, TypeOK
<1> DEFINE e == Len(causes) + 1
<1>2. /\ DOMAIN causes' = DOMAIN causes \cup {e}
      /\ \A i \in DOMAIN causes : causes'[i] = causes[i]
      /\ causes'[e] = c
    BY <1>1
<1>3. causes # <<>> => e > 1
    BY <1>1
<1>4. ASSUME NEW i \in DOMAIN causes
      PROVE  faults' \cap Grounds(causes'[i]) # {} \/ (i > 1 /\ causes'[i] = "EXTRA_STDOUT")
    BY <1>2 DEF CausesGrounded
<1>5. faults' \cap Grounds(causes'[e]) # {} \/ (e > 1 /\ causes'[e] = "EXTRA_STDOUT")
    BY <1>2, <1>3
<1> QED BY <1>2, <1>4, <1>5 DEF CausesGrounded

(* The first cause that a failed exchange is reported with has its ground.  *)
LEMMA FailureGrounded ==
  ASSUME IInv, Account, NEW c \in Causes, FailWith(c),
         \/ OutputBefore \/ ReceiveTimeout \/ Receive \/ JudgeFirst \/ ExtraAfter \/ Accept
         \/ Classify \/ ClassifyTimeout
  PROVE  faults' \cap Grounds(c) # {}
<1> USE DEF Account, Grounds
<1>0. causes' = Append(causes, c) /\ causes \in Seq(Causes) /\ pc' = "close"
    BY DEF FailWith, IInv, TypeOK
<1>x. ASSUME NEW d \in Causes, FailWith(d) PROVE c = d
  <2>1. Append(causes, c) = Append(causes, d)
      BY <1>0, <1>x DEF FailWith
  <2>2. Append(causes, c)[Len(causes) + 1] = c /\ Append(causes, d)[Len(causes) + 1] = d
      BY <1>0
  <2> QED BY <2>1, <2>2
<1>c. {"TIMEOUT", "EXTRA_STDOUT", "UNEXPECTED_OUTPUT", "RESPONSE_SHAPE", "ADAPTER_ERROR",
       "PROCESS_EXIT", "UNEXPECTED_EOF"} \subseteq Causes
    BY DEF Causes
<1>1. CASE OutputBefore
  <2>1. pc = "call" /\ ~Failed /\ Waiting # <<>> /\ faults' = faults
      BY <1>1, LookIsRight DEF OutputBefore, IInv, CallsInOrder, Failed
  <2>2. "unasked" \in faults
      BY <2>1 DEF OutputAccount, NothingAhead, Unread
  <2>3. c \in {"UNEXPECTED_OUTPUT", "EXTRA_STDOUT"}
      BY <1>1, <1>c, <1>x DEF OutputBefore
  <2> QED BY <2>1, <2>2, <2>3
<1>2. CASE ReceiveTimeout
  <2>1. c = "TIMEOUT" /\ "slow" \in faults'
      BY <1>2, <1>c, <1>x, ExpireIsSlow DEF ReceiveTimeout
  <2> QED BY <2>1
<1>3. CASE Receive
  <2>1. "malformed" \in faults
      BY <1>0, <1>3, ReceiveAccounted
  <2>2. PICK f \in DOMAIN buffer :
          LET cause == EnvelopeCause(buffer[f]) IN
            IF cause = "none" THEN GoTo("peek")
            ELSE IF cause = "RESPONSE_SHAPE" /\ seq = 0 THEN GoTo("second")
            ELSE FailWith(cause)
      BY <1>3 DEF Receive
  <2>3. buffer[f] \in Items
      BY DEF IInv, TypeOK
  <2>4. EnvelopeCause(buffer[f]) # "none" /\ FailWith(EnvelopeCause(buffer[f]))
      BY <1>0, <2>2 DEF GoTo
  <2>5. EnvelopeCause(buffer[f]) \in {"RESPONSE_ENCODING", "RESPONSE_DUPLICATE_MEMBER",
                                      "RESPONSE_JSON", "RESPONSE_SHAPE", "SEQUENCE_MISMATCH"}
      BY <2>3, <2>4, EnvelopeChecked
  <2>6. EnvelopeCause(buffer[f]) \in Causes
      BY <2>5 DEF Causes
  <2>7. c = EnvelopeCause(buffer[f])
      BY <1>x, <2>4, <2>6
  <2> QED BY <1>3, <2>1, <2>5, <2>7 DEF Receive
<1>4. CASE JudgeFirst
  <2>1. pc = "second" /\ faults' = faults /\ "malformed" \in faults
      BY <1>4 DEF JudgeFirst, FirstRefused
  <2>2. HasOutput => "unasked" \in faults
      BY <2>1, LookIsRight DEF FirstRefused
  <2>3. c = IF HasOutput THEN "UNEXPECTED_OUTPUT" ELSE "RESPONSE_SHAPE"
      BY <1>4, <1>c, <1>x DEF JudgeFirst
  <2> QED BY <2>1, <2>2, <2>3
<1>5. CASE ExtraAfter
  <2>1. pc = "peek" /\ ~Failed /\ Waiting # <<>> /\ faults' = faults
      BY <1>5, LookIsRight DEF ExtraAfter, IInv, CallsInOrder, Asked, Failed
  <2>2. line \in Items /\ Waiting \in Seq(Items) /\ Unread = <<line>> \o Waiting
      BY <2>1, UnreadIsOutput DEF Unread, IInv, TypeOK
  <2>3. Len(Waiting) \in Nat /\ Len(Waiting) > 0
      BY <2>1, <2>2
  <2>4. Len(Unread) = 1 + Len(Waiting) /\ Unread[1] = line
      BY <2>2, <2>3
  <2>5. ~OneLine(Unread)
    <3>1. 1 \in 1 .. Len(Unread) - 1
        BY <2>3, <2>4
    <3>2. Ends(Unread[1])
        BY <2>1, <2>4 DEF LineChecked, IsLine, Ends
    <3> QED BY <3>1, <3>2 DEF OneLine
  <2>6. "unasked" \in faults
      BY <2>1, <2>5 DEF OutputAccount, NothingAhead
  <2>7. c = "EXTRA_STDOUT"
      BY <1>5, <1>c, <1>x DEF ExtraAfter
  <2> QED BY <2>1, <2>6, <2>7
<1>6. CASE Accept
  <2>1. \/ line.body = "adapter-error" /\ FailWith("ADAPTER_ERROR")
        \/ line.body = "bad-result" /\ FailWith("RESPONSE_SHAPE")
      BY <1>0, <1>6 DEF Accept
  <2>2. \/ line.body = "adapter-error" /\ c = "ADAPTER_ERROR"
        \/ line.body = "bad-result" /\ c = "RESPONSE_SHAPE"
      BY <1>c, <1>x, <2>1
  <2>3. /\ line.body = "adapter-error" => "refused" \in faults
        /\ line.body = "bad-result" => "malformed" \in faults
      BY <1>6, AcceptAccounted
  <2> QED BY <1>6, <2>2, <2>3 DEF Accept
<1>7. CASE Classify
  <2>1. pc = "classify" /\ faults' = faults
      BY <1>7 DEF Classify
  <2>2. c = ExitCause("UNEXPECTED_EOF")
      BY <1>7, <1>c, <1>x DEF Classify, ExitCause
  <2> QED BY <2>1, <2>2 DEF ExitCause, StatusSeen, LeftSeen
<1>8. CASE ClassifyTimeout
  <2>1. c = "TIMEOUT" /\ "slow" \in faults'
      BY <1>8, <1>c, <1>x, ExpireIsSlow DEF ClassifyTimeout
  <2> QED BY <2>1
<1> QED BY <1>1, <1>2, <1>3, <1>4, <1>5, <1>6, <1>7, <1>8

(* So has the cause of the close, but for what was left after a failure.    *)
LEMMA ClosureGrounded ==
  ASSUME IInv, Account, NEW c \in Causes, CloseWith(c),
         \/ DrainTimeout \/ DrainExtra \/ WaitExit \/ WaitTimeout
  PROVE  \/ causes' = causes
         \/ /\ causes' = Append(causes, c)
            /\ faults' \cap Grounds(c) # {} \/ (causes # <<>> /\ c = "EXTRA_STDOUT")
<1> USE DEF Account, Grounds
<1>0. SUFFICES ASSUME causes' = Append(causes, c), causes' # causes
               PROVE  faults' \cap Grounds(c) # {} \/ (causes # <<>> /\ c = "EXTRA_STDOUT")
    BY DEF CloseWith
<1>x. ASSUME NEW d \in Causes \cup {"none"}, CloseWith(d) PROVE c = d
  <2>1. causes \in Seq(Causes)
      BY DEF IInv, TypeOK
  <2>2. d # "none" /\ Append(causes, c) = Append(causes, d)
      BY <1>0, <1>x DEF CloseWith
  <2>3. Append(causes, c)[Len(causes) + 1] = c /\ Append(causes, d)[Len(causes) + 1] = d
      BY <2>1, <2>2
  <2> QED BY <2>2, <2>3
<1>c. {"TIMEOUT", "EXTRA_STDOUT", "PROCESS_EXIT"} \subseteq Causes /\ "none" \notin Causes
    BY DEF Causes
<1>1. CASE DrainTimeout \/ WaitTimeout
  <2>1. c = "TIMEOUT" /\ "slow" \in faults'
      BY <1>1, <1>c, <1>x, ExpireIsSlow DEF DrainTimeout, WaitTimeout
  <2> QED BY <2>1
<1>2. CASE DrainExtra
  <2>1. c = "EXTRA_STDOUT"
      BY <1>2, <1>c, <1>x DEF DrainExtra
  <2>2. causes = <<>> => "unasked" \in faults'
    <3> SUFFICES ASSUME causes = <<>>, "unasked" \notin faults PROVE FALSE
        BY <1>2 DEF DrainExtra
    <3>1. Waiting = <<>>
        BY <1>2 DEF DrainExtra, OutputAccount, NothingAhead, Unread, Failed
    <3>2. ~HasOutput
        BY <3>1, LookIsRight
    <3>3. buffer = <<>>
        BY <3>2 DEF HasOutput
    <3> QED BY <1>2, <3>3 DEF DrainExtra, Leftover, HasLine
  <2> QED BY <2>1, <2>2
<1>3. CASE WaitExit
  <2>1. c = ExitCause("none") /\ pc = "wait" /\ faults' = faults
      BY <1>3, <1>c, <1>x DEF WaitExit, ExitCause
  <2>2. c = "PROCESS_EXIT" /\ child = "nonzero"
      BY <1>c, <2>1 DEF ExitCause
  <2> QED BY <2>1, <2>2 DEF StatusSeen
<1> QED BY <1>1, <1>2, <1>3

(* Every cause that a step reports has its ground, and keeps it.            *)
LEMMA StepCauses ==
  ASSUME IInv, Account, [Next]_vars
  PROVE  CausesGrounded'
<1>1. CASE StartFails
  <2>1. causes' = <<"PROCESS_START">> /\ faults' = {"start"}
      BY <1>1 DEF StartFails
  <2>2. DOMAIN causes' = {1} /\ causes'[1] = "PROCESS_START"
      BY <2>1
  <2> QED BY <2>1, <2>2 DEF CausesGrounded, Grounds
<1>2. SUFFICES ASSUME ~StartFails PROVE CausesGrounded'
    BY <1>1
<1>3. CausesGrounded /\ faults \subseteq faults'
    BY <1>2, FaultsStay DEF Account
<1>4. CASE UNCHANGED causes
    BY <1>3, <1>4 DEF CausesGrounded
<1>5. ASSUME NEW c \in Causes, FailWith(c),
             \/ OutputBefore \/ ReceiveTimeout \/ Receive \/ JudgeFirst \/ ExtraAfter \/ Accept
             \/ Classify \/ ClassifyTimeout
      PROVE  CausesGrounded'
  <2>1. causes' = Append(causes, c)
      BY <1>5 DEF FailWith
  <2>2. faults' \cap Grounds(c) # {}
      BY <1>5, FailureGrounded
  <2> QED BY <1>3, <2>1, <2>2, CauseAdded
<1>6. ASSUME NEW c \in Causes, CloseWith(c), DrainTimeout \/ DrainExtra \/ WaitExit \/ WaitTimeout
      PROVE  CausesGrounded'
  <2>1. \/ causes' = causes
        \/ /\ causes' = Append(causes, c)
           /\ faults' \cap Grounds(c) # {} \/ (causes # <<>> /\ c = "EXTRA_STDOUT")
      BY <1>6, ClosureGrounded
  <2> QED BY <1>3, <1>4, <2>1, CauseAdded
<1>7. CASE \/ OutputBefore \/ ReceiveTimeout \/ JudgeFirst \/ ExtraAfter \/ Accept
           \/ Classify \/ ClassifyTimeout
  <2>1. UNCHANGED causes \/ \E c \in Causes : FailWith(c)
      BY <1>7 DEF OutputBefore, ReceiveTimeout, JudgeFirst, ExtraAfter, Accept, Classify,
         ClassifyTimeout, ExitCause, Causes
  <2> QED BY <1>4, <1>5, <1>7, <2>1
<1>8. CASE Receive
  <2>1. PICK f \in DOMAIN buffer :
          LET cause == EnvelopeCause(buffer[f]) IN
            IF cause = "none" THEN GoTo("peek")
            ELSE IF cause = "RESPONSE_SHAPE" /\ seq = 0 THEN GoTo("second")
            ELSE FailWith(cause)
      BY <1>8 DEF Receive
  <2>2. buffer[f] \in Items
      BY DEF IInv, TypeOK
  <2>3. EnvelopeCause(buffer[f]) \in Causes \cup {"none"}
      BY <2>2, EnvelopeChecked DEF Causes
  <2>4. UNCHANGED causes \/ \E c \in Causes : FailWith(c)
      BY <2>1, <2>3 DEF GoTo, outcome
  <2> QED BY <1>4, <1>5, <1>8, <2>4
<1>9. CASE DrainTimeout \/ DrainExtra \/ WaitExit \/ WaitTimeout
  <2>1. UNCHANGED causes \/ \E c \in Causes : CloseWith(c)
      BY <1>9 DEF DrainTimeout, DrainExtra, WaitExit, WaitTimeout, ExitCause, Causes, CloseWith
  <2> QED BY <1>4, <1>6, <1>9, <2>1
<1>10. CASE \/ Start \/ QuietBefore \/ WriteRequest \/ CampaignDone \/ ReadChunk \/ ReadEof
            \/ ReceiveEof \/ CloseStdin \/ DrainClean \/ Poll \/ GraceExit \/ Kill
            \/ CloseStreams \/ Report \/ DrainEnds \/ ChildStep \/ UNCHANGED vars
    BY <1>4, <1>10 DEF Start, QuietBefore, WriteRequest, CampaignDone, ReadChunk, ReadEof,
       ReceiveEof, CloseStdin, DrainClean, Poll, GraceExit, Kill, CloseStreams, Report,
       DrainEnds, ChildStep, ChildWrite, ChildClose, ChildExit, HolderExit, vars, GoTo, outcome
<1> QED BY <1>2, <1>7, <1>8, <1>9, <1>10 DEF Next, RunnerStep

(* The account is kept for ever.                                            *)
LEMMA SpecAccount == Spec => [](IInv /\ Account)
<1>1. Init => IInv /\ Account
    BY InitIInv, InitAccount
<1>2. IInv /\ Account /\ [Next]_vars => (IInv /\ Account)'
  <2> SUFFICES ASSUME IInv, Account, [Next]_vars PROVE (IInv /\ Account)'
      OBVIOUS
  <2>1. IInv'
      BY StepIInv
  <2>2. OutputAccount'
      BY StepOutput DEF Account
  <2>3. FirstRefused'
      BY StepRefused DEF Account
  <2>4. (LineChecked /\ DeadlinesKept /\ StatusSeen /\ StdinKept /\ LeftSeen)'
      BY StepConduct DEF Account
  <2>5. CausesGrounded'
      BY StepCauses
  <2> QED BY <2>1, <2>2, <2>3, <2>4, <2>5 DEF Account
<1> QED BY <1>1, <1>2, PTL DEF Spec

(* The runner accuses nobody falsely: every cause it reports is grounded in *)
(* what the child's side did or in a deadline that expired while the child  *)
(* could go on; end of file is never taken for output.                      *)
THEOREM AccusesRightly == Spec => []CausesGrounded
<1>1. IInv /\ Account => CausesGrounded
    BY DEF Account
<1> QED BY <1>1, SpecAccount, PTL

(* A report that is not an error comes after the child has ended with       *)
(* status zero and all it ever wrote was read and taken, one line for each  *)
(* request and in order.                                                    *)
THEOREM EndsClean == Spec => []CleanEnd
<1>1. IInv /\ Account => CleanEnd
  <2> SUFFICES ASSUME IInv, Account, result \in {"supports", "challenges"}
               PROVE  /\ seq = NumCalls /\ lines = NumCalls
                      /\ child = "zero"
                      /\ eof /\ ~StdoutOpen
                      /\ buffer = <<>> /\ pipe = <<>>
                      /\ faults \cap {"slow", "malformed", "refused", "status"} = {}
      BY DEF CleanEnd
  <2>1. pc = "done" /\ causes = <<>> /\ ~Failed
      BY DEF IInv, ReportedOnce, Verdict, Failed
  <2>2. seq = NumCalls /\ child = "zero" /\ eof /\ ~StdoutOpen /\ buffer = <<>> /\ pipe = <<>>
      BY <2>1 DEF IInv, CallsInOrder, AtEof, ClosedClean, Asked, Closed
  <2>3. DOMAIN Unread = {}
      BY <2>1, <2>2 DEF Unread, Waiting
  <2>4. OrderKept /\ RefusalUnread
      BY <2>1 DEF Account, OutputAccount
  <2>5. "malformed" \notin faults /\ lines = seq
      BY <2>3, <2>4 DEF OrderKept, InOrder, LeadsTo, AnyLine
  <2>6. "refused" \notin faults
      BY <2>3, <2>4 DEF RefusalUnread, Carries
  <2>7. "slow" \notin faults /\ "status" \notin faults
      BY <2>1, <2>2 DEF Account, DeadlinesKept, StatusSeen
  <2> QED BY <2>2, <2>5, <2>6, <2>7
<1> QED BY <1>1, SpecAccount, PTL

(* The session implements the promise of the Stack session: each of its    *)
(* steps is a step of LockstepSession or changes nothing it sees.          *)
THEOREM Implements == Spec => LockstepSpec
<1>1. Init => Lockstep!Init
    BY DEF Init, Lockstep!Init, Failed
<1>2. ASSUME IInv, [Next]_vars PROVE [Lockstep!Next]_Lockstep!vars
  <2> USE <1>2 DEF IInv, TypeOK, NotStarted, CallsInOrder, ClosedClean, Reaped, ReportedOnce,
          Asked, Closed, Causes, FailWith, CloseWith, GoTo, Failed, input, outcome, streams,
          history, childVars, Lockstep!Next, Lockstep!vars, Lockstep!Begin, Lockstep!End, Lockstep!Fail
  <2>1. CASE Start
      BY <2>1 DEF Start
  <2>2. CASE StartFails
      BY <2>2 DEF StartFails
  <2>3. CASE OutputBefore
      BY <2>3 DEF OutputBefore
  <2>4. CASE QuietBefore
      BY <2>4 DEF QuietBefore
  <2>5. CASE WriteRequest
      BY <2>5 DEF WriteRequest
  <2>6. CASE CampaignDone
      BY <2>6 DEF CampaignDone
  <2>7. CASE ReadChunk
      BY <2>7 DEF ReadChunk
  <2>8. CASE ReadEof
      BY <2>8 DEF ReadEof
  <2>9. CASE ReceiveTimeout
      BY <2>9 DEF ReceiveTimeout
  <2>10. CASE ReceiveEof
      BY <2>10 DEF ReceiveEof
  <2>11. CASE Receive
      BY <2>11 DEF Receive
  <2>12. CASE JudgeFirst
      BY <2>12 DEF JudgeFirst
  <2>13. CASE ExtraAfter
      BY <2>13 DEF ExtraAfter
  <2>14. CASE Accept
      BY <2>14 DEF Accept, MarksOf, Judged, Lockstep!Exchange, Lockstep!Marks
  <2>15. CASE Classify
      BY <2>15 DEF Classify, ExitCause
  <2>16. CASE ClassifyTimeout
      BY <2>16 DEF ClassifyTimeout
  <2>17. CASE CloseStdin
      BY <2>17 DEF CloseStdin
  <2>18. CASE DrainTimeout
      BY <2>18 DEF DrainTimeout
  <2>19. CASE DrainExtra
      BY <2>19 DEF DrainExtra
  <2>20. CASE DrainClean
      BY <2>20 DEF DrainClean
  <2>21. CASE WaitExit
      BY <2>21 DEF WaitExit, ExitCause
  <2>22. CASE WaitTimeout
      BY <2>22 DEF WaitTimeout
  <2>23. CASE Poll
      BY <2>23 DEF Poll
  <2>24. CASE GraceExit
      BY <2>24 DEF GraceExit
  <2>25. CASE Kill
      BY <2>25 DEF Kill
  <2>26. CASE CloseStreams
      BY <2>26 DEF CloseStreams
  <2>27. CASE Report
      BY <2>27 DEF Report, Verdict, Lockstep!Report, Lockstep!Judge
  <2>28. CASE DrainEnds
      BY <2>28 DEF DrainEnds
  <2>29. CASE ChildWrite
      BY <2>29 DEF ChildWrite
  <2>30. CASE HolderExit
      BY <2>30 DEF HolderExit
  <2>31. ASSUME NEW fd \in {"stdin", "stdout"}, ChildClose(fd) PROVE UNCHANGED Lockstep!vars
      BY <2>31 DEF ChildClose
  <2>32. ASSUME NEW status \in {"zero", "nonzero"}, ChildExit(status) PROVE Lockstep!End
      BY <2>32 DEF ChildExit
  <2>33. CASE UNCHANGED vars
      BY <2>33 DEF vars
  <2> QED BY <2>1, <2>2, <2>3, <2>4, <2>5, <2>6, <2>7, <2>8, <2>9, <2>10, <2>11, <2>12, <2>13, <2>14, <2>15, <2>16, <2>17, <2>18, <2>19, <2>20, <2>21, <2>22, <2>23, <2>24, <2>25, <2>26, <2>27, <2>28, <2>29, <2>30, <2>31, <2>32, <2>33 DEF Next, RunnerStep, ChildStep
<1> QED BY <1>1, <1>2, SpecIInv, PTL DEF Spec, LockstepSpec, Lockstep!Spec

-----------------------------------------------------------------------------
(* The session comes to an end. *)

Unit(holds) == IF holds THEN 1 ELSE 0

(* How far the child and what is behind it are: whether it was started and *)
(* has ended, the streams given up, and the thread that reads its stderr.  *)
Life     == IF child = "none" THEN 0 ELSE IF child = "running" THEN 1 ELSE 2
Released == Unit("stdin" \notin fds) + Unit("stdout" \notin fds) + Unit(held = {})
Thread   == IF drainer = "none" THEN 0 ELSE IF drainer = "reading" THEN 1 ELSE 2

(* What the runner has found of stdout: all that is there, and its end.    *)
Drawn == Unit(pipe = <<>>) + Unit(eof)

(* How far the runner is, in the session and in a call.                    *)
Phase ==
  IF pc = "start" THEN 0
  ELSE IF pc \in Asked \cup {"call"} THEN 1
  ELSE IF pc = "close" THEN 2
  ELSE IF pc = "drain" THEN 3
  ELSE IF pc = "wait" THEN 4
  ELSE IF pc = "poll" THEN 5
  ELSE IF pc = "grace" THEN 6
  ELSE IF pc = "stderr" THEN 7
  ELSE IF pc = "report" THEN 8
  ELSE 9

InCall ==
  IF pc = "write" THEN 1
  ELSE IF pc = "read" THEN 2
  ELSE IF pc \in {"second", "peek", "classify"} THEN 3
  ELSE 0

Spent == Weight(Life, Released, Thread, written, Drawn, Phase, seq, InCall)
Most  == MostWeight(MaxItems, NumCalls)

SpentTyped ==
  /\ Life \in 0 .. 2 /\ Released \in 0 .. 3 /\ Thread \in 0 .. 2
  /\ written \in 0 .. MaxItems /\ written \in Nat
  /\ Drawn \in 0 .. 2 /\ Phase \in 0 .. 9 /\ seq \in 0 .. NumCalls /\ seq \in Nat /\ InCall \in 0 .. 3

(* The parts of the measure are numbers.                                   *)
LEMMA SpentParts == (TypeOK => SpentTyped) /\ (TypeOK' => SpentTyped')
<1>1. ASSUME TypeOK PROVE SpentTyped
  <2>1. Life \in 0 .. 2 /\ Thread \in 0 .. 2 /\ Phase \in 0 .. 9 /\ InCall \in 0 .. 3
      BY DEF Life, Thread, Phase, InCall
  <2>2. Released \in 0 .. 3 /\ Drawn \in 0 .. 2
      BY DEF Released, Drawn, Unit
  <2>3. written \in 0 .. MaxItems /\ seq \in 0 .. NumCalls /\ written \in Nat /\ seq \in Nat
      BY <1>1, OrderedMapSessionAssumption DEF TypeOK
  <2> QED BY <2>1, <2>2, <2>3 DEF SpentTyped
<1>2. ASSUME TypeOK' PROVE SpentTyped'
  <2>1. Life' \in 0 .. 2 /\ Thread' \in 0 .. 2 /\ Phase' \in 0 .. 9 /\ InCall' \in 0 .. 3
      BY DEF Life, Thread, Phase, InCall
  <2>2. Released' \in 0 .. 3 /\ Drawn' \in 0 .. 2
      BY DEF Released, Drawn, Unit
  <2>3. written' \in 0 .. MaxItems /\ seq' \in 0 .. NumCalls /\ written' \in Nat /\ seq' \in Nat
      BY <1>2, OrderedMapSessionAssumption DEF TypeOK
  <2> QED BY <2>1, <2>2, <2>3 DEF SpentTyped
<1> QED BY <1>1, <1>2

(* A step of the child's side.                                             *)
LEMMA ChildSpends ==
  ASSUME TypeOK, TypeOK', DrainEnds \/ ChildStep
  PROVE  Spent < Spent'
<1>1. SpentTyped /\ SpentTyped'
    BY SpentParts
<1>2. Phase' = Phase /\ seq' = seq /\ InCall' = InCall /\ eof' = eof
    BY DEF DrainEnds, ChildStep, ChildWrite, ChildClose, ChildExit, HolderExit, input, Phase, InCall
<1>3. \/ Life' = Life + 1 /\ Thread' = Thread /\ written' = written /\ Drawn' = Drawn
      \/ Life' = Life /\ Released < Released' /\ Thread' = Thread /\ written' = written /\ Drawn' = Drawn
      \/ Life' = Life /\ Released' = Released /\ Thread < Thread' /\ written' = written /\ Drawn' = Drawn
      \/ Life' = Life /\ Released' = Released /\ Thread' = Thread /\ written' = written + 1
         /\ Drawn <= Drawn' + 1
  <2>1. CASE DrainEnds
      BY <1>2, <2>1 DEF DrainEnds, childVars, streams, history, Life, Released, Thread, Drawn
  <2>2. CASE ChildWrite
    <3>1. Drawn <= Drawn' + 1
        BY <1>2 DEF Drawn, Unit
    <3> QED BY <2>2, <3>1 DEF ChildWrite, streams, history, Life, Released, Thread
  <2>3. CASE HolderExit
      BY <1>2, <2>3 DEF HolderExit, history, Life, Released, Thread, Drawn, Unit
  <2>4. ASSUME NEW fd \in {"stdin", "stdout"}, ChildClose(fd)
        PROVE  Life' = Life /\ Released < Released' /\ Thread' = Thread /\ written' = written /\ Drawn' = Drawn
      BY <1>2, <2>4 DEF ChildClose, history, Life, Released, Thread, Drawn, Unit
  <2>5. ASSUME NEW status \in {"zero", "nonzero"}, ChildExit(status)
        PROVE  Life' = Life + 1 /\ Thread' = Thread /\ written' = written /\ Drawn' = Drawn
      BY <1>2, <2>5 DEF ChildExit, history, Life, Thread, Drawn
  <2> QED BY <2>1, <2>2, <2>3, <2>4, <2>5 DEF ChildStep
<1>4. Spent' = Weight(Life', Released', Thread', written', Drawn', Phase, seq, InCall)
    BY <1>2 DEF Spent
<1>5. PICK l2 \in 0 .. 2, r2 \in 0 .. 3, t2 \in 0 .. 2, w2 \in Nat, d2 \in 0 .. 2 :
        l2 = Life' /\ r2 = Released' /\ t2 = Thread' /\ w2 = written' /\ d2 = Drawn'
    BY <1>1 DEF SpentTyped
<1>6. Weight(Life, Released, Thread, written, Drawn, Phase, seq, InCall)
        < Weight(l2, r2, t2, w2, d2, Phase, seq, InCall)
  <2>1. \/ l2 = Life + 1 /\ t2 = Thread /\ w2 = written /\ d2 = Drawn
        \/ l2 = Life /\ Released < r2 /\ t2 = Thread /\ w2 = written /\ d2 = Drawn
        \/ l2 = Life /\ r2 = Released /\ Thread < t2 /\ w2 = written /\ d2 = Drawn
        \/ l2 = Life /\ r2 = Released /\ t2 = Thread /\ w2 = written + 1 /\ Drawn <= d2 + 1
      BY <1>3, <1>5
  <2>2. Life \in 0 .. 2 /\ Released \in 0 .. 3 /\ Thread \in 0 .. 2 /\ written \in Nat
        /\ Drawn \in 0 .. 2 /\ Phase \in 0 .. 9 /\ seq \in Nat /\ InCall \in 0 .. 3
      BY <1>1 DEF SpentTyped
  <2> QED BY <2>1, <2>2 DEF Weight
<1> QED BY <1>4, <1>5, <1>6 DEF Spent

(* A step of the runner.                                                   *)
LEMMA RunnerSpends ==
  ASSUME TypeOK, TypeOK', NotStarted, RunnerStep
  PROVE  Spent < Spent'
<1>1. SpentTyped /\ SpentTyped'
    BY SpentParts
<1>2. CASE Start \/ Kill
  <2>1. \/ pc = "start" /\ pc' = "call" /\ Life = 0 /\ Life' = 1
        \/ pc = "grace" /\ pc' = "stderr" /\ Life = 1 /\ Life' = 2
      BY <1>2 DEF Start, Kill, GoTo, Life, NotStarted
  <2>2. seq' = seq /\ written' = written /\ Drawn' = Drawn
      BY <1>2 DEF Start, Kill, history, input, Drawn
  <2>3. Life' = Life + 1 /\ Phase < Phase' /\ InCall = InCall'
      BY <2>1 DEF Phase, InCall, Asked
  <2>4. Spent' = Weight(Life', Released', Thread', written, Drawn, Phase', seq, InCall')
      BY <2>2 DEF Spent
  <2>5. PICK l2 \in 0 .. 2, r2 \in 0 .. 3, t2 \in 0 .. 2, p2 \in 0 .. 9, c2 \in 0 .. 3 :
          l2 = Life' /\ r2 = Released' /\ t2 = Thread' /\ p2 = Phase' /\ c2 = InCall'
      BY <1>1 DEF SpentTyped
  <2>6. Weight(Life, Released, Thread, written, Drawn, Phase, seq, InCall)
          < Weight(l2, r2, t2, written, Drawn, p2, seq, c2)
    <3>1. l2 = Life + 1 /\ Phase < p2 /\ InCall = c2
        BY <2>3, <2>5
    <3> QED BY <1>1, <3>1 DEF SpentTyped, Weight
  <2> QED BY <2>4, <2>5, <2>6 DEF Spent
<1>3. CASE ReadChunk \/ ReadEof
  <2>1. Life' = Life /\ Released' = Released /\ Thread' = Thread /\ written' = written
        /\ Phase' = Phase /\ seq' = seq /\ InCall' = InCall
      BY <1>3 DEF ReadChunk, ReadEof, childVars, streams, history, Life, Released, Thread, Phase, InCall
  <2>2. Drawn < Drawn'
      BY <1>3 DEF ReadChunk, ReadEof, Readable, childVars, streams, history, Drawn, Unit
  <2>3. Spent' = Weight(Life, Released, Thread, written, Drawn', Phase, seq, InCall)
      BY <2>1 DEF Spent
  <2>4. PICK d2 \in 0 .. 2 : d2 = Drawn'
      BY <1>1 DEF SpentTyped
  <2>5. Weight(Life, Released, Thread, written, Drawn, Phase, seq, InCall)
          < Weight(Life, Released, Thread, written, d2, Phase, seq, InCall)
    <3>1. Drawn < d2
        BY <2>2, <2>4
    <3> QED BY <1>1, <3>1 DEF SpentTyped, Weight
  <2> QED BY <2>3, <2>4, <2>5 DEF Spent
<1>4. CASE ~(Start \/ Kill \/ ReadChunk \/ ReadEof)
  <2>1. /\ UNCHANGED <<child, fds, held, history>>
        /\ UNCHANGED drainer \/ drainer' = "ended"
        /\ UNCHANGED <<pipe, eof>> \/ LookTakes
      BY <1>4 DEF RunnerStep, StartFails, OutputBefore, QuietBefore, WriteRequest, CampaignDone,
             ReceiveTimeout, ReceiveEof, Receive, JudgeFirst, ExtraAfter, Accept, Classify,
             ClassifyTimeout, CloseStdin, DrainTimeout, DrainExtra, DrainClean, WaitExit, WaitTimeout,
             Poll, GraceExit, CloseStreams, Report, childVars, streams, input
  <2>2. \/ pc = "peek" /\ pc' \in {"call", "close"} /\ seq' = seq + 1
        \/ /\ seq' = seq
           /\ \/ pc = "start" /\ pc' = "report"
              \/ pc = "call" /\ pc' \in {"write", "close"}
              \/ pc = "write" /\ pc' \in {"read", "classify"}
              \/ pc = "read" /\ pc' \in {"second", "peek", "classify", "close"}
              \/ pc \in {"second", "peek", "classify"} /\ pc' = "close"
              \/ pc = "close" /\ pc' = "drain"
              \/ pc = "drain" /\ pc' \in {"wait", "poll"}
              \/ pc = "wait" /\ pc' = "poll"
              \/ pc = "poll" /\ pc' \in {"grace", "stderr"}
              \/ pc = "grace" /\ pc' = "stderr"
              \/ pc = "stderr" /\ pc' = "report"
              \/ pc = "report" /\ pc' = "done"
      BY <1>4 DEF RunnerStep, StartFails, OutputBefore, QuietBefore, WriteRequest, CampaignDone,
             ReceiveTimeout, ReceiveEof, Receive, JudgeFirst, ExtraAfter, Accept, Classify,
             ClassifyTimeout, CloseStdin, DrainTimeout, DrainExtra, DrainClean, WaitExit, WaitTimeout,
             Poll, GraceExit, CloseStreams, Report, FailWith, CloseWith, GoTo, AfterPoll
  <2>3. \/ Phase < Phase' /\ seq <= seq'
        \/ Phase = Phase' /\ seq < seq'
        \/ Phase = Phase' /\ seq = seq' /\ InCall < InCall'
      BY <1>1, <2>2 DEF Phase, InCall, Asked, SpentTyped
  <2>4. Life' = Life /\ Released' = Released /\ written' = written
      BY <2>1 DEF Life, Released, history
  <2>5. Thread <= Thread'
      BY <2>1 DEF TypeOK, Thread
  <2>6. Drawn <= Drawn'
      BY <2>1 DEF TypeOK, LookTakes, Readable, Drawn, Unit
  <2>7. PICK t2 \in 0 .. 2, d2 \in 0 .. 2, p2 \in 0 .. 9, q2 \in Nat, c2 \in 0 .. 3 :
          t2 = Thread' /\ d2 = Drawn' /\ p2 = Phase' /\ q2 = seq' /\ c2 = InCall'
      BY <1>1 DEF SpentTyped
  <2>8. Weight(Life, Released, Thread, written, Drawn, Phase, seq, InCall)
          < Weight(Life, Released, t2, written, d2, p2, q2, c2)
    <3>1. \/ Phase < p2 /\ seq <= q2
          \/ Phase = p2 /\ seq < q2
          \/ Phase = p2 /\ seq = q2 /\ InCall < c2
        BY <2>3, <2>7
    <3>2. Thread <= t2 /\ Drawn <= d2
        BY <2>5, <2>6, <2>7
    <3> QED BY <1>1, <3>1, <3>2 DEF SpentTyped, Weight
  <2> QED BY <2>4, <2>7, <2>8 DEF Spent
<1> QED BY <1>2, <1>3, <1>4

(* A session has only so many steps, whoever makes them and in whatever    *)
(* order: each call, each piece of output, each way the child can leave    *)
(* and each stage of close() uses up some of a number that has a bound, so *)
(* that no loop of _Session goes round for ever.  The bound grows with the *)
(* output; what ends the reading of a child that writes without end is the *)
(* deadline.                                                               *)
THEOREM SessionIsFinite == Spec => [](Spent \in 0 .. Most) /\ [][Spent < Spent']_vars
<1>1. IInv => Spent \in 0 .. Most
  <2> SUFFICES ASSUME IInv PROVE Spent \in 0 .. Most
      OBVIOUS
  <2>1. SpentTyped
      BY SpentParts DEF IInv
  <2> QED BY <2>1, WeightBound, OrderedMapSessionAssumption DEF Spent, Most, SpentTyped
<1>2. IInv /\ IInv' /\ [Next]_vars => [Spent < Spent']_vars
  <2> SUFFICES ASSUME IInv, IInv', Next PROVE Spent < Spent'
      OBVIOUS
  <2>1. TypeOK /\ TypeOK' /\ NotStarted
      BY DEF IInv
  <2> QED BY <2>1, RunnerSpends, ChildSpends DEF Next
<1> QED BY <1>1, <1>2, SpecIInv, PTL DEF Spec

-----------------------------------------------------------------------------
(* The campaign, run_ordered_map_conformance over such a session: what it  *)
(* counts is what was answered.                                            *)
CONSTANT Modes
VARIABLES mode, adapter, stage, case, bindings, answered, cases, global, events, failed, report

Run == INSTANCE OrderedMapCampaign WITH pc <- stage, seq <- answered, result <- report

(* How often the first n steps of a case observe a declaration.            *)
Times(c, n, d) == Cardinality({i \in 1 .. n : d \in Run!ObservedBy(Run!Plan[c][i])})

(* The steps of a case that were answered.                                *)
Made(c) ==
  IF c < case THEN Len(Run!Plan[c]) ELSE IF c = case THEN Len(bindings) ELSE 0

(* The tallies of the cases are those of the steps made, and the tally of  *)
(* a declaration is what those of the cases come to.                       *)
TalliesKept ==
  /\ DOMAIN cases = DOMAIN Run!Plan
  /\ \A c \in DOMAIN Run!Plan : DOMAIN cases[c] = Run!DeclarationsOf(Run!Plan[c])
  /\ DOMAIN global = Run!Declarations

(* How often each was observed, and whether with a cause.                  *)
CountsRight ==
  /\ \A c \in DOMAIN Run!Plan : \A d \in Run!DeclarationsOf(Run!Plan[c]) :
       cases[c][d].count = Times(c, Made(c), d)
  /\ \A d \in Run!Declarations : global[d].count \in Nat
  /\ \A c \in DOMAIN Run!Plan : \A d \in Run!DeclarationsOf(Run!Plan[c]) :
       cases[c][d].count <= global[d].count
  /\ global[Run!Effects].count = answered

BlamedTogether ==
  \A d \in Run!Declarations :
    global[d].causes # {} <=>
      \E c \in DOMAIN Run!Plan : d \in Run!DeclarationsOf(Run!Plan[c]) /\ cases[c][d].causes # {}

(* Where the campaign is; one that did not fail leaves its loop only after *)
(* the last step of the last case.                                         *)
Placed ==
  /\ stage \in {"capture", "cases", "close", "summary", "done"}
  /\ failed \in {"no", "plan", "session", "adapter"}
  /\ case \in DOMAIN Run!Plan
  /\ \E S : bindings \in Seq(S)
  /\ Len(bindings) <= Len(Run!Plan[case])
  /\ answered \in Nat
  /\ failed = "plan" => stage = "done" /\ report = "error"
  /\ failed # "no" => stage \notin {"capture", "cases"}
  /\ failed = "no" /\ stage \notin {"capture", "cases"} =>
       case = Len(Run!Plan) /\ Len(bindings) = Len(Run!Plan[case])
  /\ stage # "done" => report = "none"
  /\ stage = "done" /\ failed # "plan" => report = Run!Summary

CampaignInv ==
  /\ Placed
  /\ failed # "plan" => TalliesKept /\ CountsRight /\ BlamedTogether

(* What is used of the plan: it has cases, and each has steps.             *)
LEMMA PlanShape ==
  /\ Len(Run!Plan) \in Nat \ {0} /\ DOMAIN Run!Plan = 1 .. Len(Run!Plan)
  /\ \A c \in DOMAIN Run!Plan : Len(Run!Plan[c]) \in Nat \ {0} /\ DOMAIN Run!Plan[c] = 1 .. Len(Run!Plan[c])
<1>1. Len(Run!Plan) = 7 /\ DOMAIN Run!Plan = 1 .. 7
    BY DEF Run!Plan
<1>2. ASSUME NEW c \in 1 .. 7
      PROVE  Len(Run!Plan[c]) \in Nat \ {0} /\ DOMAIN Run!Plan[c] = 1 .. Len(Run!Plan[c])
  <2>1. CASE c = 1 BY <2>1 DEF Run!Plan
  <2>2. CASE c = 2 BY <2>2 DEF Run!Plan
  <2>3. CASE c = 3 BY <2>3 DEF Run!Plan
  <2>4. CASE c = 4 BY <2>4 DEF Run!Plan
  <2>5. CASE c = 5 BY <2>5 DEF Run!Plan
  <2>6. CASE c = 6 BY <2>6 DEF Run!Plan
  <2>7. CASE c = 7 BY <2>7 DEF Run!Plan
  <2> QED BY <2>1, <2>2, <2>3, <2>4, <2>5, <2>6, <2>7
<1> QED BY <1>1, <1>2

(* The declarations of a case are what its steps observe.                  *)
LEMMA CaseDeclares ==
  ASSUME NEW c \in DOMAIN Run!Plan
  PROVE  /\ Run!DeclarationsOf(Run!Plan[c]) \subseteq Run!Declarations
         /\ Run!Effects \in Run!DeclarationsOf(Run!Plan[c])
         /\ \A i \in 1 .. Len(Run!Plan[c]) : Run!ObservedBy(Run!Plan[c][i]) \subseteq Run!DeclarationsOf(Run!Plan[c])
         /\ \A d \in Run!DeclarationsOf(Run!Plan[c]) :
              \E i \in 1 .. Len(Run!Plan[c]) : d \in Run!ObservedBy(Run!Plan[c][i])
<1>1. Len(Run!Plan[c]) \in Nat \ {0} /\ DOMAIN Run!Plan[c] = 1 .. Len(Run!Plan[c])
    BY PlanShape
<1>2. Run!DeclarationsOf(Run!Plan[c]) \subseteq Run!Declarations
    BY DEF Run!Declarations
<1> DEFINE steps == Run!Plan[c]
<1>3. \A d : d \in Run!DeclarationsOf(steps) <=>
        d = Run!Effects \/ \E i \in DOMAIN steps : d \in steps[i].declarations
    BY DEF Run!DeclarationsOf
<1>4. \A i, d : d \in Run!ObservedBy(steps[i]) <=> d \in steps[i].declarations \/ d = Run!Effects
    BY DEF Run!ObservedBy
<1> HIDE DEF steps
<1>5. 1 \in 1 .. Len(Run!Plan[c])
    BY <1>1
<1> QED BY <1>1, <1>2, <1>3, <1>4, <1>5 DEF steps

(* The campaign counts as this module does.                                *)
LEMMA SameCount == \A S : Run!Cardinality(S) = Cardinality(S)
BY DEF Run!Cardinality, Cardinality

(* One more step.                                                          *)
LEMMA TimesOneMore ==
  ASSUME NEW c, NEW n \in Nat, NEW d
  PROVE  /\ Times(c, n, d) \in Nat
         /\ Times(c, 0, d) = 0
         /\ Times(c, n + 1, d) = Times(c, n, d) + (IF d \in Run!ObservedBy(Run!Plan[c][n + 1]) THEN 1 ELSE 0)
         /\ (\E i \in 1 .. n : d \in Run!ObservedBy(Run!Plan[c][i])) => Times(c, n, d) > 0
<1> DEFINE Of(m) == {i \in 1 .. m : d \in Run!ObservedBy(Run!Plan[c][i])}
<1>1. \A m \in Nat : IsFiniteSet(Of(m)) /\ Cardinality(Of(m)) \in Nat
  <2> SUFFICES ASSUME NEW m \in Nat PROVE IsFiniteSet(Of(m)) /\ Cardinality(Of(m)) \in Nat
      OBVIOUS
  <2>1. IsFiniteSet(1 .. m)
      BY FS_Interval
  <2>2. Of(m) \subseteq 1 .. m
      OBVIOUS
  <2> QED BY <2>1, <2>2, FS_Subset, FS_CardinalityType
<1>2. Of(0) = {}
    OBVIOUS
<1>3. n + 1 \notin Of(n)
    OBVIOUS
<1>4. Of(n + 1) = IF d \in Run!ObservedBy(Run!Plan[c][n + 1]) THEN Of(n) \cup {n + 1} ELSE Of(n)
    OBVIOUS
<1>5. Cardinality(Of(n) \cup {n + 1}) = Cardinality(Of(n)) + 1
    BY <1>1, <1>3, FS_AddElement
<1>6. Of(n) # {} => Cardinality(Of(n)) > 0
    BY <1>1, FS_EmptySet
<1>7. Cardinality({}) = 0
    BY FS_EmptySet
<1>8. Cardinality(Of(n + 1)) = Cardinality(Of(n)) + (IF d \in Run!ObservedBy(Run!Plan[c][n + 1]) THEN 1 ELSE 0)
  <2>1. CASE d \in Run!ObservedBy(Run!Plan[c][n + 1])
    <3>1. Of(n + 1) = Of(n) \cup {n + 1}
        BY <1>4, <2>1
    <3> HIDE DEF Of
    <3> QED BY <1>5, <2>1, <3>1
  <2>2. CASE d \notin Run!ObservedBy(Run!Plan[c][n + 1])
    <3>1. Of(n + 1) = Of(n)
        BY <1>4, <2>2
    <3>2. Cardinality(Of(n)) \in Nat
        BY <1>1
    <3> HIDE DEF Of
    <3> QED BY <2>2, <3>1, <3>2
  <2> QED BY <2>1, <2>2
<1>9. (\E i \in 1 .. n : d \in Run!ObservedBy(Run!Plan[c][i])) => Of(n) # {}
    OBVIOUS
<1> HIDE DEF Of
<1> QED BY <1>1, <1>2, <1>6, <1>7, <1>8, <1>9 DEF Times, Of

(* The campaign begins with nothing observed.                              *)
LEMMA CampaignInit == Run!Init => CampaignInv
<1> SUFFICES ASSUME Run!Init PROVE CampaignInv
    OBVIOUS
<1>1. 1 \in DOMAIN Run!Plan /\ Len(Run!Plan[1]) \in Nat
    BY PlanShape
<1>2. bindings = <<>> /\ Len(bindings) = 0 /\ bindings \in Seq({})
    BY DEF Run!Init
<1>3. Placed
    BY <1>1, <1>2 DEF Run!Init, Placed
<1>4. \A c \in DOMAIN Run!Plan : Made(c) = 0
    BY <1>2, PlanShape DEF Run!Init, Made
<1>5. TalliesKept
    BY DEF Run!Init, TalliesKept
<1>6. \A c \in DOMAIN Run!Plan : \A d \in Run!DeclarationsOf(Run!Plan[c]) :
        cases[c][d] = Run!Unobserved /\ d \in Run!Declarations
    BY CaseDeclares DEF Run!Init
<1>7. \A d \in Run!Declarations : global[d] = Run!Unobserved
    BY DEF Run!Init
<1>8. Run!Unobserved.count = 0 /\ Run!Unobserved.causes = {}
    BY DEF Run!Unobserved
<1>9. \A c, d : Times(c, 0, d) = 0
    BY TimesOneMore
<1>10. CountsRight
  <2>1. Run!Effects \in Run!Declarations
      BY <1>1, CaseDeclares
  <2> QED BY <1>4, <1>6, <1>7, <1>8, <1>9, <2>1 DEF CountsRight, Run!Init
<1>11. BlamedTogether
    BY <1>6, <1>7, <1>8 DEF BlamedTogether
<1> QED BY <1>3, <1>5, <1>10, <1>11 DEF CampaignInv

(* Steps that observe nothing leave the tallies what they were.            *)
LEMMA TalliesStay ==
  ASSUME TalliesKept, CountsRight, BlamedTogether, UNCHANGED <<cases, global, answered>>,
         \A c \in DOMAIN Run!Plan : Made(c)' = Made(c)
  PROVE  TalliesKept' /\ CountsRight' /\ BlamedTogether'
BY DEF TalliesKept, CountsRight, BlamedTogether

(* A step of a case is counted of each declaration it observes, in the     *)
(* case and over all of them, and with the same causes.                    *)
LEMMA InvokeTallies ==
  ASSUME Placed, TalliesKept, CountsRight, BlamedTogether, Run!Invoke
  PROVE  TalliesKept' /\ CountsRight' /\ BlamedTogether'
<1> DEFINE a == Run!Answered
           n == Len(bindings)
           of == Run!ObservedBy(Run!Current)
           k(d) == Run!CausesFor(d, a)
<1>1. /\ case \in DOMAIN Run!Plan /\ n \in Nat /\ n + 1 <= Len(Run!Plan[case])
      /\ Run!Current = Run!Plan[case][n + 1]
      /\ case' = case /\ Len(bindings') = n + 1
    BY DEF Placed, Run!Invoke, Run!InCase, Run!Current, Run!Steps, Run!At
<1>2. of \subseteq Run!DeclarationsOf(Run!Plan[case]) /\ Run!Effects \in of
  <2>1. n + 1 \in 1 .. Len(Run!Plan[case])
      BY <1>1, PlanShape
  <2> QED BY <1>1, <2>1, CaseDeclares DEF Run!ObservedBy
<1>3. /\ DOMAIN cases' = DOMAIN Run!Plan
      /\ \A c \in DOMAIN Run!Plan : c # case => cases'[c] = cases[c]
      /\ cases'[case] = Run!Observe(cases[case], a)
      /\ global' = Run!Observe(global, a)
      /\ answered' = answered + 1
    BY <1>1 DEF Run!Invoke, TalliesKept
<1>4. ASSUME NEW t
      PROVE  /\ DOMAIN Run!Observe(t, a) = DOMAIN t
             /\ \A d \in DOMAIN t :
                  /\ d \in of => /\ Run!Observe(t, a)[d].count = t[d].count + 1
                                 /\ Run!Observe(t, a)[d].causes = t[d].causes \cup k(d)
                  /\ d \notin of => Run!Observe(t, a)[d] = t[d]
    BY DEF Run!Observe, Run!Noted
<1> HIDE DEF a, of, k
<1>5. TalliesKept'
    BY <1>1, <1>3, <1>4 DEF TalliesKept
<1>6. /\ \A c \in DOMAIN Run!Plan : c = case => Made(c) = n /\ Made(c)' = n + 1
      /\ \A c \in DOMAIN Run!Plan : c # case => Made(c)' = Made(c)
    BY <1>1, PlanShape DEF Made
<1>7. ASSUME NEW c \in DOMAIN Run!Plan, NEW d \in Run!DeclarationsOf(Run!Plan[c])
      PROVE  /\ d \in Run!Declarations
             /\ cases'[c][d].count = Times(c, Made(c)', d)
             /\ cases'[c][d].count <= global'[d].count
             /\ cases'[c][d].causes # {} <=>
                  cases[c][d].causes # {} \/ (c = case /\ d \in of /\ k(d) # {})
  <2>1. d \in Run!Declarations
      BY CaseDeclares
  <2>2. /\ cases[c][d].count = Times(c, Made(c), d) /\ cases[c][d].count <= global[d].count
        /\ global[d].count \in Nat
      BY <2>1 DEF CountsRight
  <2>3. cases[c][d].count \in Nat
    <3>1. Made(c) \in Nat
        BY <1>1, PlanShape DEF Made
    <3> QED BY <2>2, <3>1, TimesOneMore
  <2>4. /\ d \in DOMAIN cases[c] /\ d \in DOMAIN global
      BY <2>1 DEF TalliesKept
  <2>5. global'[d].count = global[d].count + (IF d \in of THEN 1 ELSE 0)
      BY <1>3, <1>4, <2>2, <2>4
  <2>6. CASE c # case
      BY <1>3, <1>6, <2>1, <2>2, <2>3, <2>5, <2>6
  <2>7. CASE c = case
    <3>1. cases'[c][d].count = cases[c][d].count + (IF d \in of THEN 1 ELSE 0)
        BY <1>3, <1>4, <2>3, <2>4, <2>7
    <3>2. Times(c, n + 1, d) = Times(c, n, d) + (IF d \in of THEN 1 ELSE 0)
        BY <1>1, <2>7, TimesOneMore DEF of
    <3>3. d \in of => cases'[c][d].causes = cases[c][d].causes \cup k(d)
        BY <1>3, <1>4, <2>4, <2>7
    <3>4. d \notin of => cases'[c][d].causes = cases[c][d].causes
        BY <1>3, <1>4, <2>4, <2>7
    <3>5. cases'[c][d].count = Times(c, Made(c)', d)
        BY <1>6, <2>2, <2>7, <3>1, <3>2
    <3>6. cases'[c][d].count <= global'[d].count
        BY <2>2, <2>3, <2>5, <3>1
    <3>7. cases'[c][d].causes # {} <=>
            cases[c][d].causes # {} \/ (c = case /\ d \in of /\ k(d) # {})
        BY <2>7, <3>3, <3>4
    <3> QED BY <2>1, <3>5, <3>6, <3>7
  <2> QED BY <2>6, <2>7
<1>8. ASSUME NEW d \in Run!Declarations
      PROVE  /\ global'[d].count \in Nat
             /\ global'[d].causes # {} <=> global[d].causes # {} \/ (d \in of /\ k(d) # {})
  <2>1. d \in DOMAIN global /\ global[d].count \in Nat
      BY DEF TalliesKept, CountsRight
  <2> QED BY <1>3, <1>4, <2>1
<1>9. global'[Run!Effects].count = answered'
  <2>1. Run!Effects \in DOMAIN global /\ global[Run!Effects].count = answered
      BY <1>1, CaseDeclares DEF TalliesKept, CountsRight
  <2> QED BY <1>2, <1>3, <1>4, <2>1
<1>10. CountsRight'
    BY <1>7, <1>8, <1>9 DEF CountsRight
<1>11. BlamedTogether'
  <2> SUFFICES ASSUME NEW d \in Run!Declarations
               PROVE  global'[d].causes # {} <=>
                        \E c \in DOMAIN Run!Plan : d \in Run!DeclarationsOf(Run!Plan[c]) /\ cases'[c][d].causes # {}
      BY DEF BlamedTogether
  <2>1. global[d].causes # {} <=>
          \E c \in DOMAIN Run!Plan : d \in Run!DeclarationsOf(Run!Plan[c]) /\ cases[c][d].causes # {}
      BY DEF BlamedTogether
  <2> QED BY <1>1, <1>2, <1>7, <1>8, <2>1
<1> QED BY <1>5, <1>10, <1>11

(* Each step keeps the tallies and the place.                              *)
LEMMA CampaignStep == CampaignInv /\ [Run!Next]_(Run!vars) => CampaignInv'
<1> SUFFICES ASSUME CampaignInv, [Run!Next]_(Run!vars) PROVE CampaignInv'
    OBVIOUS
<1> USE DEF CampaignInv
<1>1. /\ case \in DOMAIN Run!Plan /\ Len(bindings) \in Nat /\ Len(bindings) <= Len(Run!Plan[case])
      /\ Len(Run!Plan[case]) \in Nat \ {0} /\ Len(Run!Plan) \in Nat \ {0} /\ DOMAIN Run!Plan = 1 .. Len(Run!Plan)
    BY PlanShape DEF Placed
<1>2. UNCHANGED <<case, bindings>> => \A c \in DOMAIN Run!Plan : Made(c)' = Made(c)
    BY DEF Made
<1>3. ASSUME Run!Capture \/ Run!AdapterFails \/ Run!SessionFails \/ Run!Close \/ Run!Report \/ UNCHANGED Run!vars
      PROVE  CampaignInv'
  <2>1. /\ UNCHANGED <<case, bindings, cases, global, answered>>
        /\ failed' = "plan" => failed = "plan"
      BY <1>3 DEF Run!Capture, Run!AdapterFails, Run!SessionFails, Run!Close, Run!Report, Run!vars, Run!observed
  <2>2. failed' # "plan" => TalliesKept' /\ CountsRight' /\ BlamedTogether'
    <3>1. CASE failed = "plan"
        BY <1>3, <3>1 DEF Placed, Run!Capture, Run!AdapterFails, Run!SessionFails, Run!Close, Run!Report, Run!vars, Run!InCase
    <3>2. CASE failed # "plan"
        BY <1>2, <2>1, <3>2, TalliesStay
    <3> QED BY <3>1, <3>2
  <2>3. Placed'
    <3>1. CASE Run!Capture
        BY <3>1 DEF Placed, Run!Capture
    <3>2. CASE Run!AdapterFails
        BY <3>2 DEF Placed, Run!AdapterFails, Run!InCase
    <3>3. CASE Run!SessionFails
        BY <3>3 DEF Placed, Run!SessionFails, Run!InCase
    <3>4. CASE Run!Close
        BY <3>4 DEF Placed, Run!Close
    <3>5. CASE Run!Report
        BY <3>5 DEF Placed, Run!Report, Run!Summary, Run!Outcomes, Run!observed
    <3>6. CASE UNCHANGED Run!vars
        BY <3>6 DEF Placed, Run!vars, Run!Summary, Run!Outcomes, Run!observed
    <3> QED BY <1>3, <3>1, <3>2, <3>3, <3>4, <3>5, <3>6
  <2> QED BY <2>2, <2>3
<1>4. CASE Run!PlanNotAuthentic
    BY <1>4 DEF Run!PlanNotAuthentic, Placed
<1>5. CASE Run!Invoke
  <2>1. failed # "plan" /\ failed' # "plan"
      BY <1>5 DEF Run!Invoke, Run!InCase, Placed
  <2>2. TalliesKept' /\ CountsRight' /\ BlamedTogether'
      BY <1>5, <2>1, InvokeTallies
  <2>3. (\E S : bindings' \in Seq(S)) /\ Len(bindings') = Len(bindings) + 1
    <3>1. PICK S : bindings \in Seq(S)
        BY DEF Placed
    <3>2. bindings \in Seq(S \cup {Run!Answered.handle})
        BY <3>1
    <3>3. bindings' \in Seq(S \cup {Run!Answered.handle})
        BY <1>5, <3>2 DEF Run!Invoke
    <3> QED BY <1>5, <3>1, <3>3 DEF Run!Invoke
  <2>4. Placed'
      BY <1>1, <1>5, <2>3 DEF Placed, Run!Invoke, Run!InCase, Run!At, Run!Steps
  <2> QED BY <2>2, <2>4
<1>6. CASE Run!NextCase
  <2>1. Len(bindings) = Len(Run!Plan[case]) /\ failed # "plan" /\ failed' = failed
      BY <1>1, <1>6 DEF Run!NextCase, Run!At, Run!Steps, Placed
  <2>2. CASE case = Len(Run!Plan)
    <3>1. UNCHANGED <<case, bindings, cases, global, answered>> /\ stage' = "close"
        BY <1>6, <2>2 DEF Run!NextCase, Run!observed
    <3>2. Placed'
        BY <1>1, <1>6, <2>1, <2>2, <3>1 DEF Run!NextCase, Placed
    <3> QED BY <1>2, <2>1, <3>1, <3>2, TalliesStay
  <2>3. CASE case # Len(Run!Plan)
    <3>1. /\ UNCHANGED <<stage, cases, global, answered>> /\ case' = case + 1 /\ bindings' = <<>>
          /\ case + 1 \in DOMAIN Run!Plan
        BY <1>1, <1>6, <2>3 DEF Run!NextCase, Run!observed
    <3>2. Len(bindings') = 0 /\ \E S : bindings' \in Seq(S)
        BY <3>1
    <3>3. \A c \in DOMAIN Run!Plan : Made(c)' = Made(c)
        BY <1>1, <2>1, <3>1, <3>2 DEF Made
    <3>4. Placed'
        BY <1>6, <2>1, <3>1, <3>2, PlanShape DEF Run!NextCase, Placed
    <3> QED BY <2>1, <3>1, <3>3, <3>4, TalliesStay
  <2> QED BY <2>2, <2>3
<1> QED BY <1>3, <1>4, <1>5, <1>6 DEF Run!Next

(* What is reported at the end is of the whole campaign.                   *)
LEMMA WholeIfPlaced == CampaignInv => Run!ReportIsWhole
<1> SUFFICES ASSUME CampaignInv PROVE Run!ReportIsWhole
    OBVIOUS
<1>1. failed # "no" /\ report # "none" => report = "error"
    BY DEF CampaignInv, Placed, Run!Summary
<1>2. ASSUME report \in {"supports", "challenges", "inconclusive"}
      PROVE  /\ failed = "no"
             /\ report # "inconclusive"
             /\ \A c \in DOMAIN Run!Plan : \A d \in Run!DeclarationsOf(Run!Plan[c]) :
                  cases[c][d].count =
                    Run!Cardinality({i \in DOMAIN Run!Plan[c] : d \in Run!ObservedBy(Run!Plan[c][i])})
             /\ global[Run!Effects].count = answered
             /\ Run!Challenged(global) = UNION {Run!Challenged(cases[c]) : c \in DOMAIN cases}
  <2>1. failed = "no" /\ stage = "done" /\ report = Run!Summary
      BY <1>1, <1>2 DEF CampaignInv, Placed
  <2>2. TalliesKept /\ CountsRight /\ BlamedTogether
      BY <2>1 DEF CampaignInv
  <2>3. \A c \in DOMAIN Run!Plan : Made(c) = Len(Run!Plan[c]) /\ Len(Run!Plan[c]) \in Nat /\ DOMAIN Run!Plan[c] = 1 .. Len(Run!Plan[c])
      BY <2>1, PlanShape DEF CampaignInv, Placed, Made
  <2>4. ASSUME NEW c \in DOMAIN Run!Plan, NEW d \in Run!DeclarationsOf(Run!Plan[c])
        PROVE  /\ cases[c][d].count = Times(c, Len(Run!Plan[c]), d)
               /\ cases[c][d].count \in Nat /\ cases[c][d].count > 0
    <3>1. cases[c][d].count = Times(c, Len(Run!Plan[c]), d)
        BY <2>2, <2>3 DEF CountsRight
    <3>2. \E i \in 1 .. Len(Run!Plan[c]) : d \in Run!ObservedBy(Run!Plan[c][i])
        BY CaseDeclares
    <3>3. Times(c, Len(Run!Plan[c]), d) \in Nat /\ Times(c, Len(Run!Plan[c]), d) > 0
        BY <2>3, <3>2, TimesOneMore
    <3> QED BY <3>1, <3>3
  <2>5. \A d \in Run!Declarations : global[d].count > 0
    <3> TAKE d \in Run!Declarations
    <3>1. PICK c \in DOMAIN Run!Plan : d \in Run!DeclarationsOf(Run!Plan[c])
        BY DEF Run!Declarations
    <3> QED BY <2>2, <2>4, <3>1 DEF CountsRight
  <2>6. Run!Outcomes \subseteq {"challenges", "supports"}
      BY <2>2, <2>5 DEF Run!Outcomes, Run!Frozen, TalliesKept
  <2>7. Run!Outcomes # {}
    <3>1. Run!Effects \in Run!Declarations
        BY CaseDeclares, PlanShape
    <3> QED BY <2>2, <3>1 DEF Run!Outcomes, TalliesKept
  <2>8. report # "inconclusive"
      BY <2>1, <2>6, <2>7 DEF Run!Summary
  <2>9. Run!Challenged(global) = UNION {Run!Challenged(cases[c]) : c \in DOMAIN cases}
    <3>1. \A t : Run!Challenged(t) = {d \in DOMAIN t : t[d].causes # {}}
        BY DEF Run!Challenged, Run!Frozen
    <3> QED BY <2>2, <3>1, CaseDeclares DEF TalliesKept, BlamedTogether
  <2> QED BY <2>1, <2>2, <2>3, <2>4, <2>8, <2>9, SameCount DEF CountsRight, Times
<1> QED BY <1>1, <1>2 DEF Run!ReportIsWhole

(* ReportIsWhole of OrderedMapCampaign, whatever the adapter answers: an   *)
(* execution error is never reported as a semantic result, and a result    *)
(* that is no error is of a campaign in which every request was answered   *)
(* and each declaration observed as often as the plan has it.              *)
THEOREM ReportsWhole == Run!Spec => []Run!ReportIsWhole
<1>1. Run!Init => CampaignInv
    BY CampaignInit
<1>2. CampaignInv /\ [Run!Next]_(Run!vars) => CampaignInv'
    BY CampaignStep
<1>3. CampaignInv => Run!ReportIsWhole
    BY WholeIfPlaced
<1> QED BY <1>1, <1>2, <1>3, PTL DEF Run!Spec

=============================================================================
