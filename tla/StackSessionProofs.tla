-------------------------- MODULE StackSessionProofs --------------------------
(***************************************************************************)
(* For every number of calls, every set of contents a child may write and  *)
(* every bound on its output: the Stack session keeps its types, leaves no *)
(* child running, ends cleanly unless it reports an error, and implements  *)
(* LockstepSession.                                                        *)
(***************************************************************************)
EXTENDS StackSession, ProofLemmas, TLAPS

(* What holds at each point of the runner's control. *)
Opened    == {"call", "read", "peek", "classify"}
Ending    == {"poll", "grace", "stderr", "report", "done"}

NotStarted ==
  pc = "start" => /\ child = "none"
                  /\ held = {}
                  /\ ~eof
                  /\ seq = 0
                  /\ failure = "none"

CallsInOrder ==
  /\ pc \in {"read", "peek", "classify"} => seq < NumCalls
  /\ pc \in Opened => failure = "none"
  /\ (pc \notin Opened \cup {"start"} /\ failure = "none") => seq = NumCalls

(* While there is a child, somebody reads what it writes to stderr.        *)
StderrIsRead == child = "running" => drainer = "reading"

AtEof == eof => pipe = <<>> /\ ~StdoutOpen

ClosedOnce ==
  /\ pc \notin Ending => closure = "none"
  /\ pc = "wait" => eof /\ buffer = <<>>
  /\ (pc \in Ending /\ closure = "none" /\ failure # "PROCESS_START") =>
       child = "zero" /\ eof /\ buffer = <<>>

ReportedOnce ==
  /\ pc # "done" => result = "none"
  /\ pc = "done" => result = Verdict(Failed, marks)

IInv ==
  /\ TypeOK
  /\ lines <= written
  /\ NotStarted
  /\ CallsInOrder
  /\ StderrIsRead
  /\ AtEof
  /\ ClosedOnce
  /\ ReportedOnce
  /\ NothingLeftRunning

-----------------------------------------------------------------------------
(* What the child's side did, as far as the runner still has to find out.  *)

Bad == Unusable \cup {"bad-result"}

(* Output that was written and not accepted, the line being checked first. *)
Waiting == buffer \o pipe
Unread  == IF pc = "peek" THEN <<line>> \o Waiting ELSE Waiting

(* Until the session fails, whatever was wrong in the child's output is    *)
(* still unread, and lines are the lines accepted and those unread.        *)
OrderKept ==
  /\ "malformed" \in faults <=> ~InOrder(Unread, seq, Bad)
  /\ "malformed" \notin faults => LeadsTo(Unread, seq, lines)

RefusalUnread ==
  "refused" \in faults <=> Carries(Unread, "adapter-error")

LinesCounted == lines >= seq /\ (AnyLine(Unread) => lines > seq)

(* Without output nobody asked for, what is unread is part of one answer.  *)
NothingAhead ==
  "unasked" \notin faults =>
    /\ pc \in {"read", "peek"} => OneLine(Unread)
    /\ pc \notin {"read", "peek", "classify"} => Unread = <<>>

LineChecked == pc = "peek" => IsLine(line) /\ EnvelopeCause(line) = "none"

(* How the child left, and which deadlines expired.                        *)
DeadlinesKept == "slow" \in faults => failure = "TIMEOUT" \/ closure = "TIMEOUT"

StatusSeen ==
  /\ "status" \in faults => child = "nonzero"
  /\ child = "nonzero" /\ pc \notin {"grace", "stderr", "report", "done"} => "status" \in faults

StdinKept ==
  /\ pc \in Opened \cup {"start", "close"} => stdinOpen
  /\ pc \in {"drain", "wait", "poll", "grace", "stderr"} => ~stdinOpen

LeftSeen ==
  /\ pc \in Opened => child # "none"
  /\ stdinOpen /\ child # "none" /\ (child # "running" \/ fds # {"stdin", "stdout"})
       => "left" \in faults
  /\ pc = "classify" => "left" \in faults

OutputAccount ==
  failure = "none" => OrderKept /\ RefusalUnread /\ LinesCounted /\ NothingAhead

Account ==
  /\ OutputAccount
  /\ LineChecked
  /\ DeadlinesKept
  /\ StatusSeen
  /\ StdinKept
  /\ LeftSeen
  /\ CausesGrounded

(* Bytes without an LF are a piece of output.                              *)
LEMMA FragmentIsItem == Fragment \in Items
  BY SessionAssumption DEF Fragment, Items

(* Whatever the child writes as its n-th line is a piece of output.        *)
LEMMA WritableIsItem ==
  ASSUME NEW n \in 0 .. MaxItems, NEW item \in Writable(n)
  PROVE  item \in Items
<1> USE SessionAssumption DEF Items
<1>1. CASE item \in [seq : {n}, body : Bodies \cap Enveloped, forbidden : BOOLEAN]
    BY <1>1
<1>2. ASSUME NEW b \in Bodies, NEW m \in {0, NumCalls},
             item = [seq |-> m, body |-> b, forbidden |-> FALSE]
      PROVE  item \in Items
    BY <1>2
<1>3. CASE item = Fragment
    BY <1>3, FragmentIsItem
<1> QED BY <1>1, <1>2, <1>3 DEF Writable

(* The invariant holds before the child is started.                        *)
LEMMA InitIInv == Init => IInv
<1> SUFFICES ASSUME Init PROVE IInv
    OBVIOUS
<1>1. TypeOK
  <2>1. <<>> \in Seq(Items)
      OBVIOUS
  <2>2. 0 \in 0 .. NumCalls /\ 0 \in 0 .. MaxItems
      BY SessionAssumption
  <2> QED
      BY <2>1, <2>2, FragmentIsItem DEF Init, TypeOK, Causes
<1> QED
    BY <1>1 DEF Init, IInv, NotStarted, CallsInOrder, StderrIsRead, AtEof, ClosedOnce,
       ReportedOnce, NothingLeftRunning, Opened, Ending, StdoutOpen

(* One step of the proof per action: each says which parts of the          *)
(* invariant its assignments reach.                                        *)
LEMMA StepIInv == IInv /\ [Next]_vars => IInv'
<1> SUFFICES ASSUME IInv, [Next]_vars PROVE IInv'
    OBVIOUS
<1> USE SessionAssumption DEF IInv, TypeOK, NotStarted, CallsInOrder, StderrIsRead, AtEof, ClosedOnce,
        ReportedOnce, NothingLeftRunning, Opened, Ending, Causes, FailWith, CloseWith,
        Failed, StdoutOpen, childVars, runnerVars
<1>1. CASE Start
    BY <1>1 DEF Start
<1>2. CASE StartFails
    BY <1>2 DEF StartFails
<1>3. CASE Send
    BY <1>3 DEF Send, CallLeft
<1>4. CASE CampaignDone
    BY <1>4 DEF CampaignDone, CallLeft
<1>5. CASE ReadChunk
    BY <1>5 DEF ReadChunk, Reading, HasLine
<1>6. CASE ReadEof
    BY <1>6 DEF ReadEof, Reading
<1>7. CASE ReceiveTimeout
    BY <1>7 DEF ReceiveTimeout, Reading, Expire
<1>8. CASE ReceiveEof
    BY <1>8 DEF ReceiveEof, Reading
<1>9. CASE Receive
    BY <1>9 DEF Receive, EnvelopeCause, EndsLine
<1>10. CASE PeekPending
    BY <1>10 DEF PeekPending, HasPending
<1>11. CASE Accept
    BY <1>11 DEF Accept, HasPending, MarksOf, Judged
<1>12. CASE Classify
    BY <1>12 DEF Classify, ExitCause, Exited
<1>13. CASE ClassifyTimeout
    BY <1>13 DEF ClassifyTimeout
<1>14. CASE CloseStdin
    BY <1>14 DEF CloseStdin
<1>15. CASE DrainTimeout
    BY <1>15 DEF DrainTimeout, Reading, Expire
<1>16. CASE DrainExtra
    BY <1>16 DEF DrainExtra, Leftover
<1>17. CASE DrainClean
    BY <1>17 DEF DrainClean, Leftover, HasLine
<1>18. CASE WaitExit
    BY <1>18 DEF WaitExit, ExitCause, Exited
<1>19. CASE WaitTimeout
    BY <1>19 DEF WaitTimeout, Expire
<1>20. CASE Poll
    BY <1>20 DEF Poll, AfterPoll, Exited
<1>21. CASE GraceExit
    BY <1>21 DEF GraceExit, Exited
<1>22. CASE Kill
    BY <1>22 DEF Kill
<1>23. CASE CloseStderr
    BY <1>23 DEF CloseStderr
<1>24. CASE Report
    BY <1>24 DEF Report, Verdict, Failed
<1>25. CASE ChildWrite
  <2> PICK item \in Writable(lines) :
          /\ pipe' = Append(pipe, item)
          /\ lines' = IF IsLine(item) THEN lines + 1 ELSE lines
      BY <1>25 DEF ChildWrite
  <2>1. item \in Items
      BY WritableIsItem
  <2>2. pipe' \in Seq(Items)
      BY <2>1
  <2> QED
      BY <1>25, <2>2 DEF ChildWrite
<1>26. ASSUME NEW fd \in {"stdin", "stdout"}, ChildClose(fd) PROVE IInv'
    BY <1>26 DEF ChildClose
<1>27. ASSUME NEW status \in {"zero", "nonzero"}, ChildExit(status) PROVE IInv'
    BY <1>27 DEF ChildExit
<1>28. CASE HolderExit
    BY <1>28 DEF HolderExit
<1>29. CASE DrainEnds
    BY <1>29 DEF DrainEnds, NothingMore, StderrOpen, Verdict
<1>30. CASE UNCHANGED vars
    BY <1>30 DEF vars, Verdict
<1> QED BY <1>1, <1>2, <1>3, <1>4, <1>5, <1>6, <1>7, <1>8, <1>9, <1>10, <1>11, <1>12, <1>13, <1>14, <1>15, <1>16, <1>17, <1>18, <1>19, <1>20, <1>21, <1>22, <1>23, <1>24, <1>25, <1>26, <1>27, <1>28, <1>29, <1>30 DEF Next, RunnerStep, ChildStep

(* The invariant holds for ever.                                            *)
LEMMA SpecIInv == Spec => []IInv
<1>1. Init => IInv
    BY InitIInv
<1>2. IInv /\ [Next]_vars => IInv'
    BY StepIInv
<1> QED BY <1>1, <1>2, PTL DEF Spec

(* Every variable of the session keeps its type.                           *)
THEOREM TypeCorrect == Spec => []TypeOK
<1>1. IInv => TypeOK
    BY DEF IInv
<1> QED BY <1>1, SpecIInv, PTL

(* The child never waits for room in its stderr: whatever it writes there, *)
(* and whoever else holds it open, the thread reads as long as it runs.    *)
THEOREM NeverBlocked == Spec => []~Blocked
<1>1. IInv => ~Blocked
    BY DEF IInv, StderrIsRead, Blocked
<1> QED BY <1>1, SpecIInv, PTL

(* No child is left running when the report is made, whatever it does with *)
(* SIGTERM and whenever it ends.                                           *)
THEOREM ChildReaped == Spec => []NothingLeftRunning
<1>1. IInv => NothingLeftRunning
    BY DEF IInv
<1> QED BY <1>1, SpecIInv, PTL

(* A session that is not an error has read its child's output to the end,  *)
(* and the child has ended with status zero.                               *)
THEOREM EndsClean == Spec => []CleanEnd
<1>1. IInv => CleanEnd
  <2> SUFFICES ASSUME IInv, result \in {"supports", "challenges", "inconclusive"}
               PROVE  /\ seq = NumCalls
                      /\ child = "zero"
                      /\ eof
                      /\ ~StdoutOpen
                      /\ buffer = <<>>
                      /\ pipe = <<>>
      BY DEF CleanEnd
  <2>1. pc = "done" /\ failure = "none" /\ closure = "none"
      BY DEF IInv, ReportedOnce, Verdict, Failed
  <2> QED
      BY <2>1 DEF IInv, CallsInOrder, AtEof, ClosedOnce, Opened, Ending
<1> QED BY <1>1, SpecIInv, PTL

-----------------------------------------------------------------------------
(* Nothing is written, taken or accepted in a step, and no failure ends the *)
(* account.                                                                *)
LEMMA OutputUnmoved ==
  ASSUME OutputAccount, failure' = failure, Unread' = Unread, seq' = seq, lines' = lines,
         \A f \in {"malformed", "refused", "unasked"} : f \in faults' <=> f \in faults,
         pc' \in {pc, "classify"} \/ pc \notin {"read", "peek", "classify"}
  PROVE  OutputAccount'
<1> SUFFICES ASSUME failure = "none"
             PROVE  (OrderKept /\ RefusalUnread /\ LinesCounted /\ NothingAhead)'
    BY DEF OutputAccount
<1>1. OrderKept'
    BY DEF OutputAccount, OrderKept
<1>2. RefusalUnread'
    BY DEF OutputAccount, RefusalUnread
<1>3. LinesCounted'
    BY DEF OutputAccount, LinesCounted
<1>4. NothingAhead'
    BY DEF OutputAccount, NothingAhead, OneLine
<1> QED BY <1>1, <1>2, <1>3, <1>4

(* What is unread is a sequence of pieces.                                  *)
LEMMA UnreadIsOutput == IInv => Waiting \in Seq(Items) /\ Unread \in Seq(Items)
<1> SUFFICES ASSUME IInv PROVE Waiting \in Seq(Items) /\ Unread \in Seq(Items)
    OBVIOUS
<1>1. buffer \in Seq(Items) /\ pipe \in Seq(Items) /\ line \in Items
    BY DEF IInv, TypeOK
<1>2. Waiting \in Seq(Items)
    BY <1>1 DEF Waiting
<1> QED BY <1>1, <1>2 DEF Unread

(* What the child writes is added at the end.                               *)
LEMMA WriteAppends ==
  ASSUME IInv, NEW item \in Items, pipe' = Append(pipe, item), UNCHANGED <<pc, line, buffer>>
  PROVE  Unread' = Append(Unread, item)
<1>1. buffer \in Seq(Items) /\ pipe \in Seq(Items) /\ <<line>> \in Seq(Items)
    BY DEF IInv, TypeOK
<1>2. Waiting' = Append(Waiting, item)
  <2>1. Append(pipe, item) = pipe \o <<item>> /\ Append(Waiting, item) = Waiting \o <<item>>
      BY <1>1, UnreadIsOutput, AppendIsConcat
  <2>2. buffer \o (pipe \o <<item>>) = (buffer \o pipe) \o <<item>>
      BY <1>1, ConcatAssociative
  <2> QED BY <2>1, <2>2 DEF Waiting
<1>3. <<line>> \o (Waiting \o <<item>>) = (<<line>> \o Waiting) \o <<item>>
    BY <1>1, UnreadIsOutput, ConcatAssociative
<1>4. \A s \in Seq(Items) : Append(s, item) = s \o <<item>>
    BY AppendIsConcat
<1>5. <<line>> \o Waiting \in Seq(Items)
    BY <1>1, UnreadIsOutput
<1> QED BY <1>2, <1>3, <1>4, <1>5, UnreadIsOutput DEF Unread

(* The child writes: what it does wrong is now unread, and what it is not   *)
(* asked for is noted.                                                      *)
LEMMA WriteAccounted ==
  ASSUME IInv, OutputAccount, LineChecked, ChildWrite
  PROVE  OutputAccount'
<1> SUFFICES ASSUME failure = "none"
             PROVE  (OrderKept /\ RefusalUnread /\ LinesCounted /\ NothingAhead)'
    BY DEF OutputAccount, ChildWrite, runnerVars
<1>1. OrderKept /\ RefusalUnread /\ LinesCounted /\ NothingAhead
    BY DEF OutputAccount
<1> PICK item \in Writable(lines) :
      /\ pipe' = Append(pipe, item)
      /\ lines' = IF IsLine(item) THEN lines + 1 ELSE lines
      /\ faults' = faults
           \cup (IF lines >= Sent THEN {"unasked"} ELSE {})
           \cup (IF IsLine(item) /\ (item.body \in Unusable \cup {"bad-result"} \/ item.seq # lines)
                 THEN {"malformed"} ELSE {})
           \cup (IF item.body = "adapter-error" THEN {"refused"} ELSE {})
    BY DEF ChildWrite
<1>2. UNCHANGED <<pc, line, buffer, seq, failure>>
    BY DEF ChildWrite, runnerVars
<1>3. item \in Items /\ lines \in Nat /\ seq \in Nat
    BY WritableIsItem, SessionAssumption DEF IInv, TypeOK
<1>4. Unread \in Seq(Items) /\ Unread' = Append(Unread, item)
    BY <1>2, <1>3, UnreadIsOutput, WriteAppends
<1>5. /\ "malformed" \in faults' <=>
            "malformed" \in faults \/ (Ends(item) /\ (item.body \in Bad \/ item.seq # lines))
      /\ "refused" \in faults' <=> "refused" \in faults \/ item.body = "adapter-error"
      /\ "unasked" \in faults' <=> "unasked" \in faults \/ lines >= Sent
    BY DEF Bad, IsLine, Ends
<1>6. "fragment" \notin Bad
    BY DEF Bad, Unusable
<1>7. OrderKept'
  <2>1. CASE "malformed" \in faults
    <3>1. ~InOrder(Unread, seq, Bad)
        BY <1>1, <2>1 DEF OrderKept
    <3>2. ~InOrder(Append(Unread, item), seq, Bad)
        BY <1>3, <1>4, <3>1, DisorderStays
    <3> QED BY <1>2, <1>4, <1>5, <2>1, <3>2 DEF OrderKept
  <2>2. CASE "malformed" \notin faults
    <3>1. InOrder(Unread, seq, Bad) /\ LeadsTo(Unread, seq, lines)
        BY <1>1, <2>2 DEF OrderKept
    <3>2. InOrder(Append(Unread, item), seq, Bad)
            <=> (Ends(item) => item.body \notin Bad /\ item.seq = lines)
        BY <1>3, <1>4, <1>6, <3>1, AppendInOrder
    <3>3. "malformed" \notin faults' => LeadsTo(Append(Unread, item), seq, lines')
        BY <1>3, <1>4, <1>5, <3>1, AppendLeadsTo DEF IsLine, Ends
    <3> QED BY <1>2, <1>4, <1>5, <2>2, <3>2, <3>3 DEF OrderKept
  <2> QED BY <2>1, <2>2
<1> DEFINE e == Len(Unread) + 1
<1>8. /\ DOMAIN Unread' = DOMAIN Unread \cup {e}
      /\ \A i \in DOMAIN Unread : Unread'[i] = Unread[i]
      /\ Unread'[e] = item
      /\ Len(Unread') = e /\ Len(Unread) \in Nat /\ DOMAIN Unread = 1 .. Len(Unread)
    BY <1>3, <1>4
<1>9. RefusalUnread'
    BY <1>1, <1>5, <1>8 DEF RefusalUnread, Carries
<1>10. LinesCounted'
  <2>1. lines' >= lines /\ (Ends(item) => lines' = lines + 1)
      BY <1>3 DEF IsLine, Ends
  <2>2. AnyLine(Unread)' => AnyLine(Unread) \/ Ends(item)
      BY <1>8 DEF AnyLine
  <2> QED BY <1>1, <1>2, <1>3, <2>1, <2>2 DEF LinesCounted
<1>11. NothingAhead'
  <2> SUFFICES ASSUME "unasked" \notin faults'
               PROVE  /\ pc \in {"read", "peek"} => OneLine(Unread')
                      /\ pc \notin {"read", "peek", "classify"} => Unread' = <<>>
      BY <1>2 DEF NothingAhead
  <2>1. lines < Sent
      BY <1>3, <1>5 DEF Sent
  <2>2. pc \in {"read", "peek"} /\ ~AnyLine(Unread)
      BY <1>1, <1>3, <2>1 DEF LinesCounted, Sent
  <2>3. OneLine(Unread')
      BY <1>8, <2>2 DEF OneLine, AnyLine
  <2> QED BY <2>2, <2>3
<1> QED BY <1>7, <1>9, <1>10, <1>11

(* A line is taken from the buffer: what came before it ends no line.       *)
LEMMA ReceiveAccounted ==
  ASSUME IInv, OutputAccount, Receive
  PROVE  OutputAccount'
<1>1. SUFFICES ASSUME failure = "none", failure' = "none"
               PROVE  (OrderKept /\ RefusalUnread /\ LinesCounted /\ NothingAhead)'
    BY DEF OutputAccount, Receive, FailWith, EnvelopeCause, IInv, CallsInOrder, Opened
<1>2. OrderKept /\ RefusalUnread /\ LinesCounted /\ NothingAhead
    BY <1>1 DEF OutputAccount
<1>3. PICK f \in DOMAIN buffer :
        /\ EndsLine(buffer, f)
        /\ line' = buffer[f]
        /\ buffer' = SubSeq(buffer, f + 1, Len(buffer))
        /\ pc' = "peek"
    BY <1>1 DEF Receive, FailWith, EnvelopeCause
<1>4. pc = "read" /\ UNCHANGED <<pipe, seq, lines, faults>>
    BY DEF Receive, childVars
<1>5. buffer \in Seq(Items) /\ pipe \in Seq(Items)
    BY DEF IInv, TypeOK
<1>6. Unread = Joined(buffer, pipe) /\ Unread' = Taken(buffer, f, pipe)
    BY <1>3, <1>4 DEF Unread, Waiting, Joined, Taken
<1>7. FirstLine(buffer, f)
    BY <1>3 DEF EndsLine, FirstLine, NoLineWithin, IsLine, Ends
<1>8. "fragment" \notin Bad
    BY DEF Bad, Unusable
<1>9. /\ InOrder(Unread', seq, Bad) <=> InOrder(Unread, seq, Bad)
      /\ LeadsTo(Unread, seq, lines) => LeadsTo(Unread', seq, lines)
      /\ OneLine(Unread) => OneLine(Unread')
      /\ Carries(Unread', "adapter-error") <=> Carries(Unread, "adapter-error")
      /\ AnyLine(Unread)
  <2>1. "adapter-error" # "fragment"
      OBVIOUS
  <2>2. /\ InOrder(Taken(buffer, f, pipe), seq, Bad) <=> InOrder(Joined(buffer, pipe), seq, Bad)
        /\ LeadsTo(Joined(buffer, pipe), seq, lines) => LeadsTo(Taken(buffer, f, pipe), seq, lines)
        /\ OneLine(Joined(buffer, pipe)) => OneLine(Taken(buffer, f, pipe))
        /\ Carries(Taken(buffer, f, pipe), "adapter-error")
             <=> Carries(Joined(buffer, pipe), "adapter-error")
        /\ AnyLine(Joined(buffer, pipe))
      BY <1>5, <1>7, <1>8, <2>1, TakeInOrder
  <2> QED BY <1>6, <2>2
<1>10. OrderKept'
    BY <1>2, <1>4, <1>9 DEF OrderKept
<1>11. RefusalUnread'
    BY <1>2, <1>4, <1>9 DEF RefusalUnread
<1>12. LinesCounted'
    BY <1>2, <1>4, <1>9 DEF LinesCounted
<1>13. NothingAhead'
    BY <1>2, <1>3, <1>4, <1>9 DEF NothingAhead
<1> QED BY <1>10, <1>11, <1>12, <1>13

(* An answer is accepted when it is all that is unread, and was in order.   *)
LEMMA AcceptAccounted ==
  ASSUME IInv, OutputAccount, LineChecked, Accept
  PROVE  OutputAccount'
<1> SUFFICES ASSUME failure = "none", failure' = "none"
             PROVE  (OrderKept /\ RefusalUnread /\ LinesCounted /\ NothingAhead)'
    BY DEF OutputAccount, Accept, FailWith, IInv, CallsInOrder, Opened
<1>1. OrderKept /\ RefusalUnread /\ LinesCounted /\ NothingAhead
    BY DEF OutputAccount
<1>2. /\ pc = "peek" /\ pc' = "call" /\ line.body \in Judged /\ seq' = seq + 1
      /\ UNCHANGED <<buffer, pipe, lines, faults>>
    BY DEF Accept, FailWith, childVars
<1>3. buffer = <<>> /\ pipe = <<>>
    BY DEF Accept, HasPending, IInv, AtEof
<1>4. Unread = <<line>> /\ Unread' = <<>>
    BY <1>2, <1>3 DEF Unread, Waiting
<1>5. Ends(line) /\ line.seq = seq /\ seq \in Nat /\ lines \in Nat
    BY <1>2, SessionAssumption DEF LineChecked, EnvelopeCause, IsLine, Ends, Judged, IInv, TypeOK
<1>6. line.body \notin Bad /\ line.body # "adapter-error"
    BY <1>2 DEF Judged, Bad, Unusable
<1>7. DOMAIN Unread = {1} /\ Unread[1] = line /\ Len(Unread) = 1
    BY <1>4
<1>8. InOrder(Unread, seq, Bad)
    BY <1>5, <1>6, <1>7 DEF InOrder, NextLine
<1>9. LeadsTo(Unread, seq, lines) => lines = seq + 1
    BY <1>5, <1>7 DEF LeadsTo, AnyLine
<1>10. "malformed" \notin faults /\ lines = seq + 1
    BY <1>1, <1>8, <1>9 DEF OrderKept
<1>11. DOMAIN Unread' = {}
    BY <1>4
<1>12. OrderKept'
    BY <1>2, <1>10, <1>11 DEF OrderKept, InOrder, LeadsTo, AnyLine
<1>13. RefusalUnread'
    BY <1>1, <1>2, <1>6, <1>7, <1>11 DEF RefusalUnread, Carries
<1>14. LinesCounted'
    BY <1>2, <1>5, <1>10, <1>11 DEF LinesCounted, AnyLine
<1>15. NothingAhead'
    BY <1>2, <1>4 DEF NothingAhead
<1> QED BY <1>12, <1>13, <1>14, <1>15

(* The account holds before the child is started.                          *)
LEMMA InitAccount == Init => Account
<1> SUFFICES ASSUME Init PROVE Account
    OBVIOUS
<1>1. Unread = <<>>
    BY DEF Init, Unread, Waiting
<1>2. OutputAccount
    BY <1>1 DEF Init, OutputAccount, OrderKept, RefusalUnread, LinesCounted, NothingAhead,
       InOrder, LeadsTo, AnyLine, Carries
<1>3. LineChecked /\ DeadlinesKept /\ StatusSeen /\ StdinKept /\ LeftSeen /\ CausesGrounded
    BY DEF Init, LineChecked, DeadlinesKept, StatusSeen, StdinKept, LeftSeen, CausesGrounded, Opened
<1> QED BY <1>2, <1>3 DEF Account

(* A child that runs got as far as it did by itself: a deadline that        *)
(* expires is its own.                                                      *)
LEMMA ExpireIsSlow == IInv /\ Expire => faults' = faults \cup {"slow"}
  BY DEF IInv, StderrIsRead, Expire, Blocked

(* What was written and not accepted is accounted for after every step: it  *)
(* moves in three of them, and once the session has failed it is no longer  *)
(* counted.                                                                 *)
LEMMA StepOutput ==
  ASSUME IInv, OutputAccount, LineChecked, [Next]_vars
  PROVE  OutputAccount'
<1>1. CASE ChildWrite
    BY <1>1, WriteAccounted
<1>2. CASE Receive
    BY <1>2, ReceiveAccounted
<1>3. CASE Accept
    BY <1>3, AcceptAccounted
<1>4. CASE ReadChunk
  <2>1. buffer \in Seq(Items) /\ pipe \in Seq(Items)
      BY DEF IInv, TypeOK
  <2>2. (buffer \o pipe) \o <<>> = buffer \o pipe
      BY <2>1, ConcatEmptySeq
  <2>3. Unread' = Unread
      BY <1>4, <2>2 DEF ReadChunk, Unread, Waiting
  <2> QED BY <1>4, <2>3, OutputUnmoved DEF ReadChunk
<1>5. CASE StartFails \/ ReceiveTimeout \/ PeekPending \/ Classify \/ ClassifyTimeout
    BY <1>5 DEF StartFails, ReceiveTimeout, PeekPending, Classify, ClassifyTimeout, FailWith,
       ExitCause, OutputAccount
<1>6. CASE Send
  <2>1. failure = "none" /\ "unasked" \notin faults => OneLine(Unread)
      BY <1>6 DEF Send, OutputAccount, NothingAhead, OneLine
  <2>2. Unread' = Unread /\ UNCHANGED <<failure, seq, lines, faults>>
      BY <1>6 DEF Send, childVars, Unread, Waiting
  <2>3. pc' \in {"read", "classify"}
      BY <1>6 DEF Send
  <2> QED BY <2>1, <2>2, <2>3 DEF OutputAccount, OrderKept, RefusalUnread, LinesCounted, NothingAhead
<1>7. CASE Start \/ CampaignDone \/ ReadEof \/ ReceiveEof \/ CloseStdin \/ DrainTimeout \/ DrainExtra
           \/ DrainClean \/ WaitExit \/ WaitTimeout \/ Poll \/ GraceExit \/ Kill \/ CloseStderr
           \/ Report \/ DrainEnds \/ HolderExit \/ (\E fd \in {"stdin", "stdout"} : ChildClose(fd))
           \/ (\E status \in {"zero", "nonzero"} : ChildExit(status)) \/ UNCHANGED vars
  <2> USE DEF Unread, Waiting, CloseWith, Expire, AfterPoll, Reading, runnerVars, childVars
  <2>1. CASE Start \/ CampaignDone \/ ReadEof \/ ReceiveEof \/ CloseStdin
      BY <1>7, <2>1, OutputUnmoved DEF Start, CampaignDone, ReadEof, ReceiveEof, CloseStdin
  <2>2. CASE DrainTimeout \/ DrainExtra \/ DrainClean \/ WaitExit \/ WaitTimeout
      BY <1>7, <2>2, OutputUnmoved DEF DrainTimeout, DrainExtra, DrainClean, WaitExit, WaitTimeout
  <2>3. CASE Poll \/ GraceExit \/ Kill \/ CloseStderr \/ Report
      BY <1>7, <2>3, OutputUnmoved DEF Poll, GraceExit, Kill, CloseStderr, Report
  <2>4. CASE DrainEnds \/ HolderExit \/ UNCHANGED vars
      BY <1>7, <2>4, OutputUnmoved DEF DrainEnds, HolderExit, vars
  <2>5. CASE \E fd \in {"stdin", "stdout"} : ChildClose(fd)
      BY <1>7, <2>5, OutputUnmoved DEF ChildClose
  <2>6. CASE \E status \in {"zero", "nonzero"} : ChildExit(status)
      BY <1>7, <2>6, OutputUnmoved DEF ChildExit
  <2> QED BY <1>7, <2>1, <2>2, <2>3, <2>4, <2>5, <2>6
<1> QED BY <1>1, <1>2, <1>3, <1>4, <1>5, <1>6, <1>7 DEF Next, RunnerStep, ChildStep

(* So is how the child left, and which deadlines expired.                   *)
LEMMA StepConduct ==
  ASSUME IInv, LineChecked, DeadlinesKept, StatusSeen, StdinKept, LeftSeen, [Next]_vars
  PROVE  (LineChecked /\ DeadlinesKept /\ StatusSeen /\ StdinKept /\ LeftSeen)'
<1> DEFINE Conduct == LineChecked /\ DeadlinesKept /\ StatusSeen /\ StdinKept /\ LeftSeen
<1> SUFFICES Conduct'
    OBVIOUS
<1>0. /\ child \in {"none", "running", "zero", "nonzero"} /\ fds \subseteq {"stdin", "stdout"}
      /\ pc = "start" => child = "none" /\ failure = "none"
      /\ StderrIsRead /\ ClosedOnce /\ NothingLeftRunning /\ CallsInOrder
      /\ stdinOpen \in BOOLEAN
    BY DEF IInv, TypeOK, NotStarted
<1> USE <1>0 DEF LineChecked, DeadlinesKept, StatusSeen, StdinKept, LeftSeen, Opened, Ending,
        StderrIsRead, ClosedOnce, NothingLeftRunning, CallsInOrder, FailWith, CloseWith, IsLine,
        EnvelopeCause, childVars, runnerVars
<1>1. CASE Start
    BY <1>1 DEF Start
<1>2. CASE StartFails
    BY <1>2 DEF StartFails
<1>3. CASE Send
    BY <1>3 DEF Send
<1>4. CASE CampaignDone
    BY <1>4 DEF CampaignDone
<1>5. CASE ReadChunk
    BY <1>5 DEF ReadChunk, Reading
<1>6. CASE ReadEof
    BY <1>6 DEF ReadEof, Reading
<1>7. CASE ReceiveTimeout
    BY <1>7 DEF ReceiveTimeout, Reading, Expire
<1>8. CASE ReceiveEof
  <2>1. ~StdoutOpen
      BY <1>8 DEF ReceiveEof, IInv, AtEof
  <2> QED BY <1>8, <2>1 DEF ReceiveEof, Reading, StdoutOpen
<1>9. CASE Receive
    BY <1>9 DEF Receive, EndsLine
<1>10. CASE PeekPending
    BY <1>10 DEF PeekPending
<1>11. CASE Accept
    BY <1>11 DEF Accept
<1>12. CASE Classify
    BY <1>12 DEF Classify, ExitCause, Exited
<1>13. CASE ClassifyTimeout
    BY <1>13 DEF ClassifyTimeout
<1>14. CASE CloseStdin
    BY <1>14 DEF CloseStdin
<1>15. CASE DrainTimeout
    BY <1>15 DEF DrainTimeout, Reading, Expire
<1>16. CASE DrainExtra
    BY <1>16 DEF DrainExtra
<1>17. CASE DrainClean
    BY <1>17 DEF DrainClean
<1>18. CASE WaitExit
    BY <1>18 DEF WaitExit, ExitCause, Exited
<1>19. CASE WaitTimeout
    BY <1>19 DEF WaitTimeout, Expire
<1>20. CASE Poll
    BY <1>20 DEF Poll, AfterPoll, Exited
<1>21. CASE GraceExit
    BY <1>21 DEF GraceExit, Exited
<1>22. CASE Kill
    BY <1>22 DEF Kill
<1>23. CASE CloseStderr
    BY <1>23 DEF CloseStderr
<1>24. CASE Report
    BY <1>24 DEF Report
<1>25. CASE ChildWrite
    BY <1>25 DEF ChildWrite
<1>26. ASSUME NEW fd \in {"stdin", "stdout"}, ChildClose(fd) PROVE Conduct'
    BY <1>26 DEF ChildClose
<1>27. ASSUME NEW status \in {"zero", "nonzero"}, ChildExit(status) PROVE Conduct'
    BY <1>27 DEF ChildExit
<1>28. CASE HolderExit
    BY <1>28 DEF HolderExit
<1>29. CASE DrainEnds
    BY <1>29 DEF DrainEnds
<1>30. CASE UNCHANGED vars
    BY <1>30 DEF vars
<1> QED BY <1>1, <1>2, <1>3, <1>4, <1>5, <1>6, <1>7, <1>8, <1>9, <1>10, <1>11, <1>12, <1>13, <1>14, <1>15, <1>16, <1>17, <1>18, <1>19, <1>20, <1>21, <1>22, <1>23, <1>24, <1>25, <1>26, <1>27, <1>28, <1>29, <1>30 DEF Next, RunnerStep, ChildStep

(* A line the envelope check refuses was malformed when it was written.     *)
LEMMA RefusedWasMalformed ==
  ASSUME IInv, OutputAccount, Receive, failure' # "none"
  PROVE  "malformed" \in faults
<1>1. pc = "read" /\ failure = "none"
    BY DEF Receive, IInv, CallsInOrder, Opened
<1>2. PICK f \in DOMAIN buffer : EndsLine(buffer, f) /\ EnvelopeCause(buffer[f]) # "none"
    BY <1>1 DEF Receive, FailWith
<1>3. buffer \in Seq(Items) /\ pipe \in Seq(Items)
    BY DEF IInv, TypeOK
<1>4. Unread = Joined(buffer, pipe)
    BY <1>1 DEF Unread, Waiting, Joined
<1>5. f \in DOMAIN Unread /\ \A i \in DOMAIN buffer : Unread[i] = buffer[i]
    BY <1>3, <1>4, TakeLine
<1>6. FirstLine(Unread, f)
  <2>1. DOMAIN buffer = 1 .. Len(buffer) /\ Len(buffer) \in Nat
      BY <1>3
  <2>2. \A j \in 1 .. f - 1 : j \in DOMAIN buffer
      BY <2>1
  <2> QED BY <1>2, <1>5, <2>2 DEF EndsLine, IsLine, FirstLine, NoLineWithin, Ends
<1>7. Unread[f].body \in Bad \/ Unread[f].seq # seq
    BY <1>2, <1>5 DEF EnvelopeCause, Bad, Unusable
<1>8. ~InOrder(Unread, seq, Bad)
    BY <1>5, <1>6, <1>7 DEF InOrder
<1> QED BY <1>1, <1>8 DEF OutputAccount, OrderKept

(* What is pending behind an answer nobody asked for, unless the child left *)
(* and stdout is at its end.                                                *)
LEMMA PendingHasGround ==
  ASSUME IInv, OutputAccount, LineChecked, StdinKept, LeftSeen, PeekPending
  PROVE  "unasked" \in faults \/ "left" \in faults
<1>1. pc = "peek" /\ failure = "none" /\ HasPending
    BY DEF PeekPending, IInv, CallsInOrder, Opened
<1>2. CASE buffer = <<>> /\ pipe = <<>>
    BY <1>1, <1>2 DEF HasPending, StdoutOpen, StdinKept, LeftSeen, Opened, IInv, TypeOK
<1>3. CASE ~(buffer = <<>> /\ pipe = <<>>)
  <2>1. buffer \in Seq(Items) /\ pipe \in Seq(Items) /\ line \in Items
      BY DEF IInv, TypeOK
  <2>2. Len(Waiting) > 0 /\ Len(Waiting) \in Nat /\ Waiting \in Seq(Items)
      BY <1>3, <2>1 DEF Waiting
  <2>3. Unread = <<line>> \o Waiting
      BY <1>1 DEF Unread
  <2>4. Len(Unread) = 1 + Len(Waiting) /\ Unread[1] = line
      BY <2>1, <2>2, <2>3
  <2>5. ~OneLine(Unread)
    <3>1. 1 \in 1 .. Len(Unread) - 1
        BY <2>2, <2>4
    <3>2. Ends(Unread[1])
        BY <1>1, <2>4 DEF LineChecked, IsLine, Ends
    <3> QED BY <3>1, <3>2 DEF OneLine
  <2> QED BY <1>1, <2>5 DEF OutputAccount, NothingAhead
<1> QED BY <1>2, <1>3

(* An answer that reports an error, or no result, is the child's.           *)
LEMMA AnswerHasGround ==
  ASSUME IInv, OutputAccount, LineChecked, Accept
  PROVE  /\ line.body = "adapter-error" => "refused" \in faults
         /\ line.body = "bad-result" => "malformed" \in faults
<1>1. pc = "peek" /\ failure = "none"
    BY DEF Accept, IInv, CallsInOrder, Opened
<1>2. buffer = <<>> /\ pipe = <<>>
    BY DEF Accept, HasPending, IInv, AtEof
<1>3. Unread = <<line>>
    BY <1>1, <1>2 DEF Unread, Waiting
<1>4. 1 \in DOMAIN Unread /\ Unread[1] = line
    BY <1>3
<1>5. line.body = "bad-result" => ~InOrder(Unread, seq, Bad)
    BY <1>4 DEF InOrder, Bad
<1>6. line.body = "adapter-error" => Carries(Unread, "adapter-error")
    BY <1>4 DEF Carries
<1> QED BY <1>1, <1>5, <1>6 DEF OutputAccount, OrderKept, RefusalUnread

(* Every cause that a step reports has its ground, and keeps it.            *)
LEMMA StepCauses ==
  ASSUME IInv, Account, [Next]_vars
  PROVE  CausesGrounded'
<1> USE DEF Account
<1>1. faults \subseteq faults'
  <2> USE DEF Expire, childVars, runnerVars
  <2>1. CASE RunnerStep
      BY <2>1 DEF RunnerStep, Start, StartFails, Send, CampaignDone, ReadChunk, ReadEof,
         ReceiveTimeout, ReceiveEof, Receive, PeekPending, Accept, Classify, ClassifyTimeout,
         CloseStdin, DrainTimeout, DrainExtra, DrainClean, WaitExit, WaitTimeout, Poll, GraceExit,
         Kill, CloseStderr, Report
  <2>2. CASE ChildStep
      BY <2>2 DEF ChildStep, ChildWrite, ChildClose, ChildExit, HolderExit
  <2> QED BY <2>1, <2>2 DEF Next, DrainEnds, vars
<1>2. CASE UNCHANGED <<failure, closure>>
    BY <1>1, <1>2 DEF CausesGrounded
<1>3. CASE StartFails
    BY <1>3 DEF StartFails, CausesGrounded, Grounds, IInv, ClosedOnce, Ending
<1>4. CASE ReceiveTimeout
    BY <1>4, ExpireIsSlow DEF ReceiveTimeout, FailWith, CausesGrounded, Grounds, IInv, ClosedOnce, Ending
<1>5. CASE Receive /\ failure' # failure
  <2>1. /\ failure' \in {"RESPONSE_ENCODING", "RESPONSE_JSON", "RESPONSE_SHAPE", "SEQUENCE_MISMATCH"}
        /\ closure' = "none" /\ faults' = faults /\ failure' # "none"
      BY <1>5 DEF Receive, FailWith, EnvelopeCause, IInv, ClosedOnce, Ending
  <2>2. "malformed" \in faults
      BY <1>5, <2>1, RefusedWasMalformed
  <2> QED BY <2>1, <2>2 DEF CausesGrounded, Grounds
<1>6. CASE PeekPending
    BY <1>6, PendingHasGround DEF PeekPending, FailWith, CausesGrounded, Grounds, IInv, ClosedOnce, Ending
<1>7. CASE Accept /\ failure' # failure
    BY <1>7, AnswerHasGround DEF Accept, FailWith, CausesGrounded, Grounds, IInv, ClosedOnce, Ending
<1>8. CASE Classify
    BY <1>8 DEF Classify, FailWith, ExitCause, StatusSeen, LeftSeen, CausesGrounded, Grounds, IInv,
       ClosedOnce, Ending
<1>9. CASE ClassifyTimeout
    BY <1>9 DEF ClassifyTimeout, FailWith, LeftSeen, CausesGrounded, Grounds, IInv, ClosedOnce, Ending
<1>10. CASE DrainTimeout \/ WaitTimeout
    BY <1>1, <1>10, ExpireIsSlow DEF DrainTimeout, WaitTimeout, CloseWith, CausesGrounded, Grounds
<1>11. CASE DrainExtra
  <2>1. failure = "none" => "unasked" \in faults
    <3> SUFFICES ASSUME failure = "none", "unasked" \notin faults PROVE FALSE
        OBVIOUS
    <3>1. Unread = <<>> /\ Unread = buffer \o pipe
        BY <1>11 DEF DrainExtra, OutputAccount, NothingAhead, Unread, Waiting
    <3>2. buffer = <<>>
      <4>1. buffer \in Seq(Items) /\ pipe \in Seq(Items)
          BY DEF IInv, TypeOK
      <4>2. Len(buffer \o pipe) = Len(buffer) + Len(pipe) /\ Len(buffer) \in Nat /\ Len(pipe) \in Nat
          BY <4>1
      <4> QED BY <3>1, <4>1, <4>2
    <3> QED BY <1>11, <3>2 DEF DrainExtra, Leftover, HasLine
  <2> QED BY <1>11, <2>1 DEF DrainExtra, CloseWith, CausesGrounded, Grounds
<1>12. CASE WaitExit
    BY <1>12 DEF WaitExit, CloseWith, ExitCause, StatusSeen, CausesGrounded, Grounds
<1>13. \/ UNCHANGED <<failure, closure>> \/ StartFails \/ ReceiveTimeout \/ Receive \/ PeekPending
       \/ Accept \/ Classify \/ ClassifyTimeout \/ DrainTimeout \/ WaitTimeout \/ DrainExtra \/ WaitExit
  <2>1. CASE RunnerStep
      BY <2>1 DEF RunnerStep, Start, Send, CampaignDone, ReadChunk, ReadEof, ReceiveEof, CloseStdin,
         DrainClean, Poll, GraceExit, Kill, CloseStderr, Report
  <2>2. CASE ChildStep
      BY <2>2 DEF ChildStep, ChildWrite, ChildClose, ChildExit, HolderExit, runnerVars
  <2> QED BY <2>1, <2>2 DEF Next, DrainEnds, vars, runnerVars
<1>14. (Receive \/ Accept) /\ failure' = failure => UNCHANGED <<failure, closure>>
    BY DEF Receive, Accept
<1> QED BY <1>2, <1>3, <1>4, <1>5, <1>6, <1>7, <1>8, <1>9, <1>10, <1>11, <1>12, <1>13, <1>14

(* The account is kept for ever.                                            *)
LEMMA SpecAccount == Spec => [](IInv /\ Account)
<1>1. Init => IInv /\ Account
    BY InitIInv, InitAccount
<1>2. IInv /\ Account /\ [Next]_vars => (IInv /\ Account)'
  <2> SUFFICES ASSUME IInv, Account, [Next]_vars PROVE (IInv /\ Account)'
      OBVIOUS
  <2>1. IInv'
      BY StepIInv
  <2>2. OutputAccount'
      BY StepOutput DEF Account
  <2>3. (LineChecked /\ DeadlinesKept /\ StatusSeen /\ StdinKept /\ LeftSeen)'
      BY StepConduct DEF Account
  <2>4. CausesGrounded'
      BY StepCauses
  <2> QED BY <2>1, <2>2, <2>3, <2>4 DEF Account
<1> QED BY <1>1, <1>2, PTL DEF Spec

(* The runner accuses nobody falsely: every cause it reports is grounded in *)
(* what the child's side did or in a deadline that expired while the child  *)
(* could go on.                                                             *)
THEOREM AccusesRightly == Spec => []CausesGrounded
<1>1. IInv /\ Account => CausesGrounded
    BY DEF Account
<1> QED BY <1>1, SpecAccount, PTL

(* A session that is not an error accepted every line the child wrote, one  *)
(* for each request and in order.                                           *)
THEOREM AnswersAll == Spec => []EveryLineAnswered
<1>1. IInv /\ Account => EveryLineAnswered
  <2> SUFFICES ASSUME IInv, Account, result \in {"supports", "challenges", "inconclusive"}
               PROVE  lines = NumCalls /\ faults \cap {"slow", "malformed", "refused", "status"} = {}
      BY DEF EveryLineAnswered
  <2>1. pc = "done" /\ failure = "none" /\ closure = "none"
      BY DEF IInv, ReportedOnce, Verdict, Failed
  <2>2. seq = NumCalls /\ child = "zero" /\ buffer = <<>> /\ pipe = <<>>
      BY <2>1 DEF IInv, CallsInOrder, AtEof, ClosedOnce, Opened, Ending
  <2>3. DOMAIN Unread = {}
      BY <2>1, <2>2 DEF Unread, Waiting
  <2>4. OrderKept /\ RefusalUnread
      BY <2>1 DEF Account, OutputAccount
  <2>5. "malformed" \notin faults /\ lines = seq
      BY <2>3, <2>4 DEF OrderKept, InOrder, LeadsTo, AnyLine
  <2>6. "refused" \notin faults
      BY <2>3, <2>4 DEF RefusalUnread, Carries
  <2>7. "slow" \notin faults /\ "status" \notin faults
      BY <2>1, <2>2 DEF Account, DeadlinesKept, StatusSeen
  <2> QED BY <2>2, <2>5, <2>6, <2>7
<1> QED BY <1>1, SpecAccount, PTL

(* The session implements the abstract one: each of its steps is a step of *)
(* LockstepSession or changes nothing LockstepSession sees.                *)
THEOREM Implements == Spec => LockstepSpec
<1>1. Init => Lockstep!Init
    BY DEF Init, Lockstep!Init, Failed
<1>2. ASSUME IInv, [Next]_vars PROVE [Lockstep!Next]_Lockstep!vars
  <2> USE <1>2 DEF IInv, TypeOK, NotStarted, CallsInOrder, ClosedOnce, ReportedOnce,
          NothingLeftRunning, Opened, Ending, Causes, FailWith, CloseWith, Failed,
          childVars, runnerVars, Lockstep!Next, Lockstep!vars, Lockstep!Begin,
          Lockstep!End, Lockstep!Fail
  <2>1. CASE Start
      BY <2>1 DEF Start
  <2>2. CASE StartFails
      BY <2>2 DEF StartFails
  <2>3. CASE Send
      BY <2>3 DEF Send
  <2>4. CASE CampaignDone
      BY <2>4 DEF CampaignDone
  <2>5. CASE ReadChunk
      BY <2>5 DEF ReadChunk
  <2>6. CASE ReadEof
      BY <2>6 DEF ReadEof
  <2>7. CASE ReceiveTimeout
      BY <2>7 DEF ReceiveTimeout
  <2>8. CASE ReceiveEof
      BY <2>8 DEF ReceiveEof
  <2>9. CASE Receive
      BY <2>9 DEF Receive, EnvelopeCause
  <2>10. CASE PeekPending
      BY <2>10 DEF PeekPending
  <2>11. CASE Accept
      BY <2>11 DEF Accept, MarksOf, Judged, Lockstep!Exchange, Lockstep!Marks
  <2>12. CASE Classify
      BY <2>12 DEF Classify, ExitCause
  <2>13. CASE ClassifyTimeout
      BY <2>13 DEF ClassifyTimeout
  <2>14. CASE CloseStdin
      BY <2>14 DEF CloseStdin
  <2>15. CASE DrainTimeout
      BY <2>15 DEF DrainTimeout
  <2>16. CASE DrainExtra
      BY <2>16 DEF DrainExtra
  <2>17. CASE DrainClean
      BY <2>17 DEF DrainClean
  <2>18. CASE WaitExit
      BY <2>18 DEF WaitExit, ExitCause
  <2>19. CASE WaitTimeout
      BY <2>19 DEF WaitTimeout
  <2>20. CASE Poll
      BY <2>20 DEF Poll
  <2>21. CASE GraceExit
      BY <2>21 DEF GraceExit
  <2>22. CASE Kill
      BY <2>22 DEF Kill
  <2>23. CASE CloseStderr
      BY <2>23 DEF CloseStderr
  <2>24. CASE Report
      BY <2>24 DEF Report, Verdict, Lockstep!Report, Lockstep!Judge
  <2>25. CASE ChildWrite
      BY <2>25 DEF ChildWrite
  <2>26. CASE HolderExit
      BY <2>26 DEF HolderExit
  <2>27. ASSUME NEW fd \in {"stdin", "stdout"}, ChildClose(fd) PROVE UNCHANGED Lockstep!vars
      BY <2>27 DEF ChildClose
  <2>28. ASSUME NEW status \in {"zero", "nonzero"}, ChildExit(status) PROVE Lockstep!End
      BY <2>28 DEF ChildExit
  <2>29. CASE DrainEnds
      BY <2>29 DEF DrainEnds
  <2>30. CASE UNCHANGED vars
      BY <2>30 DEF vars
  <2> QED BY <2>1, <2>2, <2>3, <2>4, <2>5, <2>6, <2>7, <2>8, <2>9, <2>10, <2>11, <2>12, <2>13, <2>14, <2>15, <2>16, <2>17, <2>18, <2>19, <2>20, <2>21, <2>22, <2>23, <2>24, <2>25, <2>26, <2>27, <2>28, <2>29, <2>30 DEF Next, RunnerStep, ChildStep
<1> QED BY <1>1, <1>2, SpecIInv, PTL DEF Spec, LockstepSpec, Lockstep!Spec

-----------------------------------------------------------------------------
(* The session comes to an end. *)

Unit(holds) == IF holds THEN 1 ELSE 0

(* How far the child and what is behind it are: whether it was started and *)
(* has ended, the streams given up, and the thread that reads its stderr.  *)
Life     == IF child = "none" THEN 0 ELSE IF child = "running" THEN 1 ELSE 2
Released == Unit("stdin" \notin fds) + Unit("stdout" \notin fds) + Unit(held = {})
Thread   == IF drainer = "none" THEN 0 ELSE IF drainer = "reading" THEN 1 ELSE 2

(* What the runner has found of stdout: all that is there, and its end.    *)
Drawn == Unit(pipe = <<>>) + Unit(eof)

(* How far the runner is, in the session and in a call.                    *)
Phase ==
  IF pc = "start" THEN 0
  ELSE IF pc \in Opened THEN 1
  ELSE IF pc = "close" THEN 2
  ELSE IF pc = "drain" THEN 3
  ELSE IF pc = "wait" THEN 4
  ELSE IF pc = "poll" THEN 5
  ELSE IF pc = "grace" THEN 6
  ELSE IF pc = "stderr" THEN 7
  ELSE IF pc = "report" THEN 8
  ELSE 9

InCall == IF pc = "read" THEN 1 ELSE IF pc \in {"peek", "classify"} THEN 2 ELSE 0

Spent == Weight(Life, Released, Thread, written, Drawn, Phase, seq, InCall)
Most  == MostWeight(MaxItems, NumCalls)

SpentTyped ==
  /\ Life \in 0 .. 2 /\ Released \in 0 .. 3 /\ Thread \in 0 .. 2
  /\ written \in 0 .. MaxItems /\ written \in Nat
  /\ Drawn \in 0 .. 2 /\ Phase \in 0 .. 9 /\ seq \in 0 .. NumCalls /\ seq \in Nat /\ InCall \in 0 .. 3

(* The parts of the measure are numbers.                                   *)
LEMMA SpentParts == (TypeOK => SpentTyped) /\ (TypeOK' => SpentTyped')
<1>1. ASSUME TypeOK PROVE SpentTyped
  <2>1. Life \in 0 .. 2 /\ Thread \in 0 .. 2 /\ Phase \in 0 .. 9 /\ InCall \in 0 .. 3
      BY DEF Life, Thread, Phase, InCall
  <2>2. Released \in 0 .. 3 /\ Drawn \in 0 .. 2
      BY DEF Released, Drawn, Unit
  <2>3. written \in 0 .. MaxItems /\ seq \in 0 .. NumCalls /\ written \in Nat /\ seq \in Nat
      BY <1>1, SessionAssumption DEF TypeOK
  <2> QED BY <2>1, <2>2, <2>3 DEF SpentTyped
<1>2. ASSUME TypeOK' PROVE SpentTyped'
  <2>1. Life' \in 0 .. 2 /\ Thread' \in 0 .. 2 /\ Phase' \in 0 .. 9 /\ InCall' \in 0 .. 3
      BY DEF Life, Thread, Phase, InCall
  <2>2. Released' \in 0 .. 3 /\ Drawn' \in 0 .. 2
      BY DEF Released, Drawn, Unit
  <2>3. written' \in 0 .. MaxItems /\ seq' \in 0 .. NumCalls /\ written' \in Nat /\ seq' \in Nat
      BY <1>2, SessionAssumption DEF TypeOK
  <2> QED BY <2>1, <2>2, <2>3 DEF SpentTyped
<1> QED BY <1>1, <1>2

(* A step of the child's side.                                             *)
LEMMA ChildSpends ==
  ASSUME TypeOK, TypeOK', DrainEnds \/ ChildStep
  PROVE  Spent < Spent'
<1>1. SpentTyped /\ SpentTyped'
    BY SpentParts
<1>2. Phase' = Phase /\ seq' = seq /\ InCall' = InCall /\ eof' = eof
    BY DEF DrainEnds, ChildStep, ChildWrite, ChildClose, ChildExit, HolderExit, runnerVars, Phase, InCall
<1>3. \/ Life' = Life + 1 /\ Thread' = Thread /\ written' = written /\ Drawn' = Drawn
      \/ Life' = Life /\ Released < Released' /\ Thread' = Thread /\ written' = written /\ Drawn' = Drawn
      \/ Life' = Life /\ Released' = Released /\ Thread < Thread' /\ written' = written /\ Drawn' = Drawn
      \/ Life' = Life /\ Released' = Released /\ Thread' = Thread /\ written' = written + 1
         /\ Drawn <= Drawn' + 1
  <2>1. CASE DrainEnds
      BY <1>2, <2>1 DEF DrainEnds, childVars, Life, Released, Thread, Drawn
  <2>2. CASE ChildWrite
    <3>1. Drawn <= Drawn' + 1
        BY <1>2 DEF Drawn, Unit
    <3> QED BY <2>2, <3>1 DEF ChildWrite, Life, Released, Thread
  <2>3. CASE HolderExit
      BY <1>2, <2>3 DEF HolderExit, Life, Released, Thread, Drawn, Unit
  <2>4. ASSUME NEW fd \in {"stdin", "stdout"}, ChildClose(fd)
        PROVE  Life' = Life /\ Released < Released' /\ Thread' = Thread /\ written' = written /\ Drawn' = Drawn
      BY <1>2, <2>4 DEF ChildClose, Life, Released, Thread, Drawn, Unit
  <2>5. ASSUME NEW status \in {"zero", "nonzero"}, ChildExit(status)
        PROVE  Life' = Life + 1 /\ Thread' = Thread /\ written' = written /\ Drawn' = Drawn
      BY <1>2, <2>5 DEF ChildExit, Life, Thread, Drawn
  <2> QED BY <2>1, <2>2, <2>3, <2>4, <2>5 DEF ChildStep
<1>4. Spent' = Weight(Life', Released', Thread', written', Drawn', Phase, seq, InCall)
    BY <1>2 DEF Spent
<1>5. PICK l2 \in 0 .. 2, r2 \in 0 .. 3, t2 \in 0 .. 2, w2 \in Nat, d2 \in 0 .. 2 :
        l2 = Life' /\ r2 = Released' /\ t2 = Thread' /\ w2 = written' /\ d2 = Drawn'
    BY <1>1 DEF SpentTyped
<1>6. Weight(Life, Released, Thread, written, Drawn, Phase, seq, InCall)
        < Weight(l2, r2, t2, w2, d2, Phase, seq, InCall)
  <2>1. \/ l2 = Life + 1 /\ t2 = Thread /\ w2 = written /\ d2 = Drawn
        \/ l2 = Life /\ Released < r2 /\ t2 = Thread /\ w2 = written /\ d2 = Drawn
        \/ l2 = Life /\ r2 = Released /\ Thread < t2 /\ w2 = written /\ d2 = Drawn
        \/ l2 = Life /\ r2 = Released /\ t2 = Thread /\ w2 = written + 1 /\ Drawn <= d2 + 1
      BY <1>3, <1>5
  <2>2. Life \in 0 .. 2 /\ Released \in 0 .. 3 /\ Thread \in 0 .. 2 /\ written \in Nat
        /\ Drawn \in 0 .. 2 /\ Phase \in 0 .. 9 /\ seq \in Nat /\ InCall \in 0 .. 3
      BY <1>1 DEF SpentTyped
  <2> QED BY <2>1, <2>2 DEF Weight
<1> QED BY <1>4, <1>5, <1>6 DEF Spent

(* A step of the runner.                                                   *)
LEMMA RunnerSpends ==
  ASSUME TypeOK, TypeOK', NotStarted, RunnerStep
  PROVE  Spent < Spent'
<1>1. SpentTyped /\ SpentTyped'
    BY SpentParts
<1>2. CASE Start \/ Kill
  <2>1. \/ pc = "start" /\ pc' = "call" /\ Life = 0 /\ Life' = 1
        \/ pc = "grace" /\ pc' = "stderr" /\ Life = 1 /\ Life' = 2
      BY <1>2 DEF Start, Kill, Life, NotStarted
  <2>2. seq' = seq /\ written' = written /\ Drawn' = Drawn
      BY <1>2 DEF Start, Kill, Drawn
  <2>3. Life' = Life + 1 /\ Phase < Phase' /\ InCall = InCall'
      BY <2>1 DEF Phase, InCall, Opened
  <2>4. Spent' = Weight(Life', Released', Thread', written, Drawn, Phase', seq, InCall')
      BY <2>2 DEF Spent
  <2>5. PICK l2 \in 0 .. 2, r2 \in 0 .. 3, t2 \in 0 .. 2, p2 \in 0 .. 9, c2 \in 0 .. 3 :
          l2 = Life' /\ r2 = Released' /\ t2 = Thread' /\ p2 = Phase' /\ c2 = InCall'
      BY <1>1 DEF SpentTyped
  <2>6. Weight(Life, Released, Thread, written, Drawn, Phase, seq, InCall)
          < Weight(l2, r2, t2, written, Drawn, p2, seq, c2)
    <3>1. l2 = Life + 1 /\ Phase < p2 /\ InCall = c2
        BY <2>3, <2>5
    <3> QED BY <1>1, <3>1 DEF SpentTyped, Weight
  <2> QED BY <2>4, <2>5, <2>6 DEF Spent
<1>3. CASE ReadChunk \/ ReadEof
  <2>1. Life' = Life /\ Released' = Released /\ Thread' = Thread /\ written' = written
        /\ Phase' = Phase /\ seq' = seq /\ InCall' = InCall
      BY <1>3 DEF ReadChunk, ReadEof, childVars, Life, Released, Thread, Phase, InCall
  <2>2. Drawn < Drawn'
      BY <1>3 DEF ReadChunk, ReadEof, childVars, Drawn, Unit
  <2>3. Spent' = Weight(Life, Released, Thread, written, Drawn', Phase, seq, InCall)
      BY <2>1 DEF Spent
  <2>4. PICK d2 \in 0 .. 2 : d2 = Drawn'
      BY <1>1 DEF SpentTyped
  <2>5. Weight(Life, Released, Thread, written, Drawn, Phase, seq, InCall)
          < Weight(Life, Released, Thread, written, d2, Phase, seq, InCall)
    <3>1. Drawn < d2
        BY <2>2, <2>4
    <3> QED BY <1>1, <3>1 DEF SpentTyped, Weight
  <2> QED BY <2>3, <2>4, <2>5 DEF Spent
<1>4. CASE ~(Start \/ Kill \/ ReadChunk \/ ReadEof)
  <2>1. UNCHANGED <<childVars, drainer, eof>>
      BY <1>4 DEF RunnerStep, StartFails, Send, CampaignDone, ReceiveTimeout, ReceiveEof, Receive,
             PeekPending, Accept, Classify, ClassifyTimeout, CloseStdin, DrainTimeout, DrainExtra,
             DrainClean, WaitExit, WaitTimeout, Poll, GraceExit, CloseStderr, Report
  <2>2. \/ pc = "peek" /\ pc' \in {"call", "close"} /\ seq' = seq + 1
        \/ /\ seq' = seq
           /\ \/ pc = "start" /\ pc' = "report"
              \/ pc = "call" /\ pc' \in {"read", "classify", "close"}
              \/ pc = "read" /\ pc' \in {"peek", "classify", "close"}
              \/ pc \in {"peek", "classify"} /\ pc' = "close"
              \/ pc = "close" /\ pc' = "drain"
              \/ pc = "drain" /\ pc' \in {"wait", "poll"}
              \/ pc = "wait" /\ pc' = "poll"
              \/ pc = "poll" /\ pc' \in {"grace", "stderr"}
              \/ pc = "grace" /\ pc' = "stderr"
              \/ pc = "stderr" /\ pc' = "report"
              \/ pc = "report" /\ pc' = "done"
      BY <1>4 DEF RunnerStep, StartFails, Send, CampaignDone, ReceiveTimeout, ReceiveEof, Receive,
             PeekPending, Accept, Classify, ClassifyTimeout, CloseStdin, DrainTimeout, DrainExtra,
             DrainClean, WaitExit, WaitTimeout, Poll, GraceExit, CloseStderr, Report,
             FailWith, CloseWith, AfterPoll
  <2>3. \/ Phase < Phase' /\ seq <= seq'
        \/ Phase = Phase' /\ seq < seq'
        \/ Phase = Phase' /\ seq = seq' /\ InCall < InCall'
      BY <1>1, <2>2 DEF Phase, InCall, Opened, SpentTyped
  <2>4. Spent' = Weight(Life, Released, Thread, written, Drawn, Phase', seq', InCall')
      BY <2>1 DEF Spent, Life, Released, Thread, Drawn, childVars
  <2>5. PICK p2 \in 0 .. 9, q2 \in Nat, c2 \in 0 .. 3 : p2 = Phase' /\ q2 = seq' /\ c2 = InCall'
      BY <1>1 DEF SpentTyped
  <2>6. Weight(Life, Released, Thread, written, Drawn, Phase, seq, InCall)
          < Weight(Life, Released, Thread, written, Drawn, p2, q2, c2)
    <3>1. \/ Phase < p2 /\ seq <= q2
          \/ Phase = p2 /\ seq < q2
          \/ Phase = p2 /\ seq = q2 /\ InCall < c2
        BY <2>3, <2>5
    <3> QED BY <1>1, <3>1 DEF SpentTyped, Weight
  <2> QED BY <2>4, <2>5, <2>6 DEF Spent
<1> QED BY <1>2, <1>3, <1>4

(* A session has only so many steps, whoever makes them and in whatever    *)
(* order: each call, each piece of output, each way the child can leave    *)
(* and each stage of close() uses up some of a number that has a bound, so *)
(* that no loop of _Runner goes round for ever.  The bound grows with the  *)
(* output; what ends the reading of a child that writes without end is the *)
(* deadline.                                                               *)
THEOREM SessionIsFinite == Spec => [](Spent \in 0 .. Most) /\ [][Spent < Spent']_vars
<1>1. IInv => Spent \in 0 .. Most
  <2> SUFFICES ASSUME IInv PROVE Spent \in 0 .. Most
      OBVIOUS
  <2>1. SpentTyped
      BY SpentParts DEF IInv
  <2> QED BY <2>1, WeightBound, SessionAssumption DEF Spent, Most, SpentTyped
<1>2. IInv /\ IInv' /\ [Next]_vars => [Spent < Spent']_vars
  <2> SUFFICES ASSUME IInv, IInv', Next PROVE Spent < Spent'
      OBVIOUS
  <2>1. TypeOK /\ TypeOK' /\ NotStarted
      BY DEF IInv
  <2> QED BY <2>1, RunnerSpends, ChildSpends DEF Next
<1> QED BY <1>1, <1>2, SpecIInv, PTL DEF Spec

=============================================================================
