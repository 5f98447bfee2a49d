---------------------------- MODULE StackCampaign ----------------------------
(***************************************************************************)
(* The evidence campaign of the Stack runner: run_campaign of class        *)
(* _Runner (semantic_packages/stack_runner.py) and the summary of its      *)
(* observations, against an adapter of StackAdapter.                       *)
(*                                                                         *)
(* Each call of the adapter is one action.  The session under the calls    *)
(* is LockstepSession's: at any call, or when it is closed, it may fail,   *)
(* and the campaign then keeps the observations it has made.               *)
(***************************************************************************)
EXTENDS Integers, Sequences, SequencesExt, StackPlan, StackAdapter

CONSTANTS
  Plans,      \* the plans the runner may be given
  Modes       \* the adapters it may be given

(* The runner is given plans that were validated.  Their values are those  *)
(* of the profile a plan names, which is all that two of the servers take; *)
(* their bounds are their own.                                             *)
ASSUME PlansAssumption ==
  \A p \in Plans :
    /\ p \in Seq(CaseSet) /\ p # <<>>
    /\ \A c \in DOMAIN p :
         ValidCase(p[c], ElementDomain, Len(p[c].steps), Len(p[c].steps))

VARIABLES
  plan, mode,
  adapter,    \* what the adapter holds
  case,       \* the number of the case
  pc,         \* where the campaign is in it
  watch,      \* the number of the observation
  handles,    \* of each step so far: the handle it bound, 0 for None
  states,     \* of each step so far: the contents it was planned to bind
  baselines,  \* of bindings watched for persistence: their first observation
  look,       \* an observation being made
  records,    \* the observations retained
  forbidden,  \* a forbidden event was recorded
  failed,     \* the execution cause: "no", "session", or "refused" for ADAPTER_ERROR
  outcomes,   \* of each declaration, once summarised
  result

progress == <<case, pc, watch>>
memory   == <<handles, states, baselines>>
report   == <<outcomes, result>>
vars     == <<plan, mode, adapter, progress, memory, look, records, forbidden, failed, report>>

Steps   == plan[case].steps
Watches == plan[case].watches
At      == Len(handles) + 1
Step    == Steps[At]
Watched == Watches[watch]
Planned(w) == TopFirst(Steps)[w.on]

NoLook == [at |-> 0, goal |-> <<>>, seen |-> <<>>, status |-> "none"]

Record(declaration, verdict) ==
  [case |-> case, declaration |-> declaration, result |-> verdict]

Init ==
  /\ plan \in Plans
  /\ mode \in Modes
  /\ adapter = NewAdapter(mode)
  /\ case = 1
  /\ pc = "step"
  /\ watch = 1
  /\ handles = <<>>
  /\ states = <<>>
  /\ baselines = <<>>
  /\ look = NoLook
  /\ records = {}
  /\ forbidden = FALSE
  /\ failed = "no"
  /\ outcomes = <<>>
  /\ result = "none"

InHistory == pc = "step" /\ At <= Len(Steps)

(* Before the first step that takes a binding watched for persistence, the *)
(* binding is observed.                                                    *)
NeedsBaseline_Never(binding) == FALSE

NeedsBaseline_Again(binding) ==
  /\ binding # 0
  /\ handles[binding] # 0
  /\ \E w \in DOMAIN Watches : Watches[w] = Watch("persistence", binding)

NeedsBaseline(binding) ==
  /\ binding # 0
  /\ handles[binding] # 0
  /\ binding \notin DOMAIN baselines
  /\ \E w \in DOMAIN Watches : Watches[w] = Watch("persistence", binding)

Ready(op) == InHistory /\ ~NeedsBaseline(Step.source) /\ Step.op = op

(* The campaign is at a call, and the answer to it. *)
Calling ==
  \/ look.status = "going"
  \/ Ready("empty")
  \/ \E op \in {"push", "pop"} : Ready(op) /\ handles[Step.source] # 0

Asked ==
  IF look.status = "going" THEN Respond(mode, adapter, "pop", look.at, 0)
  ELSE IF Step.op = "empty" THEN Respond(mode, adapter, "empty", 0, 0)
  ELSE Respond(mode, adapter, Step.op, handles[Step.source], Step.value)

(* _call: what every answered call leaves. *)
Called(next) ==
  /\ adapter' = next
  /\ forbidden' = (forbidden \/ ReportsForbidden(mode))

NotCalled == UNCHANGED <<adapter, forbidden>>

(* _observe_expected, begun: at most one pop more than is expected. *)
Observe(handle, goal) ==
  look' = [at |-> handle, goal |-> goal, seen |-> <<>>, status |-> "going"]

(* _observe_expected, one pop. *)
StatusAfter_OneMore(r) ==
  IF r.tag = "none"
  THEN IF Len(look.seen) = Len(look.goal) THEN "complete" ELSE "early-none"
  ELSE IF Len(look.seen) > Len(look.goal) THEN "nonempty-tail" ELSE "going"

StatusAfter(r) ==
  IF r.tag = "none"
  THEN IF Len(look.seen) = Len(look.goal) THEN "complete" ELSE "early-none"
  ELSE IF Len(look.seen) = Len(look.goal) THEN "nonempty-tail" ELSE "going"

Look ==
  /\ look.status = "going"
  /\ LET r == Asked IN
       /\ r.status = "ok"
       /\ Called(r.adapter)
       /\ look' = [look EXCEPT !.status = StatusAfter(r),
                     !.seen = IF r.tag = "none" THEN @ ELSE Append(@, r.value),
                     !.at   = IF r.tag = "none" THEN @ ELSE r.handle]
  /\ UNCHANGED <<plan, mode, progress, memory, records, failed, report>>

Looked(at) == pc = at /\ look.status \notin {"none", "going"}

(* What a complete observation with one value too many tells: the state    *)
(* planned to be empty there gave one.                                     *)
OnlyTail_Never == FALSE

OnlyTail ==
  /\ look.status = "nonempty-tail"
  /\ Front(look.seen) = look.goal

-----------------------------------------------------------------------------
(* The history of a case. *)

BeginBaseline ==
  /\ InHistory
  /\ NeedsBaseline(Step.source)
  /\ Observe(handles[Step.source], TopFirst(Steps)[Step.source])
  /\ pc' = "baseline"
  /\ NotCalled
  /\ UNCHANGED <<plan, mode, case, watch, memory, records, failed, report>>

KeepBaseline ==
  /\ Looked("baseline")
  /\ baselines' = [b \in DOMAIN baselines \cup {Step.source} |->
                    IF b = Step.source THEN [seen |-> look.seen, status |-> look.status]
                    ELSE baselines[b]]
  /\ look' = NoLook
  /\ pc' = "step"
  /\ NotCalled
  /\ UNCHANGED <<plan, mode, case, watch, handles, states, records, failed, report>>

Bind(handle, contents) ==
  /\ handles' = Append(handles, handle)
  /\ states' = Append(states, contents)

Empty ==
  /\ Ready("empty")
  /\ LET r == Asked IN
       /\ r.status = "ok"
       /\ Bind(r.handle, <<>>)
       /\ Called(r.adapter)
  /\ UNCHANGED <<plan, mode, progress, baselines, look, records, failed, report>>

Push ==
  /\ Ready("push")
  /\ LET contents == <<Step.value>> \o states[Step.source] IN
     IF handles[Step.source] = 0
     THEN Bind(0, contents) /\ NotCalled
     ELSE LET r == Asked IN
            /\ r.status = "ok"
            /\ Bind(r.handle, contents)
            /\ Called(r.adapter)
  /\ UNCHANGED <<plan, mode, progress, baselines, look, records, failed, report>>

Source == states[Step.source]

Rest_Whole == Source

Rest == IF Source = <<>> THEN <<>> ELSE Tail(Source)

(* A pop of a handle the adapter did not give: nothing is asked. *)
PopLost ==
  /\ Ready("pop")
  /\ handles[Step.source] = 0
  /\ Bind(0, Rest)
  /\ NotCalled
  /\ UNCHANGED <<plan, mode, progress, baselines, look, records, failed, report>>

Pop ==
  /\ Ready("pop")
  /\ handles[Step.source] # 0
  /\ LET r == Asked
         blamed == IF Source = <<>> THEN "pop-empty" ELSE "pop-push"
         wrong  == IF Source = <<>> THEN r.tag # "none"
                   ELSE r.tag = "none" \/ r.value # Head(Source)
     IN  /\ r.status = "ok"
         /\ Called(r.adapter)
         /\ records' = records \cup (IF wrong THEN {Record(blamed, "challenges")} ELSE {})
         /\ IF Source = <<>> \/ r.tag = "none"
            THEN /\ Bind(0, Rest)
                 /\ UNCHANGED <<pc, look>>
            ELSE /\ Bind(r.handle, Rest)
                 /\ Observe(r.handle, Rest)
                 /\ pc' = "remainder"
  /\ UNCHANGED <<plan, mode, case, watch, baselines, failed, report>>

(* What the remainder of a pop is found to hold. *)
RemainderRecords ==
  IF OnlyTail
  THEN {Record("pop-empty", "challenges"), Record("pop-push", "inconclusive")}
  ELSE IF look.status # "complete" \/ look.seen # look.goal
  THEN {Record("pop-push", "challenges")}
  ELSE {}

JudgeRemainder ==
  /\ Looked("remainder")
  /\ records' = records \cup RemainderRecords
  /\ look' = NoLook
  /\ pc' = "step"
  /\ NotCalled
  /\ UNCHANGED <<plan, mode, case, watch, memory, failed, report>>

HistoryDone ==
  /\ pc = "step"
  /\ At > Len(Steps)
  /\ pc' = "watch"
  /\ NotCalled
  /\ UNCHANGED <<plan, mode, case, watch, memory, look, records, failed, report>>

-----------------------------------------------------------------------------
(* The observations of a case. *)

(* Without a call: the handle was lost, or the events tell. *)
WatchedBlind(verdict) ==
  /\ records' = records \cup {Record(Watched.declaration, verdict)}
  /\ watch' = watch + 1
  /\ NotCalled
  /\ UNCHANGED <<plan, mode, case, pc, memory, look, failed, report>>

InWatches == pc = "watch" /\ watch <= Len(Watches)
Lost      == handles[Watched.on] = 0

WatchLost ==
  /\ InWatches
  /\ Lost
  /\ WatchedBlind("inconclusive")

WatchEffects ==
  /\ InWatches
  /\ ~Lost
  /\ Watched.declaration = "stack-effects"
  /\ WatchedBlind("supports")

BeginWatch ==
  /\ InWatches
  /\ ~Lost
  /\ Watched.declaration # "stack-effects"
  /\ Observe(handles[Watched.on], Planned(Watched))
  /\ pc' = "observe"
  /\ NotCalled
  /\ UNCHANGED <<plan, mode, case, watch, memory, records, failed, report>>

(* A retained binding is compared with its baseline, not with the plan. *)
PersistenceVerdict_Planned ==
  IF look.status = "complete" /\ look.seen = look.goal THEN "supports" ELSE "challenges"

PersistenceVerdict ==
  IF \/ Watched.on \notin DOMAIN baselines
     \/ baselines[Watched.on].status # "complete"
  THEN "inconclusive"
  ELSE IF look.status # "complete" \/ look.seen # baselines[Watched.on].seen
  THEN "challenges"
  ELSE "supports"

JudgePersistence ==
  /\ Looked("observe")
  /\ Watched.declaration = "persistence"
  /\ records' = records \cup {Record("persistence", PersistenceVerdict)}
  /\ watch' = watch + 1
  /\ look' = NoLook
  /\ pc' = "watch"
  /\ NotCalled
  /\ UNCHANGED <<plan, mode, case, memory, failed, report>>

ContentsRecords ==
  IF OnlyTail
  THEN {Record("pop-empty", "challenges")}
         \cup (IF Watched.declaration = "pop-empty" THEN {}
               ELSE {Record(Watched.declaration, "inconclusive")})
  ELSE IF look.status = "early-none" \/ look.seen # look.goal
  THEN {Record(Watched.declaration, "challenges")}
  ELSE {Record(Watched.declaration, "supports")}

JudgeContents ==
  /\ Looked("observe")
  /\ Watched.declaration # "persistence"
  /\ records' = records \cup ContentsRecords
  /\ watch' = watch + 1
  /\ look' = NoLook
  /\ pc' = "watch"
  /\ NotCalled
  /\ UNCHANGED <<plan, mode, case, memory, failed, report>>

CaseDone ==
  /\ pc = "watch"
  /\ watch > Len(Watches)
  /\ IF case = Len(plan)
     THEN pc' = "summary" /\ UNCHANGED <<case, watch, memory>>
     ELSE /\ pc' = "step"
          /\ case' = case + 1
          /\ watch' = 1
          /\ handles' = <<>>
          /\ states' = <<>>
          /\ baselines' = <<>>
  /\ NotCalled
  /\ UNCHANGED <<plan, mode, look, records, failed, report>>

-----------------------------------------------------------------------------
(* The session fails at a call, or is not closed cleanly after the last.   *)
(* The answer that makes it fail may still report an event.                *)
SessionFails ==
  /\ Calling \/ pc = "summary"
  /\ failed = "no"
  /\ failed' = "session"
  /\ pc' = "summary"
  /\ forbidden' \in {forbidden, forbidden \/ ReportsForbidden(mode)}
  /\ look' = NoLook
  /\ UNCHANGED <<plan, mode, adapter, case, watch, memory, records, report>>

(* _call: the status of the answer is not "ok"; its events are recorded. *)
AdapterRefuses ==
  /\ Calling
  /\ Asked.status # "ok"
  /\ failed' = "refused"
  /\ pc' = "summary"
  /\ Called(Asked.adapter)
  /\ look' = NoLook
  /\ UNCHANGED <<plan, mode, case, watch, memory, records, report>>

(* summarize_stack_conformance. *)
Outcome(declaration) ==
  LET found == {r.result : r \in {s \in records : s.declaration = declaration}} IN
  IF "challenges" \in found \/ (declaration = "stack-effects" /\ forbidden) THEN "challenges"
  ELSE IF found = {"supports"} THEN "supports"
  ELSE "inconclusive"

Summary_SemanticOnly(of) ==
  LET found == {of[d] : d \in Declarations} IN
  IF "challenges" \in found THEN "challenges"
  ELSE IF found = {"supports"} THEN "supports"
  ELSE "inconclusive"

Summary(of) ==
  LET found == {of[d] : d \in Declarations} IN
  IF failed # "no" THEN "error"
  ELSE IF "challenges" \in found THEN "challenges"
  ELSE IF found = {"supports"} THEN "supports"
  ELSE "inconclusive"

Report ==
  /\ pc = "summary"
  /\ outcomes' = [d \in Declarations |-> Outcome(d)]
  /\ result' = Summary(outcomes')
  /\ pc' = "done"
  /\ UNCHANGED <<plan, mode, adapter, case, watch, memory, look, records, forbidden, failed>>

Next ==
  \/ BeginBaseline \/ KeepBaseline
  \/ Empty \/ Push \/ PopLost \/ Pop \/ JudgeRemainder \/ HistoryDone
  \/ WatchLost \/ WatchEffects \/ BeginWatch \/ JudgePersistence \/ JudgeContents
  \/ Look \/ CaseDone
  \/ SessionFails \/ AdapterRefuses \/ Report

Spec == Init /\ [][Next]_vars

(* The adapter answers or the session fails: either way the runner goes on. *)
FairSpec == Spec /\ WF_vars(Next)

-----------------------------------------------------------------------------
(* Properties. *)

Verdicts == {"supports", "challenges", "inconclusive"}

(* Every variable keeps its type; a handle is one the adapter gave, and a  *)
(* history keeps one handle and one state for each step it has made.       *)
TypeOK ==
  /\ case \in DOMAIN plan
  /\ pc \in {"step", "baseline", "remainder", "watch", "observe", "summary", "done"}
  /\ watch \in 1 .. Len(Watches) + 1
  /\ Len(handles) <= Len(Steps)
  /\ \A i \in DOMAIN handles : handles[i] \in 0 .. Given(mode, adapter)
  /\ DOMAIN states = DOMAIN handles
  /\ DOMAIN baselines \subseteq DOMAIN handles
  /\ look.at \in 0 .. Given(mode, adapter)
  /\ Len(look.seen) <= Len(look.goal) + 1
  /\ look.status \in {"none", "going", "complete", "early-none", "nonempty-tail"}
  /\ (look.status = "none") <=> (pc \in {"step", "watch", "summary", "done"})
  /\ records \subseteq [case : DOMAIN plan, declaration : Declarations, result : Verdicts]
  /\ forbidden \in BOOLEAN
  /\ failed \in {"no", "session", "refused"}
  /\ result \in Verdicts \cup {"none", "error"}

Challenged ==
  {r.declaration : r \in {s \in records : s.result = "challenges"}}
    \cup (IF forbidden THEN {"stack-effects"} ELSE {})

Faithful  == {"reference", "interned"} \cup Languages
InPlace   == {"destructive-push", "destructive-push-nonempty", "destructive-pop",
              "retained-ancestor-change"}

(* What the answers of each adapter contradict.  One that destroys what it *)
(* pops is also found wrong where the runner looks twice at one handle.    *)
Breaks(m) ==
  CASE m \in Faithful \cup {"status-error"} -> {}
    [] m = "destructive-pop" -> {"persistence", "pop-push"}
    [] m \in InPlace         -> {"persistence"}
    [] m = "wrong-empty"     -> {"pop-empty"}
    [] m = "nonterminating-observation" -> {"pop-empty", "pop-push"}
    [] m = "forbidden-event" -> {"stack-effects"}
    [] OTHER                 -> {"pop-push"}

(* A faithful adapter, handing out fresh handles or sharing equal stacks,  *)
(* is never challenged: at no point of any plan, nor when its session      *)
(* fails there.  The three servers that keep a real Stack are faithful,    *)
(* and none of them refuses what a plan asks.                              *)
FaithfulNeverChallenged ==
  mode \in Faithful => Challenged = {} /\ failed # "refused"

(* An adapter that never changes a stack it has handed out, nor what it    *)
(* answers for one.                                                        *)
Steady(m) == m \notin InPlace \cup {"case-local-causes", "wrong-generated-terminal-remainder"}

(* What is watched for pop-empty is planned to be empty.                   *)
WatchesEmptiness ==
  \A c \in DOMAIN plan : \A w \in DOMAIN plan[c].watches :
    plan[c].watches[w].declaration = "pop-empty" =>
      TopFirst(plan[c].steps)[plan[c].watches[w].on] = <<>>

(* Such an adapter is blamed only for the laws its answers contradict,     *)
(* whatever the plan and wherever the session fails: a wrong value,        *)
(* remainder or empty stack is not taken for a change of a retained        *)
(* handle, nor for the violation of another law.  Only a plan that watches *)
(* a stack with elements for pop-empty may blame that law for them.        *)
BlameDeserved ==
  Steady(mode) /\ WatchesEmptiness => Challenged \subseteq Breaks(mode)

(* Under the plan evidence is made with, the adapters that do change their *)
(* stacks are blamed for no other law either.                              *)
DefaultBlameDeserved ==
  Challenged \subseteq Breaks(mode)

(* Under the plan evidence is made with, each adapter that breaks a law is *)
(* found to break it, and one that breaks none is supported.               *)
BreakageFound ==
  (result # "none" /\ failed # "session" /\ mode # "status-error") =>
    /\ Breaks(mode) \subseteq {d \in Declarations : outcomes[d] = "challenges"}
    /\ result = IF Breaks(mode) = {} THEN "supports" ELSE "challenges"

(* "supports" is said only of a campaign whose every planned observation   *)
(* was made and found right: none was lost with its handle, skipped or     *)
(* cut short, and no declaration is without one.                           *)
SupportsIsComplete ==
  result = "supports" =>
    /\ failed = "no"
    /\ \A r \in records : r.result = "supports"
    /\ \A c \in DOMAIN plan : \A w \in DOMAIN plan[c].watches :
         [case |-> c, declaration |-> plan[c].watches[w].declaration, result |-> "supports"]
           \in records
    /\ \A d \in Declarations : \E r \in records : r.declaration = d

(* The campaign comes to its report, also against an adapter whose stacks  *)
(* never become empty.                                                     *)
CampaignEnds == <>(pc = "done")

=============================================================================
