-------------------------- MODULE OrderedMapCampaign --------------------------
(***************************************************************************)
(* run_ordered_map_conformance of semantic_packages/ordered_map_runner.py: *)
(* the one campaign, against an adapter of OrderedMapAdapter.              *)
(*                                                                         *)
(* Each request is one action.  The session under it is                    *)
(* LockstepSession's: at any request, or when it is closed, it may fail.   *)
(***************************************************************************)
EXTENDS OrderedMapAdapter, FiniteSets

CONSTANT Modes      \* the adapters the runner may be given

VARIABLES
  mode, adapter,
  pc,        \* "capture", "cases", "close", "summary", "done"
  case,      \* the number of the case
  bindings,  \* of each step of the case so far: the handle it bound, or 0
  seq,       \* requests answered
  cases,     \* of each case and declaration: the observations made of it
  global,    \* of each declaration: the same, over all the cases
  events,    \* the events recorded: the request and the disposition
  failed,    \* the execution cause: "no", "plan", "session" or "adapter"
  result

observed == <<cases, global, events>>
vars     == <<mode, adapter, pc, case, bindings, seq, observed, failed, result>>

Steps   == Plan[case]
At      == Len(bindings) + 1
Current == Steps[At]

(* _MutableDeclaration: how often it was observed, and with which causes.  *)
Unobserved == [count |-> 0, causes |-> {}]

Init ==
  /\ mode \in Modes
  /\ adapter = NewAdapter
  /\ pc = "capture"
  /\ case = 1
  /\ bindings = <<>>
  /\ seq = 0
  /\ cases = [c \in DOMAIN Plan |-> [d \in DeclarationsOf(Plan[c]) |-> Unobserved]]
  /\ global = [d \in Declarations |-> Unobserved]
  /\ events = {}
  /\ failed = "no"
  /\ result = "none"

(* inspect_conformance_plan, captured once, or _report_for_plan_failure.   *)
Capture ==
  /\ pc = "capture"
  /\ pc' = "cases"
  /\ UNCHANGED <<mode, adapter, case, bindings, seq, observed, failed, result>>

PlanNotAuthentic ==
  /\ pc = "capture"
  /\ failed' = "plan"
  /\ result' = "error"
  /\ cases' = <<>>
  /\ global' = <<>>
  /\ pc' = "done"
  /\ UNCHANGED <<mode, adapter, case, bindings, seq, events>>

InCase == pc = "cases" /\ At <= Len(Steps)

Request ==
  [seq    |-> seq,
   op     |-> Current.op,
   handle |-> IF Current.op = "empty" THEN 0 ELSE bindings[Current.source],
   key    |-> Current.key,
   value  |-> Current.value]

Answered == Respond(mode, adapter, Request)

(* invoke() records the events before it looks at the status. *)
Recorded(answer) ==
  events \cup {[at |-> seq, disposition |-> Disposition(answer.events[i])] :
                 i \in DOMAIN answer.events}

(* The status and the shape of the result are in order. *)
Usable(answer) == answer.status = "ok" /\ ValidResult(Current.op, answer.result)

(* _MutableDeclaration.observe(). *)
Noted(tally, causes) == [count |-> tally.count + 1, causes |-> tally.causes \cup causes]

(* What one answered step says of each declaration it observes. *)
CausesFor(d, answer) ==
  IF d = Effects
  THEN IF \E e \in Recorded(answer) : e.at = seq /\ e.disposition = "forbidden"
       THEN {"FORBIDDEN_EVENT"} ELSE {}
  ELSE IF answer.result # Current.expected THEN {"OBSERVATION_MISMATCH"} ELSE {}

ObservedBy(step) == step.declarations \cup {Effects}

Observe(tallies, answer) ==
  [d \in DOMAIN tallies |->
     IF d \in ObservedBy(Current) THEN Noted(tallies[d], CausesFor(d, answer)) ELSE tallies[d]]

(* One step of a case. *)
Invoke ==
  /\ InCase
  /\ Usable(Answered)
  /\ adapter' = Answered.adapter
  /\ bindings' = Append(bindings, Answered.handle)
  /\ events' = Recorded(Answered)
  /\ cases' = [cases EXCEPT ![case] = Observe(@, Answered)]
  /\ global' = Observe(global, Answered)
  /\ seq' = seq + 1
  /\ UNCHANGED <<mode, pc, case, failed, result>>

(* The adapter answers with an error or with a result of a wrong shape, or *)
(* ends instead: nothing of the step is observed.                          *)
AdapterFails ==
  /\ InCase
  /\ ~Usable(Answered)
  /\ adapter' = Answered.adapter
  /\ events' = Recorded(Answered)
  /\ failed' = "adapter"
  /\ pc' = "close"
  /\ UNCHANGED <<mode, case, bindings, seq, cases, global, result>>

NextCase ==
  /\ pc = "cases"
  /\ At > Len(Steps)
  /\ IF case = Len(Plan) THEN pc' = "close" /\ UNCHANGED <<case, bindings>>
     ELSE case' = case + 1 /\ bindings' = <<>> /\ UNCHANGED pc
  /\ UNCHANGED <<mode, adapter, seq, observed, failed, result>>

(* The session cannot be started, fails at a request, after the events of  *)
(* its answer or before, or is not closed cleanly.                         *)
SessionFails ==
  /\ InCase \/ pc = "close"
  /\ failed = "no"
  /\ failed' = "session"
  /\ pc' = IF pc = "close" THEN "summary" ELSE "close"
  /\ events' \in {events, IF InCase THEN Recorded(Answered) ELSE events}
  /\ UNCHANGED <<mode, adapter, case, bindings, seq, cases, global, result>>

Close ==
  /\ pc = "close"
  /\ pc' = "summary"
  /\ UNCHANGED <<mode, adapter, case, bindings, seq, observed, failed, result>>

(* freeze(): the same with and without an execution error. *)
Frozen(tally) ==
  IF tally.causes # {} THEN "challenges"
  ELSE IF tally.count > 0 THEN "supports"
  ELSE "inconclusive"

Outcomes == {Frozen(global[d]) : d \in DOMAIN global}

(* The result of the report. *)
Summary_SemanticOnly ==
  IF "challenges" \in Outcomes THEN "challenges"
  ELSE IF Outcomes = {"supports"} THEN "supports"
  ELSE "inconclusive"

Summary ==
  IF failed # "no" THEN "error"
  ELSE IF "challenges" \in Outcomes THEN "challenges"
  ELSE IF Outcomes = {"supports"} THEN "supports"
  ELSE "inconclusive"

Report ==
  /\ pc = "summary"
  /\ result' = Summary
  /\ pc' = "done"
  /\ UNCHANGED <<mode, adapter, case, bindings, seq, observed, failed>>

Next ==
  \/ Capture \/ PlanNotAuthentic
  \/ Invoke \/ AdapterFails \/ NextCase
  \/ SessionFails \/ Close \/ Report

Spec == Init /\ [][Next]_vars

-----------------------------------------------------------------------------
(* Properties. *)

Challenged(tallies) == {d \in DOMAIN tallies : Frozen(tallies[d]) = "challenges"}

Faithful == {"reference", "interned", "optional-event", "unspecified-event",
             "ordered-events", "nonmatching-io-boundary"} \cup Servers

(* The law each adapter of the fixture breaks. *)
Breaks(m) ==
  CASE m \in Faithful \cup Refusing -> {}
    [] m = "wrong-empty"            -> {"lookup-empty"}
    [] m = "wrong-same"             -> {"lookup-put-same"}
    [] m = "wrong-other"            -> {"lookup-put-other"}
    [] m = "reorder-existing"       -> {"put-existing-position"}
    [] m = "wrong-append"           -> {"put-new-appends"}
    [] m \in {"destructive-new", "destructive-existing"} -> {"persistence"}
    [] m \in {"forbidden-event", "long-forbidden-event"} -> {Effects}

(* "disagrees with the plan challenges only the declarations attached to   *)
(* that observation" (ordered_map_runner.py:4): wherever the session       *)
(* fails, an adapter is blamed for no law but the one its answers break.   *)
BlameDeserved ==
  Challenged(global) \subseteq Breaks(mode)

(* The plan is strong enough: a session that does not fail finds out each  *)
(* adapter that breaks a law, and supports those that break none; the Rust *)
(* and the TypeScript server are supported, and refuse no request of it.   *)
BreakageFound ==
  (result # "none" /\ failed \notin {"plan", "session"} /\ mode \notin Refusing) =>
    /\ Challenged(global) = Breaks(mode)
    /\ result = IF Breaks(mode) = {} THEN "supports" ELSE "challenges"

(* "Framing, lifecycle, and adapter failures are execution errors and      *)
(* never become semantic counterexamples" (ordered_map_runner.py:5), and   *)
(* what is reported as supported or challenged is a whole campaign: every  *)
(* request was answered, and each declaration observed as often as the     *)
(* plan has it, in the cases and over all of them.                         *)
ReportIsWhole ==
  /\ failed # "no" /\ result # "none" => result = "error"
  /\ result \in {"supports", "challenges", "inconclusive"} =>
       /\ failed = "no"
       /\ result # "inconclusive"
       /\ \A c \in DOMAIN Plan : \A d \in DeclarationsOf(Plan[c]) :
            cases[c][d].count =
              Cardinality({i \in DOMAIN Plan[c] : d \in ObservedBy(Plan[c][i])})
       /\ global[Effects].count = seq
       /\ Challenged(global) = UNION {Challenged(cases[c]) : c \in DOMAIN cases}

=============================================================================
