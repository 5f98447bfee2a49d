--------------------------- MODULE LeaseInspection ---------------------------
(***************************************************************************)
(* inspect_protocol_package of semantic_packages/lease_session.py: one     *)
(* inspection of the lease package, and a maintainer who edits the files   *)
(* it reads while it runs.                                                 *)
(*                                                                         *)
(* The manifest pins the registry: the records are captured only when they *)
(* are the ones it names.  A registry holds the lease protocol, the plan   *)
(* and program digests the evidence of each realisation is bound to, and   *)
(* for each record the fields that are not what the inspection expects.    *)
(* The digest of a file stands for its contents, so it is the contents.    *)
(***************************************************************************)
EXTENDS LeaseSession

CONSTANTS Registries,  \* the registries an inspection may find
          Republished, \* those a maintainer may publish while it runs
          Plans,       \* the plans a maintainer may put in place
          Programs,    \* what a maintainer may put in an adapter's source
          MaxEdits,    \* how often the files are edited
          Absent       \* no such file, record or report

Registered == {"table", "object"}
Order      == <<"table", "object", "breaker">>
Candidates == {"table", "object", "breaker"}

VARIABLES disk,      \* the manifest, the records, the plan and the sources
          edits,     \* edits made so far
          pc,        \* where the inspection is
          captured,  \* the registry of the captured graph
          plan,      \* the plan as it was loaded
          at,        \* the candidate and the scenario to run
          hashed,    \* the digest each source had when it was checked
          ran,       \* the programs each candidate's scenarios ran
          results,   \* the result of each candidate's scenarios
          raced,     \* files edited between a digest and its use
          touched,   \* files edited since their digest was taken
          report     \* what the inspection ends with

vars == <<disk, edits, pc, captured, plan, at, hashed, ran, results, raced, touched, report>>

-----------------------------------------------------------------------------
(* inspect_protocol_document: the protocol a registry's specification      *)
(* declares.  States, inputs and outputs are lists; a transition is        *)
(* <<from, input, output, to>>.                                            *)

SetOf(list)    == {list[i] : i \in DOMAIN list}
Distinct(list) == Cardinality(SetOf(list)) = Len(list)
IsList(value)  == value \in Seq(SetOf(value))

(* The states some transitions lead to, found in as many rounds as there   *)
(* are states.                                                             *)
Reachable(p) ==
  LET round[n \in 0..Len(p.states)] ==
        IF n = 0 THEN {p.initial}
        ELSE round[n - 1] \cup {t[4] : t \in {u \in SetOf(p.transitions) : u[1] \in round[n - 1]}}
  IN  round[Len(p.states)]

TransitionProblem(p, i) ==
  LET t == p.transitions[i] IN
  CASE ~({t[1], t[4]} \subseteq SetOf(p.states)) -> "PROTOCOL_UNKNOWN_STATE"
    [] {t[1], t[4]} \subseteq SetOf(p.states) /\ t[2] \notin SetOf(p.inputs) -> "PROTOCOL_UNKNOWN_INPUT"
    [] {t[1], t[4]} \subseteq SetOf(p.states) /\ t[2] \in SetOf(p.inputs) /\ t[3] \notin SetOf(p.outputs) ->
         "PROTOCOL_UNKNOWN_OUTPUT"
    [] OTHER ->
         IF \E j \in 1..(i - 1) : p.transitions[j][1] = t[1] /\ p.transitions[j][2] = t[2]
         THEN "PROTOCOL_DUPLICATE_TRANSITION" ELSE None

(* The problem that is reported; none when the set is empty.               *)
ProtocolProblems(p) ==
  LET bad == {i \in DOMAIN p.transitions : TransitionProblem(p, i) # None} IN
  IF p.declaredTwice                      THEN {"PROTOCOL_DUPLICATE_DECLARATION"}
  ELSE IF ~Distinct(p.states)             THEN {"PROTOCOL_DUPLICATE_STATE"}
  ELSE IF ~({p.initial} \cup p.terminals \subseteq SetOf(p.states)) THEN {"PROTOCOL_UNKNOWN_STATE"}
  ELSE IF p.initial \in p.terminals       THEN {"PROTOCOL_INITIAL_TERMINAL"}
  ELSE IF ~Distinct(p.inputs)             THEN {"PROTOCOL_DUPLICATE_INPUT"}
  ELSE IF ~Distinct(p.outputs)            THEN {"PROTOCOL_DUPLICATE_OUTPUT"}
  ELSE IF bad # {} THEN {TransitionProblem(p, CHOOSE i \in bad : \A j \in bad : i <= j)}
  ELSE IF Reachable(p) # SetOf(p.states)  THEN {"PROTOCOL_UNREACHABLE_STATE"}
  ELSE {}

-----------------------------------------------------------------------------
(* What the constants are: states and transitions that are no lists were   *)
(* refused before, and a plan in order has six scenarios, each a list of   *)
(* requests.                                                               *)

PlansFound == Plans \cup {r.evidence["object"].plan : r \in Registries}

ASSUME EditsAssumption == MaxEdits \in Nat

ASSUME ProtocolsAssumption ==
  \A r \in Registries \cup Republished :
    IsList(r.protocol.states) /\ IsList(r.protocol.transitions)

ASSUME PlansAssumption ==
  \A p \in PlansFound : p.ordered =>
    /\ IsList(p.scenarios) /\ p.scenarios # <<>>
    /\ \A inputs \in SetOf(p.scenarios) : IsList(inputs) /\ SetOf(inputs) \subseteq Requests

-----------------------------------------------------------------------------
(* A scenario. *)

(* _run_scenario: a fresh child is given every request at once.  A child   *)
(* that fails, or answers what is not an answer, ends the inspection.      *)
Faults == {<<"exits">>, <<"times-out">>, <<"short">>, <<"not-json">>, <<"no-state">>}

(* _evaluate_trace: the first step that is not the oracle's.  The state    *)
(* carried on is the oracle's.                                             *)
OracleStates(inputs) ==
  LET after[i \in 0..Len(inputs)] ==
        IF i = 0 THEN Available ELSE ExpectedStep(after[i - 1], inputs[i]).state
  IN  after

Mismatches(inputs, responses) ==
  {i \in DOMAIN inputs :
     responses[i] # ExpectedStep(OracleStates(inputs)[i - 1], inputs[i])}

Verdict(inputs, responses) ==
  IF Mismatches(inputs, responses) = {} THEN "supports" ELSE "challenges"

-----------------------------------------------------------------------------
(* The decision about a registered realisation. *)

Result_Last(candidate) == results[candidate][Len(results[candidate])]

Result(candidate) ==
  IF \A i \in DOMAIN results[candidate] : results[candidate][i] = "supports"
  THEN "supports" ELSE "challenges"

(* The loaded plan may pin another digest than the evidence does.          *)
Accepted_AnyEvidence(candidate) ==
  Result(candidate) = "supports" /\ captured.policy = {} /\ captured.claim[candidate] = {}

Accepted(candidate) ==
  /\ Result(candidate) = "supports"
  /\ captured.policy = {}
  /\ captured.claim[candidate] = {}
  /\ captured.evidence[candidate].differs = {}
  /\ captured.evidence[candidate].source = plan.pins[candidate]

-----------------------------------------------------------------------------
(* At first the plan and the sources are the ones some registry names.     *)
Init ==
  /\ \E r \in Registries :
       LET p == r.evidence["object"].plan IN
       disk = [manifest |-> r, records |-> r, plan |-> p,
               table |-> p.pins["table"], object |-> p.pins["object"], breaker |-> p.pins["breaker"]]
  /\ edits = 0
  /\ pc = "capture"
  /\ captured = Absent
  /\ plan = Absent
  /\ at = <<1, 1>>
  /\ hashed = [c \in Candidates |-> Absent]
  /\ ran = [c \in Candidates |-> {}]
  /\ results = [c \in Candidates |-> <<>>]
  /\ raced = {}
  /\ touched = {}
  /\ report = Absent

Fail(code) ==
  /\ pc' = "done"
  /\ report' = [problem |-> code]

(* inspect_manifest_graph and the checks of what was captured: only the    *)
(* first problem is reported.                                              *)
CaptureProblems(registry) ==
  LET bound == {registry.evidence[c].plan : c \in {x \in Registered : registry.evidence[x] # Absent}} IN
  IF disk.manifest # disk.records                           THEN {"GRAPH"}
  ELSE IF registry.missing                                  THEN {"PROTOCOL_REQUIRED_RECORD"}
  ELSE IF ProtocolProblems(registry.protocol) # {}          THEN ProtocolProblems(registry.protocol)
  ELSE IF \E c \in Registered : registry.evidence[c] = Absent THEN {"PROTOCOL_EVIDENCE_COUNT"}
  ELSE IF Cardinality(bound) # 1                            THEN {"PROTOCOL_PLAN_BINDING"}
  ELSE {}

Capture ==
  LET problems == CaptureProblems(disk.records) IN
  /\ pc = "capture"
  /\ touched' = touched \ {"manifest"}
  /\ IF problems # {}
     THEN /\ \E code \in problems : Fail(code)
          /\ UNCHANGED captured
     ELSE /\ captured' = disk.records
          /\ pc' = "plan"
          /\ UNCHANGED report
  /\ UNCHANGED <<disk, edits, plan, at, hashed, ran, results, raced>>

BoundPlan == captured.evidence["table"].plan

HashPlan ==
  /\ pc = "plan"
  /\ touched' = touched \ {"plan"}
  /\ IF disk.plan = Absent THEN Fail("PROTOCOL_PLAN_READ")
     ELSE IF disk.plan # BoundPlan THEN Fail("PROTOCOL_PLAN_DIGEST")
     ELSE pc' = "load" /\ UNCHANGED report
  /\ UNCHANGED <<disk, edits, captured, plan, at, hashed, ran, results, raced>>

(* The file is read a second time.                                         *)
LoadPlan ==
  /\ pc = "load"
  /\ raced' = raced \cup (touched \cap {"plan"})
  /\ plan' = disk.plan
  /\ IF disk.plan = Absent THEN Fail("PROTOCOL_PLAN_READ")
     ELSE IF ~disk.plan.ordered THEN Fail("PROTOCOL_SCENARIO_ORDER")
     ELSE pc' = "hash" /\ UNCHANGED report
  /\ UNCHANGED <<disk, edits, captured, at, hashed, ran, results, touched>>

Candidate == Order[at[1]]

SourceProblems_AnyDigest(c) ==
  IF disk[c] = Absent THEN {"PROTOCOL_SOURCE_READ"} ELSE {}

SourceProblems(c) ==
  IF disk[c] = Absent THEN {"PROTOCOL_SOURCE_READ"}
  ELSE IF disk[c] # plan.pins[c] THEN {"PROTOCOL_SOURCE_DIGEST"}
  ELSE {}

HashSource ==
  /\ pc = "hash"
  /\ touched' = touched \ {Candidate}
  /\ hashed' = [hashed EXCEPT ![Candidate] = disk[Candidate]]
  /\ IF SourceProblems(Candidate) # {}
     THEN \E code \in SourceProblems(Candidate) : Fail(code)
     ELSE pc' = "run" /\ UNCHANGED report
  /\ UNCHANGED <<disk, edits, captured, plan, at, ran, results, raced>>

(* Each scenario starts the source anew, as it is then.                    *)
RunScenario ==
  LET program == disk[Candidate]
      inputs  == plan.scenarios[at[2]]
      last    == at[2] = Len(plan.scenarios)
  IN
  /\ pc = "run"
  /\ raced' = raced \cup (touched \cap {Candidate})
  /\ ran' = [ran EXCEPT ![Candidate] = @ \cup {program}]
  /\ IF program \in Faults \cup {Absent}
     THEN /\ Fail("PROTOCOL_CANDIDATE_EXECUTION")
          /\ UNCHANGED <<results, at>>
     ELSE /\ results' = [results EXCEPT ![Candidate] = Append(@, Verdict(inputs, Responses(program, inputs)))]
          /\ at' = IF last THEN <<at[1] + 1, 1>> ELSE <<at[1], at[2] + 1>>
          /\ pc' = IF ~last THEN "run" ELSE IF at[1] = Len(Order) THEN "report" ELSE "hash"
          /\ UNCHANGED report
  /\ UNCHANGED <<disk, edits, captured, plan, hashed, touched>>

(* The manifest is read again for the digest the report gives.             *)
Report ==
  /\ pc = "report"
  /\ raced' = raced \cup (touched \cap {"manifest"})
  /\ report' = [problem    |-> None,
                manifest   |-> disk.manifest,
                plan       |-> BoundPlan,
                candidates |-> [c \in Candidates |-> Result(c)],
                accepted   |-> {c \in Registered : Accepted(c)}]
  /\ pc' = "done"
  /\ UNCHANGED <<disk, edits, captured, plan, at, hashed, ran, results, touched>>

(* The maintainer publishes a registry, or edits the plan or a source.     *)
Edit ==
  /\ pc # "done"
  /\ edits < MaxEdits
  /\ edits' = edits + 1
  /\ \/ \E r \in Republished :
          /\ r # disk.manifest
          /\ disk' = [disk EXCEPT !.manifest = r, !.records = r]
          /\ touched' = touched \cup {"manifest"}
     \/ \E p \in Plans \cup {Absent} :
          /\ p # disk.plan
          /\ disk' = [disk EXCEPT !.plan = p]
          /\ touched' = touched \cup {"plan"}
     \/ \E c \in Candidates, program \in Programs \cup {Absent} :
          /\ program # disk[c]
          /\ disk' = [disk EXCEPT ![c] = program]
          /\ touched' = touched \cup {c}
  /\ UNCHANGED <<pc, captured, plan, at, hashed, ran, results, raced, report>>

Next == Capture \/ HashPlan \/ LoadPlan \/ HashSource \/ RunScenario \/ Report \/ Edit

Spec == Init /\ [][Next]_vars

-----------------------------------------------------------------------------
Reported == pc = "done" /\ report.problem = None

(* A trace keeps the promises of a lease: whatever is granted goes to the  *)
(* holder until the lease closes, a token closes it only if it was given,  *)
(* and nothing is granted or closed again after that.                      *)
KeepsPromises(inputs, responses) ==
  \A i, j \in DOMAIN inputs : i < j =>
    /\ (responses[i].output.status = "granted" /\ responses[j].output.status = "granted") =>
         inputs[i] = inputs[j]
    /\ responses[i].output.status \in Closed =>
         /\ responses[j].output.status = "terminal"
         /\ responses[j].state = responses[i].state
    /\ responses[j].output.status = "completed" => inputs[j].token = "t1"

(* What a program gets wrong, if anything.  The breaker also expires a     *)
(* lease that nobody holds.                                                *)
MistakesOf(program) ==
  IF program = Breaker THEN {<<"expired", "complete">>, <<"available", "expire">>} ELSE {program}

(* A candidate that one program ran for is challenged exactly when that    *)
(* program makes a mistake a scenario of the plan gives it the chance to   *)
(* make; and one that is supported kept every promise of a lease.          *)
CampaignDecides ==
  Reported => \A c \in Candidates : \A program \in ran[c] :
    ran[c] = {program} =>
      LET made == {i \in DOMAIN plan.scenarios :
                     \E k \in DOMAIN plan.scenarios[i] :
                       LET p == Processes(program, plan.scenarios[i])[k - 1]
                       IN  <<p.phase, InputOf(p, plan.scenarios[i][k])>> \in MistakesOf(program)}
      IN
      /\ report.candidates[c] = "challenges" <=> made # {}
      /\ report.candidates[c] = "supports" =>
           \A i \in DOMAIN plan.scenarios :
             KeepsPromises(plan.scenarios[i], Responses(program, plan.scenarios[i]))

(* What a report binds is what it was made from, but for the files that    *)
(* were edited between their digest and their use: the manifest up to the  *)
(* end, the plan between its two reads, a source until its last run.       *)
BindingsHold ==
  Reported =>
    /\ "manifest" \notin raced => report.manifest = captured
    /\ "plan" \notin raced => report.plan = plan
    /\ \A c \in Candidates \ raced : ran[c] = {plan.pins[c]}

(* An accepted realisation is one whose evidence names the very program    *)
(* that was checked, which supported its claim in every scenario, under a  *)
(* protocol whose states can all be reached and that never has two answers *)
(* to one input.                                                           *)
AcceptedIsBound ==
  Reported =>
    /\ \A c \in report.accepted :
         /\ captured.evidence[c].source = hashed[c]
         /\ captured.evidence[c].differs = {}
         /\ c \notin raced => \A p \in ran[c] : p = captured.evidence[c].source
         /\ Len(results[c]) = Len(plan.scenarios)
    /\ LET p == captured.protocol IN
       /\ \A s \in SetOf(p.states) \ {p.initial} : \E t \in SetOf(p.transitions) : t[4] = s /\ t[1] # s
       /\ \A i, j \in DOMAIN p.transitions :
            p.transitions[i][1] = p.transitions[j][1] /\ p.transitions[i][2] = p.transitions[j][2] => i = j

=============================================================================
