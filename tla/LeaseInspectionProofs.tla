------------------------ MODULE LeaseInspectionProofs ------------------------
(***************************************************************************)
(* What LeaseInspection is proved to do, for every registry, plan and      *)
(* program and any number of edits.                                        *)
(***************************************************************************)
EXTENDS LeaseInspection, ProofLemmas

Stages == {"capture", "plan", "load", "hash", "run", "report", "done"}
Files  == {"manifest", "records", "plan"} \cup Candidates

Early    == pc \in {"capture", "plan", "load"}
Running  == pc \in {"hash", "run", "report"}
Underway == pc \in {"plan", "load"} \/ Running \/ Reported
Loaded   == Running \/ Reported

(* Where the inspection is. *)
Position ==
  /\ pc \in Stages
  /\ DOMAIN disk = Files
  /\ Early => at = <<1, 1>> /\ raced = {}
  /\ pc \in {"hash", "run"} => at \in (1 .. 3) \X (Nat \ {0})
  /\ pc = "hash" => at[2] = 1
  /\ pc = "report" \/ Reported => at = <<4, 1>>

(* A plan on disk is one that was found or put there; a graph that was     *)
(* captured has a sound protocol and is the one the manifest names until   *)
(* that is edited.                                                         *)
CapturedSound ==
  /\ disk.plan \in PlansFound \cup {Absent}
  /\ disk.records \in Registries \cup Republished
  /\ Underway => /\ captured \in Registries \cup Republished
                 /\ ProtocolProblems(captured.protocol) = {}
  /\ Underway /\ ~Reported /\ "manifest" \notin touched => disk.manifest = captured
  /\ Reported /\ "manifest" \notin raced => report.manifest = captured

(* The plan that was loaded is in order, and the one the evidence names    *)
(* unless it was edited between its two reads.                             *)
PlanBound ==
  /\ pc = "load" /\ "plan" \notin touched => disk.plan = BoundPlan
  /\ Loaded => /\ plan \in PlansFound /\ plan.ordered
               /\ "plan" \notin raced => plan = BoundPlan
  /\ Reported => report.plan = BoundPlan

(* A source that runs was hashed and is the one the plan pins until it is  *)
(* edited.                                                                 *)
SourceHashed ==
  /\ DOMAIN hashed = Candidates
  /\ pc = "run" => /\ hashed[Candidate] = plan.pins[Candidate]
                   /\ Candidate \notin touched => disk[Candidate] = plan.pins[Candidate]

(* Every candidate has a result for each scenario it was run in, and ran   *)
(* the pinned program unless it was edited.                                *)
ResultsKept ==
  /\ DOMAIN ran = Candidates
  /\ results \in [Candidates -> Seq({"supports", "challenges"})]
  /\ Early => \A c \in Candidates : ran[c] = {} /\ results[c] = <<>>
  /\ Loaded => \A k \in 1 .. 3 :
       /\ k < at[1] => /\ Len(results[Order[k]]) = Len(plan.scenarios)
                       /\ hashed[Order[k]] = plan.pins[Order[k]]
       /\ k = at[1] => Len(results[Order[k]]) = at[2] - 1 /\ at[2] <= Len(plan.scenarios)
       /\ k > at[1] => results[Order[k]] = <<>>
       /\ results[Order[k]] # <<>> => ran[Order[k]] # {}
       /\ Order[k] \notin raced => ran[Order[k]] \subseteq {plan.pins[Order[k]]}

(* Every result is the verdict about a program the candidate ran.          *)
VerdictsKept ==
  Loaded => \A c \in Candidates : \A i \in DOMAIN results[c] : \E program \in ran[c] :
    results[c][i] = Verdict(plan.scenarios[i], Responses(program, plan.scenarios[i]))

ReportFits ==
  Reported =>
    /\ report.candidates = [c \in Candidates |-> Result(c)]
    /\ \A c \in report.accepted : /\ c \in Registered
                                  /\ captured.evidence[c].differs = {}
                                  /\ captured.evidence[c].source = plan.pins[c]

IInv == /\ Position /\ CapturedSound /\ PlanBound
        /\ SourceHashed /\ ResultsKept /\ VerdictsKept /\ ReportFits

-----------------------------------------------------------------------------
(* The candidates, one by one.                                             *)
LEMMA OrderFacts ==
  /\ Candidates = {Order[1], Order[2], Order[3]}
  /\ \A k \in 1 .. 3 : Order[k] \in Candidates
  /\ \A j, k \in 1 .. 3 : Order[j] = Order[k] => j = k
  /\ Len(Order) = 3
  /\ Registered \subseteq Candidates
BY DEF Order, Candidates, Registered

(* A problem of a protocol is never the absence of a problem.              *)
LEMMA ProblemsNamed ==
  ASSUME NEW p, IsList(p.transitions), NEW code \in ProtocolProblems(p)
  PROVE  code # None
<1> DEFINE bad == {i \in DOMAIN p.transitions : TransitionProblem(p, i) # None}
<1>1. bad \subseteq Nat
    BY DEF IsList
<1>2. bad # {} => TransitionProblem(p, CHOOSE i \in bad : \A j \in bad : i <= j) # None
  <2>1. SUFFICES ASSUME bad # {} PROVE \E i \in bad : \A j \in bad : i <= j
      OBVIOUS
  <2> HIDE DEF bad
  <2> QED BY <1>1, <2>1, LeastNumber
<1> QED BY <1>2 DEF ProtocolProblems, None

(* The inductive invariant holds at first.                                 *)
LEMMA InitOK == Init => IInv
<1> SUFFICES ASSUME Init PROVE IInv
    OBVIOUS
<1>1. Position
    BY DEF Init, Position, Stages, Early, Reported, Files, Candidates
<1>2. CapturedSound
    BY DEF Init, CapturedSound, Underway, Running, Reported, PlansFound
<1>3. PlanBound /\ SourceHashed /\ VerdictsKept /\ ReportFits
    BY DEF Init, PlanBound, SourceHashed, VerdictsKept, ReportFits, Loaded, Running, Reported
<1>4. ResultsKept
    BY DEF Init, ResultsKept, Early, Loaded, Running, Reported
<1> QED BY <1>1, <1>2, <1>3, <1>4 DEF IInv

(* An inspection that fails reports its problem.                           *)
LEMMA FailReports ==
  ASSUME NEW code, code # None, Fail(code)
  PROVE  pc' = "done" /\ ~Reported'
BY DEF Fail, Reported

(* What a capture refuses has a name.                                      *)
LEMMA CaptureProblemsNamed ==
  ASSUME NEW r \in Registries \cup Republished, NEW code \in CaptureProblems(r)
  PROVE  code # None
<1>1. IsList(r.protocol.transitions)
    BY ProtocolsAssumption
<1>2. \A c \in ProtocolProblems(r.protocol) : c # None
    BY <1>1, ProblemsNamed
<1> QED BY <1>2 DEF CaptureProblems, None

(* A capture keeps the invariant.                                          *)
LEMMA CaptureOK == IInv /\ Capture => IInv'
<1> SUFFICES ASSUME IInv, Capture PROVE IInv'
    OBVIOUS
<1>1. /\ pc = "capture" /\ touched' = touched \ {"manifest"}
      /\ UNCHANGED <<disk, edits, plan, at, hashed, ran, results, raced>>
    BY DEF Capture
<1>2. /\ Position /\ CapturedSound /\ SourceHashed /\ ResultsKept
      /\ Early /\ ~Loaded
    BY <1>1 DEF IInv, Early, Loaded, Running, Reported
<1>3. CASE CaptureProblems(disk.records) # {}
  <2>1. pc' = "done" /\ ~Reported'
    <3>1. PICK code \in CaptureProblems(disk.records) : Fail(code)
        BY <1>3 DEF Capture
    <3>2. code # None
        BY <1>2, CaptureProblemsNamed DEF CapturedSound
    <3> QED BY <3>1, <3>2, FailReports
  <2>2. ~Loaded' /\ ~Underway' /\ ~Early'
      BY <2>1 DEF Loaded, Underway, Running, Early
  <2>3. Position'
      BY <1>1, <1>2, <2>1, <2>2 DEF Position, Stages, Early
  <2>4. CapturedSound' /\ PlanBound' /\ VerdictsKept' /\ ReportFits'
      BY <1>1, <1>2, <2>1, <2>2 DEF CapturedSound, PlanBound, VerdictsKept, ReportFits
  <2>5. SourceHashed' /\ ResultsKept'
      BY <1>1, <1>2, <2>1, <2>2 DEF SourceHashed, ResultsKept
  <2> QED BY <2>3, <2>4, <2>5 DEF IInv
<1>4. CASE CaptureProblems(disk.records) = {}
  <2>1. pc' = "plan" /\ captured' = disk.records /\ UNCHANGED report
      BY <1>4 DEF Capture
  <2>2. ~Loaded' /\ Early' /\ ~Reported'
      BY <2>1 DEF Loaded, Running, Early, Reported
  <2>3. disk.manifest = disk.records /\ ProtocolProblems(disk.records.protocol) = {}
      BY <1>4 DEF CaptureProblems
  <2>4. Position'
      BY <1>1, <1>2, <2>1, <2>2 DEF Position, Stages, Early
  <2>5. CapturedSound'
      BY <1>1, <1>2, <2>1, <2>2, <2>3 DEF CapturedSound
  <2>6. PlanBound' /\ VerdictsKept' /\ ReportFits'
      BY <2>1, <2>2 DEF PlanBound, VerdictsKept, ReportFits
  <2>7. SourceHashed' /\ ResultsKept'
      BY <1>1, <1>2, <2>1, <2>2 DEF SourceHashed, ResultsKept
  <2> QED BY <2>4, <2>5, <2>6, <2>7 DEF IInv
<1> QED BY <1>3, <1>4

(* The first reading of the plan keeps the invariant.                      *)
LEMMA HashPlanOK == IInv /\ HashPlan => IInv'
<1> SUFFICES ASSUME IInv, HashPlan PROVE IInv'
    OBVIOUS
<1>1. /\ pc = "plan" /\ touched' = touched \ {"plan"}
      /\ UNCHANGED <<disk, edits, captured, plan, at, hashed, ran, results, raced>>
    BY DEF HashPlan
<1>2. /\ Position /\ CapturedSound /\ SourceHashed /\ ResultsKept
      /\ Early /\ Underway /\ ~Loaded /\ ~Reported
    BY <1>1 DEF IInv, Early, Loaded, Underway, Running, Reported
<1>3. \/ pc' = "done" /\ ~Reported'
      \/ pc' = "load" /\ ~Reported' /\ disk.plan = BoundPlan
    BY FailReports DEF HashPlan, Reported, None
<1>4. ~Loaded' /\ ~Reported' /\ (pc' = "done" => ~Early' /\ ~Underway')
    BY <1>3 DEF Loaded, Underway, Running, Early
<1>5. Position'
    BY <1>1, <1>2, <1>3, <1>4 DEF Position, Stages, Early
<1>6. CapturedSound'
    BY <1>1, <1>2, <1>3, <1>4 DEF CapturedSound
<1>7. PlanBound' /\ VerdictsKept' /\ ReportFits'
    BY <1>1, <1>3, <1>4 DEF PlanBound, VerdictsKept, ReportFits, BoundPlan
<1>8. SourceHashed' /\ ResultsKept'
    BY <1>1, <1>2, <1>3, <1>4 DEF SourceHashed, ResultsKept
<1> QED BY <1>5, <1>6, <1>7, <1>8 DEF IInv

(* The second reading of the plan keeps the invariant.                     *)
LEMMA LoadPlanOK == IInv /\ LoadPlan => IInv'
<1> SUFFICES ASSUME IInv, LoadPlan PROVE IInv'
    OBVIOUS
<1>1. /\ pc = "load" /\ plan' = disk.plan /\ raced' = raced \cup (touched \cap {"plan"})
      /\ UNCHANGED <<disk, edits, captured, at, hashed, ran, results, touched>>
    BY DEF LoadPlan
<1>2. /\ Position /\ CapturedSound /\ PlanBound /\ SourceHashed /\ ResultsKept
      /\ Early /\ Underway /\ ~Loaded /\ ~Reported
    BY <1>1 DEF IInv, Early, Loaded, Underway, Running, Reported
<1>3. \/ pc' = "done" /\ ~Reported'
      \/ pc' = "hash" /\ ~Reported' /\ disk.plan # Absent /\ disk.plan.ordered
    BY FailReports DEF LoadPlan, Reported, None
<1>4. ~Reported' /\ ~Early' /\ (pc' = "done" => ~Loaded' /\ ~Underway')
    BY <1>3 DEF Loaded, Underway, Running, Early
<1>5. at = <<1, 1>> /\ raced = {}
    BY <1>2 DEF Position
<1>6. Position'
    BY <1>1, <1>2, <1>3, <1>4, <1>5 DEF Position, Stages, Early
<1>7. CapturedSound'
    BY <1>1, <1>2, <1>3, <1>4 DEF CapturedSound
<1>8. PlanBound'
    BY <1>1, <1>2, <1>3, <1>4, <1>5 DEF PlanBound, CapturedSound, BoundPlan
<1>9. SourceHashed'
    BY <1>1, <1>2, <1>3 DEF SourceHashed
<1>10. \A c \in Candidates : ran[c] = {} /\ results[c] = <<>>
    BY <1>2 DEF ResultsKept
<1>11. VerdictsKept' /\ ReportFits'
    BY <1>1, <1>4, <1>10 DEF VerdictsKept, ReportFits
<1>12. ResultsKept'
  <2>1. CASE pc' = "done"
      BY <1>1, <1>2, <1>4, <2>1 DEF ResultsKept
  <2>2. CASE pc' = "hash"
    <3>1. Len(disk.plan.scenarios) >= 1
      <4>1. disk.plan \in PlansFound
          BY <1>2, <1>3, <2>2 DEF CapturedSound
      <4>2. IsList(disk.plan.scenarios) /\ disk.plan.scenarios # <<>>
          BY <1>3, <2>2, <4>1, PlansAssumption
      <4> QED BY <4>2 DEF IsList
    <3>2. \A k \in 1 .. 3 : ran[Order[k]] = {} /\ results[Order[k]] = <<>>
        BY <1>10, OrderFacts
    <3> HIDE DEF Candidates
    <3> QED BY <1>1, <1>2, <1>4, <1>5, <2>2, <3>1, <3>2 DEF ResultsKept
  <2> QED BY <1>3, <2>1, <2>2
<1> QED BY <1>6, <1>7, <1>8, <1>9, <1>11, <1>12 DEF IInv

(* Hashing a source keeps the invariant.                                   *)
LEMMA HashSourceOK == IInv /\ HashSource => IInv'
<1> SUFFICES ASSUME IInv, HashSource PROVE IInv'
    OBVIOUS
<1>1. /\ pc = "hash" /\ touched' = touched \ {Candidate}
      /\ hashed' = [hashed EXCEPT ![Candidate] = disk[Candidate]]
      /\ UNCHANGED <<disk, edits, captured, plan, at, ran, results, raced>>
    BY DEF HashSource
<1>2. /\ Position /\ CapturedSound /\ PlanBound /\ SourceHashed /\ ResultsKept /\ VerdictsKept
      /\ ~Early /\ Underway /\ Loaded /\ ~Reported
    BY <1>1 DEF IInv, Early, Loaded, Underway, Running, Reported
<1>3. \/ pc' = "done" /\ ~Reported'
      \/ pc' = "run" /\ ~Reported' /\ disk[Candidate] = plan.pins[Candidate]
    BY FailReports DEF HashSource, SourceProblems, Reported, None
<1>4. ~Reported' /\ ~Early' /\ (pc' = "done" => ~Loaded' /\ ~Underway')
    BY <1>3 DEF Loaded, Underway, Running, Early
<1>5. at[1] \in 1 .. 3 /\ at[2] = 1 /\ at \in (1 .. 3) \X (Nat \ {0})
    BY <1>1, <1>2 DEF Position
<1>6. Candidate = Order[at[1]] /\ Candidate \in Candidates /\ Candidate # "manifest"
    BY <1>5, OrderFacts DEF Candidate, Candidates
<1>7. Position'
    BY <1>1, <1>2, <1>3, <1>4 DEF Position, Stages, Early
<1>8. CapturedSound'
    BY <1>1, <1>2, <1>3, <1>4, <1>6 DEF CapturedSound
<1>9. PlanBound'
    BY <1>1, <1>2, <1>3, <1>4 DEF PlanBound, BoundPlan
<1>10. SourceHashed'
    BY <1>1, <1>2, <1>3, <1>6 DEF SourceHashed, Candidate
<1>11. VerdictsKept' /\ ReportFits'
    BY <1>1, <1>2, <1>4 DEF VerdictsKept, ReportFits
<1>12. ResultsKept'
  <2>1. DOMAIN hashed = Candidates
      BY <1>2 DEF SourceHashed
  <2>2. \A k \in 1 .. 3 : k < at[1] => hashed'[Order[k]] = hashed[Order[k]]
      BY <1>1, <1>5, <1>6, <2>1, OrderFacts
  <2> HIDE DEF Candidates
  <2> QED BY <1>1, <1>2, <1>4, <2>2 DEF ResultsKept
<1> QED BY <1>7, <1>8, <1>9, <1>10, <1>11, <1>12 DEF IInv

(* Reporting keeps the invariant.                                          *)
LEMMA ReportOK == IInv /\ Report => IInv'
<1> SUFFICES ASSUME IInv, Report PROVE IInv'
    OBVIOUS
<1>1. /\ pc = "report" /\ pc' = "done"
      /\ raced' = raced \cup (touched \cap {"manifest"})
      /\ UNCHANGED <<disk, edits, captured, plan, at, hashed, ran, results, touched>>
    BY DEF Report
<1>2. report' = [problem    |-> None,
                 manifest   |-> disk.manifest,
                 plan       |-> BoundPlan,
                 candidates |-> [c \in Candidates |-> Result(c)],
                 accepted   |-> {c \in Registered : Accepted(c)}]
    BY DEF Report
<1>3. /\ Position /\ CapturedSound /\ PlanBound /\ SourceHashed /\ ResultsKept /\ VerdictsKept
      /\ ~Early /\ Underway /\ Loaded /\ ~Reported
    BY <1>1 DEF IInv, Early, Loaded, Underway, Running, Reported
<1>4. Reported' /\ Loaded' /\ Underway' /\ ~Early'
    BY <1>1, <1>2 DEF Reported, Loaded, Underway, Running, Early
<1>5. \A k \in 1 .. 3 : Order[k] \notin raced' => Order[k] \notin raced
    BY <1>1
<1>6. Position'
    BY <1>1, <1>3, <1>4 DEF Position, Stages
<1>7. CapturedSound'
    BY <1>1, <1>2, <1>3, <1>4 DEF CapturedSound
<1>8. PlanBound'
    BY <1>1, <1>2, <1>3, <1>4 DEF PlanBound, BoundPlan
<1>9. SourceHashed' /\ VerdictsKept'
    BY <1>1, <1>3, <1>4 DEF SourceHashed, VerdictsKept
<1>10. ResultsKept'
  <2> HIDE DEF Candidates
  <2> QED BY <1>1, <1>3, <1>4, <1>5 DEF ResultsKept
<1>11. ReportFits'
  <2>1. \A c \in Candidates : Result(c)' = Result(c)
      BY <1>1 DEF Result
  <2>2. \A c \in report'.accepted : c \in Registered /\ Accepted(c)
      BY <1>2
  <2>3. report'.candidates = [c \in Candidates |-> Result(c)']
      BY <1>2, <2>1
  <2> QED BY <1>1, <2>2, <2>3 DEF ReportFits, Accepted
<1> QED BY <1>6, <1>7, <1>8, <1>9, <1>10, <1>11 DEF IInv

(* Edits keep the invariant.                                               *)
LEMMA EditOK == IInv /\ Edit => IInv'
<1> SUFFICES ASSUME IInv, Edit PROVE IInv'
    OBVIOUS
<1>1. /\ pc # "done"
      /\ UNCHANGED <<pc, captured, plan, at, hashed, ran, results, raced, report>>
    BY DEF Edit
<1>2. /\ Position /\ CapturedSound /\ PlanBound /\ SourceHashed /\ ResultsKept
      /\ VerdictsKept /\ ReportFits /\ ~Reported /\ ~Reported'
    BY <1>1 DEF IInv, Reported
<1>3. (Early' <=> Early) /\ (Loaded' <=> Loaded) /\ (Underway' <=> Underway)
    BY <1>1, <1>2 DEF Early, Loaded, Underway, Running
<1>4. \/ \E r \in Republished :
           /\ disk' = [disk EXCEPT !.manifest = r, !.records = r]
           /\ touched' = touched \cup {"manifest"}
      \/ \E p \in Plans \cup {Absent} :
           /\ disk' = [disk EXCEPT !.plan = p]
           /\ touched' = touched \cup {"plan"}
      \/ \E c \in Candidates, program \in Programs \cup {Absent} :
           /\ disk' = [disk EXCEPT ![c] = program]
           /\ touched' = touched \cup {c}
    BY DEF Edit
<1>5. DOMAIN disk = Files
    BY <1>2 DEF Position
<1>6. /\ DOMAIN disk' = Files /\ touched \subseteq touched'
      /\ \A f \in Files \ {"records"} : f \notin touched' => disk'[f] = disk[f]
      /\ disk'.plan = disk.plan \/ disk'.plan \in Plans \cup {Absent}
      /\ disk'.records = disk.records \/ disk'.records \in Republished
    BY <1>4, <1>5 DEF Files, Candidates
<1>7. Position'
    BY <1>1, <1>2, <1>3, <1>6 DEF Position
<1>8. CapturedSound'
    BY <1>1, <1>2, <1>3, <1>6 DEF CapturedSound, PlansFound, Files
<1>9. PlanBound'
    BY <1>1, <1>2, <1>3, <1>6 DEF PlanBound, BoundPlan, Files
<1>10. SourceHashed'
  <2>1. SUFFICES ASSUME pc = "run", Candidate \notin touched' PROVE disk'[Candidate] = plan.pins[Candidate]
      BY <1>1, <1>2 DEF SourceHashed, Candidate
  <2>2. Candidate \in Candidates
      BY <1>2, <2>1, OrderFacts DEF Position, Candidate
  <2> QED BY <1>2, <1>6, <2>1, <2>2 DEF SourceHashed, Files, Candidates
<1>11. ResultsKept' /\ VerdictsKept' /\ ReportFits'
    BY <1>1, <1>2, <1>3 DEF ResultsKept, VerdictsKept, ReportFits
<1> QED BY <1>7, <1>8, <1>9, <1>10, <1>11 DEF IInv

(* A run of a scenario keeps the invariant.                                *)
LEMMA RunScenarioOK == IInv /\ RunScenario => IInv'
<1> SUFFICES ASSUME IInv, RunScenario PROVE IInv'
    OBVIOUS
<1> DEFINE program == disk[Candidate]
           inputs  == plan.scenarios[at[2]]
           verdict == Verdict(inputs, Responses(program, inputs))
           last    == at[2] = Len(plan.scenarios)
<1>1. /\ pc = "run"
      /\ raced' = raced \cup (touched \cap {Candidate})
      /\ ran' = [ran EXCEPT ![Candidate] = @ \cup {program}]
      /\ UNCHANGED <<disk, edits, captured, plan, hashed, touched>>
    BY DEF RunScenario
<1>2. /\ Position /\ CapturedSound /\ PlanBound /\ SourceHashed /\ ResultsKept /\ VerdictsKept
      /\ ~Early /\ Underway /\ Loaded /\ ~Reported
    BY <1>1 DEF IInv, Early, Loaded, Underway, Running, Reported
<1>3. \/ pc' = "done" /\ ~Reported' /\ UNCHANGED <<results, at>>
      \/ /\ results' = [results EXCEPT ![Candidate] = Append(@, verdict)]
         /\ at' = IF last THEN <<at[1] + 1, 1>> ELSE <<at[1], at[2] + 1>>
         /\ pc' = IF ~last THEN "run" ELSE IF at[1] = Len(Order) THEN "report" ELSE "hash"
         /\ UNCHANGED report
    BY FailReports DEF RunScenario, None
<1>4. pc' \in {"done", "run", "report", "hash"} /\ ~Reported'
    BY <1>3 DEF Reported
<1>5. ~Early' /\ (pc' = "done" => ~Loaded' /\ ~Underway')
    BY <1>4 DEF Loaded, Underway, Running, Early
<1>6. /\ at[1] \in 1 .. 3 /\ at[2] \in Nat \ {0} /\ at = <<at[1], at[2]>>
    BY <1>1, <1>2 DEF Position
<1>7. Candidate = Order[at[1]] /\ Candidate \in Candidates /\ Candidate # "manifest" /\ Candidate # "plan"
    BY <1>6, OrderFacts DEF Candidate, Candidates
<1>8. at[2] <= Len(plan.scenarios) /\ Len(plan.scenarios) \in Nat
  <2>1. IsList(plan.scenarios)
      BY <1>2, PlansAssumption DEF PlanBound
  <2> QED BY <1>2, <1>6, <2>1 DEF ResultsKept, IsList
<1>9. verdict \in {"supports", "challenges"}
    BY DEF Verdict
<1> HIDE DEF program, inputs, verdict
<1>10. Position'
  <2>1. CASE pc' = "done"
      BY <1>1, <1>2, <1>4, <1>5, <2>1 DEF Position, Stages
  <2>2. CASE pc' # "done"
      BY <1>1, <1>2, <1>3, <1>4, <1>5, <1>6, <2>2, OrderFacts DEF Position, Stages
  <2> QED BY <2>1, <2>2
<1>11. CapturedSound'
    BY <1>1, <1>2, <1>4, <1>5, <1>7 DEF CapturedSound
<1>12. PlanBound'
    BY <1>1, <1>2, <1>4, <1>5, <1>7 DEF PlanBound, BoundPlan
<1>13. SourceHashed'
  <2>1. pc' = "run" => at'[1] = at[1]
      BY <1>3, <1>6
  <2> QED BY <1>1, <1>2, <2>1 DEF SourceHashed, Candidate
<1>14. DOMAIN ran' = Candidates /\ ran'[Candidate] = ran[Candidate] \cup {program}
       /\ \A c \in Candidates \ {Candidate} : ran'[c] = ran[c]
    BY <1>1, <1>2, <1>7 DEF ResultsKept
<1>15. results \in [Candidates -> Seq({"supports", "challenges"})]
    BY <1>2 DEF ResultsKept
<1>16. CASE pc' = "done"
  <2>1. ResultsKept'
      BY <1>3, <1>4, <1>5, <1>14, <1>15, <1>16 DEF ResultsKept
  <2> QED BY <1>5, <1>10, <1>11, <1>12, <1>13, <1>16, <2>1, <1>4 DEF IInv, VerdictsKept, ReportFits
<1>17. CASE pc' # "done"
  <2>1. /\ results' = [results EXCEPT ![Candidate] = Append(@, verdict)]
        /\ at' = IF last THEN <<at[1] + 1, 1>> ELSE <<at[1], at[2] + 1>>
      BY <1>3, <1>17
  <2>2. Len(results[Candidate]) = at[2] - 1
      BY <1>2, <1>6, <1>7 DEF ResultsKept
  <2>3. results' \in [Candidates -> Seq({"supports", "challenges"})]
      BY <1>7, <1>9, <1>15, <2>1
  <2>4. /\ results'[Candidate] = Append(results[Candidate], verdict)
        /\ \A c \in Candidates \ {Candidate} : results'[c] = results[c]
      BY <1>7, <1>15, <2>1
  <2>5. /\ Len(results'[Candidate]) = at[2]
        /\ DOMAIN results'[Candidate] = 1 .. at[2]
        /\ \A i \in 1 .. at[2] - 1 : results'[Candidate][i] = results[Candidate][i]
        /\ DOMAIN results[Candidate] = 1 .. at[2] - 1
        /\ results'[Candidate][at[2]] = verdict
    <3>1. results[Candidate] \in Seq({"supports", "challenges"})
        BY <1>7, <1>15
    <3> QED BY <1>6, <1>9, <2>2, <2>4, <3>1
  <2>6. VerdictsKept'
    <3>1. SUFFICES ASSUME NEW c \in Candidates, NEW i \in DOMAIN results'[c]
                   PROVE \E prog \in ran'[c] :
                     results'[c][i] = Verdict(plan.scenarios[i], Responses(prog, plan.scenarios[i]))
        BY <1>1 DEF VerdictsKept
    <3>2. CASE c # Candidate
        BY <1>2, <1>14, <2>4, <3>1, <3>2 DEF VerdictsKept
    <3>3. CASE c = Candidate /\ i = at[2]
        BY <1>14, <2>5, <3>3 DEF verdict, inputs
    <3>4. CASE c = Candidate /\ i # at[2]
      <4>1. i \in DOMAIN results[Candidate] /\ results'[Candidate][i] = results[Candidate][i]
          BY <1>6, <2>5, <3>1, <3>4
      <4> QED BY <1>2, <1>7, <1>14, <3>4, <4>1 DEF VerdictsKept
    <3> QED BY <3>2, <3>3, <3>4
  <2>7. ResultsKept'
    <3>1. SUFFICES ASSUME NEW k \in 1 .. 3
                   PROVE /\ k < at'[1] => /\ Len(results'[Order[k]]) = Len(plan.scenarios)
                                          /\ hashed[Order[k]] = plan.pins[Order[k]]
                         /\ k = at'[1] => /\ Len(results'[Order[k]]) = at'[2] - 1
                                          /\ at'[2] <= Len(plan.scenarios)
                         /\ k > at'[1] => results'[Order[k]] = <<>>
                         /\ results'[Order[k]] # <<>> => ran'[Order[k]] # {}
                         /\ Order[k] \notin raced' => ran'[Order[k]] \subseteq {plan.pins[Order[k]]}
        BY <1>1, <1>5, <1>14, <2>3 DEF ResultsKept
    <3>2. /\ k < at[1] => /\ Len(results[Order[k]]) = Len(plan.scenarios)
                          /\ hashed[Order[k]] = plan.pins[Order[k]]
          /\ k > at[1] => results[Order[k]] = <<>>
          /\ results[Order[k]] # <<>> => ran[Order[k]] # {}
          /\ Order[k] \notin raced => ran[Order[k]] \subseteq {plan.pins[Order[k]]}
        BY <1>2 DEF ResultsKept
    <3>3. hashed[Candidate] = plan.pins[Candidate]
        BY <1>1, <1>2 DEF SourceHashed
    <3>4. Candidate \notin raced' => program = plan.pins[Candidate] /\ Candidate \notin raced
        BY <1>1, <1>2 DEF SourceHashed, program
    <3>5. CASE k = at[1]
      <4>1. Order[k] = Candidate
          BY <1>7, <3>5
      <4>2. Order[k] \notin raced' => ran'[Order[k]] \subseteq {plan.pins[Order[k]]}
          BY <1>14, <3>2, <3>4, <4>1
      <4>3. /\ k < at'[1] => Len(results'[Order[k]]) = Len(plan.scenarios)
            /\ k = at'[1] => /\ Len(results'[Order[k]]) = at'[2] - 1
                             /\ at'[2] <= Len(plan.scenarios)
            /\ ~(k > at'[1])
          BY <1>6, <1>8, <2>1, <2>5, <3>5, <4>1
      <4> QED BY <1>14, <3>3, <4>1, <4>2, <4>3
    <3>6. CASE k # at[1]
      <4>1. Order[k] \in Candidates \ {Candidate}
          BY <1>6, <1>7, <3>6, OrderFacts
      <4>2. results'[Order[k]] = results[Order[k]] /\ ran'[Order[k]] = ran[Order[k]]
          BY <1>14, <2>4, <4>1
      <4>3. Order[k] \notin raced' => Order[k] \notin raced
          BY <1>1
      <4>4. (k < at'[1] <=> k < at[1]) /\ (k > at'[1] => k > at[1])
            /\ (k = at'[1] => k > at[1] /\ at'[2] = 1 /\ 1 <= Len(plan.scenarios))
          BY <1>6, <1>8, <2>1, <3>6
      <4>5. k = at'[1] => Len(results'[Order[k]]) = 0
          BY <3>2, <4>2, <4>4
      <4> QED BY <3>2, <4>2, <4>3, <4>4, <4>5
    <3> QED BY <3>5, <3>6
  <2> QED BY <1>4, <1>10, <1>11, <1>12, <1>13, <2>6, <2>7 DEF IInv, ReportFits
<1> QED BY <1>16, <1>17

-----------------------------------------------------------------------------
(* Every reachable state of the inspection satisfies the invariant.        *)
THEOREM Invariant == Spec => []IInv
<1>1. IInv /\ UNCHANGED vars => IInv'
  <2> SUFFICES ASSUME IInv, UNCHANGED vars PROVE IInv'
      OBVIOUS
  <2>1. (Early' <=> Early) /\ (Loaded' <=> Loaded) /\ (Underway' <=> Underway) /\ (Reported' <=> Reported)
      BY DEF vars, Early, Loaded, Underway, Running, Reported
  <2> QED BY <2>1 DEF vars, IInv, Position, CapturedSound, PlanBound, SourceHashed, ResultsKept,
                     VerdictsKept, ReportFits, BoundPlan, Candidate, Result
<1>2. IInv /\ [Next]_vars => IInv'
    BY <1>1, CaptureOK, HashPlanOK, LoadPlanOK, HashSourceOK, RunScenarioOK, ReportOK, EditOK DEF Next
<1> QED BY <1>2, InitOK, PTL DEF Spec

(* What was reported was run in full.                                      *)
LEMMA RanInFull ==
  ASSUME IInv, Reported, NEW c \in Candidates
  PROVE  /\ ran[c] # {} /\ hashed[c] = plan.pins[c]
         /\ Len(results[c]) = Len(plan.scenarios)
         /\ c \notin raced => ran[c] = {plan.pins[c]}
<1>1. PICK k \in 1 .. 3 : c = Order[k]
    BY OrderFacts
<1>2. Loaded /\ at[1] = 4
    BY DEF IInv, Position, Loaded
<1>3. /\ Len(results[c]) = Len(plan.scenarios)
      /\ hashed[c] = plan.pins[c]
      /\ results[c] # <<>> => ran[c] # {}
      /\ c \notin raced => ran[c] \subseteq {plan.pins[c]}
    BY <1>1, <1>2 DEF IInv, ResultsKept
<1>4. results[c] # <<>>
  <2>1. IsList(plan.scenarios) /\ plan.scenarios # <<>>
      BY <1>2, PlansAssumption DEF IInv, PlanBound
  <2>2. Len(plan.scenarios) # 0
      BY <2>1 DEF IsList
  <2> QED BY <1>3, <2>2
<1> QED BY <1>3, <1>4

(* What a report binds is what it was made from, but for the files that    *)
(* were edited between their digest and their use.                         *)
THEOREM BindsWhatItRan == Spec => []BindingsHold
<1>1. IInv => BindingsHold
  <2> SUFFICES ASSUME IInv, Reported PROVE BindingsHold
      BY DEF BindingsHold
  <2>1. "manifest" \notin raced => report.manifest = captured
      BY DEF IInv, CapturedSound
  <2>2. "plan" \notin raced => report.plan = plan
      BY DEF IInv, PlanBound, Loaded
  <2>3. \A c \in Candidates \ raced : ran[c] = {plan.pins[c]}
      BY RanInFull
  <2> QED BY <2>1, <2>2, <2>3 DEF BindingsHold
<1> QED BY <1>1, Invariant, PTL

-----------------------------------------------------------------------------
(* A state that is reached after so many rounds and is not the first was   *)
(* reached from another state.                                             *)
LEMMA ReachedFromAnother ==
  ASSUME NEW p, Len(p.states) \in Nat, NEW s \in Reachable(p), s # p.initial
  PROVE  \E t \in SetOf(p.transitions) : t[4] = s /\ t[1] # s
<1> DEFINE N       == Len(p.states)
           Led(S)  == S \cup {t[4] : t \in {u \in SetOf(p.transitions) : u[1] \in S}}
           D       == SUBSET ({p.initial} \cup {t[4] : t \in SetOf(p.transitions)})
           step    == [n \in 1 .. N |-> [S \in D |-> Led(S)]]
           Rounds(f) == f = [n \in 0 .. N |-> IF n = 0 THEN {p.initial} ELSE Led(f[n - 1])]
           round   == CHOOSE f : Rounds(f)
<1> HIDE DEF step, Led, D
<1>1. {p.initial} \in D /\ step \in StepFunctions(N, D)
    BY DEF step, Led, D, StepFunctions
<1>2. PICK f : Computes(f, {p.initial}, step, N, D)
    BY <1>1, RecursionExists
<1>3. ASSUME NEW n \in 1 .. N PROVE step[n][f[n - 1]] = Led(f[n - 1])
  <2>1. n - 1 \in 0 .. N
      OBVIOUS
  <2>2. f[n - 1] \in D
      BY <1>2, <2>1 DEF Computes
  <2> QED BY <2>2 DEF step
<1>4. Rounds(f)
  <2>1. \A n \in 0 .. N : n # 0 => n \in 1 .. N
      OBVIOUS
  <2>2. f = [n \in 0 .. N |-> f[n]]
      BY <1>2 DEF Computes
  <2>3. \A n \in 0 .. N : f[n] = IF n = 0 THEN {p.initial} ELSE Led(f[n - 1])
      BY <1>2, <1>3, <2>1 DEF Computes
  <2> QED BY <2>2, <2>3
<1>5. Rounds(round)
  <2> HIDE DEF Rounds
  <2> QED BY <1>4
<1>6. s \in round[N]
    BY DEF Reachable, Led
<1> HIDE DEF round
<1>7. \A n \in 0 .. N : round[n] = IF n = 0 THEN {p.initial} ELSE Led(round[n - 1])
  <2> HIDE DEF N
  <2> QED BY <1>5
<1> DEFINE Holding == {n \in 0 .. N : s \in round[n]}
<1>8. N \in Holding /\ Holding \subseteq Nat
  <2>1. N \in 0 .. N
      OBVIOUS
  <2> QED BY <1>6, <2>1
<1>9. PICK n \in Holding : \A m \in Holding : n <= m
  <2> HIDE DEF Holding
  <2> QED BY <1>8, LeastNumber
<1>10. n # 0
    BY <1>7, <1>9
<1>11. n - 1 \in 0 .. N /\ ~(n <= n - 1)
    BY <1>10
<1>12. s \notin round[n - 1] /\ s \in Led(round[n - 1])
    BY <1>7, <1>9, <1>10, <1>11
<1> QED BY <1>12 DEF Led

(* A protocol in which no problem was found never has two answers to one   *)
(* input, and all its states can be reached.                               *)
LEMMA SoundProtocol ==
  ASSUME NEW p, IsList(p.transitions), ProtocolProblems(p) = {}
  PROVE  /\ Reachable(p) = SetOf(p.states)
         /\ \A i, j \in DOMAIN p.transitions :
              p.transitions[i][1] = p.transitions[j][1] /\ p.transitions[i][2] = p.transitions[j][2] => i = j
<1> DEFINE bad == {i \in DOMAIN p.transitions : TransitionProblem(p, i) # None}
<1>1. Reachable(p) = SetOf(p.states) /\ bad = {}
    BY DEF ProtocolProblems
<1>2. ASSUME NEW i \in DOMAIN p.transitions, NEW j \in DOMAIN p.transitions, j < i,
             p.transitions[i][1] = p.transitions[j][1], p.transitions[i][2] = p.transitions[j][2]
      PROVE  FALSE
  <2>1. j \in 1 .. i - 1
      BY <1>2 DEF IsList
  <2>2. \E k \in 1 .. (i - 1) : p.transitions[k][1] = p.transitions[i][1] /\ p.transitions[k][2] = p.transitions[i][2]
      BY <1>2, <2>1
  <2>3. TransitionProblem(p, i) # None
      BY <2>2 DEF TransitionProblem, None
  <2> QED BY <1>1, <2>3
<1>3. \A i, j \in DOMAIN p.transitions : i # j => i < j \/ j < i
    BY DEF IsList
<1> HIDE DEF bad
<1> QED BY <1>1, <1>2, <1>3

(* An accepted realisation is one whose evidence names the program that    *)
(* was checked, which supported its claim in every scenario, under a sound *)
(* protocol.                                                               *)
THEOREM AcceptsWhatIsBound == Spec => []AcceptedIsBound
<1>1. IInv => AcceptedIsBound
  <2> SUFFICES ASSUME IInv, Reported PROVE AcceptedIsBound
      BY DEF AcceptedIsBound
  <2>1. ASSUME NEW c \in report.accepted
        PROVE  /\ captured.evidence[c].source = hashed[c]
               /\ captured.evidence[c].differs = {}
               /\ c \notin raced => \A p \in ran[c] : p = captured.evidence[c].source
               /\ Len(results[c]) = Len(plan.scenarios)
    <3>1. /\ c \in Candidates
          /\ captured.evidence[c].differs = {}
          /\ captured.evidence[c].source = plan.pins[c]
        BY <2>1, OrderFacts DEF IInv, ReportFits
    <3> QED BY <3>1, RanInFull
  <2> DEFINE p == captured.protocol
  <2>2. ProtocolProblems(p) = {} /\ IsList(p.transitions) /\ IsList(p.states)
      BY ProtocolsAssumption DEF IInv, CapturedSound, Underway
  <2>3. Len(p.states) \in Nat
      BY <2>2 DEF IsList
  <2> HIDE DEF p
  <2>4. \A s \in SetOf(p.states) \ {p.initial} : \E t \in SetOf(p.transitions) : t[4] = s /\ t[1] # s
      BY <2>2, <2>3, SoundProtocol, ReachedFromAnother
  <2>5. \A i, j \in DOMAIN p.transitions :
          p.transitions[i][1] = p.transitions[j][1] /\ p.transitions[i][2] = p.transitions[j][2] => i = j
      BY <2>2, SoundProtocol
  <2> QED BY <2>1, <2>4, <2>5 DEF AcceptedIsBound, p
<1> QED BY <1>1, Invariant, PTL

-----------------------------------------------------------------------------
(* One step of an implementation and of the oracle.                        *)

Phases == {"available", "held"} \cup Closed

Words  == STRING \cup {None, "t1"}

ProcessStates == [phase : Phases, holder : Words, request : Words, token : Words]
LeaseStates   == {[state |-> x] : x \in Phases \ {"held"}} \cup {Held(c, r) : c \in Words, r \in Words}

(* Only a lease that is held has a token, and that is t1.                  *)
WellFormed(p) ==
  /\ p \in ProcessStates
  /\ p.phase = "held" => p.token = "t1"
  /\ p.phase = "available" => p.token = None

(* What a process says and becomes is what the oracle expects.             *)
Agrees(b, p, m) == Answer(b.output, Snapshot(b.process)) = ExpectedStep(Snapshot(p), m)

(* A request is one of four operations with what belongs to it.            *)
LEMMA RequestKinds ==
  ASSUME NEW m \in Requests
  PROVE  /\ m.op \in {"acquire", "renew", "complete", "expire"}
         /\ m.op = "acquire" => m.client \in Words /\ m.request \in Words
         /\ m.op \in {"renew", "complete"} => m.token # None
         /\ m.op = "acquire" => m = [op |-> "acquire", client |-> m.client, request |-> m.request]
BY DEF Requests, Words

(* What the oracle expects of a process, phase by phase.                   *)
LEMMA Expectation ==
  ASSUME NEW p, WellFormed(p), NEW m \in Requests
  PROVE  /\ p.phase \in Closed =>
              ExpectedStep(Snapshot(p), m) = Answer(Terminal(p.phase), [state |-> p.phase])
         /\ p.phase = "available" =>
              ExpectedStep(Snapshot(p), m) =
                IF m.op = "acquire" THEN Answer(Granted, Held(m.client, m.request))
                ELSE Answer(Says("denied"), [state |-> "available"])
         /\ p.phase = "held" /\ m.op = "acquire" =>
              ExpectedStep(Snapshot(p), m) =
                Answer(IF m.client = p.holder /\ m.request = p.request THEN Granted ELSE Says("busy"), Snapshot(p))
         /\ p.phase = "held" /\ m.op = "renew" =>
              ExpectedStep(Snapshot(p), m) =
                Answer(Says(IF m.token = p.token THEN "renewed" ELSE "denied"), Snapshot(p))
         /\ p.phase = "held" /\ m.op = "complete" =>
              ExpectedStep(Snapshot(p), m) =
                IF m.token = p.token THEN Answer(Says("completed"), [state |-> "completed"])
                ELSE Answer(Says("denied"), Snapshot(p))
         /\ p.phase = "held" /\ m.op = "expire" =>
              ExpectedStep(Snapshot(p), m) = Answer(Says("expired"), [state |-> "expired"])
<1>1. p.phase # "held" => Snapshot(p) = [state |-> p.phase] /\ Snapshot(p).state = p.phase
    BY DEF Snapshot
<1>2. p.phase = "held" =>
        /\ Snapshot(p).state = "held" /\ Snapshot(p).holder = p.holder
        /\ Snapshot(p).request = p.request /\ Snapshot(p).token = p.token
    BY DEF Snapshot
<1> QED BY <1>1, <1>2 DEF ExpectedStep, Closed

(* What a process that lost its lease looks like, and one that got it.     *)
LEMMA ProcessKinds ==
  /\ \A phase \in Closed : WellFormed(Ended(phase)) /\ Snapshot(Ended(phase)) = [state |-> phase]
  /\ \A m \in Requests : m.op = "acquire" =>
       WellFormed(Took(m)) /\ Snapshot(Took(m)) = Held(m.client, m.request)
  /\ WellFormed(Fresh) /\ Snapshot(Fresh) = Available
<1>1. ASSUME NEW phase \in Phases, NEW holder \in Words, NEW request \in Words, NEW token \in Words,
             phase = "held" => token = "t1", phase = "available" => token = None
      PROVE  WellFormed([phase |-> phase, holder |-> holder, request |-> request, token |-> token])
  <2> DEFINE p == [phase |-> phase, holder |-> holder, request |-> request, token |-> token]
  <2>1. p \in ProcessStates
      BY DEF ProcessStates
  <2>2. p.phase = phase /\ p.token = token
      OBVIOUS
  <2> HIDE DEF p
  <2>3. WellFormed(p)
      BY <1>1, <2>1, <2>2 DEF WellFormed
  <2> QED BY <2>3 DEF p
<1>2. None \in Words /\ "t1" \in Words /\ Closed \subseteq Phases /\ "available" \in Phases /\ "held" \in Phases
    BY DEF Words, Phases
<1>3. ASSUME NEW phase \in Closed PROVE WellFormed(Ended(phase)) /\ Snapshot(Ended(phase)) = [state |-> phase]
  <2>1. Ended(phase) = [phase |-> phase, holder |-> None, request |-> None, token |-> None]
      BY DEF Ended, Fresh
  <2>2. phase # "held" /\ phase # "available" /\ phase \in Phases
      BY <1>2 DEF Closed
  <2>3. WellFormed(Ended(phase))
    <3>1. WellFormed([phase |-> phase, holder |-> None, request |-> None, token |-> None])
        BY <1>1, <1>2, <2>2
    <3> QED BY <2>1, <3>1
  <2>4. Ended(phase).phase = phase
      BY <2>1
  <2> QED BY <2>2, <2>3, <2>4 DEF Snapshot
<1>4. ASSUME NEW m \in Requests, m.op = "acquire"
      PROVE  WellFormed(Took(m)) /\ Snapshot(Took(m)) = Held(m.client, m.request)
  <2>1. m.client \in Words /\ m.request \in Words
      BY <1>4, RequestKinds
  <2>2. WellFormed(Took(m))
      BY <1>1, <1>2, <2>1 DEF Took
  <2>3. Snapshot(Took(m)) = Held(m.client, m.request)
      BY DEF Snapshot, Took, Held
  <2> QED BY <2>2, <2>3
<1>5. WellFormed(Fresh) /\ Snapshot(Fresh) = Available
  <2>1. WellFormed(Fresh)
      BY <1>1, <1>2 DEF Fresh
  <2>2. Snapshot(Fresh) = Available
      BY DEF Fresh, Snapshot, Available
  <2> QED BY <2>1, <2>2
<1> QED BY <1>3, <1>4, <1>5

(* What is said and what the process becomes.                              *)
LEMMA AgreesIf ==
  ASSUME NEW p, NEW m, NEW out, NEW q,
         ExpectedStep(Snapshot(p), m) = Answer(out, Snapshot(q))
  PROVE  Agrees(Becomes(out, q), p, m) /\ Becomes(out, q).process = q
BY DEF Agrees, Becomes

(* The operations of a lease that is held agree with the oracle.           *)
LEMMA HeldAgrees ==
  ASSUME NEW p, WellFormed(p), p.phase = "held", NEW m \in Requests
  PROVE  /\ m.op = "acquire" => Agrees(Acquire(p, m), p, m) /\ WellFormed(Acquire(p, m).process)
         /\ m.op = "renew" => Agrees(Renew(p, m), p, m) /\ WellFormed(Renew(p, m).process)
         /\ m.op = "complete" => Agrees(Complete(p, m), p, m) /\ WellFormed(Complete(p, m).process)
<1>1. p.token = "t1"
    BY DEF WellFormed
<1>2. CASE m.op = "acquire"
  <2> DEFINE out == IF m.client = p.holder /\ m.request = p.request THEN Granted ELSE Says("busy")
  <2>1. ExpectedStep(Snapshot(p), m) = Answer(out, Snapshot(p))
      BY <1>2, Expectation
  <2>2. Acquire(p, m) = Becomes(out, p)
      BY <1>1 DEF Acquire, Granted
  <2> HIDE DEF out
  <2> QED BY <1>2, <2>1, <2>2, AgreesIf
<1>3. CASE m.op = "renew"
  <2> DEFINE out == Says(IF m.token = p.token THEN "renewed" ELSE "denied")
  <2>1. ExpectedStep(Snapshot(p), m) = Answer(out, Snapshot(p))
      BY <1>3, Expectation
  <2>2. Renew(p, m) = Becomes(out, p)
      BY DEF Renew
  <2> HIDE DEF out
  <2> QED BY <1>3, <2>1, <2>2, AgreesIf
<1>4. CASE m.op = "complete"
  <2>1. CASE m.token = p.token
    <3>1. Complete(p, m) = Becomes(Says("completed"), Ended("completed"))
        BY <2>1 DEF Complete
    <3>2. ExpectedStep(Snapshot(p), m) = Answer(Says("completed"), Snapshot(Ended("completed")))
        BY <1>4, <2>1, Expectation, ProcessKinds DEF Closed
    <3> QED BY <1>4, <3>1, <3>2, AgreesIf, ProcessKinds DEF Closed
  <2>2. CASE m.token # p.token
    <3>1. Complete(p, m) = Becomes(Says("denied"), p)
        BY <2>2 DEF Complete
    <3>2. ExpectedStep(Snapshot(p), m) = Answer(Says("denied"), Snapshot(p))
        BY <1>4, <2>2, Expectation
    <3> QED BY <1>4, <3>1, <3>2, AgreesIf
  <2> QED BY <2>1, <2>2
<1> QED BY <1>2, <1>3, <1>4

(* The table adapter agrees with the oracle.                               *)
LEMMA TableAgrees ==
  ASSUME NEW p, WellFormed(p), NEW m \in Requests
  PROVE  Agrees(TableApply(p, m), p, m) /\ WellFormed(TableApply(p, m).process)
<1>1. CASE p.phase \in Closed
  <2>1. TableApply(p, m) = Becomes(Terminal(p.phase), p) /\ Snapshot(p) = [state |-> p.phase]
      BY <1>1 DEF TableApply, Closed, Snapshot
  <2> QED BY <1>1, <2>1, Expectation, AgreesIf
<1>2. CASE p.phase = "available"
  <2>1. TableApply(p, m) = IF m.op = "acquire" THEN Becomes(Granted, Took(m)) ELSE Becomes(Says("denied"), p)
      BY <1>2 DEF TableApply, Closed
  <2>2. Snapshot(p) = [state |-> "available"]
      BY <1>2 DEF Snapshot
  <2>3. CASE m.op = "acquire"
      BY <1>2, <2>1, <2>3, Expectation, AgreesIf, ProcessKinds
  <2>4. CASE m.op # "acquire"
      BY <1>2, <2>1, <2>2, <2>4, Expectation, AgreesIf
  <2> QED BY <2>3, <2>4
<1>3. CASE p.phase = "held"
  <2>1. TableApply(p, m) = CASE m.op = "acquire"  -> Acquire(p, m)
                             [] m.op = "renew"    -> Renew(p, m)
                             [] m.op = "complete" -> Complete(p, m)
                             [] OTHER             -> Becomes(Says("expired"), Ended("expired"))
      BY <1>3 DEF TableApply, Closed
  <2>2. CASE m.op = "expire"
    <3>1. ExpectedStep(Snapshot(p), m) = Answer(Says("expired"), Snapshot(Ended("expired")))
        BY <1>3, <2>2, Expectation, ProcessKinds DEF Closed
    <3>2. WellFormed(Ended("expired"))
        BY ProcessKinds DEF Closed
    <3> QED BY <2>1, <2>2, <3>1, <3>2, AgreesIf
  <2>3. CASE m.op # "expire"
      BY <1>3, <2>1, <2>3, RequestKinds, HeldAgrees
  <2> QED BY <2>2, <2>3
<1> QED BY <1>1, <1>2, <1>3 DEF WellFormed, ProcessStates, Phases

(* So does the object adapter, which looks at the operation first: a lease *)
(* that nobody holds has no token that a request could name.               *)
LEMMA ObjectAgrees ==
  ASSUME NEW p, WellFormed(p), NEW m \in Requests
  PROVE  Agrees(ObjectReceive(p, m), p, m) /\ WellFormed(ObjectReceive(p, m).process)
<1>1. CASE p.phase \in Closed
  <2>1. ObjectReceive(p, m) = Becomes(Terminal(p.phase), p) /\ Snapshot(p) = [state |-> p.phase]
      BY <1>1 DEF ObjectReceive, Closed, Snapshot
  <2> QED BY <1>1, <2>1, Expectation, AgreesIf
<1>2. CASE p.phase = "available"
  <2>1. ObjectReceive(p, m) = CASE m.op = "acquire"  -> Becomes(Granted, Took(m))
                                [] m.op = "renew"    -> Renew(p, m)
                                [] m.op = "complete" -> Complete(p, m)
                                [] OTHER             -> Becomes(Says("denied"), p)
      BY <1>2 DEF ObjectReceive, Closed
  <2>2. Snapshot(p) = [state |-> "available"] /\ p.token = None
      BY <1>2 DEF Snapshot, WellFormed
  <2>3. CASE m.op = "acquire"
      BY <1>2, <2>1, <2>3, Expectation, AgreesIf, ProcessKinds
  <2>4. CASE m.op # "acquire"
    <3>1. ObjectReceive(p, m) = Becomes(Says("denied"), p)
        BY <2>1, <2>2, <2>4, RequestKinds DEF Renew, Complete
    <3> QED BY <1>2, <2>2, <2>4, <3>1, Expectation, AgreesIf
  <2> QED BY <2>3, <2>4
<1>3. CASE p.phase = "held"
  <2>1. ObjectReceive(p, m) = CASE m.op = "acquire"  -> Acquire(p, m)
                                [] m.op = "renew"    -> Renew(p, m)
                                [] m.op = "complete" -> Complete(p, m)
                                [] OTHER             -> Becomes(Says("expired"), Ended("expired"))
      BY <1>3 DEF ObjectReceive, Closed
  <2>2. CASE m.op = "expire"
    <3>1. ExpectedStep(Snapshot(p), m) = Answer(Says("expired"), Snapshot(Ended("expired")))
        BY <1>3, <2>2, Expectation, ProcessKinds DEF Closed
    <3>2. WellFormed(Ended("expired"))
        BY ProcessKinds DEF Closed
    <3> QED BY <2>1, <2>2, <3>1, <3>2, AgreesIf
  <2>3. CASE m.op # "expire"
      BY <1>3, <2>1, <2>3, RequestKinds, HeldAgrees
  <2> QED BY <2>2, <2>3
<1> QED BY <1>1, <1>2, <1>3 DEF WellFormed, ProcessStates, Phases

(* An answer with another status is not the oracle's.                      *)
LEMMA DisagreesIf ==
  ASSUME NEW b, NEW p, NEW m, NEW x, NEW out, NEW after,
         b.output.status # x, ExpectedStep(Snapshot(p), m) = Answer(out, after), out.status = x
  PROVE  ~Agrees(b, p, m)
<1> DEFINE e == ExpectedStep(Snapshot(p), m)
<1>1. e.output.status = x
    BY DEF Answer
<1>2. Answer(b.output, Snapshot(b.process)).output.status # x
    BY DEF Answer
<1> HIDE DEF e
<1> QED BY <1>1, <1>2 DEF Agrees, e

(* The breaker agrees with the oracle, but it completes a lease that       *)
(* expired and expires one that nobody holds.                              *)
LEMMA BreakerAgrees ==
  ASSUME NEW p, WellFormed(p), NEW m \in Requests
  PROVE  IF (p.phase = "expired" /\ m.op = "complete") \/ (p.phase = "available" /\ m.op = "expire")
         THEN ~Agrees(BreakerReceive(p, m), p, m)
         ELSE Agrees(BreakerReceive(p, m), p, m) /\ WellFormed(BreakerReceive(p, m).process)
<1>1. CASE p.phase = "expired" /\ m.op = "complete"
  <2>1. BreakerReceive(p, m).output.status = "completed"
      BY <1>1 DEF BreakerReceive, Becomes, Says, Closed
  <2>2. ExpectedStep(Snapshot(p), m) = Answer(Terminal("expired"), [state |-> "expired"])
      BY <1>1, Expectation DEF Closed
  <2>3. Terminal("expired").status = "terminal"
      BY DEF Terminal
  <2> QED BY <1>1, <2>1, <2>2, <2>3, DisagreesIf
<1>2. CASE p.phase \in Closed /\ ~(p.phase = "expired" /\ m.op = "complete")
  <2>1. BreakerReceive(p, m) = Becomes(Terminal(p.phase), p) /\ Snapshot(p) = [state |-> p.phase]
      BY <1>2 DEF BreakerReceive, Closed, Snapshot
  <2>2. p.phase # "available"
      BY <1>2 DEF Closed
  <2>3. ExpectedStep(Snapshot(p), m) = Answer(Terminal(p.phase), Snapshot(p))
      BY <1>2, <2>1, Expectation
  <2>4. Agrees(BreakerReceive(p, m), p, m) /\ BreakerReceive(p, m).process = p
      BY <2>1, <2>3, AgreesIf
  <2> QED BY <1>2, <2>2, <2>4
<1>3. CASE p.phase = "available"
  <2>1. /\ m.op = "acquire" => BreakerReceive(p, m) = Becomes(Granted, Took(m))
        /\ m.op = "renew" => BreakerReceive(p, m) = Renew(p, m)
        /\ m.op = "complete" /\ m.token # p.token => BreakerReceive(p, m) = Becomes(Says("denied"), p)
        /\ m.op = "expire" => BreakerReceive(p, m).output = Says("expired")
      BY <1>3 DEF BreakerReceive, Closed, Becomes
  <2>2. Snapshot(p) = [state |-> "available"] /\ p.token = None
      BY <1>3 DEF Snapshot, WellFormed
  <2>3. CASE m.op = "acquire"
      BY <1>3, <2>1, <2>3, Expectation, AgreesIf, ProcessKinds
  <2>4. CASE m.op \in {"renew", "complete"}
    <3>1. BreakerReceive(p, m) = Becomes(Says("denied"), p)
        BY <2>1, <2>2, <2>4, RequestKinds DEF Renew
    <3>2. ExpectedStep(Snapshot(p), m) = Answer(Says("denied"), Snapshot(p))
        BY <1>3, <2>2, <2>4, Expectation
    <3>3. Agrees(BreakerReceive(p, m), p, m) /\ BreakerReceive(p, m).process = p
        BY <3>1, <3>2, AgreesIf
    <3> QED BY <1>3, <2>4, <3>3
  <2>5. CASE m.op = "expire"
    <3>1. BreakerReceive(p, m).output.status = "expired" /\ Says("denied").status = "denied"
        BY <2>1, <2>5 DEF Says
    <3> QED BY <1>3, <2>5, <3>1, Expectation, DisagreesIf
  <2> QED BY <2>3, <2>4, <2>5, RequestKinds
<1>4. CASE p.phase = "held"
  <2>1. /\ m.op = "acquire" => BreakerReceive(p, m) = Acquire(p, m)
        /\ m.op = "renew" => BreakerReceive(p, m) = Renew(p, m)
        /\ m.op = "complete" /\ m.token = p.token =>
             BreakerReceive(p, m) = Becomes(Says("completed"), [p EXCEPT !.phase = "completed"])
        /\ m.op = "complete" /\ m.token # p.token => BreakerReceive(p, m) = Becomes(Says("denied"), p)
        /\ m.op = "expire" => BreakerReceive(p, m) = Becomes(Says("expired"), [p EXCEPT !.phase = "expired"])
      BY <1>4 DEF BreakerReceive, Closed
  <2>2. ASSUME NEW phase \in Closed
        PROVE  WellFormed([p EXCEPT !.phase = phase]) /\ Snapshot([p EXCEPT !.phase = phase]) = [state |-> phase]
    <3> DEFINE q == [p EXCEPT !.phase = phase]
    <3>1. q \in ProcessStates /\ q.phase = phase
        BY DEF WellFormed, ProcessStates, Phases
    <3> HIDE DEF q
    <3>2. WellFormed(q) /\ Snapshot(q) = [state |-> phase]
        BY <3>1 DEF WellFormed, Snapshot, Closed
    <3> QED BY <3>2 DEF q
  <2>3. CASE m.op \in {"acquire", "renew"}
      BY <1>4, <2>1, <2>3, HeldAgrees
  <2>4. CASE m.op = "complete" /\ m.token = p.token
    <3> DEFINE q == [p EXCEPT !.phase = "completed"]
    <3>1. WellFormed(q) /\ Snapshot(q) = [state |-> "completed"]
        BY <2>2 DEF Closed
    <3>2. BreakerReceive(p, m) = Becomes(Says("completed"), q)
        BY <2>1, <2>4
    <3> HIDE DEF q
    <3>3. ExpectedStep(Snapshot(p), m) = Answer(Says("completed"), Snapshot(q))
        BY <1>4, <2>4, <3>1, Expectation
    <3> QED BY <1>4, <3>1, <3>2, <3>3, AgreesIf
  <2>5. CASE m.op = "complete" /\ m.token # p.token
    <3>1. ExpectedStep(Snapshot(p), m) = Answer(Says("denied"), Snapshot(p))
        BY <1>4, <2>5, Expectation
    <3> QED BY <1>4, <2>1, <2>5, <3>1, AgreesIf
  <2>6. CASE m.op = "expire"
    <3> DEFINE q == [p EXCEPT !.phase = "expired"]
    <3>1. WellFormed(q) /\ Snapshot(q) = [state |-> "expired"]
        BY <2>2 DEF Closed
    <3>2. BreakerReceive(p, m) = Becomes(Says("expired"), q)
        BY <2>1, <2>6
    <3> HIDE DEF q
    <3>3. ExpectedStep(Snapshot(p), m) = Answer(Says("expired"), Snapshot(q))
        BY <1>4, <2>6, <3>1, Expectation
    <3> QED BY <1>4, <2>6, <3>1, <3>2, <3>3, AgreesIf
  <2> QED BY <2>3, <2>4, <2>5, <2>6, RequestKinds
<1> QED BY <1>1, <1>2, <1>3, <1>4 DEF WellFormed, ProcessStates, Phases

(* A program that makes its mistake says something else than the oracle.   *)
LEMMA WrongDisagrees ==
  ASSUME NEW p, WellFormed(p), NEW m \in Requests
  PROVE  ~Agrees(Wrong(p, m), p, m)
<1> DEFINE given == Wrong(p, m).output.status
           due   == ExpectedStep(Snapshot(p), m).output.status
<1>1. /\ \A out, after : Answer(out, after).output = out
      /\ \A out, q : Becomes(out, q).output = out
      /\ \A x : Says(x).status = x
      /\ Granted.status = "granted" /\ \A x : Terminal(x).status = "terminal"
    BY DEF Answer, Becomes, Says, Granted, Terminal
<1>2. CASE p.phase \in Closed
  <2>1. due = "terminal"
    <3>1. ExpectedStep(Snapshot(p), m) = Answer(Terminal(p.phase), [state |-> p.phase])
        BY <1>2, Expectation
    <3> QED BY <1>1, <3>1
  <2>2. p.phase # "held" /\ p.phase # "available" /\ InputOf(p, m) = m.op
      BY <1>2 DEF InputOf, Closed
  <2>3. \/ Wrong(p, m) = Becomes(Granted, Took(m))
        \/ Wrong(p, m) = Becomes(Says("completed"), Ended("completed"))
        \/ Wrong(p, m) = Becomes(Says("renewed"), p)
        \/ Wrong(p, m) = Becomes(Says("expired"), Ended("expired"))
      BY <2>2, RequestKinds DEF Wrong
  <2>4. given # "terminal"
      BY <1>1, <2>3
  <2> QED BY <2>1, <2>4 DEF Agrees, Answer
<1>3. CASE p.phase = "available"
  <2>1. InputOf(p, m) = m.op
      BY <1>3 DEF InputOf
  <2>2. CASE m.op = "acquire"
    <3>1. Wrong(p, m) = Becomes(Says("denied"), p)
        BY <1>3, <2>1, <2>2 DEF Wrong
    <3>2. given = "denied" /\ due = "granted"
        BY <1>1, <1>3, <2>2, <3>1, Expectation
    <3> QED BY <3>2 DEF Agrees, Answer
  <2>3. CASE m.op # "acquire"
    <3>1. \/ Wrong(p, m) = Becomes(Says("completed"), Ended("completed"))
          \/ Wrong(p, m) = Becomes(Says("renewed"), p)
          \/ Wrong(p, m) = Becomes(Says("expired"), Ended("expired"))
        BY <1>3, <2>1, <2>3, RequestKinds DEF Wrong
    <3>2. given # "denied" /\ due = "denied"
        BY <1>1, <1>3, <2>3, <3>1, Expectation
    <3> QED BY <3>2 DEF Agrees, Answer
  <2> QED BY <2>2, <2>3
<1>4. CASE p.phase = "held"
  <2>1. CASE m.op = "acquire"
    <3>1. InputOf(p, m) = IF m.client = p.holder /\ m.request = p.request THEN "acquire-retry" ELSE "acquire-conflict"
        BY <1>4, <2>1 DEF InputOf
    <3>2. CASE m.client = p.holder /\ m.request = p.request
      <4>1. Wrong(p, m) = Becomes(Says("busy"), p)
          BY <1>4, <2>1, <3>1, <3>2 DEF Wrong
      <4>2. ExpectedStep(Snapshot(p), m) = Answer(Granted, Snapshot(p))
          BY <1>4, <2>1, <3>2, Expectation
      <4>3. given = "busy" /\ due = "granted"
          BY <1>1, <4>1, <4>2
      <4> QED BY <4>3 DEF Agrees, Answer
    <3>3. CASE ~(m.client = p.holder /\ m.request = p.request)
      <4>1. Wrong(p, m) = Becomes(Granted, Took(m))
          BY <1>4, <2>1, <3>1, <3>3 DEF Wrong
      <4>2. ExpectedStep(Snapshot(p), m) = Answer(Says("busy"), Snapshot(p))
          BY <1>4, <2>1, <3>3, Expectation
      <4>3. given = "granted" /\ due = "busy"
          BY <1>1, <4>1, <4>2
      <4> QED BY <4>3 DEF Agrees, Answer
    <3> QED BY <3>2, <3>3
  <2>2. CASE m.op = "renew"
    <3>1. InputOf(p, m) = IF m.token = p.token THEN "renew-holder" ELSE "renew-wrong"
        BY <1>4, <2>2 DEF InputOf
    <3>2. Wrong(p, m) = Becomes(Says(IF m.token = p.token THEN "denied" ELSE "renewed"), p)
        BY <2>2, <3>1 DEF Wrong
    <3>3. due = IF m.token = p.token THEN "renewed" ELSE "denied"
      <4>1. ExpectedStep(Snapshot(p), m) = Answer(Says(IF m.token = p.token THEN "renewed" ELSE "denied"), Snapshot(p))
          BY <1>4, <2>2, Expectation
      <4> QED BY <1>1, <4>1
    <3>4. given = IF m.token = p.token THEN "denied" ELSE "renewed"
        BY <1>1, <3>2
    <3> QED BY <3>3, <3>4 DEF Agrees, Answer
  <2>3. CASE m.op = "complete"
    <3>1. InputOf(p, m) = IF m.token = p.token THEN "complete-holder" ELSE "complete-wrong"
        BY <1>4, <2>3 DEF InputOf
    <3>2. Wrong(p, m) = IF m.token = p.token THEN Becomes(Says("denied"), p)
                        ELSE Becomes(Says("completed"), Ended("completed"))
        BY <2>3, <3>1 DEF Wrong
    <3>3. due = IF m.token = p.token THEN "completed" ELSE "denied"
      <4>1. ExpectedStep(Snapshot(p), m) =
              IF m.token = p.token THEN Answer(Says("completed"), [state |-> "completed"])
              ELSE Answer(Says("denied"), Snapshot(p))
          BY <1>4, <2>3, Expectation
      <4> QED BY <1>1, <4>1
    <3>4. given = IF m.token = p.token THEN "denied" ELSE "completed"
        BY <1>1, <3>2
    <3> QED BY <3>3, <3>4 DEF Agrees, Answer
  <2>4. CASE m.op = "expire"
    <3>1. Wrong(p, m) = Becomes(Says("denied"), p)
        BY <1>4, <2>4 DEF Wrong
    <3>2. ExpectedStep(Snapshot(p), m) = Answer(Says("expired"), [state |-> "expired"])
        BY <1>4, <2>4, Expectation
    <3>3. given = "denied" /\ due = "expired"
        BY <1>1, <3>1, <3>2
    <3> QED BY <3>3 DEF Agrees, Answer
  <2> QED BY <2>1, <2>2, <2>3, <2>4, RequestKinds
<1> QED BY <1>2, <1>3, <1>4 DEF WellFormed, ProcessStates, Phases

Mistaken(program, p, m) == <<p.phase, InputOf(p, m)>> \in MistakesOf(program)

(* The programs are told apart.                                            *)
LEMMA ProgramKinds ==
  /\ Table # Object /\ Table # Breaker /\ Object # Breaker
  /\ \A x, y : <<x, y>> # Table /\ <<x, y>> # Object /\ <<x, y>> # Breaker
<1>1. Table # Object /\ Table # Breaker /\ Object # Breaker
    BY DEF Table, Object, Breaker
<1>2. ASSUME NEW x, NEW y PROVE <<x, y>> # Table /\ <<x, y>> # Object /\ <<x, y>> # Breaker
  <2>1. Len(<<x, y>>) = 2 /\ Len(Table) = 1 /\ Len(Object) = 1 /\ Len(Breaker) = 1
      BY DEF Table, Object, Breaker
  <2> QED BY <2>1
<1> QED BY <1>1, <1>2

(* Whatever program receives a request agrees with the oracle unless the   *)
(* request is one it makes a mistake about.                                *)
LEMMA ReceiveAgrees ==
  ASSUME NEW program, NEW p, WellFormed(p), NEW m \in Requests
  PROVE  IF Mistaken(program, p, m) THEN ~Agrees(Receive(program, p, m), p, m)
         ELSE Agrees(Receive(program, p, m), p, m) /\ WellFormed(Receive(program, p, m).process)
<1>1. CASE program = Table
  <2>1. ~Mistaken(program, p, m)
      BY <1>1, ProgramKinds DEF Mistaken, MistakesOf
  <2>2. Receive(program, p, m) = TableApply(p, m)
      BY <1>1, ProgramKinds DEF Receive
  <2> QED BY <2>1, <2>2, TableAgrees
<1>2. CASE program = Object
  <2>1. ~Mistaken(program, p, m)
      BY <1>2, ProgramKinds DEF Mistaken, MistakesOf
  <2>2. Receive(program, p, m) = ObjectReceive(p, m)
      BY <1>2, ProgramKinds DEF Receive
  <2> QED BY <2>1, <2>2, ObjectAgrees
<1>3. CASE program = Breaker
  <2>1. Mistaken(program, p, m) <=>
          (p.phase = "expired" /\ m.op = "complete") \/ (p.phase = "available" /\ m.op = "expire")
    <3>1. Mistaken(program, p, m) <=>
            (p.phase = "expired" /\ InputOf(p, m) = "complete") \/ (p.phase = "available" /\ InputOf(p, m) = "expire")
        BY <1>3 DEF Mistaken, MistakesOf
    <3>2. p.phase # "held" => InputOf(p, m) = m.op
        BY DEF InputOf
    <3> QED BY <3>1, <3>2
  <2>2. Receive(program, p, m) = BreakerReceive(p, m)
      BY <1>3, ProgramKinds DEF Receive
  <2> QED BY <2>1, <2>2, BreakerAgrees
<1>4. CASE program \notin {Table, Object, Breaker}
  <2>1. Mistaken(program, p, m) <=> program = <<p.phase, InputOf(p, m)>>
      BY <1>4 DEF Mistaken, MistakesOf
  <2>2. Receive(program, p, m) = IF Mistaken(program, p, m) THEN Wrong(p, m) ELSE TableApply(p, m)
      BY <1>4, <2>1 DEF Receive
  <2> QED BY <2>2, WrongDisagrees, TableAgrees
<1> QED BY <1>1, <1>2, <1>3, <1>4

(* A process stays a process, and a lease a lease, whatever they receive.  *)
LEMMA ReceiveType ==
  ASSUME NEW program, NEW p \in ProcessStates, NEW m \in Requests
  PROVE  Receive(program, p, m).process \in ProcessStates
<1> DEFINE Becoming == {p} \cup {Ended(x) : x \in Closed} \cup {[p EXCEPT !.phase = x] : x \in Closed}
                        \cup {q \in {Took(m)} : m.op = "acquire"}
<1>1. Becoming \subseteq ProcessStates
  <2>1. \A x \in Closed : [p EXCEPT !.phase = x] \in ProcessStates
      BY DEF ProcessStates, Phases
  <2>2. \A x \in Closed : Ended(x) \in ProcessStates
      BY ProcessKinds DEF WellFormed
  <2>3. m.op = "acquire" => Took(m) \in ProcessStates
      BY ProcessKinds DEF WellFormed
  <2> QED BY <2>1, <2>2, <2>3
<1>2. \A out, q : Becomes(out, q).process = q
    BY DEF Becomes
<1>3. \A x \in Closed : Ended(x) \in Becoming /\ [p EXCEPT !.phase = x] \in Becoming
    OBVIOUS
<1>4. "completed" \in Closed /\ "expired" \in Closed /\ p \in Becoming /\ (m.op = "acquire" => Took(m) \in Becoming)
    BY DEF Closed
<1> HIDE DEF Becoming
<1>5. /\ Acquire(p, m).process \in Becoming
      /\ Renew(p, m).process \in Becoming
      /\ Complete(p, m).process \in Becoming
  <2>1. Acquire(p, m).process = p /\ Renew(p, m).process = p
      BY DEF Acquire, Renew, Becomes
  <2>2. Complete(p, m).process \in {p, Ended("completed")}
      BY <1>2 DEF Complete
  <2> QED BY <1>3, <1>4, <2>1, <2>2
<1>6. /\ m.op \in {"acquire", "renew", "complete", "expire"}
      /\ p.phase \in Closed \/ p.phase = "available" \/ p.phase = "held"
    BY RequestKinds DEF ProcessStates, Phases
<1>7. TableApply(p, m).process \in Becoming
    BY <1>2, <1>3, <1>4, <1>5, <1>6 DEF TableApply, Closed
<1>8. ObjectReceive(p, m).process \in Becoming
    BY <1>2, <1>3, <1>4, <1>5, <1>6 DEF ObjectReceive, Closed
<1>9. BreakerReceive(p, m).process \in Becoming
    BY <1>2, <1>3, <1>4, <1>5, <1>6 DEF BreakerReceive, Closed
<1>10. Wrong(p, m).process \in Becoming
  <2>1. CASE m.op = "acquire"
    <3>1. Wrong(p, m).process \in {p, Took(m)}
      <4>1. CASE p.phase = "available" \/ InputOf(p, m) = "acquire-retry"
          BY <2>1, <4>1 DEF Wrong, Becomes
      <4>2. CASE ~(p.phase = "available" \/ InputOf(p, m) = "acquire-retry")
          BY <2>1, <4>2 DEF Wrong, Becomes
      <4> QED BY <4>1, <4>2
    <3> QED BY <1>4, <2>1, <3>1
  <2>2. CASE m.op = "complete"
    <3>1. Wrong(p, m).process \in {p, Ended("completed")}
        BY <1>2, <2>2 DEF Wrong
    <3> QED BY <1>3, <1>4, <3>1
  <2>3. CASE m.op = "renew"
    <3>1. Wrong(p, m).process = p
        BY <2>3 DEF Wrong, Becomes
    <3> QED BY <1>4, <3>1
  <2>4. CASE m.op = "expire"
    <3>1. Wrong(p, m).process \in {p, Ended("expired")}
        BY <1>2, <2>4 DEF Wrong
    <3> QED BY <1>3, <1>4, <3>1
  <2> QED BY <1>6, <2>1, <2>2, <2>3, <2>4
<1> QED BY <1>1, <1>7, <1>8, <1>9, <1>10, ProgramKinds DEF Receive

(* The lease that is no longer, or not yet, held by anybody; and the one   *)
(* that is.                                                                *)
LEMMA LeaseKinds ==
  /\ \A x \in Phases \ {"held"} : [state |-> x] \in LeaseStates
  /\ \A c, r \in Words : Held(c, r) \in LeaseStates
  /\ \A s \in LeaseStates : \/ s.state \in Phases \ {"held"} /\ s = [state |-> s.state]
                            \/ s.state = "held" /\ s.token = "t1" /\ s = Held(s.holder, s.request)
<1>1. \A x \in Phases \ {"held"} : [state |-> x] \in LeaseStates
    BY DEF LeaseStates
<1>2. \A c, r \in Words : Held(c, r) \in LeaseStates
    BY DEF LeaseStates
<1>3. ASSUME NEW s \in LeaseStates
      PROVE  \/ s.state \in Phases \ {"held"} /\ s = [state |-> s.state]
             \/ s.state = "held" /\ s.token = "t1" /\ s = Held(s.holder, s.request)
  <2>1. CASE \E x \in Phases \ {"held"} : s = [state |-> x]
      BY <2>1
  <2>2. CASE \E c, r \in Words : s = Held(c, r)
      BY <2>2 DEF Held
  <2> QED BY <2>1, <2>2 DEF LeaseStates
<1> QED BY <1>1, <1>2, <1>3

(* The oracle expects a lease to become a lease.                           *)
LEMMA ExpectedType ==
  ASSUME NEW s \in LeaseStates, NEW m \in Requests
  PROVE  ExpectedStep(s, m).state \in LeaseStates
<1>1. \A out, after : Answer(out, after).state = after
    BY DEF Answer
<1>2. \/ ExpectedStep(s, m).state = s
      \/ ExpectedStep(s, m).state \in {[state |-> "completed"], [state |-> "expired"]}
      \/ m.op = "acquire" /\ ExpectedStep(s, m).state = Held(m.client, m.request)
  <2>1. s.state \in Closed \/ s.state = "available" \/ s.state = "held"
      BY LeaseKinds DEF Phases
  <2>2. CASE s.state \in Closed
      BY <1>1, <2>2 DEF ExpectedStep, Closed
  <2>3. CASE s.state = "available"
      BY <1>1, <2>3 DEF ExpectedStep, Closed
  <2>4. CASE s.state = "held"
    <3>1. CASE m.op \in {"acquire", "renew"}
        BY <2>4, <3>1 DEF ExpectedStep, Closed, Answer
    <3>2. CASE m.op = "complete"
        BY <1>1, <2>4, <3>2 DEF ExpectedStep, Closed
    <3>3. CASE m.op = "expire"
        BY <1>1, <2>4, <3>3 DEF ExpectedStep, Closed
    <3> QED BY <3>1, <3>2, <3>3, RequestKinds
  <2> QED BY <2>1, <2>2, <2>3, <2>4
<1>3. {[state |-> "completed"], [state |-> "expired"]} \subseteq LeaseStates
    BY LeaseKinds DEF Phases, Closed
<1>4. m.op = "acquire" => Held(m.client, m.request) \in LeaseStates
    BY RequestKinds, LeaseKinds
<1> QED BY <1>2, <1>3, <1>4

-----------------------------------------------------------------------------
(* A scenario. *)

(* The processes a program goes through are what its recursion says.       *)
LEMMA ProcessesUnfold ==
  ASSUME NEW program, NEW inputs, IsList(inputs), SetOf(inputs) \subseteq Requests
  PROVE  /\ Processes(program, inputs)[0] = Fresh
         /\ \A k \in 1 .. Len(inputs) :
              Processes(program, inputs)[k] = Receive(program, Processes(program, inputs)[k - 1], inputs[k]).process
<1> DEFINE N        == Len(inputs)
           step     == [k \in 1 .. N |-> [p \in ProcessStates |-> Receive(program, p, inputs[k]).process]]
           Rule(f)  == f = [i \in 0 .. N |-> IF i = 0 THEN Fresh ELSE Receive(program, f[i - 1], inputs[i]).process]
           after    == CHOOSE f : Rule(f)
<1>1. N \in Nat /\ \A k \in 1 .. N : inputs[k] \in Requests
    BY DEF IsList, SetOf
<1>2. Fresh \in ProcessStates
    BY ProcessKinds DEF WellFormed
<1>3. step \in StepFunctions(N, ProcessStates)
    BY <1>1, ReceiveType DEF StepFunctions
<1> HIDE DEF N, step
<1>4. PICK f : Computes(f, Fresh, step, N, ProcessStates)
    BY <1>1, <1>2, <1>3, RecursionExists
<1>5. ASSUME NEW k \in 1 .. N PROVE f[k] = Receive(program, f[k - 1], inputs[k]).process
  <2>1. k - 1 \in 0 .. N
      BY <1>1
  <2>2. f[k - 1] \in ProcessStates
      BY <1>4, <2>1 DEF Computes
  <2> QED BY <1>4, <2>2 DEF Computes, step
<1>6. Rule(f)
  <2>1. \A k \in 0 .. N : k # 0 => k \in 1 .. N
      BY <1>1
  <2>2. f = [k \in 0 .. N |-> f[k]]
      BY <1>4 DEF Computes
  <2>3. \A k \in 0 .. N : f[k] = IF k = 0 THEN Fresh ELSE Receive(program, f[k - 1], inputs[k]).process
      BY <1>4, <1>5, <2>1 DEF Computes
  <2> QED BY <2>2, <2>3
<1>7. Rule(after)
  <2> HIDE DEF Rule
  <2> QED BY <1>6
<1>8. Processes(program, inputs) = after
    BY DEF Processes, N
<1> HIDE DEF after
<1>9. 0 \in 0 .. N /\ \A k \in 1 .. N : k \in 0 .. N /\ k # 0
    BY <1>1
<1> QED BY <1>7, <1>8, <1>9 DEF N

(* So are the leases the oracle expects.                                   *)
LEMMA OracleUnfolds ==
  ASSUME NEW inputs, IsList(inputs), SetOf(inputs) \subseteq Requests
  PROVE  /\ OracleStates(inputs)[0] = Available
         /\ \A k \in 1 .. Len(inputs) :
              OracleStates(inputs)[k] = ExpectedStep(OracleStates(inputs)[k - 1], inputs[k]).state
<1> DEFINE N        == Len(inputs)
           step     == [k \in 1 .. N |-> [s \in LeaseStates |-> ExpectedStep(s, inputs[k]).state]]
           Rule(f)  == f = [i \in 0 .. N |-> IF i = 0 THEN Available ELSE ExpectedStep(f[i - 1], inputs[i]).state]
           after    == CHOOSE f : Rule(f)
<1>1. N \in Nat /\ \A k \in 1 .. N : inputs[k] \in Requests
    BY DEF IsList, SetOf
<1>2. Available \in LeaseStates
    BY LeaseKinds DEF Available, Phases
<1>3. step \in StepFunctions(N, LeaseStates)
    BY <1>1, ExpectedType DEF StepFunctions
<1> HIDE DEF N, step
<1>4. PICK f : Computes(f, Available, step, N, LeaseStates)
    BY <1>1, <1>2, <1>3, RecursionExists
<1>5. ASSUME NEW k \in 1 .. N PROVE f[k] = ExpectedStep(f[k - 1], inputs[k]).state
  <2>1. k - 1 \in 0 .. N
      BY <1>1
  <2>2. f[k - 1] \in LeaseStates
      BY <1>4, <2>1 DEF Computes
  <2> QED BY <1>4, <2>2 DEF Computes, step
<1>6. Rule(f)
  <2>1. \A k \in 0 .. N : k # 0 => k \in 1 .. N
      BY <1>1
  <2>2. f = [k \in 0 .. N |-> f[k]]
      BY <1>4 DEF Computes
  <2>3. \A k \in 0 .. N : f[k] = IF k = 0 THEN Available ELSE ExpectedStep(f[k - 1], inputs[k]).state
      BY <1>4, <1>5, <2>1 DEF Computes
  <2> QED BY <2>2, <2>3
<1>7. Rule(after)
  <2> HIDE DEF Rule
  <2> QED BY <1>6
<1>8. OracleStates(inputs) = after
    BY DEF OracleStates, N
<1> HIDE DEF after
<1>9. 0 \in 0 .. N /\ \A k \in 1 .. N : k \in 0 .. N /\ k # 0
    BY <1>1
<1> QED BY <1>7, <1>8, <1>9 DEF N

(* While it has made no mistake, a program shows what the oracle expects.  *)
LEMMA ShowsTheLease ==
  ASSUME NEW program, NEW inputs, IsList(inputs), SetOf(inputs) \subseteq Requests
  PROVE  \A n \in 0 .. Len(inputs) :
           (\A k \in 1 .. n : ~Mistaken(program, Processes(program, inputs)[k - 1], inputs[k])) =>
             /\ WellFormed(Processes(program, inputs)[n])
             /\ Snapshot(Processes(program, inputs)[n]) = OracleStates(inputs)[n]
<1> DEFINE N == Len(inputs)
           P == Processes(program, inputs)
           O == OracleStates(inputs)
           Right(n) == \A k \in 1 .. n : ~Mistaken(program, P[k - 1], inputs[k])
           Shown(n) == WellFormed(P[n]) /\ Snapshot(P[n]) = O[n]
           T == {n \in 0 .. N : Right(n) => Shown(n)}
<1>1. N \in Nat /\ \A k \in 1 .. N : inputs[k] \in Requests
    BY DEF IsList, SetOf
<1>2. /\ P[0] = Fresh
      /\ \A k \in 1 .. N : P[k] = Receive(program, P[k - 1], inputs[k]).process
    BY ProcessesUnfold
<1>3. /\ O[0] = Available
      /\ \A k \in 1 .. N : O[k] = ExpectedStep(O[k - 1], inputs[k]).state
    BY OracleUnfolds
<1> HIDE DEF N, P, O
<1>4. 0 \in T
    BY <1>1, <1>2, <1>3, ProcessKinds
<1>5. ASSUME NEW n \in 1 .. N, n - 1 \in T PROVE n \in T
  <2>1. SUFFICES ASSUME Right(n) PROVE Shown(n)
      BY <1>1
  <2>2. Right(n - 1) /\ ~Mistaken(program, P[n - 1], inputs[n])
      BY <1>1, <2>1
  <2>3. Shown(n - 1)
      BY <1>5, <2>2
  <2> DEFINE b == Receive(program, P[n - 1], inputs[n])
  <2>4. Agrees(b, P[n - 1], inputs[n]) /\ WellFormed(b.process)
      BY <1>1, <2>2, <2>3, ReceiveAgrees
  <2>5. b.process = P[n]
      BY <1>2
  <2> HIDE DEF b
  <2>6. Answer(b.output, Snapshot(P[n])) = ExpectedStep(O[n - 1], inputs[n])
      BY <2>3, <2>4, <2>5 DEF Agrees
  <2>7. Snapshot(P[n]) = O[n]
    <3>1. Answer(b.output, Snapshot(P[n])).state = Snapshot(P[n])
        BY DEF Answer
    <3> QED BY <1>3, <2>6, <3>1
  <2> QED BY <2>4, <2>5, <2>7
<1>6. 0 .. N \subseteq T
  <2> HIDE DEF T
  <2> QED BY <1>1, <1>4, <1>5, Induction
<1> QED BY <1>6 DEF N, P, O

(* The answers to a scenario differ from the oracle's exactly when the     *)
(* program was given the chance to make its mistake.                       *)
LEMMA MismatchIfMistaken ==
  ASSUME NEW program, NEW inputs, IsList(inputs), SetOf(inputs) \subseteq Requests
  PROVE  Mismatches(inputs, Responses(program, inputs)) = {} <=>
           \A k \in 1 .. Len(inputs) : ~Mistaken(program, Processes(program, inputs)[k - 1], inputs[k])
<1> DEFINE N == Len(inputs)
           P == Processes(program, inputs)
           O == OracleStates(inputs)
           R == Responses(program, inputs)
           Made == {k \in 1 .. N : Mistaken(program, P[k - 1], inputs[k])}
<1>1. N \in Nat /\ DOMAIN inputs = 1 .. N /\ \A k \in 1 .. N : inputs[k] \in Requests
    BY DEF IsList, SetOf
<1>2. \A k \in 1 .. N : P[k] = Receive(program, P[k - 1], inputs[k]).process
    BY ProcessesUnfold
<1>3. \A n \in 0 .. N : (\A k \in 1 .. n : k \notin Made) => WellFormed(P[n]) /\ Snapshot(P[n]) = O[n]
  <2>1. SUFFICES ASSUME NEW n \in 0 .. N, \A k \in 1 .. n : k \notin Made
                 PROVE  WellFormed(P[n]) /\ Snapshot(P[n]) = O[n]
      OBVIOUS
  <2>2. \A k \in 1 .. n : ~Mistaken(program, P[k - 1], inputs[k])
      BY <1>1, <2>1
  <2> QED BY <2>1, <2>2, ShowsTheLease
<1>4. \A k \in 1 .. N : R[k] = Answer(Receive(program, P[k - 1], inputs[k]).output, Snapshot(P[k]))
    BY <1>1 DEF Responses
<1>5. Mismatches(inputs, R) = {k \in 1 .. N : R[k] # ExpectedStep(O[k - 1], inputs[k])}
    BY <1>1 DEF Mismatches
<1> HIDE DEF N, P, O, R
<1>6. ASSUME NEW k \in 1 .. N, \A j \in 1 .. k - 1 : j \notin Made
      PROVE  k \in Mismatches(inputs, R) <=> k \in Made
  <2>1. k - 1 \in 0 .. N
      BY <1>1
  <2>2. WellFormed(P[k - 1]) /\ Snapshot(P[k - 1]) = O[k - 1]
      BY <1>3, <1>6, <2>1
  <2> DEFINE b == Receive(program, P[k - 1], inputs[k])
  <2>3. R[k] = Answer(b.output, Snapshot(b.process))
      BY <1>2, <1>4
  <2>4. Mistaken(program, P[k - 1], inputs[k]) <=> ~Agrees(b, P[k - 1], inputs[k])
      BY <1>1, <2>2, ReceiveAgrees
  <2> HIDE DEF b
  <2>5. R[k] = ExpectedStep(O[k - 1], inputs[k]) <=> Agrees(b, P[k - 1], inputs[k])
      BY <2>2, <2>3 DEF Agrees
  <2> QED BY <1>5, <2>4, <2>5
<1>7. ASSUME Made = {} PROVE Mismatches(inputs, R) = {}
  <2>1. \A k \in 1 .. N : k \notin Mismatches(inputs, R)
      BY <1>6, <1>7
  <2> QED BY <1>5, <2>1
<1>8. ASSUME Made # {} PROVE Mismatches(inputs, R) # {}
  <2>1. Made \subseteq Nat
      BY <1>1
  <2>2. PICK k \in Made : \A j \in Made : k <= j
    <3> HIDE DEF Made
    <3> QED BY <1>8, <2>1, LeastNumber
  <2>3. \A j \in 1 .. k - 1 : j \notin Made
      BY <1>1, <2>2
  <2> QED BY <1>6, <2>2, <2>3
<1> QED BY <1>7, <1>8 DEF N, P, R

(* What the oracle's answers tell about the lease before and after them.   *)
LEMMA AnswersTell ==
  ASSUME NEW s \in LeaseStates, NEW m \in Requests
  PROVE  LET e == ExpectedStep(s, m) IN
         /\ s.state \in Closed => e.output.status = "terminal" /\ e.state = s
         /\ s.state = "held" => e.state = s \/ e.state.state \in Closed
         /\ e.output.status = "granted" => m.op = "acquire" /\ e.state = Held(m.client, m.request)
         /\ e.output.status \in Closed => e.state.state \in Closed
         /\ e.output.status = "completed" => m.token = "t1"
<1>1. /\ \A out, after : Answer(out, after).state = after /\ Answer(out, after).output = out
      /\ \A x : Says(x).status = x
      /\ Granted.status = "granted" /\ \A x : Terminal(x).status = "terminal"
    BY DEF Answer, Says, Granted, Terminal
<1>2. CASE s.state \in Closed
  <2>1. ExpectedStep(s, m) = Answer(Terminal(s.state), s)
      BY <1>2 DEF ExpectedStep, Closed
  <2>2. s.state # "held"
      BY <1>2 DEF Closed
  <2> QED BY <1>1, <2>1, <2>2 DEF Closed
<1>3. CASE s.state = "available"
  <2>1. ExpectedStep(s, m) = IF m.op = "acquire" THEN Answer(Granted, Held(m.client, m.request))
                             ELSE Answer(Says("denied"), s)
      BY <1>3 DEF ExpectedStep, Closed
  <2> QED BY <1>1, <1>3, <2>1 DEF Closed
<1>4. CASE s.state = "held"
  <2>0. s.token = "t1" /\ s = Held(s.holder, s.request) /\ s.state \notin Closed
      BY <1>4, LeaseKinds DEF Closed
  <2>1. CASE m.op = "acquire"
    <3>1. CASE m.client = s.holder /\ m.request = s.request
      <4>1. ExpectedStep(s, m) = Answer(Granted, s)
          BY <1>4, <2>1, <3>1 DEF ExpectedStep, Closed
      <4> QED BY <1>1, <2>0, <2>1, <3>1, <4>1 DEF Closed
    <3>2. CASE ~(m.client = s.holder /\ m.request = s.request)
      <4>1. ExpectedStep(s, m) = Answer(Says("busy"), s)
          BY <1>4, <2>1, <3>2 DEF ExpectedStep, Closed
      <4> QED BY <1>1, <2>0, <4>1 DEF Closed
    <3> QED BY <3>1, <3>2
  <2>2. CASE m.op = "renew"
    <3>1. ExpectedStep(s, m) = Answer(Says("renewed"), s) \/ ExpectedStep(s, m) = Answer(Says("denied"), s)
        BY <1>4, <2>2 DEF ExpectedStep, Closed
    <3> QED BY <1>1, <2>0, <3>1 DEF Closed
  <2>3. CASE m.op = "complete"
    <3>1. \/ m.token = s.token /\ ExpectedStep(s, m) = Answer(Says("completed"), [state |-> "completed"])
          \/ ExpectedStep(s, m) = Answer(Says("denied"), s)
        BY <1>4, <2>3 DEF ExpectedStep, Closed
    <3> QED BY <1>1, <2>0, <3>1 DEF Closed
  <2>4. CASE m.op = "expire"
    <3>1. ExpectedStep(s, m) = Answer(Says("expired"), [state |-> "expired"])
        BY <1>4, <2>4 DEF ExpectedStep, Closed
    <3> QED BY <1>1, <2>0, <3>1 DEF Closed
  <2> QED BY <2>1, <2>2, <2>3, <2>4, RequestKinds
<1> QED BY <1>2, <1>3, <1>4, LeaseKinds DEF Phases

(* The oracle keeps the promises of a lease.                               *)
LEMMA OracleKeepsPromises ==
  ASSUME NEW inputs, IsList(inputs), SetOf(inputs) \subseteq Requests, NEW responses,
         Mismatches(inputs, responses) = {}
  PROVE  KeepsPromises(inputs, responses)
<1> DEFINE N == Len(inputs)
           O == OracleStates(inputs)
<1>1. N \in Nat /\ DOMAIN inputs = 1 .. N /\ \A k \in 1 .. N : inputs[k] \in Requests
    BY DEF IsList, SetOf
<1>2. \A k \in 1 .. N : responses[k] = ExpectedStep(O[k - 1], inputs[k])
    BY <1>1 DEF Mismatches
<1>3. /\ O[0] = Available
      /\ \A k \in 1 .. N : O[k] = ExpectedStep(O[k - 1], inputs[k]).state
    BY OracleUnfolds
<1> HIDE DEF N, O
<1>4. \A n \in 0 .. N : O[n] \in LeaseStates
  <2> DEFINE T == {n \in 0 .. N : O[n] \in LeaseStates}
  <2>1. 0 \in T
      BY <1>1, <1>3, LeaseKinds DEF Available, Phases
  <2>2. ASSUME NEW n \in 1 .. N, n - 1 \in T PROVE n \in T
      BY <1>1, <1>3, <2>2, ExpectedType
  <2>3. 0 .. N \subseteq T
    <3> HIDE DEF T
    <3> QED BY <1>1, <2>1, <2>2, Induction
  <2> QED BY <2>3
<1>5. ASSUME NEW k \in 1 .. N
      PROVE  /\ O[k - 1].state \in Closed => responses[k].output.status = "terminal" /\ O[k] = O[k - 1]
             /\ O[k - 1].state = "held" => O[k] = O[k - 1] \/ O[k].state \in Closed
             /\ responses[k].output.status = "granted" =>
                  inputs[k].op = "acquire" /\ O[k] = Held(inputs[k].client, inputs[k].request)
             /\ responses[k].output.status \in Closed => O[k].state \in Closed
             /\ responses[k].output.status = "completed" => inputs[k].token = "t1"
             /\ responses[k].state = O[k]
             /\ inputs[k] \in Requests
  <2>1. k - 1 \in 0 .. N
      BY <1>1
  <2>2. O[k - 1] \in LeaseStates
      BY <1>4, <2>1
  <2> QED BY <1>1, <1>2, <1>3, <2>2, AnswersTell
<1>6. ASSUME NEW i \in 0 .. N, NEW j \in i .. N, O[i].state \in {"held"} \cup Closed
      PROVE  O[j] = O[i] \/ (O[i].state = "held" /\ O[j].state \in Closed)
  <2> DEFINE Stays(n) == O[n] = O[i] \/ (O[i].state = "held" /\ O[n].state \in Closed)
             T == {n \in 0 .. N : n >= i => Stays(n)}
  <2>1. 0 \in T
      BY <1>1
  <2>2. ASSUME NEW n \in 1 .. N, n - 1 \in T PROVE n \in T
    <3>1. CASE n <= i
        BY <1>1, <3>1
    <3>2. CASE n > i
      <4>1. Stays(n - 1)
          BY <1>1, <2>2, <3>2
      <4>2. Stays(n)
          BY <1>5, <1>6, <4>1
      <4> QED BY <4>2
    <3> QED BY <1>1, <3>1, <3>2
  <2>3. 0 .. N \subseteq T
    <3> HIDE DEF T
    <3> QED BY <1>1, <2>1, <2>2, Induction
  <2>4. j \in 0 .. N /\ j >= i
      BY <1>1
  <2> QED BY <2>3, <2>4
<1>7. ASSUME NEW i \in 1 .. N, NEW j \in 1 .. N, i < j
      PROVE  /\ (responses[i].output.status = "granted" /\ responses[j].output.status = "granted") =>
                  inputs[i] = inputs[j]
             /\ responses[i].output.status \in Closed =>
                  /\ responses[j].output.status = "terminal"
                  /\ responses[j].state = responses[i].state
             /\ responses[j].output.status = "completed" => inputs[j].token = "t1"
  <2>1. i \in 0 .. N /\ j - 1 \in i .. N
      BY <1>1, <1>7
  <2>2. ASSUME responses[i].output.status = "granted", responses[j].output.status = "granted"
        PROVE  inputs[i] = inputs[j]
    <3>1. /\ inputs[i].op = "acquire" /\ O[i] = Held(inputs[i].client, inputs[i].request)
          /\ inputs[j].op = "acquire" /\ O[j] = Held(inputs[j].client, inputs[j].request)
          /\ O[j - 1].state \notin Closed
        BY <1>5, <2>2 DEF Closed
    <3>2. O[i].state = "held"
        BY <3>1 DEF Held
    <3>3. O[j - 1] = O[i]
        BY <1>6, <2>1, <3>1, <3>2
    <3>4. O[j].state \notin Closed
        BY <3>1 DEF Held, Closed
    <3>5. O[j] = O[i]
        BY <1>5, <3>2, <3>3, <3>4
    <3>6. inputs[i].client = inputs[j].client /\ inputs[i].request = inputs[j].request
      <4>1. Held(inputs[i].client, inputs[i].request) = Held(inputs[j].client, inputs[j].request)
          BY <3>1, <3>5
      <4>2. \A c, d, r, q : Held(c, r) = Held(d, q) => c = d /\ r = q
          BY DEF Held
      <4> HIDE DEF Held
      <4> QED BY <4>1, <4>2
    <3> QED BY <1>5, <3>1, <3>6, RequestKinds
  <2>3. ASSUME responses[i].output.status \in Closed
        PROVE  responses[j].output.status = "terminal" /\ responses[j].state = responses[i].state
    <3>1. O[i].state \in Closed /\ O[i].state # "held"
        BY <1>5, <2>3 DEF Closed
    <3>2. O[j - 1] = O[i]
        BY <1>6, <2>1, <3>1
    <3> QED BY <1>5, <3>1, <3>2
  <2> QED BY <1>5, <2>2, <2>3
<1> QED BY <1>1, <1>7 DEF KeepsPromises

-----------------------------------------------------------------------------
(* A candidate that one program ran for is challenged exactly when that    *)
(* program makes a mistake the scenarios give it the chance to make; and   *)
(* one that is supported kept every promise of a lease: for every plan and *)
(* every program, and whatever is edited meanwhile.                        *)
THEOREM DecidesRightly == Spec => []CampaignDecides
<1>1. IInv => CampaignDecides
  <2> SUFFICES ASSUME IInv, Reported PROVE CampaignDecides
      BY DEF CampaignDecides
  <2> DEFINE scenarios == plan.scenarios
             made(program) ==
               {i \in DOMAIN scenarios :
                  \E k \in DOMAIN scenarios[i] :
                    LET p == Processes(program, scenarios[i])[k - 1]
                    IN  <<p.phase, InputOf(p, scenarios[i][k])>> \in MistakesOf(program)}
             kept(program) ==
               \A i \in DOMAIN scenarios : KeepsPromises(scenarios[i], Responses(program, scenarios[i]))
  <2>1. /\ IsList(scenarios)
        /\ \A i \in DOMAIN scenarios : IsList(scenarios[i]) /\ SetOf(scenarios[i]) \subseteq Requests
    <3>1. plan \in PlansFound /\ plan.ordered
        BY DEF IInv, PlanBound, Loaded
    <3> QED BY <3>1, PlansAssumption DEF SetOf
  <2>2. DOMAIN scenarios = 1 .. Len(scenarios) /\ \A i \in DOMAIN scenarios : DOMAIN scenarios[i] = 1 .. Len(scenarios[i])
      BY <2>1 DEF IsList
  <2>3. SUFFICES ASSUME NEW c \in Candidates, NEW program \in ran[c], ran[c] = {program}
                 PROVE  /\ report.candidates[c] = "challenges" <=> made(program) # {}
                        /\ report.candidates[c] = "supports" => kept(program)
      BY DEF CampaignDecides
  <2> HIDE DEF scenarios
  <2>4. ASSUME NEW i \in DOMAIN scenarios
        PROVE  Mismatches(scenarios[i], Responses(program, scenarios[i])) = {} <=> i \notin made(program)
    <3>1. Mismatches(scenarios[i], Responses(program, scenarios[i])) = {} <=>
            \A k \in DOMAIN scenarios[i] : ~Mistaken(program, Processes(program, scenarios[i])[k - 1], scenarios[i][k])
        BY <2>1, <2>2, MismatchIfMistaken
    <3> QED BY <3>1 DEF Mistaken
  <2>5. DOMAIN results[c] = DOMAIN scenarios
    <3>1. results[c] \in Seq({"supports", "challenges"}) /\ Len(results[c]) = Len(scenarios)
        BY RanInFull DEF IInv, ResultsKept, scenarios
    <3> QED BY <2>2, <3>1
  <2>6. ASSUME NEW i \in DOMAIN results[c]
        PROVE  results[c][i] = IF Mismatches(scenarios[i], Responses(program, scenarios[i])) = {}
                               THEN "supports" ELSE "challenges"
    <3>1. \E prog \in ran[c] : results[c][i] = Verdict(scenarios[i], Responses(prog, scenarios[i]))
        BY DEF IInv, VerdictsKept, Loaded, scenarios
    <3>2. results[c][i] = Verdict(scenarios[i], Responses(program, scenarios[i]))
        BY <2>3, <3>1
    <3> QED BY <3>2 DEF Verdict
  <2>7. made(program) \subseteq DOMAIN scenarios
      OBVIOUS
  <2>8. ASSUME NEW i \in DOMAIN scenarios, i \notin made(program)
        PROVE  KeepsPromises(scenarios[i], Responses(program, scenarios[i]))
      BY <2>1, <2>4, <2>8, OracleKeepsPromises
  <2> HIDE DEF made
  <2>9. report.candidates[c] = Result(c)
      BY DEF IInv, ReportFits
  <2>10. Result(c) = IF made(program) = {} THEN "supports" ELSE "challenges"
    <3>1. (\A i \in DOMAIN results[c] : results[c][i] = "supports") <=> made(program) = {}
        BY <2>4, <2>5, <2>6, <2>7
    <3> QED BY <3>1 DEF Result
  <2> QED BY <2>8, <2>9, <2>10
<1> QED BY <1>1, Invariant, PTL

=============================================================================
