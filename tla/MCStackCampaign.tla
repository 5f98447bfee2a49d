--------------------------- MODULE MCStackCampaign ---------------------------
(* Values for TLC: the plan evidence is made with, and all small plans.    *)
EXTENDS StackCampaign

DefaultPlans == {DefaultPlan}

(* The generator gives the history the tests pin: its deepest stack, and   *)
(* the stack one mode of the fixture answers wrongly for.                  *)
ASSUME GeneratorAgrees ==
  LET g == DefaultPlan[7] IN
  /\ TopFirst(g.steps)[g.watches[1].on] = <<1, -2, -1, -2, 2, -1, 2, -1>>
  /\ \E i \in DOMAIN g.steps : TopFirst(g.steps)[i] = Terminal

ASSUME DefaultPlanValid ==
  \A i \in DOMAIN DefaultPlan : ValidCase(DefaultPlan[i], ElementDomain, MaxDepth, MaxHistory)

(* Every valid plan of one case: a history of at most SmallHistory steps   *)
(* over two values, watched for one declaration, or for the persistence of *)
(* all the bindings that are pushed on or popped.                          *)
SmallHistory == 4
SmallDomain  == {0, 1}

SmallSteps(n) ==
  {EmptyStep} \cup {PushStep(s, v) : s \in 1 .. n - 1, v \in SmallDomain}
              \cup {PopStep(s) : s \in 1 .. n - 1}

RECURSIVE Histories(_)
Histories(n) ==
  IF n = 1 THEN {<<EmptyStep>>}
  ELSE Histories(n - 1)
         \cup {Append(h, s) : h \in {g \in Histories(n - 1) : Len(g) = n - 1}, s \in SmallSteps(n)}

RetainedWatches(steps) ==
  LET retained == {steps[i].source : i \in DOMAIN steps} \ {0}
      ordered  == SetToSortSeq(retained, <)
  IN  [i \in DOMAIN ordered |-> Watch("persistence", ordered[i])]

SmallCases ==
  {c \in UNION {{[steps |-> h, watches |-> ws] :
                   ws \in {<<Watch(d, i)>> : d \in Declarations, i \in DOMAIN h}
                            \cup {RetainedWatches(h)}} :
                h \in Histories(SmallHistory)} :
     ValidCase(c, SmallDomain, SmallHistory, SmallHistory)}

SmallPlans == {<<c>> : c \in SmallCases}

AllModes ==
  {"reference", "interned", "destructive-push", "destructive-push-nonempty",
   "destructive-pop", "wrong-empty", "wrong-value", "wrong-remainder", "bottom-first",
   "shallow-liar", "retained-ancestor-change", "nonterminating-observation",
   "forbidden-event", "case-local-causes", "wrong-generated-terminal-remainder",
   "status-error"} \cup Languages
=============================================================================
