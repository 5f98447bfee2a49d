------------------------------ MODULE StackPlan ------------------------------
(***************************************************************************)
(* The conformance plans of semantic_packages/stack_runner.py: what a case *)
(* is, when validate_stack_conformance_plan accepts one, the generator of  *)
(* the mixed history and the default plan.                                 *)
(*                                                                         *)
(* A binding is the number of the step that binds it: the code requires    *)
(* binding names to be unique within a case.  A pop of a stack planned to  *)
(* be empty binds nothing.  The planned contents of an observation are not *)
(* written down, the code requires them to be the derived ones.            *)
(***************************************************************************)
EXTENDS Integers, Sequences, SequencesExt

Declarations == {"pop-empty", "pop-push", "persistence", "stack-effects"}

EmptyStep      == [op |-> "empty", source |-> 0, value |-> 0]
PushStep(s, v) == [op |-> "push", source |-> s, value |-> v]
PopStep(s)     == [op |-> "pop", source |-> s, value |-> 0]

Watch(declaration, binding) == [declaration |-> declaration, on |-> binding]

StepSet  == [op : {"empty", "push", "pop"}, source : Nat, value : Int]
WatchSet == [declaration : Declarations, on : Nat]
CaseSet  == [steps : Seq(StepSet), watches : Seq(WatchSet)]

(* The contents, top first, that each step of a history is planned to bind. *)
TopFirst(steps) ==
  LET state[i \in DOMAIN steps] ==
        CASE steps[i].op = "empty" -> <<>>
          [] steps[i].op = "push"  -> <<steps[i].value>> \o state[steps[i].source]
          [] OTHER -> IF state[steps[i].source] = <<>> THEN <<>>
                      ELSE Tail(state[steps[i].source])
  IN  state

(* A pop of an empty stack cannot bind a remainder. *)
Binds(steps, i) ==
  steps[i].op = "pop" => TopFirst(steps)[steps[i].source] # <<>>

(* validate_stack_conformance_plan, for one case. *)
ValidCase(case, domain, maxDepth, maxHistory) ==
  LET steps == case.steps IN
  /\ Len(steps) \in 1 .. maxHistory
  /\ \A i \in DOMAIN steps :
       /\ steps[i].op = "empty" => steps[i].source = 0
       /\ steps[i].op # "empty" => /\ steps[i].source \in 1 .. i - 1
                                   /\ Binds(steps, steps[i].source)
       /\ steps[i].op = "push" => steps[i].value \in domain
       /\ Len(TopFirst(steps)[i]) <= maxDepth
  /\ case.watches # <<>>
  /\ IsInjective(case.watches)
  /\ \A w \in DOMAIN case.watches :
       /\ case.watches[w].declaration \in Declarations
       /\ case.watches[w].on \in DOMAIN steps
       /\ Binds(steps, case.watches[w].on)

-----------------------------------------------------------------------------
(* _generated_mixed_case: a 32-bit linear congruential generator, here on  *)
(* two 16-bit halves: 1664525 = 25 * 2^16 + 26125 and                      *)
(* 1013904223 = 15470 * 2^16 + 62303.                                      *)
Half == 65536

NextWord(word) ==
  LET low == word.low * 26125 + 62303
  IN  [low  |-> low % Half,
       high |-> (((word.high * 26125) % Half) + (word.low * 25) + 15470 + (low \div Half)) % Half]

(* word % 5 - 2: 2^16 leaves 1 when divided by 5. *)
ValueOf(word)     == ((word.high + word.low) % 5) - 2
ChoosesPush(word) == word.high % 2 = 0

(* One more step of the history: pushes until the depth is reached once,   *)
(* then what the generator says.  Each step takes the stack of the last.   *)
Extend(h, maxDepth) ==
  LET word == NextWord(h.word)
      push == \/ ~h.deep
              \/ h.depth = 0
              \/ h.depth < maxDepth /\ ChoosesPush(word)
      depth == IF push THEN h.depth + 1 ELSE h.depth - 1
  IN  [word  |-> word,
       depth |-> depth,
       deep  |-> h.deep \/ depth = maxDepth,
       peak  |-> IF h.deep THEN h.peak ELSE Len(h.steps) + 1,
       steps |-> Append(h.steps, IF push THEN PushStep(Len(h.steps), ValueOf(word))
                                 ELSE PopStep(Len(h.steps)))]

GeneratedMixedCase(seed, maxDepth, maxHistory) ==
  LET begun == [word |-> [high |-> seed \div Half, low |-> seed % Half], depth |-> 0,
                deep |-> FALSE, peak |-> 1, steps |-> <<EmptyStep>>]
      made  == FoldLeft(LAMBDA h, i : Extend(h, maxDepth), begun,
                        [i \in 1 .. maxHistory - 1 |-> i])
  IN  [steps |-> made.steps, watches |-> <<Watch("pop-push", made.peak)>>]

-----------------------------------------------------------------------------
(* default_stack_conformance_plan. *)
ElementDomain == -2 .. 2
MaxDepth      == 8
MaxHistory    == 32
CampaignSeed  == 20260718

DepthValues == <<-2, -1, 0, 1, 2, -2, 1, 0>>

DefaultPlan == <<
  [steps   |-> <<EmptyStep, PopStep(1)>>,
   watches |-> <<Watch("pop-empty", 1)>>],
  [steps   |-> <<EmptyStep, PushStep(1, 2), PopStep(2)>>,
   watches |-> <<Watch("pop-push", 3)>>],
  [steps   |-> <<EmptyStep>> \o [i \in 1 .. MaxDepth |-> PushStep(i, DepthValues[i])],
   watches |-> <<Watch("pop-push", MaxDepth + 1)>>],
  [steps   |-> <<EmptyStep, PushStep(1, 1), PushStep(2, 2)>>,
   watches |-> <<Watch("persistence", 1), Watch("persistence", 2)>>],
  [steps   |-> <<EmptyStep, PushStep(1, 1), PushStep(2, 2), PopStep(3)>>,
   watches |-> <<Watch("persistence", 1), Watch("persistence", 2), Watch("persistence", 3)>>],
  [steps   |-> <<EmptyStep>>,
   watches |-> <<Watch("stack-effects", 1)>>],
  GeneratedMixedCase(CampaignSeed, MaxDepth, MaxHistory) >>

=============================================================================
