------------------------- MODULE StackCampaignProofs -------------------------
(***************************************************************************)
(* What StackCampaign is proved to do, for every valid plan: its types     *)
(* hold, "supports" is said of a whole campaign only, a faithful adapter   *)
(* is never challenged, and a steady one is blamed only for the laws its   *)
(* answers contradict.                                                     *)
(***************************************************************************)
EXTENDS StackCampaign, ProofLemmas

-----------------------------------------------------------------------------
(* What an adapter holds. *)

StackSet == [contents : Seq(Int), parent : Nat, changed : BOOLEAN]

AdapterOK(m, a) ==
  IF m \in Languages THEN a \in [stacks : Seq(Seq(Int)), seq : Int]
  ELSE a \in [heap : Seq(StackSet), count : Nat]

(* The contents of a stack, top first. *)
Upright(m, s) == IF m = "rust" THEN Reverse(s) ELSE s

Contents(m, a, h) ==
  IF m \notin Languages THEN a.heap[h].contents
  ELSE Upright(m, a.stacks[h])

(* A stack that was handed out stays what it is. *)
Retains(m, a, b) ==
  \A h \in 1 .. Given(m, a) : Contents(m, b, h) = Contents(m, a, h)

(* How the adapters that get a pop wrong do. *)
FromBottom == {"bottom-first", "shallow-liar"}
Stops(m)   == m \notin {"nonterminating-observation", "wrong-empty"}
Exact(m)   == m \in Faithful \cup {"forbidden-event", "wrong-empty", "status-error"}

TopTold(m, c) ==
  IF m \in FromBottom /\ Len(c) >= 2 THEN Last(c)
  ELSE IF m = "wrong-value" THEN Head(c) + 1 ELSE Head(c)

RestKept(m, c) ==
  IF Len(c) >= 2 /\ m \in FromBottom THEN Front(c)
  ELSE IF Len(c) >= 2 /\ m = "wrong-remainder" THEN <<>> ELSE Tail(c)

(* The values told when such a stack is popped to its end. *)
Told(m, c) ==
  IF m \in FromBottom THEN Reverse(c)
  ELSE IF m = "wrong-value" THEN [i \in 1 .. Len(c) |-> c[i] + 1]
  ELSE IF m = "wrong-remainder" /\ Len(c) >= 2 THEN <<Head(c)>>
  ELSE c

(* What is left of the planned contents s in a stack.                      *)
Fits(m, c, s) ==
  IF Exact(m) THEN c = s ELSE Stops(m) => Len(c) <= Len(s)

-----------------------------------------------------------------------------
(* The invariant. *)

Statuses == {"none", "going", "complete", "early-none", "nonempty-tail"}

Kinds ==
  /\ plan \in Plans
  /\ AdapterOK(mode, adapter)
  /\ handles \in Seq(Nat)
  /\ states \in Seq(Seq(Int))
  /\ Len(states) = Len(handles)
  /\ baselines \in [DOMAIN baselines -> [seen : Seq(Int), status : Statuses]]
  /\ look \in [at : Nat, goal : Seq(Int), seen : Seq(Int), status : Statuses]
  /\ watch \in Nat
  /\ TypeOK

(* Where the campaign is in a case. *)
Position ==
  /\ pc \in {"step", "baseline", "remainder"} => watch = 1
  /\ pc = "baseline" => At <= Len(Steps) /\ Step.source \in DOMAIN handles
  /\ pc = "remainder" => handles # <<>>
  /\ pc \in {"watch", "observe"} => Len(handles) = Len(Steps)
  /\ pc = "observe" => watch \in DOMAIN Watches /\ Watched.declaration # "stack-effects"
  /\ failed # "no" => pc \in {"summary", "done"}
  /\ pc \in {"summary", "done"} /\ failed = "no" => case = Len(plan) /\ watch > Len(Watches)

(* The step that bound what is looked at. *)
LookedAt ==
  CASE pc = "baseline"  -> Step.source
    [] pc = "remainder" -> Len(handles)
    [] OTHER            -> Watched.on

StatesPlanned == \A i \in DOMAIN states : states[i] = TopFirst(Steps)[i]

LookPlaced ==
  look.status # "none" =>
    /\ LookedAt \in DOMAIN handles
    /\ handles[LookedAt] # 0
    /\ look.goal = TopFirst(Steps)[LookedAt]
    /\ look.status = "going" => look.at # 0 /\ Len(look.seen) <= Len(look.goal)

(* Every watch that is past left a record. *)
WatchesRecorded ==
  \A c \in DOMAIN plan : \A w \in DOMAIN plan[c].watches :
    c < case \/ (c = case /\ w < watch) =>
      \E r \in records : r.case = c /\ r.declaration = plan[c].watches[w].declaration

ReportFits ==
  IF pc = "done" THEN result = Summary(outcomes) /\ outcomes = [d \in Declarations |-> Outcome(d)]
  ELSE result = "none"

(* Only one adapter refuses, and only one reports what is forbidden.       *)
EventsOwned ==
  /\ failed = "refused" => mode = "status-error"
  /\ forbidden => mode = "forbidden-event"

HandlesFit ==
  \A i \in DOMAIN handles :
    handles[i] # 0 => Fits(mode, Contents(mode, adapter, handles[i]), states[i])

(* What a look has seen so far, and what is left of it.                    *)
LookFits ==
  look.status # "none" =>
    LET c    == Contents(mode, adapter, handles[LookedAt])
        left == Contents(mode, adapter, look.at)
    IN
    IF mode = "nonterminating-observation"
    THEN look.status \in {"going", "nonempty-tail"}
    ELSE IF mode = "wrong-empty"
    THEN IF look.status = "going" THEN look.seen \o left = look.goal
         ELSE look.status = "nonempty-tail" /\ Front(look.seen) = look.goal
    ELSE IF look.status = "going" THEN look.seen \o Told(mode, left) = Told(mode, c)
         ELSE /\ look.seen = Told(mode, c)
              /\ look.status = IF Len(look.seen) = Len(look.goal) THEN "complete" ELSE "early-none"

BaselinesFit ==
  \A b \in DOMAIN baselines :
    /\ handles[b] # 0
    /\ baselines[b].status = "complete" =>
         /\ Stops(mode)
         /\ baselines[b].seen = Told(mode, Contents(mode, adapter, handles[b]))
         /\ Len(baselines[b].seen) = Len(TopFirst(Steps)[b])

Blamed ==
  Exact(mode) \/ WatchesEmptiness => Challenged \subseteq Breaks(mode)

SteadyInv == Steady(mode) => HandlesFit /\ LookFits /\ BaselinesFit /\ Blamed

IInv ==
  /\ Kinds
  /\ Position
  /\ StatesPlanned
  /\ LookPlaced
  /\ WatchesRecorded
  /\ ReportFits
  /\ EventsOwned
  /\ SteadyInv

-----------------------------------------------------------------------------
(* The planned contents of a history. *)

(* What step i binds when the steps before it bound what g says.           *)
Bound(steps, g, i) ==
  CASE steps[i].op = "empty" -> <<>>
    [] steps[i].op = "push"  -> <<steps[i].value>> \o g[steps[i].source]
    [] OTHER -> IF g[steps[i].source] = <<>> THEN <<>> ELSE Tail(g[steps[i].source])

(* Every step but an empty one takes what an earlier one bound.            *)
Backward(steps) ==
  \A i \in DOMAIN steps : steps[i].op # "empty" => steps[i].source \in 1 .. i - 1

(* It depends on nothing but the source.                                   *)
LEMMA BoundOfSource ==
  ASSUME NEW steps \in Seq(StepSet), NEW i \in DOMAIN steps, NEW f, NEW g,
         steps[i].op # "empty" => f[steps[i].source] = g[steps[i].source]
  PROVE  Bound(steps, f, i) = Bound(steps, g, i)
BY DEF Bound, StepSet

(* It is a sequence if the source is.                                      *)
LEMMA BoundType ==
  ASSUME NEW steps \in Seq(StepSet), NEW i \in DOMAIN steps, NEW g,
         steps[i].op # "empty" => g[steps[i].source] \in Seq(Int)
  PROVE  Bound(steps, g, i) \in Seq(Int)
<1>1. steps[i] \in StepSet
    OBVIOUS
<1>2. CASE steps[i].op = "empty"
    BY <1>2 DEF Bound
<1>3. CASE steps[i].op = "push"
  <2>1. <<steps[i].value>> \in Seq(Int) /\ g[steps[i].source] \in Seq(Int)
      BY <1>1, <1>3 DEF StepSet
  <2> QED BY <1>3, <2>1 DEF Bound
<1>4. CASE steps[i].op \notin {"empty", "push"}
  <2> DEFINE s == g[steps[i].source]
  <2>1. s \in Seq(Int)
      BY <1>4
  <2>2. s # <<>> => Tail(s) \in Seq(Int)
      BY <2>1
  <2>3. Bound(steps, g, i) = IF s = <<>> THEN <<>> ELSE Tail(s)
      BY <1>4 DEF Bound
  <2> HIDE DEF s
  <2> QED BY <2>2, <2>3
<1> QED BY <1>2, <1>3, <1>4

(* The planned contents satisfy the recursion that defines them.           *)
LEMMA TopFirstUnfolds ==
  ASSUME NEW steps \in Seq(StepSet), Backward(steps)
  PROVE  /\ TopFirst(steps) = [i \in DOMAIN steps |-> Bound(steps, TopFirst(steps), i)]
         /\ \A i \in DOMAIN steps : TopFirst(steps)[i] \in Seq(Int)
<1> DEFINE N == Len(steps)
           D == [1 .. N -> Seq(Int)]
           a == [i \in 1 .. N |-> <<>>]
           step == [k \in 1 .. N |-> [g \in D |-> [i \in 1 .. N |-> IF i = k THEN Bound(steps, g, k) ELSE g[i]]]]
<1>1. N \in Nat /\ DOMAIN steps = 1 .. N
    OBVIOUS
<1>2. a \in D
    OBVIOUS
<1>3. ASSUME NEW k \in 1 .. N, NEW g \in D PROVE Bound(steps, g, k) \in Seq(Int)
  <2>1. steps[k].op # "empty" => steps[k].source \in 1 .. N
      BY <1>1 DEF Backward
  <2>2. k \in DOMAIN steps /\ (steps[k].op # "empty" => g[steps[k].source] \in Seq(Int))
      BY <1>1, <2>1
  <2> HIDE DEF D, N
  <2> QED BY <2>2, BoundType
<1>4. step \in StepFunctions(N, D)
  <2>1. ASSUME NEW k \in 1 .. N, NEW g \in D
        PROVE [i \in 1 .. N |-> IF i = k THEN Bound(steps, g, k) ELSE g[i]] \in D
      BY <1>3
  <2> QED BY <2>1 DEF StepFunctions
<1>5. PICK f : Computes(f, a, step, N, D)
  <2> HIDE DEF N, D, a, step
  <2> QED BY <1>1, <1>2, <1>4, RecursionExists
<1>6. /\ f \in [0 .. N -> D]
      /\ \A k \in 1 .. N : f[k] = step[k][f[k - 1]]
    BY <1>5 DEF Computes
<1>7. ASSUME NEW k \in 1 .. N
      PROVE  /\ f[k - 1] \in D /\ f[k] \in D
             /\ f[k][k] = Bound(steps, f[k - 1], k)
             /\ \A i \in 1 .. N : i # k => f[k][i] = f[k - 1][i]
  <2>1. k - 1 \in 0 .. N /\ k \in 0 .. N
      OBVIOUS
  <2>2. f[k - 1] \in D /\ f[k] \in D
      BY <1>6, <2>1
  <2>3. f[k] = [i \in 1 .. N |-> IF i = k THEN Bound(steps, f[k - 1], k) ELSE f[k - 1][i]]
      BY <1>6, <2>2
  <2> QED BY <2>2, <2>3
<1>8. ASSUME NEW i \in 1 .. N
      PROVE  \A k \in i .. N : f[k][i] = f[i][i]
  <2> DEFINE T == {n \in 0 .. N : n >= i => f[n][i] = f[i][i]}
  <2>1. 0 \in T
      OBVIOUS
  <2>2. ASSUME NEW n \in 1 .. N, n - 1 \in T PROVE n \in T
    <3>1. CASE n <= i
        BY <3>1
    <3>2. CASE n > i
      <4>1. f[n][i] = f[n - 1][i]
          BY <1>7, <3>2
      <4>2. f[n - 1][i] = f[i][i]
          BY <2>2, <3>2
      <4> QED BY <4>1, <4>2
    <3> QED BY <3>1, <3>2
  <2>3. 0 .. N \subseteq T
    <3> HIDE DEF T, N
    <3> QED BY <1>1, <2>1, <2>2, Induction
  <2> QED BY <2>3
<1> DEFINE F == f[N]
<1>9. F \in [1 .. N -> Seq(Int)]
    BY <1>6
<1>10. ASSUME NEW i \in 1 .. N PROVE F[i] = Bound(steps, F, i)
  <2>1. F[i] = Bound(steps, f[i - 1], i)
      BY <1>7, <1>8
  <2>2. ASSUME steps[i].op # "empty"
        PROVE  f[i - 1][steps[i].source] = F[steps[i].source]
    <3>1. steps[i].source \in 1 .. i - 1
        BY <1>1, <2>2 DEF Backward
    <3> DEFINE j == steps[i].source
    <3>2. j \in 1 .. N /\ i - 1 \in j .. N /\ N \in j .. N
        BY <3>1
    <3> HIDE DEF j
    <3> QED BY <1>8, <3>2 DEF j
  <2>3. i \in DOMAIN steps
      BY <1>1
  <2>4. Bound(steps, f[i - 1], i) = Bound(steps, F, i)
    <3> HIDE DEF F
    <3> QED BY <2>2, <2>3, BoundOfSource
  <2> QED BY <2>1, <2>4
<1>11. F = [i \in DOMAIN steps |-> Bound(steps, F, i)]
  <2> HIDE DEF F
  <2> QED BY <1>1, <1>9, <1>10
<1>12. TopFirst(steps) = [i \in DOMAIN steps |-> Bound(steps, TopFirst(steps), i)]
  <2> HIDE DEF F
  <2>1. \E s : s = [i \in DOMAIN steps |-> Bound(steps, s, i)]
      BY <1>11
  <2>2. TopFirst(steps) = CHOOSE s : s = [i \in DOMAIN steps |-> Bound(steps, s, i)]
      BY Zenon DEF TopFirst, Bound
  <2> QED BY <2>1, <2>2
<1>13. ASSUME NEW j \in 1 .. N PROVE TopFirst(steps)[j] \in Seq(Int)
  <2> DEFINE T == {n \in 0 .. N : \A i \in 1 .. n : TopFirst(steps)[i] \in Seq(Int)}
  <2>1. 0 \in T
      OBVIOUS
  <2>2. ASSUME NEW n \in 1 .. N, n - 1 \in T PROVE n \in T
    <3>1. n \in DOMAIN steps /\ (steps[n].op # "empty" => steps[n].source \in 1 .. n - 1)
        BY <1>1 DEF Backward
    <3>2. steps[n].op # "empty" => TopFirst(steps)[steps[n].source] \in Seq(Int)
        BY <2>2, <3>1
    <3>3. TopFirst(steps)[n] = Bound(steps, TopFirst(steps), n)
        BY <1>12, <3>1
    <3>4. TopFirst(steps)[n] \in Seq(Int)
        BY <3>1, <3>2, <3>3, BoundType
    <3>5. \A i \in 1 .. n : i = n \/ i \in 1 .. n - 1
        OBVIOUS
    <3> QED BY <2>2, <3>4, <3>5
  <2>3. 0 .. N \subseteq T
    <3> HIDE DEF T, N
    <3> QED BY <1>1, <2>1, <2>2, Induction
  <2>4. N \in T
      BY <1>1, <2>3
  <2> QED BY <2>4
<1> QED BY <1>1, <1>12, <1>13

-----------------------------------------------------------------------------
(* Stacks as sequences. *)

(* What Reverse is.                                                        *)
LEMMA ReverseShape ==
  ASSUME NEW c \in Seq(Int), NEW n \in Nat, n = Len(c)
  PROVE  /\ Reverse(c) \in Seq(Int) /\ Len(Reverse(c)) = n
         /\ \A i \in 1 .. n : Reverse(c)[i] = c[(n - i) + 1]
<1>1. c \in [1 .. n -> Int]
    OBVIOUS
<1>2. \A i \in 1 .. n : (n - i) + 1 \in 1 .. n
    OBVIOUS
<1>3. Reverse(c) = [i \in 1 .. n |-> c[(n - i) + 1]]
    BY DEF Reverse
<1>4. Reverse(c) \in [1 .. n -> Int]
    BY <1>1, <1>2, <1>3
<1> QED BY <1>3, <1>4

(* What Front and Last are.                                                *)
LEMMA FrontShape ==
  ASSUME NEW c \in Seq(Int), c # <<>>
  PROVE  /\ Front(c) \in Seq(Int) /\ Len(Front(c)) = Len(c) - 1
         /\ \A i \in 1 .. Len(c) - 1 : Front(c)[i] = c[i]
         /\ Last(c) = c[Len(c)] /\ Last(c) \in Int
<1>1. Len(c) \in Nat /\ c \in [1 .. Len(c) -> Int] /\ Len(c) >= 1
    OBVIOUS
<1>2. Front(c) = [i \in 1 .. Len(c) - 1 |-> c[i]]
    BY <1>1 DEF Front
<1>3. Front(c) \in [1 .. Len(c) - 1 -> Int] /\ Len(c) - 1 \in Nat
    BY <1>1, <1>2
<1> QED BY <1>1, <1>2, <1>3 DEF Last

(* Two sequences of one length that agree everywhere are one.              *)
LEMMA SameSequence ==
  ASSUME NEW s \in Seq(Int), NEW t \in Seq(Int), Len(s) = Len(t),
         \A i \in 1 .. Len(s) : s[i] = t[i]
  PROVE  s = t
OBVIOUS

(* A stack kept bottom first, as Rust keeps it.                            *)
LEMMA ReversedStack ==
  ASSUME NEW s \in Seq(Int), NEW v \in Int
  PROVE  /\ Reverse(<<>>) = <<>>
         /\ Reverse(s) = <<>> <=> s = <<>>
         /\ Reverse(Append(s, v)) = <<v>> \o Reverse(s)
         /\ s # <<>> => /\ Head(Reverse(s)) = Last(s)
                        /\ Tail(Reverse(s)) = Reverse(Front(s))
<1>1. Reverse(<<>>) = <<>>
    BY DEF Reverse
<1>2. Len(s) \in Nat /\ Append(s, v) \in Seq(Int) /\ Len(Append(s, v)) = Len(s) + 1
    OBVIOUS
<1> DEFINE r == Reverse(s)
<1>3. r \in Seq(Int) /\ Len(r) = Len(s) /\ \A i \in 1 .. Len(s) : r[i] = s[(Len(s) - i) + 1]
    BY <1>2, ReverseShape
<1>4. Reverse(Append(s, v)) = <<v>> \o r
  <2> DEFINE x == Reverse(Append(s, v))
             y == <<v>> \o r
  <2>1. /\ x \in Seq(Int) /\ Len(x) = Len(s) + 1
        /\ \A i \in 1 .. Len(s) + 1 : x[i] = Append(s, v)[((Len(s) + 1) - i) + 1]
    <3> DEFINE t == Append(s, v)
               n == Len(s) + 1
    <3>1. t \in Seq(Int) /\ n \in Nat /\ n = Len(t)
        BY <1>2
    <3> HIDE DEF t, n
    <3>2. Reverse(t) \in Seq(Int) /\ Len(Reverse(t)) = n /\ \A i \in 1 .. n : Reverse(t)[i] = t[(n - i) + 1]
        BY <3>1, ReverseShape
    <3> QED BY <3>2 DEF t, n
  <2> HIDE DEF r, x
  <2>2. y \in Seq(Int) /\ Len(y) = Len(s) + 1
      BY <1>2, <1>3
  <2>3. ASSUME NEW i \in 1 .. Len(s) + 1 PROVE x[i] = y[i]
    <3>1. CASE i = 1
        BY <1>2, <2>1, <3>1
    <3>2. CASE i # 1
      <4>1. i - 1 \in 1 .. Len(s) /\ ((Len(s) + 1) - i) + 1 \in 1 .. Len(s)
          BY <1>2, <3>2
      <4>2. y[i] = r[i - 1]
          BY <1>2, <1>3, <4>1
      <4>3. r[i - 1] = s[(Len(s) - (i - 1)) + 1]
          BY <1>3, <4>1
      <4>4. (Len(s) - (i - 1)) + 1 = ((Len(s) + 1) - i) + 1
          BY <1>2
      <4>5. x[i] = s[((Len(s) + 1) - i) + 1]
          BY <2>1, <4>1
      <4> QED BY <4>2, <4>3, <4>4, <4>5
    <3> QED BY <3>1, <3>2
  <2> HIDE DEF y
  <2>4. x = y
      BY <2>1, <2>2, <2>3, SameSequence
  <2> QED BY <2>4 DEF x, y
<1>5. ASSUME s # <<>> PROVE Head(r) = Last(s) /\ Tail(r) = Reverse(Front(s))
  <2> DEFINE x == Tail(r)
             y == Reverse(Front(s))
  <2>1. Len(s) >= 1
      BY <1>5
  <2>2. /\ Front(s) \in Seq(Int) /\ Len(Front(s)) = Len(s) - 1
        /\ \A i \in 1 .. Len(s) - 1 : Front(s)[i] = s[i]
        /\ Last(s) = s[Len(s)]
      BY <1>5, FrontShape
  <2>3. /\ y \in Seq(Int) /\ Len(y) = Len(s) - 1
        /\ \A i \in 1 .. Len(s) - 1 : y[i] = Front(s)[((Len(s) - 1) - i) + 1]
    <3> DEFINE t == Front(s)
               n == Len(s) - 1
    <3>1. t \in Seq(Int) /\ n \in Nat /\ n = Len(t)
        BY <1>2, <2>1, <2>2
    <3> HIDE DEF t, n
    <3>2. Reverse(t) \in Seq(Int) /\ Len(Reverse(t)) = n /\ \A i \in 1 .. n : Reverse(t)[i] = t[(n - i) + 1]
        BY <3>1, ReverseShape
    <3> QED BY <3>2 DEF t, n
  <2> HIDE DEF r, y
  <2>4. r # <<>> /\ Head(r) = r[1]
      BY <1>3, <2>1
  <2>5. Head(r) = Last(s)
      BY <1>3, <2>1, <2>2, <2>4
  <2>6. x \in Seq(Int) /\ Len(x) = Len(s) - 1 /\ \A i \in 1 .. Len(s) - 1 : x[i] = r[i + 1]
      BY <1>3, <2>1, <2>4
  <2>7. ASSUME NEW i \in 1 .. Len(s) - 1 PROVE x[i] = y[i]
    <3>1. i + 1 \in 1 .. Len(s) /\ ((Len(s) - 1) - i) + 1 \in 1 .. Len(s) - 1
        BY <1>2
    <3>2. x[i] = s[(Len(s) - (i + 1)) + 1]
        BY <1>3, <2>6, <3>1
    <3>3. y[i] = s[((Len(s) - 1) - i) + 1]
        BY <2>2, <2>3, <3>1
    <3>4. (Len(s) - (i + 1)) + 1 = ((Len(s) - 1) - i) + 1
        BY <1>2
    <3> QED BY <3>2, <3>3, <3>4
  <2> HIDE DEF x
  <2>8. x = y
      BY <2>3, <2>6, <2>7, SameSequence
  <2> QED BY <2>5, <2>8 DEF x, y, r
<1>6. r = <<>> <=> s = <<>>
    BY <1>2, <1>3
<1> QED BY <1>1, <1>4, <1>5, <1>6

(* A value put on top.                                                     *)
LEMMA ConsShape ==
  ASSUME NEW v \in Int, NEW s \in Seq(Int)
  PROVE  /\ <<v>> \o s \in Seq(Int) /\ Len(<<v>> \o s) = Len(s) + 1
         /\ (<<v>> \o s)[1] = v
         /\ \A i \in 1 .. Len(s) : (<<v>> \o s)[i + 1] = s[i]
<1> DEFINE u == <<v>>
<1>1. u \in Seq(Int) /\ Len(u) = 1 /\ u[1] = v
    OBVIOUS
<1>2. Len(s) \in Nat
    OBVIOUS
<1> HIDE DEF u
<1>3. /\ u \o s \in Seq(Int) /\ Len(u \o s) = Len(u) + Len(s)
      /\ \A i \in 1 .. Len(u) + Len(s) : (u \o s)[i] = IF i <= Len(u) THEN u[i] ELSE s[i - Len(u)]
    BY <1>1, ConcatProperties
<1>4. 1 \in 1 .. Len(u) + Len(s)
    BY <1>1, <1>2
<1>5. (u \o s)[1] = v
    BY <1>1, <1>3, <1>4
<1>6. ASSUME NEW i \in 1 .. Len(s) PROVE (u \o s)[i + 1] = s[i]
  <2>1. i + 1 \in 1 .. Len(u) + Len(s) /\ ~(i + 1 <= Len(u)) /\ (i + 1) - Len(u) = i
      BY <1>1, <1>2
  <2> QED BY <1>3, <2>1
<1>7. Len(u) + Len(s) = Len(s) + 1
    BY <1>1, <1>2
<1> QED BY <1>3, <1>5, <1>6, <1>7 DEF u

(* The first value and the others.                                         *)
LEMMA HeadAndTail ==
  ASSUME NEW c \in Seq(Int), c # <<>>
  PROVE  /\ Head(c) \in Int /\ Tail(c) \in Seq(Int) /\ Len(Tail(c)) = Len(c) - 1
         /\ c = <<Head(c)>> \o Tail(c)
         /\ Head(c) = c[1] /\ \A i \in 1 .. Len(c) - 1 : Tail(c)[i] = c[i + 1]
<1>1. Len(c) \in Nat /\ Len(c) >= 1
    OBVIOUS
<1>2. Head(c) \in Int /\ Tail(c) \in Seq(Int) /\ Len(Tail(c)) = Len(c) - 1
    OBVIOUS
<1>3. Head(c) = c[1] /\ \A i \in 1 .. Len(c) - 1 : Tail(c)[i] = c[i + 1]
    OBVIOUS
<1>4. c = <<Head(c)>> \o Tail(c)
  <2> DEFINE v == Head(c)
             t == Tail(c)
             y == <<v>> \o t
  <2>1. /\ v \in Int /\ t \in Seq(Int) /\ Len(t) = Len(c) - 1
        /\ v = c[1] /\ \A i \in 1 .. Len(c) - 1 : t[i] = c[i + 1]
      BY <1>2, <1>3
  <2> HIDE DEF v, t
  <2>2. /\ y \in Seq(Int) /\ Len(y) = Len(t) + 1 /\ y[1] = v
        /\ \A i \in 1 .. Len(t) : y[i + 1] = t[i]
      BY <2>1, ConsShape
  <2> HIDE DEF y
  <2>3. ASSUME NEW i \in 1 .. Len(c) PROVE c[i] = y[i]
    <3>1. CASE i = 1
        BY <2>1, <2>2, <3>1
    <3>2. CASE i # 1
      <4>1. i - 1 \in 1 .. Len(t) /\ (i - 1) + 1 = i
          BY <1>1, <2>1, <3>2
      <4>2. y[i] = t[i - 1] /\ t[i - 1] = c[i]
          BY <2>1, <2>2, <4>1
      <4> QED BY <4>2
    <3> QED BY <3>1, <3>2
  <2>4. Len(c) = Len(y)
      BY <1>1, <2>1, <2>2
  <2>5. c = y
      BY <2>2, <2>3, <2>4, SameSequence
  <2> QED BY <2>5 DEF y, v, t
<1> QED BY <1>2, <1>3, <1>4

(* A stack popped from the bottom tells its contents in reverse.           *)
LEMMA ReverseFromEnd ==
  ASSUME NEW c \in Seq(Int), c # <<>>
  PROVE  Reverse(c) = <<Last(c)>> \o Reverse(Front(c))
<1> DEFINE s == Front(c)
           v == Last(c)
<1>1. /\ s \in Seq(Int) /\ Len(s) = Len(c) - 1 /\ v = c[Len(c)] /\ v \in Int
      /\ \A i \in 1 .. Len(c) - 1 : s[i] = c[i]
    BY FrontShape
<1>2. Len(c) \in Nat /\ Len(c) >= 1
    OBVIOUS
<1> HIDE DEF s, v
<1>3. Append(s, v) \in Seq(Int) /\ Len(Append(s, v)) = Len(c)
    BY <1>1, <1>2
<1>4. \A i \in 1 .. Len(c) : Append(s, v)[i] = c[i]
    BY <1>1, <1>2
<1>5. Append(s, v) = c
  <2> DEFINE x == Append(s, v)
  <2>1. x \in Seq(Int) /\ Len(x) = Len(c) /\ \A i \in 1 .. Len(x) : x[i] = c[i]
      BY <1>3, <1>4
  <2> HIDE DEF x
  <2>2. x = c
      BY <2>1, SameSequence
  <2> QED BY <2>2 DEF x
<1>6. Reverse(Append(s, v)) = <<v>> \o Reverse(s)
    BY <1>1, ReversedStack
<1> QED BY <1>5, <1>6 DEF s, v

(* One value reversed.                                                     *)
LEMMA ReverseOne ==
  ASSUME NEW c \in Seq(Int), Len(c) = 1
  PROVE  Reverse(c) = <<Head(c)>> /\ Tail(c) = <<>>
<1>1. c # <<>>
    BY EmptySeq
<1>2. Reverse(c) = <<Last(c)>> \o Reverse(Front(c))
    BY <1>1, ReverseFromEnd
<1>3. Front(c) = <<>> /\ Last(c) = Head(c) /\ Last(c) \in Int
  <2> DEFINE f == Front(c)
             l == Last(c)
  <2>0. f \in Seq(Int) /\ Len(f) = Len(c) - 1 /\ l = c[Len(c)] /\ l \in Int
      BY <1>1, FrontShape, Zenon
  <2> HIDE DEF f, l
  <2>1. f \in Seq(Int) /\ Len(f) = 0 /\ l = c[1] /\ l \in Int
      BY <2>0
  <2>2. f = <<>> /\ l = Head(c)
      BY <1>1, <2>1
  <2> QED BY <2>1, <2>2 DEF f, l
<1>4. Reverse(<<>>) = <<>>
    BY DEF Reverse
<1>5. <<Last(c)>> \o <<>> = <<Last(c)>>
    BY <1>3
<1>6. Tail(c) = <<>>
  <2>1. Tail(c) \in Seq(Int) /\ Len(Tail(c)) = 0
      BY <1>1, HeadAndTail
  <2> QED BY <2>1, EmptySeq
<1> QED BY <1>2, <1>3, <1>4, <1>5, <1>6, Zenon

(* What a stack tells.                                                     *)
LEMMA ToldType ==
  ASSUME NEW m, NEW c \in Seq(Int)
  PROVE  /\ Told(m, c) \in Seq(Int) /\ Len(Told(m, c)) <= Len(c)
         /\ Told(m, <<>>) = <<>>
         /\ Exact(m) => Told(m, c) = c
<1>1. Len(c) \in Nat
    OBVIOUS
<1>2. Told(m, <<>>) = <<>>
  <2>1. Reverse(<<>>) = <<>>
      BY DEF Reverse
  <2>2. [i \in 1 .. Len(<<>>) |-> <<>>[i] + 1] = <<>>
      OBVIOUS
  <2>3. ~(Len(<<>>) >= 2)
      OBVIOUS
  <2> QED BY <2>1, <2>2, <2>3 DEF Told
<1>3. CASE m \in FromBottom
  <2>1. Told(m, c) = Reverse(c)
      BY <1>3 DEF Told
  <2>2. Reverse(c) \in Seq(Int) /\ Len(Reverse(c)) = Len(c)
      BY <1>1, ReverseShape
  <2>3. ~Exact(m)
      BY <1>3 DEF FromBottom, Exact, Faithful, Languages
  <2> QED BY <1>1, <1>2, <2>1, <2>2, <2>3
<1>4. CASE m = "wrong-value"
  <2>1. Told(m, c) = [i \in 1 .. Len(c) |-> c[i] + 1]
      BY <1>4 DEF Told, FromBottom
  <2>2. [i \in 1 .. Len(c) |-> c[i] + 1] \in [1 .. Len(c) -> Int]
      OBVIOUS
  <2>3. ~Exact(m)
      BY <1>4 DEF Exact, Faithful, Languages
  <2> QED BY <1>1, <1>2, <2>1, <2>2, <2>3
<1>5. CASE m = "wrong-remainder"
  <2>1. Told(m, c) = IF Len(c) >= 2 THEN <<Head(c)>> ELSE c
      BY <1>5 DEF Told, FromBottom
  <2>2. Len(c) >= 2 => Head(c) \in Int
      BY HeadAndTail
  <2>3. ~Exact(m)
      BY <1>5 DEF Exact, Faithful, Languages
  <2> QED BY <1>1, <1>2, <2>1, <2>2, <2>3
<1>6. CASE m \notin FromBottom \cup {"wrong-value", "wrong-remainder"}
  <2>1. Told(m, c) = c
      BY <1>6 DEF Told
  <2> QED BY <1>1, <1>2, <2>1
<1> QED BY <1>3, <1>4, <1>5, <1>6

(* A pop tells the first of it and leaves what tells the rest.             *)
LEMMA ToldUnrolls ==
  ASSUME NEW m, NEW c \in Seq(Int), c # <<>>
  PROVE  /\ TopTold(m, c) \in Int
         /\ RestKept(m, c) \in Seq(Int) /\ Len(RestKept(m, c)) <= Len(c) - 1
         /\ Told(m, c) = <<TopTold(m, c)>> \o Told(m, RestKept(m, c))
         /\ Exact(m) => TopTold(m, c) = Head(c) /\ RestKept(m, c) = Tail(c)
<1>1. Len(c) \in Nat /\ Len(c) >= 1
    OBVIOUS
<1>2. /\ Head(c) \in Int /\ Tail(c) \in Seq(Int) /\ Len(Tail(c)) = Len(c) - 1
      /\ c = <<Head(c)>> \o Tail(c)
      /\ Head(c) = c[1] /\ \A i \in 1 .. Len(c) - 1 : Tail(c)[i] = c[i + 1]
    BY HeadAndTail
<1>3. CASE m \in FromBottom
  <2>1. ~Exact(m) /\ m # "wrong-value" /\ m # "wrong-remainder"
      BY <1>3 DEF FromBottom, Exact, Faithful, Languages
  <2>2. \A d : Told(m, d) = Reverse(d)
      BY <1>3 DEF Told
  <2>3. CASE Len(c) >= 2
    <3>1. TopTold(m, c) = Last(c) /\ RestKept(m, c) = Front(c)
        BY <1>3, <2>3 DEF TopTold, RestKept
    <3>2. Front(c) \in Seq(Int) /\ Len(Front(c)) = Len(c) - 1 /\ Last(c) \in Int
        BY FrontShape
    <3>3. Reverse(c) = <<Last(c)>> \o Reverse(Front(c))
        BY ReverseFromEnd
    <3>4. Len(Front(c)) <= Len(c) - 1
        BY <1>1, <3>2
    <3>5. Told(m, c) = <<TopTold(m, c)>> \o Told(m, RestKept(m, c))
        BY <2>2, <3>1, <3>3, Zenon
    <3> QED BY <2>1, <3>1, <3>2, <3>4, <3>5, Zenon
  <2>4. CASE Len(c) = 1
    <3>1. TopTold(m, c) = Head(c) /\ RestKept(m, c) = Tail(c)
        BY <2>1, <2>4 DEF TopTold, RestKept
    <3>2. Reverse(c) = <<Head(c)>> /\ Tail(c) = <<>>
        BY <2>4, ReverseOne
    <3>3. Reverse(<<>>) = <<>>
        BY DEF Reverse
    <3>4. <<Head(c)>> = <<Head(c)>> \o <<>>
        BY <1>2
    <3>5. Told(m, c) = <<TopTold(m, c)>> \o Told(m, RestKept(m, c))
        BY <2>2, <3>1, <3>2, <3>3, <3>4, Zenon
    <3>6. Len(Tail(c)) <= Len(c) - 1
        BY <1>1, <1>2
    <3> QED BY <1>2, <2>1, <3>1, <3>5, <3>6, Zenon
  <2> QED BY <1>1, <2>3, <2>4
<1>4. CASE m = "wrong-value"
  <2>1. ~Exact(m) /\ m \notin FromBottom
      BY <1>4 DEF FromBottom, Exact, Faithful, Languages
  <2>2. TopTold(m, c) = Head(c) + 1 /\ RestKept(m, c) = Tail(c)
      BY <1>4, <2>1 DEF TopTold, RestKept
  <2> DEFINE t == Tail(c)
             x == [i \in 1 .. Len(c) |-> c[i] + 1]
             z == [i \in 1 .. Len(t) |-> t[i] + 1]
             y == <<Head(c) + 1>> \o z
  <2>3. Told(m, c) = x /\ Told(m, t) = z
      BY <1>4, <2>1 DEF Told
  <2>4. x \in Seq(Int) /\ Len(x) = Len(c) /\ \A i \in 1 .. Len(c) : x[i] = c[i] + 1
    <3>1. x \in [1 .. Len(c) -> Int]
        OBVIOUS
    <3> QED BY <1>1, <3>1
  <2>5. z \in Seq(Int) /\ Len(z) = Len(c) - 1 /\ \A i \in 1 .. Len(c) - 1 : z[i] = c[i + 1] + 1
    <3>1. t \in Seq(Int) /\ Len(t) = Len(c) - 1 /\ \A i \in 1 .. Len(c) - 1 : t[i] = c[i + 1]
        BY <1>2
    <3> HIDE DEF t
    <3>2. z \in [1 .. Len(c) - 1 -> Int] /\ Len(c) - 1 \in Nat
        BY <1>1, <3>1
    <3> QED BY <3>1, <3>2
  <2> HIDE DEF x, z
  <2>6. /\ y \in Seq(Int) /\ Len(y) = Len(c) /\ y[1] = Head(c) + 1
        /\ \A i \in 1 .. Len(c) - 1 : y[i + 1] = z[i]
    <3>1. Head(c) + 1 \in Int
        BY <1>2
    <3>2. /\ y \in Seq(Int) /\ Len(y) = Len(z) + 1 /\ y[1] = Head(c) + 1
          /\ \A i \in 1 .. Len(z) : y[i + 1] = z[i]
        BY <2>5, <3>1, ConsShape
    <3> HIDE DEF y
    <3> QED BY <1>1, <2>5, <3>2
  <2> HIDE DEF y
  <2>7. ASSUME NEW i \in 1 .. Len(c) PROVE x[i] = y[i]
    <3>1. CASE i = 1
        BY <1>2, <2>4, <2>6, <3>1
    <3>2. CASE i # 1
      <4>1. i - 1 \in 1 .. Len(c) - 1 /\ (i - 1) + 1 = i
          BY <3>2
      <4>2. y[i] = z[i - 1]
          BY <2>6, <4>1
      <4>3. z[i - 1] = c[i] + 1
          BY <2>5, <4>1
      <4> QED BY <2>4, <4>2, <4>3
    <3> QED BY <3>1, <3>2
  <2> HIDE DEF y
  <2>8. x = y
      BY <2>4, <2>6, <2>7, SameSequence
  <2>9. Told(m, c) = <<TopTold(m, c)>> \o Told(m, RestKept(m, c))
      BY <2>2, <2>3, <2>8, Zenon DEF y
  <2>10. Head(c) + 1 \in Int /\ Len(Tail(c)) <= Len(c) - 1
      BY <1>1, <1>2
  <2> QED BY <1>2, <2>1, <2>2, <2>9, <2>10, Zenon
<1>5. CASE m = "wrong-remainder"
  <2>1. ~Exact(m) /\ m \notin FromBottom /\ m # "wrong-value"
      BY <1>5 DEF FromBottom, Exact, Faithful, Languages
  <2>2. TopTold(m, c) = Head(c)
      BY <1>5, <2>1 DEF TopTold
  <2>3. CASE Len(c) >= 2
    <3>1. RestKept(m, c) = <<>> /\ Told(m, c) = <<Head(c)>>
        BY <1>5, <2>1, <2>3 DEF RestKept, Told
    <3>2. Told(m, <<>>) = <<>>
        BY ToldType
    <3>3. <<Head(c)>> = <<Head(c)>> \o <<>>
        BY <1>2
    <3>4. Told(m, c) = <<TopTold(m, c)>> \o Told(m, RestKept(m, c))
        BY <2>2, <3>1, <3>2, <3>3, Zenon
    <3>5. <<>> \in Seq(Int) /\ Len(<<>>) <= Len(c) - 1
        BY <1>1
    <3> QED BY <1>2, <2>1, <2>2, <3>1, <3>4, <3>5, Zenon
  <2>4. CASE Len(c) = 1
    <3>1. RestKept(m, c) = Tail(c) /\ Told(m, c) = c
        BY <1>5, <2>1, <2>4 DEF RestKept, Told
    <3>2. ~(Len(Tail(c)) >= 2)
        BY <1>2, <2>4
    <3>3. Told(m, Tail(c)) = Tail(c)
        BY <1>5, <2>1, <3>2 DEF Told
    <3>4. Told(m, c) = <<TopTold(m, c)>> \o Told(m, RestKept(m, c))
        BY <1>2, <2>2, <3>1, <3>3, Zenon
    <3>5. Len(Tail(c)) <= Len(c) - 1
        BY <1>1, <1>2
    <3> QED BY <1>2, <2>1, <2>2, <3>1, <3>4, <3>5, Zenon
  <2> QED BY <1>1, <2>3, <2>4
<1>6. CASE m \notin FromBottom \cup {"wrong-value", "wrong-remainder"}
  <2>1. TopTold(m, c) = Head(c) /\ RestKept(m, c) = Tail(c)
      BY <1>6 DEF TopTold, RestKept
  <2>2. \A d : Told(m, d) = d
      BY <1>6 DEF Told
  <2>3. Told(m, c) = <<TopTold(m, c)>> \o Told(m, RestKept(m, c))
      BY <1>2, <2>1, <2>2, Zenon
  <2>4. Len(Tail(c)) <= Len(c) - 1
      BY <1>1, <1>2
  <2> QED BY <1>2, <2>1, <2>3, <2>4, Zenon
<1> QED BY <1>3, <1>4, <1>5, <1>6

-----------------------------------------------------------------------------
(* What the fixture answers. *)

HeapOK(heap)   == heap \in Seq(StackSet)
Keeps(heap, g) == \A h \in 1 .. Len(heap) : g[h].contents = heap[h].contents

(* What was made of a heap keeps its stacks, and has a stack of this       *)
(* contents at the handle that is given.                                   *)
Gives(heap, made, c) ==
  /\ HeapOK(made.heap) /\ Len(heap) <= Len(made.heap)
  /\ made.handle \in 1 .. Len(made.heap)
  /\ made.heap[made.handle].contents = c
  /\ Keeps(heap, made.heap)

(* Allocation does.                                                        *)
LEMMA AllocateGives ==
  ASSUME NEW m, NEW heap, HeapOK(heap), NEW c \in Seq(Int), NEW parent \in Nat
  PROVE  Gives(heap, Allocate(m, heap, c, parent), c)
<1> DEFINE same == {h \in DOMAIN heap : heap[h].contents = c}
<1>1. heap \in Seq(StackSet) /\ Len(heap) \in Nat /\ DOMAIN heap = 1 .. Len(heap)
    BY DEF HeapOK
<1>2. CASE m = "interned" /\ same # {}
  <2> DEFINE h == CHOOSE x \in same : TRUE
  <2>1. h \in same
      BY <1>2
  <2>2. Allocate(m, heap, c, parent) = [handle |-> h, heap |-> heap]
      BY <1>2 DEF Allocate
  <2> HIDE DEF h
  <2>3. Gives(heap, [handle |-> h, heap |-> heap], c)
      BY <1>1, <2>1 DEF Keeps, HeapOK, Gives
  <2> QED BY <2>2, <2>3
<1>3. CASE ~(m = "interned" /\ same # {})
  <2> DEFINE s == Stack(c, parent)
             g == Append(heap, s)
  <2>1. Allocate(m, heap, c, parent) = [handle |-> Len(heap) + 1, heap |-> g]
      BY <1>3 DEF Allocate
  <2>2. s \in StackSet /\ s.contents = c
      BY DEF Stack, StackSet
  <2> HIDE DEF s
  <2>3. /\ g \in Seq(StackSet) /\ Len(g) = Len(heap) + 1 /\ g[Len(heap) + 1] = s
        /\ \A h \in 1 .. Len(heap) : g[h] = heap[h]
      BY <1>1, <2>2
  <2> HIDE DEF g
  <2>4. Gives(heap, [handle |-> Len(heap) + 1, heap |-> g], c)
      BY <1>1, <2>2, <2>3 DEF Keeps, HeapOK, Gives
  <2> QED BY <2>1, <2>4
<1> QED BY <1>2, <1>3

(* A heap with a stack's contents replaced.                                *)
LEMMA InPlaceType ==
  ASSUME NEW heap, HeapOK(heap), NEW h \in 1 .. Len(heap), NEW c \in Seq(Int)
  PROVE  HeapOK([heap EXCEPT ![h].contents = c]) /\ Len([heap EXCEPT ![h].contents = c]) = Len(heap)
<1> DEFINE s == [heap[h] EXCEPT !.contents = c]
           g == [heap EXCEPT ![h] = s]
<1>1. heap \in Seq(StackSet) /\ Len(heap) \in Nat
    BY DEF HeapOK
<1>2. heap[h] \in StackSet
    BY <1>1
<1>3. s \in StackSet
    BY <1>2 DEF StackSet
<1>4. [heap EXCEPT ![h].contents = c] = g
    BY <1>1
<1> HIDE DEF s
<1>5. g \in Seq(StackSet) /\ Len(g) = Len(heap)
    BY <1>1, <1>3
<1> QED BY <1>4, <1>5 DEF HeapOK

(* The change of an ancestor keeps the heap a heap; only one mode makes    *)
(* it.                                                                     *)
LEMMA ChangeAncestorType ==
  ASSUME NEW m, NEW heap, HeapOK(heap), NEW h \in 1 .. Len(heap)
  PROVE  LET g == ChangeAncestor(m, heap, h) IN
         /\ HeapOK(g) /\ Len(g) = Len(heap)
         /\ m # "retained-ancestor-change" => g = heap
<1> DEFINE p == heap[h].parent
           g == ChangeAncestor(m, heap, h)
<1>1. heap \in Seq(StackSet) /\ Len(heap) \in Nat /\ heap \in [1 .. Len(heap) -> StackSet]
    BY DEF HeapOK
<1>2. CASE m = "retained-ancestor-change" /\ p # 0 /\ ~heap[h].changed
  <2> DEFINE x == [heap EXCEPT ![p].contents = Append(@, -2)]
             y == [x EXCEPT ![h].changed = TRUE]
  <2>1. g = y
      BY <1>2 DEF ChangeAncestor
  <2>2. x \in [1 .. Len(heap) -> StackSet]
    <3>1. CASE p \in 1 .. Len(heap)
      <4> DEFINE s == [heap[p] EXCEPT !.contents = Append(heap[p].contents, -2)]
      <4>1. heap[p] \in StackSet
          BY <1>1, <3>1
      <4>2. Append(heap[p].contents, -2) \in Seq(Int)
          BY <4>1 DEF StackSet
      <4>3. s \in StackSet
          BY <4>1, <4>2 DEF StackSet
      <4>4. x = [heap EXCEPT ![p] = s]
          BY <1>1
      <4> HIDE DEF s
      <4> QED BY <1>1, <3>1, <4>3, <4>4
    <3>2. CASE p \notin 1 .. Len(heap)
      <4>1. x = heap
          BY <1>1, <3>2
      <4> QED BY <1>1, <4>1
    <3> QED BY <3>1, <3>2
  <2> HIDE DEF x
  <2>3. y \in [1 .. Len(heap) -> StackSet]
    <3> DEFINE s == [x[h] EXCEPT !.changed = TRUE]
    <3>1. x[h] \in StackSet
        BY <2>2
    <3>2. s \in StackSet
        BY <3>1 DEF StackSet
    <3>3. y = [x EXCEPT ![h] = s]
        BY <2>2
    <3> HIDE DEF s
    <3> QED BY <2>2, <3>2, <3>3
  <2> HIDE DEF y, g
  <2>4. g \in Seq(StackSet) /\ Len(g) = Len(heap)
      BY <1>1, <2>1, <2>3
  <2> QED BY <1>2, <2>4 DEF HeapOK, g
<1>3. CASE ~(m = "retained-ancestor-change" /\ p # 0 /\ ~heap[h].changed)
  <2>1. g = heap
      BY <1>3 DEF ChangeAncestor
  <2> HIDE DEF g
  <2>2. HeapOK(g) /\ Len(g) = Len(heap) /\ (m # "retained-ancestor-change" => g = heap)
      BY <1>1, <2>1 DEF HeapOK
  <2> QED BY <2>2 DEF g
<1> QED BY <1>2, <1>3

-----------------------------------------------------------------------------
(* What an answer gives. *)

(* The answer is one, and what the adapter then holds is of its type.      *)
Typed(m, a, r) ==
  /\ AdapterOK(m, r.adapter)
  /\ Given(m, r.adapter) \in Nat /\ Given(m, a) <= Given(m, r.adapter)
  /\ r.value \in Int /\ r.handle \in Nat
  /\ r.status = "ok" /\ r.tag # "none" => r.handle \in 1 .. Given(m, r.adapter)

(* The answer hands out a stack of these contents, and no other changes.   *)
Serves(m, a, r, c) ==
  /\ r.status = "ok"
  /\ r.handle \in 1 .. Given(m, r.adapter)
  /\ Contents(m, r.adapter, r.handle) = c
  /\ Retains(m, a, r.adapter)

(* A server handed out a stack that it keeps after the others.             *)
LEMMA StoreServes ==
  ASSUME NEW m \in Languages, NEW a, AdapterOK(m, a), NEW n \in Int, NEW s \in Seq(Int),
         NEW r, r.status = "ok", r.value \in Int, r.handle = Len(a.stacks) + 1,
         r.adapter = [stacks |-> Append(a.stacks, s), seq |-> n]
  PROVE  Typed(m, a, r) /\ Serves(m, a, r, Upright(m, s))
<1> DEFINE t == a.stacks
           u == Append(t, s)
<1>1. t \in Seq(Seq(Int)) /\ Len(t) \in Nat
    BY DEF AdapterOK
<1>2. /\ u \in Seq(Seq(Int)) /\ Len(u) = Len(t) + 1 /\ u[Len(t) + 1] = s
      /\ \A h \in 1 .. Len(t) : u[h] = t[h]
    BY <1>1
<1>3. Given(m, a) = Len(t) /\ Given(m, r.adapter) = Len(u) /\ r.adapter.stacks = u
    BY DEF Given
<1> HIDE DEF t, u
<1>4. AdapterOK(m, r.adapter)
    BY <1>2 DEF AdapterOK, u
<1>5. r.handle = Len(t) + 1 /\ Len(t) + 1 \in 1 .. Len(u)
    BY <1>1, <1>2 DEF t
<1>6. \A h : Contents(m, r.adapter, h) = Upright(m, u[h])
    BY <1>3 DEF Contents
<1>7. \A h : Contents(m, a, h) = Upright(m, t[h])
    BY DEF Contents, t
<1>8. Retains(m, a, r.adapter)
    BY <1>2, <1>3, <1>6, <1>7 DEF Retains
<1>9. Contents(m, r.adapter, r.handle) = Upright(m, s)
    BY <1>2, <1>5, <1>6
<1>10. Given(m, r.adapter) \in Nat /\ Given(m, a) <= Given(m, r.adapter)
    BY <1>1, <1>2, <1>3
<1>11. r.handle \in 1 .. Given(m, r.adapter) /\ r.handle \in Nat
    BY <1>1, <1>3, <1>5
<1> QED BY <1>4, <1>8, <1>9, <1>10, <1>11 DEF Typed, Serves

Request(a, op, h, v) == [seq |-> a.seq + 1, op |-> op, handle |-> h, value |-> v]
Noted(a)             == [a EXCEPT !.seq = a.seq + 1]

(* A server that has noted the number.                                     *)
LEMMA NotedIs ==
  ASSUME NEW a, a \in [stacks : Seq(Seq(Int)), seq : Int]
  PROVE  /\ Noted(a) = [stacks |-> a.stacks, seq |-> a.seq + 1]
         /\ Noted(a) \in [stacks : Seq(Seq(Int)), seq : Int]
<1> DEFINE n == a.seq + 1
<1>1. n \in Int
    OBVIOUS
<1> HIDE DEF n
<1>2. [a EXCEPT !.seq = n] = [stacks |-> a.stacks, seq |-> n]
    OBVIOUS
<1>3. [stacks |-> a.stacks, seq |-> n] \in [stacks : Seq(Seq(Int)), seq : Int]
    BY <1>1
<1> QED BY <1>2, <1>3 DEF Noted, n

(* What a server does with a request whose handle it gave.                 *)
LEMMA Operates ==
  ASSUME NEW m, NEW b, NEW q, NEW k
  PROVE  LET r == SaidByServer(Operate(m, b, q, k))
             s == b.stacks[q.handle]
             n == Len(b.stacks) + 1 IN
         /\ q.op = "empty" => r = Says("stack", 0, n, Store(b, EmptyOf(m)))
         /\ q.op = "push" => r = Says("stack", 0, n, Store(b, PushOnTo(m, s, q.value)))
         /\ q.op = "pop" /\ s = <<>> => r = Says("none", 0, 0, b)
         /\ q.op = "pop" /\ s # <<>> => r = Says("some", TopOf(m, s), n, Store(b, RestOf(m, s)))
<1> DEFINE r == SaidByServer(Operate(m, b, q, k))
           s == b.stacks[q.handle]
           n == Len(b.stacks) + 1
<1>1. ASSUME NEW tag, NEW value, NEW handle, NEW next
      PROVE  SaidByServer(Answer("ok", k, tag, value, handle, next)) = Says(tag, value, handle, next)
    BY DEF SaidByServer, Answer, Says
<1>2. q.op = "empty" => r = Says("stack", 0, n, Store(b, EmptyOf(m)))
  <2>1. q.op = "empty" => Operate(m, b, q, k) = Answer("ok", k, "stack", 0, n, Store(b, EmptyOf(m)))
      BY DEF Operate
  <2> QED BY <1>1, <2>1, Zenon
<1>3. q.op = "push" => r = Says("stack", 0, n, Store(b, PushOnTo(m, s, q.value)))
  <2>1. q.op = "push" =>
          Operate(m, b, q, k) = Answer("ok", k, "stack", 0, n, Store(b, PushOnTo(m, s, q.value)))
      BY DEF Operate
  <2> QED BY <1>1, <2>1, Zenon
<1>4. q.op = "pop" /\ s = <<>> => r = Says("none", 0, 0, b)
  <2>1. q.op = "pop" /\ s = <<>> => Operate(m, b, q, k) = Answer("ok", k, "none", 0, 0, b)
      BY DEF Operate
  <2> QED BY <1>1, <2>1, Zenon
<1>5. q.op = "pop" /\ s # <<>> => r = Says("some", TopOf(m, s), n, Store(b, RestOf(m, s)))
  <2>1. q.op = "pop" /\ s # <<>> =>
          Operate(m, b, q, k) = Answer("ok", k, "some", TopOf(m, s), n, Store(b, RestOf(m, s)))
      BY DEF Operate
  <2> QED BY <1>1, <2>1, Zenon
<1> HIDE DEF r, s, n
<1> QED BY <1>2, <1>3, <1>4, <1>5 DEF r, s, n

(* The server stores a stack after those it has.                           *)
LEMMA NotedStores ==
  ASSUME NEW a, a \in [stacks : Seq(Seq(Int)), seq : Int], NEW s
  PROVE  Store(Noted(a), s) = [stacks |-> Append(a.stacks, s), seq |-> a.seq + 1]
<1> DEFINE t == a.stacks
           n == a.seq + 1
           b == [stacks |-> t, seq |-> n]
<1>1. Noted(a) = b
    BY NotedIs
<1> HIDE DEF t, n
<1> DEFINE u == Append(t, s)
<1>2. [b EXCEPT !.stacks = Append(b.stacks, s)] = [stacks |-> u, seq |-> n]
  <2>1. Append(b.stacks, s) = u
      OBVIOUS
  <2> HIDE DEF u
  <2>2. [b EXCEPT !.stacks = u] = [stacks |-> u, seq |-> n]
      OBVIOUS
  <2> QED BY <2>1, <2>2, Zenon
<1> HIDE DEF b
<1>3. Store(b, s) = [b EXCEPT !.stacks = Append(b.stacks, s)]
    BY DEF Store
<1>4. Store(b, s) = [stacks |-> Append(t, s), seq |-> n]
    BY <1>2, <1>3, Zenon
<1> QED BY <1>1, <1>4, Zenon DEF t, n

(* The request the runner makes of a server is served: its number is the   *)
(* next, its handle was given and its value is in the profile.             *)
LEMMA ServedOperates ==
  ASSUME NEW m \in Languages, NEW a, AdapterOK(m, a), NEW op \in {"empty", "push", "pop"},
         NEW h, op # "empty" => h \in 1 .. Given(m, a), NEW v, op = "push" => v \in ElementDomain
  PROVE  Respond(m, a, op, h, v) = SaidByServer(Operate(m, Noted(a), Request(a, op, h, v), a.seq + 1))
<1> DEFINE q == Request(a, op, h, v)
<1>1. a \in [stacks : Seq(Seq(Int)), seq : Int]
    BY DEF AdapterOK
<1>2. Respond(m, a, op, h, v) = SaidByServer(ServeStack(m, a, q))
  <2>1. m # "status-error"
      BY DEF Languages
  <2>2. Respond(m, a, op, h, v) = SaidByServer(Served(m, a, op, h, v))
      BY <2>1 DEF Respond
  <2> QED BY <2>2 DEF Served, Request
<1>3. Addressed(a, q)
    BY <1>1 DEF Addressed, Live, Given, Request
<1>4. InProfile(q)
    BY DEF InProfile, ElementDomain, Request
<1>5. q.seq = a.seq + 1 /\ a.seq + 1 > a.seq /\ ~(a.seq + 1 <= a.seq)
    BY <1>1 DEF Request
<1> HIDE DEF q
<1>6. ServeStack(m, a, q) = Operate(m, Noted(a), q, a.seq + 1)
  <2>1. CASE m = "python"
    <3>1. ServeStack(m, a, q) = ServePython(a, q)
        BY <2>1 DEF ServeStack
    <3> QED BY <1>3, <2>1, <3>1 DEF ServePython, Noted
  <2>2. CASE m = "rust"
    <3>1. ServeStack(m, a, q) = ServeRust(a, q)
        BY <2>2 DEF ServeStack
    <3> QED BY <1>3, <1>4, <1>5, <2>2, <3>1 DEF ServeRust, Noted
  <2>3. CASE m = "typescript"
    <3>1. ServeStack(m, a, q) = ServeTypescript(a, q)
        BY <2>3 DEF ServeStack
    <3> QED BY <1>3, <1>4, <1>5, <2>3, <3>1 DEF ServeTypescript, Noted
  <2> QED BY <2>1, <2>2, <2>3 DEF Languages
<1> QED BY <1>2, <1>6 DEF q

(* What a server answers to each request.                                  *)
LEMMA ServerEmpty ==
  ASSUME NEW m \in Languages, NEW a, AdapterOK(m, a)
  PROVE  LET r == Respond(m, a, "empty", 0, 0) IN
         Typed(m, a, r) /\ Serves(m, a, r, <<>>) /\ r.tag = "stack"
<1> DEFINE r == Respond(m, a, "empty", 0, 0)
<1>1. a \in [stacks : Seq(Seq(Int)), seq : Int]
    BY DEF AdapterOK
<1>2. r = SaidByServer(Operate(m, Noted(a), Request(a, "empty", 0, 0), a.seq + 1))
    BY ServedOperates
<1>3. /\ r.status = "ok" /\ r.tag = "stack" /\ r.value = 0 /\ r.handle = Len(a.stacks) + 1
      /\ r.adapter = [stacks |-> Append(a.stacks, <<>>), seq |-> a.seq + 1]
  <2> DEFINE q == Request(a, "empty", 0, 0)
  <2>1. q.op = "empty" /\ Noted(a).stacks = a.stacks
      BY <1>1, NotedIs DEF Request
  <2> HIDE DEF q
  <2>2. r = Says("stack", 0, Len(a.stacks) + 1, Store(Noted(a), <<>>))
      BY <1>2, <2>1, Operates DEF EmptyOf, q
  <2>3. Store(Noted(a), <<>>) = [stacks |-> Append(a.stacks, <<>>), seq |-> a.seq + 1]
      BY <1>1, NotedStores
  <2> HIDE DEF r
  <2> QED BY <2>2, <2>3 DEF Says
<1> DEFINE e == <<>>
<1> HIDE DEF r
<1>4. a.seq + 1 \in Int /\ e \in Seq(Int) /\ Upright(m, e) = e /\ r.value \in Int
    BY <1>1, <1>3 DEF Reverse, Upright
<1> HIDE DEF e
<1>5. Typed(m, a, r) /\ Serves(m, a, r, Upright(m, e))
    BY <1>3, <1>4, StoreServes DEF e
<1>6. Typed(m, a, r) /\ Serves(m, a, r, <<>>) /\ r.tag = "stack"
    BY <1>3, <1>4, <1>5 DEF e
<1> QED BY <1>6 DEF r

(* A push.                                                                 *)
LEMMA ServerPush ==
  ASSUME NEW m \in Languages, NEW a, AdapterOK(m, a), NEW h \in 1 .. Given(m, a), NEW v \in ElementDomain
  PROVE  LET r == Respond(m, a, "push", h, v) IN
         Typed(m, a, r) /\ Serves(m, a, r, <<v>> \o Contents(m, a, h)) /\ r.tag = "stack"
<1> DEFINE r == Respond(m, a, "push", h, v)
           s == a.stacks[h]
           t == PushOnTo(m, s, v)
<1>1. a \in [stacks : Seq(Seq(Int)), seq : Int] /\ h \in 1 .. Len(a.stacks)
    BY DEF AdapterOK, Given
<1>2. s \in Seq(Int) /\ v \in Int
    BY <1>1 DEF ElementDomain
<1>3. r = SaidByServer(Operate(m, Noted(a), Request(a, "push", h, v), a.seq + 1))
    BY ServedOperates
<1>4. /\ r.status = "ok" /\ r.tag = "stack" /\ r.value = 0 /\ r.handle = Len(a.stacks) + 1
      /\ r.adapter = [stacks |-> Append(a.stacks, t), seq |-> a.seq + 1]
  <2> DEFINE q == Request(a, "push", h, v)
  <2>1. q.op = "push" /\ q.handle = h /\ q.value = v /\ Noted(a).stacks = a.stacks
      BY <1>1, NotedIs DEF Request
  <2> HIDE DEF q
  <2>2. r = Says("stack", 0, Len(a.stacks) + 1, Store(Noted(a), t))
      BY <1>3, <2>1, Operates DEF q
  <2>3. Store(Noted(a), t) = [stacks |-> Append(a.stacks, t), seq |-> a.seq + 1]
      BY <1>1, NotedStores
  <2> HIDE DEF r, t
  <2> QED BY <2>2, <2>3 DEF Says
<1>5. Contents(m, a, h) = Upright(m, s)
    BY DEF Contents
<1> HIDE DEF r, s
<1>6. t \in Seq(Int) /\ Upright(m, t) = <<v>> \o Contents(m, a, h)
  <2>1. CASE m = "rust"
    <3>1. t = Append(s, v) /\ Append(s, v) \in Seq(Int)
        BY <1>2, <2>1 DEF PushOnTo
    <3>2. Reverse(Append(s, v)) = <<v>> \o Reverse(s)
        BY <1>2, ReversedStack
    <3> QED BY <1>5, <2>1, <3>1, <3>2 DEF Upright
  <2>2. CASE m # "rust"
    <3>1. t = <<v>> \o s /\ <<v>> \o s \in Seq(Int)
        BY <1>2, <2>2, ConsShape DEF PushOnTo
    <3> QED BY <1>5, <2>2, <3>1 DEF Upright
  <2> QED BY <2>1, <2>2
<1> HIDE DEF t
<1>7. a.seq + 1 \in Int /\ r.value \in Int
    BY <1>1, <1>4
<1>8. Typed(m, a, r) /\ Serves(m, a, r, Upright(m, t))
    BY <1>4, <1>6, <1>7, StoreServes
<1>9. Typed(m, a, r) /\ Serves(m, a, r, <<v>> \o Contents(m, a, h)) /\ r.tag = "stack"
    BY <1>4, <1>6, <1>8
<1> QED BY <1>9 DEF r

(* A pop.                                                                  *)
LEMMA ServerPop ==
  ASSUME NEW m \in Languages, NEW a, AdapterOK(m, a), NEW h \in 1 .. Given(m, a), NEW v
  PROVE  LET r == Respond(m, a, "pop", h, v)
             c == Contents(m, a, h) IN
         /\ Typed(m, a, r) /\ r.status = "ok" /\ r.tag \in {"none", "some"} /\ c \in Seq(Int)
         /\ Retains(m, a, r.adapter)
         /\ IF c = <<>> THEN r.tag = "none"
            ELSE r.tag = "some" /\ r.value = Head(c) /\ Serves(m, a, r, Tail(c))
<1> DEFINE r == Respond(m, a, "pop", h, v)
           s == a.stacks[h]
           c == Contents(m, a, h)
<1>1. a \in [stacks : Seq(Seq(Int)), seq : Int] /\ h \in 1 .. Len(a.stacks)
    BY DEF AdapterOK, Given
<1>2. s \in Seq(Int) /\ Len(s) \in Nat
    BY <1>1
<1>3. r = SaidByServer(Operate(m, Noted(a), Request(a, "pop", h, v), a.seq + 1))
    BY ServedOperates
<1>4. c = Upright(m, s)
    BY DEF Contents
<1>5. c \in Seq(Int) /\ (c = <<>> <=> s = <<>>)
    BY <1>1, <1>2, <1>4, ReverseShape, ReversedStack DEF Upright
<1>6. ASSUME s = <<>>
      PROVE  r.tag = "none" /\ r.status = "ok" /\ Typed(m, a, r) /\ Retains(m, a, r.adapter)
  <2>1. /\ r.status = "ok" /\ r.tag = "none" /\ r.value = 0 /\ r.handle = 0
        /\ r.adapter = Noted(a)
    <3> DEFINE q == Request(a, "pop", h, v)
    <3>1. q.op = "pop" /\ q.handle = h /\ Noted(a).stacks = a.stacks
        BY <1>1, NotedIs DEF Request
    <3> HIDE DEF q
    <3>2. r = Says("none", 0, 0, Noted(a))
        BY <1>3, <1>6, <3>1, Operates DEF q
    <3> HIDE DEF r
    <3> QED BY <3>2 DEF Says
  <2>2. Noted(a) \in [stacks : Seq(Seq(Int)), seq : Int] /\ Noted(a).stacks = a.stacks
      BY <1>1, NotedIs
  <2>3. \A g : Contents(m, Noted(a), g) = Contents(m, a, g)
      BY <2>2 DEF Contents
  <2>4. Given(m, Noted(a)) = Given(m, a) /\ Given(m, a) \in Nat
      BY <1>1, <2>2 DEF Given
  <2> QED BY <2>1, <2>2, <2>3, <2>4 DEF Typed, Retains, AdapterOK
<1>7. ASSUME s # <<>>
      PROVE  /\ r.tag = "some" /\ r.status = "ok" /\ r.value = Head(c)
             /\ Typed(m, a, r) /\ Serves(m, a, r, Tail(c))
  <2> DEFINE t == RestOf(m, s)
  <2>1. /\ r.status = "ok" /\ r.tag = "some" /\ r.value = TopOf(m, s) /\ r.handle = Len(a.stacks) + 1
        /\ r.adapter = [stacks |-> Append(a.stacks, t), seq |-> a.seq + 1]
    <3> DEFINE q == Request(a, "pop", h, v)
    <3>1. q.op = "pop" /\ q.handle = h /\ Noted(a).stacks = a.stacks
        BY <1>1, NotedIs DEF Request
    <3> HIDE DEF q
    <3>2. r = Says("some", TopOf(m, s), Len(a.stacks) + 1, Store(Noted(a), t))
        BY <1>3, <1>7, <3>1, Operates DEF q
    <3>3. Store(Noted(a), t) = [stacks |-> Append(a.stacks, t), seq |-> a.seq + 1]
        BY <1>1, NotedStores
    <3> HIDE DEF r, t
    <3> QED BY <3>2, <3>3 DEF Says
  <2> HIDE DEF r, s, c
  <2>2. /\ t \in Seq(Int) /\ TopOf(m, s) \in Int /\ TopOf(m, s) = Head(c)
        /\ Upright(m, t) = Tail(c)
    <3>1. CASE m = "rust"
      <4>1. t = Front(s) /\ TopOf(m, s) = Last(s) /\ Front(s) \in Seq(Int) /\ Last(s) \in Int
          BY <1>2, <1>7, <3>1, FrontShape DEF RestOf, TopOf
      <4>2. Head(Reverse(s)) = Last(s) /\ Tail(Reverse(s)) = Reverse(Front(s))
        <5>1. 0 \in Int
            OBVIOUS
        <5> QED BY <1>2, <1>7, <5>1, ReversedStack
      <4> QED BY <1>4, <3>1, <4>1, <4>2 DEF Upright
    <3>2. CASE m # "rust"
      <4>1. t = Tail(s) /\ TopOf(m, s) = Head(s) /\ Tail(s) \in Seq(Int) /\ Head(s) \in Int
          BY <1>2, <1>7, <3>2, HeadAndTail DEF RestOf, TopOf
      <4> QED BY <1>4, <3>2, <4>1 DEF Upright
    <3> QED BY <3>1, <3>2
  <2> HIDE DEF t
  <2>3. a.seq + 1 \in Int
      BY <1>1
  <2>4. Typed(m, a, r) /\ Serves(m, a, r, Upright(m, t))
      BY <2>1, <2>2, <2>3, StoreServes
  <2> QED BY <2>1, <2>2, <2>4
<1> HIDE DEF r, c, s
<1>8. /\ Typed(m, a, r) /\ r.status = "ok" /\ r.tag \in {"none", "some"} /\ c \in Seq(Int)
      /\ Retains(m, a, r.adapter)
      /\ IF c = <<>> THEN r.tag = "none"
         ELSE r.tag = "some" /\ r.value = Head(c) /\ Serves(m, a, r, Tail(c))
    BY <1>5, <1>6, <1>7 DEF Serves
<1> QED BY <1>8 DEF r, c

-----------------------------------------------------------------------------
(* What the fixture answers to each request.                               *)

Fixture(m) == m \notin Languages \cup {"status-error"}

(* The answer built on a heap is one, and keeps what the heap kept.        *)
LEMMA HeapServes ==
  ASSUME NEW m, Fixture(m), NEW a, AdapterOK(m, a), NEW heap, NEW made, NEW c,
         Gives(heap, made, c), Len(heap) = Len(a.heap),
         NEW g, HeapOK(g), Len(g) = Len(made.heap), NEW n \in Nat,
         NEW r, r.status = "ok", r.value \in Int, r.handle = made.handle,
         r.adapter = [heap |-> g, count |-> n]
  PROVE  /\ Typed(m, a, r)
         /\ heap = a.heap /\ g = made.heap => Serves(m, a, r, c)
<1>1. a.heap \in Seq(StackSet) /\ Len(a.heap) \in Nat
    BY DEF AdapterOK, Fixture
<1>2. g \in Seq(StackSet) /\ Len(g) \in Nat /\ made.handle \in 1 .. Len(g) /\ Len(a.heap) <= Len(g)
    BY DEF Gives, HeapOK
<1>3. r.adapter.heap = g /\ AdapterOK(m, r.adapter)
    BY <1>2 DEF AdapterOK, Fixture
<1>4. Given(m, a) = Len(a.heap) /\ Given(m, r.adapter) = Len(g)
    BY <1>3 DEF Given, Fixture
<1>5. Typed(m, a, r)
    BY <1>1, <1>2, <1>3, <1>4 DEF Typed
<1>6. ASSUME heap = a.heap, g = made.heap PROVE Serves(m, a, r, c)
  <2>1. \A i : Contents(m, r.adapter, i) = g[i].contents /\ Contents(m, a, i) = a.heap[i].contents
      BY <1>3 DEF Contents, Fixture
  <2>2. g[made.handle].contents = c /\ \A i \in 1 .. Len(a.heap) : g[i].contents = a.heap[i].contents
      BY <1>6 DEF Gives, Keeps
  <2> QED BY <1>2, <1>4, <2>1, <2>2 DEF Serves, Retains
<1> QED BY <1>5, <1>6

(* An empty stack is allocated.                                            *)
LEMMA FixtureEmpty ==
  ASSUME NEW m, Fixture(m), NEW a, AdapterOK(m, a)
  PROVE  LET r == Respond(m, a, "empty", 0, 0) IN
         Typed(m, a, r) /\ Serves(m, a, r, <<>>) /\ r.tag = "stack"
<1> DEFINE r == Respond(m, a, "empty", 0, 0)
           heap == a.heap
           e == <<>>
           made == Allocate(m, heap, e, 0)
           g == made.heap
<1>1. HeapOK(heap) /\ e \in Seq(Int) /\ 0 \in Nat /\ a.count \in Nat
    BY DEF AdapterOK, Fixture, HeapOK
<1>2. r = Emptied(m, a)
    BY DEF Respond, Fixture
<1>3. r = Says("stack", 0, made.handle, [a EXCEPT !.heap = made.heap])
    BY <1>2 DEF Emptied
<1>4. [a EXCEPT !.heap = g] = [heap |-> g, count |-> a.count]
  <2> HIDE DEF g
  <2> QED BY DEF AdapterOK, Fixture
<1> HIDE DEF e
<1>5. Gives(heap, made, e)
    BY <1>1, AllocateGives
<1> HIDE DEF heap, made, g
<1>6. HeapOK(g)
    BY <1>5 DEF Gives, g
<1>7. /\ r.status = "ok" /\ r.value \in Int /\ r.handle = made.handle /\ r.tag = "stack"
      /\ r.adapter = [heap |-> g, count |-> a.count]
  <2> HIDE DEF r
  <2> QED BY <1>3, <1>4 DEF Says, g
<1> HIDE DEF r
<1>8. Typed(m, a, r) /\ Serves(m, a, r, e)
    BY <1>1, <1>5, <1>6, <1>7, HeapServes DEF g, heap
<1>9. Typed(m, a, r) /\ Serves(m, a, r, <<>>) /\ r.tag = "stack"
    BY <1>7, <1>8 DEF e
<1> QED BY <1>9 DEF r

(* A push.  The modes that work in place may change what they gave.        *)
LEMMA FixturePush ==
  ASSUME NEW m, Fixture(m), NEW a, AdapterOK(m, a), NEW h \in 1 .. Given(m, a), NEW v \in ElementDomain
  PROVE  LET r == Respond(m, a, "push", h, v) IN
         /\ Typed(m, a, r) /\ r.status = "ok" /\ r.tag = "stack"
         /\ m \notin InPlace => Serves(m, a, r, <<v>> \o Contents(m, a, h))
<1> DEFINE r == Respond(m, a, "push", h, v)
           heap == a.heap
           grown == <<v>> \o heap[h].contents
           inPlace == [heap EXCEPT ![h].contents = grown]
           made == CASE m = "destructive-push" -> Allocate(m, inPlace, grown, h)
                     [] m = "destructive-push-nonempty" /\ heap[h].contents # <<>> ->
                          [handle |-> h, heap |-> inPlace]
                     [] OTHER -> Allocate(m, heap, grown, h)
           g == ChangeAncestor(m, made.heap, h)
           base == IF m = "destructive-push" THEN inPlace ELSE heap
<1>1. HeapOK(heap) /\ a.count \in Nat /\ h \in 1 .. Len(heap) /\ Len(heap) \in Nat /\ h \in Nat
    BY DEF AdapterOK, Fixture, HeapOK, Given
<1>2. heap[h].contents \in Seq(Int)
  <2> HIDE DEF heap
  <2>1. heap[h] \in StackSet
      BY <1>1 DEF HeapOK
  <2> QED BY <2>1 DEF StackSet
<1>3. grown \in Seq(Int)
    BY <1>2, ConsShape DEF ElementDomain
<1>4. r = Says("stack", 0, made.handle, [a EXCEPT !.heap = g])
  <2>1. r = Pushed(m, a, h, v)
      BY DEF Respond, Fixture
  <2> QED BY <2>1 DEF Pushed
<1>5. [a EXCEPT !.heap = g] = [heap |-> g, count |-> a.count]
  <2> HIDE DEF g
  <2> QED BY DEF AdapterOK, Fixture
<1>6. Contents(m, a, h) = heap[h].contents
    BY DEF Contents, Fixture
<1> HIDE DEF heap, grown
<1>7. HeapOK(inPlace) /\ Len(inPlace) = Len(heap)
    BY <1>1, <1>3, InPlaceType
<1>8. inPlace[h].contents = grown
    BY <1>1 DEF HeapOK, StackSet
<1> HIDE DEF inPlace
<1>9. \/ m # "destructive-push-nonempty" /\ Gives(base, made, grown)
      \/ m = "destructive-push-nonempty" /\ Gives(heap, made, grown)
      \/ m = "destructive-push-nonempty" /\ Gives(inPlace, made, grown)
  <2>1. CASE m = "destructive-push"
    <3>1. Gives(inPlace, Allocate(m, inPlace, grown, h), grown)
        BY <1>1, <1>3, <1>7, AllocateGives
    <3> QED BY <2>1, <3>1
  <2>2. CASE m = "destructive-push-nonempty" /\ heap[h].contents # <<>>
    <3>1. Gives(inPlace, [handle |-> h, heap |-> inPlace], grown)
        BY <1>1, <1>7, <1>8 DEF Gives, Keeps
    <3> QED BY <2>2, <3>1
  <2>3. CASE m # "destructive-push" /\ ~(m = "destructive-push-nonempty" /\ heap[h].contents # <<>>)
    <3>1. Gives(heap, Allocate(m, heap, grown, h), grown)
        BY <1>1, <1>3, AllocateGives
    <3>2. made = Allocate(m, heap, grown, h)
        BY <2>3
    <3> QED BY <2>3, <3>1, <3>2
  <2> QED BY <2>1, <2>2, <2>3
<1> HIDE DEF made
<1>10. PICK from \in {heap, inPlace} :
         Gives(from, made, grown) /\ (m \notin InPlace => from = heap)
    BY <1>9 DEF InPlace
<1>11. Len(from) = Len(heap)
    BY <1>7, <1>10
<1>12. HeapOK(made.heap) /\ h \in 1 .. Len(made.heap) /\ Len(made.heap) \in Nat
    BY <1>1, <1>10, <1>11 DEF Gives, HeapOK
<1>13. HeapOK(g) /\ Len(g) = Len(made.heap) /\ (m # "retained-ancestor-change" => g = made.heap)
    BY <1>12, ChangeAncestorType
<1> HIDE DEF g
<1>14. /\ r.status = "ok" /\ r.tag = "stack" /\ r.value \in Int /\ r.handle = made.handle
       /\ r.adapter = [heap |-> g, count |-> a.count]
  <2> HIDE DEF r
  <2> QED BY <1>4, <1>5 DEF Says
<1> HIDE DEF r
<1>15. Typed(m, a, r) /\ (from = a.heap /\ g = made.heap => Serves(m, a, r, grown))
    BY <1>1, <1>10, <1>11, <1>13, <1>14, HeapServes DEF heap
<1>16. /\ Typed(m, a, r) /\ r.status = "ok" /\ r.tag = "stack"
       /\ m \notin InPlace => Serves(m, a, r, <<v>> \o Contents(m, a, h))
    BY <1>6, <1>10, <1>13, <1>14, <1>15 DEF InPlace, heap, grown
<1> QED BY <1>16 DEF r

(* A pop of a stack that is not empty.                                     *)
LEMMA FixturePopTop ==
  ASSUME NEW m, Fixture(m), NEW a, AdapterOK(m, a), NEW h \in 1 .. Given(m, a),
         Contents(m, a, h) # <<>>
  PROVE  LET r == PoppedTop(m, a, h)
             c == Contents(m, a, h) IN
         /\ Typed(m, a, r) /\ r.status = "ok" /\ r.tag = "some"
         /\ Steady(m) => r.value = TopTold(m, c) /\ Serves(m, a, r, RestKept(m, c))
<1> DEFINE r == PoppedTop(m, a, h)
           heap == a.heap
           c == heap[h].contents
           fromBottom == /\ Len(c) >= 2
                         /\ \/ m \in {"bottom-first", "shallow-liar"}
                            \/ m = "case-local-causes" /\ a.count > 0
           offByOne == m = "wrong-value" \/ (m = "case-local-causes" /\ a.count = 0)
           terminal == /\ m = "wrong-generated-terminal-remainder"
                       /\ heap[h].parent # 0
                       /\ c = Terminal
           count == IF (m = "case-local-causes" \/ terminal) /\ a.count < CountCap
                    THEN a.count + 1 ELSE a.count
           taken == IF fromBottom THEN Last(c) ELSE Head(c)
           left  == IF fromBottom THEN Front(c) ELSE Tail(c)
           shown == IF m = "wrong-remainder" /\ Len(c) >= 2 THEN <<>>
                    ELSE IF terminal /\ count = 2 THEN <<-2>> \o left
                    ELSE left
           kept  == IF m = "destructive-pop" THEN [heap EXCEPT ![h].contents = left] ELSE heap
           made  == Allocate(m, kept, shown, 0)
           told  == IF offByOne THEN taken + 1 ELSE taken
           g     == ChangeAncestor(m, made.heap, h)
<1>1. HeapOK(heap) /\ a.count \in Nat /\ h \in 1 .. Len(heap) /\ Len(heap) \in Nat
    BY DEF AdapterOK, Fixture, HeapOK, Given
<1>2. r = Says("some", told, made.handle, [heap |-> g, count |-> count])
    BY DEF PoppedTop
<1>3. Contents(m, a, h) = c
    BY DEF Contents, Fixture
<1>4. c \in Seq(Int) /\ c # <<>>
  <2> HIDE DEF heap
  <2>1. heap[h] \in StackSet
      BY <1>1 DEF HeapOK
  <2> QED BY <1>3, <2>1 DEF StackSet
<1>5. Steady(m) => m \notin InPlace \cup {"case-local-causes", "wrong-generated-terminal-remainder"}
    BY DEF Steady
<1>6. count \in Nat
    BY <1>1 DEF CountCap
<1>7. Steady(m) => ~terminal /\ (fromBottom <=> Len(c) >= 2 /\ m \in FromBottom)
                   /\ (offByOne <=> m = "wrong-value")
  <2> HIDE DEF c, heap
  <2> QED BY <1>5 DEF FromBottom
<1> HIDE DEF r, count, terminal, c, heap, fromBottom, offByOne
<1>8. taken \in Int /\ left \in Seq(Int)
    BY <1>4, FrontShape, HeadAndTail
<1>9. Steady(m) => told = TopTold(m, c)
  <2>1. CASE m = "wrong-value"
    <3>1. m \notin FromBottom
        BY <2>1 DEF FromBottom
    <3> QED BY <1>7, <2>1, <3>1 DEF TopTold
  <2>2. CASE m # "wrong-value"
      BY <1>7, <2>2 DEF TopTold
  <2> QED BY <2>1, <2>2
<1>10. Steady(m) => shown = RestKept(m, c)
  <2>1. CASE m = "wrong-remainder"
    <3>1. m \notin FromBottom
        BY <2>1 DEF FromBottom
    <3> QED BY <1>7, <2>1, <3>1 DEF RestKept
  <2>2. CASE m # "wrong-remainder"
      BY <1>7, <2>2 DEF RestKept
  <2> QED BY <2>1, <2>2
<1>11. told \in Int
    BY <1>8
<1> HIDE DEF taken, left, told
<1>12. shown \in Seq(Int)
  <2>1. <<-2>> \o left \in Seq(Int)
      BY <1>8, ConsShape
  <2>2. <<>> \in Seq(Int)
      OBVIOUS
  <2> DEFINE x == <<-2>> \o left
             e == <<>>
  <2> HIDE DEF x, e
  <2>3. shown \in {e, x, left}
      BY DEF e, x
  <2> QED BY <1>8, <2>1, <2>2, <2>3 DEF e, x
<1> HIDE DEF shown
<1>13. HeapOK(kept) /\ Len(kept) = Len(heap) /\ (m # "destructive-pop" => kept = heap)
  <2>1. CASE m = "destructive-pop"
    <3>1. HeapOK([heap EXCEPT ![h].contents = left]) /\ Len([heap EXCEPT ![h].contents = left]) = Len(heap)
        BY <1>1, <1>8, InPlaceType
    <3> QED BY <2>1, <3>1
  <2>2. CASE m # "destructive-pop"
      BY <1>1, <2>2
  <2> QED BY <2>1, <2>2
<1> HIDE DEF kept
<1>14. Gives(kept, made, shown)
  <2>1. 0 \in Nat
      OBVIOUS
  <2> QED BY <1>12, <1>13, <2>1, AllocateGives
<1> HIDE DEF made
<1>15. HeapOK(made.heap) /\ h \in 1 .. Len(made.heap)
    BY <1>1, <1>13, <1>14 DEF Gives, HeapOK
<1>16. HeapOK(g) /\ Len(g) = Len(made.heap) /\ (m # "retained-ancestor-change" => g = made.heap)
    BY <1>15, ChangeAncestorType
<1> HIDE DEF g
<1>17. /\ r.status = "ok" /\ r.tag = "some" /\ r.value = told /\ r.handle = made.handle
       /\ r.adapter = [heap |-> g, count |-> count]
    BY <1>2 DEF Says
<1>18. r.value \in Int
    BY <1>11, <1>17
<1>19. Typed(m, a, r) /\ (kept = a.heap /\ g = made.heap => Serves(m, a, r, shown))
    BY <1>6, <1>13, <1>14, <1>16, <1>17, <1>18, HeapServes DEF heap
<1>20. Steady(m) => kept = a.heap /\ g = made.heap
    BY <1>5, <1>13, <1>16 DEF InPlace, heap
<1>21. /\ Typed(m, a, r) /\ r.status = "ok" /\ r.tag = "some"
       /\ Steady(m) => r.value = TopTold(m, c) /\ Serves(m, a, r, RestKept(m, c))
    BY <1>9, <1>10, <1>17, <1>19, <1>20
<1> QED BY <1>3, <1>21 DEF r

-----------------------------------------------------------------------------
(* What every adapter answers.                                             *)

(* Only one adapter refuses, and it then holds what it held.               *)
Refuses(m, a, r) == m = "status-error" /\ r.status # "ok" /\ r.adapter = a

(* A pop by an adapter that does not change its stacks.                    *)
PopIs(m, a, h, r) ==
  IF m = "nonterminating-observation" \/ (m = "wrong-empty" /\ Contents(m, a, h) = <<>>)
  THEN r.tag = "some" /\ r.handle = h /\ r.adapter = a
  ELSE IF Contents(m, a, h) = <<>>
  THEN r.tag = "none" /\ Retains(m, a, r.adapter)
  ELSE /\ r.tag = "some" /\ r.value = TopTold(m, Contents(m, a, h))
       /\ Serves(m, a, r, RestKept(m, Contents(m, a, h)))

(* The stack of a handle that was given.                                   *)
LEMMA ContentsType ==
  ASSUME NEW m, NEW a, AdapterOK(m, a), NEW h \in 1 .. Given(m, a)
  PROVE  Contents(m, a, h) \in Seq(Int)
<1>1. CASE m \in Languages
  <2> DEFINE s == a.stacks[h]
  <2>1. s \in Seq(Int) /\ Len(s) \in Nat
      BY <1>1 DEF AdapterOK, Given
  <2>2. Contents(m, a, h) = Upright(m, s)
      BY <1>1 DEF Contents
  <2> HIDE DEF s
  <2>3. Reverse(s) \in Seq(Int)
      BY <2>1, ReverseShape
  <2> QED BY <2>1, <2>2, <2>3 DEF Upright
<1>2. CASE m \notin Languages
  <2>1. a.heap[h] \in StackSet
      BY <1>2 DEF AdapterOK, Given
  <2>2. Contents(m, a, h) = a.heap[h].contents
      BY <1>2 DEF Contents
  <2> QED BY <2>1, <2>2 DEF StackSet
<1> QED BY <1>1, <1>2

(* The refusing adapter.                                                   *)
LEMMA Refused ==
  ASSUME NEW m, m = "status-error", NEW a, AdapterOK(m, a), NEW op, NEW h, NEW v
  PROVE  Typed(m, a, Respond(m, a, op, h, v)) /\ Refuses(m, a, Respond(m, a, op, h, v))
<1> DEFINE r == Respond(m, a, op, h, v)
<1>1. m \notin Languages
    BY DEF Languages
<1>2. r = [Says("none", 0, 0, a) EXCEPT !.status = "error"]
    BY <1>1 DEF Respond
<1>3. Given(m, a) \in Nat
    BY <1>1 DEF Given, AdapterOK
<1>4. r.status = "error" /\ r.value = 0 /\ r.handle = 0 /\ r.adapter = a
    BY <1>2 DEF Says
<1> HIDE DEF r
<1>5. Typed(m, a, r) /\ Refuses(m, a, r)
    BY <1>3, <1>4 DEF Typed, Refuses
<1> QED BY <1>5 DEF r

(* An empty stack.                                                         *)
LEMMA AnswerEmpty ==
  ASSUME NEW m, NEW a, AdapterOK(m, a)
  PROVE  LET r == Respond(m, a, "empty", 0, 0) IN
         Typed(m, a, r) /\ (Refuses(m, a, r) \/ Serves(m, a, r, <<>>))
<1>1. CASE m \in Languages
    BY <1>1, ServerEmpty
<1>2. CASE Fixture(m)
    BY <1>2, FixtureEmpty
<1>3. CASE m = "status-error"
    BY <1>3, Refused
<1> QED BY <1>1, <1>2, <1>3 DEF Fixture

(* A push.                                                                 *)
LEMMA AnswerPush ==
  ASSUME NEW m, NEW a, AdapterOK(m, a), NEW h \in 1 .. Given(m, a), NEW v \in ElementDomain
  PROVE  LET r == Respond(m, a, "push", h, v) IN
         /\ Typed(m, a, r)
         /\ \/ Refuses(m, a, r)
            \/ /\ r.status = "ok" /\ r.tag = "stack"
               /\ Steady(m) => Serves(m, a, r, <<v>> \o Contents(m, a, h))
<1> DEFINE r == Respond(m, a, "push", h, v)
<1>1. CASE m \in Languages
  <2>1. Typed(m, a, r) /\ Serves(m, a, r, <<v>> \o Contents(m, a, h)) /\ r.tag = "stack"
      BY <1>1, ServerPush
  <2> HIDE DEF r
  <2>2. r.status = "ok"
      BY <2>1 DEF Serves
  <2> QED BY <2>1, <2>2 DEF r
<1>2. CASE Fixture(m)
  <2>1. Steady(m) => m \notin InPlace
      BY DEF Steady
  <2> QED BY <1>2, <2>1, FixturePush
<1>3. CASE m = "status-error"
    BY <1>3, Refused
<1> QED BY <1>1, <1>2, <1>3 DEF Fixture

(* A pop.                                                                  *)
LEMMA AnswerPop ==
  ASSUME NEW m, NEW a, AdapterOK(m, a), NEW h \in 1 .. Given(m, a), NEW v
  PROVE  LET r == Respond(m, a, "pop", h, v) IN
         /\ Typed(m, a, r)
         /\ \/ Refuses(m, a, r)
            \/ r.status = "ok" /\ r.tag \in {"none", "some"} /\ (Steady(m) => PopIs(m, a, h, r))
<1> DEFINE r == Respond(m, a, "pop", h, v)
           c == Contents(m, a, h)
<1>1. CASE m \in Languages
  <2>1. /\ Typed(m, a, r) /\ r.status = "ok" /\ r.tag \in {"none", "some"} /\ c \in Seq(Int)
        /\ Retains(m, a, r.adapter)
        /\ IF c = <<>> THEN r.tag = "none"
           ELSE r.tag = "some" /\ r.value = Head(c) /\ Serves(m, a, r, Tail(c))
      BY <1>1, ServerPop
  <2>2. m \notin {"nonterminating-observation", "wrong-empty"} /\ Exact(m)
      BY <1>1 DEF Languages, Exact, Faithful
  <2>3. c # <<>> => TopTold(m, c) = Head(c) /\ RestKept(m, c) = Tail(c)
      BY <2>1, <2>2, ToldUnrolls
  <2> HIDE DEF r, c
  <2>4. PopIs(m, a, h, r)
    <3>1. CASE c = <<>>
        BY <2>1, <2>2, <3>1 DEF PopIs, c
    <3>2. CASE c # <<>>
        BY <2>1, <2>2, <2>3, <3>2 DEF PopIs, c
    <3> QED BY <3>1, <3>2
  <2> QED BY <2>1, <2>4 DEF r
<1>2. CASE Fixture(m)
  <2> DEFINE empty == a.heap[h].contents = <<>>
  <2>1. r = Popped(m, a, h)
      BY <1>2 DEF Respond, Fixture
  <2>2. h \in 1 .. Len(a.heap) /\ Given(m, a) \in Nat /\ h \in Nat
      BY <1>2 DEF AdapterOK, Fixture, Given
  <2>3. empty <=> c = <<>>
      BY <1>2 DEF Contents, Fixture
  <2>4. CASE m = "nonterminating-observation" \/ (m = "wrong-empty" /\ empty)
    <3>1. r = Says("some", 0, h, a)
        BY <2>1, <2>4 DEF Popped
    <3>2. r.status = "ok" /\ r.tag = "some" /\ r.value = 0 /\ r.handle = h /\ r.adapter = a
        BY <3>1 DEF Says
    <3> HIDE DEF r
    <3>3. Typed(m, a, r)
        BY <2>2, <3>2 DEF Typed
    <3>4. PopIs(m, a, h, r)
        BY <2>3, <2>4, <3>2 DEF PopIs
    <3> QED BY <3>2, <3>3, <3>4 DEF r
  <2>5. CASE ~(m = "nonterminating-observation" \/ (m = "wrong-empty" /\ empty)) /\ empty
    <3>1. r = Says("none", 0, 0, a)
        BY <2>1, <2>5 DEF Popped
    <3>2. r.status = "ok" /\ r.tag = "none" /\ r.value = 0 /\ r.handle = 0 /\ r.adapter = a
        BY <3>1 DEF Says
    <3> HIDE DEF r
    <3>3. Typed(m, a, r)
        BY <2>2, <3>2 DEF Typed
    <3>4. Retains(m, a, r.adapter)
        BY <3>2 DEF Retains
    <3>5. PopIs(m, a, h, r)
        BY <2>3, <2>5, <3>2, <3>4 DEF PopIs
    <3> QED BY <3>2, <3>3, <3>5 DEF r
  <2>6. CASE ~(m = "nonterminating-observation" \/ (m = "wrong-empty" /\ empty)) /\ ~empty
    <3>1. r = PoppedTop(m, a, h)
        BY <2>1, <2>6 DEF Popped
    <3>2. c # <<>>
        BY <2>3, <2>6
    <3> DEFINE x == PoppedTop(m, a, h)
    <3>3. /\ Typed(m, a, x) /\ x.status = "ok" /\ x.tag = "some"
          /\ Steady(m) => x.value = TopTold(m, c) /\ Serves(m, a, x, RestKept(m, c))
        BY <1>2, <3>2, FixturePopTop
    <3> HIDE DEF r, x
    <3>4. Steady(m) => PopIs(m, a, h, x)
        BY <2>3, <2>6, <3>3 DEF PopIs
    <3>5. r = x
        BY <3>1 DEF x
    <3> QED BY <3>3, <3>4, <3>5 DEF r
  <2> QED BY <2>4, <2>5, <2>6
<1>3. CASE m = "status-error"
    BY <1>3, Refused
<1> QED BY <1>1, <1>2, <1>3 DEF Fixture

-----------------------------------------------------------------------------
(* What a valid plan says of the case the campaign is in.                  *)

SoundCase(steps, watches) ==
  /\ steps \in Seq(StepSet) /\ Len(steps) \in Nat \ {0}
  /\ watches \in Seq(WatchSet) /\ Len(watches) \in Nat
  /\ Backward(steps)
  /\ \A i \in DOMAIN steps : /\ steps[i].op = "empty" => steps[i].source = 0
                             /\ steps[i].op = "push" => steps[i].value \in ElementDomain
                             /\ steps[i].source # 0 => steps[i].source \in 1 .. i - 1
  /\ \A w \in DOMAIN watches : /\ watches[w].declaration \in Declarations
                               /\ watches[w].on \in 1 .. Len(steps)

(* Every case of a plan is sound.                                          *)
LEMMA CasesSound ==
  ASSUME NEW p \in Plans
  PROVE  /\ p \in Seq(CaseSet) /\ p # <<>>
         /\ \A c \in DOMAIN p : SoundCase(p[c].steps, p[c].watches)
<1>1. p \in Seq(CaseSet) /\ p # <<>>
    BY PlansAssumption
<1>2. ASSUME NEW c \in DOMAIN p PROVE SoundCase(p[c].steps, p[c].watches)
  <2> DEFINE s == p[c].steps
             w == p[c].watches
             d == p[c]
  <2>1. d \in CaseSet
      BY <1>1
  <2>2. ValidCase(d, ElementDomain, Len(s), Len(s))
      BY PlansAssumption
  <2> HIDE DEF d
  <2>3. d.steps \in Seq(StepSet) /\ d.watches \in Seq(WatchSet)
      BY <2>1 DEF CaseSet
  <2>4. s = d.steps /\ w = d.watches
      BY DEF d
  <2> HIDE DEF s, w
  <2>5. s \in Seq(StepSet) /\ w \in Seq(WatchSet) /\ Len(s) \in Nat /\ Len(w) \in Nat
      BY <2>3, <2>4
  <2>6. /\ Len(s) \in 1 .. Len(s)
        /\ \A i \in DOMAIN s : /\ s[i].op = "empty" => s[i].source = 0
                               /\ s[i].op # "empty" => s[i].source \in 1 .. i - 1
                               /\ s[i].op = "push" => s[i].value \in ElementDomain
        /\ \A i \in DOMAIN w : w[i].declaration \in Declarations /\ w[i].on \in DOMAIN s
      BY <2>2, <2>4, Zenon DEF ValidCase
  <2>7. SoundCase(s, w)
      BY <2>5, <2>6 DEF SoundCase, Backward
  <2> QED BY <2>7 DEF s, w
<1> QED BY <1>1, <1>2

(* What the types say of the case.                                         *)
LEMMA CaseFacts ==
  ASSUME Kinds
  PROVE  /\ plan \in Seq(CaseSet) /\ Len(plan) \in Nat /\ case \in 1 .. Len(plan)
         /\ SoundCase(Steps, Watches)
         /\ Len(handles) \in Nat /\ At \in 1 .. Len(Steps) + 1
         /\ At = Len(handles) + 1 /\ DOMAIN handles = 1 .. Len(handles)
         /\ Given(mode, adapter) \in Nat
         /\ \A i \in 1 .. Len(Steps) : /\ TopFirst(Steps)[i] = Bound(Steps, TopFirst(Steps), i)
                                       /\ TopFirst(Steps)[i] \in Seq(Int)
<1>1. plan \in Plans /\ case \in DOMAIN plan /\ handles \in Seq(Nat) /\ Len(handles) <= Len(Steps)
    BY DEF Kinds, TypeOK
<1>2. plan \in Seq(CaseSet) /\ SoundCase(Steps, Watches)
    BY <1>1, CasesSound DEF Steps, Watches
<1> DEFINE s == Steps
<1>3. s \in Seq(StepSet) /\ Backward(s) /\ Len(s) \in Nat
    BY <1>2 DEF SoundCase
<1> HIDE DEF s
<1>4. /\ TopFirst(s) = [i \in DOMAIN s |-> Bound(s, TopFirst(s), i)]
      /\ \A i \in DOMAIN s : TopFirst(s)[i] \in Seq(Int)
    BY <1>3, TopFirstUnfolds
<1>5. DOMAIN s = 1 .. Len(s)
    BY <1>3
<1>6. \A i \in 1 .. Len(s) : TopFirst(s)[i] = Bound(s, TopFirst(s), i) /\ TopFirst(s)[i] \in Seq(Int)
  <2> DEFINE t == TopFirst(s)
  <2> HIDE DEF t
  <2>1. t = [i \in DOMAIN s |-> Bound(s, t, i)]
      BY <1>4 DEF t
  <2>2. \A i \in 1 .. Len(s) : t[i] = Bound(s, t, i)
      BY <1>5, <2>1
  <2>3. \A i \in 1 .. Len(s) : t[i] \in Seq(Int)
      BY <1>4, <1>5 DEF t
  <2> QED BY <2>2, <2>3 DEF t
<1>7. Given(mode, adapter) \in Nat
  <2>1. AdapterOK(mode, adapter)
      BY DEF Kinds
  <2> QED BY <2>1 DEF AdapterOK, Given
<1>8. Len(handles) \in Nat /\ DOMAIN handles = 1 .. Len(handles) /\ Len(Steps) \in Nat
    BY <1>1, <1>3 DEF s
<1>9. At \in 1 .. Len(Steps) + 1 /\ At = Len(handles) + 1
    BY <1>1, <1>8 DEF At
<1>10. Len(plan) \in Nat /\ case \in 1 .. Len(plan)
    BY <1>1, <1>2
<1> QED BY <1>2, <1>6, <1>7, <1>8, <1>9, <1>10 DEF s

(* The types, in three parts. *)
HistoryType ==
  /\ case \in DOMAIN plan
  /\ watch \in 1 .. Len(Watches) + 1
  /\ Len(handles) <= Len(Steps)
  /\ \A i \in DOMAIN handles : handles[i] \in 0 .. Given(mode, adapter)
  /\ DOMAIN states = DOMAIN handles
  /\ DOMAIN baselines \subseteq DOMAIN handles

LookType ==
  /\ pc \in {"step", "baseline", "remainder", "watch", "observe", "summary", "done"}
  /\ look.at \in 0 .. Given(mode, adapter)
  /\ Len(look.seen) <= Len(look.goal) + 1
  /\ look.status \in Statuses
  /\ (look.status = "none") <=> (pc \in {"step", "watch", "summary", "done"})

RecordsType ==
  /\ records \subseteq [case : DOMAIN plan, declaration : Declarations, result : Verdicts]
  /\ forbidden \in BOOLEAN
  /\ failed \in {"no", "session", "refused"}
  /\ result \in Verdicts \cup {"none", "error"}

(* Together they are the types.                                            *)
LEMMA TypeParts ==
  /\ TypeOK <=> HistoryType /\ LookType /\ RecordsType
  /\ TypeOK' <=> HistoryType' /\ LookType' /\ RecordsType'
<1>1. TypeOK <=> HistoryType /\ LookType /\ RecordsType
    BY Zenon DEF TypeOK, HistoryType, LookType, RecordsType, Statuses
<1>2. TypeOK' <=> HistoryType' /\ LookType' /\ RecordsType'
    BY Zenon DEF TypeOK, HistoryType, LookType, RecordsType, Statuses
<1> QED BY <1>1, <1>2

(* The campaign begins so.                                                 *)
LEMMA InitOK == Init => IInv
<1> SUFFICES ASSUME Init PROVE IInv
    OBVIOUS
<1>1. plan \in Plans /\ case = 1 /\ pc = "step" /\ watch = 1 /\ handles = <<>> /\ states = <<>>
      /\ baselines = <<>> /\ look = NoLook /\ records = {} /\ forbidden = FALSE /\ failed = "no"
      /\ outcomes = <<>> /\ result = "none" /\ adapter = NewAdapter(mode)
    BY DEF Init
<1>2. plan \in Seq(CaseSet) /\ plan # <<>> /\ \A c \in DOMAIN plan : SoundCase(plan[c].steps, plan[c].watches)
    BY <1>1, CasesSound
<1>3. case \in DOMAIN plan /\ SoundCase(Steps, Watches)
  <2>1. 1 \in DOMAIN plan
      BY <1>2
  <2> QED BY <1>1, <1>2, <2>1 DEF Steps, Watches
<1>4. AdapterOK(mode, adapter) /\ Given(mode, adapter) = 0
  <2>1. CASE mode \in Languages
    <3>1. adapter = [stacks |-> <<>>, seq |-> -1]
        BY <1>1, <2>1 DEF NewAdapter, NewServer
    <3> QED BY <2>1, <3>1 DEF AdapterOK, Given
  <2>2. CASE mode \notin Languages
    <3>1. adapter = [heap |-> <<>>, count |-> 0]
        BY <1>1, <2>2 DEF NewAdapter
    <3> QED BY <2>2, <3>1 DEF AdapterOK, Given
  <2> QED BY <2>1, <2>2
<1>5. Len(Watches) \in Nat /\ Len(Steps) \in Nat
    BY <1>3 DEF SoundCase
<1>6. TypeOK
  <2>1. look.at = 0 /\ look.goal = <<>> /\ look.seen = <<>> /\ look.status = "none"
      BY <1>1 DEF NoLook
  <2>2. Len(look.seen) <= Len(look.goal) + 1
      BY <2>1
  <2>3. DOMAIN states = DOMAIN handles /\ DOMAIN baselines \subseteq DOMAIN handles /\ DOMAIN handles = {}
      BY <1>1
  <2>4. Len(handles) <= Len(Steps)
      BY <1>1, <1>5
  <2>5. watch \in 1 .. Len(Watches) + 1
      BY <1>1, <1>5
  <2>6. HistoryType
      BY <1>1, <1>3, <1>4, <2>3, <2>4, <2>5 DEF HistoryType
  <2>7. LookType
      BY <1>1, <1>4, <2>1, <2>2 DEF LookType, Statuses
  <2>8. RecordsType
      BY <1>1 DEF RecordsType
  <2> QED BY <2>6, <2>7, <2>8, TypeParts
<1>7. Kinds
    BY <1>1, <1>4, <1>6 DEF Kinds, NoLook, Statuses
<1>8. Position
    BY <1>1 DEF Position
<1>9. StatesPlanned /\ LookPlaced
    BY <1>1 DEF StatesPlanned, LookPlaced, NoLook
<1>10. WatchesRecorded
  <2>1. \A c \in DOMAIN plan : \A w \in DOMAIN plan[c].watches : w \in Nat \ {0} /\ c \in Nat \ {0}
      BY <1>2 DEF SoundCase
  <2> QED BY <1>1, <2>1 DEF WatchesRecorded
<1>11. ReportFits /\ EventsOwned
    BY <1>1 DEF ReportFits, EventsOwned
<1>12. SteadyInv
    BY <1>1 DEF SteadyInv, HandlesFit, LookFits, BaselinesFit, Blamed, Challenged, NoLook
<1> QED BY <1>7, <1>8, <1>9, <1>10, <1>11, <1>12 DEF IInv

-----------------------------------------------------------------------------
(* Every step of the campaign keeps the invariant.                         *)

Quiet == UNCHANGED <<plan, mode, adapter, case, handles, states>>

(* What a step without a call and without a binding leaves.                *)
LEMMA QuietKeeps ==
  ASSUME Kinds, StatesPlanned, Quiet
  PROVE  /\ plan' \in Plans /\ AdapterOK(mode', adapter') /\ handles' \in Seq(Nat)
         /\ states' \in Seq(Seq(Int)) /\ Len(states') = Len(handles')
         /\ Steps' = Steps /\ Watches' = Watches /\ At' = At /\ Step' = Step
         /\ StatesPlanned'
         /\ HandlesFit => HandlesFit'
         /\ baselines' = baselines /\ BaselinesFit => BaselinesFit'
<1>1. plan' = plan /\ mode' = mode /\ adapter' = adapter /\ case' = case /\ handles' = handles /\ states' = states
    BY DEF Quiet
<1>2. Steps' = Steps /\ Watches' = Watches
    BY <1>1 DEF Steps, Watches
<1>3. At' = At /\ Step' = Step
    BY <1>1, <1>2 DEF At, Step
<1>4. StatesPlanned'
    BY <1>1, <1>2 DEF StatesPlanned
<1>5. HandlesFit => HandlesFit'
    BY <1>1 DEF HandlesFit
<1>6. baselines' = baselines /\ BaselinesFit => BaselinesFit'
    BY <1>1, <1>2 DEF BaselinesFit
<1> QED BY <1>1, <1>2, <1>3, <1>4, <1>5, <1>6 DEF Kinds

(* What a step that only records leaves of the blame.                      *)
LEMMA BlameKept ==
  ASSUME Blamed, plan' = plan, mode' = mode, forbidden' => forbidden \/ mode = "forbidden-event",
         NEW new, records' = records \cup new,
         Exact(mode) \/ WatchesEmptiness =>
           \A r \in new : r.result = "challenges" => r.declaration \in Breaks(mode)
  PROVE  Blamed'
<1>1. SUFFICES ASSUME Exact(mode) \/ WatchesEmptiness PROVE Challenged' \subseteq Breaks(mode)
  <2>1. WatchesEmptiness' <=> WatchesEmptiness
      BY DEF WatchesEmptiness
  <2> QED BY <1>1, <2>1 DEF Blamed
<1>2. mode = "forbidden-event" => "stack-effects" \in Breaks(mode)
    BY DEF Breaks, Faithful, InPlace, Languages
<1>3. Challenged \subseteq Breaks(mode)
    BY <1>1 DEF Blamed
<1>4. ASSUME NEW d \in Challenged' PROVE d \in Breaks(mode)
  <2>1. \/ \E r \in records \cup new : r.result = "challenges" /\ d = r.declaration
        \/ forbidden' /\ d = "stack-effects"
      BY <1>4 DEF Challenged
  <2>2. ASSUME NEW r \in records \cup new, r.result = "challenges", d = r.declaration
        PROVE  d \in Breaks(mode)
    <3>1. CASE r \in records
      <4>1. d \in Challenged
          BY <2>2, <3>1 DEF Challenged
      <4> QED BY <1>3, <4>1
    <3>2. CASE r \in new
        BY <1>1, <2>2, <3>2
    <3> QED BY <3>1, <3>2
  <2>3. ASSUME forbidden', d = "stack-effects" PROVE d \in Breaks(mode)
    <3>1. CASE forbidden
      <4>1. d \in Challenged
          BY <2>3, <3>1 DEF Challenged
      <4> QED BY <1>3, <4>1
    <3>2. CASE mode = "forbidden-event"
        BY <1>2, <2>3, <3>2
    <3> QED BY <2>3, <3>1, <3>2
  <2> QED BY <2>1, <2>2, <2>3
<1> QED BY <1>4

LookSet == [at : Nat, goal : Seq(Int), seen : Seq(Int), status : Statuses]

(* What a step without a call or a binding leaves of the types.            *)
LEMMA QuietStep ==
  ASSUME Kinds, StatesPlanned, Quiet, watch' \in 1 .. Len(Watches) + 1,
         DOMAIN baselines' \subseteq DOMAIN handles,
         baselines' \in [DOMAIN baselines' -> [seen : Seq(Int), status : Statuses]],
         LookType', look' \in LookSet, RecordsType'
  PROVE  Kinds'
<1>1. /\ plan' = plan /\ mode' = mode /\ adapter' = adapter /\ case' = case
      /\ handles' = handles /\ states' = states
    BY DEF Quiet
<1>2. /\ plan' \in Plans /\ AdapterOK(mode', adapter') /\ handles' \in Seq(Nat)
      /\ states' \in Seq(Seq(Int)) /\ Len(states') = Len(handles')
      /\ Steps' = Steps /\ Watches' = Watches
    BY QuietKeeps
<1>3. HistoryType'
  <2>1. HistoryType
      BY TypeParts DEF Kinds
  <2> QED BY <1>1, <1>2, <2>1 DEF HistoryType
<1>4. TypeOK'
    BY <1>3, TypeParts
<1>5. watch' \in Nat
  <2>1. Len(Watches) \in Nat
      BY CaseFacts DEF SoundCase
  <2> QED BY <2>1
<1> QED BY <1>2, <1>4, <1>5 DEF Kinds, LookSet

(* A look ends.                                                            *)
LEMMA LookEnds ==
  ASSUME look' = NoLook, pc' \in {"step", "watch", "summary", "done"}, Given(mode', adapter') \in Nat
  PROVE  LookType' /\ look' \in LookSet /\ LookPlaced' /\ LookFits'
<1>1. look'.at = 0 /\ look'.goal = <<>> /\ look'.seen = <<>> /\ look'.status = "none"
    BY DEF NoLook
<1>2. Len(look'.seen) <= Len(look'.goal) + 1
    BY <1>1
<1>3. LookType'
    BY <1>1, <1>2 DEF LookType, Statuses
<1>4. look' \in LookSet
    BY DEF LookSet, NoLook, Statuses
<1>5. LookPlaced' /\ LookFits'
    BY <1>1 DEF LookPlaced, LookFits
<1> QED BY <1>3, <1>4, <1>5

(* A look at a binding begins.                                             *)
LEMMA LookBegins ==
  ASSUME NEW h, NEW g, look' = [at |-> h, goal |-> g, seen |-> <<>>, status |-> "going"],
         pc' \in {"baseline", "remainder", "observe"},
         Given(mode', adapter') \in Nat, h \in 1 .. Given(mode', adapter'), g \in Seq(Int),
         AdapterOK(mode', adapter'), DOMAIN states' = DOMAIN handles',
         LookedAt' \in DOMAIN handles', handles'[LookedAt'] = h, g = TopFirst(Steps')[LookedAt'],
         StatesPlanned'
  PROVE  LookType' /\ look' \in LookSet /\ LookPlaced' /\ (HandlesFit' => LookFits')
<1> DEFINE e == <<>>
<1>1. look'.at = h /\ look'.goal = g /\ look'.seen = e /\ look'.status = "going"
    OBVIOUS
<1>2. Len(look'.seen) <= Len(look'.goal) + 1 /\ Len(look'.seen) <= Len(look'.goal)
    BY <1>1
<1>3. LookType'
    BY <1>1, <1>2 DEF LookType, Statuses
<1>4. look' \in LookSet
    BY DEF LookSet, Statuses
<1>5. LookPlaced'
    BY <1>1, <1>2 DEF LookPlaced
<1>6. ASSUME HandlesFit' PROVE LookFits'
  <2> DEFINE c == Contents(mode', adapter', h)
  <2>1. c \in Seq(Int)
      BY ContentsType
  <2> HIDE DEF c
  <2>2. Told(mode', c) \in Seq(Int)
      BY <2>1, ToldType
  <2>3. e \o c = c /\ e \o Told(mode', c) = Told(mode', c)
      BY <2>1, <2>2
  <2>4. h # 0
      OBVIOUS
  <2>5. Fits(mode', c, states'[LookedAt'])
      BY <1>6, <2>4 DEF HandlesFit, c
  <2>6. states'[LookedAt'] = g
      BY DEF StatesPlanned
  <2>7. mode' = "wrong-empty" => c = g
      BY <2>5, <2>6 DEF Fits, Exact
  <2> HIDE DEF e
  <2> QED BY <1>1, <2>3, <2>7 DEF LookFits, c
<1> QED BY <1>3, <1>4, <1>5, <1>6

(* The observation after the last.                                         *)
LEMMA WatchAdded ==
  ASSUME Kinds, WatchesRecorded, plan' = plan, case' = case, watch' = watch + 1,
         NEW new, records' = records \cup new,
         \E r \in new : r.case = case /\ r.declaration = Watched.declaration
  PROVE  WatchesRecorded'
<1>1. watch \in Nat /\ plan \in Plans
    BY DEF Kinds
<1>2. ASSUME NEW c \in DOMAIN plan, NEW w \in DOMAIN plan[c].watches,
             c < case \/ (c = case /\ w < watch + 1)
      PROVE  \E r \in records' : r.case = c /\ r.declaration = plan[c].watches[w].declaration
  <2>1. w \in Nat
      BY <1>1, CasesSound DEF SoundCase
  <2>2. CASE c < case \/ (c = case /\ w < watch)
      BY <2>2 DEF WatchesRecorded
  <2>3. CASE c = case /\ w = watch
      BY <2>3 DEF Watched, Watches
  <2> QED BY <1>1, <1>2, <2>1, <2>2, <2>3
<1> QED BY <1>2 DEF WatchesRecorded

(* The history of a case is made.                                          *)
LEMMA HistoryDoneKeeps == IInv /\ HistoryDone => IInv'
<1> SUFFICES ASSUME IInv, HistoryDone PROVE IInv'
    OBVIOUS
<1> USE DEF IInv
<1>1. /\ pc = "step" /\ At > Len(Steps) /\ pc' = "watch" /\ Quiet
      /\ watch' = watch /\ baselines' = baselines /\ look' = look /\ records' = records
      /\ forbidden' = forbidden /\ failed' = failed /\ outcomes' = outcomes /\ result' = result
    BY DEF HistoryDone, NotCalled, memory, report, Quiet
<1>2. plan' = plan /\ mode' = mode /\ adapter' = adapter /\ case' = case /\ handles' = handles
    BY <1>1 DEF Quiet
<1>3. /\ Steps' = Steps /\ Watches' = Watches /\ At' = At /\ Step' = Step
      /\ StatesPlanned' /\ (HandlesFit => HandlesFit') /\ (BaselinesFit => BaselinesFit')
    BY <1>1, QuietKeeps
<1>4. HistoryType /\ LookType /\ RecordsType
    BY TypeParts DEF Kinds
<1>5. look.status = "none"
    BY <1>1, <1>4 DEF LookType
<1>6. Kinds'
  <2>1. LookType' /\ RecordsType'
      BY <1>1, <1>2, <1>4, <1>5 DEF LookType, RecordsType
  <2>2. look' \in LookSet /\ watch' \in 1 .. Len(Watches) + 1
      BY <1>1, <1>4 DEF LookSet, HistoryType, Kinds
  <2>3. /\ DOMAIN baselines' \subseteq DOMAIN handles
        /\ baselines' \in [DOMAIN baselines' -> [seen : Seq(Int), status : Statuses]]
      BY <1>1, <1>4 DEF HistoryType, Kinds
  <2> QED BY <1>1, <2>1, <2>2, <2>3, QuietStep
<1>7. Position'
    BY <1>1, <1>2, <1>3, CaseFacts DEF Position
<1>8. LookPlaced' /\ LookFits'
    BY <1>1, <1>5 DEF LookPlaced, LookFits
<1>9. WatchesRecorded'
    BY <1>1, <1>2 DEF WatchesRecorded
<1>10. ReportFits' /\ EventsOwned'
    BY <1>1, <1>2 DEF ReportFits, EventsOwned
<1>11. Blamed => Blamed'
  <2>1. records' = records \cup {}
      BY <1>1
  <2> QED BY <1>1, <1>2, <2>1, BlameKept
<1>12. SteadyInv'
    BY <1>2, <1>3, <1>8, <1>11 DEF SteadyInv
<1> QED BY <1>3, <1>6, <1>7, <1>8, <1>9, <1>10, <1>12

(* The step that is next takes what an earlier one bound.                  *)
LEMMA NextStep ==
  ASSUME Kinds, At <= Len(Steps)
  PROVE  /\ At \in 1 .. Len(Steps) /\ Len(handles) < Len(Steps) /\ Step \in StepSet
         /\ Step.op # "empty" => Step.source # 0
         /\ Step.source # 0 => Step.source \in 1 .. Len(handles)
         /\ Step.op = "push" => Step.value \in ElementDomain
<1> DEFINE s == Steps
           i == At
<1>1. SoundCase(s, Watches) /\ i \in 1 .. Len(s) + 1 /\ i = Len(handles) + 1 /\ Len(handles) \in Nat
    BY CaseFacts
<1>2. Step = s[i]
    BY DEF Step
<1> HIDE DEF s, i
<1>3. i \in 1 .. Len(s) /\ Len(handles) < Len(s) /\ i - 1 = Len(handles)
    BY <1>1 DEF s, i, SoundCase
<1>4. s \in Seq(StepSet) /\ i \in DOMAIN s
    BY <1>1, <1>3 DEF SoundCase
<1>5. /\ s[i].op # "empty" => s[i].source \in 1 .. i - 1
      /\ s[i].op = "push" => s[i].value \in ElementDomain
      /\ s[i].source # 0 => s[i].source \in 1 .. i - 1
    BY <1>1, <1>4 DEF SoundCase, Backward
<1>6. s[i].op # "empty" => s[i].source # 0
    BY <1>5
<1> QED BY <1>2, <1>3, <1>4, <1>5, <1>6 DEF s, i

(* A binding is observed before it is taken.                               *)
LEMMA BeginBaselineKeeps == IInv /\ BeginBaseline => IInv'
<1> SUFFICES ASSUME IInv, BeginBaseline PROVE IInv'
    OBVIOUS
<1> USE DEF IInv
<1> DEFINE h == handles[Step.source]
           g == TopFirst(Steps)[Step.source]
<1>1. /\ pc = "step" /\ At <= Len(Steps) /\ Step.source # 0 /\ h # 0
      /\ look' = [at |-> h, goal |-> g, seen |-> <<>>, status |-> "going"]
      /\ pc' = "baseline" /\ Quiet
      /\ watch' = watch /\ baselines' = baselines /\ records' = records
      /\ forbidden' = forbidden /\ failed' = failed /\ outcomes' = outcomes /\ result' = result
    BY DEF BeginBaseline, InHistory, NeedsBaseline, Observe, NotCalled, memory, report, Quiet
<1>2. plan' = plan /\ mode' = mode /\ adapter' = adapter /\ case' = case /\ handles' = handles /\ states' = states
    BY <1>1 DEF Quiet
<1>3. /\ Steps' = Steps /\ Watches' = Watches /\ At' = At /\ Step' = Step
      /\ StatesPlanned' /\ (HandlesFit => HandlesFit') /\ (BaselinesFit => BaselinesFit')
    BY <1>1, QuietKeeps
<1>4. HistoryType /\ LookType /\ RecordsType
    BY TypeParts DEF Kinds
<1>5. Step.source \in 1 .. Len(handles) /\ DOMAIN handles = 1 .. Len(handles) /\ Step.source \in 1 .. Len(Steps)
  <2>1. Len(handles) \in Nat /\ DOMAIN handles = 1 .. Len(handles)
      BY CaseFacts
  <2>2. Len(Steps) \in Nat
      BY CaseFacts DEF SoundCase
  <2>3. Len(handles) < Len(Steps) /\ Step.source \in 1 .. Len(handles)
      BY <1>1, NextStep
  <2> QED BY <2>1, <2>2, <2>3
<1>6. h \in 1 .. Given(mode, adapter) /\ g \in Seq(Int) /\ Given(mode, adapter) \in Nat
  <2>1. Given(mode, adapter) \in Nat /\ h \in 0 .. Given(mode, adapter)
      BY <1>4, <1>5, CaseFacts DEF HistoryType
  <2>2. g \in Seq(Int)
      BY <1>5, CaseFacts
  <2> QED BY <1>1, <2>1, <2>2
<1>7. LookType' /\ look' \in LookSet /\ LookPlaced' /\ (HandlesFit' => LookFits')
  <2>1. LookedAt' = Step.source
      BY <1>1, <1>3 DEF LookedAt
  <2>2. /\ LookedAt' \in DOMAIN handles' /\ handles'[LookedAt'] = h /\ g = TopFirst(Steps')[LookedAt']
        /\ h \in 1 .. Given(mode', adapter') /\ Given(mode', adapter') \in Nat
        /\ AdapterOK(mode', adapter') /\ DOMAIN states' = DOMAIN handles'
      BY <1>2, <1>3, <1>4, <1>5, <1>6, <2>1 DEF Kinds, HistoryType
  <2> HIDE DEF h, g
  <2> QED BY <1>1, <1>3, <1>6, <2>2, LookBegins
<1>8. Kinds'
  <2>1. RecordsType'
      BY <1>1, <1>2, <1>4 DEF RecordsType
  <2>2. watch' \in 1 .. Len(Watches) + 1
      BY <1>1, <1>4 DEF HistoryType
  <2>3. /\ DOMAIN baselines' \subseteq DOMAIN handles
        /\ baselines' \in [DOMAIN baselines' -> [seen : Seq(Int), status : Statuses]]
      BY <1>1, <1>4 DEF HistoryType, Kinds
  <2> QED BY <1>1, <1>7, <2>1, <2>2, <2>3, QuietStep
<1>9. Position'
    BY <1>1, <1>2, <1>3, <1>5 DEF Position
<1>10. WatchesRecorded'
    BY <1>1, <1>2 DEF WatchesRecorded
<1>11. ReportFits' /\ EventsOwned'
    BY <1>1, <1>2 DEF ReportFits, EventsOwned
<1>12. Blamed => Blamed'
  <2>1. records' = records \cup {}
      BY <1>1
  <2> QED BY <1>1, <1>2, <2>1, BlameKept
<1>13. SteadyInv'
    BY <1>2, <1>3, <1>7, <1>12 DEF SteadyInv
<1> QED BY <1>3, <1>7, <1>8, <1>9, <1>10, <1>11, <1>13

(* What is found is kept as the baseline.                                  *)
LEMMA KeepBaselineKeeps == IInv /\ KeepBaseline => IInv'
<1> SUFFICES ASSUME IInv, KeepBaseline PROVE IInv'
    OBVIOUS
<1> USE DEF IInv
<1> DEFINE s == Step.source
           found == [seen |-> look.seen, status |-> look.status]
<1>1. /\ pc = "baseline" /\ look.status \notin {"none", "going"} /\ look' = NoLook
      /\ pc' = "step" /\ Quiet /\ watch' = watch /\ records' = records
      /\ baselines' = [b \in DOMAIN baselines \cup {s} |-> IF b = s THEN found ELSE baselines[b]]
      /\ forbidden' = forbidden /\ failed' = failed /\ outcomes' = outcomes /\ result' = result
    BY DEF KeepBaseline, Looked, NotCalled, report, Quiet
<1>2. plan' = plan /\ mode' = mode /\ adapter' = adapter /\ case' = case /\ handles' = handles /\ states' = states
    BY <1>1 DEF Quiet
<1>3. /\ Steps' = Steps /\ Watches' = Watches /\ At' = At /\ Step' = Step
      /\ StatesPlanned' /\ (HandlesFit => HandlesFit')
    BY <1>1, QuietKeeps
<1>4. HistoryType /\ LookType /\ RecordsType
    BY TypeParts DEF Kinds
<1>5. s \in DOMAIN handles /\ handles[s] # 0 /\ look.goal = TopFirst(Steps)[s] /\ LookedAt = s
    BY <1>1 DEF LookPlaced, LookedAt
<1>6. found \in [seen : Seq(Int), status : Statuses]
    BY DEF Kinds
<1>7. /\ DOMAIN baselines' = {s} \cup DOMAIN baselines
      /\ baselines'[s] = found
      /\ \A b \in DOMAIN baselines : b # s => baselines'[b] = baselines[b]
  <2> HIDE DEF s, found
  <2> QED BY <1>1
<1>8. /\ DOMAIN baselines' \subseteq DOMAIN handles
      /\ baselines' \in [DOMAIN baselines' -> [seen : Seq(Int), status : Statuses]]
  <2> HIDE DEF s, found
  <2>1. DOMAIN baselines \subseteq DOMAIN handles
      BY <1>4 DEF HistoryType
  <2>2. baselines' = [b \in DOMAIN baselines' |-> baselines'[b]]
      BY <1>1
  <2>3. \A b \in DOMAIN baselines' : baselines'[b] \in [seen : Seq(Int), status : Statuses]
      BY <1>6, <1>7 DEF Kinds
  <2> QED BY <1>5, <1>7, <2>1, <2>2, <2>3
<1>9. LookType' /\ look' \in LookSet /\ LookPlaced' /\ LookFits'
  <2>1. Given(mode', adapter') \in Nat
      BY <1>2, CaseFacts
  <2> QED BY <1>1, <2>1, LookEnds
<1>10. Kinds'
  <2>1. RecordsType'
      BY <1>1, <1>2, <1>4 DEF RecordsType
  <2>2. watch' \in 1 .. Len(Watches) + 1
      BY <1>1, <1>4 DEF HistoryType
  <2> QED BY <1>1, <1>8, <1>9, <2>1, <2>2, QuietStep
<1>11. Position'
    BY <1>1, <1>2, <1>3 DEF Position
<1>12. WatchesRecorded'
    BY <1>1, <1>2 DEF WatchesRecorded
<1>13. ReportFits' /\ EventsOwned'
    BY <1>1, <1>2 DEF ReportFits, EventsOwned
<1>14. Blamed => Blamed'
  <2>1. records' = records \cup {}
      BY <1>1
  <2> QED BY <1>1, <1>2, <2>1, BlameKept
<1>15. LookFits /\ BaselinesFit => BaselinesFit'
  <2> SUFFICES ASSUME LookFits, BaselinesFit, NEW b \in DOMAIN baselines'
               PROVE  /\ handles[b] # 0
                      /\ baselines'[b].status = "complete" =>
                           /\ Stops(mode)
                           /\ baselines'[b].seen = Told(mode, Contents(mode, adapter, handles[b]))
                           /\ Len(baselines'[b].seen) = Len(TopFirst(Steps)[b])
      BY <1>2, <1>3 DEF BaselinesFit
  <2>1. CASE b = s
    <3>1. baselines'[b].status = look.status /\ baselines'[b].seen = look.seen
        BY <1>7, <2>1
    <3>2. ASSUME look.status = "complete"
          PROVE  /\ Stops(mode) /\ look.seen = Told(mode, Contents(mode, adapter, handles[s]))
                 /\ Len(look.seen) = Len(look.goal)
      <4>1. mode # "nonterminating-observation" /\ mode # "wrong-empty"
          BY <1>1, <1>5, <3>2 DEF LookFits
      <4>2. /\ look.seen = Told(mode, Contents(mode, adapter, handles[s]))
            /\ look.status = IF Len(look.seen) = Len(look.goal) THEN "complete" ELSE "early-none"
          BY <1>1, <1>5, <4>1 DEF LookFits
      <4> QED BY <3>2, <4>1, <4>2 DEF Stops
    <3> HIDE DEF s
    <3> QED BY <1>5, <2>1, <3>1, <3>2
  <2>2. CASE b # s
    <3>1. b \in DOMAIN baselines /\ baselines'[b] = baselines[b]
        BY <1>7, <2>2
    <3> QED BY <3>1 DEF BaselinesFit
  <2> QED BY <2>1, <2>2
<1>16. SteadyInv'
    BY <1>2, <1>3, <1>9, <1>14, <1>15 DEF SteadyInv
<1> QED BY <1>3, <1>9, <1>10, <1>11, <1>12, <1>13, <1>16

(* What each steady adapter breaks.                                        *)
LEMMA WhatBreaks ==
  ASSUME NEW m, Steady(m)
  PROVE  /\ ~Exact(m) => "pop-push" \in Breaks(m)
         /\ ~Stops(m) => "pop-empty" \in Breaks(m)
         /\ m = "forbidden-event" => "stack-effects" \in Breaks(m)
<1>1. m \notin InPlace
    BY DEF Steady
<1>2. ASSUME ~Exact(m) PROVE "pop-push" \in Breaks(m)
  <2>1. m \notin Faithful \cup {"status-error"} /\ m # "wrong-empty" /\ m # "forbidden-event"
      BY <1>2 DEF Exact
  <2>2. m # "destructive-pop"
      BY <1>1 DEF InPlace
  <2>3. Breaks(m) = IF m = "nonterminating-observation" THEN {"pop-empty", "pop-push"} ELSE {"pop-push"}
      BY <1>1, <2>1, <2>2 DEF Breaks
  <2> QED BY <2>3
<1>3. ASSUME ~Stops(m) PROVE "pop-empty" \in Breaks(m)
  <2>1. m = "nonterminating-observation" \/ m = "wrong-empty"
      BY <1>3 DEF Stops
  <2>2. m \notin Faithful \cup {"status-error"} /\ m # "destructive-pop"
      BY <2>1 DEF Faithful, Languages
  <2> QED BY <1>1, <2>1, <2>2 DEF Breaks
<1>4. m = "forbidden-event" => "stack-effects" \in Breaks(m)
    BY <1>1 DEF Breaks, Faithful, Languages, InPlace
<1> QED BY <1>2, <1>3, <1>4

(* What a look has found when it ends.                                     *)
LEMMA LookTells ==
  ASSUME Kinds, StatesPlanned, LookPlaced, Steady(mode), HandlesFit, LookFits,
         look.status \notin {"none", "going"}
  PROVE  /\ OnlyTail => "pop-empty" \in Breaks(mode)
         /\ Exact(mode) /\ ~OnlyTail => look.status = "complete" /\ look.seen = look.goal
         /\ "pop-empty" \notin Breaks(mode) /\ look.goal = <<>> =>
              look.status = "complete" /\ look.seen = look.goal
<1> DEFINE h == handles[LookedAt]
           c == Contents(mode, adapter, h)
           seen == look.seen
           goal == look.goal
<1>1. LookedAt \in DOMAIN handles /\ h # 0 /\ goal = TopFirst(Steps)[LookedAt]
    BY DEF LookPlaced
<1>2. goal \in Seq(Int) /\ seen \in Seq(Int) /\ Len(goal) \in Nat /\ Len(seen) \in Nat
    BY DEF Kinds
<1>3. c \in Seq(Int) /\ Len(c) \in Nat
  <2>1. h \in 1 .. Given(mode, adapter)
      BY <1>1, CaseFacts, TypeParts DEF Kinds, HistoryType
  <2>2. AdapterOK(mode, adapter)
      BY DEF Kinds
  <2> HIDE DEF h
  <2> QED BY <2>1, <2>2, ContentsType
<1>4. Fits(mode, c, goal)
  <2>1. states[LookedAt] = goal /\ DOMAIN states = DOMAIN handles
      BY <1>1, TypeParts DEF StatesPlanned, Kinds, HistoryType
  <2> QED BY <1>1, <2>1 DEF HandlesFit
<1>5. CASE mode = "nonterminating-observation"
  <2>1. "pop-empty" \in Breaks(mode)
      BY <1>5, WhatBreaks DEF Stops
  <2>2. ~Exact(mode)
      BY <1>5 DEF Exact, Faithful, Languages
  <2> QED BY <2>1, <2>2
<1>6. CASE mode = "wrong-empty"
  <2>1. "pop-empty" \in Breaks(mode)
      BY <1>6, WhatBreaks DEF Stops
  <2>2. OnlyTail
      BY <1>6 DEF LookFits, OnlyTail
  <2> QED BY <2>1, <2>2
<1>7. CASE mode \notin {"nonterminating-observation", "wrong-empty"}
  <2>1. /\ seen = Told(mode, c)
        /\ look.status = IF Len(seen) = Len(goal) THEN "complete" ELSE "early-none"
      BY <1>7 DEF LookFits
  <2>2. ~OnlyTail
      BY <2>1 DEF OnlyTail
  <2>3. Stops(mode)
      BY <1>7 DEF Stops
  <2> HIDE DEF c, seen, goal
  <2>4. Exact(mode) => c = goal /\ Told(mode, c) = c
      BY <1>3, <1>4, ToldType DEF Fits
  <2>5. goal = <<>> => c = <<>>
    <3>1. ~Exact(mode) => Len(c) <= Len(goal)
        BY <1>4, <2>3 DEF Fits
    <3>2. goal = <<>> => Len(goal) = 0
        OBVIOUS
    <3>3. Len(c) = 0 => c = <<>>
        BY <1>3
    <3> QED BY <1>3, <2>4, <3>1, <3>2, <3>3
  <2>6. Told(mode, <<>>) = <<>>
      BY <1>3, ToldType
  <2> QED BY <2>1, <2>2, <2>4, <2>5, <2>6 DEF seen, goal
<1> QED BY <1>5, <1>6, <1>7

(* A record is one.                                                        *)
LEMMA RecordType ==
  ASSUME case \in DOMAIN plan, NEW d \in Declarations, NEW v \in Verdicts
  PROVE  /\ Record(d, v) \in [case : DOMAIN plan, declaration : Declarations, result : Verdicts]
         /\ Record(d, v).case = case /\ Record(d, v).declaration = d /\ Record(d, v).result = v
BY DEF Record

(* The remainder of a pop is judged.                                       *)
LEMMA JudgeRemainderKeeps == IInv /\ JudgeRemainder => IInv'
<1> SUFFICES ASSUME IInv, JudgeRemainder PROVE IInv'
    OBVIOUS
<1> USE DEF IInv
<1> DEFINE new == RemainderRecords
<1>1. /\ pc = "remainder" /\ look.status \notin {"none", "going"} /\ look' = NoLook
      /\ pc' = "step" /\ Quiet /\ watch' = watch /\ records' = records \cup new
      /\ baselines' = baselines
      /\ forbidden' = forbidden /\ failed' = failed /\ outcomes' = outcomes /\ result' = result
    BY DEF JudgeRemainder, Looked, NotCalled, memory, report, Quiet
<1>2. plan' = plan /\ mode' = mode /\ adapter' = adapter /\ case' = case /\ handles' = handles /\ states' = states
    BY <1>1 DEF Quiet
<1>3. /\ Steps' = Steps /\ Watches' = Watches /\ At' = At /\ Step' = Step
      /\ StatesPlanned' /\ (HandlesFit => HandlesFit') /\ (BaselinesFit => BaselinesFit')
    BY <1>1, QuietKeeps
<1>4. HistoryType /\ LookType /\ RecordsType
    BY TypeParts DEF Kinds
<1>5. \A r \in new : /\ r \in [case : DOMAIN plan, declaration : Declarations, result : Verdicts]
                     /\ r.result = "challenges" =>
                          \/ OnlyTail /\ r.declaration = "pop-empty"
                          \/ /\ ~OnlyTail /\ r.declaration = "pop-push"
                             /\ look.status # "complete" \/ look.seen # look.goal
  <2>1. /\ "pop-empty" \in Declarations /\ "pop-push" \in Declarations
        /\ "challenges" \in Verdicts /\ "inconclusive" \in Verdicts /\ case \in DOMAIN plan
      BY <1>4 DEF Declarations, Verdicts, HistoryType
  <2> DEFINE a == Record("pop-empty", "challenges")
             b == Record("pop-push", "inconclusive")
             c == Record("pop-push", "challenges")
  <2>2. \A r \in {a, b, c} : r \in [case : DOMAIN plan, declaration : Declarations, result : Verdicts]
      BY <2>1, RecordType
  <2>3. /\ a.declaration = "pop-empty" /\ b.result = "inconclusive" /\ c.declaration = "pop-push"
      BY DEF Record
  <2>4. /\ OnlyTail => new = {a, b}
        /\ ~OnlyTail /\ (look.status # "complete" \/ look.seen # look.goal) => new = {c}
        /\ ~OnlyTail /\ ~(look.status # "complete" \/ look.seen # look.goal) => new = {}
      BY DEF RemainderRecords
  <2> HIDE DEF a, b, c, new
  <2> QED BY <2>2, <2>3, <2>4
<1>6. LookType' /\ look' \in LookSet /\ LookPlaced' /\ LookFits'
  <2>1. Given(mode', adapter') \in Nat
      BY <1>2, CaseFacts
  <2> QED BY <1>1, <2>1, LookEnds
<1>7. Kinds'
  <2>1. RecordsType'
      BY <1>1, <1>2, <1>4, <1>5 DEF RecordsType
  <2>2. watch' \in 1 .. Len(Watches) + 1
      BY <1>1, <1>4 DEF HistoryType
  <2>3. /\ DOMAIN baselines' \subseteq DOMAIN handles
        /\ baselines' \in [DOMAIN baselines' -> [seen : Seq(Int), status : Statuses]]
      BY <1>1, <1>4 DEF HistoryType, Kinds
  <2> QED BY <1>1, <1>6, <2>1, <2>2, <2>3, QuietStep
<1>8. Position'
    BY <1>1, <1>2, <1>3 DEF Position
<1>9. WatchesRecorded'
    BY <1>1, <1>2 DEF WatchesRecorded
<1>10. ReportFits' /\ EventsOwned'
    BY <1>1, <1>2 DEF ReportFits, EventsOwned
<1>11. Steady(mode) => Blamed'
  <2> SUFFICES ASSUME Steady(mode) PROVE Blamed'
      OBVIOUS
  <2>1. Blamed /\ HandlesFit /\ LookFits
      BY DEF SteadyInv
  <2>2. /\ OnlyTail => "pop-empty" \in Breaks(mode)
        /\ Exact(mode) /\ ~OnlyTail => look.status = "complete" /\ look.seen = look.goal
      BY <1>1, <2>1, LookTells
  <2>3. ~Exact(mode) => "pop-push" \in Breaks(mode)
      BY WhatBreaks
  <2>4. \A r \in new : r.result = "challenges" => r.declaration \in Breaks(mode)
      BY <1>5, <2>2, <2>3
  <2> HIDE DEF new
  <2> QED BY <1>1, <1>2, <2>1, <2>4, BlameKept
<1>12. SteadyInv'
    BY <1>2, <1>3, <1>6, <1>11 DEF SteadyInv
<1> QED BY <1>3, <1>6, <1>7, <1>8, <1>9, <1>10, <1>12

(* What is watched is a binding of the case.                               *)
LEMMA NextWatch ==
  ASSUME Kinds, Position, watch \in 1 .. Len(Watches), pc \in {"watch", "observe"}
  PROVE  /\ Watched.declaration \in Declarations /\ Watched.on \in 1 .. Len(Steps)
         /\ watch + 1 \in 1 .. Len(Watches) + 1
         /\ DOMAIN handles = 1 .. Len(Steps) /\ Watched.on \in DOMAIN handles
<1>1. SoundCase(Steps, Watches) /\ DOMAIN handles = 1 .. Len(handles)
    BY CaseFacts
<1>2. Watches \in Seq(WatchSet) /\ Len(Watches) \in Nat
    BY <1>1 DEF SoundCase
<1>3. watch \in DOMAIN Watches
    BY <1>2
<1>4. Watched.declaration \in Declarations /\ Watched.on \in 1 .. Len(Steps)
    BY <1>1, <1>3 DEF SoundCase, Watched
<1>5. Len(handles) = Len(Steps)
    BY DEF Position
<1>6. watch + 1 \in 1 .. Len(Watches) + 1
    BY <1>2
<1> QED BY <1>1, <1>4, <1>5, <1>6

(* An observation without a call.                                          *)
LEMMA WatchedBlindKeeps ==
  ASSUME IInv, InWatches, NEW v \in {"inconclusive", "supports"}, WatchedBlind(v)
  PROVE  IInv'
<1> USE DEF IInv
<1> DEFINE made == Record(Watched.declaration, v)
           new == {made}
<1>1. /\ pc = "watch" /\ watch <= Len(Watches) /\ Quiet /\ pc' = pc /\ look' = look
      /\ watch' = watch + 1 /\ records' = records \cup new /\ baselines' = baselines
      /\ forbidden' = forbidden /\ failed' = failed /\ outcomes' = outcomes /\ result' = result
    BY DEF InWatches, WatchedBlind, NotCalled, memory, report, Quiet
<1>2. plan' = plan /\ mode' = mode /\ adapter' = adapter /\ case' = case /\ handles' = handles /\ states' = states
    BY <1>1 DEF Quiet
<1>3. /\ Steps' = Steps /\ Watches' = Watches /\ At' = At /\ Step' = Step
      /\ StatesPlanned' /\ (HandlesFit => HandlesFit') /\ (BaselinesFit => BaselinesFit')
    BY <1>1, QuietKeeps
<1>4. HistoryType /\ LookType /\ RecordsType
    BY TypeParts DEF Kinds
<1>5. look.status = "none"
    BY <1>1, <1>4 DEF LookType
<1>6. watch \in 1 .. Len(Watches)
  <2>1. Len(Watches) \in Nat
      BY CaseFacts DEF SoundCase
  <2> QED BY <1>1, <1>4, <2>1 DEF HistoryType
<1>7. Watched.declaration \in Declarations /\ watch + 1 \in 1 .. Len(Watches) + 1
    BY <1>1, <1>6, NextWatch
<1>8. /\ made \in [case : DOMAIN plan, declaration : Declarations, result : Verdicts]
      /\ made.case = case /\ made.declaration = Watched.declaration /\ made.result = v
  <2>1. case \in DOMAIN plan /\ v \in Verdicts
      BY <1>4 DEF HistoryType, Verdicts
  <2> QED BY <1>7, <2>1, RecordType
<1>9. \A r \in new : r.result # "challenges"
    BY <1>8
<1>10. Kinds'
  <2>1. LookType' /\ RecordsType'
    <3> HIDE DEF made
    <3> QED BY <1>1, <1>2, <1>4, <1>8 DEF LookType, RecordsType
  <2>2. look' \in LookSet /\ watch' \in 1 .. Len(Watches) + 1
      BY <1>1, <1>7 DEF LookSet, Kinds
  <2>3. /\ DOMAIN baselines' \subseteq DOMAIN handles
        /\ baselines' \in [DOMAIN baselines' -> [seen : Seq(Int), status : Statuses]]
      BY <1>1, <1>4 DEF HistoryType, Kinds
  <2> QED BY <1>1, <2>1, <2>2, <2>3, QuietStep
<1>11. Position'
    BY <1>1, <1>2, <1>3 DEF Position
<1>12. LookPlaced' /\ LookFits'
    BY <1>1, <1>5 DEF LookPlaced, LookFits
<1>13. WatchesRecorded'
  <2>1. \E r \in new : r.case = case /\ r.declaration = Watched.declaration
      BY <1>8
  <2> HIDE DEF new
  <2> QED BY <1>1, <1>2, <2>1, WatchAdded
<1>14. ReportFits' /\ EventsOwned'
    BY <1>1, <1>2 DEF ReportFits, EventsOwned
<1>15. Blamed => Blamed'
  <2> HIDE DEF new
  <2> QED BY <1>1, <1>2, <1>9, BlameKept
<1>16. SteadyInv'
    BY <1>2, <1>3, <1>12, <1>15 DEF SteadyInv
<1> QED BY <1>3, <1>10, <1>11, <1>12, <1>13, <1>14, <1>16

(* An observation with a call begins.                                      *)
LEMMA BeginWatchKeeps == IInv /\ BeginWatch => IInv'
<1> SUFFICES ASSUME IInv, BeginWatch PROVE IInv'
    OBVIOUS
<1> USE DEF IInv
<1> DEFINE h == handles[Watched.on]
           g == TopFirst(Steps)[Watched.on]
<1>1. /\ pc = "watch" /\ watch <= Len(Watches) /\ h # 0 /\ Watched.declaration # "stack-effects"
      /\ look' = [at |-> h, goal |-> g, seen |-> <<>>, status |-> "going"]
      /\ pc' = "observe" /\ Quiet
      /\ watch' = watch /\ baselines' = baselines /\ records' = records
      /\ forbidden' = forbidden /\ failed' = failed /\ outcomes' = outcomes /\ result' = result
    BY DEF BeginWatch, InWatches, Lost, Observe, Planned, NotCalled, memory, report, Quiet
<1>2. plan' = plan /\ mode' = mode /\ adapter' = adapter /\ case' = case /\ handles' = handles /\ states' = states
    BY <1>1 DEF Quiet
<1>3. /\ Steps' = Steps /\ Watches' = Watches /\ At' = At /\ Step' = Step
      /\ StatesPlanned' /\ (HandlesFit => HandlesFit') /\ (BaselinesFit => BaselinesFit')
    BY <1>1, QuietKeeps
<1>4. HistoryType /\ LookType /\ RecordsType
    BY TypeParts DEF Kinds
<1>5. watch \in 1 .. Len(Watches) /\ watch \in DOMAIN Watches /\ Watched' = Watched
  <2>1. Len(Watches) \in Nat /\ Watches \in Seq(WatchSet)
      BY CaseFacts DEF SoundCase
  <2> QED BY <1>1, <1>3, <1>4, <2>1 DEF HistoryType, Watched
<1>6. Watched.on \in 1 .. Len(Steps) /\ Watched.on \in DOMAIN handles /\ Watched.declaration \in Declarations
    BY <1>1, <1>5, NextWatch
<1>7. h \in 1 .. Given(mode, adapter) /\ g \in Seq(Int) /\ Given(mode, adapter) \in Nat
  <2>1. Given(mode, adapter) \in Nat /\ h \in 0 .. Given(mode, adapter)
      BY <1>4, <1>6, CaseFacts DEF HistoryType
  <2>2. g \in Seq(Int)
      BY <1>6, CaseFacts
  <2> QED BY <1>1, <2>1, <2>2
<1>8. LookType' /\ look' \in LookSet /\ LookPlaced' /\ (HandlesFit' => LookFits')
  <2>1. LookedAt' = Watched.on
      BY <1>1, <1>5 DEF LookedAt
  <2>2. /\ LookedAt' \in DOMAIN handles' /\ handles'[LookedAt'] = h /\ g = TopFirst(Steps')[LookedAt']
        /\ h \in 1 .. Given(mode', adapter') /\ Given(mode', adapter') \in Nat
        /\ AdapterOK(mode', adapter') /\ DOMAIN states' = DOMAIN handles'
      BY <1>2, <1>3, <1>4, <1>6, <1>7, <2>1 DEF Kinds, HistoryType
  <2> HIDE DEF h, g
  <2> QED BY <1>1, <1>3, <1>7, <2>2, LookBegins
<1>9. Kinds'
  <2>1. RecordsType'
      BY <1>1, <1>2, <1>4 DEF RecordsType
  <2>2. watch' \in 1 .. Len(Watches) + 1
      BY <1>1, <1>4 DEF HistoryType
  <2>3. /\ DOMAIN baselines' \subseteq DOMAIN handles
        /\ baselines' \in [DOMAIN baselines' -> [seen : Seq(Int), status : Statuses]]
      BY <1>1, <1>4 DEF HistoryType, Kinds
  <2> QED BY <1>1, <1>8, <2>1, <2>2, <2>3, QuietStep
<1>10. Position'
    BY <1>1, <1>2, <1>3, <1>5 DEF Position
<1>11. WatchesRecorded'
    BY <1>1, <1>2 DEF WatchesRecorded
<1>12. ReportFits' /\ EventsOwned'
    BY <1>1, <1>2 DEF ReportFits, EventsOwned
<1>13. Blamed => Blamed'
  <2>1. records' = records \cup {}
      BY <1>1
  <2> QED BY <1>1, <1>2, <2>1, BlameKept
<1>14. SteadyInv'
    BY <1>2, <1>3, <1>8, <1>13 DEF SteadyInv
<1> QED BY <1>3, <1>8, <1>9, <1>10, <1>11, <1>12, <1>14

(* An observation ends and is recorded: what it has in common for every    *)
(* declaration.                                                            *)
LEMMA JudgeKeeps ==
  ASSUME IInv, NEW new, records' = records \cup new,
         Looked("observe"), watch' = watch + 1, look' = NoLook, pc' = "watch",
         NotCalled, UNCHANGED <<plan, mode, case, memory, failed, report>>,
         new \subseteq [case : DOMAIN plan, declaration : Declarations, result : Verdicts],
         \E r \in new : r.case = case /\ r.declaration = Watched.declaration,
         Steady(mode) /\ (Exact(mode) \/ WatchesEmptiness) =>
           \A r \in new : r.result = "challenges" => r.declaration \in Breaks(mode)
  PROVE  IInv'
<1> USE DEF IInv
<1>1. /\ pc = "observe" /\ look.status \notin {"none", "going"} /\ Quiet
      /\ baselines' = baselines
      /\ forbidden' = forbidden /\ failed' = failed /\ outcomes' = outcomes /\ result' = result
    BY DEF Looked, NotCalled, memory, report, Quiet
<1>2. plan' = plan /\ mode' = mode /\ adapter' = adapter /\ case' = case /\ handles' = handles /\ states' = states
    BY <1>1 DEF Quiet
<1>3. /\ Steps' = Steps /\ Watches' = Watches /\ At' = At /\ Step' = Step
      /\ StatesPlanned' /\ (HandlesFit => HandlesFit') /\ (BaselinesFit => BaselinesFit')
    BY <1>1, QuietKeeps
<1>4. HistoryType /\ LookType /\ RecordsType
    BY TypeParts DEF Kinds
<1>5. watch + 1 \in 1 .. Len(Watches) + 1
  <2>1. Watches \in Seq(WatchSet) /\ Len(Watches) \in Nat
      BY CaseFacts DEF SoundCase
  <2>2. watch \in DOMAIN Watches
      BY <1>1 DEF Position
  <2> QED BY <2>1, <2>2
<1>6. LookType' /\ look' \in LookSet /\ LookPlaced' /\ LookFits'
  <2>1. Given(mode', adapter') \in Nat
      BY <1>2, CaseFacts
  <2> QED BY <2>1, LookEnds
<1>7. Kinds'
  <2>1. RecordsType'
      BY <1>1, <1>2, <1>4 DEF RecordsType
  <2>2. /\ DOMAIN baselines' \subseteq DOMAIN handles
        /\ baselines' \in [DOMAIN baselines' -> [seen : Seq(Int), status : Statuses]]
      BY <1>1, <1>4 DEF HistoryType, Kinds
  <2> QED BY <1>1, <1>5, <1>6, <2>1, <2>2, QuietStep
<1>8. Position'
    BY <1>1, <1>2, <1>3 DEF Position
<1>9. WatchesRecorded'
    BY <1>2, WatchAdded
<1>10. ReportFits' /\ EventsOwned'
    BY <1>1, <1>2 DEF ReportFits, EventsOwned
<1>11. Steady(mode) => Blamed'
    BY <1>1, <1>2, BlameKept DEF SteadyInv
<1>12. SteadyInv'
    BY <1>2, <1>3, <1>6, <1>11 DEF SteadyInv
<1> QED BY <1>3, <1>6, <1>7, <1>8, <1>9, <1>10, <1>12

(* Persistence is judged against the baseline.                             *)
LEMMA JudgePersistenceKeeps == IInv /\ JudgePersistence => IInv'
<1> SUFFICES ASSUME IInv, JudgePersistence PROVE IInv'
    OBVIOUS
<1> DEFINE made == Record("persistence", PersistenceVerdict)
           new == {made}
           b == baselines[Watched.on]
<1>1. /\ Looked("observe") /\ Watched.declaration = "persistence" /\ records' = records \cup new
      /\ watch' = watch + 1 /\ look' = NoLook /\ pc' = "watch"
      /\ NotCalled /\ UNCHANGED <<plan, mode, case, memory, failed, report>>
    BY DEF JudgePersistence
<1>2. Kinds /\ Position /\ StatesPlanned /\ LookPlaced /\ SteadyInv
    BY DEF IInv
<1>3. PersistenceVerdict \in Verdicts
    BY DEF PersistenceVerdict, Verdicts
<1>4. /\ made \in [case : DOMAIN plan, declaration : Declarations, result : Verdicts]
      /\ made.case = case /\ made.declaration = "persistence" /\ made.result = PersistenceVerdict
  <2>1. case \in DOMAIN plan /\ "persistence" \in Declarations
      BY <1>2, TypeParts DEF HistoryType, Kinds, Declarations
  <2> QED BY <1>3, <2>1, RecordType
<1>5. Steady(mode) => PersistenceVerdict # "challenges"
  <2> SUFFICES ASSUME Steady(mode), Watched.on \in DOMAIN baselines, b.status = "complete"
               PROVE  look.status = "complete" /\ look.seen = b.seen
      BY DEF PersistenceVerdict
  <2>1. LookedAt = Watched.on /\ look.status \notin {"none", "going"}
      BY <1>1 DEF LookedAt, Looked
  <2>2. /\ Stops(mode) /\ b.seen = Told(mode, Contents(mode, adapter, handles[Watched.on]))
        /\ Len(b.seen) = Len(TopFirst(Steps)[Watched.on])
      BY <1>2 DEF SteadyInv, BaselinesFit
  <2>3. look.goal = TopFirst(Steps)[Watched.on]
      BY <1>2, <2>1 DEF LookPlaced
  <2>4. /\ look.seen = Told(mode, Contents(mode, adapter, handles[Watched.on]))
        /\ look.status = IF Len(look.seen) = Len(look.goal) THEN "complete" ELSE "early-none"
      BY <1>2, <2>1, <2>2 DEF SteadyInv, LookFits, Stops
  <2> HIDE DEF b
  <2> QED BY <2>2, <2>3, <2>4
<1>6. /\ new \subseteq [case : DOMAIN plan, declaration : Declarations, result : Verdicts]
      /\ \E r \in new : r.case = case /\ r.declaration = Watched.declaration
      /\ Steady(mode) => \A r \in new : r.result = "challenges" => r.declaration \in Breaks(mode)
  <2> HIDE DEF made
  <2> QED BY <1>1, <1>4, <1>5
<1> HIDE DEF new
<1> QED BY <1>1, <1>6, JudgeKeeps

(* The other declarations are judged against the plan.                     *)
LEMMA JudgeContentsKeeps == IInv /\ JudgeContents => IInv'
<1> SUFFICES ASSUME IInv, JudgeContents PROVE IInv'
    OBVIOUS
<1> DEFINE new == ContentsRecords
           d == Watched.declaration
           wrong == look.status = "early-none" \/ look.seen # look.goal
<1>1. /\ Looked("observe") /\ d # "persistence" /\ records' = records \cup new
      /\ watch' = watch + 1 /\ look' = NoLook /\ pc' = "watch"
      /\ NotCalled /\ UNCHANGED <<plan, mode, case, memory, failed, report>>
    BY DEF JudgeContents
<1>2. Kinds /\ Position /\ StatesPlanned /\ LookPlaced /\ SteadyInv
    BY DEF IInv
<1>3. pc = "observe" /\ look.status \notin {"none", "going"}
    BY <1>1 DEF Looked
<1>4. watch \in 1 .. Len(Watches) /\ d # "stack-effects" /\ watch \in DOMAIN Watches
  <2>1. Watches \in Seq(WatchSet) /\ Len(Watches) \in Nat
      BY <1>2, CaseFacts DEF SoundCase
  <2> QED BY <1>2, <1>3, <2>1 DEF Position
<1>5. d \in {"pop-empty", "pop-push"}
  <2>1. d \in Declarations
      BY <1>2, <1>3, <1>4, NextWatch
  <2> HIDE DEF d
  <2> QED BY <1>1, <1>4, <2>1 DEF Declarations, d
<1>6. case \in DOMAIN plan
    BY <1>2, TypeParts DEF HistoryType, Kinds
<1> DEFINE full(x) == /\ x \in [case : DOMAIN plan, declaration : Declarations, result : Verdicts]
                      /\ x.case = case
<1>7. \A e \in Declarations, v \in Verdicts :
        full(Record(e, v)) /\ Record(e, v).declaration = e /\ Record(e, v).result = v
    BY <1>6, RecordType
<1>8. /\ OnlyTail /\ d = "pop-empty" => new = {Record("pop-empty", "challenges")}
      /\ OnlyTail /\ d # "pop-empty" => new = {Record("pop-empty", "challenges"), Record(d, "inconclusive")}
      /\ ~OnlyTail /\ wrong => new = {Record(d, "challenges")}
      /\ ~OnlyTail /\ ~wrong => new = {Record(d, "supports")}
    BY DEF ContentsRecords, Record
<1> HIDE DEF new, d, wrong, full
<1>9. d \in Declarations /\ "pop-empty" \in Declarations /\ {"challenges", "inconclusive", "supports"} \subseteq Verdicts
    BY <1>5 DEF Declarations, Verdicts
<1>10. /\ \A r \in new : full(r)
       /\ \E r \in new : r.declaration = d
       /\ \A r \in new : r.result = "challenges" =>
            \/ OnlyTail /\ r.declaration = "pop-empty"
            \/ ~OnlyTail /\ wrong /\ r.declaration = d
  <2>1. CASE OnlyTail /\ d = "pop-empty"
      BY <1>7, <1>8, <1>9, <2>1
  <2>2. CASE OnlyTail /\ d # "pop-empty"
      BY <1>7, <1>8, <1>9, <2>2
  <2>3. CASE ~OnlyTail /\ wrong
      BY <1>7, <1>8, <1>9, <2>3
  <2>4. CASE ~OnlyTail /\ ~wrong
      BY <1>7, <1>8, <1>9, <2>4
  <2> QED BY <2>1, <2>2, <2>3, <2>4
<1>11. ASSUME Steady(mode), Exact(mode) \/ WatchesEmptiness, NEW r \in new, r.result = "challenges"
       PROVE  r.declaration \in Breaks(mode)
  <2>1. /\ OnlyTail => "pop-empty" \in Breaks(mode)
        /\ Exact(mode) /\ ~OnlyTail => look.status = "complete" /\ look.seen = look.goal
        /\ "pop-empty" \notin Breaks(mode) /\ look.goal = <<>> =>
             look.status = "complete" /\ look.seen = look.goal
      BY <1>2, <1>3, <1>11, LookTells DEF SteadyInv
  <2>2. ~Exact(mode) => "pop-push" \in Breaks(mode)
      BY <1>11, WhatBreaks
  <2>3. WatchesEmptiness /\ d = "pop-empty" => look.goal = <<>>
    <3>1. LookedAt = Watched.on
        BY <1>3 DEF LookedAt
    <3>2. look.goal = TopFirst(Steps)[Watched.on]
        BY <1>2, <1>3, <3>1 DEF LookPlaced
    <3>3. WatchesEmptiness /\ Watched.declaration = "pop-empty" => TopFirst(Steps)[Watched.on] = <<>>
        BY <1>4, <1>6 DEF WatchesEmptiness, Steps, Watches, Watched
    <3> QED BY <3>2, <3>3 DEF d
  <2>4. wrong => ~(look.status = "complete" /\ look.seen = look.goal)
      BY DEF wrong
  <2> QED BY <1>5, <1>10, <1>11, <2>1, <2>2, <2>3, <2>4
<1>12. /\ new \subseteq [case : DOMAIN plan, declaration : Declarations, result : Verdicts]
       /\ \E r \in new : r.case = case /\ r.declaration = Watched.declaration
    BY <1>10 DEF full, d
<1> QED BY <1>1, <1>11, <1>12, JudgeKeeps

(* The campaign is not over while it is calling.                           *)
LEMMA CallingOpen == Kinds /\ Calling => pc \notin {"summary", "done", "watch"}
<1> SUFFICES ASSUME Kinds, Calling PROVE pc \notin {"summary", "done", "watch"}
    OBVIOUS
<1>1. look.status = "going" \/ pc = "step"
    BY DEF Calling, Ready, InHistory
<1>2. LookType
    BY TypeParts DEF Kinds
<1> QED BY <1>1, <1>2 DEF LookType

(* The session fails.                                                      *)
LEMMA SessionFailsKeeps == IInv /\ SessionFails => IInv'
<1> SUFFICES ASSUME IInv, SessionFails PROVE IInv'
    OBVIOUS
<1> USE DEF IInv
<1>1. /\ look' = NoLook /\ failed' = "session" /\ pc' = "summary" /\ Quiet
      /\ watch' = watch /\ baselines' = baselines /\ records' = records
      /\ forbidden' \in {forbidden, forbidden \/ ReportsForbidden(mode)}
      /\ outcomes' = outcomes /\ result' = result
    BY DEF SessionFails, memory, report, Quiet
<1>2. plan' = plan /\ mode' = mode /\ adapter' = adapter /\ case' = case /\ handles' = handles /\ states' = states
    BY <1>1 DEF Quiet
<1>3. /\ Steps' = Steps /\ Watches' = Watches /\ At' = At /\ Step' = Step
      /\ StatesPlanned' /\ (HandlesFit => HandlesFit') /\ (BaselinesFit => BaselinesFit')
    BY <1>1, QuietKeeps
<1>4. HistoryType /\ LookType /\ RecordsType
    BY TypeParts DEF Kinds
<1>5. pc # "done"
    BY CallingOpen DEF SessionFails
<1>6. forbidden' \in BOOLEAN /\ (forbidden' => forbidden \/ mode = "forbidden-event")
    BY <1>1, <1>4 DEF RecordsType, ReportsForbidden
<1>7. LookType' /\ look' \in LookSet /\ LookPlaced' /\ LookFits'
  <2>1. Given(mode', adapter') \in Nat
      BY <1>2, CaseFacts
  <2> QED BY <1>1, <2>1, LookEnds
<1>8. Kinds'
  <2>1. RecordsType'
      BY <1>1, <1>2, <1>4, <1>6 DEF RecordsType
  <2>2. watch' \in 1 .. Len(Watches) + 1
      BY <1>1, <1>4 DEF HistoryType
  <2>3. /\ DOMAIN baselines' \subseteq DOMAIN handles
        /\ baselines' \in [DOMAIN baselines' -> [seen : Seq(Int), status : Statuses]]
      BY <1>1, <1>4 DEF HistoryType, Kinds
  <2> QED BY <1>1, <1>7, <2>1, <2>2, <2>3, QuietStep
<1>9. Position'
    BY <1>1 DEF Position
<1>10. WatchesRecorded'
    BY <1>1, <1>2 DEF WatchesRecorded
<1>11. ReportFits' /\ EventsOwned'
    BY <1>1, <1>2, <1>5, <1>6 DEF ReportFits, EventsOwned
<1>12. Blamed => Blamed'
  <2>1. records' = records \cup {}
      BY <1>1
  <2> QED BY <1>2, <1>6, <2>1, BlameKept
<1>13. SteadyInv'
    BY <1>2, <1>3, <1>7, <1>12 DEF SteadyInv
<1> QED BY <1>3, <1>7, <1>8, <1>9, <1>10, <1>11, <1>13

(* The report is made.                                                     *)
LEMMA ReportKeeps == IInv /\ Report => IInv'
<1> SUFFICES ASSUME IInv, Report PROVE IInv'
    OBVIOUS
<1> USE DEF IInv
<1>1. /\ pc = "summary" /\ pc' = "done" /\ Quiet /\ look' = look
      /\ watch' = watch /\ baselines' = baselines /\ records' = records
      /\ forbidden' = forbidden /\ failed' = failed
      /\ outcomes' = [d \in Declarations |-> Outcome(d)] /\ result' = Summary(outcomes')
    BY DEF Report, memory, Quiet
<1>2. plan' = plan /\ mode' = mode /\ adapter' = adapter /\ case' = case /\ handles' = handles /\ states' = states
    BY <1>1 DEF Quiet
<1>3. /\ Steps' = Steps /\ Watches' = Watches /\ At' = At /\ Step' = Step
      /\ StatesPlanned' /\ (HandlesFit => HandlesFit') /\ (BaselinesFit => BaselinesFit')
    BY <1>1, QuietKeeps
<1>4. HistoryType /\ LookType /\ RecordsType
    BY TypeParts DEF Kinds
<1>5. look.status = "none"
    BY <1>1, <1>4 DEF LookType
<1>6. result' \in Verdicts \cup {"none", "error"}
    BY <1>1 DEF Summary, Verdicts
<1>7. Kinds'
  <2>1. LookType' /\ RecordsType'
      BY <1>1, <1>2, <1>4, <1>5, <1>6 DEF LookType, RecordsType
  <2>2. look' \in LookSet /\ watch' \in 1 .. Len(Watches) + 1
      BY <1>1, <1>4 DEF LookSet, Kinds, HistoryType
  <2>3. /\ DOMAIN baselines' \subseteq DOMAIN handles
        /\ baselines' \in [DOMAIN baselines' -> [seen : Seq(Int), status : Statuses]]
      BY <1>1, <1>4 DEF HistoryType, Kinds
  <2> QED BY <1>1, <2>1, <2>2, <2>3, QuietStep
<1>8. Position'
    BY <1>1, <1>2, <1>3 DEF Position
<1>9. LookPlaced' /\ LookFits'
    BY <1>1, <1>5 DEF LookPlaced, LookFits
<1>10. WatchesRecorded'
    BY <1>1, <1>2 DEF WatchesRecorded
<1>11. ReportFits'
    BY <1>1 DEF ReportFits, Outcome, Summary
<1>12. EventsOwned'
    BY <1>1, <1>2 DEF EventsOwned
<1>13. Blamed => Blamed'
  <2>1. records' = records \cup {}
      BY <1>1
  <2> QED BY <1>1, <1>2, <2>1, BlameKept
<1>14. SteadyInv'
    BY <1>2, <1>3, <1>9, <1>13 DEF SteadyInv
<1> QED BY <1>3, <1>7, <1>8, <1>9, <1>10, <1>11, <1>12, <1>14

(* A case ends, and the next begins or the report is due.                  *)
LEMMA CaseDoneKeeps == IInv /\ CaseDone => IInv'
<1> SUFFICES ASSUME IInv, CaseDone PROVE IInv'
    OBVIOUS
<1> USE DEF IInv
<1>1. /\ pc = "watch" /\ watch > Len(Watches)
      /\ plan' = plan /\ mode' = mode /\ adapter' = adapter /\ look' = look /\ records' = records
      /\ forbidden' = forbidden /\ failed' = failed /\ outcomes' = outcomes /\ result' = result
    BY DEF CaseDone, NotCalled, report
<1>2. HistoryType /\ LookType /\ RecordsType
    BY TypeParts DEF Kinds
<1>3. look.status = "none" /\ failed = "no"
    BY <1>1, <1>2 DEF LookType, Position, RecordsType
<1>4. Blamed => Blamed'
  <2>1. records' = records \cup {}
      BY <1>1
  <2> QED BY <1>1, <2>1, BlameKept
<1>5. LookPlaced' /\ LookFits'
    BY <1>1, <1>3 DEF LookPlaced, LookFits
<1>6. CASE case = Len(plan)
  <2>1. pc' = "summary" /\ Quiet /\ watch' = watch /\ baselines' = baselines
      BY <1>1, <1>6 DEF CaseDone, memory, Quiet
  <2>2. case' = case /\ handles' = handles /\ states' = states
      BY <2>1 DEF Quiet
  <2>3. /\ Steps' = Steps /\ Watches' = Watches /\ At' = At /\ Step' = Step
        /\ StatesPlanned' /\ (HandlesFit => HandlesFit') /\ (BaselinesFit => BaselinesFit')
      BY <2>1, QuietKeeps
  <2>4. Kinds'
    <3>1. LookType' /\ RecordsType'
        BY <1>1, <1>2, <1>3, <2>1 DEF LookType, RecordsType
    <3>2. look' \in LookSet /\ watch' \in 1 .. Len(Watches) + 1
        BY <1>1, <1>2, <2>1 DEF LookSet, Kinds, HistoryType
    <3>3. /\ DOMAIN baselines' \subseteq DOMAIN handles
          /\ baselines' \in [DOMAIN baselines' -> [seen : Seq(Int), status : Statuses]]
        BY <1>2, <2>1 DEF HistoryType, Kinds
    <3> QED BY <2>1, <3>1, <3>2, <3>3, QuietStep
  <2>5. Position'
      BY <1>1, <1>6, <2>1, <2>2, <2>3 DEF Position
  <2>6. WatchesRecorded'
      BY <1>1, <2>1, <2>2 DEF WatchesRecorded
  <2>7. ReportFits' /\ EventsOwned'
      BY <1>1, <2>1 DEF ReportFits, EventsOwned
  <2>8. SteadyInv'
      BY <1>1, <1>4, <1>5, <2>3 DEF SteadyInv
  <2> QED BY <1>5, <2>3, <2>4, <2>5, <2>6, <2>7, <2>8
<1>7. CASE case # Len(plan)
  <2>1. /\ pc' = "step" /\ case' = case + 1 /\ watch' = 1
        /\ handles' = <<>> /\ states' = <<>> /\ baselines' = <<>>
      BY <1>7 DEF CaseDone
  <2>2. plan \in Seq(CaseSet) /\ Len(plan) \in Nat /\ case \in 1 .. Len(plan)
      BY CaseFacts
  <2>3. case' \in DOMAIN plan'
      BY <1>1, <1>7, <2>1, <2>2
  <2>4. SoundCase(Steps', Watches')
    <3>1. plan' \in Plans
        BY <1>1 DEF Kinds
    <3>2. SoundCase(plan'[case'].steps, plan'[case'].watches)
        BY <2>3, <3>1, CasesSound
    <3> QED BY <3>2 DEF Steps, Watches
  <2>5. Len(Steps') \in Nat /\ Len(Watches') \in Nat
      BY <2>4 DEF SoundCase
  <2>6. Kinds'
    <3>1. HistoryType'
      <4>1. /\ DOMAIN states' = DOMAIN handles' /\ DOMAIN baselines' \subseteq DOMAIN handles'
            /\ DOMAIN handles' = {} /\ Len(handles') <= Len(Steps') /\ watch' \in 1 .. Len(Watches') + 1
          BY <2>1, <2>5
      <4> QED BY <2>3, <4>1 DEF HistoryType
    <3>2. LookType' /\ RecordsType'
        BY <1>1, <1>2, <1>3, <2>1 DEF LookType, RecordsType
    <3>3. TypeOK'
        BY <3>1, <3>2, TypeParts
    <3>4. AdapterOK(mode', adapter') /\ plan' \in Plans
        BY <1>1 DEF Kinds
    <3>5. look' = look /\ look \in LookSet
        BY <1>1 DEF Kinds, LookSet
    <3>6. baselines' \in [DOMAIN baselines' -> [seen : Seq(Int), status : Statuses]]
        BY <2>1
    <3>7. handles' \in Seq(Nat) /\ states' \in Seq(Seq(Int)) /\ Len(states') = Len(handles') /\ watch' \in Nat
        BY <2>1
    <3> QED BY <3>3, <3>4, <3>5, <3>6, <3>7 DEF Kinds, LookSet
  <2>7. Position'
      BY <1>1, <1>3, <2>1 DEF Position
  <2>8. StatesPlanned'
      BY <2>1 DEF StatesPlanned
  <2>9. WatchesRecorded'
    <3>1. ASSUME NEW c \in DOMAIN plan, NEW w \in DOMAIN plan[c].watches,
                 c < case + 1 \/ (c = case + 1 /\ w < 1)
          PROVE  \E r \in records : r.case = c /\ r.declaration = plan[c].watches[w].declaration
      <4>1. SoundCase(plan[c].steps, plan[c].watches)
          BY CasesSound DEF Kinds
      <4>2. w \in 1 .. Len(plan[c].watches) /\ Len(plan[c].watches) \in Nat /\ c \in Nat
          BY <2>2, <4>1 DEF SoundCase
      <4>3. c < case \/ (c = case /\ w < watch)
        <5>1. c = case => Len(plan[c].watches) < watch
            BY <1>1 DEF Watches
        <5> DEFINE n == Len(plan[c].watches)
        <5>2. watch \in Nat
            BY DEF Kinds
        <5> HIDE DEF n
        <5> QED BY <2>2, <3>1, <4>2, <5>1, <5>2 DEF n
      <4> QED BY <4>3 DEF WatchesRecorded
    <3> QED BY <1>1, <2>1, <3>1 DEF WatchesRecorded
  <2>10. ReportFits' /\ EventsOwned'
      BY <1>1, <2>1 DEF ReportFits, EventsOwned
  <2>11. HandlesFit' /\ BaselinesFit'
      BY <2>1 DEF HandlesFit, BaselinesFit
  <2>12. SteadyInv'
      BY <1>1, <1>4, <1>5, <2>11 DEF SteadyInv
  <2> QED BY <1>5, <2>6, <2>7, <2>8, <2>9, <2>10, <2>12
<1> QED BY <1>6, <1>7

(* What the next step is planned to bind.                                  *)
LEMMA PlannedNext ==
  ASSUME Kinds, StatesPlanned, At <= Len(Steps)
  PROVE  /\ TopFirst(Steps)[At] \in Seq(Int)
         /\ Step.op = "empty" => TopFirst(Steps)[At] = <<>>
         /\ Step.op = "push" => TopFirst(Steps)[At] = <<Step.value>> \o states[Step.source]
         /\ Step.op = "pop" => TopFirst(Steps)[At] = Rest
<1> DEFINE t == TopFirst(Steps)
<1>1. At \in 1 .. Len(Steps) /\ (Step.op # "empty" => Step.source \in 1 .. Len(handles))
  <2>1. /\ Step.op # "empty" => Step.source # 0
        /\ Step.source # 0 => Step.source \in 1 .. Len(handles)
      BY NextStep
  <2> QED BY <2>1, NextStep
<1>2. t[At] = Bound(Steps, t, At) /\ t[At] \in Seq(Int)
    BY <1>1, CaseFacts
<1>3. Step.op # "empty" => states[Step.source] = t[Step.source]
  <2>1. DOMAIN states = DOMAIN handles /\ DOMAIN handles = 1 .. Len(handles)
      BY CaseFacts, TypeParts DEF Kinds, HistoryType
  <2> QED BY <1>1, <2>1 DEF StatesPlanned
<1> HIDE DEF t
<1>4. Step.op = "empty" => t[At] = <<>>
    BY <1>2 DEF Bound, Step
<1>5. Step.op = "push" => t[At] = <<Step.value>> \o states[Step.source]
    BY <1>2, <1>3 DEF Bound, Step
<1>6. Step.op = "pop" => t[At] = Rest
    BY <1>2, <1>3 DEF Bound, Step, Rest, Source
<1> QED BY <1>2, <1>4, <1>5, <1>6 DEF t

(* A step binds what it is planned to.                                     *)
LEMMA BindKeeps ==
  ASSUME Kinds, StatesPlanned, At <= Len(Steps),
         plan' = plan, mode' = mode, case' = case, watch' = watch, baselines' = baselines,
         AdapterOK(mode, adapter'), Given(mode, adapter') \in Nat,
         Given(mode, adapter) <= Given(mode, adapter'),
         NEW h \in 0 .. Given(mode, adapter'), NEW c, c = TopFirst(Steps)[At], Bind(h, c),
         LookType', look' \in LookSet, RecordsType'
  PROVE  /\ Kinds' /\ StatesPlanned' /\ Steps' = Steps /\ Watches' = Watches
         /\ Len(handles') = At /\ DOMAIN handles' = 1 .. At /\ At \in 1 .. Len(Steps)
         /\ handles'[At] = h /\ states'[At] = c
         /\ \A i \in 1 .. Len(handles) : handles'[i] = handles[i] /\ states'[i] = states[i]
<1>1. Steps' = Steps /\ Watches' = Watches
    BY DEF Steps, Watches
<1> DEFINE t == TopFirst(Steps)
           n == Len(handles)
<1>2. c \in Seq(Int) /\ At \in 1 .. Len(Steps) /\ At = n + 1 /\ n \in Nat
    BY PlannedNext, NextStep, CaseFacts
<1>3. /\ handles \in Seq(Nat) /\ states \in Seq(Seq(Int)) /\ Len(states) = n
      /\ handles' = Append(handles, h) /\ states' = Append(states, c) /\ h \in Nat
    BY DEF Kinds, Bind
<1>4. /\ handles' \in Seq(Nat) /\ Len(handles') = n + 1 /\ DOMAIN handles' = 1 .. n + 1
      /\ handles'[n + 1] = h /\ \A i \in 1 .. n : handles'[i] = handles[i]
    BY <1>2, <1>3
<1>5. /\ states' \in Seq(Seq(Int)) /\ Len(states') = n + 1 /\ DOMAIN states' = 1 .. n + 1
      /\ states'[n + 1] = c /\ \A i \in 1 .. n : states'[i] = states[i]
    BY <1>2, <1>3
<1>6. HistoryType /\ LookType /\ RecordsType
    BY TypeParts DEF Kinds
<1>7. \A i \in DOMAIN states : states[i] = t[i]
    BY DEF StatesPlanned
<1>8. DOMAIN states = 1 .. n /\ DOMAIN handles = 1 .. n
    BY <1>2, <1>3
<1> HIDE DEF n, t
<1>9. \A i \in 1 .. n + 1 : i = n + 1 \/ i \in 1 .. n
    BY <1>2
<1>10. StatesPlanned'
  <2>1. \A i \in DOMAIN states' : states'[i] = t[i]
      BY <1>2, <1>5, <1>7, <1>8, <1>9 DEF t
  <2> QED BY <1>1, <2>1 DEF StatesPlanned, t
<1>11. HistoryType'
  <2>1. \A i \in DOMAIN handles' : handles'[i] \in 0 .. Given(mode, adapter')
    <3>1. \A i \in 1 .. n : handles[i] \in 0 .. Given(mode, adapter) /\ Given(mode, adapter) \in Nat
        BY <1>6, <1>8, CaseFacts DEF HistoryType
    <3> QED BY <1>4, <1>9, <3>1
  <2>2. DOMAIN baselines' \subseteq DOMAIN handles'
      BY <1>2, <1>4, <1>6, <1>8 DEF HistoryType
  <2>3. Len(handles') <= Len(Steps)
      BY <1>2, <1>4
  <2> QED BY <1>1, <1>4, <1>5, <1>6, <2>1, <2>2, <2>3 DEF HistoryType
<1>12. Kinds'
  <2>1. TypeOK'
      BY <1>11, TypeParts
  <2> QED BY <1>4, <1>5, <2>1 DEF Kinds, LookSet
<1>13. Len(handles') = At /\ DOMAIN handles' = 1 .. At /\ handles'[At] = h /\ states'[At] = c
    BY <1>2, <1>4, <1>5
<1> QED BY <1>1, <1>2, <1>4, <1>5, <1>10, <1>12, <1>13 DEF n

(* And what fits still does.                                               *)
LEMMA BindFits ==
  ASSUME Kinds, HandlesFit, BaselinesFit, plan' = plan, mode' = mode, case' = case, baselines' = baselines,
         Retains(mode, adapter, adapter'), NEW h, NEW c,
         DOMAIN handles' = 1 .. At, handles'[At] = h, states'[At] = c,
         \A i \in 1 .. Len(handles) : handles'[i] = handles[i] /\ states'[i] = states[i],
         h # 0 => Fits(mode, Contents(mode, adapter', h), c)
  PROVE  HandlesFit' /\ BaselinesFit'
<1>1. Steps' = Steps
    BY DEF Steps
<1>2. /\ At = Len(handles) + 1 /\ Len(handles) \in Nat /\ DOMAIN handles = 1 .. Len(handles)
      /\ Given(mode, adapter) \in Nat
    BY CaseFacts
<1>3. HistoryType
    BY TypeParts DEF Kinds
<1>4. \A i \in 1 .. Len(handles) : handles[i] # 0 =>
        Contents(mode, adapter', handles[i]) = Contents(mode, adapter, handles[i])
  <2>1. \A i \in 1 .. Len(handles) : handles[i] # 0 => handles[i] \in 1 .. Given(mode, adapter)
      BY <1>2, <1>3 DEF HistoryType
  <2> QED BY <2>1 DEF Retains
<1>5. \A i \in 1 .. At : i = At \/ i \in 1 .. Len(handles)
    BY <1>2
<1>6. HandlesFit'
  <2>1. ASSUME NEW i \in 1 .. At, handles'[i] # 0
        PROVE  Fits(mode, Contents(mode, adapter', handles'[i]), states'[i])
    <3>1. CASE i = At
        BY <2>1, <3>1
    <3>2. CASE i \in 1 .. Len(handles)
      <4>1. Fits(mode, Contents(mode, adapter, handles[i]), states[i])
          BY <1>2, <2>1, <3>2 DEF HandlesFit
      <4> QED BY <1>4, <2>1, <3>2, <4>1
    <3> QED BY <1>5, <3>1, <3>2
  <2> QED BY <2>1 DEF HandlesFit
<1>7. BaselinesFit'
  <2>1. ASSUME NEW b \in DOMAIN baselines
        PROVE  /\ handles'[b] # 0
               /\ baselines[b].status = "complete" =>
                    /\ Stops(mode)
                    /\ baselines[b].seen = Told(mode, Contents(mode, adapter', handles'[b]))
                    /\ Len(baselines[b].seen) = Len(TopFirst(Steps)[b])
    <3>1. b \in 1 .. Len(handles)
        BY <1>2, <1>3 DEF HistoryType
    <3>2. handles'[b] = handles[b] /\ handles[b] # 0
        BY <3>1 DEF BaselinesFit
    <3>3. Contents(mode, adapter', handles'[b]) = Contents(mode, adapter, handles[b])
        BY <1>4, <3>1, <3>2
    <3> QED BY <3>2, <3>3 DEF BaselinesFit
  <2> QED BY <1>1, <2>1 DEF BaselinesFit
<1> QED BY <1>6, <1>7

(* What the adapter holds after a step is of its type, and as much.        *)
Grows ==
  /\ AdapterOK(mode, adapter') /\ Given(mode, adapter') \in Nat
  /\ Given(mode, adapter) <= Given(mode, adapter')

(* A step of the history keeps the invariant, whatever it is.              *)
LEMMA HistoryStep ==
  ASSUME IInv, InHistory, UNCHANGED <<plan, mode, case, watch, baselines, failed, report>>,
         forbidden' \in BOOLEAN, forbidden' => forbidden \/ mode = "forbidden-event",
         NEW h, NEW c, c = TopFirst(Steps)[At], Bind(h, c), Grows, h \in 0 .. Given(mode, adapter'),
         \/ pc' = pc /\ look' = look
         \/ /\ pc' = "remainder" /\ h # 0
            /\ look' = [at |-> h, goal |-> c, seen |-> <<>>, status |-> "going"],
         NEW new, records' = records \cup new,
         new \subseteq [case : DOMAIN plan, declaration : Declarations, result : Verdicts],
         Steady(mode) =>
           /\ Retains(mode, adapter, adapter')
           /\ h # 0 => Fits(mode, Contents(mode, adapter', h), c)
           /\ \A r \in new : r.result = "challenges" => r.declaration \in Breaks(mode)
  PROVE  IInv'
<1> USE DEF IInv
<1>1. /\ pc = "step" /\ At <= Len(Steps)
      /\ plan' = plan /\ mode' = mode /\ case' = case /\ watch' = watch /\ baselines' = baselines
      /\ failed' = failed /\ outcomes' = outcomes /\ result' = result
    BY DEF InHistory, report
<1>2. AdapterOK(mode, adapter') /\ Given(mode, adapter') \in Nat /\ Given(mode, adapter) <= Given(mode, adapter')
    BY DEF Grows
<1>3. HistoryType /\ LookType /\ RecordsType
    BY TypeParts DEF Kinds
<1>4. look.status = "none" /\ Given(mode, adapter) \in Nat
    BY <1>1, <1>3, CaseFacts DEF LookType
<1>5. RecordsType'
    BY <1>1, <1>3 DEF RecordsType
<1>6. ASSUME LookType', look' \in LookSet
      PROVE  /\ Kinds' /\ StatesPlanned' /\ Steps' = Steps /\ Watches' = Watches
             /\ Len(handles') = At /\ DOMAIN handles' = 1 .. At /\ At \in 1 .. Len(Steps)
             /\ handles'[At] = h /\ states'[At] = c
             /\ \A i \in 1 .. Len(handles) : handles'[i] = handles[i] /\ states'[i] = states[i]
  <2>1. h \in 0 .. Given(mode, adapter') /\ c = TopFirst(Steps)[At] /\ Bind(h, c)
      OBVIOUS
  <2> QED BY <1>1, <1>2, <1>5, <1>6, <2>1, BindKeeps
<1>7. ASSUME LookType', look' \in LookSet, Steady(mode)
      PROVE  HandlesFit' /\ BaselinesFit' /\ Blamed'
  <2>1. HandlesFit /\ BaselinesFit /\ Blamed
      BY <1>7 DEF SteadyInv
  <2>2. Retains(mode, adapter, adapter') /\ (h # 0 => Fits(mode, Contents(mode, adapter', h), c))
      BY <1>7
  <2>3. HandlesFit' /\ BaselinesFit'
      BY <1>1, <1>6, <1>7, <2>1, <2>2, BindFits
  <2>4. Blamed'
      BY <1>1, <1>7, <2>1, BlameKept
  <2> QED BY <2>3, <2>4
<1>8. WatchesRecorded'
    BY <1>1 DEF WatchesRecorded
<1>9. EventsOwned'
    BY <1>1 DEF EventsOwned
<1>10. At \in Nat
    BY CaseFacts
<1>11. CASE pc' = pc /\ look' = look
  <2>1. LookType' /\ look' \in LookSet
    <3>1. LookType'
        BY <1>1, <1>2, <1>3, <1>4, <1>11 DEF LookType
    <3>2. look' \in LookSet
        BY <1>11 DEF Kinds, LookSet
    <3> QED BY <3>1, <3>2
  <2>2. LookPlaced' /\ LookFits'
      BY <1>4, <1>11 DEF LookPlaced, LookFits
  <2>3. Position'
      BY <1>1, <1>11 DEF Position
  <2>4. ReportFits'
      BY <1>1, <1>11 DEF ReportFits
  <2>5. SteadyInv'
      BY <1>1, <1>7, <2>1, <2>2 DEF SteadyInv
  <2> QED BY <1>6, <1>8, <1>9, <2>1, <2>2, <2>3, <2>4, <2>5
<1>12. CASE /\ pc' = "remainder" /\ h # 0
            /\ look' = [at |-> h, goal |-> c, seen |-> <<>>, status |-> "going"]
  <2>1. c \in Seq(Int) /\ h \in 1 .. Given(mode, adapter')
      BY <1>1, <1>2, <1>12, PlannedNext
  <2>2. LookType' /\ look' \in LookSet
    <3> DEFINE e == <<>>
    <3>1. look'.at = h /\ look'.goal = c /\ look'.seen = e /\ look'.status = "going"
        BY <1>12
    <3>2. Len(look'.seen) <= Len(look'.goal) + 1
        BY <2>1, <3>1
    <3>3. LookType'
        BY <1>1, <1>12, <2>1, <3>1, <3>2 DEF LookType, Statuses
    <3>4. look' \in LookSet
        BY <1>2, <1>12, <2>1 DEF LookSet, Statuses
    <3> QED BY <3>3, <3>4
  <2>3. /\ Kinds' /\ StatesPlanned' /\ Steps' = Steps /\ Watches' = Watches
        /\ Len(handles') = At /\ DOMAIN handles' = 1 .. At /\ At \in 1 .. Len(Steps)
        /\ handles'[At] = h /\ states'[At] = c
      BY <1>6, <2>2
  <2>4. LookPlaced' /\ (HandlesFit' => LookFits')
    <3>1. LookedAt' = At
        BY <1>12, <2>3 DEF LookedAt
    <3>2. DOMAIN states' = DOMAIN handles'
        BY <2>3, TypeParts DEF Kinds, HistoryType
    <3>3. /\ LookedAt' \in DOMAIN handles' /\ handles'[LookedAt'] = h /\ c = TopFirst(Steps')[LookedAt']
        BY <2>3, <3>1
    <3>4. AdapterOK(mode', adapter') /\ Given(mode', adapter') \in Nat /\ h \in 1 .. Given(mode', adapter')
        BY <1>1, <1>2, <2>1
    <3> QED BY <1>12, <2>1, <2>3, <3>2, <3>3, <3>4, LookBegins
  <2>5. Position'
    <3>1. handles' # <<>>
        BY <1>10, <2>3
    <3> QED BY <1>1, <1>12, <3>1 DEF Position
  <2>6. ReportFits'
      BY <1>1, <1>12 DEF ReportFits
  <2>7. SteadyInv'
      BY <1>1, <1>7, <2>2, <2>4 DEF SteadyInv
  <2> QED BY <1>8, <1>9, <2>3, <2>4, <2>5, <2>6, <2>7
<1> QED BY <1>11, <1>12

(* A call and no call.                                                     *)
LEMMA CallGrows ==
  ASSUME Kinds
  PROVE  /\ NotCalled => /\ Grows /\ Retains(mode, adapter, adapter')
                         /\ forbidden' \in BOOLEAN /\ (forbidden' => forbidden \/ mode = "forbidden-event")
         /\ \A r : Typed(mode, adapter, r) /\ Called(r.adapter) =>
              /\ Grows /\ adapter' = r.adapter
              /\ forbidden' \in BOOLEAN /\ (forbidden' => forbidden \/ mode = "forbidden-event")
<1>1. AdapterOK(mode, adapter) /\ Given(mode, adapter) \in Nat /\ forbidden \in BOOLEAN
    BY CaseFacts, TypeParts DEF Kinds, RecordsType
<1>2. ASSUME NotCalled
      PROVE  /\ Grows /\ Retains(mode, adapter, adapter')
             /\ forbidden' \in BOOLEAN /\ (forbidden' => forbidden \/ mode = "forbidden-event")
  <2>1. adapter' = adapter /\ forbidden' = forbidden
      BY <1>2 DEF NotCalled
  <2> QED BY <1>1, <2>1 DEF Grows, Retains
<1>3. ASSUME NEW r, Typed(mode, adapter, r), Called(r.adapter)
      PROVE  /\ Grows /\ adapter' = r.adapter
             /\ forbidden' \in BOOLEAN /\ (forbidden' => forbidden \/ mode = "forbidden-event")
  <2>1. adapter' = r.adapter /\ forbidden' = (forbidden \/ ReportsForbidden(mode))
      BY <1>3 DEF Called
  <2>2. Grows
      BY <1>3, <2>1 DEF Typed, Grows
  <2> QED BY <1>1, <2>1, <2>2 DEF ReportsForbidden
<1> QED BY <1>2, <1>3

(* The handle a step takes, and what it holds.                             *)
LEMMA SourceFacts ==
  ASSUME Kinds, StatesPlanned, At <= Len(Steps), Step.op # "empty", handles[Step.source] # 0
  PROVE  LET h == handles[Step.source] IN
         /\ h \in 1 .. Given(mode, adapter) /\ Step.source \in DOMAIN handles
         /\ states[Step.source] \in Seq(Int) /\ Contents(mode, adapter, h) \in Seq(Int)
         /\ HandlesFit => Fits(mode, Contents(mode, adapter, h), states[Step.source])
<1> DEFINE s == Step.source
           h == handles[s]
<1>1. s \in DOMAIN handles
  <2>1. Step.op # "empty" => s # 0
      BY NextStep
  <2>2. s # 0 => s \in 1 .. Len(handles)
      BY NextStep
  <2> QED BY <2>1, <2>2, CaseFacts
<1>2. HistoryType /\ Given(mode, adapter) \in Nat /\ AdapterOK(mode, adapter)
    BY CaseFacts, TypeParts DEF Kinds
<1>3. h \in 1 .. Given(mode, adapter)
    BY <1>1, <1>2 DEF HistoryType
<1>4. states[s] \in Seq(Int)
    BY <1>1, <1>2 DEF Kinds, HistoryType
<1>5. HandlesFit => Fits(mode, Contents(mode, adapter, h), states[s])
    BY <1>1 DEF HandlesFit
<1> HIDE DEF h
<1>6. Contents(mode, adapter, h) \in Seq(Int)
    BY <1>2, <1>3, ContentsType
<1> QED BY <1>1, <1>3, <1>4, <1>5, <1>6 DEF h

(* An empty stack is bound.                                                *)
LEMMA EmptyKeeps == IInv /\ Empty => IInv'
<1> SUFFICES ASSUME IInv, Empty PROVE IInv'
    OBVIOUS
<1> DEFINE r == Asked
           c == <<>>
<1>1. /\ InHistory /\ Step.op = "empty" /\ r.status = "ok" /\ Bind(r.handle, c) /\ Called(r.adapter)
      /\ UNCHANGED <<plan, mode, case, pc, watch, baselines, look, records, failed, report>>
    BY DEF Empty, Ready, progress
<1>2. Kinds /\ StatesPlanned /\ pc = "step" /\ At <= Len(Steps) /\ AdapterOK(mode, adapter)
    BY <1>1 DEF IInv, InHistory, Kinds
<1>3. look.status # "going"
    BY <1>2, TypeParts DEF LookType, Kinds
<1>4. r = Respond(mode, adapter, "empty", 0, 0)
    BY <1>1, <1>3 DEF Asked
<1>5. Typed(mode, adapter, r) /\ (Refuses(mode, adapter, r) \/ Serves(mode, adapter, r, c))
    BY <1>2, <1>4, AnswerEmpty
<1> HIDE DEF r, c
<1>6. Serves(mode, adapter, r, c)
    BY <1>1, <1>5 DEF Refuses
<1>7. /\ Grows /\ adapter' = r.adapter
      /\ forbidden' \in BOOLEAN /\ (forbidden' => forbidden \/ mode = "forbidden-event")
    BY <1>1, <1>2, <1>5, CallGrows
<1>8. c = TopFirst(Steps)[At]
    BY <1>1, <1>2, PlannedNext DEF c
<1>9. r.handle \in 0 .. Given(mode, adapter') /\ Retains(mode, adapter, adapter')
      /\ Contents(mode, adapter', r.handle) = c
    BY <1>6, <1>7 DEF Serves, Grows
<1>10. Fits(mode, Contents(mode, adapter', r.handle), c)
  <2>1. Len(c) <= Len(c)
      BY DEF c
  <2> QED BY <1>9, <2>1 DEF Fits
<1> DEFINE new == {}
           k == r.handle
<1>11. /\ records' = records \cup new
       /\ new \subseteq [case : DOMAIN plan, declaration : Declarations, result : Verdicts]
       /\ \A x \in new : x.result = "challenges" => x.declaration \in Breaks(mode)
    BY <1>1
<1>12. /\ UNCHANGED <<plan, mode, case, watch, baselines, failed, report>> /\ pc' = pc /\ look' = look
       /\ Bind(k, c) /\ k \in 0 .. Given(mode, adapter')
       /\ k # 0 => Fits(mode, Contents(mode, adapter', k), c)
    BY <1>1, <1>9, <1>10
<1> HIDE DEF new, k
<1> QED BY <1>1, <1>7, <1>8, <1>9, <1>11, <1>12, HistoryStep

(* A stack is bound that a value was pushed on, or none.                   *)
LEMMA PushKeeps == IInv /\ Push => IInv'
<1> SUFFICES ASSUME IInv, Push PROVE IInv'
    OBVIOUS
<1> DEFINE h == handles[Step.source]
           s == states[Step.source]
           c == <<Step.value>> \o s
           r == Asked
           new == {}
<1>1. /\ InHistory /\ Step.op = "push"
      /\ UNCHANGED <<plan, mode, case, pc, watch, baselines, look, records, failed, report>>
      /\ h = 0 => Bind(0, c) /\ NotCalled
      /\ h # 0 => r.status = "ok" /\ Bind(r.handle, c) /\ Called(r.adapter)
    BY DEF Push, Ready, progress
<1>2. Kinds /\ StatesPlanned /\ pc = "step" /\ At <= Len(Steps) /\ AdapterOK(mode, adapter) /\ SteadyInv
    BY <1>1 DEF IInv, InHistory, Kinds
<1>3. look.status # "going"
    BY <1>2, TypeParts DEF LookType, Kinds
<1>4. Step.value \in ElementDomain
    BY <1>1, <1>2, NextStep
<1>5. c = TopFirst(Steps)[At]
    BY <1>1, <1>2, PlannedNext
<1>6. /\ records' = records \cup new
      /\ new \subseteq [case : DOMAIN plan, declaration : Declarations, result : Verdicts]
      /\ \A x \in new : x.result = "challenges" => x.declaration \in Breaks(mode)
      /\ UNCHANGED <<plan, mode, case, watch, baselines, failed, report>> /\ pc' = pc /\ look' = look
    BY <1>1
<1>7. CASE h = 0
  <2> DEFINE k == 0
  <2>1. /\ Grows /\ Retains(mode, adapter, adapter')
        /\ forbidden' \in BOOLEAN /\ (forbidden' => forbidden \/ mode = "forbidden-event")
      BY <1>1, <1>2, <1>7, CallGrows
  <2>2. Bind(k, c) /\ k \in 0 .. Given(mode, adapter') /\ k = 0
      BY <1>1, <1>7, <2>1 DEF Grows
  <2> HIDE DEF new, c, k
  <2> QED BY <1>1, <1>5, <1>6, <2>1, <2>2, HistoryStep
<1>8. CASE h # 0
  <2> DEFINE k == r.handle
             v == Step.value
             old == Contents(mode, adapter, h)
  <2>1. /\ h \in 1 .. Given(mode, adapter) /\ s \in Seq(Int) /\ old \in Seq(Int)
        /\ HandlesFit => Fits(mode, old, s)
      BY <1>1, <1>2, <1>8, SourceFacts
  <2>2. r = Respond(mode, adapter, "push", h, v)
      BY <1>1, <1>3 DEF Asked
  <2>3. /\ Typed(mode, adapter, r)
        /\ \/ Refuses(mode, adapter, r)
           \/ /\ r.status = "ok" /\ r.tag = "stack"
              /\ Steady(mode) => Serves(mode, adapter, r, <<v>> \o old)
    <3> HIDE DEF h
    <3> QED BY <1>2, <1>4, <2>1, <2>2, AnswerPush
  <2> HIDE DEF r, h, s, old
  <2>4. r.status = "ok" /\ r.tag = "stack" /\ (Steady(mode) => Serves(mode, adapter, r, <<v>> \o old))
      BY <1>1, <1>8, <2>3 DEF Refuses
  <2>5. /\ Grows /\ adapter' = r.adapter
        /\ forbidden' \in BOOLEAN /\ (forbidden' => forbidden \/ mode = "forbidden-event")
      BY <1>1, <1>2, <1>8, <2>3, CallGrows
  <2>6. Bind(k, c) /\ k \in 0 .. Given(mode, adapter')
    <3>1. r.handle \in 1 .. Given(mode, adapter')
        BY <2>3, <2>4, <2>5 DEF Typed
    <3> QED BY <1>1, <1>8, <2>5, <3>1 DEF Grows
  <2>7. ASSUME Steady(mode)
        PROVE  Retains(mode, adapter, adapter') /\ (k # 0 => Fits(mode, Contents(mode, adapter', k), c))
    <3>1. Serves(mode, adapter, r, <<v>> \o old)
        BY <2>4, <2>7
    <3>2. Retains(mode, adapter, adapter') /\ Contents(mode, adapter', k) = <<v>> \o old
        BY <2>5, <3>1 DEF Serves
    <3>3. Fits(mode, old, s)
        BY <1>2, <2>1, <2>7 DEF SteadyInv
    <3>4. Len(<<v>> \o old) = Len(old) + 1 /\ Len(c) = Len(s) + 1
        BY <1>4, <2>1, ConsShape DEF ElementDomain
    <3>5. Len(old) \in Nat /\ Len(s) \in Nat
        BY <2>1
    <3> DEFINE both == <<v>> \o old
    <3>6. Fits(mode, both, c)
      <4>1. old = s => both = c
          OBVIOUS
      <4> HIDE DEF both, c
      <4>2. Len(old) <= Len(s) => Len(both) <= Len(c)
          BY <3>4, <3>5 DEF both
      <4> QED BY <3>3, <4>1, <4>2 DEF Fits
    <3> QED BY <3>2, <3>6
  <2> HIDE DEF new, c, k
  <2> QED BY <1>1, <1>5, <1>6, <2>5, <2>6, <2>7, HistoryStep
<1> QED BY <1>7, <1>8

(* Nothing is asked for a stack that was lost.                             *)
LEMMA PopLostKeeps == IInv /\ PopLost => IInv'
<1> SUFFICES ASSUME IInv, PopLost PROVE IInv'
    OBVIOUS
<1> DEFINE c == Rest
           new == {}
           k == 0
<1>1. /\ InHistory /\ Step.op = "pop" /\ Bind(0, c) /\ NotCalled
      /\ UNCHANGED <<plan, mode, case, pc, watch, baselines, look, records, failed, report>>
    BY DEF PopLost, Ready, progress
<1>2. Kinds /\ StatesPlanned /\ At <= Len(Steps)
    BY <1>1 DEF IInv, InHistory
<1>3. c = TopFirst(Steps)[At]
    BY <1>1, <1>2, PlannedNext
<1>4. /\ Grows /\ Retains(mode, adapter, adapter')
      /\ forbidden' \in BOOLEAN /\ (forbidden' => forbidden \/ mode = "forbidden-event")
    BY <1>1, <1>2, CallGrows
<1>5. /\ records' = records \cup new
      /\ new \subseteq [case : DOMAIN plan, declaration : Declarations, result : Verdicts]
      /\ \A x \in new : x.result = "challenges" => x.declaration \in Breaks(mode)
      /\ UNCHANGED <<plan, mode, case, watch, baselines, failed, report>> /\ pc' = pc /\ look' = look
    BY <1>1
<1>6. Bind(k, c) /\ k \in 0 .. Given(mode, adapter') /\ k = 0
    BY <1>1, <1>4 DEF Grows
<1> HIDE DEF c, new, k
<1> QED BY <1>1, <1>3, <1>4, <1>5, <1>6, HistoryStep

(* What a steady adapter answers to a pop is right, or breaks a law it is  *)
(* known to break; and what it leaves fits what is planned to be left.     *)
LEMMA PopJudged ==
  ASSUME NEW m, Steady(m), NEW a, NEW h, NEW r, PopIs(m, a, h, r), NEW s \in Seq(Int),
         Contents(m, a, h) \in Seq(Int), Fits(m, Contents(m, a, h), s)
  PROVE  /\ Retains(m, a, r.adapter)
         /\ s = <<>> /\ r.tag # "none" => "pop-empty" \in Breaks(m)
         /\ s # <<>> /\ (r.tag = "none" \/ r.value # Head(s)) => "pop-push" \in Breaks(m)
         /\ s # <<>> /\ r.tag # "none" => Fits(m, Contents(m, r.adapter, r.handle), Tail(s))
<1> DEFINE c == Contents(m, a, h)
<1>1. Retains(m, a, a)
    BY DEF Retains
<1>2. Retains(m, a, r.adapter)
    BY <1>1 DEF PopIs, Serves
<1>3. /\ ~Exact(m) => "pop-push" \in Breaks(m)
      /\ ~Stops(m) => "pop-empty" \in Breaks(m)
    BY WhatBreaks
<1>4. c \in Seq(Int) /\ Fits(m, c, s) /\ Len(c) \in Nat /\ Len(s) \in Nat
    OBVIOUS
<1>5. /\ m = "nonterminating-observation" => ~Exact(m) /\ ~Stops(m)
      /\ m = "wrong-empty" => ~Stops(m)
      /\ m \notin {"nonterminating-observation", "wrong-empty"} => Stops(m)
    BY DEF Exact, Stops, Faithful, Languages
<1>6. Stops(m) /\ s = <<>> => c = <<>>
  <2> HIDE DEF c
  <2>1. s = <<>> => Len(s) = 0
      OBVIOUS
  <2>2. Len(c) = 0 => c = <<>>
      BY <1>4
  <2> QED BY <1>4, <2>1, <2>2 DEF Fits
<1>7. Exact(m) => c = s
    BY <1>4 DEF Fits
<1>8. /\ m # "nonterminating-observation" /\ c = <<>> /\ m # "wrong-empty" => r.tag = "none"
      /\ m # "nonterminating-observation" /\ c # <<>> =>
           /\ r.tag = "some" /\ r.value = TopTold(m, c)
           /\ Contents(m, r.adapter, r.handle) = RestKept(m, c)
    BY DEF PopIs, Serves
<1> HIDE DEF c
<1>9. ASSUME c # <<>>
      PROVE  /\ RestKept(m, c) \in Seq(Int) /\ Len(RestKept(m, c)) <= Len(c) - 1
             /\ Exact(m) => TopTold(m, c) = Head(c) /\ RestKept(m, c) = Tail(c)
    BY <1>4, <1>9, ToldUnrolls
<1>10. s = <<>> /\ r.tag # "none" => "pop-empty" \in Breaks(m)
    BY <1>3, <1>5, <1>6, <1>8
<1>11. ASSUME s # <<>>, r.tag = "none" \/ r.value # Head(s) PROVE "pop-push" \in Breaks(m)
    BY <1>3, <1>5, <1>7, <1>8, <1>9, <1>11
<1>12. ASSUME s # <<>>, r.tag # "none" PROVE Fits(m, Contents(m, r.adapter, r.handle), Tail(s))
  <2> DEFINE d == Contents(m, r.adapter, r.handle)
  <2>1. CASE Exact(m)
    <3>1. d = Tail(s)
        BY <1>5, <1>7, <1>8, <1>9, <1>12, <2>1
    <3> QED BY <2>1, <3>1 DEF Fits
  <2>2. CASE ~Exact(m) /\ Stops(m)
    <3>1. c # <<>>
        BY <1>5, <1>8, <1>12, <2>2
    <3>2. d = RestKept(m, c) /\ Len(d) <= Len(c) - 1
        BY <1>5, <1>8, <1>9, <2>2, <3>1
    <3>3. Len(c) <= Len(s)
        BY <1>4, <2>2 DEF Fits
    <3>4. Len(Tail(s)) = Len(s) - 1
        BY <1>12, HeadAndTail
    <3>5. d \in Seq(Int) /\ Len(d) \in Nat
        BY <1>9, <3>1, <3>2
    <3> HIDE DEF d
    <3>6. Len(d) <= Len(Tail(s))
        BY <1>4, <3>2, <3>3, <3>4, <3>5
    <3> QED BY <2>2, <3>6 DEF Fits, d
  <2>3. CASE ~Exact(m) /\ ~Stops(m)
      BY <2>3 DEF Fits
  <2> QED BY <2>1, <2>2, <2>3
<1> QED BY <1>2, <1>10, <1>11, <1>12

(* A stack is popped, judged, and what is left bound and looked at.        *)
LEMMA PopKeeps == IInv /\ Pop => IInv'
<1> SUFFICES ASSUME IInv, Pop PROVE IInv'
    OBVIOUS
<1> DEFINE h == handles[Step.source]
           s == Source
           c == Rest
           r == Asked
           v == Step.value
           old == Contents(mode, adapter, h)
           blamed == IF s = <<>> THEN "pop-empty" ELSE "pop-push"
           wrong  == IF s = <<>> THEN r.tag # "none" ELSE r.tag = "none" \/ r.value # Head(s)
           made == Record(blamed, "challenges")
           new == IF wrong THEN {made} ELSE {}
<1>1. /\ InHistory /\ Step.op = "pop" /\ h # 0 /\ r.status = "ok" /\ Called(r.adapter)
      /\ UNCHANGED <<plan, mode, case, watch, baselines, failed, report>>
      /\ records' = records \cup new
      /\ s = <<>> \/ r.tag = "none" => Bind(0, c) /\ pc' = pc /\ look' = look
      /\ ~(s = <<>> \/ r.tag = "none") =>
           /\ Bind(r.handle, c) /\ pc' = "remainder"
           /\ look' = [at |-> r.handle, goal |-> c, seen |-> <<>>, status |-> "going"]
    BY DEF Pop, Ready, Observe
<1>2. Kinds /\ StatesPlanned /\ pc = "step" /\ At <= Len(Steps) /\ AdapterOK(mode, adapter) /\ SteadyInv
    BY <1>1 DEF IInv, InHistory, Kinds
<1>3. look.status # "going" /\ case \in DOMAIN plan
    BY <1>2, TypeParts DEF LookType, HistoryType, Kinds
<1>4. c = TopFirst(Steps)[At] /\ c = IF s = <<>> THEN <<>> ELSE Tail(s)
    BY <1>1, <1>2, PlannedNext DEF Rest
<1>5. /\ h \in 1 .. Given(mode, adapter) /\ s \in Seq(Int) /\ old \in Seq(Int)
      /\ HandlesFit => Fits(mode, old, s)
    BY <1>1, <1>2, SourceFacts DEF Source
<1>6. r = Respond(mode, adapter, "pop", h, v)
    BY <1>1, <1>3 DEF Asked
<1>7. /\ Typed(mode, adapter, r)
      /\ \/ Refuses(mode, adapter, r)
         \/ r.status = "ok" /\ r.tag \in {"none", "some"} /\ (Steady(mode) => PopIs(mode, adapter, h, r))
  <2> HIDE DEF h
  <2> QED BY <1>2, <1>5, <1>6, AnswerPop
<1>8. made \in [case : DOMAIN plan, declaration : Declarations, result : Verdicts] /\ made.declaration = blamed
  <2>1. blamed \in Declarations /\ "challenges" \in Verdicts
      BY DEF Declarations, Verdicts
  <2> QED BY <1>3, <2>1, RecordType
<1> HIDE DEF r, h, made
<1>9. r.status = "ok" /\ (Steady(mode) => PopIs(mode, adapter, h, r))
    BY <1>1, <1>7 DEF Refuses
<1>10. /\ Grows /\ adapter' = r.adapter
       /\ forbidden' \in BOOLEAN /\ (forbidden' => forbidden \/ mode = "forbidden-event")
    BY <1>1, <1>2, <1>7, CallGrows
<1> HIDE DEF s, c
<1>11. Steady(mode) =>
         /\ Retains(mode, adapter, adapter')
         /\ s = <<>> /\ r.tag # "none" => "pop-empty" \in Breaks(mode)
         /\ s # <<>> /\ (r.tag = "none" \/ r.value # Head(s)) => "pop-push" \in Breaks(mode)
         /\ s # <<>> /\ r.tag # "none" => Fits(mode, Contents(mode, adapter', r.handle), Tail(s))
  <2> SUFFICES ASSUME Steady(mode)
               PROVE  /\ Retains(mode, adapter, r.adapter)
                      /\ s = <<>> /\ r.tag # "none" => "pop-empty" \in Breaks(mode)
                      /\ s # <<>> /\ (r.tag = "none" \/ r.value # Head(s)) => "pop-push" \in Breaks(mode)
                      /\ s # <<>> /\ r.tag # "none" => Fits(mode, Contents(mode, r.adapter, r.handle), Tail(s))
      BY <1>10
  <2>1. Fits(mode, old, s)
      BY <1>2, <1>5 DEF SteadyInv
  <2> QED BY <1>5, <1>9, <2>1, PopJudged
<1>12. /\ new \subseteq [case : DOMAIN plan, declaration : Declarations, result : Verdicts]
       /\ Steady(mode) => \A x \in new : x.result = "challenges" => x.declaration \in Breaks(mode)
  <2>1. \A x \in new : x = made /\ wrong
      OBVIOUS
  <2>2. Steady(mode) /\ wrong => blamed \in Breaks(mode)
      BY <1>11
  <2> HIDE DEF new, wrong, blamed
  <2> QED BY <1>8, <2>1, <2>2
<1> HIDE DEF new
<1>13. CASE s = <<>> \/ r.tag = "none"
  <2> DEFINE k == 0
  <2>1. Bind(k, c) /\ k \in 0 .. Given(mode, adapter') /\ k = 0 /\ pc' = pc /\ look' = look
      BY <1>1, <1>10, <1>13 DEF Grows
  <2> HIDE DEF k
  <2> QED BY <1>1, <1>4, <1>10, <1>11, <1>12, <2>1, HistoryStep
<1>14. CASE ~(s = <<>> \/ r.tag = "none")
  <2> DEFINE k == r.handle
  <2>1. k \in 1 .. Given(mode, adapter')
      BY <1>7, <1>9, <1>10, <1>14 DEF Typed
  <2>2. /\ Bind(k, c) /\ k \in 0 .. Given(mode, adapter') /\ k # 0 /\ pc' = "remainder"
        /\ look' = [at |-> k, goal |-> c, seen |-> <<>>, status |-> "going"]
      BY <1>1, <1>10, <1>14, <2>1 DEF Grows
  <2>3. c = Tail(s)
      BY <1>4, <1>14
  <2>4. Steady(mode) => Fits(mode, Contents(mode, adapter', k), c)
      BY <1>11, <1>14, <2>3
  <2> HIDE DEF k
  <2> QED BY <1>1, <1>4, <1>10, <1>11, <1>12, <2>2, <2>4, HistoryStep
<1> QED BY <1>13, <1>14

(* A call that binds nothing.                                              *)
LEMMA CallStep ==
  ASSUME Kinds, StatesPlanned, UNCHANGED <<plan, mode, case, watch, handles, states, baselines>>, Grows,
         LookType', look' \in LookSet, RecordsType'
  PROVE  /\ Kinds' /\ StatesPlanned' /\ Steps' = Steps /\ Watches' = Watches
         /\ Retains(mode, adapter, adapter') =>
              /\ HandlesFit => HandlesFit'
              /\ BaselinesFit => BaselinesFit'
              /\ \A i \in DOMAIN handles : handles[i] # 0 =>
                   Contents(mode, adapter', handles[i]) = Contents(mode, adapter, handles[i])
<1>1. /\ plan' = plan /\ mode' = mode /\ case' = case /\ watch' = watch /\ handles' = handles
      /\ states' = states /\ baselines' = baselines
    OBVIOUS
<1>2. Steps' = Steps /\ Watches' = Watches
    BY <1>1 DEF Steps, Watches
<1>3. HistoryType /\ Given(mode, adapter) \in Nat
    BY CaseFacts, TypeParts DEF Kinds
<1>4. HistoryType'
  <2>1. \A i \in DOMAIN handles : handles[i] \in 0 .. Given(mode, adapter')
      BY <1>3 DEF HistoryType, Grows
  <2> QED BY <1>1, <1>2, <1>3, <2>1 DEF HistoryType
<1>5. Kinds'
  <2>1. TypeOK'
      BY <1>4, TypeParts
  <2> QED BY <1>1, <2>1 DEF Kinds, LookSet, Grows
<1>6. StatesPlanned'
    BY <1>1, <1>2 DEF StatesPlanned
<1>7. ASSUME Retains(mode, adapter, adapter')
      PROVE  \A i \in DOMAIN handles : handles[i] # 0 =>
               Contents(mode, adapter', handles[i]) = Contents(mode, adapter, handles[i])
  <2>1. \A i \in DOMAIN handles : handles[i] # 0 => handles[i] \in 1 .. Given(mode, adapter)
      BY <1>3 DEF HistoryType
  <2> QED BY <1>7, <2>1 DEF Retains
<1>8. ASSUME Retains(mode, adapter, adapter'), HandlesFit PROVE HandlesFit'
    BY <1>1, <1>7, <1>8 DEF HandlesFit
<1>9. ASSUME Retains(mode, adapter, adapter'), BaselinesFit PROVE BaselinesFit'
  <2>1. \A b \in DOMAIN baselines : b \in DOMAIN handles /\ handles[b] # 0
      BY <1>3, <1>9 DEF HistoryType, BaselinesFit
  <2> QED BY <1>1, <1>2, <1>7, <1>9, <2>1 DEF BaselinesFit
<1> QED BY <1>2, <1>5, <1>6, <1>7, <1>8, <1>9

(* One value more is seen, and one fewer is left.                          *)
LEMMA SeenOneMore ==
  ASSUME NEW s \in Seq(Int), NEW v \in Int, NEW t \in Seq(Int)
  PROVE  /\ Append(s, v) \in Seq(Int) /\ Len(Append(s, v)) = Len(s) + 1
         /\ Front(Append(s, v)) = s
         /\ s \o (<<v>> \o t) = Append(s, v) \o t
         /\ Len(s \o (<<v>> \o t)) = (Len(s) + 1) + Len(t)
<1>1. Len(s) \in Nat /\ Len(t) \in Nat
    OBVIOUS
<1> DEFINE x == Append(s, v)
<1>2. /\ x \in Seq(Int) /\ Len(x) = Len(s) + 1 /\ x[Len(s) + 1] = v
      /\ \A i \in 1 .. Len(s) : x[i] = s[i]
    BY <1>1
<1>3. Front(x) = s
  <2> DEFINE f == Front(x)
  <2> HIDE DEF x
  <2>1. x # <<>>
    <3>1. Len(x) # 0
        BY <1>1, <1>2
    <3> QED BY <1>2, <3>1
  <2>2. f \in Seq(Int) /\ Len(f) = Len(x) - 1 /\ \A i \in 1 .. Len(x) - 1 : f[i] = x[i]
      BY <1>2, <2>1, FrontShape
  <2> HIDE DEF f
  <2>3. Len(f) = Len(s) /\ \A i \in 1 .. Len(f) : f[i] = s[i]
      BY <1>1, <1>2, <2>2
  <2>4. f = s
      BY <2>2, <2>3, SameSequence
  <2> QED BY <2>4 DEF f
<1> DEFINE u == <<v>> \o t
           p == s \o u
           q == x \o t
<1>4. u \in Seq(Int) /\ Len(u) = Len(t) + 1 /\ u[1] = v /\ \A i \in 1 .. Len(t) : u[i + 1] = t[i]
    BY ConsShape
<1> HIDE DEF x, u
<1>5. /\ p \in Seq(Int) /\ Len(p) = Len(s) + Len(u)
      /\ \A i \in 1 .. Len(s) + Len(u) : p[i] = IF i <= Len(s) THEN s[i] ELSE u[i - Len(s)]
    BY <1>4, ConcatProperties
<1>6. /\ q \in Seq(Int) /\ Len(q) = Len(x) + Len(t)
      /\ \A i \in 1 .. Len(x) + Len(t) : q[i] = IF i <= Len(x) THEN x[i] ELSE t[i - Len(x)]
    BY <1>2, ConcatProperties
<1> HIDE DEF p, q
<1>7. Len(p) = (Len(s) + 1) + Len(t) /\ Len(q) = (Len(s) + 1) + Len(t)
    BY <1>1, <1>2, <1>4, <1>5, <1>6
<1>8. ASSUME NEW i \in 1 .. Len(p) PROVE p[i] = q[i]
  <2>1. i \in 1 .. Len(s) + Len(u) /\ i \in 1 .. Len(x) + Len(t)
      BY <1>5, <1>6, <1>7
  <2>2. CASE i <= Len(s)
    <3>1. i <= Len(x) /\ i \in 1 .. Len(s)
        BY <1>1, <1>2, <2>2
    <3> QED BY <1>2, <1>5, <1>6, <2>1, <2>2, <3>1
  <2>3. CASE i = Len(s) + 1
    <3>1. ~(i <= Len(s)) /\ i - Len(s) = 1 /\ i <= Len(x)
        BY <1>1, <1>2, <2>3
    <3> QED BY <1>2, <1>4, <1>5, <1>6, <2>1, <2>3, <3>1
  <2>4. CASE i > Len(s) + 1
    <3> DEFINE j == i - Len(x)
    <3>1. ~(i <= Len(s)) /\ ~(i <= Len(x)) /\ j \in 1 .. Len(t) /\ i - Len(s) = j + 1
        BY <1>1, <1>2, <1>7, <2>4
    <3>2. p[i] = u[j + 1] /\ q[i] = t[j]
        BY <1>5, <1>6, <2>1, <3>1
    <3> HIDE DEF j
    <3> QED BY <1>4, <3>1, <3>2
  <2> QED BY <1>1, <2>1, <2>2, <2>3, <2>4
<1>9. p = q
    BY <1>5, <1>6, <1>7, <1>8, SameSequence
<1> QED BY <1>2, <1>3, <1>7, <1>9 DEF p, q, u, x

(* What a look has seen, and where it stands, after a pop more.            *)
SeenAfter(r, seen) == IF r.tag = "none" THEN seen ELSE Append(seen, r.value)

StandsAfter(r, seen, goal) ==
  IF r.tag = "none"
  THEN IF Len(seen) = Len(goal) THEN "complete" ELSE "early-none"
  ELSE IF Len(seen) = Len(goal) THEN "nonempty-tail" ELSE "going"

(* What a look tells of the contents c when "rest" is left to be popped.   *)
TellsSoFar(m, status, seen, rest, c, goal) ==
  IF m = "nonterminating-observation" THEN status \in {"going", "nonempty-tail"}
  ELSE IF m = "wrong-empty"
  THEN IF status = "going" THEN seen \o rest = goal
       ELSE status = "nonempty-tail" /\ Front(seen) = goal
  ELSE IF status = "going" THEN seen \o Told(m, rest) = Told(m, c)
       ELSE /\ seen = Told(m, c)
            /\ status = IF Len(seen) = Len(goal) THEN "complete" ELSE "early-none"

(* One pop more of a look: what was seen and what is left are still what   *)
(* the binding tells, or the adapter is one that never ends.               *)
LEMMA LookFitsOn ==
  ASSUME NEW m, Steady(m), NEW a, NEW h, NEW r, PopIs(m, a, h, r),
         NEW left, left = Contents(m, a, h), left \in Seq(Int),
         NEW c \in Seq(Int), NEW goal \in Seq(Int), NEW seen \in Seq(Int), Len(seen) <= Len(goal),
         Fits(m, c, goal), r.value \in Int,
         NEW more, more = SeenAfter(r, seen),
         NEW status, status = StandsAfter(r, seen, goal),
         m = "wrong-empty" => seen \o left = goal,
         m \notin {"wrong-empty", "nonterminating-observation"} => seen \o Told(m, left) = Told(m, c),
         NEW rest, rest = Contents(m, r.adapter, r.handle)
  PROVE  TellsSoFar(m, status, more, rest, c, goal)
<1> USE DEF TellsSoFar, SeenAfter, StandsAfter
<1>1. Len(seen) \in Nat /\ Len(goal) \in Nat /\ Len(left) \in Nat /\ Len(c) \in Nat
    OBVIOUS
<1>2. seen \o <<>> = seen
    OBVIOUS
<1> DEFINE x == Append(seen, r.value)
<1>3. x \in Seq(Int) /\ Len(x) = Len(seen) + 1 /\ Front(x) = seen
  <2>1. <<>> \in Seq(Int)
      OBVIOUS
  <2> QED BY <2>1, SeenOneMore
<1>4. ASSUME left # <<>>, m # "nonterminating-observation"
      PROVE  /\ r.tag = "some" /\ r.value = TopTold(m, left) /\ rest = RestKept(m, left)
             /\ rest \in Seq(Int)
             /\ Told(m, left) = <<r.value>> \o Told(m, rest)
             /\ Exact(m) => left = <<r.value>> \o rest
  <2>1. r.tag = "some" /\ r.value = TopTold(m, left) /\ rest = RestKept(m, left)
      BY <1>4 DEF PopIs, Serves
  <2>2. /\ RestKept(m, left) \in Seq(Int)
        /\ Told(m, left) = <<TopTold(m, left)>> \o Told(m, RestKept(m, left))
        /\ Exact(m) => TopTold(m, left) = Head(left) /\ RestKept(m, left) = Tail(left)
      BY <1>4, ToldUnrolls
  <2>3. left = <<Head(left)>> \o Tail(left)
      BY <1>4, HeadAndTail
  <2>4. Exact(m) => left = <<r.value>> \o rest
      BY <2>1, <2>2, <2>3, Zenon
  <2>5. Told(m, left) = <<r.value>> \o Told(m, rest)
      BY <2>1, <2>2, Zenon
  <2>6. rest \in Seq(Int)
      BY <2>1, <2>2
  <2> QED BY <2>1, <2>4, <2>5, <2>6
<1> HIDE DEF x
<1>5. CASE m = "nonterminating-observation"
  <2>1. r.tag = "some"
      BY <1>5 DEF PopIs
  <2>2. status \in {"going", "nonempty-tail"}
      BY <2>1
  <2> QED BY <1>5, <2>2
<1>6. CASE m = "wrong-empty"
  <2>1. CASE left = <<>>
    <3>1. r.tag = "some"
        BY <1>6, <2>1 DEF PopIs
    <3>2. seen = goal
        BY <1>2, <1>6, <2>1
    <3>3. status = "nonempty-tail" /\ more = x
        BY <3>1, <3>2 DEF x
    <3>4. Front(more) = goal
        BY <1>3, <3>2, <3>3
    <3> QED BY <1>6, <3>3, <3>4
  <2>2. CASE left # <<>>
    <3>1. r.tag = "some" /\ left = <<r.value>> \o rest /\ rest \in Seq(Int)
        BY <1>4, <1>6, <2>2 DEF Exact
    <3>2. seen \o (<<r.value>> \o rest) = x \o rest /\ Len(seen \o (<<r.value>> \o rest)) = (Len(seen) + 1) + Len(rest)
        BY <3>1, SeenOneMore DEF x
    <3>3. x \o rest = goal /\ Len(goal) = (Len(seen) + 1) + Len(rest)
        BY <1>6, <3>1, <3>2
    <3>4. Len(rest) \in Nat
        BY <3>1
    <3>5. status = "going" /\ more = x
        BY <1>1, <3>1, <3>3, <3>4 DEF x
    <3> QED BY <1>6, <3>3, <3>5
  <2> QED BY <2>1, <2>2
<1>7. CASE m \notin {"wrong-empty", "nonterminating-observation"}
  <2>1. CASE left = <<>>
    <3>1. r.tag = "none"
        BY <1>7, <2>1 DEF PopIs
    <3>2. Told(m, left) = <<>>
        BY <2>1, ToldType
    <3>3. seen = Told(m, c)
        BY <1>2, <1>7, <3>2
    <3>4. more = seen /\ status # "going" /\ status = IF Len(seen) = Len(goal) THEN "complete" ELSE "early-none"
        BY <3>1
    <3> QED BY <1>7, <3>3, <3>4
  <2>2. CASE left # <<>>
    <3> DEFINE t == Told(m, rest)
    <3>1. r.tag = "some" /\ Told(m, left) = <<r.value>> \o t /\ rest \in Seq(Int)
        BY <1>4, <1>7, <2>2
    <3>2. t \in Seq(Int) /\ Told(m, c) \in Seq(Int) /\ Len(Told(m, c)) <= Len(c)
        BY <3>1, ToldType
    <3> HIDE DEF t
    <3>3. seen \o (<<r.value>> \o t) = x \o t /\ Len(seen \o (<<r.value>> \o t)) = (Len(seen) + 1) + Len(t)
        BY <3>2, SeenOneMore DEF x
    <3>4. x \o t = Told(m, c) /\ Len(Told(m, c)) = (Len(seen) + 1) + Len(t)
        BY <1>7, <3>1, <3>3
    <3>5. Len(c) <= Len(goal)
      <4>1. Stops(m)
          BY <1>7 DEF Stops
      <4> QED BY <1>1, <4>1 DEF Fits
    <3>6. Len(t) \in Nat
        BY <3>2
    <3>7. Len(seen) # Len(goal)
        BY <1>1, <3>2, <3>4, <3>5, <3>6
    <3>8. status = "going" /\ more = x
        BY <3>1, <3>7 DEF x
    <3> QED BY <1>7, <3>4, <3>8 DEF t
  <2> QED BY <2>1, <2>2
<1> QED BY <1>5, <1>6, <1>7

(* A look goes on.                                                         *)
LEMMA LookKeeps == IInv /\ Look => IInv'
<1> SUFFICES ASSUME IInv, Look PROVE IInv'
    OBVIOUS
<1> USE DEF IInv
<1> DEFINE r == Asked
           more == IF r.tag = "none" THEN look.seen ELSE Append(look.seen, r.value)
           at == IF r.tag = "none" THEN look.at ELSE r.handle
           status == StatusAfter(r)
           h == look.at
           left == Contents(mode, adapter, h)
           goal == look.goal
           seen == look.seen
<1>1. /\ look.status = "going" /\ r.status = "ok" /\ Called(r.adapter)
      /\ look' = [look EXCEPT !.status = status, !.seen = more, !.at = at]
      /\ plan' = plan /\ mode' = mode /\ case' = case /\ pc' = pc /\ watch' = watch
      /\ handles' = handles /\ states' = states /\ baselines' = baselines
      /\ records' = records /\ failed' = failed /\ outcomes' = outcomes /\ result' = result
    BY DEF Look, progress, memory, report
<1>2. HistoryType /\ LookType /\ RecordsType /\ AdapterOK(mode, adapter)
    BY TypeParts DEF Kinds
<1>3. /\ LookedAt \in DOMAIN handles /\ handles[LookedAt] # 0 /\ goal = TopFirst(Steps)[LookedAt]
      /\ h # 0 /\ Len(seen) <= Len(goal)
    BY <1>1 DEF LookPlaced
<1>4. h \in 1 .. Given(mode, adapter)
    BY <1>2, <1>3, CaseFacts DEF LookType
<1>5. goal \in Seq(Int) /\ seen \in Seq(Int) /\ h \in Nat /\ look \in LookSet
      /\ Len(goal) \in Nat /\ Len(seen) \in Nat
    BY DEF Kinds, LookSet
<1>6. r = Respond(mode, adapter, "pop", h, 0)
    BY <1>1 DEF Asked
<1>7. /\ Typed(mode, adapter, r)
      /\ \/ Refuses(mode, adapter, r)
         \/ r.status = "ok" /\ r.tag \in {"none", "some"} /\ (Steady(mode) => PopIs(mode, adapter, h, r))
  <2> HIDE DEF h, r
  <2> QED BY <1>2, <1>4, <1>6, AnswerPop DEF r
<1>8. left \in Seq(Int)
  <2> HIDE DEF h
  <2> QED BY <1>2, <1>4, ContentsType
<1> HIDE DEF r
<1>9. r.tag \in {"none", "some"} /\ (Steady(mode) => PopIs(mode, adapter, h, r))
    BY <1>1, <1>7 DEF Refuses
<1>10. /\ Grows /\ adapter' = r.adapter
       /\ forbidden' \in BOOLEAN /\ (forbidden' => forbidden \/ mode = "forbidden-event")
    BY <1>1, <1>7, CallGrows
<1>11. status = IF r.tag = "none"
                THEN IF Len(seen) = Len(goal) THEN "complete" ELSE "early-none"
                ELSE IF Len(seen) = Len(goal) THEN "nonempty-tail" ELSE "going"
    BY DEF StatusAfter
<1>12. r.value \in Int /\ r.handle \in Nat /\ (r.tag # "none" => r.handle \in 1 .. Given(mode, adapter'))
    BY <1>1, <1>7, <1>10 DEF Typed
<1>13. /\ more \in Seq(Int) /\ Len(more) \in Nat /\ Len(more) <= Len(seen) + 1
       /\ r.tag # "none" => Len(more) = Len(seen) + 1
  <2> HIDE DEF seen
  <2>1. Append(seen, r.value) \in Seq(Int) /\ Len(Append(seen, r.value)) = Len(seen) + 1
      BY <1>5, <1>12
  <2> QED BY <1>5, <2>1 DEF seen
<1>14. at \in 0 .. Given(mode, adapter') /\ at \in Nat
  <2> HIDE DEF h
  <2>1. Given(mode, adapter') \in Nat /\ Given(mode, adapter) <= Given(mode, adapter')
      BY <1>10 DEF Grows
  <2>2. Given(mode, adapter) \in Nat /\ Given(mode, adapter') \in Nat
      BY <2>1, CaseFacts
  <2>3. h \in 0 .. Given(mode, adapter') /\ h \in Nat
      BY <1>4, <2>1, <2>2
  <2>4. r.tag # "none" => r.handle \in 0 .. Given(mode, adapter') /\ r.handle \in Nat
      BY <1>12, <2>2
  <2>5. CASE r.tag = "none"
      BY <2>3, <2>5 DEF h
  <2>6. CASE r.tag # "none"
      BY <2>4, <2>6
  <2> QED BY <2>5, <2>6
<1>15. look' = [at |-> at, goal |-> goal, seen |-> more, status |-> status]
  <2> HIDE DEF at, more, status
  <2> QED BY <1>1, <1>5 DEF LookSet
<1> HIDE DEF at, more, status, h, left, goal, seen
<1>16. look'.at = at /\ look'.goal = goal /\ look'.seen = more /\ look'.status = status
    BY <1>15
<1>17. status \in {"going", "complete", "early-none", "nonempty-tail"}
    BY <1>11
<1>18. look' \in LookSet
  <2>1. status \in Statuses
      BY <1>17 DEF Statuses
  <2> QED BY <1>5, <1>13, <1>14, <1>15, <2>1 DEF LookSet
<1>19. LookType'
  <2>1. Len(more) <= Len(goal) + 1
      BY <1>3, <1>5, <1>13
  <2> QED BY <1>1, <1>2, <1>14, <1>16, <1>17, <2>1 DEF LookType, Statuses
<1>20. RecordsType'
    BY <1>1, <1>2, <1>10 DEF RecordsType
<1>21. /\ Kinds' /\ StatesPlanned' /\ Steps' = Steps /\ Watches' = Watches
       /\ Retains(mode, adapter, adapter') =>
            /\ HandlesFit => HandlesFit'
            /\ BaselinesFit => BaselinesFit'
            /\ \A i \in DOMAIN handles : handles[i] # 0 =>
                 Contents(mode, adapter', handles[i]) = Contents(mode, adapter, handles[i])
    BY <1>1, <1>10, <1>18, <1>19, <1>20, CallStep
<1>22. LookedAt' = LookedAt
    BY <1>1, <1>21 DEF LookedAt, Step, At, Watched
<1>23. LookPlaced'
  <2>1. status = "going" => r.tag # "none" /\ Len(seen) # Len(goal)
      BY <1>11
  <2>2. status = "going" => at # 0 /\ Len(more) <= Len(goal)
      BY <1>3, <1>5, <1>12, <1>13, <2>1 DEF at
  <2> QED BY <1>1, <1>3, <1>16, <1>21, <1>22, <2>2 DEF LookPlaced
<1>24. Position'
    BY <1>1, <1>21 DEF Position, Step, At, Watched
<1>25. WatchesRecorded' /\ EventsOwned'
    BY <1>1, <1>10 DEF WatchesRecorded, EventsOwned
<1>26. ReportFits'
    BY <1>1, <1>2 DEF ReportFits, LookType
<1>27. SteadyInv'
  <2> SUFFICES ASSUME Steady(mode) PROVE HandlesFit' /\ LookFits' /\ BaselinesFit' /\ Blamed'
      BY <1>1 DEF SteadyInv
  <2>1. HandlesFit /\ LookFits /\ BaselinesFit /\ Blamed
      BY DEF SteadyInv
  <2>2. Retains(mode, adapter, adapter')
    <3>1. Retains(mode, adapter, adapter)
        BY DEF Retains
    <3> QED BY <1>9, <1>10, <3>1 DEF PopIs, Serves
  <2>3. Blamed'
    <3>1. records' = records \cup {}
        BY <1>1
    <3> QED BY <1>1, <1>10, <2>1, <3>1, BlameKept
  <2> DEFINE k == handles[LookedAt]
             c == Contents(mode, adapter, k)
             rest == Contents(mode, r.adapter, r.handle)
  <2>4. k \in 1 .. Given(mode, adapter) /\ Fits(mode, c, goal)
    <3>1. states[LookedAt] = goal
        BY <1>2, <1>3 DEF StatesPlanned, HistoryType
    <3> QED BY <1>2, <1>3, <2>1, <3>1, CaseFacts DEF HistoryType, HandlesFit
  <2> HIDE DEF k
  <2>5. c \in Seq(Int)
      BY <1>2, <2>4, ContentsType
  <2>6. Contents(mode, adapter', k) = c
      BY <1>3, <1>21, <2>2 DEF k
  <2>7. /\ mode = "wrong-empty" => seen \o left = goal
        /\ mode \notin {"wrong-empty", "nonterminating-observation"} =>
             seen \o Told(mode, left) = Told(mode, c)
    <3> HIDE DEF c
    <3> QED BY <1>1, <2>1 DEF LookFits, seen, goal, left, h, c, k
  <2> HIDE DEF c, rest
  <2>8. TellsSoFar(mode, status, more, rest, c, goal)
    <3>1. more = SeenAfter(r, seen)
        BY DEF more, seen, SeenAfter
    <3>2. left = Contents(mode, adapter, h) /\ rest = Contents(mode, r.adapter, r.handle)
        BY DEF left, rest
    <3>3. status = StandsAfter(r, seen, goal)
        BY <1>11 DEF StandsAfter
    <3>4. PopIs(mode, adapter, h, r) /\ r.value \in Int /\ Fits(mode, c, goal)
        BY <1>9, <1>12, <2>4
    <3>5. /\ left \in Seq(Int) /\ c \in Seq(Int) /\ goal \in Seq(Int) /\ seen \in Seq(Int)
          /\ Len(seen) <= Len(goal)
        BY <1>3, <1>5, <1>8, <2>5
    <3> QED BY <2>7, <3>1, <3>2, <3>3, <3>4, <3>5, LookFitsOn, Zenon
  <2>9. LookFits'
    <3>1. status = "going" => Contents(mode, adapter', look'.at) = rest
      <4>1. status = "going" => at = r.handle
          BY <1>11 DEF at
      <4> QED BY <1>10, <1>16, <4>1 DEF rest
    <3>2. Contents(mode, adapter', handles'[LookedAt']) = c
        BY <1>1, <1>22, <2>6 DEF k
    <3> QED BY <1>1, <1>16, <2>8, <3>1, <3>2 DEF LookFits, TellsSoFar
  <2> QED BY <1>21, <2>1, <2>2, <2>3, <2>9
<1> QED BY <1>21, <1>23, <1>24, <1>25, <1>26, <1>27

(* What is asked at a call is answered in kind; what is refused, refused   *)
(* by the adapter that refuses, which keeps what it holds.                 *)
LEMMA AskedIs ==
  ASSUME IInv, Calling
  PROVE  Typed(mode, adapter, Asked) /\ (Refuses(mode, adapter, Asked) \/ Asked.status = "ok")
<1> USE DEF IInv
<1> DEFINE r == Asked
<1>1. HistoryType /\ LookType /\ AdapterOK(mode, adapter) /\ Given(mode, adapter) \in Nat
    BY CaseFacts, TypeParts DEF Kinds
<1>2. CASE look.status = "going"
  <2> DEFINE h == look.at
  <2>1. r = Respond(mode, adapter, "pop", h, 0)
      BY <1>2 DEF Asked
  <2>2. h \in 1 .. Given(mode, adapter)
      BY <1>1, <1>2 DEF LookType, LookPlaced
  <2> HIDE DEF h, r
  <2>3. Typed(mode, adapter, r) /\ (Refuses(mode, adapter, r) \/ r.status = "ok")
      BY <1>1, <2>1, <2>2, AnswerPop
  <2> QED BY <2>3 DEF r
<1>3. CASE look.status # "going" /\ Ready("empty")
  <2>1. r = Respond(mode, adapter, "empty", 0, 0)
      BY <1>3 DEF Asked, Ready
  <2> HIDE DEF r
  <2>2. Typed(mode, adapter, r) /\ (Refuses(mode, adapter, r) \/ Serves(mode, adapter, r, <<>>))
      BY <1>1, <2>1, AnswerEmpty
  <2>3. Typed(mode, adapter, r) /\ (Refuses(mode, adapter, r) \/ r.status = "ok")
      BY <2>2 DEF Serves
  <2> QED BY <2>3 DEF r
<1>4. ASSUME look.status # "going", NEW op \in {"push", "pop"}, Ready(op), handles[Step.source] # 0
      PROVE  Typed(mode, adapter, r) /\ (Refuses(mode, adapter, r) \/ r.status = "ok")
  <2> DEFINE h == handles[Step.source]
             v == Step.value
  <2>1. Step.op = op /\ InHistory /\ At <= Len(Steps)
      BY <1>4 DEF Ready, InHistory
  <2>2. r = Respond(mode, adapter, op, h, v)
      BY <1>4, <2>1 DEF Asked
  <2>3. h \in 1 .. Given(mode, adapter)
      BY <1>4, <2>1, SourceFacts
  <2>4. op = "push" => v \in ElementDomain
      BY <2>1, NextStep
  <2> HIDE DEF h, v, r
  <2>5. CASE op = "push"
      BY <1>1, <2>2, <2>3, <2>4, <2>5, AnswerPush
  <2>6. CASE op = "pop"
      BY <1>1, <2>2, <2>3, <2>6, AnswerPop
  <2> QED BY <2>5, <2>6
<1> QED BY <1>2, <1>3, <1>4 DEF Calling

(* The adapter refuses.                                                    *)
LEMMA AdapterRefusesKeeps == IInv /\ AdapterRefuses => IInv'
<1> SUFFICES ASSUME IInv, AdapterRefuses PROVE IInv'
    OBVIOUS
<1> USE DEF IInv
<1> DEFINE r == Asked
<1>1. /\ Calling /\ r.status # "ok" /\ failed' = "refused" /\ pc' = "summary" /\ look' = NoLook
      /\ Called(r.adapter)
      /\ plan' = plan /\ mode' = mode /\ case' = case /\ watch' = watch
      /\ handles' = handles /\ states' = states /\ baselines' = baselines
      /\ records' = records /\ outcomes' = outcomes /\ result' = result
    BY DEF AdapterRefuses, memory, report
<1>2. Typed(mode, adapter, r) /\ (Refuses(mode, adapter, r) \/ r.status = "ok")
    BY <1>1, AskedIs
<1> HIDE DEF r
<1>3. mode = "status-error" /\ r.adapter = adapter
    BY <1>1, <1>2 DEF Refuses
<1>4. /\ Grows /\ adapter' = r.adapter
      /\ forbidden' \in BOOLEAN /\ (forbidden' => forbidden \/ mode = "forbidden-event")
    BY <1>1, <1>2, CallGrows
<1>5. Retains(mode, adapter, adapter')
    BY <1>3, <1>4 DEF Retains
<1>6. RecordsType'
    BY <1>1, <1>4, TypeParts DEF RecordsType, Kinds
<1>7. LookType' /\ look' \in LookSet /\ LookPlaced' /\ LookFits'
  <2>1. Given(mode', adapter') \in Nat
      BY <1>1, <1>4 DEF Grows
  <2> QED BY <1>1, <2>1, LookEnds
<1>8. /\ Kinds' /\ StatesPlanned'
      /\ HandlesFit => HandlesFit'
      /\ BaselinesFit => BaselinesFit'
    BY <1>1, <1>4, <1>5, <1>6, <1>7, CallStep
<1>9. Position'
    BY <1>1 DEF Position
<1>10. WatchesRecorded'
    BY <1>1 DEF WatchesRecorded
<1>11. ReportFits'
  <2>1. pc # "done"
      BY <1>1, CallingOpen
  <2> QED BY <1>1, <2>1 DEF ReportFits
<1>12. EventsOwned'
    BY <1>1, <1>3, <1>4 DEF EventsOwned
<1>13. Blamed => Blamed'
  <2>1. records' = records \cup {}
      BY <1>1
  <2> QED BY <1>1, <1>4, <2>1, BlameKept
<1>14. SteadyInv'
    BY <1>1, <1>7, <1>8, <1>13 DEF SteadyInv
<1> QED BY <1>7, <1>8, <1>9, <1>10, <1>11, <1>12, <1>14

(* Nothing moves.                                                          *)
LEMMA StutterKeeps == IInv /\ UNCHANGED vars => IInv'
<1> SUFFICES ASSUME IInv, UNCHANGED vars PROVE IInv'
    OBVIOUS
<1> USE DEF IInv
<1>1. /\ Quiet /\ pc' = pc /\ watch' = watch /\ baselines' = baselines /\ look' = look
      /\ records' = records /\ forbidden' = forbidden /\ failed' = failed
      /\ outcomes' = outcomes /\ result' = result
    BY DEF vars, progress, memory, report, Quiet
<1>2. plan' = plan /\ mode' = mode /\ adapter' = adapter /\ case' = case /\ handles' = handles /\ states' = states
    BY <1>1 DEF Quiet
<1>3. /\ Steps' = Steps /\ Watches' = Watches /\ At' = At /\ Step' = Step
      /\ StatesPlanned' /\ (HandlesFit => HandlesFit') /\ (BaselinesFit => BaselinesFit')
    BY <1>1, QuietKeeps
<1>4. HistoryType /\ LookType /\ RecordsType
    BY TypeParts DEF Kinds
<1>5. Kinds'
  <2>1. LookType' /\ RecordsType'
      BY <1>1, <1>2, <1>4 DEF LookType, RecordsType
  <2>2. look' \in LookSet /\ watch' \in 1 .. Len(Watches) + 1
      BY <1>1, <1>4 DEF LookSet, Kinds, HistoryType
  <2>3. /\ DOMAIN baselines' \subseteq DOMAIN handles
        /\ baselines' \in [DOMAIN baselines' -> [seen : Seq(Int), status : Statuses]]
      BY <1>1, <1>4 DEF HistoryType, Kinds
  <2> QED BY <1>1, <2>1, <2>2, <2>3, QuietStep
<1>6. Watched' = Watched
    BY <1>1, <1>3 DEF Watched
<1>7. Position'
    BY <1>1, <1>2, <1>3, <1>6 DEF Position
<1>8. LookedAt' = LookedAt
    BY <1>1, <1>2, <1>3, <1>6 DEF LookedAt
<1>9. LookPlaced' /\ (LookFits => LookFits')
    BY <1>1, <1>2, <1>3, <1>8 DEF LookPlaced, LookFits
<1>10. WatchesRecorded'
    BY <1>1, <1>2 DEF WatchesRecorded
<1>11. ReportFits'
    BY <1>1 DEF ReportFits, Outcome, Summary
<1>12. EventsOwned'
    BY <1>1, <1>2 DEF EventsOwned
<1>13. Blamed => Blamed'
  <2>1. records' = records \cup {}
      BY <1>1
  <2> QED BY <1>1, <1>2, <2>1, BlameKept
<1>14. SteadyInv'
    BY <1>2, <1>3, <1>9, <1>13 DEF SteadyInv
<1> QED BY <1>3, <1>5, <1>7, <1>9, <1>10, <1>11, <1>12, <1>14

(* Every step.                                                             *)
LEMMA NextKeeps == IInv /\ [Next]_vars => IInv'
<1> SUFFICES ASSUME IInv, [Next]_vars PROVE IInv'
    OBVIOUS
<1>1. CASE BeginBaseline
    BY <1>1, BeginBaselineKeeps
<1>2. CASE KeepBaseline
    BY <1>2, KeepBaselineKeeps
<1>3. CASE Empty
    BY <1>3, EmptyKeeps
<1>4. CASE Push
    BY <1>4, PushKeeps
<1>5. CASE PopLost
    BY <1>5, PopLostKeeps
<1>6. CASE Pop
    BY <1>6, PopKeeps
<1>7. CASE JudgeRemainder
    BY <1>7, JudgeRemainderKeeps
<1>8. CASE HistoryDone
    BY <1>8, HistoryDoneKeeps
<1>9. CASE WatchLost
  <2>1. InWatches /\ WatchedBlind("inconclusive")
      BY <1>9 DEF WatchLost
  <2> QED BY <2>1, WatchedBlindKeeps
<1>10. CASE WatchEffects
  <2>1. InWatches /\ WatchedBlind("supports")
      BY <1>10 DEF WatchEffects
  <2> QED BY <2>1, WatchedBlindKeeps
<1>11. CASE BeginWatch
    BY <1>11, BeginWatchKeeps
<1>12. CASE JudgePersistence
    BY <1>12, JudgePersistenceKeeps
<1>13. CASE JudgeContents
    BY <1>13, JudgeContentsKeeps
<1>14. CASE Look
    BY <1>14, LookKeeps
<1>15. CASE CaseDone
    BY <1>15, CaseDoneKeeps
<1>16. CASE SessionFails
    BY <1>16, SessionFailsKeeps
<1>17. CASE AdapterRefuses
    BY <1>17, AdapterRefusesKeeps
<1>18. CASE Report
    BY <1>18, ReportKeeps
<1>19. CASE UNCHANGED vars
    BY <1>19, StutterKeeps
<1> QED BY <1>1, <1>2, <1>3, <1>4, <1>5, <1>6, <1>7, <1>8, <1>9, <1>10, <1>11, <1>12,
           <1>13, <1>14, <1>15, <1>16, <1>17, <1>18, <1>19 DEF Next

-----------------------------------------------------------------------------
(* What follows of the campaign. *)

(* The invariant holds throughout, of any valid plans and any adapters of  *)
(* the fixture (run_campaign, stack_runner.py).                            *)
THEOREM Invariance == Spec => []IInv
<1>1. Init => IInv
    BY InitOK
<1>2. IInv /\ [Next]_vars => IInv'
    BY NextKeeps
<1> QED BY <1>1, <1>2, PTL DEF Spec

(* The variables keep their types: a handle is one the adapter gave, and a *)
(* history keeps one handle and one state of each step it has made.        *)
THEOREM TypeCorrect == Spec => []TypeOK
<1>1. IInv => TypeOK
    BY DEF IInv, Kinds
<1> QED BY <1>1, Invariance, PTL

(* A faithful adapter is never challenged, at no point of any valid plan,  *)
(* and never refuses: what summarize_stack_conformance is given of a       *)
(* correct Stack has no challenge in it, also when the session fails.      *)
THEOREM NeverBlamesFaithful == Spec => []FaithfulNeverChallenged
<1>1. ASSUME IInv, mode \in Faithful PROVE Challenged = {} /\ failed # "refused"
  <2>1. Exact(mode) /\ Steady(mode) /\ Breaks(mode) = {} /\ mode # "status-error"
      BY <1>1 DEF Exact, Steady, Breaks, Faithful, InPlace, Languages
  <2>2. Challenged \subseteq Breaks(mode)
      BY <1>1, <2>1 DEF IInv, SteadyInv, Blamed
  <2>3. failed # "refused"
      BY <1>1, <2>1 DEF IInv, EventsOwned
  <2> QED BY <2>1, <2>2, <2>3
<1>2. IInv => FaithfulNeverChallenged
    BY <1>1 DEF FaithfulNeverChallenged
<1> QED BY <1>2, Invariance, PTL

(* An adapter that never changes a stack it has handed out is blamed only  *)
(* for the laws its answers contradict, whatever the valid plan that       *)
(* watches for pop-empty only what is planned to be empty.                 *)
THEOREM BlamesRightly == Spec => []BlameDeserved
<1>1. IInv => BlameDeserved
    BY DEF IInv, SteadyInv, Blamed, BlameDeserved
<1> QED BY <1>1, Invariance, PTL

(* "supports" is the result only of a campaign that made every observation *)
(* of its plan, found each of them right and was not cut short.            *)
THEOREM SupportedInFull == Spec => []SupportsIsComplete
<1>1. ASSUME IInv, result = "supports"
      PROVE  /\ failed = "no"
             /\ \A r \in records : r.result = "supports"
             /\ \A c \in DOMAIN plan : \A w \in DOMAIN plan[c].watches :
                  [case |-> c, declaration |-> plan[c].watches[w].declaration, result |-> "supports"]
                    \in records
             /\ \A d \in Declarations : \E r \in records : r.declaration = d
  <2>1. pc = "done" /\ result = Summary(outcomes) /\ outcomes = [d \in Declarations |-> Outcome(d)]
      BY <1>1 DEF IInv, ReportFits
  <2>2. failed = "no" /\ {outcomes[d] : d \in Declarations} = {"supports"}
      BY <1>1, <2>1 DEF Summary
  <2>3. \A d \in Declarations : Outcome(d) = "supports"
    <3>1. \A d \in Declarations : outcomes[d] \in {outcomes[e] : e \in Declarations}
        OBVIOUS
    <3> QED BY <2>1, <2>2, <3>1
  <2>4. \A d \in Declarations :
          {r.result : r \in {s \in records : s.declaration = d}} = {"supports"}
      BY <2>3 DEF Outcome
  <2>5. records \subseteq [case : DOMAIN plan, declaration : Declarations, result : Verdicts]
      BY <1>1, TypeParts DEF IInv, Kinds, RecordsType
  <2>6. ASSUME NEW r \in records PROVE r.result = "supports"
    <3>1. r.declaration \in Declarations
        BY <2>5
    <3>2. r.result \in {x.result : x \in {s \in records : s.declaration = r.declaration}}
        OBVIOUS
    <3> QED BY <2>4, <3>1, <3>2
  <2>7. ASSUME NEW d \in Declarations PROVE \E r \in records : r.declaration = d
    <3>1. "supports" \in {r.result : r \in {s \in records : s.declaration = d}}
        BY <2>4
    <3> QED BY <3>1
  <2>8. ASSUME NEW c \in DOMAIN plan, NEW w \in DOMAIN plan[c].watches
        PROVE  [case |-> c, declaration |-> plan[c].watches[w].declaration, result |-> "supports"]
                 \in records
    <3>1. case = Len(plan) /\ watch > Len(Watches) /\ Kinds
        BY <1>1, <2>1, <2>2 DEF IInv, Position
    <3>2. c \in 1 .. Len(plan) /\ Len(plan) \in Nat
        BY <3>1, CaseFacts
    <3>3. w \in 1 .. Len(plan[c].watches) /\ Len(plan[c].watches) \in Nat
      <4>1. plan \in Plans
          BY <3>1 DEF Kinds
      <4>2. plan[c].watches \in Seq(WatchSet)
        <5>1. SoundCase(plan[c].steps, plan[c].watches)
            BY <4>1, CasesSound
        <5> QED BY <5>1 DEF SoundCase
      <4> QED BY <4>2
    <3>4. c < case \/ (c = case /\ w < watch)
      <4>1. watch \in Nat
          BY <3>1 DEF Kinds
      <4> QED BY <3>1, <3>2, <3>3, <4>1 DEF Watches
    <3>5. PICK r \in records : r.case = c /\ r.declaration = plan[c].watches[w].declaration
        BY <1>1, <3>4 DEF IInv, WatchesRecorded
    <3>6. r = [case |-> r.case, declaration |-> r.declaration, result |-> r.result]
        BY <2>5
    <3> QED BY <2>6, <3>5, <3>6
  <2> QED BY <2>2, <2>6, <2>7, <2>8
<1>2. IInv => SupportsIsComplete
    BY <1>1 DEF SupportsIsComplete
<1> QED BY <1>2, Invariance, PTL

-----------------------------------------------------------------------------
(* The campaign comes to an end. *)

(* How far the campaign is: with its report, in the history of a case or   *)
(* in its observations, with which step or observation, where in that, and *)
(* how much of a stack it has seen.  A summary of a session that was not   *)
(* closed cleanly comes after the summary of one that still may be.        *)
Finish ==
  IF pc = "done" THEN 3 ELSE IF pc # "summary" THEN 0 ELSE IF failed = "no" THEN 1 ELSE 2

InSteps == pc \in {"step", "baseline", "remainder"}
Part    == IF InSteps THEN 0 ELSE 1
Number  == IF InSteps THEN Len(handles) ELSE watch
Owes    == At <= Len(Steps) /\ NeedsBaseline(Step.source)

Place ==
  IF pc \in {"remainder", "watch"} THEN 0
  ELSE IF pc = "observe" \/ (pc = "step" /\ Owes) THEN 1
  ELSE IF pc = "baseline" THEN 2
  ELSE 3

Seen  == IF look.status = "none" THEN 0 ELSE Len(look.seen)
Ended == IF look.status \in {"none", "going"} THEN 0 ELSE 1

Progress == <<Finish, case, Part, Number, Place, Seen, Ended>>

(* Further on: later at the first of the measures that differs.            *)
Later(p, q) ==
  \E i \in 1 .. 7 : p[i] < q[i] /\ \A j \in 1 .. i - 1 : p[j] = q[j]

(* A number that none of the measures exceeds, for a plan.                 *)
Exceeds(n, p) ==
  /\ n > 3
  /\ n > Len(p)
  /\ \A c \in DOMAIN p : n > Len(p[c].steps) + 1 /\ n > Len(p[c].watches) + 1

Extent(p) == CHOOSE n \in Nat : Exceeds(n, p)

Measured == Progress \in [1 .. 7 -> 0 .. Extent(plan)]

(* What comes first among the measures that differ.                        *)
LEMMA LaterIf ==
  ASSUME \/ Finish < Finish'
         \/ Finish' = Finish /\ case < case'
         \/ Finish' = Finish /\ case' = case /\ Part < Part'
         \/ Finish' = Finish /\ case' = case /\ Part' = Part /\ Number < Number'
         \/ Finish' = Finish /\ case' = case /\ Part' = Part /\ Number' = Number /\ Place < Place'
         \/ /\ Finish' = Finish /\ case' = case /\ Part' = Part /\ Number' = Number
            /\ Place' = Place /\ Seen < Seen'
         \/ /\ Finish' = Finish /\ case' = case /\ Part' = Part /\ Number' = Number
            /\ Place' = Place /\ Seen' = Seen /\ Ended < Ended'
  PROVE  Later(Progress, Progress')
<1> DEFINE p == Progress
           q == Progress'
<1>1. /\ p[1] = Finish /\ p[2] = case /\ p[3] = Part /\ p[4] = Number
      /\ p[5] = Place /\ p[6] = Seen /\ p[7] = Ended
    BY DEF Progress
<1>2. /\ q[1] = Finish' /\ q[2] = case' /\ q[3] = Part' /\ q[4] = Number'
      /\ q[5] = Place' /\ q[6] = Seen' /\ q[7] = Ended'
    BY DEF Progress
<1> HIDE DEF p, q
<1>3. \/ p[1] < q[1]
      \/ p[1] = q[1] /\ p[2] < q[2]
      \/ p[1] = q[1] /\ p[2] = q[2] /\ p[3] < q[3]
      \/ p[1] = q[1] /\ p[2] = q[2] /\ p[3] = q[3] /\ p[4] < q[4]
      \/ p[1] = q[1] /\ p[2] = q[2] /\ p[3] = q[3] /\ p[4] = q[4] /\ p[5] < q[5]
      \/ p[1] = q[1] /\ p[2] = q[2] /\ p[3] = q[3] /\ p[4] = q[4] /\ p[5] = q[5] /\ p[6] < q[6]
      \/ /\ p[1] = q[1] /\ p[2] = q[2] /\ p[3] = q[3] /\ p[4] = q[4] /\ p[5] = q[5]
         /\ p[6] = q[6] /\ p[7] < q[7]
    BY <1>1, <1>2
<1>4. \E i \in 1 .. 7 : p[i] < q[i] /\ \A j \in 1 .. i - 1 : p[j] = q[j]
  <2>1. CASE p[1] < q[1]
      BY <2>1
  <2>2. CASE p[1] = q[1] /\ p[2] < q[2]
    <3>1. \A j \in 1 .. 2 - 1 : p[j] = q[j]
        BY <2>2
    <3> QED BY <2>2, <3>1
  <2>3. CASE p[1] = q[1] /\ p[2] = q[2] /\ p[3] < q[3]
    <3>1. \A j \in 1 .. 3 - 1 : p[j] = q[j]
      <4>1. \A j \in 1 .. 3 - 1 : j = 1 \/ j = 2
          OBVIOUS
      <4> QED BY <2>3, <4>1
    <3> QED BY <2>3, <3>1
  <2>4. CASE p[1] = q[1] /\ p[2] = q[2] /\ p[3] = q[3] /\ p[4] < q[4]
    <3>1. \A j \in 1 .. 4 - 1 : p[j] = q[j]
      <4>1. \A j \in 1 .. 4 - 1 : j = 1 \/ j = 2 \/ j = 3
          OBVIOUS
      <4> QED BY <2>4, <4>1
    <3> QED BY <2>4, <3>1
  <2>5. CASE p[1] = q[1] /\ p[2] = q[2] /\ p[3] = q[3] /\ p[4] = q[4] /\ p[5] < q[5]
    <3>1. \A j \in 1 .. 5 - 1 : p[j] = q[j]
      <4>1. \A j \in 1 .. 5 - 1 : j = 1 \/ j = 2 \/ j = 3 \/ j = 4
          OBVIOUS
      <4> QED BY <2>5, <4>1
    <3> QED BY <2>5, <3>1
  <2>6. CASE p[1] = q[1] /\ p[2] = q[2] /\ p[3] = q[3] /\ p[4] = q[4] /\ p[5] = q[5] /\ p[6] < q[6]
    <3>1. \A j \in 1 .. 6 - 1 : p[j] = q[j]
      <4>1. \A j \in 1 .. 6 - 1 : j = 1 \/ j = 2 \/ j = 3 \/ j = 4 \/ j = 5
          OBVIOUS
      <4> QED BY <2>6, <4>1
    <3> QED BY <2>6, <3>1
  <2>7. CASE /\ p[1] = q[1] /\ p[2] = q[2] /\ p[3] = q[3] /\ p[4] = q[4] /\ p[5] = q[5]
             /\ p[6] = q[6] /\ p[7] < q[7]
    <3>1. \A j \in 1 .. 7 - 1 : p[j] = q[j]
      <4>1. \A j \in 1 .. 7 - 1 : j = 1 \/ j = 2 \/ j = 3 \/ j = 4 \/ j = 5 \/ j = 6
          OBVIOUS
      <4> QED BY <2>7, <4>1
    <3> QED BY <2>7, <3>1
  <2> QED BY <1>3, <2>1, <2>2, <2>3, <2>4, <2>5, <2>6, <2>7
<1> QED BY <1>4 DEF Later, p, q

(* A sequence with one more element is longer.                             *)
LEMMA Longer ==
  ASSUME NEW S, NEW s \in Seq(S), NEW e
  PROVE  Len(s) < Len(Append(s, e))
<1>1. s \in Seq(S \cup {e}) /\ e \in S \cup {e}
    OBVIOUS
<1> QED BY <1>1

(* What the measures have of the invariant.                                *)
LEMMA MeasureFacts ==
  ASSUME IInv
  PROVE  /\ handles \in Seq(Nat) /\ Len(handles) \in Nat /\ watch \in Nat /\ case \in Nat
         /\ look.seen \in Seq(Int) /\ Len(look.seen) \in Nat
         /\ pc \in {"step", "baseline", "remainder", "watch", "observe", "summary", "done"}
         /\ (look.status = "none") <=> (pc \in {"step", "watch", "summary", "done"})
         /\ failed # "no" => pc \in {"summary", "done"}
         /\ look \in LookSet
<1>1. Kinds /\ Position /\ LookType
    BY TypeParts DEF IInv, Kinds
<1>2. handles \in Seq(Nat) /\ watch \in Nat /\ look \in LookSet
    BY <1>1 DEF Kinds, LookSet
<1>3. case \in Nat
    BY <1>1, CaseFacts
<1>4. look.seen \in Seq(Int)
    BY <1>2 DEF LookSet
<1> QED BY <1>1, <1>2, <1>3, <1>4 DEF LookType, Position

(* One step of the history is made.                                        *)
LEMMA StepMade ==
  ASSUME IInv, pc = "step", pc' \in {"step", "remainder"}, case' = case,
         NEW h, handles' = Append(handles, h)
  PROVE  Later(Progress, Progress')
<1>1. Finish = 0 /\ Finish' = 0 /\ Part = 0 /\ Part' = 0
    BY DEF Finish, Part, InSteps
<1>2. Number = Len(handles) /\ Number' = Len(handles')
    BY DEF Number, InSteps
<1>3. Number < Number'
    BY <1>2, MeasureFacts, Longer
<1> QED BY <1>1, <1>3, LaterIf

(* One observation is made.                                                *)
LEMMA WatchMade ==
  ASSUME IInv, pc \in {"watch", "observe"}, pc' = "watch", case' = case, watch' = watch + 1
  PROVE  Later(Progress, Progress')
<1>1. Finish = 0 /\ Finish' = 0 /\ Part = 1 /\ Part' = 1
    BY DEF Finish, Part, InSteps
<1>2. Number = watch /\ Number' = watch + 1
    BY DEF Number, InSteps
<1>3. Number < Number'
    BY <1>2, MeasureFacts
<1> QED BY <1>1, <1>3, LaterIf

(* A baseline is begun where one is owed, and owed no longer once kept.    *)
LEMMA BaselineMade ==
  ASSUME IInv, BeginBaseline \/ KeepBaseline
  PROVE  Later(Progress, Progress')
<1>1. CASE BeginBaseline
  <2>1. pc = "step" /\ pc' = "baseline" /\ case' = case /\ handles' = handles /\ Owes
      BY <1>1 DEF BeginBaseline, InHistory, Owes, memory
  <2>2. Finish = 0 /\ Finish' = 0 /\ Part = 0 /\ Part' = 0
      BY <2>1 DEF Finish, Part, InSteps
  <2>3. Number' = Number
      BY <2>1 DEF Number, InSteps
  <2>4. Place = 1 /\ Place' = 2
      BY <2>1 DEF Place
  <2> QED BY <2>1, <2>2, <2>3, <2>4, LaterIf
<1>2. CASE KeepBaseline
  <2>1. /\ pc = "baseline" /\ pc' = "step" /\ case' = case /\ handles' = handles /\ plan' = plan
        /\ Step.source \in DOMAIN baselines'
      BY <1>2 DEF KeepBaseline, Looked
  <2>2. Finish = 0 /\ Finish' = 0 /\ Part = 0 /\ Part' = 0
      BY <2>1 DEF Finish, Part, InSteps
  <2>3. Number' = Number
      BY <2>1 DEF Number, InSteps
  <2>4. ~Owes'
    <3>1. Step' = Step
        BY <2>1 DEF Step, Steps, At
    <3> QED BY <2>1, <3>1 DEF Owes, NeedsBaseline
  <2>5. Place = 2 /\ Place' = 3
      BY <2>1, <2>4 DEF Place
  <2> QED BY <2>1, <2>2, <2>3, <2>5, LaterIf
<1> QED BY <1>1, <1>2

(* Each pop of a look sees one more element or is its last.                *)
LEMMA LookMade ==
  ASSUME IInv, Look
  PROVE  Later(Progress, Progress')
<1> DEFINE r == Asked
<1>1. /\ look.status = "going"
      /\ look' = [look EXCEPT !.status = StatusAfter(r),
                    !.seen = IF r.tag = "none" THEN @ ELSE Append(@, r.value),
                    !.at   = IF r.tag = "none" THEN @ ELSE r.handle]
      /\ plan' = plan /\ case' = case /\ pc' = pc /\ watch' = watch
      /\ handles' = handles /\ baselines' = baselines /\ failed' = failed
    BY DEF Look, progress, memory
<1> HIDE DEF r
<1>2. Finish' = Finish /\ Part' = Part /\ Number' = Number
    BY <1>1 DEF Finish, Part, Number, InSteps
<1>3. Place' = Place
  <2>1. Owes' = Owes
      BY <1>1 DEF Owes, NeedsBaseline, Step, Steps, At, Watches
  <2> QED BY <1>1, <2>1 DEF Place
<1>4. look \in LookSet /\ look.seen \in Seq(Int)
    BY MeasureFacts
<1>5. Seen = Len(look.seen) /\ Ended = 0
    BY <1>1 DEF Seen, Ended
<1>6. CASE r.tag = "none"
  <2>1. StatusAfter(r) \in {"complete", "early-none"}
      BY <1>6 DEF StatusAfter
  <2>2. look'.status = StatusAfter(r) /\ look'.seen = look.seen
      BY <1>1, <1>4, <1>6 DEF LookSet
  <2>3. Seen' = Seen /\ Ended' = 1
      BY <1>5, <2>1, <2>2 DEF Seen, Ended
  <2> QED BY <1>1, <1>2, <1>3, <1>5, <2>3, LaterIf
<1>7. CASE r.tag # "none"
  <2>1. StatusAfter(r) # "none"
      BY <1>7 DEF StatusAfter
  <2>2. look'.status = StatusAfter(r) /\ look'.seen = Append(look.seen, r.value)
      BY <1>1, <1>4, <1>7 DEF LookSet
  <2>3. Seen < Seen'
    <3>1. Len(look.seen) < Len(Append(look.seen, r.value))
        BY <1>4, Longer
    <3> QED BY <1>5, <2>1, <2>2, <3>1 DEF Seen
  <2> QED BY <1>1, <1>2, <1>3, <2>3, LaterIf
<1> QED BY <1>6, <1>7

(* Every step of a campaign takes it further.                              *)
LEMMA StepsOn ==
  ASSUME IInv, Next
  PROVE  Later(Progress, Progress')
<1>1. CASE BeginBaseline \/ KeepBaseline
    BY <1>1, BaselineMade
<1>2. CASE Empty
  <2>1. pc = "step" /\ pc' = pc /\ case' = case /\ handles' = Append(handles, Asked.handle)
      BY <1>2 DEF Empty, Ready, InHistory, Bind, progress
  <2> QED BY <2>1, StepMade
<1>3. CASE Push
  <2>1. pc = "step" /\ pc' = pc /\ case' = case
      BY <1>3 DEF Push, Ready, InHistory, progress
  <2>2. PICK h : handles' = Append(handles, h)
      BY <1>3 DEF Push, Bind
  <2> QED BY <2>1, <2>2, StepMade
<1>4. CASE PopLost
  <2>1. pc = "step" /\ pc' = pc /\ case' = case /\ handles' = Append(handles, 0)
      BY <1>4 DEF PopLost, Ready, InHistory, Bind, progress
  <2> QED BY <2>1, StepMade
<1>5. CASE Pop
  <2>1. pc = "step" /\ pc' \in {"step", "remainder"} /\ case' = case
      BY <1>5 DEF Pop, Ready, InHistory
  <2>2. PICK h : handles' = Append(handles, h)
      BY <1>5 DEF Pop, Bind
  <2> QED BY <2>1, <2>2, StepMade
<1>6. CASE JudgeRemainder
  <2>1. pc = "remainder" /\ pc' = "step" /\ case' = case /\ handles' = handles
      BY <1>6 DEF JudgeRemainder, Looked, memory
  <2>2. Finish' = Finish /\ Part' = Part /\ Number' = Number
      BY <2>1 DEF Finish, Part, Number, InSteps
  <2>3. Place < Place'
      BY <2>1 DEF Place
  <2> QED BY <2>1, <2>2, <2>3, LaterIf
<1>7. CASE HistoryDone
  <2>1. pc = "step" /\ pc' = "watch" /\ case' = case
      BY <1>7 DEF HistoryDone
  <2>2. Finish' = Finish /\ Part < Part'
      BY <2>1 DEF Finish, Part, InSteps
  <2> QED BY <2>1, <2>2, LaterIf
<1>8. CASE WatchLost \/ WatchEffects
  <2>1. pc = "watch" /\ pc' = pc /\ case' = case /\ watch' = watch + 1
      BY <1>8 DEF WatchLost, WatchEffects, WatchedBlind, InWatches
  <2> QED BY <2>1, WatchMade
<1>9. CASE BeginWatch
  <2>1. pc = "watch" /\ pc' = "observe" /\ case' = case /\ watch' = watch
      BY <1>9 DEF BeginWatch, InWatches
  <2>2. Finish' = Finish /\ Part' = Part /\ Number' = Number
      BY <2>1 DEF Finish, Part, Number, InSteps
  <2>3. Place < Place'
      BY <2>1 DEF Place
  <2> QED BY <2>1, <2>2, <2>3, LaterIf
<1>10. CASE JudgePersistence \/ JudgeContents
  <2>1. pc = "observe" /\ pc' = "watch" /\ case' = case /\ watch' = watch + 1
      BY <1>10 DEF JudgePersistence, JudgeContents, Looked
  <2> QED BY <2>1, WatchMade
<1>11. CASE Look
    BY <1>11, LookMade
<1>12. CASE CaseDone
  <2>1. pc = "watch" /\ failed' = failed
      BY <1>12 DEF CaseDone
  <2>2. Finish = 0
      BY <2>1 DEF Finish
  <2>3. CASE case = Len(plan)
    <3>1. pc' = "summary"
        BY <1>12, <2>3 DEF CaseDone
    <3>2. Finish < Finish'
        BY <2>2, <3>1 DEF Finish
    <3> QED BY <3>2, LaterIf
  <2>4. CASE case # Len(plan)
    <3>1. pc' = "step" /\ case' = case + 1
        BY <1>12, <2>4 DEF CaseDone
    <3>2. Finish' = 0 /\ case < case'
        BY <3>1, MeasureFacts DEF Finish
    <3> QED BY <2>2, <3>2, LaterIf
  <2> QED BY <2>3, <2>4
<1>13. CASE SessionFails \/ AdapterRefuses
  <2>1. pc' = "summary" /\ failed' # "no"
      BY <1>13 DEF SessionFails, AdapterRefuses
  <2>2. Finish' = 2
      BY <2>1 DEF Finish
  <2>3. (pc = "summary" /\ failed = "no") \/ pc \notin {"summary", "done"}
    <3>1. Kinds
        BY DEF IInv
    <3> QED BY <1>13, <3>1, CallingOpen DEF SessionFails, AdapterRefuses
  <2>4. Finish \in {0, 1}
      BY <2>3 DEF Finish
  <2> QED BY <2>2, <2>4, LaterIf
<1>14. CASE Report
  <2>1. pc = "summary" /\ pc' = "done"
      BY <1>14 DEF Report
  <2>2. Finish < Finish'
      BY <2>1 DEF Finish
  <2> QED BY <2>2, LaterIf
<1> QED BY <1>1, <1>2, <1>3, <1>4, <1>5, <1>6, <1>7, <1>8, <1>9, <1>10, <1>11, <1>12, <1>13,
           <1>14 DEF Next

(* There is a number that no measure exceeds.                              *)
LEMMA ExtentExceeds ==
  ASSUME NEW p \in Plans
  PROVE  Extent(p) \in Nat /\ Exceeds(Extent(p), p)
<1>1. Len(p) \in Nat /\ DOMAIN p = 1 .. Len(p)
      /\ \A c \in DOMAIN p : Len(p[c].steps) \in Nat /\ Len(p[c].watches) \in Nat
    BY CasesSound DEF SoundCase
<1> DEFINE High(n, c) == n > Len(p[c].steps) + 1 /\ n > Len(p[c].watches) + 1
           T == {k \in Nat : \E n \in Nat : /\ n > 3 /\ n > Len(p)
                                            /\ \A c \in DOMAIN p : c <= k => High(n, c)}
<1>2. 0 \in T
  <2> DEFINE n == Len(p) + 4
  <2>1. n \in Nat /\ n > 3 /\ n > Len(p) /\ \A c \in DOMAIN p : c <= 0 => High(n, c)
      BY <1>1
  <2> QED BY <2>1
<1>3. ASSUME NEW k \in T PROVE k + 1 \in T
  <2>1. PICK n \in Nat : n > 3 /\ n > Len(p) /\ \A c \in DOMAIN p : c <= k => High(n, c)
      OBVIOUS
  <2>2. CASE k + 1 \in DOMAIN p
    <3> DEFINE s == Len(p[k + 1].steps)
               w == Len(p[k + 1].watches)
               m == n + s + w + 2
    <3>1. s \in Nat /\ w \in Nat
        BY <1>1, <2>2
    <3>2. /\ m \in Nat /\ m > 3 /\ m > Len(p) /\ m > n
          /\ m > s + 1 /\ m > w + 1
      <4> HIDE DEF s, w
      <4>1. m \in Nat /\ m > n /\ m > s + 1 /\ m > w + 1
          BY <3>1
      <4> HIDE DEF m
      <4> QED BY <1>1, <2>1, <4>1
    <3>4. ASSUME NEW c \in DOMAIN p, c <= k + 1 PROVE High(m, c)
      <4>1. CASE c = k + 1
          BY <3>2, <4>1
      <4>2. CASE c # k + 1
        <5>1. c <= k
            BY <1>1, <3>4, <4>2
        <5>2. High(n, c) /\ Len(p[c].steps) \in Nat /\ Len(p[c].watches) \in Nat
            BY <1>1, <2>1, <5>1
        <5> HIDE DEF m
        <5> QED BY <3>2, <5>2
      <4> QED BY <4>1, <4>2
    <3> HIDE DEF m, High
    <3> QED BY <3>2, <3>4
  <2>3. CASE k + 1 \notin DOMAIN p
    <3>1. \A c \in DOMAIN p : c <= k + 1 => c <= k
        BY <1>1, <2>3
    <3> QED BY <2>1, <3>1
  <2> QED BY <2>2, <2>3
<1>4. Len(p) \in T
  <2> HIDE DEF T
  <2>1. \A k \in 1 .. Len(p) : k - 1 \in T => k \in T
    <3> TAKE k \in 1 .. Len(p)
    <3> HAVE k - 1 \in T
    <3>1. (k - 1) + 1 \in T /\ (k - 1) + 1 = k
        BY <1>1, <1>3
    <3> QED BY <3>1
  <2>2. 0 .. Len(p) \subseteq T
      BY <1>1, <1>2, <2>1, Induction
  <2> QED BY <1>1, <2>2
<1>5. PICK n \in Nat : n > 3 /\ n > Len(p) /\ \A c \in DOMAIN p : c <= Len(p) => High(n, c)
    BY <1>1, <1>4
<1>6. Exceeds(n, p)
    BY <1>1, <1>5 DEF Exceeds
<1> QED BY <1>6 DEF Extent

(* The measures stay below it.                                             *)
LEMMA MeasuredOK == IInv => Measured
<1> SUFFICES ASSUME IInv PROVE Measured
    OBVIOUS
<1> DEFINE n == Extent(plan)
           s == Len(Steps)
           w == Len(Watches)
<1>1. Kinds /\ HistoryType /\ LookType /\ LookPlaced
    BY TypeParts DEF IInv, Kinds
<1>2. plan \in Plans /\ case \in DOMAIN plan
    BY <1>1 DEF Kinds, HistoryType
<1>3. s \in Nat /\ w \in Nat /\ Len(plan) \in Nat /\ case \in 1 .. Len(plan)
    BY <1>1, CaseFacts DEF SoundCase
<1>4. n \in Nat /\ n > 3 /\ n > Len(plan) /\ n > s + 1 /\ n > w + 1
    BY <1>2, ExtentExceeds DEF Exceeds, Steps, Watches
<1>5. Finish \in 0 .. 3 /\ Part \in 0 .. 1 /\ Place \in 0 .. 3 /\ Ended \in 0 .. 1
    BY DEF Finish, Part, Place, Ended
<1>6. Number \in 0 .. n
  <2>1. Len(handles) \in Nat /\ Len(handles) <= s /\ watch \in 1 .. w + 1
      BY <1>1, MeasureFacts DEF HistoryType
  <2> HIDE DEF n, s, w
  <2> QED BY <1>3, <1>4, <2>1 DEF Number
<1>7. Seen \in 0 .. n
  <2>1. CASE look.status = "none"
      BY <1>4, <2>1 DEF Seen
  <2>2. CASE look.status # "none"
    <3>1. LookedAt \in DOMAIN handles /\ look.goal = TopFirst(Steps)[LookedAt]
        BY <1>1, <2>2 DEF LookPlaced
    <3>2. LookedAt \in DOMAIN Steps
      <4>1. Len(handles) \in Nat /\ Len(handles) <= s /\ DOMAIN handles = 1 .. Len(handles)
          BY <1>1, CaseFacts DEF HistoryType
      <4>2. DOMAIN Steps = 1 .. s
          BY <1>1, CaseFacts DEF SoundCase
      <4> QED BY <1>3, <3>1, <4>1, <4>2
    <3>3. Len(look.goal) <= s
      <4>1. ValidCase(plan[case], ElementDomain, s, s)
          BY <1>2, PlansAssumption DEF Steps
      <4>2. \A i \in DOMAIN Steps : Len(TopFirst(Steps)[i]) <= s
          BY <4>1, Zenon DEF ValidCase, Steps
      <4> QED BY <3>1, <3>2, <4>2
    <3>4. Len(look.seen) \in Nat /\ Len(look.seen) <= Len(look.goal) + 1
        BY <1>1, MeasureFacts DEF LookType
    <3>5. Len(look.goal) \in Nat
      <4>1. look.goal \in Seq(Int)
          BY MeasureFacts DEF LookSet
      <4> QED BY <4>1
    <3> HIDE DEF n, s, w
    <3>6. Len(look.seen) \in 0 .. n
        BY <1>3, <1>4, <3>3, <3>4, <3>5
    <3> QED BY <2>2, <3>6 DEF Seen
  <2> QED BY <2>1, <2>2
<1> HIDE DEF n, s, w
<1>8. /\ Finish \in 0 .. n /\ case \in 0 .. n /\ Part \in 0 .. n /\ Number \in 0 .. n
      /\ Place \in 0 .. n /\ Seen \in 0 .. n /\ Ended \in 0 .. n
    BY <1>3, <1>4, <1>5, <1>6, <1>7
<1>9. Progress \in [1 .. 7 -> 0 .. n]
    BY <1>8 DEF Progress
<1> QED BY <1>9 DEF Measured, n

(* What never falls and has a bound does not change from some point on.    *)
LEMMA ComesToRest ==
  ASSUME NEW n \in Nat, NEW v \in [Nat -> 0 .. n], NEW a \in Nat,
         \A l \in Nat : l >= a => v[l] <= v[l + 1]
  PROVE  \E b \in Nat : b >= a /\ \A l \in Nat : l >= b => v[l] = v[b]
<1> DEFINE Left == {n - v[l] : l \in {x \in Nat : x >= a}}
<1>1. \A l \in Nat : v[l] \in 0 .. n /\ n - v[l] \in Nat
    OBVIOUS
<1>2. Left \subseteq Nat /\ Left # {}
  <2>1. n - v[a] \in Left
      OBVIOUS
  <2> QED BY <1>1, <2>1
<1>3. PICK b \in Nat : b >= a /\ \A l \in Nat : l >= a => n - v[b] <= n - v[l]
  <2> HIDE DEF Left
  <2>1. PICK x \in Left : \A y \in Left : x <= y
      BY <1>2, LeastNumber
  <2>2. PICK c \in Nat : c >= a /\ x = n - v[c]
      BY DEF Left
  <2>3. \A l \in Nat : l >= a => n - v[l] \in Left
      BY DEF Left
  <2> QED BY <2>1, <2>2, <2>3
<1> DEFINE U == {d \in Nat : v[b + d] = v[b]}
<1>4. 0 \in U
    OBVIOUS
<1>5. ASSUME NEW d \in Nat, d > 0, d - 1 \in U PROVE d \in U
  <2> DEFINE l == b + (d - 1)
  <2>1. v[l] = v[b] /\ l \in Nat /\ l >= a /\ l + 1 = b + d /\ b + d \in Nat /\ b + d >= a
      BY <1>3, <1>5
  <2> HIDE DEF l
  <2>2. v[b] <= v[b + d]
    <3>1. v[l] <= v[l + 1]
        BY <2>1
    <3> QED BY <2>1, <3>1
  <2>3. n - v[b] <= n - v[b + d]
      BY <1>3, <2>1
  <2>4. v[b] \in 0 .. n /\ v[b + d] \in 0 .. n
      BY <1>1, <2>1
  <2>5. v[b + d] = v[b]
      BY <2>2, <2>3, <2>4
  <2> QED BY <1>5, <2>5
<1>6. ASSUME NEW d \in Nat PROVE v[b + d] = v[b]
  <2>1. \A c \in 1 .. d : c - 1 \in U => c \in U
    <3> HIDE DEF U
    <3> TAKE c \in 1 .. d
    <3>1. c \in Nat /\ c > 0
        OBVIOUS
    <3> QED BY <1>5, <3>1
  <2>2. 0 .. d \subseteq U
    <3> HIDE DEF U
    <3> QED BY <1>4, <2>1, Induction
  <2>3. d \in U
      BY <2>2
  <2> QED BY <2>3
<1>7. ASSUME NEW l \in Nat, l >= b PROVE v[l] = v[b]
  <2>1. l - b \in Nat /\ b + (l - b) = l
      BY <1>7
  <2> QED BY <1>6, <2>1
<1> QED BY <1>3, <1>7

(* Measures that are bounded do not get later for ever: each of them stays *)
(* where it is from some point on, one after the other.                    *)
LEMMA NotForEver ==
  ASSUME NEW n \in Nat, NEW f \in [Nat -> [1 .. 7 -> 0 .. n]]
  PROVE  \E k \in Nat : ~Later(f[k], f[k + 1])
<1> SUFFICES ASSUME \A k \in Nat : Later(f[k], f[k + 1]) PROVE FALSE
    OBVIOUS
<1> DEFINE Same(l, k, m) == \A j \in 1 .. 7 : j <= m => f[l][j] = f[k][j]
           Settled(m, k) == \A l \in Nat : l >= k => Same(l, k, m)
           T == {m \in 0 .. 7 : \E k \in Nat : Settled(m, k)}
<1>1. \A l \in Nat : \E i \in 1 .. 7 :
        f[l][i] < f[l + 1][i] /\ \A j \in 1 .. i - 1 : f[l][j] = f[l + 1][j]
    BY DEF Later
<1>2. \A l \in Nat : \A j \in 1 .. 7 : f[l][j] \in 0 .. n
    OBVIOUS
<1>3. 0 \in T
  <2>1. \A j \in 1 .. 7 : ~(j <= 0)
      OBVIOUS
  <2>2. Settled(0, 0)
      BY <2>1
  <2> HIDE DEF Settled
  <2> QED BY <2>2
<1>4. ASSUME NEW i \in 1 .. 7, i - 1 \in T PROVE i \in T
  <2>1. PICK a \in Nat : Settled(i - 1, a)
      BY <1>4
  <2> DEFINE v == [l \in Nat |-> f[l][i]]
  <2>2. v \in [Nat -> 0 .. n]
      BY <1>2
  <2>3. ASSUME NEW l \in Nat, l >= a PROVE f[l][i] <= f[l + 1][i]
    <3>1. l + 1 \in Nat /\ l + 1 >= a
        BY <2>3
    <3>2. PICK j \in 1 .. 7 : f[l][j] < f[l + 1][j] /\ \A h \in 1 .. j - 1 : f[l][h] = f[l + 1][h]
        BY <1>1
    <3>3. /\ f[l][j] \in 0 .. n /\ f[l + 1][j] \in 0 .. n
          /\ f[l][i] \in 0 .. n /\ f[l + 1][i] \in 0 .. n
        BY <1>2, <3>1
    <3> DEFINE x == f[l][j]
               y == f[l + 1][j]
               p == f[l][i]
               q == f[l + 1][i]
    <3>4. x < y /\ x \in 0 .. n /\ y \in 0 .. n /\ p \in 0 .. n /\ q \in 0 .. n
        BY <3>2, <3>3, Zenon
    <3>5. CASE j < i
      <4>1. j <= i - 1
          BY <3>5
      <4>2. x = y
          BY <2>1, <2>3, <3>1, <4>1
      <4> HIDE DEF x, y
      <4> QED BY <3>4, <4>2
    <3>6. CASE j = i
      <4>1. p = x /\ q = y
          BY <3>6
      <4> HIDE DEF x, y, p, q
      <4>2. p <= q
          BY <3>4, <4>1
      <4> QED BY <4>2 DEF p, q
    <3>7. CASE j > i
      <4>1. i \in 1 .. j - 1
          BY <3>7
      <4>2. p = q
          BY <3>2, <4>1
      <4> HIDE DEF p, q
      <4>3. p <= q
          BY <3>4, <4>2
      <4> QED BY <4>3 DEF p, q
    <3> QED BY <3>5, <3>6, <3>7
  <2>4. \A l \in Nat : l >= a => v[l] <= v[l + 1]
      BY <2>3
  <2>5. PICK b \in Nat : b >= a /\ \A l \in Nat : l >= b => v[l] = v[b]
    <3> HIDE DEF v
    <3> QED BY <2>2, <2>4, ComesToRest
  <2>6. ASSUME NEW l \in Nat, l >= b, NEW j \in 1 .. 7, j <= i PROVE f[l][j] = f[b][j]
    <3>1. CASE j = i
        BY <2>5, <2>6, <3>1
    <3>2. CASE j # i
      <4>1. j <= i - 1 /\ l >= a
          BY <2>5, <2>6, <3>2
      <4>2. f[l][j] = f[a][j] /\ f[b][j] = f[a][j]
          BY <2>1, <2>5, <4>1
      <4> QED BY <4>2
    <3> QED BY <3>1, <3>2
  <2>7. Settled(i, b)
      BY <2>6
  <2>8. \E k \in Nat : Settled(i, k)
      BY <2>7
  <2>9. i \in 0 .. 7
      OBVIOUS
  <2> HIDE DEF Settled
  <2> QED BY <2>8, <2>9
<1>5. 7 \in T
  <2> HIDE DEF T
  <2>1. \A m \in 1 .. 7 : m - 1 \in T => m \in T
      BY <1>4
  <2>2. 0 .. 7 \subseteq T
      BY <1>3, <2>1, Induction
  <2> QED BY <2>2
<1>6. PICK k \in Nat : Settled(7, k)
    BY <1>5
<1>7. PICK j \in 1 .. 7 : f[k][j] < f[k + 1][j]
    BY <1>1
<1>8. f[k + 1][j] = f[k][j]
  <2>1. k + 1 \in Nat /\ k + 1 >= k /\ j <= 7
      OBVIOUS
  <2> QED BY <1>6, <2>1
<1> DEFINE x == f[k][j]
           y == f[k + 1][j]
<1>9. x < y /\ x = y /\ x \in 0 .. n
    BY <1>2, <1>7, <1>8, Zenon
<1> HIDE DEF x, y
<1> QED BY <1>9

(* Every step of a campaign takes it further in its plan, also against an  *)
(* adapter whose stacks never become empty and wherever the session fails: *)
(* run_campaign has no loop that it may go round for ever.                 *)
THEOREM GoesOn == Spec => [][plan' = plan /\ Later(Progress, Progress')]_vars
<1>1. IInv /\ [Next]_vars => [plan' = plan /\ Later(Progress, Progress')]_vars
  <2>1. Next => plan' = plan
      BY DEF Next, BeginBaseline, KeepBaseline, Empty, Push, PopLost, Pop, JudgeRemainder,
             HistoryDone, WatchLost, WatchEffects, WatchedBlind, BeginWatch, JudgePersistence,
             JudgeContents, Look, CaseDone, SessionFails, AdapterRefuses, Report
  <2> QED BY <2>1, StepsOn
<1> QED BY <1>1, Invariance, PTL DEF Spec

(* And there is only so far to go: the measures of its progress have a     *)
(* bound that the plan sets, and no sequence of steps gets later for ever  *)
(* under it.  What is left of CampaignEnds is that some step can be made   *)
(* until the report, and is.                                               *)
THEOREM GoesNoFurther ==
  /\ Spec => []Measured
  /\ \A p \in Plans : \A f \in [Nat -> [1 .. 7 -> 0 .. Extent(p)]] :
       \E k \in Nat : ~Later(f[k], f[k + 1])
<1>1. Spec => []Measured
    BY MeasuredOK, Invariance, PTL
<1>2. \A p \in Plans : Extent(p) \in Nat
    BY ExtentExceeds
<1> QED BY <1>1, <1>2, NotForEver

=============================================================================
