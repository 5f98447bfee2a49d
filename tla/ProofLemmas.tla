----------------------------- MODULE ProofLemmas -----------------------------
(***************************************************************************)
(* What the proofs of several modules keep needing.                        *)
(*                                                                         *)
(* Induction over the naturals, from the library's fact that they are well *)
(* ordered: its induction theorems are about an operator, these are about  *)
(* a set of numbers.  A recursion over 0 .. n has a function that          *)
(* satisfies it.                                                           *)
(*                                                                         *)
(* Output that was written and not yet taken, as both conformance sessions *)
(* keep it: a sequence of pieces, of which some end a line and carry a     *)
(* number.  What is written goes to the end, what is taken comes from the  *)
(* front, and so the numbers between the two need not be counted: each     *)
(* line is compared with the one before it.                                *)
(***************************************************************************)
EXTENDS Naturals, Sequences, SequenceTheorems, WellFoundedInduction, TLAPS

-----------------------------------------------------------------------------
Below == {ss \in Nat \X Nat : ss[1] < ss[2]}

(* The natural numbers are well ordered.                                   *)
LEMMA BelowWellFounded == IsWellFoundedOn(Below, Nat)
<1>1. OpToRel(<, Nat) = Below
    BY DEF OpToRel, Below
<1> QED BY <1>1, NatLessThanWellFounded

(* Some numbers have a least one among them.                               *)
LEMMA LeastNumber ==
  ASSUME NEW T, T \subseteq Nat, T # {}
  PROVE  \E x \in T : \A y \in T : x <= y
<1>1. PICK x \in T : \A y \in T : <<y, x>> \notin Below
    BY BelowWellFounded, WFMin
<1>2. ASSUME NEW y \in T PROVE x <= y
  <2>1. <<y, x>> \in Nat \X Nat => ~(<<y, x>>[1] < <<y, x>>[2])
      BY <1>1 DEF Below
  <2>2. x \in Nat /\ y \in Nat
      OBVIOUS
  <2> QED BY <2>1, <2>2
<1> QED BY <1>2

(* What holds of 0, and of a number when it holds of the one before, holds *)
(* of all numbers up to N.                                                 *)
LEMMA Induction ==
  ASSUME NEW N \in Nat, NEW T, 0 \in T,
         \A n \in 1 .. N : n - 1 \in T => n \in T
  PROVE  0 .. N \subseteq T
<1> DEFINE Outside == 0 .. N \ T
<1>1. SUFFICES ASSUME Outside # {} PROVE FALSE
    OBVIOUS
<1>2. Outside \subseteq Nat
    OBVIOUS
<1>3. PICK x \in Outside : \A y \in Outside : x <= y
  <2> HIDE DEF Outside
  <2> QED BY <1>1, <1>2, LeastNumber
<1>4. x \in 1 .. N /\ x - 1 \in 0 .. N /\ ~(x <= x - 1)
    OBVIOUS
<1> QED BY <1>3, <1>4

(* What a recursion over 0 .. N that stays in D does at each number.       *)
StepFunctions(N, D) == [1 .. N -> [D -> D]]

(* f is what the recursion computes from a.                                *)
Computes(f, a, step, N, D) ==
  /\ f \in [0 .. N -> D]
  /\ f[0] = a
  /\ \A n \in 1 .. N : f[n] = step[n][f[n - 1]]

(* A recursion over 0 .. N has a function that satisfies it.               *)
LEMMA RecursionExists ==
  ASSUME NEW D, NEW a \in D, NEW N \in Nat, NEW step \in StepFunctions(N, D)
  PROVE  \E f : Computes(f, a, step, N, D)
<1> USE DEF StepFunctions, Computes
<1> DEFINE Partial(f, n) == Computes(f, a, step, n, D)
           Good == {n \in 0 .. N : \E f : Partial(f, n)}
<1>1. 0 \in Good
  <2>1. Partial([n \in 0 .. 0 |-> a], 0)
      OBVIOUS
  <2>2. 0 \in 0 .. N
      OBVIOUS
  <2> QED BY <2>1, <2>2
<1>2. ASSUME NEW n \in 1 .. N, n - 1 \in Good PROVE n \in Good
  <2>1. PICK f : Partial(f, n - 1)
      BY <1>2
  <2> DEFINE g == [k \in 0 .. n |-> IF k = n THEN step[n][f[n - 1]] ELSE f[k]]
  <2>2. n - 1 \in 0 .. n - 1 /\ n \in 1 .. N
      OBVIOUS
  <2>3. step[n][f[n - 1]] \in D
      BY <2>1, <2>2
  <2>4. g \in [0 .. n -> D]
      BY <2>1, <2>3
  <2>5. g[0] = a
      BY <2>1
  <2>6. ASSUME NEW k \in 1 .. n PROVE g[k] = step[k][g[k - 1]]
    <3>1. k - 1 \in 0 .. n /\ k \in 0 .. n /\ k - 1 # n
        OBVIOUS
    <3>2. g[k - 1] = f[k - 1]
        BY <3>1
    <3>3. CASE k = n
        BY <3>1, <3>2, <3>3
    <3>4. CASE k # n
      <4>1. k \in 1 .. n - 1
          BY <3>4
      <4> QED BY <2>1, <3>1, <3>2, <3>4, <4>1
    <3> QED BY <3>3, <3>4
  <2>7. Partial(g, n)
      BY <2>4, <2>5, <2>6
  <2>8. n \in 0 .. N /\ \E h : Partial(h, n)
    <3> HIDE DEF g
    <3> QED BY <2>7
  <2> QED BY <2>8
<1>3. 0 .. N \subseteq Good
  <2>1. \A n \in 1 .. N : n - 1 \in Good => n \in Good
      BY <1>2
  <2> HIDE DEF Good
  <2> QED BY <1>1, <2>1, Induction
<1>4. PICK f : Partial(f, N)
    BY <1>3
<1> QED BY <1>4

-----------------------------------------------------------------------------
(* A piece that ends a line.                                              *)
Ends(piece) == piece.body # "fragment"

(* Some piece of s ends a line.                                            *)
AnyLine(s) == \E i \in DOMAIN s : Ends(s[i])

(* Nothing ends a line in s between i and j.                               *)
NoLineWithin(s, i, j) == \A k \in i .. j : ~Ends(s[k])

FirstLine(s, i)   == Ends(s[i]) /\ NoLineWithin(s, 1, i - 1)
LastLine(s, i)    == Ends(s[i]) /\ NoLineWithin(s, i + 1, Len(s))
NextLine(s, i, j) == i < j /\ Ends(s[i]) /\ Ends(s[j]) /\ NoLineWithin(s, i + 1, j - 1)

(* The lines of s are none of the bad ones and numbered from n without a   *)
(* gap.                                                                    *)
InOrder(s, n, bad) ==
  /\ \A i \in DOMAIN s : s[i].body \notin bad
  /\ \A i \in DOMAIN s : FirstLine(s, i) => s[i].seq = n
  /\ \A i, j \in DOMAIN s : NextLine(s, i, j) => s[j].seq = s[i].seq + 1

(* If they are, m is the number of the line that comes after them.         *)
LeadsTo(s, n, m) ==
  \/ ~AnyLine(s) /\ m = n
  \/ \E i \in DOMAIN s : LastLine(s, i) /\ m = s[i].seq + 1

(* Some piece of s is this body.                                           *)
Carries(s, body) == \E i \in DOMAIN s : s[i].body = body

(* At most the end of s ends a line.                                       *)
OneLine(s) == \A i \in 1 .. Len(s) - 1 : ~Ends(s[i])

-----------------------------------------------------------------------------
(* A sequence that was added to is not empty.                              *)
LEMMA AddedTo ==
  ASSUME NEW T, NEW s \in Seq(T), NEW x \in T
  PROVE  Append(s, x) # <<>>
<1>1. Len(Append(s, x)) = Len(s) + 1 /\ Len(s) \in Nat
    OBVIOUS
<1> QED BY <1>1

(* Output that is out of order stays so, whatever is added.                *)
LEMMA DisorderStays ==
  ASSUME NEW T, NEW s \in Seq(T), NEW piece \in T, NEW n, NEW bad,
         InOrder(Append(s, piece), n, bad)
  PROVE  InOrder(s, n, bad)
<1> DEFINE t == Append(s, piece)
<1>1. DOMAIN s \subseteq DOMAIN t /\ \A i \in DOMAIN s : t[i] = s[i]
    OBVIOUS
<1>2. \A i \in DOMAIN s : FirstLine(s, i) => FirstLine(t, i)
    BY <1>1 DEF FirstLine, NoLineWithin
<1>3. \A i, j \in DOMAIN s : NextLine(s, i, j) => NextLine(t, i, j)
    BY <1>1 DEF NextLine, NoLineWithin
<1> HIDE DEF t
<1>4. InOrder(t, n, bad)
    BY DEF t
<1> QED BY <1>1, <1>2, <1>3, <1>4 DEF InOrder

(* Ordered output takes a further piece in order if it ends no line, or a  *)
(* line that is good and has the next number; and only then.               *)
LEMMA AppendInOrder ==
  ASSUME NEW T, NEW s \in Seq(T), NEW piece \in T, NEW n, NEW m, NEW bad,
         "fragment" \notin bad, InOrder(s, n, bad), LeadsTo(s, n, m)
  PROVE  InOrder(Append(s, piece), n, bad)
           <=> (Ends(piece) => piece.body \notin bad /\ piece.seq = m)
<1> DEFINE t == Append(s, piece)
           e == Len(s) + 1
<1>1. /\ DOMAIN t = DOMAIN s \cup {e}
      /\ \A i \in DOMAIN s : t[i] = s[i]
      /\ t[e] = piece
      /\ DOMAIN s = 1 .. Len(s) /\ Len(s) \in Nat /\ Len(t) = e
    OBVIOUS
<1> HIDE DEF t
<1>2. \A i \in DOMAIN s : FirstLine(s, i) <=> FirstLine(t, i)
    BY <1>1 DEF FirstLine, NoLineWithin
<1>3. \A i, j \in DOMAIN s : NextLine(s, i, j) <=> NextLine(t, i, j)
    BY <1>1 DEF NextLine, NoLineWithin
<1>4. FirstLine(t, e) <=> Ends(piece) /\ ~AnyLine(s)
    BY <1>1 DEF FirstLine, NoLineWithin, AnyLine
<1>5. \A i \in DOMAIN s : NextLine(t, i, e) <=> Ends(piece) /\ LastLine(s, i)
    BY <1>1 DEF NextLine, NoLineWithin, LastLine
<1>6. \A i \in DOMAIN t : ~NextLine(t, e, i)
    BY <1>1 DEF NextLine
<1>7. ASSUME NEW i \in DOMAIN s, NEW j \in DOMAIN s, LastLine(s, i), LastLine(s, j)
      PROVE  i = j
    BY <1>1, <1>7 DEF LastLine, NoLineWithin
<1>8. ~AnyLine(s) => m = n
    BY DEF LeadsTo, AnyLine, LastLine
<1>9. \A i \in DOMAIN s : LastLine(s, i) => m = s[i].seq + 1
    BY <1>7 DEF LeadsTo, AnyLine, LastLine
<1>10. AnyLine(s) => \E i \in DOMAIN s : LastLine(s, i)
    BY DEF LeadsTo
<1>11. ASSUME Ends(piece) => piece.body \notin bad /\ piece.seq = m PROVE InOrder(t, n, bad)
  <2>1. \A i \in DOMAIN t : t[i].body \notin bad
      BY <1>1, <1>11 DEF InOrder, Ends
  <2>2. \A i \in DOMAIN t : FirstLine(t, i) => t[i].seq = n
      BY <1>1, <1>2, <1>4, <1>8, <1>11 DEF InOrder
  <2>3. ASSUME NEW i \in DOMAIN t, NEW j \in DOMAIN t, NextLine(t, i, j)
        PROVE  t[j].seq = t[i].seq + 1
      BY <1>1, <1>3, <1>5, <1>6, <1>9, <1>11, <2>3 DEF InOrder
  <2> QED BY <2>1, <2>2, <2>3 DEF InOrder
<1>12. ASSUME InOrder(t, n, bad), Ends(piece) PROVE piece.body \notin bad /\ piece.seq = m
  <2>1. piece.body \notin bad
      BY <1>1, <1>12 DEF InOrder
  <2>2. CASE AnyLine(s)
      BY <1>1, <1>5, <1>9, <1>10, <1>12, <2>2 DEF InOrder
  <2>3. CASE ~AnyLine(s)
      BY <1>1, <1>4, <1>8, <1>12, <2>3 DEF InOrder
  <2> QED BY <2>1, <2>2, <2>3
<1> QED BY <1>11, <1>12 DEF t

(* A further line in order moves the number that comes next.               *)
LEMMA AppendLeadsTo ==
  ASSUME NEW T, NEW s \in Seq(T), NEW piece \in T, NEW n, NEW m, LeadsTo(s, n, m),
         Ends(piece) => piece.seq = m
  PROVE  LeadsTo(Append(s, piece), n, IF Ends(piece) THEN m + 1 ELSE m)
<1> DEFINE t == Append(s, piece)
           e == Len(s) + 1
<1>1. /\ DOMAIN t = DOMAIN s \cup {e}
      /\ \A i \in DOMAIN s : t[i] = s[i]
      /\ t[e] = piece
      /\ DOMAIN s = 1 .. Len(s) /\ Len(s) \in Nat /\ Len(t) = e
    OBVIOUS
<1> SUFFICES LeadsTo(t, n, IF Ends(piece) THEN m + 1 ELSE m)
    OBVIOUS
<1> HIDE DEF t
<1>2. CASE Ends(piece)
    BY <1>1, <1>2 DEF LeadsTo, LastLine, NoLineWithin
<1>3. CASE ~Ends(piece)
  <2>1. AnyLine(t) <=> AnyLine(s)
      BY <1>1, <1>3 DEF AnyLine
  <2>2. \A i \in DOMAIN s : LastLine(s, i) => LastLine(t, i)
      BY <1>1, <1>3 DEF LastLine, NoLineWithin
  <2>3. ASSUME NEW i \in DOMAIN s, LastLine(s, i), m = s[i].seq + 1 PROVE LeadsTo(t, n, m)
      BY <1>1, <2>2, <2>3 DEF LeadsTo
  <2>4. ASSUME ~AnyLine(s), m = n PROVE LeadsTo(t, n, m)
      BY <2>1, <2>4 DEF LeadsTo
  <2> QED BY <1>3, <2>3, <2>4 DEF LeadsTo
<1> QED BY <1>2, <1>3

(* What comes before the first line can go.                                *)
LEMMA DropInOrder ==
  ASSUME NEW T, NEW s \in Seq(T), NEW f \in DOMAIN s, NEW t \in Seq(T), NEW n, NEW m, NEW bad,
         "fragment" \notin bad, FirstLine(s, f),
         Len(t) = Len(s) - f + 1, \A i \in DOMAIN t : t[i] = s[i + f - 1]
  PROVE  /\ InOrder(t, n, bad) <=> InOrder(s, n, bad)
         /\ LeadsTo(s, n, m) => LeadsTo(t, n, m)
         /\ OneLine(s) => OneLine(t)
         /\ \A body : body # "fragment" => (Carries(t, body) <=> Carries(s, body))
         /\ AnyLine(s)
<1>1. /\ Len(s) \in Nat /\ DOMAIN s = 1 .. Len(s) /\ DOMAIN t = 1 .. Len(t)
      /\ f \in 1 .. Len(s) /\ 1 \in DOMAIN t
    OBVIOUS
<1>2. \A i \in DOMAIN s : i < f => s[i].body = "fragment"
    BY <1>1 DEF FirstLine, NoLineWithin, Ends
<1>3. ASSUME NEW i \in DOMAIN s, i >= f
      PROVE  /\ i - f + 1 \in DOMAIN t
             /\ t[i - f + 1] = s[i]
             /\ (i - f + 1) + f - 1 = i
  <2>1. i - f + 1 \in DOMAIN t /\ (i - f + 1) + f - 1 = i
      BY <1>1, <1>3
  <2> QED BY <2>1
<1>4. \A i \in DOMAIN t : i + f - 1 \in DOMAIN s /\ i + f - 1 >= f
    BY <1>1
<1>5. \A i \in DOMAIN t : FirstLine(t, i) <=> FirstLine(s, i + f - 1)
  <2>1. ASSUME NEW i \in DOMAIN t PROVE FirstLine(t, i) <=> i = 1
    <3>1. Ends(t[1])
        BY <1>1 DEF FirstLine
    <3>2. i \in Nat /\ (i # 1 => 1 \in 1 .. i - 1)
        BY <1>1
    <3>3. FirstLine(t, i) => i = 1
        BY <3>1, <3>2 DEF FirstLine, NoLineWithin
    <3>4. FirstLine(t, 1)
        BY <3>1 DEF FirstLine, NoLineWithin
    <3> QED BY <3>3, <3>4
  <2>2. ASSUME NEW i \in DOMAIN s PROVE FirstLine(s, i) <=> i = f
      BY <1>1 DEF FirstLine, NoLineWithin
  <2> QED BY <1>1, <1>4, <2>1, <2>2
<1>6. \A i, j \in DOMAIN t : NextLine(t, i, j) <=> NextLine(s, i + f - 1, j + f - 1)
  <2> TAKE i, j \in DOMAIN t
  <2>1. ASSUME NoLineWithin(t, i + 1, j - 1) PROVE NoLineWithin(s, i + f, j + f - 2)
    <3> SUFFICES ASSUME NEW k \in i + f .. j + f - 2 PROVE ~Ends(s[k])
        BY DEF NoLineWithin
    <3>1. k \in DOMAIN s /\ k >= f /\ k - f + 1 \in i + 1 .. j - 1
        BY <1>1
    <3> QED BY <1>3, <2>1, <3>1 DEF NoLineWithin
  <2>2. ASSUME NoLineWithin(s, i + f, j + f - 2) PROVE NoLineWithin(t, i + 1, j - 1)
    <3> SUFFICES ASSUME NEW k \in i + 1 .. j - 1 PROVE ~Ends(t[k])
        BY DEF NoLineWithin
    <3>1. k \in DOMAIN t /\ k + f - 1 \in i + f .. j + f - 2
        BY <1>1
    <3> QED BY <2>2, <3>1 DEF NoLineWithin
  <2>3. /\ (i + f - 1) + 1 = i + f
        /\ (j + f - 1) - 1 = j + f - 2
        /\ i < j <=> i + f - 1 < j + f - 1
        /\ t[i] = s[i + f - 1] /\ t[j] = s[j + f - 1]
      BY <1>1
  <2> QED BY <2>1, <2>2, <2>3 DEF NextLine
<1>7. ASSUME NEW i \in DOMAIN t, LastLine(s, i + f - 1) PROVE LastLine(t, i)
  <2>1. ASSUME NEW k \in i + 1 .. Len(t) PROVE ~Ends(t[k])
    <3>1. k \in DOMAIN t /\ k + f - 1 \in (i + f - 1) + 1 .. Len(s)
        BY <1>1
    <3> QED BY <1>7, <3>1 DEF LastLine, NoLineWithin
  <2> QED BY <1>7, <2>1 DEF LastLine, NoLineWithin
<1>8. InOrder(s, n, bad) => InOrder(t, n, bad)
    BY <1>1, <1>4, <1>5, <1>6 DEF InOrder
<1>9. ASSUME InOrder(t, n, bad) PROVE InOrder(s, n, bad)
  <2>1. ASSUME NEW i \in DOMAIN s PROVE s[i].body \notin bad
    <3>1. CASE i < f
        BY <1>2, <3>1
    <3>2. CASE i >= f
        BY <1>3, <1>9, <3>2 DEF InOrder
    <3> QED BY <1>1, <3>1, <3>2
  <2>2. \A i \in DOMAIN s : FirstLine(s, i) => s[i].seq = n
    <3> TAKE i \in DOMAIN s
    <3> HAVE FirstLine(s, i)
    <3>1. i >= f
        BY <1>1, <1>2 DEF FirstLine, Ends
    <3>2. i - f + 1 \in DOMAIN t /\ t[i - f + 1] = s[i] /\ (i - f + 1) + f - 1 = i
        BY <1>3, <3>1
    <3> QED BY <1>5, <1>9, <3>2 DEF InOrder
  <2>3. \A i, j \in DOMAIN s : NextLine(s, i, j) => s[j].seq = s[i].seq + 1
    <3> TAKE i, j \in DOMAIN s
    <3> HAVE NextLine(s, i, j)
    <3>1. i >= f /\ j >= f
        BY <1>1, <1>2 DEF NextLine, Ends
    <3>2. /\ i - f + 1 \in DOMAIN t /\ t[i - f + 1] = s[i] /\ (i - f + 1) + f - 1 = i
          /\ j - f + 1 \in DOMAIN t /\ t[j - f + 1] = s[j] /\ (j - f + 1) + f - 1 = j
        BY <1>3, <3>1
    <3> QED BY <1>6, <1>9, <3>2 DEF InOrder
  <2> QED BY <2>1, <2>2, <2>3 DEF InOrder
<1>10. LeadsTo(s, n, m) => LeadsTo(t, n, m)
  <2> HAVE LeadsTo(s, n, m)
  <2>1. PICK i \in DOMAIN s : LastLine(s, i) /\ m = s[i].seq + 1
      BY DEF LeadsTo, AnyLine, FirstLine
  <2>2. i >= f
      BY <1>1, <1>2, <2>1 DEF LastLine, Ends
  <2>3. i - f + 1 \in DOMAIN t /\ t[i - f + 1] = s[i] /\ (i - f + 1) + f - 1 = i
      BY <1>3, <2>2
  <2> QED BY <1>7, <2>1, <2>3 DEF LeadsTo
<1>11. AnyLine(s)
    BY DEF AnyLine, FirstLine
<1>12. OneLine(s) => OneLine(t)
  <2> SUFFICES ASSUME OneLine(s), NEW i \in 1 .. Len(t) - 1 PROVE ~Ends(t[i])
      BY DEF OneLine
  <2>1. i \in DOMAIN t /\ i + f - 1 \in 1 .. Len(s) - 1
      BY <1>1
  <2> QED BY <2>1 DEF OneLine
<1>13. ASSUME NEW body, body # "fragment", NEW i \in DOMAIN s, s[i].body = body
       PROVE  \E k \in DOMAIN t : t[k].body = body
  <2>1. i >= f
      BY <1>1, <1>2, <1>13
  <2> QED BY <1>3, <1>13, <2>1
<1>14. ASSUME NEW body, NEW i \in DOMAIN t, t[i].body = body
       PROVE  \E k \in DOMAIN s : s[k].body = body
    BY <1>4, <1>14
<1> QED BY <1>8, <1>9, <1>10, <1>11, <1>12, <1>13, <1>14 DEF Carries

(* The runner's buffer b comes before the pipe p.                          *)
Joined(b, p) == b \o p

(* A line is taken from the buffer, with what comes before it.             *)
Taken(b, f, p) == <<b[f]>> \o (SubSeq(b, f + 1, Len(b)) \o p)

(* The line and what follows it are the end of what there was.             *)
LEMMA TakeLine ==
  ASSUME NEW T, NEW b \in Seq(T), NEW p \in Seq(T), NEW f \in DOMAIN b
  PROVE  /\ Joined(b, p) \in Seq(T) /\ Taken(b, f, p) \in Seq(T)
         /\ f \in DOMAIN Joined(b, p)
         /\ \A i \in DOMAIN b : Joined(b, p)[i] = b[i]
         /\ Len(Taken(b, f, p)) = Len(Joined(b, p)) - f + 1
         /\ \A i \in DOMAIN Taken(b, f, p) : Taken(b, f, p)[i] = Joined(b, p)[i + f - 1]
<1> DEFINE rest == SubSeq(b, f + 1, Len(b))
           tail == rest \o p
           s    == b \o p
           t    == <<b[f]>> \o tail
           u    == Len(b)
           v    == Len(p)
<1>1. u \in Nat /\ v \in Nat /\ DOMAIN b = 1 .. u /\ f \in 1 .. u /\ b[f] \in T
    OBVIOUS
<1>2. /\ rest \in Seq(T) /\ Len(rest) = u - f
      /\ \A i \in 1 .. u - f : rest[i] = b[i + f]
  <2>1. f + 1 \in 1 .. u + 1 /\ u \in f .. u /\ u - (f + 1) + 1 = u - f
      BY <1>1
  <2>2. \A i \in f + 1 .. u : b[i] \in T
      BY <1>1, ElementOfSeq
  <2>3. CASE f + 1 <= u
    <3>1. f + 1 \in Int /\ u \in Int
        BY <1>1
    <3>2. /\ rest \in Seq(T) /\ Len(rest) = IF f + 1 <= u THEN u - (f + 1) + 1 ELSE 0
          /\ \A i \in 1 .. u - (f + 1) + 1 : rest[i] = b[f + 1 + i - 1]
        BY <2>2, <3>1, SubSeqProperties
    <3>3. \A i \in 1 .. u - f : f + 1 + i - 1 = i + f
        BY <1>1
    <3> QED BY <2>1, <2>3, <3>2, <3>3
  <2>4. CASE ~(f + 1 <= u)
    <3>1. f = u
        BY <1>1, <2>4
    <3>2. rest = << >>
        BY <1>1, <3>1, SubSeqEmpty
    <3> QED BY <1>1, <3>1, <3>2
  <2> QED BY <2>3, <2>4
<1> HIDE DEF rest
<1>3. /\ tail \in Seq(T) /\ Len(tail) = Len(rest) + v
      /\ \A i \in 1 .. Len(rest) + v :
           tail[i] = IF i <= Len(rest) THEN rest[i] ELSE p[i - Len(rest)]
    BY <1>2, ConcatProperties
<1>4. /\ tail \in Seq(T) /\ Len(tail) = (u - f) + v
      /\ \A i \in 1 .. (u - f) + v :
           tail[i] = IF i <= u - f THEN rest[i] ELSE p[i - (u - f)]
    BY <1>2, <1>3
<1>5. /\ s \in Seq(T) /\ Len(s) = u + v
      /\ \A i \in 1 .. u + v : s[i] = IF i <= u THEN b[i] ELSE p[i - u]
    BY ConcatProperties
<1> HIDE DEF tail
<1>6. <<b[f]>> \in Seq(T) /\ Len(<<b[f]>>) = 1 /\ <<b[f]>>[1] = b[f]
    BY <1>1
<1>7. /\ t \in Seq(T) /\ Len(t) = 1 + Len(tail)
      /\ \A i \in 1 .. 1 + Len(tail) : t[i] = IF i <= 1 THEN <<b[f]>>[i] ELSE tail[i - 1]
    BY <1>4, <1>6, ConcatProperties
<1> HIDE DEF s, t
<1>8. 1 + ((u - f) + v) = 1 + (u - f) + v
    BY <1>1
<1>9. /\ Len(t) = 1 + (u - f) + v /\ DOMAIN t = 1 .. 1 + (u - f) + v
      /\ t[1] = b[f]
      /\ \A i \in 2 .. 1 + (u - f) + v : t[i] = tail[i - 1]
  <2>1. Len(t) = 1 + (u - f) + v /\ 1 \in 1 .. 1 + (u - f) + v
      BY <1>1, <1>4, <1>7, <1>8
  <2>2. DOMAIN t = 1 .. Len(t)
      BY <1>7
  <2>3. \A i \in 2 .. 1 + (u - f) + v : i \in 1 .. 1 + (u - f) + v /\ ~(i <= 1)
      BY <1>1
  <2> QED BY <1>4, <1>6, <1>7, <1>8, <2>1, <2>2, <2>3
<1>10. DOMAIN s = 1 .. u + v
    BY <1>5
<1> HIDE DEF u, v
<1>11. f \in DOMAIN s /\ \A i \in DOMAIN b : s[i] = b[i]
    BY <1>1, <1>5, <1>10
<1>12. Len(t) = Len(s) - f + 1
    BY <1>1, <1>5, <1>9
<1>13. ASSUME NEW i \in DOMAIN t PROVE t[i] = s[i + f - 1]
  <2> DEFINE k == i + f - 1
  <2>1. i \in 1 .. 1 + (u - f) + v
      BY <1>9
  <2>2. /\ k \in 1 .. u + v
        /\ i = 1 => k = f
        /\ i # 1 => i \in 2 .. 1 + (u - f) + v /\ i - 1 \in 1 .. (u - f) + v
        /\ i # 1 /\ i - 1 <= u - f => i - 1 \in 1 .. u - f /\ (i - 1) + f = k /\ k <= u
        /\ i # 1 /\ ~(i - 1 <= u - f) => (i - 1) - (u - f) = k - u /\ ~(k <= u)
    <3>1. k \in 1 .. u + v
        BY <1>1, <2>1
    <3>2. i = 1 => k = f
        BY <1>1
    <3>3. i # 1 => i \in 2 .. 1 + (u - f) + v /\ i - 1 \in 1 .. (u - f) + v
        BY <1>1, <2>1
    <3>4. i # 1 /\ i - 1 <= u - f => i - 1 \in 1 .. u - f /\ (i - 1) + f = k /\ k <= u
        BY <1>1, <2>1
    <3>5. i # 1 /\ ~(i - 1 <= u - f) => (i - 1) - (u - f) = k - u /\ ~(k <= u)
        BY <1>1, <2>1
    <3> QED BY <3>1, <3>2, <3>3, <3>4, <3>5
  <2> HIDE DEF k
  <2>3. s[k] = IF k <= u THEN b[k] ELSE p[k - u]
      BY <1>5, <2>2
  <2>4. CASE i = 1
      BY <1>1, <1>9, <1>11, <2>2, <2>4
  <2>5. CASE i # 1 /\ i - 1 <= u - f
    <3>1. t[i] = tail[i - 1] /\ tail[i - 1] = rest[i - 1] /\ rest[i - 1] = b[k]
        BY <1>2, <1>4, <1>9, <2>2, <2>5
    <3> QED BY <2>2, <2>3, <2>5, <3>1 DEF k
  <2>6. CASE i # 1 /\ ~(i - 1 <= u - f)
    <3>1. t[i] = tail[i - 1] /\ tail[i - 1] = p[(i - 1) - (u - f)]
        BY <1>4, <1>9, <2>2, <2>6
    <3> QED BY <2>2, <2>3, <2>6, <3>1 DEF k
  <2> QED BY <2>4, <2>5, <2>6 DEF k
<1>14. s \in Seq(T) /\ t \in Seq(T)
    BY <1>5, <1>7
<1> QED BY <1>11, <1>12, <1>13, <1>14 DEF s, t, tail, rest, Joined, Taken

(* So taking a line leaves what is still to come in order, or out of it.   *)
LEMMA TakeInOrder ==
  ASSUME NEW T, NEW b \in Seq(T), NEW p \in Seq(T), NEW f \in DOMAIN b, FirstLine(b, f)
  PROVE  /\ \A n, bad : "fragment" \notin bad =>
              (InOrder(Taken(b, f, p), n, bad) <=> InOrder(Joined(b, p), n, bad))
         /\ \A n, m : LeadsTo(Joined(b, p), n, m) => LeadsTo(Taken(b, f, p), n, m)
         /\ OneLine(Joined(b, p)) => OneLine(Taken(b, f, p))
         /\ \A body : body # "fragment" =>
              (Carries(Taken(b, f, p), body) <=> Carries(Joined(b, p), body))
         /\ AnyLine(Joined(b, p))
<1> DEFINE s == Joined(b, p)
           t == Taken(b, f, p)
<1>1. /\ s \in Seq(T) /\ t \in Seq(T) /\ f \in DOMAIN s
      /\ \A i \in DOMAIN b : s[i] = b[i]
      /\ Len(t) = Len(s) - f + 1
      /\ \A i \in DOMAIN t : t[i] = s[i + f - 1]
    BY TakeLine
<1> HIDE DEF s, t
<1>2. FirstLine(s, f)
  <2>1. DOMAIN b = 1 .. Len(b) /\ Len(b) \in Nat
      OBVIOUS
  <2>2. \A j \in 1 .. f - 1 : j \in DOMAIN b
      BY <2>1
  <2> QED BY <1>1, <2>2 DEF FirstLine, NoLineWithin
<1>3. ASSUME NEW n, NEW m, NEW bad, "fragment" \notin bad
      PROVE  /\ InOrder(t, n, bad) <=> InOrder(s, n, bad)
             /\ LeadsTo(s, n, m) => LeadsTo(t, n, m)
             /\ OneLine(s) => OneLine(t)
             /\ \A x : x # "fragment" => (Carries(t, x) <=> Carries(s, x))
             /\ AnyLine(s)
    BY <1>1, <1>2, <1>3, DropInOrder
<1>4. "fragment" \notin {}
    OBVIOUS
<1> QED BY <1>3, <1>4 DEF s, t

(* If that line was all there was, nothing is left behind it.              *)
LEMMA TakeOnly ==
  ASSUME NEW T, NEW b \in Seq(T), NEW p \in Seq(T), NEW f \in DOMAIN b, Ends(b[f]),
         OneLine(Joined(b, p))
  PROVE  SubSeq(b, f + 1, Len(b)) \o p = <<>>
<1> DEFINE u == Len(b)
           v == Len(p)
<1>1. u \in Nat /\ v \in Nat /\ f \in 1 .. u
    OBVIOUS
<1>2. Len(Joined(b, p)) = u + v /\ Joined(b, p)[f] = b[f]
  <2>1. Len(b \o p) = Len(b) + Len(p)
      BY ConcatProperties
  <2> QED BY <2>1, TakeLine DEF Joined
<1>3. ~(f \in 1 .. u + v - 1)
    BY <1>2 DEF OneLine
<1> HIDE DEF u, v
<1>4. f = u /\ v = 0
    BY <1>1, <1>3
<1>5. SubSeq(b, f + 1, Len(b)) = <<>>
  <2>1. f + 1 \in Int /\ Len(b) \in Int /\ Len(b) < f + 1
      BY <1>1, <1>4 DEF u
  <2> QED BY <2>1, SubSeqEmpty
<1>6. p = <<>>
    BY <1>4 DEF v
<1>7. <<>> \o <<>> = <<>>
    OBVIOUS
<1> QED BY <1>5, <1>6, <1>7

-----------------------------------------------------------------------------
(* How much of a session is over: a child's life l, the r streams it gave  *)
(* up, the thread t that reads stderr, the w pieces of output, the d       *)
(* things found of stdout, the phase p of the runner, its q calls made and *)
(* its place c in a call.                                                  *)
Weight(l, r, t, w, d, p, q, c) == 4 * l + r + t + 2 * w + d + 4 * (p + q) + c

MostWeight(w, q) == 54 + 2 * w + 4 * q

(* A session has so much weight at most.                                   *)
LEMMA WeightBound ==
  \A m \in Nat, n \in Nat :
    \A l \in 0 .. 2, r \in 0 .. 3, t \in 0 .. 2, w \in 0 .. m, d \in 0 .. 2,
       p \in 0 .. 9, q \in 0 .. n, c \in 0 .. 3 :
      Weight(l, r, t, w, d, p, q, c) \in 0 .. MostWeight(m, n)
BY DEF Weight, MostWeight

=============================================================================
