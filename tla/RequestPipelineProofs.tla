------------------------ MODULE RequestPipelineProofs ------------------------
(***************************************************************************)
(* Proofs about the gateway's request pipeline, for every list of custom   *)
(* rules and every outcome of the checks.                                  *)
(*                                                                         *)
(* First what the code's sort and its loop over the rules compute: the     *)
(* loop is a recursive function, and what it answers at each place is      *)
(* shown by a least counterexample (LeastNat).  Then the inductive         *)
(* invariant: Deciding says, for each stage, which denials and which       *)
(* matches to count the checks so far have ruled out.                      *)
(***************************************************************************)
EXTENDS RequestPipeline, FiniteSetTheorems, WellFoundedInduction, TLAPS

\* A set of naturals that is not empty has a least element.
LEMMA LeastNat ==
  ASSUME NEW S \in SUBSET Nat, S # {}
  PROVE  \E x \in S : \A y \in S : x <= y
<1> DEFINE R == OpToRel(<, Nat)
           Lt(x, y) == <<x, y>> \in R
<1>1. \A x, y \in Nat : x < y => Lt(x, y)
  BY Zenon DEF OpToRel
<1>2. IsWellFoundedOn(R, Nat)
  BY NatLessThanWellFounded
<1> HIDE DEF R
<1>3. \E x \in S : \A y \in S : ~Lt(y, x)
  BY <1>2, WFMin
<1> HIDE DEF Lt
<1> QED
  BY <1>1, <1>3

-----------------------------------------------------------------------------
(***************************************************************************)
(* parseCustomRules: sort.SliceStable.                                     *)
(***************************************************************************)

\* The fields of a rule in a list.
LEMMA RuleFields ==
  ASSUME NEW rules \in Seq(CustomRule), NEW i \in 1 .. Len(rules)
  PROVE  /\ rules[i].priority \in Int
         /\ rules[i].applies \in BOOLEAN
         /\ rules[i].action \in {"block", "count", "allow", "terminal_allow"}
<1>1. rules[i] \in CustomRule
  OBVIOUS
<1> QED
  BY <1>1, PipelineAssumption DEF CustomRule

\* Before is a strict total order of a list.
LEMMA BeforeOrder ==
  ASSUME NEW rules \in Seq(CustomRule)
  PROVE  /\ DOMAIN rules = 1 .. Len(rules)
         /\ \A i \in DOMAIN rules : ~Before(rules, i, i)
         /\ \A i, j \in DOMAIN rules : i = j \/ Before(rules, i, j) \/ Before(rules, j, i)
         /\ \A i, j \in DOMAIN rules : ~(Before(rules, i, j) /\ Before(rules, j, i))
         /\ \A i, j, k \in DOMAIN rules :
              Before(rules, i, j) /\ Before(rules, j, k) => Before(rules, i, k)
<1> DEFINE p(i) == rules[i].priority
           B(i, j) == Before(rules, i, j)
<1>1. DOMAIN rules = 1 .. Len(rules) /\ Len(rules) \in Nat
  OBVIOUS
<1>2. \A i \in DOMAIN rules : p(i) \in Int
  BY <1>1, RuleFields
<1>3. \A i, j \in DOMAIN rules : B(i, j) <=> (p(i) < p(j) \/ (p(i) = p(j) /\ i < j))
  BY DEF Before
<1> HIDE DEF p, B
<1>4. /\ \A i \in DOMAIN rules : ~B(i, i)
      /\ \A i, j \in DOMAIN rules : i = j \/ B(i, j) \/ B(j, i)
      /\ \A i, j \in DOMAIN rules : ~(B(i, j) /\ B(j, i))
      /\ \A i, j, k \in DOMAIN rules : B(i, j) /\ B(j, k) => B(i, k)
  BY <1>1, <1>2, <1>3, SMTT(30)
<1> QED
  BY <1>1, <1>4 DEF B

\* The sorted list is the list, rearranged by a bijection that follows Before.
Rearranges(f, rules) ==
  LET D == 1 .. Len(rules)
  IN /\ f \in [D -> D]
     /\ \A n \in D : ByPriority(rules)[n] = rules[f[n]]
     /\ \A m, n \in D : m < n => Before(rules, f[m], f[n])
     /\ \A i \in D : \E n \in D : f[n] = i

\* SliceStable rearranges the list.
LEMMA SortRearranges ==
  ASSUME NEW rules \in Seq(CustomRule)
  PROVE  /\ ByPriority(rules) \in Seq(CustomRule)
         /\ Len(ByPriority(rules)) = Len(rules)
         /\ \E f : Rearranges(f, rules)
<1> DEFINE D == DOMAIN rules
           L == Len(rules)
           B(i, j) == Before(rules, i, j)
           Upto(i) == {j \in D : ~B(i, j)}
           P(i) == Cardinality(Upto(i))
<1>1. L \in Nat /\ D = 1 .. L
  OBVIOUS
<1>2. IsFiniteSet(D) /\ Cardinality(D) = L
  <2>1. IsFiniteSet(1 .. L) /\ Cardinality(1 .. L) = IF 1 > L THEN 0 ELSE L - 1 + 1
    BY <1>1, FS_Interval
  <2> QED
    BY <1>1, <2>1
<1>3. /\ \A i \in D : ~B(i, i)
      /\ \A i, j \in D : i = j \/ B(i, j) \/ B(j, i)
      /\ \A i, j \in D : ~(B(i, j) /\ B(j, i))
      /\ \A i, j, k \in D : B(i, j) /\ B(j, k) => B(i, k)
  BY BeforeOrder
<1>4. \A i \in D : Position(rules, i) = P(i)
  BY DEF Position
<1> HIDE DEF B, L
<1>5. \A i \in D : /\ IsFiniteSet(Upto(i)) /\ P(i) \in Nat /\ P(i) <= L
                   /\ P(i) >= 1
  <2> SUFFICES ASSUME NEW i \in D
               PROVE  /\ IsFiniteSet(Upto(i)) /\ P(i) \in Nat /\ P(i) <= L
                      /\ P(i) >= 1
    OBVIOUS
  <2>1. Upto(i) \subseteq D /\ i \in Upto(i)
    BY <1>3
  <2> HIDE DEF D, Upto
  <2>2. IsFiniteSet(Upto(i)) /\ P(i) <= L
    BY <1>2, <2>1, FS_Subset
  <2>3. P(i) \in Nat
    BY <2>2, FS_CardinalityType
  <2>4. P(i) # 0
    BY <2>1, <2>2, FS_EmptySet
  <2> QED
    BY <2>2, <2>3, <2>4
<1>6. \A i, k \in D : B(i, k) => P(i) < P(k)
  <2> SUFFICES ASSUME NEW i \in D, NEW k \in D, B(i, k)
               PROVE  P(i) < P(k)
    OBVIOUS
  <2>1. k \in Upto(k) /\ k \notin Upto(i) /\ Upto(i) \subseteq Upto(k) \ {k}
    <3>1. k \in Upto(k) /\ k \notin Upto(i)
      BY <1>3
    <3>2. ASSUME NEW j \in Upto(i) PROVE ~B(k, j)
      BY <1>3, <3>2
    <3> QED
      BY <3>1, <3>2
  <2>2. IsFiniteSet(Upto(k)) /\ P(k) \in Nat /\ P(i) \in Nat
    BY <1>5
  <2> HIDE DEF D, Upto
  <2>3. IsFiniteSet(Upto(k) \ {k}) /\ Cardinality(Upto(k) \ {k}) = P(k) - 1
    BY <2>1, <2>2, FS_RemoveElement
  <2>4. P(i) <= Cardinality(Upto(k) \ {k})
    BY <2>1, <2>3, FS_Subset
  <2> QED
    BY <2>2, <2>3, <2>4
<1> DEFINE pos == [i \in D |-> P(i)]
<1>7. pos \in Surjection(D, D)
  <2>1. \A i \in D : P(i) \in D
    <3> HIDE DEF D, Upto, P
    <3> QED BY <1>1, <1>5
  <2>2. \A i, k \in D : P(i) = P(k) => i = k
    <3> SUFFICES ASSUME NEW i \in D, NEW k \in D, P(i) = P(k) PROVE i = k
      OBVIOUS
    <3>1. P(i) \in Nat /\ P(k) \in Nat
      BY <1>5
    <3>2. ~B(i, k) /\ ~B(k, i)
      <4>1. B(i, k) => P(i) < P(k)
        BY <1>6
      <4>2. B(k, i) => P(k) < P(i)
        BY <1>6
      <4> HIDE DEF P
      <4> QED BY <3>1, <4>1, <4>2
    <3> QED
      BY <1>3, <3>2
  <2> HIDE DEF P
  <2>3. pos \in Injection(D, D)
    BY <2>1, <2>2 DEF Injection, IsInjective
  <2> HIDE DEF D, pos
  <2> QED
    BY <1>2, <2>3, FS_Injection
<1>8. \A n \in D : \E i \in D : P(i) = n
  <2> HIDE DEF P
  <2> QED BY <1>7 DEF Surjection
<1> DEFINE f == [n \in D |-> CHOOSE i \in D : Position(rules, i) = n]
<1>9. \A n \in D : f[n] \in D /\ P(f[n]) = n
  <2> HIDE DEF D, P
  <2> QED BY <1>4, <1>8
<1>10. ByPriority(rules) = [n \in D |-> rules[f[n]]]
  BY DEF ByPriority
<1>11. \A i \in D : rules[i] \in CustomRule
  BY <1>1
<1> HIDE DEF f, P
<1>12. ByPriority(rules) \in [1 .. L -> CustomRule]
  BY <1>1, <1>9, <1>10, <1>11
<1>13. ByPriority(rules) \in Seq(CustomRule) /\ Len(ByPriority(rules)) = L
  <2> HIDE DEF D
  <2> QED BY <1>1, <1>12
<1>14. \A m, n \in D : m < n => B(f[m], f[n])
  <2> SUFFICES ASSUME NEW m \in D, NEW n \in D, m < n PROVE B(f[m], f[n])
    OBVIOUS
  <2>1. P(f[m]) = m /\ P(f[n]) = n /\ f[m] \in D /\ f[n] \in D
    BY <1>9
  <2>2. ~B(f[n], f[m])
    BY <1>1, <1>6, <2>1
  <2>3. f[m] # f[n]
    BY <1>1, <2>1
  <2> QED
    BY <1>3, <2>1, <2>2, <2>3
<1>15. \A i \in D : \E n \in D : f[n] = i
  <2> SUFFICES ASSUME NEW i \in D PROVE \E n \in D : f[n] = i
    OBVIOUS
  <2>1. P(i) \in D
    <3> HIDE DEF D, Upto
    <3> QED BY <1>1, <1>5
  <2>2. f[P(i)] \in D /\ P(f[P(i)]) = P(i)
    BY <1>9, <2>1
  <2>3. ~B(f[P(i)], i) /\ ~B(i, f[P(i)])
    BY <1>1, <1>6, <2>1, <2>2
  <2> QED
    BY <1>3, <2>1, <2>2, <2>3
<1>16. f \in [D -> D]
  BY <1>9 DEF f
<1>17. Rearranges(f, rules)
  BY <1>1, <1>9, <1>10, <1>14, <1>15, <1>16 DEF Rearranges, B, L
<1> QED
  BY <1>13, <1>17 DEF L

-----------------------------------------------------------------------------
(***************************************************************************)
(* App.EvaluateCustomRules: the loop.                                      *)
(***************************************************************************)

\* Rule n of a list applies and has one of the actions.
Is(s, n, actions) == s[n].applies /\ s[n].action \in actions

\* From rule i on, the first rule that ends the loop has the action.
Ends(s, i, action) ==
  \E n \in i .. Len(s) :
    /\ Is(s, n, {action})
    /\ \A k \in i .. n - 1 : ~Is(s, k, {"block", "terminal_allow"})

\* From rule i on, some rule counts.
Meets(s, i) == \E n \in i .. Len(s) : Is(s, n, {"count"})

\* What the loop answers from rule i on, without the loop.
Answer(s, i, counted) ==
  CASE Ends(s, i, "block") -> "block"
    [] ~Ends(s, i, "block") /\ Ends(s, i, "terminal_allow") -> "terminal_allow"
    [] OTHER -> IF counted \/ Meets(s, i) THEN "count" ELSE "allow"

\* One turn of the loop, whatever the rest of it answers.
Turn(s, f, i, counted) ==
  IF i > Len(s) THEN IF counted THEN "count" ELSE "allow"
  ELSE IF ~s[i].applies \/ s[i].action = "allow" THEN f[<<i + 1, counted>>]
  ELSE IF s[i].action = "count" THEN f[<<i + 1, TRUE>>]
  ELSE s[i].action

\* Ends and Meets, one rule at a time.
LEMMA Unfold ==
  ASSUME NEW s \in Seq(CustomRule), NEW i \in 1 .. Len(s), NEW a \in {"block", "terminal_allow"}
  PROVE  /\ Ends(s, i, a) <=>
              \/ Is(s, i, {a})
              \/ ~Is(s, i, {"block", "terminal_allow"}) /\ Ends(s, i + 1, a)
         /\ Meets(s, i) <=> Is(s, i, {"count"}) \/ Meets(s, i + 1)
<1> DEFINE L == Len(s)
           A(n) == Is(s, n, {a})
           S(n) == Is(s, n, {"block", "terminal_allow"})
           C(n) == Is(s, n, {"count"})
<1>1. L \in Nat /\ i \in Int /\ 1 <= i /\ i <= L
  OBVIOUS
<1>2. \A n : A(n) => S(n)
  BY DEF Is
<1>3. \A j : Ends(s, j, a) <=> \E n \in j .. L : A(n) /\ \A k \in j .. n - 1 : ~S(k)
  BY DEF Ends
<1>4. \A j : Meets(s, j) <=> \E n \in j .. L : C(n)
  BY DEF Meets
<1> HIDE DEF L, A, S, C
<1>5. Ends(s, i, a) => A(i) \/ (~S(i) /\ Ends(s, i + 1, a))
  BY <1>1, <1>3
<1>6. A(i) => Ends(s, i, a)
  BY <1>1, <1>3
<1>7. ~S(i) /\ Ends(s, i + 1, a) => Ends(s, i, a)
  BY <1>1, <1>3
<1>8. Meets(s, i) <=> C(i) \/ Meets(s, i + 1)
  BY <1>1, <1>4
<1> QED
  BY <1>5, <1>6, <1>7, <1>8 DEF A, S, C

\* Answer is a solution of the loop's equation.
LEMMA AnswerTurns ==
  ASSUME NEW s \in Seq(CustomRule), NEW f, NEW i \in 1 .. Len(s) + 1, NEW counted \in BOOLEAN,
         i <= Len(s) => /\ f[<<i + 1, counted>>] = Answer(s, i + 1, counted)
                        /\ f[<<i + 1, TRUE>>] = Answer(s, i + 1, TRUE)
  PROVE  Turn(s, f, i, counted) = Answer(s, i, counted)
<1>0. Len(s) \in Nat /\ i \in Int
  OBVIOUS
<1>1. CASE i > Len(s)
  <2>1. ~Ends(s, i, "block") /\ ~Ends(s, i, "terminal_allow") /\ ~Meets(s, i)
    BY <1>0, <1>1 DEF Ends, Meets
  <2> QED
    BY <1>0, <1>1, <2>1 DEF Turn, Answer
<1>2. CASE i <= Len(s)
  <2>0. i \in 1 .. Len(s)
    BY <1>0, <1>2
  <2>1. /\ s[i].applies \in BOOLEAN
        /\ s[i].action \in {"block", "count", "allow", "terminal_allow"}
    BY <2>0, RuleFields
  <2>2. /\ Ends(s, i, "block") <=>
              \/ Is(s, i, {"block"})
              \/ ~Is(s, i, {"block", "terminal_allow"}) /\ Ends(s, i + 1, "block")
        /\ Ends(s, i, "terminal_allow") <=>
              \/ Is(s, i, {"terminal_allow"})
              \/ ~Is(s, i, {"block", "terminal_allow"}) /\ Ends(s, i + 1, "terminal_allow")
        /\ Meets(s, i) <=> Is(s, i, {"count"}) \/ Meets(s, i + 1)
    BY <2>0, Unfold
  <2>3. ~(i > Len(s))
    BY <1>0, <1>2
  <2>4. CASE ~s[i].applies
    BY <1>2, <2>2, <2>3, <2>4 DEF Turn, Answer, Is
  <2>5. CASE s[i].applies /\ s[i].action = "block"
    BY <1>2, <2>2, <2>3, <2>5 DEF Turn, Answer, Is
  <2>6. CASE s[i].applies /\ s[i].action = "terminal_allow"
    BY <1>2, <2>2, <2>3, <2>6 DEF Turn, Answer, Is
  <2>7. CASE s[i].applies /\ s[i].action = "count"
    BY <1>2, <2>2, <2>3, <2>7 DEF Turn, Answer, Is
  <2>8. CASE s[i].applies /\ s[i].action = "allow"
    BY <1>2, <2>2, <2>3, <2>8 DEF Turn, Answer, Is
  <2> QED
    BY <2>1, <2>4, <2>5, <2>6, <2>7, <2>8
<1> QED
  BY <1>0, <1>1, <1>2

\* The loop computes Answer.
LEMMA LoopAnswers ==
  ASSUME NEW s \in Seq(CustomRule)
  PROVE  EvaluateCustomRules(s) = Answer(s, 1, FALSE)
<1> DEFINE D == (1 .. Len(s) + 1) \X BOOLEAN
           Eq(f) == f = [x \in D |-> Turn(s, f, x[1], x[2])]
           h == [x \in D |-> Answer(s, x[1], x[2])]
           loop == CHOOSE f : Eq(f)
<1>1. EvaluateCustomRules(s) = loop[<<1, FALSE>>]
  BY DEF EvaluateCustomRules, Turn
<1>2. Len(s) \in Nat
  OBVIOUS
<1>3. Eq(h)
  <2> SUFFICES ASSUME NEW x \in D PROVE Answer(s, x[1], x[2]) = Turn(s, h, x[1], x[2])
    OBVIOUS
  <2> DEFINE i == x[1]
             c == x[2]
  <2>1. i \in 1 .. Len(s) + 1 /\ c \in BOOLEAN
    OBVIOUS
  <2>2. ASSUME i <= Len(s), NEW b \in BOOLEAN
        PROVE  h[<<i + 1, b>>] = Answer(s, i + 1, b)
    <3> HIDE DEF i, c
    <3>1. <<i + 1, b>> \in D
      BY <1>2, <2>1, <2>2
    <3> QED
      BY <3>1
  <2> HIDE DEF i, c, h
  <2>3. Turn(s, h, i, c) = Answer(s, i, c)
    BY <2>1, <2>2, AnswerTurns
  <2> QED
    BY <2>3 DEF i, c
<1> HIDE DEF Eq
<1>4. Eq(loop)
  BY <1>3
<1> HIDE DEF loop
\* Induction on the rules that are left, by the least d that fails.
<1> DEFINE Bad == {d \in 0 .. Len(s) :
                     \E c \in BOOLEAN : loop[<<Len(s) + 1 - d, c>>] # Answer(s, Len(s) + 1 - d, c)}
<1>5. Bad = {}
  <2> SUFFICES ASSUME Bad # {} PROVE FALSE
    OBVIOUS
  <2>1. PICK d \in Bad : \A e \in Bad : d <= e
    <3>1. Bad \in SUBSET Nat
      BY <1>2
    <3> HIDE DEF Bad
    <3> QED BY <3>1, LeastNat
  <2>2. PICK c \in BOOLEAN : loop[<<Len(s) + 1 - d, c>>] # Answer(s, Len(s) + 1 - d, c)
    BY <2>1
  <2> DEFINE i == Len(s) + 1 - d
  <2>3. d \in 0 .. Len(s) /\ i \in 1 .. Len(s) + 1 /\ i \in Int
    BY <1>2
  <2>4. i <= Len(s) => \A b \in BOOLEAN : loop[<<i + 1, b>>] = Answer(s, i + 1, b)
    <3> SUFFICES ASSUME i <= Len(s), NEW b \in BOOLEAN
                 PROVE  loop[<<i + 1, b>>] = Answer(s, i + 1, b)
      OBVIOUS
    <3>1. d - 1 \in 0 .. Len(s) /\ d - 1 < d /\ Len(s) + 1 - (d - 1) = i + 1
      BY <1>2, <2>3
    <3>2. d - 1 \notin Bad
      <4> HIDE DEF Bad
      <4> QED BY <2>1, <2>3, <3>1
    <3> QED
      BY <3>1, <3>2
  <2>5. loop[<<i, c>>] = Turn(s, loop, i, c)
    <3> HIDE DEF i
    <3>1. <<i, c>> \in D
      BY <2>3
    <3> QED
      BY <1>4, <3>1 DEF Eq
  <2> HIDE DEF i
  <2>6. Turn(s, loop, i, c) = Answer(s, i, c)
    BY <2>3, <2>4, AnswerTurns
  <2> QED
    BY <2>2, <2>5, <2>6 DEF i
<1>6. loop[<<1, FALSE>>] = Answer(s, 1, FALSE)
  <2>1. Len(s) \in 0 .. Len(s) /\ Len(s) + 1 - Len(s) = 1
    BY <1>2
  <2> QED
    BY <1>5, <2>1
<1> QED
  BY <1>1, <1>6

-----------------------------------------------------------------------------
(***************************************************************************)
(* The sorted list and the loop together give the custom rules' verdict.   *)
(***************************************************************************)

\* What EvaluateCustomRules is to answer, without an order of evaluation.
Verdict(rules) ==
  {rules[i].action : i \in FirstRule(rules, {"block", "terminal_allow"})}

\* The first rule of the sorted list is the first in the order Before.
LEMMA FirstOfSorted ==
  ASSUME NEW rules \in Seq(CustomRule), NEW A, NEW s, s = ByPriority(rules)
  PROVE  /\ (\A n \in 1 .. Len(rules) : ~Is(s, n, A)) => FirstRule(rules, A) = {}
         /\ \A n \in 1 .. Len(rules) :
              Is(s, n, A) /\ (\A k \in 1 .. n - 1 : ~Is(s, k, A)) =>
                \E i \in 1 .. Len(rules) :
                  FirstRule(rules, A) = {i} /\ rules[i] = s[n]
<1> DEFINE D == 1 .. Len(rules)
           B(i, j) == Before(rules, i, j)
           R(i) == rules[i].applies /\ rules[i].action \in A
           S(n) == Is(s, n, A)
<1>1. PICK f : Rearranges(f, rules)
  BY SortRearranges
<1>2. /\ f \in [D -> D]
      /\ \A n \in D : s[n] = rules[f[n]]
      /\ \A m, n \in D : m < n => B(f[m], f[n])
      /\ \A i \in D : \E n \in D : f[n] = i
  BY <1>1 DEF Rearranges
<1>3. /\ DOMAIN rules = D /\ Len(rules) \in Nat
      /\ \A i \in D : ~B(i, i)
      /\ \A i, j \in D : ~(B(i, j) /\ B(j, i))
  BY BeforeOrder
<1>4. \A n \in D : S(n) <=> R(f[n])
  BY <1>2 DEF Is
<1>5. FirstRule(rules, A) = {i \in D : R(i) /\ \A j \in D : R(j) => ~B(j, i)}
  BY <1>3 DEF FirstRule
<1> HIDE DEF B, R, S
<1>6. ASSUME \A n \in D : ~S(n) PROVE FirstRule(rules, A) = {}
  <2>1. \A i \in D : ~R(i)
    BY <1>2, <1>4, <1>6
  <2> QED
    BY <1>5, <2>1
<1>7. ASSUME NEW n \in D, S(n), \A k \in 1 .. n - 1 : ~S(k)
      PROVE  FirstRule(rules, A) = {f[n]} /\ f[n] \in D /\ rules[f[n]] = s[n]
  <2>1. f[n] \in D /\ R(f[n])
    BY <1>2, <1>4, <1>7
  <2>2. ASSUME NEW m \in D, R(f[m]) PROVE m = n \/ n < m
    <3>1. S(m)
      BY <1>4, <2>2
    <3>2. m \in Int /\ n \in Int /\ 1 <= m
      BY <1>3
    <3>3. ~(m < n)
      BY <1>7, <3>1, <3>2
    <3> QED
      BY <3>2, <3>3
  <2>3. \A j \in D : R(j) => ~B(j, f[n])
    <3> SUFFICES ASSUME NEW j \in D, R(j) PROVE ~B(j, f[n])
      OBVIOUS
    <3>1. PICK m \in D : f[m] = j
      BY <1>2
    <3> QED
      BY <1>2, <1>3, <2>1, <2>2, <3>1
  <2>4. ASSUME NEW i \in D, R(i), \A j \in D : R(j) => ~B(j, i) PROVE i = f[n]
    <3>1. PICK m \in D : f[m] = i
      BY <1>2
    <3> QED
      BY <1>2, <2>1, <2>2, <2>4, <3>1
  <2> QED
    BY <1>2, <1>5, <2>1, <2>3, <2>4, SMTT(30)
<1>8. ASSUME NEW n \in D, S(n), \A k \in 1 .. n - 1 : ~S(k)
      PROVE  \E i \in D : FirstRule(rules, A) = {i} /\ rules[i] = s[n]
  BY <1>7, <1>8
<1> QED
  BY <1>6, <1>8 DEF S

\* If some rule of a list is of the kind, there is a first one.
LEMMA FirstExists ==
  ASSUME NEW s \in Seq(CustomRule), NEW A, NEW m \in 1 .. Len(s), Is(s, m, A)
  PROVE  \E n \in 1 .. Len(s) : Is(s, n, A) /\ \A k \in 1 .. n - 1 : ~Is(s, k, A)
<1> DEFINE S == {n \in 1 .. Len(s) : Is(s, n, A)}
<1>1. S \in SUBSET Nat /\ S # {}
  OBVIOUS
<1>2. PICK n \in S : \A k \in S : n <= k
  <2> HIDE DEF S
  <2> QED BY <1>1, LeastNat
<1>3. Len(s) \in Nat /\ n \in 1 .. Len(s) /\ Is(s, n, A)
  OBVIOUS
<1>4. ASSUME NEW k \in 1 .. n - 1 PROVE ~Is(s, k, A)
  <2>1. k \in 1 .. Len(s) /\ ~(n <= k)
    BY <1>3
  <2>2. k \notin S
    <3> HIDE DEF S
    <3> QED BY <1>2, <2>1
  <2> QED
    BY <2>1, <2>2
<1> QED
  BY <1>3, <1>4

\* EvaluateCustomRules on the list parseCustomRules sorted: the first rule
\* that blocks or allows for good decides, without one a rule that counts.
LEMMA CustomRulesDecide ==
  ASSUME NEW rules \in Seq(CustomRule),
         NEW got, got = EvaluateCustomRules(ByPriority(rules))
  PROVE  \/ got = "block" /\ Verdict(rules) = {"block"}
         \/ got = "terminal_allow" /\ Verdict(rules) = {"terminal_allow"}
         \/ got = "count" /\ Verdict(rules) = {} /\ FirstRule(rules, {"count"}) # {}
         \/ got = "allow" /\ Verdict(rules) = {} /\ FirstRule(rules, {"count"}) = {}
<1> DEFINE s == ByPriority(rules)
           D == 1 .. Len(rules)
           Stop == {"block", "terminal_allow"}
<1>1. s \in Seq(CustomRule) /\ Len(s) = Len(rules) /\ Len(s) \in Nat
  BY SortRearranges
<1>2. got = Answer(s, 1, FALSE)
  BY <1>1, LoopAnswers
<1> HIDE DEF s
<1>3. ASSUME NEW a \in Stop, Ends(s, 1, a) PROVE Verdict(rules) = {a}
  <2>1. PICK n \in D : Is(s, n, {a}) /\ \A k \in 1 .. n - 1 : ~Is(s, k, Stop)
    BY <1>1, <1>3 DEF Ends
  <2>2. Is(s, n, Stop) /\ s[n].action = a
    BY <2>1 DEF Is
  <2>3. PICK i \in D : FirstRule(rules, Stop) = {i} /\ rules[i] = s[n]
    BY <2>1, <2>2, FirstOfSorted DEF s
  <2> QED
    BY <2>2, <2>3 DEF Verdict
<1>4. ASSUME NEW m \in D, Is(s, m, Stop)
      PROVE  Ends(s, 1, "block") \/ Ends(s, 1, "terminal_allow")
  <2>1. PICK n \in D : Is(s, n, Stop) /\ \A k \in 1 .. n - 1 : ~Is(s, k, Stop)
    BY <1>1, <1>4, FirstExists
  <2> QED
    BY <1>1, <2>1 DEF Ends, Is
<1>5. CASE Ends(s, 1, "block")
  BY <1>2, <1>3, <1>5 DEF Answer
<1>6. CASE ~Ends(s, 1, "block") /\ Ends(s, 1, "terminal_allow")
  BY <1>2, <1>3, <1>6 DEF Answer
<1>7. CASE ~Ends(s, 1, "block") /\ ~Ends(s, 1, "terminal_allow")
  <2>1. \A n \in D : ~Is(s, n, Stop)
    BY <1>4, <1>7
  <2>2. Verdict(rules) = {}
    <3>1. FirstRule(rules, Stop) = {}
      BY <2>1, FirstOfSorted DEF s
    <3> QED
      BY <3>1 DEF Verdict
  <2>3. CASE Meets(s, 1)
    <3>1. PICK m \in D : Is(s, m, {"count"})
      BY <1>1, <2>3 DEF Meets
    <3>2. PICK n \in D : Is(s, n, {"count"}) /\ \A k \in 1 .. n - 1 : ~Is(s, k, {"count"})
      BY <1>1, <3>1, FirstExists
    <3>3. FirstRule(rules, {"count"}) # {}
      BY <3>2, FirstOfSorted DEF s
    <3> QED
      BY <1>2, <1>7, <2>2, <2>3, <3>3 DEF Answer
  <2>4. CASE ~Meets(s, 1)
    <3>1. \A n \in D : ~Is(s, n, {"count"})
      BY <1>1, <2>4 DEF Meets
    <3>2. FirstRule(rules, {"count"}) = {}
      BY <3>1, FirstOfSorted DEF s
    <3> QED
      BY <1>2, <1>7, <2>2, <2>4, <3>2 DEF Answer
  <2> QED
    BY <2>3, <2>4
<1> QED
  BY <1>5, <1>6, <1>7

-----------------------------------------------------------------------------
(***************************************************************************)
(* The inductive invariant.                                                *)
(***************************************************************************)

\* What the checks have found so far.
FactsOK ==
  facts \in [lookup : Lookup \cup {"?"}, mode : {"none", "count", "block"},
             body : {"?", "within", "exceeded", "unreadable"},
             blocklist : {"?", "listed", "unlisted"},
             allowlist : {"?", "empty", "listed", "unlisted"},
             rate : {"?", "allow", "count", "rate_limit"},
             rules : Seq(CustomRule), waf : WafAnswers \cup {"?"},
             default : {"?", "allow", "block"}]

\* The stages at which the decision is made.
Checks == {"ip", "rate_limit", "custom", "waf", "default", "enforce"}

\* The stages before the deferred functions.
Running == {"host", "lookup", "body", "origin"} \cup Checks

\* What is known once the handler returns or panics.
Ended ==
  /\ event.enforced => ~proxied
  /\ facts.mode = "block" /\ ~panicking /\ ~proxied =>
       event.enforced \/ facts.body = "unreadable" \/ facts.waf = "error"
  /\ facts.mode = "count" =>
       proxied \/ panicking \/ facts.body = "unreadable" \/ facts.waf = "error"
  /\ facts.mode = "block" /\ proxied => Denials = {}

\* The response, the event and the log, by stage.
Bookkeeping ==
  /\ stage \in Running =>
       /\ logged = 0 /\ sent = 0 /\ recorded = 200
       /\ ~proxied /\ ~panicking /\ ~event.enforced
  /\ stage \in {"host", "lookup"} => facts.lookup = "?" /\ facts.mode = "none"
  /\ stage = "origin" /\ facts.mode = "block" => Denials = {}
  /\ stage \in {"deferred", "recover", "done"} => Ended
  /\ stage = "deferred" =>
       /\ logged = 0
       /\ ~panicking =>
            sent = Final(recorded) \/ (sent = 0 /\ recorded = 200)
  /\ stage = "recover" => panicking /\ logged = 1
  /\ stage = "done" =>
       /\ logged = 1 \/ (logged = 0 /\ facts.lookup = "?" /\ sent \in {200, 400})
       /\ logged = 1 /\ ~panicking => sent = Final(event.status)

\* The facts of checks that have not run.
Unset ==
  /\ stage \in {"host", "lookup", "body", "ip"} =>
       facts.blocklist = "?" /\ facts.allowlist = "?"
  /\ stage \in {"host", "lookup", "body", "ip", "rate_limit"} => facts.rate = "?"
  /\ stage \in {"host", "lookup", "body", "ip", "rate_limit", "custom"} =>
       facts.rules = <<>>
  /\ stage \in {"host", "lookup", "body", "ip", "rate_limit", "custom", "waf"} =>
       facts.waf = "?"
  /\ stage \in {"host", "lookup", "body", "ip"} => final = Allow /\ observed = "none"

\* The decision denies, for this reason.
Refuses(reason) == WouldBlock(final) /\ final.reason = reason

\* The decision so far is the first refusal so far.
FirstRefusal ==
  IF facts.blocklist = "listed" THEN Refuses("ip_blocklist")
  ELSE IF facts.allowlist = "unlisted" THEN Refuses("ip_allowlist")
  ELSE IF facts.rate = "rate_limit" THEN Refuses("rate_limit")
  ELSE IF facts.body = "exceeded" /\ stage # "rate_limit" THEN Refuses("body_limit")
  ELSE IF Verdict(facts.rules) = {"block"} THEN Refuses("custom_rule")
  ELSE IF facts.waf = "block" THEN Refuses("waf_match")
  ELSE /\ final.action = "allow"
       /\ (final.reason = "custom_rule_allow") <=> (Verdict(facts.rules) = {"terminal_allow"})

\* *observedCount is the first count match so far.
FirstCount ==
  final.action = "allow" =>
    observed = IF facts.rate = "count" THEN "rate_limit"
               ELSE IF Verdict(facts.rules) = {} /\ FirstRule(facts.rules, {"count"}) # {}
                 THEN "custom_rule"
               ELSE IF facts.waf = "count" THEN "waf_match" ELSE "none"

\* The decision so far is the one the facts call for.
Deciding ==
  /\ stage \in {"rate_limit", "custom", "waf", "default"} => FirstRefusal /\ FirstCount
  /\ VerdictMatches

\* The inductive invariant.
IInv == TypeOK /\ FactsOK /\ Bookkeeping /\ Unset /\ Deciding

-----------------------------------------------------------------------------
\* A list without rules has no verdict.
LEMMA NoRulesNoVerdict ==
  Verdict(<<>>) = {} /\ FirstRule(<<>>, {"count"}) = {}
BY DEF Verdict, FirstRule

\* The handler's updates of the event.
LEMMA EventDecided ==
  ASSUME NEW e \in Events, NEW a \in Actions, NEW r \in Reasons
  PROVE  /\ [e EXCEPT !.action = a, !.reason = r] \in Events
         /\ [e EXCEPT !.action = a, !.reason = r].enforced = e.enforced
<1>1. [e EXCEPT !.action = a, !.reason = r] \in Events
  BY ZenonT(40) DEF Events
<1> QED
  BY <1>1, ZenonT(40) DEF Events

\* The mode an event records.
LEMMA EventMode ==
  ASSUME NEW e \in Events, NEW m \in {"count", "block", "none"}, NEW r \in Reasons
  PROVE  /\ [e EXCEPT !.mode = m, !.reason = r] \in Events
         /\ [e EXCEPT !.mode = m, !.reason = r].enforced = e.enforced
<1>1. [e EXCEPT !.mode = m, !.reason = r] \in Events
  BY ZenonT(40) DEF Events
<1> QED
  BY <1>1, ZenonT(40) DEF Events

\* A request arrives.
LEMMA InitHolds == Init => IInv
<1> SUFFICES ASSUME Init PROVE IInv
  OBVIOUS
<1>1. TypeOK
  <2>1. final \in Decisions
    BY DEF Init, Decisions, Actions, Reasons, Allow, Decision
  <2>2. event \in Events
    <3>1. "allow" \in Actions /\ "none" \in Reasons /\ 200 \in 1 .. 999
      BY DEF Actions, Reasons
    <3> QED BY <3>1, Zenon DEF Init, Events
  <2>3. stage \in Stages /\ observed \in Reasons /\ recorded \in 1 .. 999
        /\ sent \in 0 .. 999 /\ logged \in Nat
    BY DEF Init, Stages, Reasons
  <2>4. proxied \in BOOLEAN /\ panicking \in BOOLEAN
    BY DEF Init
  <2> QED
    BY <2>1, <2>2, <2>3, <2>4 DEF TypeOK
<1>2. FactsOK
  <2>1. <<>> \in Seq(CustomRule)
    OBVIOUS
  <2> QED
    BY <2>1 DEF Init, FactsOK, WafAnswers, Lookup
<1>3. Bookkeeping /\ Unset /\ Deciding
  BY DEF Init, Bookkeeping, Running, Checks, Unset, Deciding, VerdictMatches
<1> QED
  BY <1>1, <1>2, <1>3 DEF IInv

-----------------------------------------------------------------------------
(***************************************************************************)
(* Up to the policy lookup and the body.                                   *)
(***************************************************************************)

\* A stage at which nothing is decided yet, or not any more.
LEMMA NotDeciding ==
  ASSUME stage' \notin Checks \/ stage' = "ip"
  PROVE  Deciding'
BY DEF Deciding, VerdictMatches, Checks

\* The facts of the checks do not matter once the checks are over.
LEMMA NotUnset ==
  ASSUME stage' \in {"default", "enforce", "origin", "deferred", "recover", "done"}
  PROVE  Unset'
BY DEF Unset

\* /healthz and /metrics.
LEMMA ServeLocalKeeps == ASSUME IInv, ServeLocal PROVE IInv'
<1>1. /\ stage = "host" /\ stage' = "done" /\ sent' = 200
      /\ UNCHANGED <<facts, final, observed, event, recorded, proxied, panicking, logged>>
  BY DEF ServeLocal
<1>2. TypeOK'
  BY <1>1 DEF IInv, TypeOK, Stages
<1>3. FactsOK'
  BY <1>1 DEF IInv, FactsOK
<1>4. Bookkeeping'
  BY <1>1 DEF IInv, Bookkeeping, Ended, Running, Checks
<1>5. Unset' /\ Deciding'
  BY <1>1, NotDeciding, NotUnset DEF Checks
<1> QED
  BY <1>2, <1>3, <1>4, <1>5 DEF IInv

\* NormalizeHost and ValidHost.
LEMMA CheckHostKeeps ==
  ASSUME IInv, NEW valid \in BOOLEAN, CheckHost(valid)
  PROVE  IInv'
<1>1. stage = "host" /\ UNCHANGED <<facts, final, observed, event>>
  BY DEF CheckHost
<1>2. CASE valid
  <2>1. stage' = "lookup" /\ UNCHANGED <<recorded, sent, proxied, panicking, logged>>
    BY <1>2 DEF CheckHost, Goto
  <2>2. TypeOK'
    BY <1>1, <2>1 DEF IInv, TypeOK, Stages
  <2>3. FactsOK'
    BY <1>1 DEF IInv, FactsOK
  <2>4. Bookkeeping'
    BY <1>1, <2>1 DEF IInv, Bookkeeping, Running, Checks
  <2>5. Unset' /\ Deciding'
    BY <1>1, <2>1, NotDeciding DEF IInv, Unset, Checks
  <2> QED
    BY <2>2, <2>3, <2>4, <2>5 DEF IInv
<1>3. CASE ~valid
  <2>1. /\ stage' = "done" /\ recorded' = 400 /\ sent' = IF sent = 0 THEN 400 ELSE sent
        /\ UNCHANGED <<proxied, panicking, logged>>
    BY <1>3 DEF CheckHost, Respond
  <2>0. sent' = 400
    BY <1>1, <2>1 DEF IInv, Bookkeeping, Running
  <2>2. TypeOK'
    BY <1>1, <2>0, <2>1 DEF IInv, TypeOK, Stages
  <2>3. FactsOK'
    BY <1>1 DEF IInv, FactsOK
  <2>4. Bookkeeping'
    BY <1>1, <2>0, <2>1 DEF IInv, Bookkeeping, Ended, Running, Checks
  <2>5. Unset' /\ Deciding'
    BY <1>1, <2>1, NotDeciding, NotUnset DEF Checks
  <2> QED
    BY <2>2, <2>3, <2>4, <2>5 DEF IInv
<1> QED
  BY <1>2, <1>3

\* A return with a response of the handler's own: the record of it is true.
LEMMA ReturnKeeps ==
  ASSUME IInv, FactsOK', stage \in Running, stage # "origin",
         NEW action \in Actions, NEW reason \in Reasons, NEW status \in 400 .. 599,
         ReturnWith(action, reason, status),
         facts'.mode \in {"block", "count"} =>
           facts'.body = "unreadable" \/ facts'.waf = "error"
  PROVE  IInv'
<1>1. /\ event' = [event EXCEPT !.action = action, !.reason = reason]
      /\ recorded' = status /\ sent' = IF sent = 0 THEN status ELSE sent
      /\ stage' = "deferred"
      /\ UNCHANGED <<final, observed, proxied, panicking, logged>>
  BY DEF ReturnWith, Respond
<1>2. /\ sent = 0 /\ logged = 0 /\ ~proxied /\ ~panicking /\ ~event.enforced
  BY DEF IInv, Bookkeeping
<1>0. event' \in Events /\ event'.enforced = event.enforced
  <2>1. event \in Events
    BY DEF IInv, TypeOK
  <2> DEFINE e == [event EXCEPT !.action = action, !.reason = reason]
  <2>4. action \in Actions /\ reason \in Reasons
    OBVIOUS
  <2>2. e \in Events /\ e.enforced = event.enforced
    <3>1. \A v \in Events : /\ [v EXCEPT !.action = action, !.reason = reason] \in Events
            /\ [v EXCEPT !.action = action, !.reason = reason].enforced = v.enforced
      BY ONLY <2>4, EventDecided, ZenonT(40)
    <3> QED
      BY <2>1, <3>1
  <2>3. event' = e
    BY <1>1
  <2> HIDE DEF e
  <2> QED
    BY <2>2, <2>3, Zenon
<1>3. sent' = status /\ event'.enforced = event.enforced
  BY <1>0, <1>1, <1>2
<1>4. TypeOK'
  BY <1>0, <1>1, <1>3 DEF IInv, TypeOK, Stages
<1>5. Ended'
  BY <1>1, <1>2, <1>3 DEF Ended
<1>6. Bookkeeping'
  BY <1>1, <1>2, <1>3, <1>5 DEF Bookkeeping, Running, Checks, Final, Informational
<1>7. Unset' /\ Deciding'
  BY <1>1, NotDeciding, NotUnset DEF Checks
<1> QED
  BY <1>4, <1>6, <1>7 DEF IInv

\* The policy is looked up, or is not found.
LEMMA LookupKeeps ==
  ASSUME IInv, NEW l \in Lookups, NEW mode \in {"count", "block"}, LookupPolicy(l, mode)
  PROVE  IInv'
<1>1. /\ stage = "lookup"
      /\ facts' = [facts EXCEPT !.lookup = l,
                     !.mode = IF l \in {"found", "stale"} THEN mode ELSE "none"]
      /\ l \in Lookup
  BY PipelineAssumption DEF LookupPolicy
<1>2. FactsOK'
  BY <1>1, ZenonT(40) DEF IInv, FactsOK
<1>3. /\ facts'.mode = IF l \in {"found", "stale"} THEN mode ELSE "none"
      /\ facts'.blocklist = facts.blocklist /\ facts'.allowlist = facts.allowlist
      /\ facts'.rate = facts.rate /\ facts'.rules = facts.rules /\ facts'.waf = facts.waf
  BY <1>1 DEF IInv, FactsOK
<1>4. CASE l \in {"found", "stale"}
  <2>1. /\ event' = [event EXCEPT !.mode = mode,
                       !.reason = IF l = "stale" THEN "stale" ELSE "none"]
        /\ stage' = "body"
        /\ UNCHANGED <<recorded, sent, proxied, panicking, logged, final, observed>>
    <3>1. CASE l = "found"
      BY <3>1 DEF LookupPolicy, Goto
    <3>2. CASE l = "stale"
      BY <3>2 DEF LookupPolicy, Goto
    <3> QED
      BY <1>4, <3>1, <3>2
  <2>2. event' \in Events /\ event'.enforced = event.enforced
    <3>1. event \in Events
      BY DEF IInv, TypeOK
    <3>2. (IF l = "stale" THEN "stale" ELSE "none") \in Reasons
          /\ mode \in {"count", "block", "none"}
      BY DEF Reasons
    <3> QED
      BY <2>1, <3>1, <3>2, EventMode, ZenonT(40)
  <2>3. TypeOK'
    BY <2>1, <2>2 DEF IInv, TypeOK, Stages
  <2>4. Bookkeeping'
    BY <1>1, <2>1, <2>2 DEF IInv, Bookkeeping, Running, Checks
  <2>5. Unset' /\ Deciding'
    BY <1>1, <1>3, <2>1, NotDeciding DEF IInv, Unset, Checks
  <2> QED
    BY <1>2, <2>3, <2>4, <2>5 DEF IInv
<1>5. CASE l = "fail_open"
  <2>1. /\ event' = [event EXCEPT !.action = "allow", !.reason = "fail_open"]
        /\ stage' = "deferred"
        /\ UNCHANGED <<recorded, sent, proxied, panicking, logged, final, observed>>
    BY <1>5 DEF LookupPolicy, Goto
  <2>2. event' \in Events /\ event'.enforced = event.enforced
    <3>1. event \in Events
      BY DEF IInv, TypeOK
    <3>2. "allow" \in Actions /\ "fail_open" \in Reasons
      BY DEF Actions, Reasons
    <3> QED
      BY <2>1, <3>1, <3>2, EventDecided, Zenon
  <2>3. TypeOK'
    BY <2>1, <2>2 DEF IInv, TypeOK, Stages
  <2>4. Bookkeeping'
    BY <1>1, <1>3, <1>5, <2>1, <2>2 DEF IInv, Bookkeeping, Ended, Running, Checks
  <2>5. Unset' /\ Deciding'
    BY <2>1, NotDeciding, NotUnset DEF Checks
  <2> QED
    BY <1>2, <2>3, <2>4, <2>5 DEF IInv
<1>6. CASE l \in {"fail_closed", "unknown_host"}
  <2>1. ReturnWith("block", "fail_closed", 503) \/ ReturnWith("block", "unknown_host", 404)
    BY <1>6 DEF LookupPolicy
  <2>2. facts'.mode = "none"
    BY <1>3, <1>6
  <2>3. stage \in Running /\ stage # "origin" /\ "block" \in Actions
        /\ "fail_closed" \in Reasons /\ "unknown_host" \in Reasons
        /\ 503 \in 400 .. 599 /\ 404 \in 400 .. 599
    BY <1>1 DEF Running, Actions, Reasons
  <2>4. ~(facts'.mode \in {"block", "count"})
    BY <2>2
  <2> QED
    BY <1>2, <2>1, <2>3, <2>4, ReturnKeeps
<1> QED
  BY <1>1, <1>4, <1>5, <1>6 DEF Lookup

\* prepareRequestBody.
LEMMA ReadBodyKeeps ==
  ASSUME IInv, NEW b \in {"within", "exceeded", "unreadable"}, ReadBody(b)
  PROVE  IInv'
<1>1. stage = "body" /\ facts' = [facts EXCEPT !.body = b]
  BY DEF ReadBody
<1>2. FactsOK'
  BY <1>1 DEF IInv, FactsOK
<1>3. /\ facts'.body = b /\ facts'.mode = facts.mode
      /\ facts'.blocklist = facts.blocklist /\ facts'.allowlist = facts.allowlist
      /\ facts'.rate = facts.rate /\ facts'.rules = facts.rules /\ facts'.waf = facts.waf
  BY <1>1 DEF IInv, FactsOK
<1>4. CASE b = "unreadable"
  <2>1. ReturnWith("block", "body_read", 400)
    BY <1>4 DEF ReadBody
  <2>2. stage \in Running /\ stage # "origin" /\ "block" \in Actions
        /\ "body_read" \in Reasons /\ 400 \in 400 .. 599
    BY <1>1 DEF Running, Actions, Reasons
  <2> QED
    BY <1>2, <1>3, <1>4, <2>1, <2>2, ReturnKeeps
<1>5. CASE b # "unreadable"
  <2>1. /\ stage' = "ip"
        /\ UNCHANGED <<recorded, sent, proxied, panicking, logged, final, observed, event>>
    BY <1>5 DEF ReadBody, Goto
  <2>2. TypeOK'
    BY <2>1 DEF IInv, TypeOK, Stages
  <2>3. Bookkeeping'
    BY <1>1, <2>1 DEF IInv, Bookkeeping, Running, Checks
  <2>4. Unset' /\ Deciding'
    BY <1>1, <1>3, <2>1, NotDeciding DEF IInv, Unset, Checks
  <2> QED
    BY <1>2, <2>2, <2>3, <2>4 DEF IInv
<1> QED
  BY <1>4, <1>5

-----------------------------------------------------------------------------
(***************************************************************************)
(* The checks.                                                             *)
(***************************************************************************)

\* From check to check nothing is written.
LEMMA GotoKeeps ==
  ASSUME IInv, stage \in Checks, stage' \in Checks, final' \in Decisions, observed' \in Reasons,
         UNCHANGED <<event, recorded, sent, proxied, panicking, logged>>
  PROVE  TypeOK' /\ Bookkeeping'
<1>1. TypeOK'
  BY DEF IInv, TypeOK, Stages, Checks
<1>2. Bookkeeping'
  BY DEF IInv, Bookkeeping, Running, Checks
<1> QED
  BY <1>1, <1>2

\* A decision to refuse.
LEMMA Refused ==
  ASSUME NEW a \in {"block", "rate_limit"}, NEW r \in Reasons, NEW t \in 0 .. 999,
         final' = Decision(a, r, t)
  PROVE  final' \in Decisions /\ WouldBlock(final)' /\ final'.reason = r
BY DEF Decision, Decisions, WouldBlock, Actions

\* The same with the status the handler chooses itself.
LEMMA RefusedForbidden ==
  ASSUME NEW r \in Reasons, final' = Decision("block", r, 403)
  PROVE  final' \in Decisions /\ WouldBlock(final)' /\ final'.reason = r
<1>1. 403 \in 0 .. 999
  OBVIOUS
<1>2. "block" \in {"block", "rate_limit"}
  OBVIOUS
<1> QED
  BY <1>1, <1>2 DEF Decision, Decisions, WouldBlock, Actions

\* The decision of Allow.
LEMMA AllowFields ==
  Allow \in Decisions /\ Allow.action = "allow" /\ Allow.reason = "none" /\ ~WouldBlock(Allow)
BY DEF Allow, Decision, Decisions, WouldBlock, Actions, Reasons

\* EvaluateIP: deny list, then allow list.
LEMMA CheckIPKeeps ==
  ASSUME IInv, NEW inBlock \in {"listed", "unlisted"},
         NEW inAllow \in {"empty", "listed", "unlisted"}, CheckIP(inBlock, inAllow)
  PROVE  IInv'
<1>1. /\ stage = "ip" /\ stage' = "rate_limit"
      /\ facts' = [facts EXCEPT !.blocklist = inBlock, !.allowlist = inAllow]
      /\ final' = EvaluateIP(inBlock, inAllow)
      /\ UNCHANGED <<recorded, sent, proxied, panicking, logged, observed, event>>
  BY DEF CheckIP, Goto
<1>2. FactsOK'
  BY <1>1 DEF IInv, FactsOK
<1>3. /\ facts'.blocklist = inBlock /\ facts'.allowlist = inAllow
      /\ facts'.rate = "?" /\ facts'.rules = <<>> /\ facts'.waf = "?" /\ observed = "none"
  BY <1>1 DEF IInv, FactsOK, Unset
<1>4. /\ final' \in Decisions
      /\ inBlock = "listed" => WouldBlock(final)' /\ final'.reason = "ip_blocklist"
      /\ inBlock # "listed" /\ inAllow = "unlisted" =>
           WouldBlock(final)' /\ final'.reason = "ip_allowlist"
      /\ inBlock # "listed" /\ inAllow # "unlisted" => final' = Allow
  <2>1. CASE inBlock = "listed"
    <3>1. final' = Decision("block", "ip_blocklist", 403) /\ "ip_blocklist" \in Reasons
      BY <1>1, <2>1 DEF EvaluateIP, Reasons
    <3> QED
      BY <2>1, <3>1, RefusedForbidden, Zenon
  <2>2. CASE inBlock # "listed" /\ inAllow = "unlisted"
    <3>1. final' = Decision("block", "ip_allowlist", 403) /\ "ip_allowlist" \in Reasons
      BY <1>1, <2>2 DEF EvaluateIP, Reasons
    <3> QED
      BY <2>2, <3>1, RefusedForbidden, Zenon
  <2>3. CASE inBlock # "listed" /\ inAllow # "unlisted"
    <3>1. final' = Allow
      BY <1>1, <2>3 DEF EvaluateIP
    <3> QED
      BY <2>3, <3>1, AllowFields
  <2> QED
    BY <2>1, <2>2, <2>3
<1>5. TypeOK' /\ Bookkeeping'
  BY <1>1, <1>4, GotoKeeps DEF Checks, IInv, TypeOK
<1>6. Unset'
  BY <1>1, <1>3 DEF Unset
<1>7. FirstRefusal'
  BY <1>1, <1>3, <1>4, AllowFields, NoRulesNoVerdict DEF FirstRefusal, Refuses
<1>8. FirstCount'
  BY <1>1, <1>3, NoRulesNoVerdict DEF FirstCount
<1>9. Deciding'
  BY <1>1, <1>7, <1>8 DEF Deciding, VerdictMatches
<1> QED
  BY <1>2, <1>5, <1>6, <1>9 DEF IInv

\* evaluateRateLimits.
LEMMA CheckRateLimitKeeps ==
  ASSUME IInv, NEW answer \in {"allow", "count", "rate_limit"}, NEW status \in RuleStatuses,
         CheckRateLimit(answer, status)
  PROVE  IInv'
<1>1. /\ stage = "rate_limit" /\ stage' = "custom"
      /\ UNCHANGED <<recorded, sent, proxied, panicking, logged, event>>
      /\ status \in 0 .. 999
  BY PipelineAssumption, ZenonT(40) DEF CheckRateLimit, Goto
<1>2. /\ FirstRefusal /\ FirstCount /\ facts.rate = "?" /\ facts.rules = <<>>
      /\ facts.waf = "?" /\ final \in Decisions /\ observed \in Reasons
  BY <1>1 DEF IInv, Deciding, Unset, TypeOK
<1>3. CASE final.action # "allow"
  <2>1. UNCHANGED <<facts, final, observed>>
    BY <1>3 DEF CheckRateLimit
  <2>2. FactsOK'
    BY <2>1 DEF IInv, FactsOK
  <2>3. TypeOK' /\ Bookkeeping'
    BY <1>1, <1>2, <2>1, GotoKeeps DEF Checks
  <2>4. Unset'
    BY <1>1, <1>2, <2>1 DEF Unset
  <2>5. FirstRefusal'
    BY <1>1, <1>2, <1>3, <2>1, NoRulesNoVerdict DEF FirstRefusal, Refuses
  <2>6. FirstCount'
    BY <1>3, <2>1 DEF FirstCount
  <2> QED
    BY <1>1, <2>2, <2>3, <2>4, <2>5, <2>6 DEF IInv, Deciding, VerdictMatches
<1>4. CASE final.action = "allow"
  <2>1. /\ facts' = [facts EXCEPT !.rate = answer]
        /\ observed' = IF answer = "count" THEN Remember("rate_limit") ELSE observed
        /\ final' = CASE answer = "rate_limit" -> Decision("rate_limit", "rate_limit", status)
                      [] answer # "rate_limit" /\ facts.body = "exceeded" ->
                           Decision("block", "body_limit", 403)
                      [] OTHER -> final
    BY <1>4 DEF CheckRateLimit
  <2>2. FactsOK'
    BY <2>1 DEF IInv, FactsOK
  <2>3. /\ facts'.rate = answer /\ facts'.rules = <<>> /\ facts'.waf = "?"
        /\ facts'.body = facts.body
        /\ facts'.blocklist = facts.blocklist /\ facts'.allowlist = facts.allowlist
    BY <1>2, <2>1 DEF IInv, FactsOK
  <2>4. /\ facts.blocklist # "listed" /\ facts.allowlist # "unlisted"
        /\ final.reason # "custom_rule_allow" /\ observed = "none"
    BY <1>2, <1>4, NoRulesNoVerdict DEF FirstRefusal, FirstCount, Refuses, WouldBlock
  <2>8. FirstRefusal' /\ final' \in Decisions
    <3>1. CASE answer = "rate_limit"
      <4>1. final' = Decision("rate_limit", "rate_limit", status) /\ "rate_limit" \in Reasons
        BY <2>1, <3>1 DEF Reasons
      <4>2. final' \in Decisions /\ WouldBlock(final)' /\ final'.reason = "rate_limit"
        BY <1>1, <4>1, Refused, ZenonT(40)
      <4> QED
        BY <2>3, <2>4, <3>1, <4>2 DEF FirstRefusal, Refuses
    <3>2. CASE answer # "rate_limit" /\ facts.body = "exceeded"
      <4>1. final' = Decision("block", "body_limit", 403) /\ "body_limit" \in Reasons
        BY <2>1, <3>2 DEF Reasons
      <4>2. final' \in Decisions /\ WouldBlock(final)' /\ final'.reason = "body_limit"
        BY <4>1, RefusedForbidden, Zenon
      <4> QED
        BY <1>1, <2>3, <2>4, <3>2, <4>2 DEF FirstRefusal, Refuses
    <3>3. CASE answer # "rate_limit" /\ facts.body # "exceeded"
      <4>1. final' = final
        BY <2>1, <3>3
      <4>2. Verdict(facts'.rules) = {}
        BY <2>3, NoRulesNoVerdict
      <4>3. {} # {"block"} /\ {} # {"terminal_allow"}
        OBVIOUS
      <4>4. FirstRefusal'
        BY <1>4, <2>3, <2>4, <3>3, <4>1, <4>2, <4>3 DEF FirstRefusal
      <4> QED
        BY <1>2, <4>1, <4>4
    <3> QED
      BY <3>1, <3>2, <3>3
  <2>9. observed' \in Reasons /\ observed' = IF answer = "count" THEN "rate_limit" ELSE "none"
    BY <2>1, <2>4 DEF Remember, Reasons
  <2>10. TypeOK' /\ Bookkeeping'
    BY <1>1, <2>8, <2>9, GotoKeeps DEF Checks
  <2>11. Unset'
    BY <1>1, <2>3 DEF Unset
  <2>12. FirstCount'
    BY <2>3, <2>9, NoRulesNoVerdict DEF FirstCount
  <2> QED
    BY <1>1, <2>2, <2>8, <2>10, <2>11, <2>12 DEF IInv, Deciding, VerdictMatches
<1> QED
  BY <1>3, <1>4

\* EvaluateCustomRules.
LEMMA CheckCustomRulesKeeps ==
  ASSUME IInv, NEW rules \in RuleLists, NEW status \in RuleStatuses,
         CheckCustomRules(rules, status)
  PROVE  IInv'
<1>1. /\ stage = "custom" /\ stage' = "waf"
      /\ UNCHANGED <<recorded, sent, proxied, panicking, logged, event>>
      /\ status \in 0 .. 999 /\ rules \in Seq(CustomRule)
  BY PipelineAssumption DEF CheckCustomRules, Goto
<1>2. /\ FirstRefusal /\ FirstCount /\ facts.rules = <<>>
      /\ facts.waf = "?" /\ final \in Decisions /\ observed \in Reasons
  BY <1>1 DEF IInv, Deciding, Unset, TypeOK
<1>3. CASE final.action # "allow"
  <2>1. UNCHANGED <<facts, final, observed>>
    BY <1>3 DEF CheckCustomRules
  <2>2. FactsOK'
    BY <2>1 DEF IInv, FactsOK
  <2>3. TypeOK' /\ Bookkeeping'
    BY <1>1, <1>2, <2>1, GotoKeeps DEF Checks
  <2>4. Unset'
    BY <1>1, <1>2, <2>1 DEF Unset
  <2>5. FirstRefusal' /\ FirstCount'
    BY <1>1, <1>2, <2>1 DEF FirstRefusal, FirstCount, Refuses, WouldBlock
  <2> QED
    BY <1>1, <2>2, <2>3, <2>4, <2>5 DEF IInv, Deciding, VerdictMatches
<1>4. CASE final.action = "allow"
  <2> DEFINE got == EvaluateCustomRules(ByPriority(rules))
  <2>1. /\ facts' = [facts EXCEPT !.rules = rules]
        /\ observed' = IF got = "count" THEN Remember("custom_rule") ELSE observed
        /\ final' = CASE got = "block" -> Decision("block", "custom_rule", status)
                      [] got = "terminal_allow" -> Decision("allow", "custom_rule_allow", 0)
                      [] OTHER -> final
    BY <1>4 DEF CheckCustomRules
  <2>2. \/ got = "block" /\ Verdict(rules) = {"block"}
        \/ got = "terminal_allow" /\ Verdict(rules) = {"terminal_allow"}
        \/ got = "count" /\ Verdict(rules) = {} /\ FirstRule(rules, {"count"}) # {}
        \/ got = "allow" /\ Verdict(rules) = {} /\ FirstRule(rules, {"count"}) = {}
    BY <1>1, CustomRulesDecide
  <2> HIDE DEF got
  <2>3. FactsOK'
    BY <1>1, <2>1 DEF IInv, FactsOK
  <2>4. /\ facts'.rules = rules /\ facts'.waf = "?"
        /\ facts'.body = facts.body /\ facts'.rate = facts.rate
        /\ facts'.blocklist = facts.blocklist /\ facts'.allowlist = facts.allowlist
    BY <1>2, <2>1 DEF IInv, FactsOK
  <2>5. /\ facts.blocklist # "listed" /\ facts.allowlist # "unlisted"
        /\ facts.rate # "rate_limit" /\ facts.body # "exceeded"
        /\ final.reason # "custom_rule_allow"
    <3>1. Verdict(facts.rules) # {"block"} /\ Verdict(facts.rules) # {"terminal_allow"}
      BY <1>2, NoRulesNoVerdict
    <3> QED
      BY <1>1, <1>2, <1>4, <3>1 DEF FirstRefusal, Refuses, WouldBlock
  <2>6. observed = IF facts.rate = "count" THEN "rate_limit" ELSE "none"
    BY <1>2, <1>4, NoRulesNoVerdict DEF FirstCount
  <2>7. FirstRefusal' /\ final' \in Decisions
    <3>1. CASE got = "block"
      <4>1. final' = Decision("block", "custom_rule", status) /\ "custom_rule" \in Reasons
        BY <2>1, <3>1 DEF Reasons
      <4>2. final' \in Decisions /\ WouldBlock(final)' /\ final'.reason = "custom_rule"
        BY <1>1, <4>1, Refused, ZenonT(40)
      <4>3. Verdict(facts'.rules) = {"block"}
        BY <2>2, <2>4, <3>1
      <4> QED
        BY <2>4, <2>5, <4>2, <4>3 DEF FirstRefusal, Refuses
    <3>2. CASE got = "terminal_allow"
      <4>1. final' = Decision("allow", "custom_rule_allow", 0)
        BY <2>1, <3>2
      <4>2. final' \in Decisions /\ final'.action = "allow" /\ final'.reason = "custom_rule_allow"
        BY <4>1 DEF Decision, Decisions, Actions, Reasons
      <4>3. Verdict(facts'.rules) = {"terminal_allow"}
        BY <2>2, <2>4, <3>2
      <4>4. {"terminal_allow"} # {"block"}
        OBVIOUS
      <4> QED
        BY <2>4, <2>5, <4>2, <4>3, <4>4 DEF FirstRefusal
    <3>3. CASE got \in {"count", "allow"}
      <4>1. final' = final
        BY <2>1, <3>3
      <4>2. Verdict(facts'.rules) = {} /\ {} # {"block"} /\ {} # {"terminal_allow"}
        BY <2>2, <2>4, <3>3
      <4>3. FirstRefusal'
        BY <1>4, <2>4, <2>5, <4>1, <4>2 DEF FirstRefusal
      <4> QED
        BY <1>2, <4>1, <4>3
    <3> QED
      BY <2>2, <3>1, <3>2, <3>3
  <2>8. observed' \in Reasons
    BY <1>2, <2>1 DEF Remember, Reasons
  <2>9. FirstCount'
    <3>1. CASE got = "count"
      <4>1. observed' = Remember("custom_rule")
        BY <2>1, <3>1
      <4> QED
        BY <2>2, <2>4, <2>6, <3>1, <4>1 DEF FirstCount, Remember
    <3>2. CASE got # "count"
      <4>1. observed' = observed
        BY <2>1, <3>2
      <4>2. ~(Verdict(rules) = {} /\ FirstRule(rules, {"count"}) # {})
        BY <2>2, <3>2
      <4> QED
        BY <2>4, <2>6, <4>1, <4>2 DEF FirstCount
    <3> QED
      BY <3>1, <3>2
  <2>10. TypeOK' /\ Bookkeeping'
    BY <1>1, <2>7, <2>8, GotoKeeps DEF Checks
  <2>11. Unset'
    BY <1>1, <2>4 DEF Unset
  <2> QED
    BY <1>1, <2>3, <2>7, <2>9, <2>10, <2>11 DEF IInv, Deciding, VerdictMatches
<1> QED
  BY <1>3, <1>4

\* The Coraza engine answers or fails.
LEMMA InspectRequestKeeps ==
  ASSUME IInv, NEW answer \in WafAnswers, InspectRequest(answer)
  PROVE  IInv'
<1>1. /\ stage = "waf"
      /\ facts' = IF final.action = "allow" THEN [facts EXCEPT !.waf = answer] ELSE facts
  BY DEF InspectRequest
<1>2. /\ FirstRefusal /\ FirstCount
      /\ facts.waf = "?" /\ final \in Decisions /\ observed \in Reasons
  BY <1>1 DEF IInv, Deciding, Unset, TypeOK
<1>3. FactsOK'
  BY <1>1 DEF IInv, FactsOK
<1>4. CASE final.action # "allow"
  <2>1. /\ stage' = "default" /\ facts' = facts /\ final' = final /\ observed' = observed
        /\ UNCHANGED <<recorded, sent, proxied, panicking, logged, event>>
    BY <1>1, <1>4 DEF InspectRequest, InspectNow, Goto
  <2>2. TypeOK' /\ Bookkeeping'
    BY <1>1, <1>2, <2>1, GotoKeeps DEF Checks
  <2>3. FirstRefusal' /\ FirstCount'
    BY <1>1, <1>2, <2>1 DEF FirstRefusal, FirstCount, Refuses, WouldBlock
  <2> QED
    BY <1>3, <2>1, <2>2, <2>3, NotUnset DEF IInv, Deciding, VerdictMatches
<1>5. CASE final.action = "allow" /\ answer = "error"
  <2>1. ReturnWith("block", "waf_error", 400)
    BY <1>5 DEF InspectRequest, InspectNow
  <2>2. stage \in Running /\ stage # "origin" /\ "block" \in Actions
        /\ "waf_error" \in Reasons /\ 400 \in 400 .. 599
    BY <1>1 DEF Running, Checks, Actions, Reasons
  <2>3. facts'.waf = "error"
    BY <1>1, <1>5 DEF IInv, FactsOK
  <2> QED
    BY <1>3, <2>1, <2>2, <2>3, ReturnKeeps
<1>6. CASE final.action = "allow" /\ answer # "error"
  <2>1. /\ stage' = "default"
        /\ observed' = IF answer = "count" THEN Remember("waf_match") ELSE observed
        /\ final' = IF answer = "block" THEN Decision("block", "waf_match", 403) ELSE final
        /\ UNCHANGED <<recorded, sent, proxied, panicking, logged, event>>
    BY <1>6 DEF InspectRequest, InspectNow, Goto
  <2>2. /\ facts'.waf = answer /\ facts'.rules = facts.rules
        /\ facts'.body = facts.body /\ facts'.rate = facts.rate
        /\ facts'.blocklist = facts.blocklist /\ facts'.allowlist = facts.allowlist
    BY <1>1, <1>6 DEF IInv, FactsOK
  <2>3. /\ facts.blocklist # "listed" /\ facts.allowlist # "unlisted"
        /\ facts.rate # "rate_limit" /\ facts.body # "exceeded"
        /\ Verdict(facts.rules) # {"block"}
        /\ (final.reason = "custom_rule_allow") <=> (Verdict(facts.rules) = {"terminal_allow"})
    BY <1>1, <1>2, <1>6 DEF FirstRefusal, Refuses, WouldBlock
  <2>4. FirstRefusal' /\ final' \in Decisions
    <3>1. CASE answer = "block"
      <4>1. final' = Decision("block", "waf_match", 403) /\ "waf_match" \in Reasons
        BY <2>1, <3>1 DEF Reasons
      <4>2. final' \in Decisions /\ WouldBlock(final)' /\ final'.reason = "waf_match"
        BY <4>1, RefusedForbidden, Zenon
      <4> QED
        BY <2>2, <2>3, <3>1, <4>2 DEF FirstRefusal, Refuses
    <3>2. CASE answer # "block"
      <4>1. final' = final
        BY <2>1, <3>2
      <4> QED
        BY <1>2, <1>6, <2>2, <2>3, <3>2, <4>1 DEF FirstRefusal
    <3> QED
      BY <3>1, <3>2
  <2>5. observed' \in Reasons
    BY <1>2, <2>1 DEF Remember, Reasons
  <2>6. FirstCount'
    BY <1>2, <1>6, <2>1, <2>2 DEF FirstCount, Remember
  <2>7. TypeOK' /\ Bookkeeping'
    BY <1>1, <2>1, <2>4, <2>5, GotoKeeps DEF Checks
  <2> QED
    BY <1>3, <2>1, <2>4, <2>6, <2>7, NotUnset DEF IInv, Deciding, VerdictMatches
<1> QED
  BY <1>4, <1>5, <1>6

\* The n-th entry of the precedence is the first, if no earlier one holds.
LEMMA NthDenial ==
  ASSUME NEW R, NEW n \in 1 .. 7, NEW r, r = DenialOrder[n], r \in R,
         \A k \in 1 .. n - 1 : DenialOrder[k] \notin R
  PROVE  IsFirst(r, DenialOrder, R)
<1>1. DOMAIN DenialOrder = 1 .. 7
  BY DEF DenialOrder
<1> QED
  BY <1>1 DEF IsFirst

\* The first match to count, by position.
LEMMA NthCount ==
  ASSUME NEW R, NEW n \in 1 .. 3, NEW r, r = CountOrder[n], r \in R,
         \A k \in 1 .. n - 1 : CountOrder[k] \notin R
  PROVE  IsFirst(r, CountOrder, R)
<1>1. DOMAIN CountOrder = 1 .. 3
  BY DEF CountOrder
<1> QED
  BY <1>1 DEF IsFirst

\* The default decision, or the match to count that came first.
LEMMA ApplyDefaultKeeps ==
  ASSUME IInv, NEW default \in {"allow", "block"}, ApplyDefault(default)
  PROVE  IInv'
<1>1. /\ stage = "default" /\ stage' = "enforce"
      /\ facts' = [facts EXCEPT !.default = default]
      /\ final' =
           CASE final.action = "allow" /\ final.reason # "custom_rule_allow" /\ default = "block" ->
                  Decision("block", "default_action", 403)
             [] final.action = "allow"
                /\ ~(final.reason # "custom_rule_allow" /\ default = "block")
                /\ observed # "none" -> Decision("count", observed, 0)
             [] OTHER -> final
      /\ UNCHANGED <<recorded, sent, proxied, panicking, logged, observed, event>>
  BY DEF ApplyDefault, Goto
<1>2. /\ FirstRefusal /\ FirstCount /\ final \in Decisions /\ observed \in Reasons
  BY <1>1 DEF IInv, Deciding, TypeOK
<1>3. FactsOK'
  BY <1>1 DEF IInv, FactsOK
<1>4. /\ facts'.default = default
      /\ facts'.waf = facts.waf /\ facts'.rules = facts.rules
      /\ facts'.body = facts.body /\ facts'.rate = facts.rate
      /\ facts'.blocklist = facts.blocklist /\ facts'.allowlist = facts.allowlist
  BY <1>1 DEF IInv, FactsOK
<1>5. CustomVerdict' = Verdict(facts.rules)
  BY <1>4 DEF CustomVerdict, Verdict
<1> DEFINE R == Denials'
           C == Counts'
           V == Verdict(facts.rules)
<1>6. \A r : r \in R <=>
        \/ r = "ip_blocklist" /\ facts.blocklist = "listed"
        \/ r = "ip_allowlist" /\ facts.allowlist = "unlisted"
        \/ r = "rate_limit" /\ facts.rate = "rate_limit"
        \/ r = "body_limit" /\ facts.body = "exceeded"
        \/ r = "custom_rule" /\ V = {"block"}
        \/ r = "waf_match" /\ facts.waf = "block"
        \/ r = "default_action" /\ default = "block" /\ V # {"terminal_allow"}
  BY <1>4, <1>5 DEF Denials, Reasons
<1>7. \A r : r \in C <=>
        \/ r = "rate_limit" /\ facts.rate = "count"
        \/ r = "custom_rule" /\ V = {} /\ FirstRule(facts.rules, {"count"}) # {}
        \/ r = "waf_match" /\ facts.waf = "count"
  BY <1>4, <1>5 DEF Counts, Reasons
<1> HIDE DEF R, C, V
<1>8. /\ DenialOrder[1] = "ip_blocklist" /\ DenialOrder[2] = "ip_allowlist"
      /\ DenialOrder[3] = "rate_limit" /\ DenialOrder[4] = "body_limit"
      /\ DenialOrder[5] = "custom_rule" /\ DenialOrder[6] = "waf_match"
      /\ DenialOrder[7] = "default_action"
      /\ CountOrder[1] = "rate_limit" /\ CountOrder[2] = "custom_rule"
      /\ CountOrder[3] = "waf_match"
  BY DEF DenialOrder, CountOrder
<1>9. CASE WouldBlock(final)
  <2>1. final' = final
    BY <1>1, <1>9 DEF WouldBlock
  <2>2. PICK n \in 1 .. 6 :
          /\ final.reason = DenialOrder[n] /\ DenialOrder[n] \in R
          /\ \A k \in 1 .. n - 1 : DenialOrder[k] \notin R
    <3>0. ~(final.action = "allow") /\ stage # "rate_limit"
      BY <1>1, <1>9 DEF WouldBlock
    <3> DEFINE G(n) == /\ final.reason = DenialOrder[n] /\ DenialOrder[n] \in R
                       /\ \A k \in 1 .. n - 1 : DenialOrder[k] \notin R
    <3>1. CASE facts.blocklist = "listed"
      <4>1. final.reason = "ip_blocklist"
        BY <1>2, <3>1 DEF FirstRefusal, Refuses
      <4>2. G(1)
        BY <1>6, <1>8, <3>1, <4>1
      <4> QED BY <4>2
    <3>2. CASE facts.blocklist # "listed" /\ facts.allowlist = "unlisted"
      <4>1. final.reason = "ip_allowlist"
        BY <1>2, <3>2 DEF FirstRefusal, Refuses
      <4>2. G(2)
        BY <1>6, <1>8, <3>2, <4>1
      <4> QED BY <4>2
    <3>3. CASE /\ facts.blocklist # "listed" /\ facts.allowlist # "unlisted"
               /\ facts.rate = "rate_limit"
      <4>1. final.reason = "rate_limit"
        BY <1>2, <3>3 DEF FirstRefusal, Refuses
      <4>2. G(3)
        BY <1>6, <1>8, <3>3, <4>1
      <4> QED BY <4>2
    <3>4. CASE /\ facts.blocklist # "listed" /\ facts.allowlist # "unlisted"
               /\ facts.rate # "rate_limit" /\ facts.body = "exceeded"
      <4>1. final.reason = "body_limit"
        BY <1>2, <3>0, <3>4 DEF FirstRefusal, Refuses
      <4>2. G(4)
        BY <1>6, <1>8, <3>4, <4>1
      <4> QED BY <4>2
    <3>5. CASE /\ facts.blocklist # "listed" /\ facts.allowlist # "unlisted"
               /\ facts.rate # "rate_limit" /\ facts.body # "exceeded" /\ V = {"block"}
      <4>1. final.reason = "custom_rule"
        BY <1>2, <3>5 DEF FirstRefusal, Refuses, V
      <4>2. G(5)
        BY <1>6, <1>8, <3>5, <4>1
      <4> QED BY <4>2
    <3>6. CASE /\ facts.blocklist # "listed" /\ facts.allowlist # "unlisted"
               /\ facts.rate # "rate_limit" /\ facts.body # "exceeded" /\ V # {"block"}
      <4>1. facts.waf = "block" /\ final.reason = "waf_match"
        BY <1>2, <3>0, <3>6 DEF FirstRefusal, Refuses, V
      <4>2. G(6)
        BY <1>6, <1>8, <3>6, <4>1
      <4> QED BY <4>2
    <3> QED
      BY <3>1, <3>2, <3>3, <3>4, <3>5, <3>6
  <2>3. IsFirst(final.reason, DenialOrder, R) /\ R # {}
    BY <2>2, NthDenial
  <2>4. VerdictMatches'
    BY <1>9, <2>1, <2>3 DEF VerdictMatches, WouldBlock, R
  <2>5. TypeOK' /\ Bookkeeping'
    BY <1>1, <1>2, <2>1, GotoKeeps DEF Checks
  <2> QED
    BY <1>1, <1>3, <2>4, <2>5, NotUnset DEF IInv, Deciding
<1>10. CASE ~WouldBlock(final)
  <2>1. /\ facts.blocklist # "listed" /\ facts.allowlist # "unlisted"
        /\ facts.rate # "rate_limit" /\ facts.body # "exceeded"
        /\ V # {"block"} /\ facts.waf # "block" /\ final.action = "allow"
        /\ (final.reason = "custom_rule_allow") <=> (V = {"terminal_allow"})
    BY <1>1, <1>2, <1>10 DEF FirstRefusal, Refuses, V
  <2>2. CASE final.reason # "custom_rule_allow" /\ default = "block"
    <3>1. final' = Decision("block", "default_action", 403) /\ "default_action" \in Reasons
      BY <1>1, <2>1, <2>2 DEF Reasons
    <3>2. final' \in Decisions /\ WouldBlock(final)' /\ final'.reason = "default_action"
      BY <3>1, RefusedForbidden, Zenon
    <3>3. DenialOrder[7] \in R /\ \A k \in 1 .. 7 - 1 : DenialOrder[k] \notin R
      BY <1>6, <1>8, <2>1, <2>2
    <3>4. IsFirst("default_action", DenialOrder, R) /\ R # {}
      BY <1>8, <3>3, NthDenial
    <3>5. VerdictMatches'
      BY <3>2, <3>4 DEF VerdictMatches, R
    <3>6. TypeOK' /\ Bookkeeping'
      BY <1>1, <1>2, <3>2, GotoKeeps DEF Checks
    <3> QED
      BY <1>1, <1>3, <3>5, <3>6, NotUnset DEF IInv, Deciding
  <2>3. CASE ~(final.reason # "custom_rule_allow" /\ default = "block")
    <3>1. R = {}
      BY <1>6, <2>1, <2>3
    <3>2. observed = IF facts.rate = "count" THEN "rate_limit"
                     ELSE IF V = {} /\ FirstRule(facts.rules, {"count"}) # {}
                       THEN "custom_rule"
                     ELSE IF facts.waf = "count" THEN "waf_match" ELSE "none"
      BY <1>2, <2>1 DEF FirstCount, V
    <3>3. CASE observed # "none"
      <4>1. final' = Decision("count", observed, 0)
        BY <1>1, <2>1, <2>3, <3>3
      <4>2. final' \in Decisions /\ final'.action = "count" /\ final'.reason = observed
        BY <1>2, <4>1 DEF Decision, Decisions, Actions
      <4>3. PICK n \in 1 .. 3 : /\ observed = CountOrder[n] /\ CountOrder[n] \in C
                                /\ \A k \in 1 .. n - 1 : CountOrder[k] \notin C
        <5> DEFINE G(n) == /\ observed = CountOrder[n] /\ CountOrder[n] \in C
                           /\ \A k \in 1 .. n - 1 : CountOrder[k] \notin C
        <5>1. CASE facts.rate = "count"
          <6>1. G(1)
            BY <1>7, <1>8, <3>2, <5>1
          <6> QED BY <6>1
        <5>2. CASE facts.rate # "count" /\ V = {} /\ FirstRule(facts.rules, {"count"}) # {}
          <6>1. G(2)
            BY <1>7, <1>8, <3>2, <5>2
          <6> QED BY <6>1
        <5>3. CASE facts.rate # "count" /\ ~(V = {} /\ FirstRule(facts.rules, {"count"}) # {})
          <6>1. facts.waf = "count" /\ observed = "waf_match"
            BY <3>2, <3>3, <5>3
          <6>2. G(3)
            BY <1>7, <1>8, <5>3, <6>1
          <6> QED BY <6>2
        <5> QED
          BY <5>1, <5>2, <5>3
      <4>4. IsFirst(observed, CountOrder, C) /\ C # {}
        BY <4>3, NthCount
      <4>5. VerdictMatches'
        BY <3>1, <4>2, <4>4 DEF VerdictMatches, R, C
      <4>6. TypeOK' /\ Bookkeeping'
        BY <1>1, <1>2, <4>2, GotoKeeps DEF Checks
      <4> QED
        BY <1>1, <1>3, <4>5, <4>6, NotUnset DEF IInv, Deciding
    <3>4. CASE observed = "none"
      <4>1. final' = final
        BY <1>1, <2>1, <2>3, <3>4
      <4>2. C = {}
        BY <1>7, <3>2, <3>4
      <4>3. VerdictMatches'
        BY <2>1, <3>1, <4>1, <4>2 DEF VerdictMatches, R, C
      <4>4. TypeOK' /\ Bookkeeping'
        BY <1>1, <1>2, <4>1, GotoKeeps DEF Checks
      <4> QED
        BY <1>1, <1>3, <4>3, <4>4, NotUnset DEF IInv, Deciding
    <3> QED
      BY <3>3, <3>4
  <2> QED
    BY <2>2, <2>3
<1> QED
  BY <1>9, <1>10

-----------------------------------------------------------------------------
(***************************************************************************)
(* The response, the origin and the deferred functions.                    *)
(***************************************************************************)

\* The decision is enforced: refused, or handed to the proxy.
LEMMA EnforceKeeps == ASSUME IInv, Enforce PROVE IInv'
<1>1. /\ stage = "enforce"
      /\ event' = [event EXCEPT !.action = final.action, !.reason = final.reason,
                     !.wouldBlock = WouldBlock(final), !.enforced = EnforcedField]
      /\ UNCHANGED <<facts, final, observed, proxied, logged>>
  BY DEF Enforce
<1>2. /\ logged = 0 /\ sent = 0 /\ recorded = 200 /\ ~proxied /\ ~panicking
  BY <1>1 DEF IInv, Bookkeeping, Running, Checks
<1>3. event' \in Events /\ event'.enforced = EnforcedField
  <2> DEFINE w == WouldBlock(final)
             b == EnforcedField
             a == final.action
             r == final.reason
             e == [event EXCEPT !.action = a, !.reason = r, !.wouldBlock = w,
                                !.enforced = b]
  <2>1. event \in Events /\ a \in Actions /\ r \in Reasons
    BY DEF IInv, TypeOK, Decisions
  <2>2. w \in BOOLEAN /\ b \in BOOLEAN
    BY DEF WouldBlock, EnforcedField
  <2>3. event' = e
    BY <1>1
  <2> HIDE DEF w, b, a, r
  <2>4. e \in Events
    BY ONLY <2>1, <2>2, ZenonT(40) DEF Events
  <2>5. e.enforced = b
    BY ONLY <2>1, <2>2, ZenonT(40) DEF Events
  <2> HIDE DEF e
  <2>6. event' \in Events /\ event'.enforced = b
    BY <2>3, <2>4, <2>5, Zenon
  <2> QED
    BY <2>6 DEF b
<1>4. EnforcedField <=> Denied
  BY DEF EnforcedField, Denied
<1>5. BlockStatus \in 1 .. 999 /\ Final(BlockStatus) \in 1 .. 999
  BY DEF IInv, TypeOK, Decisions, BlockStatus, Final, Informational
<1>6. FactsOK'
  BY <1>1 DEF IInv, FactsOK
<1>7. CASE Denied
  <2>1. facts.mode = "block"
    BY <1>7 DEF Denied
  <2>2. /\ stage' = "deferred" /\ recorded' = BlockStatus
        /\ \/ sent' = Final(BlockStatus) /\ UNCHANGED panicking
           \/ panicking' = TRUE /\ UNCHANGED sent
    <3>1. BlockStatus >= 100 \/ BlockStatus < 100
      BY <1>5
    <3>2. CASE BlockStatus >= 100
      BY <1>7, <3>2 DEF Enforce
    <3>3. CASE BlockStatus < 100 /\ ~(BlockStatus >= 100)
      BY <1>7, <3>3 DEF Enforce
    <3> QED
      BY <1>5, <3>1, <3>2, <3>3, ZenonT(40)
  <2>3. TypeOK'
    <3>1. sent' \in 0 .. 999 /\ recorded' \in 1 .. 999
      BY <1>2, <1>5, <2>2
    <3>2. panicking' \in BOOLEAN
      BY <2>2, ZenonT(40) DEF IInv, TypeOK
    <3> QED
      BY <1>1, <1>3, <2>2, <3>1, <3>2 DEF IInv, TypeOK, Stages
  <2>4. Ended'
    BY <1>1, <1>2, <1>3, <1>4, <1>7, <2>1 DEF Ended
  <2>5. ~panicking' => sent' = Final(recorded')
    BY <2>2, <1>1, <1>2
  <2>6. Bookkeeping'
    BY <1>1, <1>2, <2>2, <2>4, <2>5 DEF Bookkeeping, Running, Checks
  <2>7. Unset' /\ Deciding'
    BY <2>2, NotDeciding, NotUnset DEF Checks
  <2> QED
    BY <1>6, <2>3, <2>6, <2>7 DEF IInv
<1>8. CASE ~Denied
  <2>1. stage' = "origin" /\ UNCHANGED <<recorded, sent, panicking>>
    BY <1>8 DEF Enforce
  <2>2. TypeOK'
    BY <1>1, <1>3, <2>1 DEF IInv, TypeOK, Stages
  <2>3. facts.mode = "block" => Denials = {}
    BY <1>1, <1>8 DEF IInv, Deciding, VerdictMatches, Denied
  <2>4. Denials' = Denials
    BY <1>1 DEF Denials, CustomVerdict
  <2>5. Bookkeeping'
    BY <1>1, <1>2, <1>3, <1>4, <1>8, <2>1, <2>3, <2>4 DEF Bookkeeping, Running, Checks
  <2>6. Unset' /\ Deciding'
    BY <2>1, NotDeciding, NotUnset DEF Checks
  <2> QED
    BY <1>6, <2>2, <2>5, <2>6 DEF IInv
<1> QED
  BY <1>7, <1>8

\* The origin answers.
LEMMA ProxyKeeps ==
  ASSUME IInv, NEW outcome \in {"answers", "unreachable", "broken"}, Proxy(outcome)
  PROVE  IInv'
<1>1. /\ stage = "origin" /\ stage' = "deferred" /\ proxied' = TRUE
      /\ recorded' \in {200, 502} /\ sent' = IF sent = 0 THEN recorded' ELSE sent
      /\ UNCHANGED <<facts, final, observed, event, logged>>
  BY DEF Proxy, Respond
<1>2. /\ logged = 0 /\ sent = 0 /\ ~event.enforced
      /\ facts.mode = "block" => Denials = {}
  BY <1>1 DEF IInv, Bookkeeping, Running
<1>3. panicking' \in BOOLEAN
  BY DEF Proxy
<1>4. sent' = recorded'
  BY <1>1, <1>2
<1>5. TypeOK'
  <2>1. recorded' \in 1 .. 999 /\ sent' \in 0 .. 999
    BY <1>1, <1>4
  <2> QED
    BY <1>1, <1>3, <2>1 DEF IInv, TypeOK, Stages
<1>6. FactsOK'
  BY <1>1 DEF IInv, FactsOK
<1>7. Denials' = Denials
  BY <1>1 DEF Denials, CustomVerdict
<1>8. Ended'
  BY <1>1, <1>2, <1>7 DEF Ended
<1>9. Bookkeeping'
  BY <1>1, <1>2, <1>4, <1>8 DEF Bookkeeping, Running, Checks, Final, Informational
<1>10. Unset' /\ Deciding'
  BY <1>1, NotDeciding, NotUnset DEF Checks
<1> QED
  BY <1>5, <1>6, <1>9, <1>10 DEF IInv

\* A panic at any stage.
LEMMA PanicKeeps == ASSUME IInv, Panic PROVE IInv'
<1>1. /\ stage \in Running /\ stage' = "deferred" /\ panicking' = TRUE
      /\ UNCHANGED <<facts, final, observed, event, recorded, sent, proxied, logged>>
  BY DEF Panic, Running, Checks
<1>2. logged = 0 /\ ~proxied /\ ~event.enforced
  BY <1>1 DEF IInv, Bookkeeping
<1>3. TypeOK'
  BY <1>1 DEF IInv, TypeOK, Stages
<1>4. FactsOK'
  BY <1>1 DEF IInv, FactsOK
<1>5. Bookkeeping'
  BY <1>1, <1>2 DEF Bookkeeping, Ended, Running, Checks
<1>6. Unset' /\ Deciding'
  BY <1>1, NotDeciding, NotUnset DEF Checks
<1> QED
  BY <1>3, <1>4, <1>5, <1>6 DEF IInv

\* The deferred function writes the event.
LEMMA DeferredKeeps == ASSUME IInv, Deferred PROVE IInv'
<1>1. /\ stage = "deferred"
      /\ event' = [event EXCEPT !.status = recorded]
      /\ logged' = logged + 1
      /\ stage' = IF panicking THEN "recover" ELSE "done"
      /\ sent' = IF sent = 0 /\ ~panicking THEN 200 ELSE sent
      /\ UNCHANGED <<facts, final, observed, recorded, proxied, panicking>>
  BY DEF Deferred, LogsNow
<1>2. event' \in Events /\ event'.enforced = event.enforced /\ event'.status = recorded
  <2> DEFINE e == [event EXCEPT !.status = recorded]
  <2>1. event \in Events /\ recorded \in 1 .. 999
    BY DEF IInv, TypeOK
  <2>2. event' = e
    BY <1>1
  <2>3. e \in Events
    BY ONLY <2>1, ZenonT(40) DEF Events
  <2>4. e.enforced = event.enforced
    BY ONLY <2>1, ZenonT(40) DEF Events
  <2>5. e.status = recorded
    BY ONLY <2>1, ZenonT(40) DEF Events
  <2> HIDE DEF e
  <2> QED
    BY <2>2, <2>3, <2>4, <2>5, Zenon
<1>3. /\ logged = 0 /\ Ended
      /\ ~panicking =>
           sent = Final(recorded) \/ (sent = 0 /\ recorded = 200)
  BY <1>1 DEF IInv, Bookkeeping
<1>4. TypeOK'
  BY <1>1, <1>2 DEF IInv, TypeOK, Stages
<1>5. FactsOK'
  BY <1>1 DEF IInv, FactsOK
<1>6. Denials' = Denials
  BY <1>1 DEF Denials, CustomVerdict
<1>7. Ended'
  BY <1>1, <1>2, <1>3, <1>6 DEF Ended
<1>8. ~panicking => sent' = Final(event'.status)
  BY <1>1, <1>2, <1>3 DEF IInv, TypeOK, Final, Informational
<1>9. Bookkeeping'
  BY <1>1, <1>3, <1>7, <1>8 DEF Bookkeeping, Running, Checks
<1>10. Unset' /\ Deciding'
  BY <1>1, NotDeciding, NotUnset DEF Checks
<1> QED
  BY <1>4, <1>5, <1>9, <1>10 DEF IInv

\* The outer deferred function recovers.
LEMMA RecoverKeeps == ASSUME IInv, Recover PROVE IInv'
<1>1. /\ stage = "recover" /\ stage' = "done"
      /\ sent' = IF sent = 0 THEN 500 ELSE sent
      /\ UNCHANGED <<facts, final, observed, event, recorded, proxied, panicking, logged>>
  BY DEF Recover
<1>2. panicking /\ logged = 1 /\ Ended
  BY <1>1 DEF IInv, Bookkeeping
<1>3. TypeOK'
  <2>1. sent' \in 0 .. 999
    BY <1>1 DEF IInv, TypeOK
  <2> QED
    BY <1>1, <2>1 DEF IInv, TypeOK, Stages
<1>4. FactsOK'
  BY <1>1 DEF IInv, FactsOK
<1>5. Denials' = Denials
  BY <1>1 DEF Denials, CustomVerdict
<1>6. Ended'
  BY <1>1, <1>2, <1>5 DEF Ended
<1>7. Bookkeeping'
  BY <1>1, <1>2, <1>6 DEF Bookkeeping, Running, Checks
<1>8. Unset' /\ Deciding'
  BY <1>1, NotDeciding, NotUnset DEF Checks
<1> QED
  BY <1>3, <1>4, <1>7, <1>8 DEF IInv

\* A step that changes nothing.
LEMMA StutterKeeps == ASSUME IInv, UNCHANGED vars PROVE IInv'
<1>1. TypeOK' /\ FactsOK'
  BY DEF vars, IInv, TypeOK, FactsOK
<1>2. Denials' = Denials /\ Counts' = Counts
  BY DEF vars, Denials, Counts, CustomVerdict
<1>3. Bookkeeping'
  BY <1>2 DEF vars, IInv, Bookkeeping, Ended
<1>4. Unset'
  BY DEF vars, IInv, Unset
<1>5. Deciding'
  BY <1>2 DEF vars, IInv, Deciding, VerdictMatches, FirstRefusal, FirstCount, Refuses
<1> QED
  BY <1>1, <1>3, <1>4, <1>5 DEF IInv

-----------------------------------------------------------------------------
(***************************************************************************)
(* The theorems.                                                           *)
(***************************************************************************)

\* Type correctness and the stage-by-stage account of the decision, the
\* response and the event hold in every reachable state, for all lists of
\* custom rules of any length and all status codes of rules.
THEOREM Invariance == Spec => []IInv
<1>1. Init => IInv
  BY InitHolds
<1>2. IInv /\ [Next]_vars => IInv'
  <2> SUFFICES ASSUME IInv, [Next]_vars PROVE IInv'
    OBVIOUS
  <2>1. CASE ServeLocal
    BY <2>1, ServeLocalKeeps
  <2>2. ASSUME NEW valid \in BOOLEAN, CheckHost(valid) PROVE IInv'
    BY <2>2, CheckHostKeeps
  <2>3. ASSUME NEW l \in Lookups, NEW mode \in {"count", "block"}, LookupPolicy(l, mode)
        PROVE  IInv'
    BY <2>3, LookupKeeps
  <2>4. ASSUME NEW b \in {"within", "exceeded", "unreadable"}, ReadBody(b) PROVE IInv'
    BY <2>4, ReadBodyKeeps
  <2>5. ASSUME NEW inBlock \in {"listed", "unlisted"},
               NEW inAllow \in {"empty", "listed", "unlisted"}, CheckIP(inBlock, inAllow)
        PROVE  IInv'
    BY <2>5, CheckIPKeeps
  <2>6. ASSUME NEW answer \in {"allow", "count", "rate_limit"}, NEW status \in RuleStatuses,
               CheckRateLimit(answer, status)
        PROVE  IInv'
    BY <2>6, CheckRateLimitKeeps
  <2>7. ASSUME NEW rules \in RuleLists, NEW status \in RuleStatuses,
               CheckCustomRules(rules, status)
        PROVE  IInv'
    BY <2>7, CheckCustomRulesKeeps
  <2>8. ASSUME NEW answer \in WafAnswers, InspectRequest(answer) PROVE IInv'
    BY <2>8, InspectRequestKeeps
  <2>9. ASSUME NEW default \in {"allow", "block"}, ApplyDefault(default) PROVE IInv'
    BY <2>9, ApplyDefaultKeeps
  <2>10. CASE Enforce
    BY <2>10, EnforceKeeps
  <2>11. ASSUME NEW outcome \in {"answers", "unreachable", "broken"}, Proxy(outcome)
         PROVE  IInv'
    BY <2>11, ProxyKeeps
  <2>12. CASE Panic
    BY <2>12, PanicKeeps
  <2>13. CASE Deferred
    BY <2>13, DeferredKeeps
  <2>14. CASE Recover
    BY <2>14, RecoverKeeps
  <2>15. CASE Done
    BY <2>15, StutterKeeps DEF Done
  <2>16. CASE UNCHANGED vars
    BY <2>16, StutterKeeps
  <2> QED
    BY <2>1, <2>2, <2>3, <2>4, <2>5, <2>6, <2>7, <2>8, <2>9, <2>10, <2>11, <2>12,
       <2>13, <2>14, <2>15, <2>16 DEF Next
<1> QED
  BY <1>1, <1>2, PTL DEF Spec

\* ServeHTTP's checks in their order compute the verdict that the facts
\* alone determine, whatever the custom rules and however many there are.
THEOREM VerdictMatchesHolds == Spec => []VerdictMatches
<1>1. IInv => VerdictMatches
  BY DEF IInv, Deciding
<1> QED
  BY <1>1, Invariance, PTL

\* In block mode ServeHTTP hands no request to the origin that there is a
\* reason to deny; in count mode no verdict keeps one from it.
THEOREM DenialHoldsAlways == Spec => []DenialHolds
<1>1. IInv => DenialHolds
  <2> SUFFICES ASSUME IInv PROVE DenialHolds
    OBVIOUS
  <2>1. stage \in Running \/ stage \in {"deferred", "recover", "done"}
    BY DEF IInv, TypeOK, Stages, Running, Checks
  <2>2. CASE stage \in Running
    <3>1. ~proxied /\ stage # "done"
      BY <2>2 DEF IInv, Bookkeeping, Running, Checks
    <3> QED
      BY <3>1 DEF DenialHolds
  <2>3. CASE stage \in {"deferred", "recover", "done"}
    <3>1. Ended
      BY <2>3 DEF IInv, Bookkeeping
    <3> QED
      BY <3>1 DEF Ended, DenialHolds
  <2> QED
    BY <2>1, <2>2, <2>3
<1> QED
  BY <1>1, Invariance, PTL

\* The audit event that ServeHTTP's deferred function logs tells whether the
\* request was refused and with which status.
THEOREM EventTruthfulHolds == Spec => []EventTruthful
<1>1. IInv => EventTruthful
  BY DEF IInv, Bookkeeping, Ended, EventTruthful, Final
<1> QED
  BY <1>1, Invariance, PTL

\* Every request with a valid Host is logged exactly once, on every return
\* of ServeHTTP and through every panic.
THEOREM AuditedOnceHolds == Spec => []AuditedOnce
<1>1. IInv => AuditedOnce
  BY DEF IInv, Bookkeeping, AuditedOnce
<1> QED
  BY <1>1, Invariance, PTL
=============================================================================
