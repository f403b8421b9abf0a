------------------------- MODULE PolicyLoadingProofs -------------------------
(***************************************************************************)
(* Proofs about the way of a policy document to the gateway, for documents *)
(* with any number of rules and limits and conditions of any depth.        *)
(*                                                                         *)
(* What the two validators, Match and Holds compute is a recursive         *)
(* function on conditions.  Each is monotone in the children's values, so  *)
(* its equation has a solution, the least fixed point; that the equation   *)
(* determines the values is the induction over Height, here an argument    *)
(* about a lowest counterexample.                                          *)
(***************************************************************************)
EXTENDS PolicyLoading, FiniteSetTheorems, WellFoundedInduction, TLAPS

\* A set of natural numbers has a least element.
LEMMA LeastNat ==
  ASSUME NEW S \in SUBSET Nat, S # {}
  PROVE  \E x \in S : \A y \in S : x <= y
<1> DEFINE R == OpToRel(<, Nat)
           Lt(x, y) == <<x, y>> \in R
<1>1. \A x, y \in Nat : x < y => Lt(x, y)
  BY Zenon DEF OpToRel
<1>2. IsWellFoundedOn(R, Nat)
  BY NatLessThanWellFounded
<1> HIDE DEF R
<1>3. \E x \in S : \A y \in S : ~Lt(y, x)
  BY <1>2, WFMin
<1> HIDE DEF Lt
<1> QED
  BY <1>1, <1>3

-----------------------------------------------------------------------------
(***************************************************************************)
(* Recursive functions on conditions.                                      *)
(***************************************************************************)

\* A condition's parts, and its place above its children.
LEMMA ConditionParts ==
  ASSUME NEW c \in Conditions
  PROVE  /\ c.ops \in SUBSET LeafOps
         /\ ToSet(c.all) \in SUBSET Conditions /\ ToSet(c.any) \in SUBSET Conditions
         /\ Children(c) \in SUBSET Conditions
         /\ Height[c] \in Nat /\ \A child \in Children(c) : Height[child] < Height[c]
<1>1. c \in Condition /\ Height[c] \in Nat
      /\ \A child \in Children(c) : Height[child] < Height[c]
  BY LoadingAssumption
<1>2. c.ops \in SUBSET LeafOps /\ c.all \in Seq(Conditions) /\ c.any \in Seq(Conditions)
  BY <1>1 DEF Condition
<1>3. ToSet(c.all) \in SUBSET Conditions
  BY <1>2 DEF ToSet
<1>4. ToSet(c.any) \in SUBSET Conditions
  BY <1>2 DEF ToSet
<1> QED
  BY <1>1, <1>2, <1>3, <1>4 DEF Children

\* A monotone rule N that says of a condition and of the set of those that
\* are true whether it is true too has a fixed point: the least set it is
\* closed under.
LEMMA FixedPoint ==
  ASSUME NEW N,
         \A x \in Conditions : \A A, B \in SUBSET Conditions :
           A \subseteq B /\ <<x, A>> \in N => <<x, B>> \in N
  PROVE  \E T \in SUBSET Conditions : \A x \in Conditions : x \in T <=> <<x, T>> \in N
<1> DEFINE Closed(S) == \A x \in Conditions : <<x, S>> \in N => x \in S
           T == {x \in Conditions : \A S \in SUBSET Conditions : Closed(S) => x \in S}
           U == {x \in Conditions : <<x, T>> \in N}
<1>1. T \in SUBSET Conditions /\ U \in SUBSET Conditions
  OBVIOUS
<1>2. ASSUME NEW S \in SUBSET Conditions, Closed(S) PROVE T \subseteq S
  BY <1>2
<1>3. Closed(T)
  <2> SUFFICES ASSUME NEW x \in Conditions, <<x, T>> \in N,
                      NEW S \in SUBSET Conditions, Closed(S)
               PROVE  x \in S
    OBVIOUS
  <2>1. T \subseteq S
    BY <1>2
  <2> HIDE DEF T
  <2>2. <<x, S>> \in N
    BY <1>1, <2>1
  <2> QED
    BY <2>2
<1>4. U \subseteq T
  <2> HIDE DEF T
  <2> QED BY <1>3
<1>5. Closed(U)
  <2> SUFFICES ASSUME NEW x \in Conditions, <<x, U>> \in N PROVE <<x, T>> \in N
    OBVIOUS
  <2> HIDE DEF T, U
  <2> QED BY <1>1, <1>4
<1>6. T \subseteq U
  <2> HIDE DEF T, U, Closed
  <2> QED BY <1>1, <1>2, <1>5
<1>7. \A x \in Conditions : x \in T <=> <<x, T>> \in N
  <2> HIDE DEF T
  <2> QED BY <1>4, <1>6
<1> HIDE DEF T
<1> QED
  BY <1>1, <1>7

\* ApiCondition is true of a condition when ApiNode is and it is true of the
\* children: validatePolicyCondition calls itself on every one.
LEMMA ApiConditionSays ==
  ASSUME NEW c \in Conditions, NEW sets
  PROVE  ApiCondition(c, sets) <=>
           ApiNode(c, sets) /\ \A child \in Children(c) : ApiCondition(child, sets)
<1> DEFINE Eq(f) == f = [x \in Conditions |->
                           ApiNode(x, sets) /\ \A child \in Children(x) : f[child]]
           valid == CHOOSE f : Eq(f)
           N == {p \in Conditions \X SUBSET Conditions :
                   ApiNode(p[1], sets) /\ \A child \in Children(p[1]) : child \in p[2]}
<1>1. \A x : ApiCondition(x, sets) = valid[x]
  BY DEF ApiCondition
<1>2. \A x \in Conditions : \A A \in SUBSET Conditions :
        <<x, A>> \in N <=> ApiNode(x, sets) /\ \A child \in Children(x) : child \in A
  OBVIOUS
<1> HIDE DEF N
<1>3. PICK T \in SUBSET Conditions : \A x \in Conditions : x \in T <=> <<x, T>> \in N
  <2>1. \A x \in Conditions : \A A, B \in SUBSET Conditions :
          A \subseteq B /\ <<x, A>> \in N => <<x, B>> \in N
    BY <1>2
  <2> QED
    BY <2>1, FixedPoint
<1> DEFINE f == [x \in Conditions |-> x \in T]
<1>4. Eq(f)
  <2>1. ASSUME NEW x \in Conditions
        PROVE  x \in T <=> (ApiNode(x, sets) /\ \A child \in Children(x) : f[child])
    <3>1. \A child \in Children(x) : f[child] <=> child \in T
      BY ConditionParts
    <3> HIDE DEF f
    <3> QED
      BY <1>2, <1>3, <3>1
  <2> QED
    BY <2>1
<1> HIDE DEF f, Eq
<1>5. Eq(valid)
  BY <1>4
<1>6. valid[c] <=> ApiNode(c, sets) /\ \A child \in Children(c) : valid[child]
  <2> HIDE DEF valid
  <2> QED
    BY <1>5 DEF Eq
<1> HIDE DEF valid
<1> QED
  BY <1>1, <1>6

\* GatewayCondition likewise: parseCondition calls itself on every child.
LEMMA GatewayConditionSays ==
  ASSUME NEW c \in Conditions, NEW sets
  PROVE  GatewayCondition(c, sets) <=>
           GatewayNode(c, sets) /\ \A child \in Children(c) : GatewayCondition(child, sets)
<1> DEFINE Eq(f) == f = [x \in Conditions |->
                           GatewayNode(x, sets) /\ \A child \in Children(x) : f[child]]
           valid == CHOOSE f : Eq(f)
           N == {p \in Conditions \X SUBSET Conditions :
                   GatewayNode(p[1], sets) /\ \A child \in Children(p[1]) : child \in p[2]}
<1>1. \A x : GatewayCondition(x, sets) = valid[x]
  BY DEF GatewayCondition
<1>2. \A x \in Conditions : \A A \in SUBSET Conditions :
        <<x, A>> \in N <=> GatewayNode(x, sets) /\ \A child \in Children(x) : child \in A
  OBVIOUS
<1> HIDE DEF N
<1>3. PICK T \in SUBSET Conditions : \A x \in Conditions : x \in T <=> <<x, T>> \in N
  <2>1. \A x \in Conditions : \A A, B \in SUBSET Conditions :
          A \subseteq B /\ <<x, A>> \in N => <<x, B>> \in N
    BY <1>2
  <2> QED
    BY <2>1, FixedPoint
<1> DEFINE f == [x \in Conditions |-> x \in T]
<1>4. Eq(f)
  <2>1. ASSUME NEW x \in Conditions
        PROVE  x \in T <=> (GatewayNode(x, sets) /\ \A child \in Children(x) : f[child])
    <3>1. \A child \in Children(x) : f[child] <=> child \in T
      BY ConditionParts
    <3> HIDE DEF f
    <3> QED
      BY <1>2, <1>3, <3>1
  <2> QED
    BY <2>1
<1> HIDE DEF f, Eq
<1>5. Eq(valid)
  BY <1>4
<1>6. valid[c] <=> GatewayNode(c, sets) /\ \A child \in Children(c) : valid[child]
  <2> HIDE DEF valid
  <2> QED
    BY <1>5 DEF Eq
<1> HIDE DEF valid
<1> QED
  BY <1>1, <1>6

\* Match: all before any before the leaf operators.
LEMMA MatchSays ==
  ASSUME NEW c \in Conditions, NEW req
  PROVE  Match(c, req) <=>
           (c.all # <<>> /\ \A child \in ToSet(c.all) : Match(child, req))
           \/ (c.all = <<>> /\ c.any # <<>> /\ \E child \in ToSet(c.any) : Match(child, req))
           \/ (c.all = <<>> /\ c.any = <<>>
               /\ \E op \in c.ops : Looked(c, op) /\ LeafHolds(op, req))
<1> DEFINE Eq(f) == f = [x \in Conditions |->
                        (x.all # <<>> /\ \A child \in ToSet(x.all) : f[child])
                        \/ (x.all = <<>> /\ x.any # <<>> /\ \E child \in ToSet(x.any) : f[child])
                        \/ (x.all = <<>> /\ x.any = <<>>
                            /\ \E op \in x.ops : Looked(x, op) /\ LeafHolds(op, req))]
           match == CHOOSE f : Eq(f)
           N == {p \in Conditions \X SUBSET Conditions :
                   (p[1].all # <<>> /\ \A child \in ToSet(p[1].all) : child \in p[2])
                   \/ (p[1].all = <<>> /\ p[1].any # <<>> /\ \E child \in ToSet(p[1].any) : child \in p[2])
                   \/ (p[1].all = <<>> /\ p[1].any = <<>>
                       /\ \E op \in p[1].ops : Looked(p[1], op) /\ LeafHolds(op, req))}
<1>1. \A x : Match(x, req) = match[x]
  BY DEF Match
<1>2. \A x \in Conditions : \A A \in SUBSET Conditions :
        <<x, A>> \in N <=>
          (x.all # <<>> /\ \A child \in ToSet(x.all) : child \in A)
          \/ (x.all = <<>> /\ x.any # <<>> /\ \E child \in ToSet(x.any) : child \in A)
          \/ (x.all = <<>> /\ x.any = <<>>
              /\ \E op \in x.ops : Looked(x, op) /\ LeafHolds(op, req))
  OBVIOUS
<1> HIDE DEF N
<1>3. PICK T \in SUBSET Conditions : \A x \in Conditions : x \in T <=> <<x, T>> \in N
  <2>1. \A x \in Conditions : \A A, B \in SUBSET Conditions :
          A \subseteq B /\ <<x, A>> \in N => <<x, B>> \in N
    BY <1>2
  <2> QED
    BY <2>1, FixedPoint
<1> DEFINE f == [x \in Conditions |-> x \in T]
<1>4. Eq(f)
  <2>1. ASSUME NEW x \in Conditions
        PROVE  x \in T <=>
                 (x.all # <<>> /\ \A child \in ToSet(x.all) : f[child])
                 \/ (x.all = <<>> /\ x.any # <<>> /\ \E child \in ToSet(x.any) : f[child])
                 \/ (x.all = <<>> /\ x.any = <<>>
                     /\ \E op \in x.ops : Looked(x, op) /\ LeafHolds(op, req))
    <3>1. \A child \in Children(x) : f[child] <=> child \in T
      BY ConditionParts
    <3>2. ToSet(x.all) \subseteq Children(x) /\ ToSet(x.any) \subseteq Children(x)
      BY DEF Children
    <3> HIDE DEF f
    <3> QED
      BY <1>2, <1>3, <3>1, <3>2
  <2> QED
    BY <2>1
<1> HIDE DEF f, Eq
<1>5. Eq(match)
  BY <1>4
<1>6. match[c] <=>
        (c.all # <<>> /\ \A child \in ToSet(c.all) : match[child])
        \/ (c.all = <<>> /\ c.any # <<>> /\ \E child \in ToSet(c.any) : match[child])
        \/ (c.all = <<>> /\ c.any = <<>>
            /\ \E op \in c.ops : Looked(c, op) /\ LeafHolds(op, req))
  <2> HIDE DEF match
  <2> QED
    BY <1>5 DEF Eq
<1> HIDE DEF match
<1> QED
  BY <1>1, <1>6

\* Holds: every operator.
LEMMA HoldsSays ==
  ASSUME NEW c \in Conditions, NEW req
  PROVE  Holds(c, req) <=>
           (\A op \in c.ops : LeafHolds(op, req))
           /\ (\A child \in ToSet(c.all) : Holds(child, req))
           /\ (c.any # <<>> => \E child \in ToSet(c.any) : Holds(child, req))
<1> DEFINE Eq(f) == f = [x \in Conditions |->
                        (\A op \in x.ops : LeafHolds(op, req))
                        /\ (\A child \in ToSet(x.all) : f[child])
                        /\ (x.any # <<>> => \E child \in ToSet(x.any) : f[child])]
           holds == CHOOSE f : Eq(f)
           N == {p \in Conditions \X SUBSET Conditions :
                   (\A op \in p[1].ops : LeafHolds(op, req))
                   /\ (\A child \in ToSet(p[1].all) : child \in p[2])
                   /\ (p[1].any # <<>> => \E child \in ToSet(p[1].any) : child \in p[2])}
<1>1. \A x : Holds(x, req) = holds[x]
  BY DEF Holds
<1>2. \A x \in Conditions : \A A \in SUBSET Conditions :
        <<x, A>> \in N <=>
          (\A op \in x.ops : LeafHolds(op, req))
          /\ (\A child \in ToSet(x.all) : child \in A)
          /\ (x.any # <<>> => \E child \in ToSet(x.any) : child \in A)
  OBVIOUS
<1> HIDE DEF N
<1>3. PICK T \in SUBSET Conditions : \A x \in Conditions : x \in T <=> <<x, T>> \in N
  <2>1. \A x \in Conditions : \A A, B \in SUBSET Conditions :
          A \subseteq B /\ <<x, A>> \in N => <<x, B>> \in N
    BY <1>2
  <2> QED
    BY <2>1, FixedPoint
<1> DEFINE f == [x \in Conditions |-> x \in T]
<1>4. Eq(f)
  <2>1. ASSUME NEW x \in Conditions
        PROVE  x \in T <=>
                 (\A op \in x.ops : LeafHolds(op, req))
                 /\ (\A child \in ToSet(x.all) : f[child])
                 /\ (x.any # <<>> => \E child \in ToSet(x.any) : f[child])
    <3>1. \A child \in Children(x) : f[child] <=> child \in T
      BY ConditionParts
    <3>2. ToSet(x.all) \subseteq Children(x) /\ ToSet(x.any) \subseteq Children(x)
      BY DEF Children
    <3> HIDE DEF f
    <3> QED
      BY <1>2, <1>3, <3>1, <3>2
  <2> QED
    BY <2>1
<1> HIDE DEF f, Eq
<1>5. Eq(holds)
  BY <1>4
<1>6. holds[c] <=>
        (\A op \in c.ops : LeafHolds(op, req))
        /\ (\A child \in ToSet(c.all) : holds[child])
        /\ (c.any # <<>> => \E child \in ToSet(c.any) : holds[child])
  <2> HIDE DEF holds
  <2> QED
    BY <1>5 DEF Eq
<1> HIDE DEF holds
<1> QED
  BY <1>1, <1>6

-----------------------------------------------------------------------------
(***************************************************************************)
(* The validators and Match.                                               *)
(***************************************************************************)

\* The number of operators is a number.
LEMMA OpsFinite ==
  ASSUME NEW c \in Conditions
  PROVE  IsFiniteSet(c.ops) /\ Cardinality(c.ops) \in Nat
<1>1. IsFiniteSet({"method_equals", "header_equals"})
  <2>1. IsFiniteSet({"method_equals"} \cup {"header_equals"})
    BY FS_Singleton, FS_AddElement
  <2>2. {"method_equals"} \cup {"header_equals"} = {"method_equals", "header_equals"}
    OBVIOUS
  <2> QED
    BY <2>1, <2>2
<1>2. IsFiniteSet({"client_ip_in_ip_set", "client_ip_not_in_ip_set"})
  <2>1. IsFiniteSet({"client_ip_in_ip_set"} \cup {"client_ip_not_in_ip_set"})
    BY FS_Singleton, FS_AddElement
  <2>2. {"client_ip_in_ip_set"} \cup {"client_ip_not_in_ip_set"} =
          {"client_ip_in_ip_set", "client_ip_not_in_ip_set"}
    OBVIOUS
  <2> QED
    BY <2>1, <2>2
<1>3. LeafOps = {"method_equals", "header_equals"} \cup
                {"client_ip_in_ip_set", "client_ip_not_in_ip_set"}
  BY DEF LeafOps
<1>4. IsFiniteSet(LeafOps)
  BY <1>1, <1>2, <1>3, FS_Union
<1>5. IsFiniteSet(c.ops)
  BY <1>4, ConditionParts, FS_Subset
<1> QED
  BY <1>5, FS_CardinalityType

\* A condition with one operator has children under all, or under any, or
\* one leaf operator.
LEMMA OneOperator ==
  ASSUME NEW c \in Conditions, Operators(c) = 1
  PROVE  \/ c.ops = {} /\ c.all # <<>> /\ c.any = <<>>
         \/ c.ops = {} /\ c.all = <<>> /\ c.any # <<>>
         \/ c.all = <<>> /\ c.any = <<>> /\ \E op \in LeafOps : c.ops = {op}
<1> DEFINE n == Cardinality(c.ops)
<1>1. n \in Nat /\ (n = 0 <=> c.ops = {}) /\ (n = 1 <=> \E op : c.ops = {op})
  BY OpsFinite, FS_EmptySet, FS_Singleton
<1>2. n + (IF c.all = <<>> THEN 0 ELSE 1) + (IF c.any = <<>> THEN 0 ELSE 1) = 1
  BY DEF Operators
<1> HIDE DEF n
<1>3. \/ n = 0 /\ c.all # <<>> /\ c.any = <<>>
      \/ n = 0 /\ c.all = <<>> /\ c.any # <<>>
      \/ n = 1 /\ c.all = <<>> /\ c.any = <<>>
  BY <1>1, <1>2
<1>4. \A op : c.ops = {op} => op \in LeafOps
  BY ConditionParts
<1> QED
  BY <1>1, <1>3, <1>4

\* A condition without an operator is empty.
LEMMA NoOperator ==
  ASSUME NEW c \in Conditions, ~(Operators(c) > 0)
  PROVE  c.ops = {} /\ c.all = <<>> /\ c.any = <<>>
<1> DEFINE n == Cardinality(c.ops)
<1>1. n \in Nat /\ (n = 0 <=> c.ops = {})
  BY OpsFinite, FS_EmptySet
<1>2. ~(n + (IF c.all = <<>> THEN 0 ELSE 1) + (IF c.any = <<>> THEN 0 ELSE 1) > 0)
  BY DEF Operators
<1> HIDE DEF n
<1> QED
  BY <1>1, <1>2

\* Match looks at the only leaf operator there is.
LEMMA LooksAtIt ==
  ASSUME NEW c, NEW op \in LeafOps, c.ops = {op}
  PROVE  Looked(c, op)
BY DEF Looked, LeafOps

\* An argument over the height of a condition: a property that passes from
\* all its children to a condition holds of all conditions.
LEMMA ByHeight ==
  ASSUME NEW Good \in SUBSET Conditions,
         \A c \in Conditions : Children(c) \subseteq Good => c \in Good
  PROVE  Good = Conditions
<1> DEFINE Bad == Conditions \ Good
           H == {Height[c] : c \in Bad}
<1> SUFFICES ASSUME Bad # {} PROVE FALSE
  OBVIOUS
<1>1. H \in SUBSET Nat /\ H # {}
  BY ConditionParts
<1>2. PICK h \in H : \A k \in H : h <= k
  <2> HIDE DEF H
  <2> QED BY <1>1, LeastNat
<1>3. PICK c \in Bad : h = Height[c]
  BY <1>2
<1>4. ASSUME NEW child \in Children(c), child \notin Good PROVE FALSE
  <2>1. child \in Conditions /\ Height[child] < Height[c] /\ Height[c] \in Nat
    BY <1>3, ConditionParts
  <2>2. Height[child] \in H /\ Height[child] \in Nat
    BY <1>4, <2>1, ConditionParts
  <2>3. Height[c] <= Height[child]
    <3> HIDE DEF H
    <3> QED BY <1>2, <1>3, <2>2
  <2> QED
    BY <2>1, <2>2, <2>3
<1> QED
  BY <1>3, <1>4

\* What validatePolicyCondition accepts, parseCondition does.
LEMMA ApiStricter ==
  ASSUME NEW c \in Conditions, NEW sets, ApiCondition(c, sets)
  PROVE  GatewayCondition(c, sets)
<1> DEFINE Good == {x \in Conditions : ApiCondition(x, sets) => GatewayCondition(x, sets)}
<1>1. ASSUME NEW x \in Conditions, Children(x) \subseteq Good, ApiCondition(x, sets)
      PROVE  GatewayCondition(x, sets)
  <2>1. ApiNode(x, sets) /\ \A child \in Children(x) : ApiCondition(child, sets)
    BY <1>1, ApiConditionSays
  <2>2. GatewayNode(x, sets)
    BY <2>1 DEF ApiNode, GatewayNode, ApiOneOperator, GatewayOneOperator, Trimmed
  <2>3. \A child \in Children(x) : GatewayCondition(child, sets)
    BY <1>1, <2>1
  <2> QED
    BY <2>2, <2>3, GatewayConditionSays
<1>2. Good = Conditions
  <2>1. \A x \in Conditions : Children(x) \subseteq Good => x \in Good
    BY <1>1
  <2>2. Good \in SUBSET Conditions
    OBVIOUS
  <2> HIDE DEF Good
  <2> QED
    BY <2>1, <2>2, ByHeight
<1> QED
  BY <1>2

\* Match decides a condition parseCondition accepted as Holds does.
LEMMA MatchHolds ==
  ASSUME NEW c \in Conditions, NEW sets, NEW req, GatewayCondition(c, sets)
  PROVE  Match(c, req) <=> Holds(c, req)
<1> DEFINE Good == {x \in Conditions :
                      GatewayCondition(x, sets) => (Match(x, req) <=> Holds(x, req))}
<1>1. ASSUME NEW x \in Conditions, Children(x) \subseteq Good, GatewayCondition(x, sets)
      PROVE  Match(x, req) <=> Holds(x, req)
  <2>1. GatewayNode(x, sets) /\ \A child \in Children(x) : GatewayCondition(child, sets)
    BY <1>1, GatewayConditionSays
  <2>2. \A child \in Children(x) : Match(child, req) <=> Holds(child, req)
    BY <1>1, <2>1
  <2>3. Operators(x) = 1
    BY <2>1 DEF GatewayNode, GatewayOneOperator
  <2>4. ToSet(x.all) \subseteq Children(x) /\ ToSet(x.any) \subseteq Children(x)
    BY DEF Children
  <2>5. ToSet(<<>>) = {}
    BY DEF ToSet
  <2>6. CASE x.ops = {} /\ x.all # <<>> /\ x.any = <<>>
    BY <2>2, <2>4, <2>6, MatchSays, HoldsSays
  <2>7. CASE x.ops = {} /\ x.all = <<>> /\ x.any # <<>>
    <3>1. Match(x, req) <=> \E child \in ToSet(x.any) : Match(child, req)
      BY <2>7, MatchSays
    <3>2. Holds(x, req) <=> \E child \in ToSet(x.any) : Holds(child, req)
      BY <2>5, <2>7, HoldsSays
    <3> QED
      BY <2>2, <2>4, <3>1, <3>2
  <2>8. CASE x.all = <<>> /\ x.any = <<>> /\ \E op \in LeafOps : x.ops = {op}
    <3>1. PICK op \in LeafOps : x.ops = {op}
      BY <2>8
    <3>2. Match(x, req) <=> Looked(x, op) /\ LeafHolds(op, req)
      BY <2>8, <3>1, MatchSays
    <3>3. Holds(x, req) <=> LeafHolds(op, req)
      BY <2>5, <2>8, <3>1, HoldsSays
    <3> QED
      BY <3>1, <3>2, <3>3, LooksAtIt
  <2> QED
    BY <2>3, <2>6, <2>7, <2>8, OneOperator
<1>2. Good = Conditions
  <2>1. \A x \in Conditions : Children(x) \subseteq Good => x \in Good
    BY <1>1
  <2>2. Good \in SUBSET Conditions
    OBVIOUS
  <2> HIDE DEF Good
  <2> QED
    BY <2>1, <2>2, ByHeight
<1> QED
  BY <1>2

\* A rate limit without a match condition applies to every request.
LEMMA EmptyHolds ==
  ASSUME NEW c \in Conditions, NEW req, ~HasCondition(c)
  PROVE  Holds(c, req)
<1>1. c.ops = {} /\ c.all = <<>> /\ c.any = <<>>
  BY NoOperator DEF HasCondition
<1>2. ToSet(<<>>) = {}
  BY DEF ToSet
<1> QED
  BY <1>1, <1>2, HoldsSays

-----------------------------------------------------------------------------
(***************************************************************************)
(* Documents.                                                              *)
(***************************************************************************)

\* What the proofs need to know of a document.
Sound(d) ==
  /\ \A r \in ToSet(d.rules) : r.when \in Conditions
  /\ \A l \in ToSet(d.limits) : l.match \in Conditions
  /\ d.typed \in {"yes", "no"}

\* applyDefaults leaves the conditions alone.
LEMMA DocumentsSound ==
  ASSUME NEW d \in Documents PROVE Sound(d)
<1>1. ASSUME NEW e \in Drafts PROVE Sound(e)
  <2>1. e \in Document
    BY LoadingAssumption
  <2>2. /\ e.rules \in Seq(CustomRule) /\ e.limits \in Seq(RateLimit)
        /\ e.typed \in {"yes", "no"}
    BY <2>1 DEF Document
  <2>3. ToSet(e.rules) \subseteq CustomRule /\ ToSet(e.limits) \subseteq RateLimit
    BY <2>2 DEF ToSet
  <2>4. \A r \in CustomRule : r.when \in Conditions
    BY DEF CustomRule
  <2>5. \A l \in RateLimit : l.match \in Conditions
    BY DEF RateLimit
  <2> QED
    BY <2>2, <2>3, <2>4, <2>5 DEF Sound
<1>2. ASSUME NEW e \in Drafts PROVE Sound(WithDefaults(e))
  <2> DEFINE w == WithDefaults(e)
  <2>1. e \in Document
    BY LoadingAssumption
  <2>2. /\ e.rules \in Seq(CustomRule) /\ e.limits \in Seq(RateLimit)
        /\ e.typed \in {"yes", "no"}
    BY <2>1 DEF Document
  <2>3. /\ w.typed = e.typed
        /\ w.rules = [i \in DOMAIN e.rules |-> RuleWithDefaults(e.rules[i])]
        /\ w.limits = [i \in DOMAIN e.limits |-> LimitWithDefaults(e.limits[i])]
    BY <2>1 DEF WithDefaults, Document
  <2>4. \A i \in DOMAIN e.rules : e.rules[i] \in CustomRule
    BY <2>2
  <2>5. \A i \in DOMAIN e.limits : e.limits[i] \in RateLimit
    BY <2>2
  <2>6. DOMAIN w.rules = DOMAIN e.rules /\ DOMAIN w.limits = DOMAIN e.limits
    BY <2>3
  <2> HIDE DEF w
  <2>7. ASSUME NEW i \in DOMAIN e.rules PROVE w.rules[i].when \in Conditions
    <3>1. \A r \in CustomRule : RuleWithDefaults(r).when \in Conditions
      BY DEF CustomRule, RuleWithDefaults
    <3> QED
      BY <2>3, <2>4, <3>1
  <2>8. ASSUME NEW i \in DOMAIN e.limits PROVE w.limits[i].match \in Conditions
    <3>1. \A l \in RateLimit : LimitWithDefaults(l).match \in Conditions
      BY DEF RateLimit, LimitWithDefaults
    <3> QED
      BY <2>3, <2>5, <3>1
  <2>9. /\ \A r \in ToSet(w.rules) : r.when \in Conditions
        /\ \A l \in ToSet(w.limits) : l.match \in Conditions
    BY <2>6, <2>7, <2>8 DEF ToSet
  <2> QED
    BY <2>2, <2>3, <2>9 DEF Sound, w
<1> QED
  BY <1>1, <1>2 DEF Documents

\* What newApp accepted is evaluated as it was meant.
LEMMA LoadedFaithful ==
  ASSUME NEW d, Sound(d), NewApp(d), NEW req
  PROVE  /\ \A r \in ToSet(d.rules) : Match(r.when, req) <=> Holds(r.when, req)
         /\ \A l \in ToSet(d.limits) :
              (HasCondition(l.match) => Match(l.match, req)) <=> Holds(l.match, req)
<1>1. ASSUME NEW r \in ToSet(d.rules) PROVE Match(r.when, req) <=> Holds(r.when, req)
  <2>1. r.when \in Conditions /\ GatewayCondition(r.when, d.sets)
    BY DEF Sound, NewApp, CustomRulesParse
  <2> QED
    BY <2>1, MatchHolds
<1>2. ASSUME NEW l \in ToSet(d.limits)
      PROVE  (HasCondition(l.match) => Match(l.match, req)) <=> Holds(l.match, req)
  <2>1. l.match \in Conditions
        /\ (HasCondition(l.match) => GatewayCondition(l.match, d.sets))
    BY DEF Sound, NewApp, RateLimitsParse
  <2>2. CASE HasCondition(l.match)
    BY <2>1, <2>2, MatchHolds
  <2>3. CASE ~HasCondition(l.match)
    BY <2>1, <2>3, EmptyHolds
  <2> QED
    BY <2>2, <2>3
<1> QED
  BY <1>1, <1>2

\* What the API accepted and the gateway does not is one of the things the
\* API does not look at.
LEMMA UncheckedOnly ==
  ASSUME NEW d, Sound(d), ApiAccepts(d), ~Duplicates(d), "blank" \notin d.sets,
         d.typed # "no",
         \A r \in ToSet(d.rules) : r.status \in 0 .. 999,
         \A l \in ToSet(d.limits) : l.status \in 0 .. 999
  PROVE  Decodes(d) /\ NewApp(d)
<1>1. Decodes(d)
  BY DEF Sound, Decodes
<1>2. IPSetsParse(d)
  BY DEF ApiAccepts, IPSetsParse
<1>3. ASSUME NEW r \in ToSet(d.rules)
      PROVE  /\ ~Trimmed(r.id) /\ r.name # "empty"
             /\ r.action \in {"allow", "count", "block"}
             /\ GatewayCondition(r.when, d.sets)
  <2>1. /\ ~Trimmed(r.id) /\ ~Trimmed(r.name)
        /\ r.action \in {"allow", "count", "block"}
        /\ ApiCondition(r.when, d.sets)
    BY DEF ApiAccepts
  <2>2. GatewayCondition(r.when, d.sets)
    BY <2>1, ApiStricter DEF Sound
  <2> QED
    BY <2>1, <2>2 DEF Trimmed
<1>4. ASSUME NEW l \in ToSet(d.limits)
      PROVE  /\ ~Trimmed(l.id) /\ l.name # "empty"
             /\ l.action \in {"count", "block"}
             /\ l.limit > 0
             /\ l.key \in KeyTypes
             /\ l.key = "header" => l.header # "empty"
             /\ HasCondition(l.match) => GatewayCondition(l.match, d.sets)
  <2>1. /\ ~Trimmed(l.id) /\ ~Trimmed(l.name)
        /\ l.action \in {"count", "block"}
        /\ l.limit > 0
        /\ l.key \in KeyTypes
        /\ l.key = "header" => ~Trimmed(l.header)
        /\ ApiHasCondition(l.match) => ApiCondition(l.match, d.sets)
    BY DEF ApiAccepts
  <2>2. HasCondition(l.match) => GatewayCondition(l.match, d.sets)
    BY <2>1, ApiStricter DEF Sound, HasCondition, ApiHasCondition
  <2> QED
    BY <2>1, <2>2 DEF Trimmed
<1>5. CustomRulesParse(d)
  BY <1>3 DEF CustomRulesParse
<1>6. RateLimitsParse(d)
  BY <1>4 DEF RateLimitsParse
<1> QED
  BY <1>1, <1>2, <1>5, <1>6 DEF NewApp

-----------------------------------------------------------------------------
(***************************************************************************)
(* The inductive invariant: what each stage says of the document.          *)
(***************************************************************************)

StageSays ==
  /\ stage = "submitted" => draft \in Drafts
  /\ stage \in {"stored", "published"} => source = "api" /\ ApiAccepts(draft)
  /\ stage = "configured" => source = "yaml"
  /\ stage = "loaded" => NewApp(draft)
  /\ stage = "refused" /\ source = "api" =>
       ApiAccepts(draft) /\ ~(Decodes(draft) /\ NewApp(draft))

Inv == TypeOK /\ StageSays

LEMMA InitInv == Init => Inv
BY DEF Init, Inv, TypeOK, StageSays, Stages, Documents

LEMMA SubmitInv == Inv /\ Submit => Inv'
BY DEF Inv, TypeOK, StageSays, Stages, Submit

LEMMA PublishInv == Inv /\ Publish => Inv'
BY DEF Inv, TypeOK, StageSays, Stages, Publish, CompiledMode, ApiAccepts

LEMMA LoadFileInv == Inv /\ LoadFile => Inv'
BY DEF Inv, TypeOK, StageSays, Stages, LoadFile, Documents, Validate

LEMMA LoadInv == Inv /\ Load => Inv'
BY DEF Inv, TypeOK, StageSays, Stages, Load

LEMMA StepInv == Inv /\ [Next]_vars => Inv'
<1>1. Inv /\ UNCHANGED vars => Inv'
  BY DEF Inv, TypeOK, StageSays, vars
<1> QED
  BY <1>1, SubmitInv, PublishInv, LoadFileInv, LoadInv DEF Next, Done

LEMMA InvHolds == Spec => []Inv
BY InitInv, StepInv, PTL DEF Spec

\* Every policy the gateway runs, whatever the depth of its conditions and
\* wherever it came from, is evaluated as it was written, although
\* Condition.Match looks at one operator only; and its mode is one.
THEOREM EvaluationFaithfulHolds == Spec => []EvaluationFaithful
<1>1. Inv => EvaluationFaithful
  <2> SUFFICES ASSUME Inv PROVE EvaluationFaithful
    OBVIOUS
  <2>1. TypeOK /\ Sound(draft)
    BY DocumentsSound DEF Inv, TypeOK
  <2>2. stage = "loaded" => NewApp(draft)
    BY DEF Inv, StageSays
  <2> QED
    BY <2>1, <2>2, LoadedFaithful DEF EvaluationFaithful
<1> QED
  BY <1>1, InvHolds, PTL

\* On everything both validators look at, validatePolicySnapshot is at
\* least as strict as newApp: a published policy is refused for the rest.
THEOREM RefusedOnlyUncheckedHolds == Spec => []RefusedOnlyUnchecked
<1>1. Inv => RefusedOnlyUnchecked
  <2> SUFFICES ASSUME Inv, stage = "refused", source = "api",
                      ~Duplicates(draft), "blank" \notin draft.sets, draft.typed # "no",
                      \A r \in ToSet(draft.rules) : r.status \in 0 .. 999,
                      \A l \in ToSet(draft.limits) : l.status \in 0 .. 999
               PROVE  FALSE
    BY DEF RefusedOnlyUnchecked
  <2>1. Sound(draft)
    BY DocumentsSound DEF Inv, TypeOK
  <2>2. ApiAccepts(draft) /\ ~(Decodes(draft) /\ NewApp(draft))
    BY DEF Inv, StageSays
  <2> QED
    BY <2>1, <2>2, UncheckedOnly
<1> QED
  BY <1>1, InvHolds, PTL

=============================================================================
