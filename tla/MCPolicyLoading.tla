--------------------------- MODULE MCPolicyLoading ---------------------------
(* PolicyLoading on a bounded set of documents.                             *)
EXTENDS PolicyLoading

Leaf(ops, header, set) ==
  [ops |-> ops, header |-> header, set |-> set, all |-> <<>>, any |-> <<>>]

Sets == {"office", "blank"}

\* All leaves with at most two operators.
Leaves ==
  {Leaf(ops, h, s) :
     ops \in {o \in SUBSET LeafOps : Cardinality(o) <= 2},
     h \in Texts, s \in {"office", "nowhere"}}

\* Leaves that serve as children: right ones and a wrong one.
ChildLeaves ==
  {Leaf({"method_equals"}, "empty", "office"),
   Leaf({"header_equals"}, "named", "office"),
   Leaf({"client_ip_not_in_ip_set"}, "empty", "office"),
   Leaf({"method_equals", "header_equals"}, "named", "office")}

Lists == {<<>>} \cup {<<c>> : c \in ChildLeaves} \cup (ChildLeaves \X ChildLeaves)

\* Trees of depth two, some with a leaf operator beside the children.
Trees ==
  {[ops |-> ops, header |-> "empty", set |-> "office", all |-> l, any |-> m] :
     ops \in {{}, {"method_equals"}}, l \in Lists, m \in Lists}

AllConditions == Leaves \cup Trees

Heights == [c \in AllConditions |-> IF Children(c) = {} THEN 0 ELSE 1]

Rule(name, action, status, when) ==
  [id |-> "named", name |-> name, action |-> action, status |-> status, when |-> when]

Limit(name, key, header, status, match) ==
  [id |-> "named", name |-> name, action |-> "block", limit |-> 1, key |-> key,
   alias |-> "empty", header |-> header, status |-> status, match |-> match]

MakeDocument(m, sets, cidrs, typed, repeats, rules, limits) ==
  [mode |-> m, sets |-> sets, cidrs |-> cidrs, typed |-> typed,
   repeats |-> repeats, rules |-> rules, limits |-> limits]

Simple == Leaf({"method_equals"}, "empty", "office")
NoCondition == Leaf({}, "empty", "office")

\* One condition in a custom rule, one in a rate limit, and the rest of a
\* document around a simple condition.
ConditionDrafts ==
  {MakeDocument("unset", {"office"}, "valid", "yes", "no",
            <<Rule("named", "block", 0, c)>>, <<>>) : c \in Conditions}
  \cup
  {MakeDocument("block", {"office"}, "valid", "yes", "no", <<>>,
            <<Limit("named", "ip", "empty", 429, c)>>) : c \in Conditions}

FrameDrafts ==
  {MakeDocument("unset", sets, cidrs, typed, repeats,
            <<Rule(name, action, status, Simple), Rule("named", "count", 0, Simple)>>,
            <<Limit("named", key, header, status, NoCondition)>>) :
     sets \in SUBSET Sets, cidrs \in {"valid", "invalid"}, typed \in {"yes", "no"},
     repeats \in {"yes", "no"}, name \in Texts, action \in {"block", "odd"},
     status \in {0, 999, 1000}, key \in {"ip", "header"}, header \in Texts}

\* What applyDefaults fills in, absent, present and wrong.
DefaultDrafts ==
  {MakeDocument(m, {}, "valid", "yes", "no", <<Rule("named", a, status, Simple)>>,
            <<[Limit(name, key, "named", status, NoCondition) EXCEPT
                 !.id = id, !.action = b, !.alias = alias]>>) :
     m \in {"unset", "count", "odd"}, a \in {"empty", "allow", "odd"},
     b \in {"empty", "count", "odd"}, id \in Texts, name \in Texts,
     key \in {"empty", "ip", "odd"},
     alias \in {"empty", "header", "odd"}, status \in {0, 1000}}

AllDrafts == ConditionDrafts \cup FrameDrafts \cup DefaultDrafts
=============================================================================
