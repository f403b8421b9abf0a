-------------------------- MODULE MCRequestPipeline --------------------------
(* RequestPipeline on small instances.                                      *)
EXTENDS RequestPipeline, SequencesExt

\* One rule that does not apply stands for all of them.
Rules ==
  {r \in CustomRule : r.applies \/ r.action = "block"}

\* All lists of two, and the lists of three that apply, the rule with the
\* highest priority number listed first.
Applying(p) == {r \in CustomRule : r.applies /\ r.priority = p}

UpToThreeRules ==
  BoundedSeq(Rules, 2) \cup (Applying(2) \X Applying(1) \X Applying(1))

NoRules == {<<>>}
=============================================================================
