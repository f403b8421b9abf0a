------------------------------ MODULE MCRuleScan ------------------------------
(* RuleScan with two rule directories under one root.                       *)
EXTENDS RuleScan

CONSTANTS w1, w2, w3, root, crs, extra

TwoDirs == <<crs, extra>>
OneFile == <<<<root, "a">>, <<crs, "a">>, <<extra, "a">>>>

Json(n, v, text, source) ==
  [name |-> n, version |-> v, text |-> text, source |-> source, enabled |-> "yes"]

Layout(c, e) ==
  [meta |-> [d \in Dirs |-> CASE d = root -> None [] d = crs -> c [] d = extra -> e],
   file |-> [p \in Paths |-> IF p[1] = root THEN None ELSE 1]]

Good  == Json("n1", "v1", "valid", "local")
Next2 == Json("n1", "v2", "valid", "local")
Other == Json("n2", "v1", "valid", "local")

\* Two sets; two versions of one set; one version twice; a source the
\* database refuses.
AllLayouts ==
  {Layout(Good, Other), Layout(Good, Next2), Layout(Good, Good),
   Layout(Good, Json("n2", "v1", "valid", "other"))}

\* An edit removes a ruleset.json, blanks it, or bumps the version.
MetadataEdits == {None, Json("n1", "v1", "blank", "local"), Next2}
=============================================================================
