---------------------------- MODULE MCControlPlane ----------------------------
(* ControlPlane on small instances.                                         *)
EXTENDS ControlPlane, TLC

CONSTANTS s1, s2, s3, a1, p1, p2, o1, o2

Good  == [mode |-> "unset", rules |-> "r0"]
Bad   == [mode |-> "unset", rules |-> "bad"]

GoodBad   == {Good, Bad}
OnlyGood  == {Good}

OneApp  == [p \in Policies |-> a1]

NoPatches == {}

\* A new draft, or the switch to disabled.
DraftPatches ==
  {[mode |-> "keep", enabled |-> "keep", draft |-> d] : d \in Drafts}
  \cup {[mode |-> "block", enabled |-> "no", draft |-> None]}

Upper == [Plain("h1") EXCEPT !.case = "upper"]
Padded == [Plain("h1") EXCEPT !.pad = "yes"]

OneSpelling == {Plain("h1")}

\* In capitals, or with a blank: accepted, but not together.
TwoSpellings == {Upper, Padded}

\* A status alone, hostnames alone, and an origin.
StatusHostOrigin ==
  {[hosts |-> {}, status |-> "disabled", origin |-> None],
   [hosts |-> {CHOOSE t \in Spellings : t.pad = "no"}, status |-> "active", origin |-> None],
   [hosts |-> {}, status |-> "keep", origin |-> o2]}

SessionSymmetry == Permutations(Sessions)
=============================================================================
