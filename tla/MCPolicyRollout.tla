---------------------------- MODULE MCPolicyRollout ----------------------------
(* PolicyRollout: one app, one policy, one gateway.                          *)
EXTENDS PolicyRollout

CONSTANTS s1, a1, p1, o1, r1, r2

Good == [mode |-> "unset", rules |-> "r0"]
Odd  == [mode |-> "unset", rules |-> "r1"]
TwoDrafts == {Good, Odd}

OneApp == [p \in Policies |-> a1]

\* The app is disabled; the policy's draft is replaced.
Switches == {[hosts |-> {}, status |-> "disabled", origin |-> None]}
NewDrafts == {[mode |-> "keep", enabled |-> "keep", draft |-> Odd]}

StoredHosts == {[Plain("h1") EXCEPT !.case = "upper"]}

\* With a port and in capitals.
PortHost == {[Plain("h1") EXCEPT !.case = "upper", !.port = "yes"]}
=============================================================================
