-------------------------- MODULE MCPolicyProvider --------------------------
(* PolicyProvider on a small instance: Requests and Hosts are model values. *)
EXTENDS PolicyProvider

CONSTANTS r1, r2, h1

TwoRequests == {r1, r2}
OneHost     == {h1}
=============================================================================
