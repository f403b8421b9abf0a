---------------------------- MODULE MCRateLimiter ----------------------------
(* RateLimiter on small instances.                                          *)
EXTENDS RateLimiter

CONSTANTS r1, r2, k1

TwoRequests == {r1, r2}
OneKey      == {k1}

Rule(action, limit, seconds) ==
  [action |-> action, limit |-> limit, window |-> seconds]

CountThenBlock == <<Rule("count", 1, 2), Rule("block", 1, 2)>>

\* The gateway of r1 has a clock that is ahead and fail_mode closed.
OneClosed == [r \in Requests |-> IF r = r1 THEN "closed" ELSE "open"]

OneAhead == [r \in Requests |-> IF r = r1 THEN 1 ELSE 0]
=============================================================================
