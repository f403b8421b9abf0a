----------------------------- MODULE RateLimiter -----------------------------
(***************************************************************************)
(* Fixed-window rate limiting, services/gateway/internal/ratelimit, driven *)
(* by Gateway.evaluateRateLimits: concurrent requests, on gateways whose   *)
(* clocks may differ, walk the app's rules in priority order and run one   *)
(* Lua script per rule on a shared Redis.  Commands travel: one may be     *)
(* executed long after it was sent, be lost, or be executed although its   *)
(* sender gave up; Redis may restart empty.                                *)
(***************************************************************************)
EXTENDS Integers, Sequences, FiniteSets

CONSTANTS Requests,
          Keys,        \* values of the rate limit key (the client's IP, ...)
          Rules,       \* app.RateLimits, sorted: [action, limit, window]
          FailMode,    \* redis.fail_mode of the request's gateway
          Skew,        \* clock of the request's gateway minus Redis' clock
          MaxSkew,     \* a bound on them
          MaxClock,    \* bound: last tick of the Redis clock
          MaxRestarts  \* bound: restarts of Redis

RuleIds == 1 .. Len(Rules)

ASSUME RateLimiterAssumption ==
  /\ FailMode \in [Requests -> {"open", "closed"}]
  /\ Rules \in Seq([action : {"count", "block"},   \* parseRateLimitRules
                    limit : Nat \ {0}, window : Nat \ {0}])
  /\ MaxSkew \in Nat               \* the slowest gateway defines 0
  /\ Skew \in [Requests -> 0 .. MaxSkew]
  /\ MaxClock \in Nat /\ MaxRestarts \in Nat

VARIABLES
  clock,     \* Redis' clock, in seconds
  counters,  \* Redis: counters[i, k, w] = [count, expiresAt]; 0 is no key
  wire,      \* EVAL commands under way: [req, rule, key, window]
  phase,     \* "next" rule, "waiting" for Redis, "answered", "done"
  at,        \* the rule checked last, 0 at first
  who,       \* the request: its key and the rules that are enabled and whose
             \* expression it matches
  window,    \* the window of the command under way
  answer,    \* the count Redis returned
  outcome,   \* evaluateRateLimits' result: "none" while it runs
  failed,    \* history: requests that met a Redis error
  passed,    \* history: rules whose count was within the limit
  granted,   \* history: granted[i, k, w], counts within the limit returned
  restarts   \* restarts of Redis so far

vars == <<clock, counters, wire, phase, at, who, window, answer, outcome, failed,
          passed, granted, restarts>>

\* The last window a gateway can compute (all rules, all skews).
Windows == 0 .. MaxClock + MaxSkew
Cells   == RuleIds \X Keys \X Windows

NoCounter == [count |-> 0, expiresAt |-> 0]
Client    == [key : Keys, applies : SUBSET RuleIds]
Command   == [req : Requests, rule : RuleIds, key : Keys, window : Windows]
Outcomes  == {"none", "allow", "count", "rate_limit"}

TypeOK ==
  /\ clock \in 0 .. MaxClock
  /\ counters \in [Cells -> [count : Nat, expiresAt : Nat]]
  /\ wire \subseteq Command
  /\ phase \in [Requests -> {"next", "waiting", "answered", "done"}]
  /\ at \in [Requests -> Nat]
  /\ who \in [Requests -> Client]
  /\ window \in [Requests -> Windows]
  /\ answer \in [Requests -> Nat]
  /\ outcome \in [Requests -> Outcomes]
  /\ failed \subseteq Requests
  /\ passed \in [Requests -> SUBSET RuleIds]
  /\ granted \in [Cells -> Nat]
  /\ restarts \in 0 .. MaxRestarts

Init ==
  /\ clock = 0
  /\ counters = [c \in Cells |-> NoCounter]
  /\ wire = {}
  /\ phase = [r \in Requests |-> "next"]
  /\ at = [r \in Requests |-> 0]
  /\ who \in [Requests -> Client]
  /\ window = [r \in Requests |-> 0]
  /\ answer = [r \in Requests |-> 0]
  /\ outcome = [r \in Requests |-> "none"]
  /\ failed = {}
  /\ passed = [r \in Requests |-> {}]
  /\ granted = [c \in Cells |-> 0]
  /\ restarts = 0

-----------------------------------------------------------------------------
\* evaluateRateLimits: the loop over app.RateLimits.

Pending(r) == {i \in who[r].applies : i > at[r]}

\* evaluateRateLimits returns.
Return(r, action) ==
  /\ phase' = [phase EXCEPT ![r] = "done"]
  /\ outcome' = [outcome EXCEPT ![r] = action]

\* No rule is left: decision.Allow().
Finish(r) ==
  /\ phase[r] = "next"
  /\ Pending(r) = {}
  /\ Return(r, "allow")
  /\ UNCHANGED <<clock, counters, wire, at, who, window, answer, failed,
                 passed, granted, restarts>>

\* window := now.Unix() / int64(rule.WindowSeconds), on the gateway's clock.
Window(r, i) == (clock + Skew[r]) \div Rules[i].window

\* FixedWindowLimiter.Check up to the EVAL.
Send(r) ==
  /\ phase[r] = "next"
  /\ \E i \in Pending(r) :
       /\ \A j \in Pending(r) : i <= j
       /\ wire' = wire \cup {[req |-> r, rule |-> i, key |-> who[r].key,
                              window |-> Window(r, i)]}
       /\ at' = [at EXCEPT ![r] = i]
       /\ window' = [window EXCEPT ![r] = Window(r, i)]
  /\ phase' = [phase EXCEPT ![r] = "waiting"]
  /\ UNCHANGED <<clock, counters, who, answer, outcome, failed, passed,
                 granted, restarts>>

\* rateLimitDecision.  Fault: the rule's action is ignored.
BugAlwaysCount(i) == "count"
OverLimit(i) == IF Rules[i].action = "block" THEN "rate_limit" ELSE "count"

\* The reply arrived in time.  Fault: < for <=.
BugStrictlyBelow(i, n) == n < Rules[i].limit
Within(i, n) == n <= Rules[i].limit

Answered(r) ==
  /\ phase[r] = "answered"
  /\ \/ /\ Within(at[r], answer[r])
        /\ passed' = [passed EXCEPT ![r] = @ \cup {at[r]}]
        /\ phase' = [phase EXCEPT ![r] = "next"]
        /\ UNCHANGED outcome
     \/ /\ ~Within(at[r], answer[r])
        /\ Return(r, OverLimit(at[r]))
        /\ UNCHANGED passed
  /\ answer' = [answer EXCEPT ![r] = 0]
  /\ window' = [window EXCEPT ![r] = 0]
  /\ UNCHANGED <<clock, counters, wire, at, who, failed, granted, restarts>>

\* The exchange with Redis may fail whether or not the command was
\* executed.  Fault: the connection has no deadline.
BugNoDeadline(r) == phase[r] = "answered"
GaveUp(r) == phase[r] \in {"waiting", "answered"}

\* Redis cannot be reached, or its reply does not come within 500ms; the
\* command may be executed all the same.
StoreError(r) ==
  /\ GaveUp(r)
  /\ \/ /\ FailMode[r] = "open"
        /\ phase' = [phase EXCEPT ![r] = "next"]
        /\ UNCHANGED outcome
     \/ /\ FailMode[r] = "closed"
        /\ Return(r, OverLimit(at[r]))
  /\ answer' = [answer EXCEPT ![r] = 0]
  /\ window' = [window EXCEPT ![r] = 0]
  /\ failed' = failed \cup {r}
  /\ UNCHANGED <<clock, counters, wire, at, who, passed, granted, restarts>>

-----------------------------------------------------------------------------
\* Redis (external; the script is fixedWindowLua).

Cell(m) == <<m.rule, m.key, m.window>>

Live(c) == counters[c].count > 0 /\ clock < counters[c].expiresAt

\* INCR, and EXPIRE when the key is new.  Fault: the key expires a second
\* too early.
BugShortExpire(c) ==
  IF Live(c) THEN [counters[c] EXCEPT !.count = @ + 1]
  ELSE [count |-> 1, expiresAt |-> clock + Rules[c[1]].window - 1]
Incremented(c) ==
  IF Live(c) THEN [counters[c] EXCEPT !.count = @ + 1]
  ELSE [count |-> 1, expiresAt |-> clock + Rules[c[1]].window]

Execute(m) ==
  LET c == Cell(m)
      n == Incremented(c).count
  IN
  /\ m \in wire
  /\ wire' = wire \ {m}
  /\ counters' = [counters EXCEPT ![c] = Incremented(c)]
  /\ granted' = [granted EXCEPT ![c] = IF Within(m.rule, n) THEN @ + 1 ELSE @]
  /\ \/ /\ phase[m.req] = "waiting" /\ at[m.req] = m.rule
        /\ phase' = [phase EXCEPT ![m.req] = "answered"]
        /\ answer' = [answer EXCEPT ![m.req] = n]
     \/ /\ ~(phase[m.req] = "waiting" /\ at[m.req] = m.rule)
        /\ UNCHANGED <<phase, answer>>
  /\ UNCHANGED <<clock, at, who, window, outcome, failed, passed, restarts>>

\* A command never reaches Redis.
Lose(m) ==
  /\ m \in wire
  /\ wire' = wire \ {m}
  /\ UNCHANGED <<clock, counters, phase, at, who, window, answer, outcome,
                 failed, passed, granted, restarts>>

Restart ==
  /\ restarts < MaxRestarts
  /\ restarts' = restarts + 1
  /\ counters' = [c \in Cells |-> NoCounter]
  /\ UNCHANGED <<clock, wire, phase, at, who, window, answer, outcome, failed,
                 passed, granted>>

Tick ==
  /\ clock < MaxClock
  /\ clock' = clock + 1
  /\ UNCHANGED <<counters, wire, phase, at, who, window, answer, outcome,
                 failed, passed, granted, restarts>>

-----------------------------------------------------------------------------
Next ==
  \/ \E r \in Requests : Finish(r) \/ Send(r) \/ Answered(r) \/ StoreError(r)
  \/ \E m \in wire : Execute(m) \/ Lose(m)
  \/ Restart
  \/ Tick

\* A request goroutine runs, and its exchange with Redis has a deadline.
Fairness ==
  \A r \in Requests :
    WF_vars(Finish(r) \/ Send(r) \/ Answered(r) \/ StoreError(r))

Safety == Init /\ [][Next]_vars

Spec == Safety /\ Fairness

-----------------------------------------------------------------------------
(***************************************************************************)
(* Properties                                                              *)
(***************************************************************************)

\* The time, on Redis' clock, at which the fastest gateway leaves a window.
FirstEnd(c) == (c[3] + 1) * Rules[c[1]].window - MaxSkew

\* fixedWindowLua and Check together: until the first gateway has left a
\* window, and if Redis has not restarted, the script has answered at most
\* `limit' requests of that window with a count that admits them, whatever
\* replies were lost or late.  EXPIRE never ends a counter sooner; after
\* that, gateways that are still in the window may find a new counter.
AdmissionBound ==
  TypeOK /\ \A c \in Cells :
    restarts = 0 /\ clock < FirstEnd(c) => granted[c] <= Rules[c[1]].limit

\* Nobody is turned away below the limit: a count that refuses a request
\* means that `limit' requests were granted in the window of that request.
NoEarlyRefusal ==
  \A r \in Requests :
    phase[r] = "answered" /\ ~Within(at[r], answer[r]) =>
      granted[at[r], who[r].key, window[r]] >= Rules[at[r]].limit

\* Check and evaluateRateLimits: a request that goes on to the origin was
\* counted, within the limit, by every blocking rule that applies to it,
\* unless a Redis error let it through, which takes fail_mode "open".  The
\* exception is a counting rule over its limit, or one whose check failed
\* closed: the loop ends there and the blocking rules after it are skipped.
BlockRulesChecked ==
  \A r \in Requests :
    /\ outcome[r] \in {"allow", "count"}
    /\ FailMode[r] = "closed" \/ r \notin failed
    => \A i \in who[r].applies : Rules[i].action = "block" =>
         \/ i \in passed[r]
         \/ outcome[r] = "count" /\ Rules[at[r]].action = "count" /\ at[r] < i

\* evaluateRateLimits always returns: no request waits for Redis for ever.
EvaluationEnds == \A r \in Requests : <>(phase[r] = "done")
=============================================================================
