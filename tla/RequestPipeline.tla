---------------------------- MODULE RequestPipeline ----------------------------
(***************************************************************************)
(* One request through Gateway.ServeHTTP (services/gateway/internal/proxy) *)
(* with the decision functions it calls: App.EvaluateIP,                   *)
(* App.EvaluateCustomRules, decision.EnforcedAction and the outcomes of    *)
(* the policy provider, the rate limiter, the WAF engine and the origin.   *)
(*                                                                         *)
(* What the request and the policy make each check answer is chosen when   *)
(* the check runs and kept in facts, from which the reference verdict is   *)
(* computed.                                                               *)
(***************************************************************************)
EXTENDS Integers, Sequences, FiniteSets

CONSTANTS Lookups,      \* outcomes of provider.Lookup considered
          RuleLists,    \* lists of custom rules, as configured
          Priorities,   \* their priorities are 1 .. Priorities
          RuleStatuses  \* status_code of rules, 0: not configured

\* A custom rule and whether it is enabled and matches the request.
CustomRule ==
  [priority : 1 .. Priorities, applies : BOOLEAN,
   action : {"block", "count", "allow", "terminal_allow"}]

Lookup == {"found", "stale", "fail_open", "fail_closed", "unknown_host"}

ASSUME PipelineAssumption ==
  /\ Lookups \subseteq Lookup
  /\ Priorities \in Nat \ {0}
  /\ RuleLists \subseteq Seq(CustomRule)
  /\ RuleStatuses \subseteq 0 .. 999   \* parseCustomRules, parseRateLimitRules

VARIABLES
  stage,     \* where the handler is
  facts,     \* history: what each check finds, "?" if that cannot matter
  final,     \* final: action, reason and status code
  observed,  \* *observedCount, its reason, or "none"
  event,     \* the audit event
  recorded,  \* recorder.status
  sent,      \* status on the wire, 0: nothing written yet
  proxied,   \* the request was handed to the reverse proxy
  panicking, \* a panic is unwinding
  logged     \* history: how often the event was logged

vars == <<stage, facts, final, observed, event, recorded, sent, proxied,
          panicking, logged>>

Stages == {"host", "lookup", "body", "ip", "rate_limit", "custom", "waf",
           "default", "enforce", "origin", "deferred", "recover", "done"}

Actions == {"allow", "count", "block", "rate_limit"}

Reasons == {"none", "ip_blocklist", "ip_allowlist", "rate_limit", "body_limit",
            "body_read", "custom_rule", "custom_rule_allow", "waf_match",
            "waf_error", "default_action", "stale", "fail_open", "fail_closed",
            "unknown_host"}

Decision(action, reason, status) ==
  [action |-> action, reason |-> reason, status |-> status]

Allow == Decision("allow", "none", 0)

\* Decision.WouldBlock
WouldBlock(d) == d.action \in {"block", "rate_limit"}

Decisions == [action : Actions, reason : Reasons, status : 0 .. 999]

Events == [action : Actions, reason : Reasons, status : 1 .. 999, enforced : BOOLEAN,
           wouldBlock : BOOLEAN, mode : {"count", "block", "none"}]

TypeOK ==
  /\ stage \in Stages
  /\ final \in Decisions
  /\ observed \in Reasons
  /\ event \in Events
  /\ recorded \in 1 .. 999
  /\ sent \in 0 .. 999
  /\ proxied \in BOOLEAN
  /\ panicking \in BOOLEAN
  /\ logged \in Nat

Init ==
  /\ stage = "host"
  /\ facts = [lookup |-> "?", mode |-> "none", body |-> "?", blocklist |-> "?",
              allowlist |-> "?", rate |-> "?", rules |-> <<>>, waf |-> "?",
              default |-> "?"]
  /\ final = Allow
  /\ observed = "none"
  /\ event = [action |-> "allow", reason |-> "none", status |-> 200,
              enforced |-> FALSE, wouldBlock |-> FALSE, mode |-> "none"]
  /\ recorded = 200
  /\ sent = 0
  /\ proxied = FALSE
  /\ panicking = FALSE
  /\ logged = 0

-----------------------------------------------------------------------------
\* Writing a response through the recorder; the first status counts.
Respond(status) ==
  /\ recorded' = status
  /\ sent' = IF sent = 0 THEN status ELSE sent

\* A return with the event's action and reason, and a response.
ReturnWith(action, reason, status) ==
  /\ event' = [event EXCEPT !.action = action, !.reason = reason]
  /\ Respond(status)
  /\ stage' = "deferred"
  /\ UNCHANGED <<final, observed, proxied, panicking, logged>>

Goto(next) ==
  /\ stage' = next
  /\ UNCHANGED <<recorded, sent, proxied, panicking, logged>>

\* rememberCount: the first count decision is kept.
Remember(reason) == IF observed = "none" THEN reason ELSE observed

-----------------------------------------------------------------------------
\* /healthz and /metrics of every host are the gateway's own.
ServeLocal ==
  /\ stage = "host"
  /\ sent' = 200
  /\ stage' = "done"
  /\ UNCHANGED <<facts, final, observed, event, recorded, proxied, panicking, logged>>

\* An invalid Host is answered before the audit event exists.
CheckHost(valid) ==
  /\ stage = "host"
  /\ IF valid THEN Goto("lookup")
     ELSE /\ Respond(400)
          /\ stage' = "done"
          /\ UNCHANGED <<proxied, panicking, logged>>
  /\ UNCHANGED <<facts, final, observed, event>>

LookupPolicy(l, mode) ==
  /\ stage = "lookup"
  /\ facts' = [facts EXCEPT !.lookup = l,
                            !.mode = IF l \in {"found", "stale"} THEN mode ELSE "none"]
  /\ CASE l \in {"found", "stale"} ->
            /\ event' = [event EXCEPT !.mode = mode,
                           !.reason = IF l = "stale" THEN "stale" ELSE "none"]
            /\ Goto("body")
            /\ UNCHANGED <<final, observed>>
       [] l = "fail_open" ->           \* returns without a response of its own
            /\ event' = [event EXCEPT !.action = "allow", !.reason = "fail_open"]
            /\ Goto("deferred")
            /\ UNCHANGED <<final, observed>>
       [] l = "fail_closed" -> ReturnWith("block", "fail_closed", 503)
       [] l = "unknown_host" -> ReturnWith("block", "unknown_host", 404)

\* prepareRequestBody
ReadBody(b) ==
  /\ stage = "body"
  /\ facts' = [facts EXCEPT !.body = b]
  /\ IF b = "unreadable" THEN ReturnWith("block", "body_read", 400)
     ELSE /\ Goto("ip")
          /\ UNCHANGED <<final, observed, event>>

\* App.EvaluateIP: the blocklist comes first.
EvaluateIP(inBlock, inAllow) ==
  CASE inBlock = "listed" -> Decision("block", "ip_blocklist", 403)
    [] inBlock # "listed" /\ inAllow = "unlisted" -> Decision("block", "ip_allowlist", 403)
    [] OTHER -> Allow

CheckIP(inBlock, inAllow) ==
  /\ stage = "ip"
  /\ facts' = [facts EXCEPT !.blocklist = inBlock, !.allowlist = inAllow]
  /\ final' = EvaluateIP(inBlock, inAllow)
  /\ Goto("rate_limit")
  /\ UNCHANGED <<observed, event>>

\* evaluateRateLimits answers allow, count or rate_limit, the last with the
\* status_code of the rule, 0 when it has none; then the body limit.
CheckRateLimit(answer, status) ==
  /\ stage = "rate_limit"
  /\ IF final.action # "allow"
     THEN UNCHANGED <<facts, final, observed>>
     ELSE /\ facts' = [facts EXCEPT !.rate = answer]
          /\ observed' = IF answer = "count" THEN Remember("rate_limit") ELSE observed
          /\ final' = CASE answer = "rate_limit" -> Decision("rate_limit", "rate_limit", status)
                        [] answer # "rate_limit" /\ facts.body = "exceeded" ->
                             Decision("block", "body_limit", 403)
                        [] OTHER -> final
  /\ Goto("custom")
  /\ UNCHANGED event

\* The stable order of the rules: lower priority number, then list order.
Before(rules, i, j) ==
  \/ rules[i].priority < rules[j].priority
  \/ rules[i].priority = rules[j].priority /\ i < j

\* The place of rule i in that order.
Position(rules, i) == Cardinality({j \in DOMAIN rules : ~Before(rules, i, j)})

\* parseCustomRules: sort.SliceStable by priority.  Fault: no sort.
BugUnsorted(rules) == rules
ByPriority(rules) ==
  [n \in DOMAIN rules |->
     rules[CHOOSE i \in DOMAIN rules : Position(rules, i) = n]]

\* The loop of App.EvaluateCustomRules, from rule i of the sorted list on;
\* counted: firstCount is set.
EvaluateCustomRules(rules) ==
  LET loop[x \in (1 .. Len(rules) + 1) \X BOOLEAN] ==
        LET i == x[1]
            counted == x[2]
        IN IF i > Len(rules) THEN IF counted THEN "count" ELSE "allow"
           ELSE IF ~rules[i].applies \/ rules[i].action = "allow"
             THEN loop[<<i + 1, counted>>]
           ELSE IF rules[i].action = "count" THEN loop[<<i + 1, TRUE>>]
           ELSE rules[i].action    \* block and terminal_allow return
  IN loop[<<1, FALSE>>]

CheckCustomRules(rules, status) ==
  /\ stage = "custom"
  /\ IF final.action # "allow"
     THEN UNCHANGED <<facts, final, observed>>
     ELSE LET got == EvaluateCustomRules(ByPriority(rules))
          IN /\ facts' = [facts EXCEPT !.rules = rules]
             /\ observed' = IF got = "count" THEN Remember("custom_rule") ELSE observed
             /\ final' = CASE got = "block" -> Decision("block", "custom_rule", status)
                           [] got = "terminal_allow" -> Decision("allow", "custom_rule_allow", 0)
                           [] OTHER -> final
  /\ Goto("waf")
  /\ UNCHANGED event

\* The condition under which the WAF is asked: also after a terminal
\* allow.  Fault: a terminal allow skips it.
BugTerminalSkipsWAF == final.action = "allow" /\ final.reason # "custom_rule_allow"
InspectNow == final.action = "allow"

\* What the Coraza engine's InspectRequest can answer: no match, a match
\* that does not interrupt or under DetectionOnly, an interruption or a
\* disruptive match, an error.  Reason waf_match stands for both reasons.
WafAnswers == {"allow", "count", "block", "error"}

\* The call of Engine.InspectRequest.
InspectRequest(answer) ==
  /\ stage = "waf"
  /\ facts' = IF final.action = "allow" THEN [facts EXCEPT !.waf = answer] ELSE facts
  /\ IF InspectNow /\ answer = "error"
     THEN ReturnWith("block", "waf_error", 400)
     ELSE /\ observed' = IF InspectNow /\ answer = "count"
                         THEN Remember("waf_match") ELSE observed
          /\ final' = IF InspectNow /\ answer = "block"
                      THEN Decision("block", "waf_match", 403) ELSE final
          /\ Goto("default")
          /\ UNCHANGED event

\* app.DefaultAction, unless a custom rule allowed for good; then the
\* first count decision, if nothing decided.
ApplyDefault(default) ==
  /\ stage = "default"
  /\ facts' = [facts EXCEPT !.default = default]
  /\ final' =
       CASE final.action = "allow" /\ final.reason # "custom_rule_allow" /\ default = "block" ->
              Decision("block", "default_action", 403)
         [] final.action = "allow"
            /\ ~(final.reason # "custom_rule_allow" /\ default = "block")
            /\ observed # "none" -> Decision("count", observed, 0)
         [] OTHER -> final
  /\ Goto("enforce")
  /\ UNCHANGED <<observed, event>>

\* decision.EnforcedAction and the condition of the block response.
Denied == facts.mode = "block" /\ WouldBlock(final)

\* event.Enforced.  Fault: it repeats would_block.
BugEnforcedIsIntent == WouldBlock(final)
EnforcedField == facts.mode = "block" /\ WouldBlock(final)

\* ResponseWriter.WriteHeader (net/http): a status below 100 panics.  The
\* informational ones, 100 Continue included and 101 Switching Protocols
\* not, are not final: the body goes out with 200.
Informational == (100 .. 199) \ {101}
Final(status) == IF status \in Informational THEN 200 ELSE status

\* A status of 0 becomes 403.
BlockStatus == IF final.status = 0 THEN 403 ELSE final.status

Enforce ==
  /\ stage = "enforce"
  /\ event' = [event EXCEPT !.action = final.action, !.reason = final.reason,
                            !.wouldBlock = WouldBlock(final),
                            !.enforced = EnforcedField]
  /\ CASE Denied /\ BlockStatus >= 100 ->
            /\ recorded' = BlockStatus
            /\ sent' = Final(BlockStatus)
            /\ stage' = "deferred"
            /\ UNCHANGED panicking
       [] Denied /\ BlockStatus < 100 ->
            /\ recorded' = BlockStatus
            /\ stage' = "deferred"
            /\ panicking' = TRUE
            /\ UNCHANGED sent
       [] ~Denied ->
            /\ stage' = "origin"
            /\ UNCHANGED <<recorded, sent, panicking>>
  /\ UNCHANGED <<facts, final, observed, proxied, logged>>

\* proxy.ServeHTTP: the origin answers, cannot be reached (ErrorHandler),
\* or breaks off after the header, which panics with ErrAbortHandler.
Proxy(outcome) ==
  /\ stage = "origin"
  /\ proxied' = TRUE
  /\ Respond(IF outcome = "unreachable" THEN 502 ELSE 200)
  /\ panicking' = (outcome = "broken")
  /\ stage' = "deferred"
  /\ UNCHANGED <<facts, final, observed, event, logged>>

\* Code called by the handler panics.
Panic ==
  /\ stage \in {"lookup", "body", "ip", "rate_limit", "custom", "waf", "origin"}
  /\ panicking' = TRUE
  /\ stage' = "deferred"
  /\ UNCHANGED <<facts, final, observed, event, recorded, sent, proxied, logged>>

\* The audit function is deferred.  Fault: it is called at the end.
BugLogAtEnd == ~panicking
LogsNow == TRUE

\* Deferred functions run last in, first out: audit, then recover.
Deferred ==
  /\ stage = "deferred"
  /\ event' = [event EXCEPT !.status = recorded]
  /\ logged' = IF LogsNow THEN logged + 1 ELSE logged
  /\ stage' = IF panicking THEN "recover" ELSE "done"
  \* net/http sends 200 for a handler that wrote nothing
  /\ sent' = IF sent = 0 /\ ~panicking THEN 200 ELSE sent
  /\ UNCHANGED <<facts, final, observed, recorded, proxied, panicking>>

\* The outer deferred function writes to w, not to the recorder.
Recover ==
  /\ stage = "recover"
  /\ sent' = IF sent = 0 THEN 500 ELSE sent
  /\ stage' = "done"
  /\ UNCHANGED <<facts, final, observed, event, recorded, proxied, panicking, logged>>

Done == stage = "done" /\ UNCHANGED vars

Next ==
  \/ ServeLocal
  \/ \E valid \in BOOLEAN : CheckHost(valid)
  \/ \E l \in Lookups, mode \in {"count", "block"} : LookupPolicy(l, mode)
  \/ \E b \in {"within", "exceeded", "unreadable"} : ReadBody(b)
  \/ \E inBlock \in {"listed", "unlisted"}, inAllow \in {"empty", "listed", "unlisted"} :
       CheckIP(inBlock, inAllow)
  \/ \E answer \in {"allow", "count", "rate_limit"}, status \in RuleStatuses :
       CheckRateLimit(answer, status)
  \/ \E rules \in RuleLists, status \in RuleStatuses : CheckCustomRules(rules, status)
  \/ \E answer \in WafAnswers : InspectRequest(answer)
  \/ \E default \in {"allow", "block"} : ApplyDefault(default)
  \/ Enforce
  \/ \E outcome \in {"answers", "unreachable", "broken"} : Proxy(outcome)
  \/ Panic
  \/ Deferred
  \/ Recover
  \/ Done

Spec == Init /\ [][Next]_vars

-----------------------------------------------------------------------------
(***************************************************************************)
(* The verdict, stated without the order of evaluation of the code.        *)
(***************************************************************************)

\* The first rule that applies and has one of the given actions.
FirstRule(rules, actions) ==
  {i \in DOMAIN rules :
     /\ rules[i].applies /\ rules[i].action \in actions
     /\ \A j \in DOMAIN rules :
          rules[j].applies /\ rules[j].action \in actions => ~Before(rules, j, i)}

CustomVerdict ==
  {facts.rules[i].action : i \in FirstRule(facts.rules, {"block", "terminal_allow"})}

\* Reasons to deny, each from the facts alone, and their precedence.
Denials ==
  {r \in Reasons :
      \/ r = "ip_blocklist" /\ facts.blocklist = "listed"
      \/ r = "ip_allowlist" /\ facts.allowlist = "unlisted"
      \/ r = "rate_limit" /\ facts.rate = "rate_limit"
      \/ r = "body_limit" /\ facts.body = "exceeded"
      \/ r = "custom_rule" /\ CustomVerdict = {"block"}
      \/ r = "waf_match" /\ facts.waf = "block"
      \/ /\ r = "default_action" /\ facts.default = "block"
         /\ CustomVerdict # {"terminal_allow"}}

DenialOrder == <<"ip_blocklist", "ip_allowlist", "rate_limit", "body_limit",
                 "custom_rule", "waf_match", "default_action">>

\* Reasons to count.
Counts ==
  {r \in Reasons :
      \/ r = "rate_limit" /\ facts.rate = "count"
      \/ /\ r = "custom_rule" /\ CustomVerdict = {}
         /\ FirstRule(facts.rules, {"count"}) # {}
      \/ r = "waf_match" /\ facts.waf = "count"}

CountOrder == <<"rate_limit", "custom_rule", "waf_match">>

\* r is the first entry of order that is in reasons.
IsFirst(r, order, reasons) ==
  /\ r \in reasons
  /\ \E n \in DOMAIN order :
       order[n] = r /\ \A k \in 1 .. n - 1 : order[k] \notin reasons

(***************************************************************************)
(* Properties                                                              *)
(***************************************************************************)

\* The stages of ServeHTTP together compute the verdict: the first reason
\* to deny in the order IP sets, rate limit, body limit, custom rules, WAF,
\* default action; without one the first count match; else allow.  A
\* terminal allow rule overrides later custom rules and the default action
\* and nothing else.
VerdictMatches ==
  stage = "enforce" =>
    CASE Denials # {} ->
           WouldBlock(final) /\ IsFirst(final.reason, DenialOrder, Denials)
      [] Denials = {} /\ Counts # {} ->
           final.action = "count" /\ IsFirst(final.reason, CountOrder, Counts)
      [] OTHER -> final.action = "allow"

\* The mode decides.  In block mode the origin never receives a request
\* there is a reason to deny, on any path through the handler; in count mode
\* no verdict keeps a request from the origin, only a body that cannot be
\* read, a failed inspection or a panic.
DenialHolds ==
  /\ facts.mode = "block" /\ Denials # {} => ~proxied
  /\ stage = "done" /\ facts.mode = "count" =>
       proxied \/ panicking \/ facts.body = "unreadable" \/ facts.waf = "error"

\* The audit event tells what happened.  enforced is true exactly for the
\* requests a verdict refused: the early returns for an unreadable body and
\* a failed inspection refuse without it.  Unless the handler panicked (the
\* 500 is written past the recorder), the status is the one the client got,
\* or an informational status_code of a rule: the recorder keeps that one
\* and the client got 200.
EventTruthful ==
  /\ TypeOK
  /\ stage = "done" =>
       /\ event.enforced => ~proxied
       /\ facts.mode = "block" /\ ~panicking /\ ~proxied =>
            event.enforced \/ facts.body = "unreadable" \/ facts.waf = "error"
       /\ logged = 1 /\ ~panicking =>
            \/ event.status \notin Informational /\ sent = event.status
            \/ event.status \in Informational /\ sent = 200

\* Every request with a valid Host is logged once, on every early return
\* and when the handler panics; but /healthz and /metrics never are.
AuditedOnce ==
  stage = "done" =>
    \/ logged = 1
    \/ logged = 0 /\ facts.lookup = "?" /\ sent \in {200, 400}

\* Documented: fail_open allows the request.
FailOpenAllows ==
  stage = "done" /\ facts.lookup = "fail_open" => proxied
=============================================================================
